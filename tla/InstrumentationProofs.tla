----------------------- MODULE InstrumentationProofs -----------------------
(***************************************************************************)
(* What holds of every program that instruments itself, however it names its *)
(* metrics.                                                                 *)
(*                                                                          *)
(* Identity: the hashes of desc.rs tell exactly what they should apart, for  *)
(* every list of strings and for every descriptor a program can make.  First *)
(* what joining, sorting and the separator do to sequences of any length,    *)
(* then what is hashed of a descriptor and can be read back from it, then    *)
(* that every collector keeps the descriptor it was made with.              *)
(*                                                                          *)
(* Gathering: what comes out of the registry.  First the labels of a metric    *)
(* from its options on, then what register leaves, then the fields of messages  *)
(* in both builds, then gather from what is collected to what goes out.      *)
(*                                                                          *)
(* Structs: the code that the macros of static-metric generate.  Where the   *)
(* fields of a struct are and how large it is, then that no two ways through *)
(* the structs lead to one address, then which leaves a root has and a flush *)
(* visits, then what holds of a program from its compilation on, and last    *)
(* which children its vector has and what is added up in them.              *)
(***************************************************************************)
EXTENDS Scrape, StaticMetric, SumLemmas, SequenceTheorems, FiniteSetTheorems, TLAPS

\* Induction over the natural numbers: a set that has none missing has all.
LEMMA AllNumbers ==
    ASSUME NEW G \in SUBSET Nat, 0 \in G, \A n \in G : n + 1 \in G
    PROVE  \A n \in Nat : n \in G
<1> DEFINE B == Nat \ G
<1> SUFFICES ASSUME B # {} PROVE FALSE
  OBVIOUS
<1>1. PICK n \in B : \A m \in B : ~(<<m, n>> \in OpToRel(<, Nat))
  <2>1. B \subseteq Nat
    OBVIOUS
  <2> HIDE DEF B
  <2>2. QED
    BY <2>1, NatLessThanWellFounded, WFMin
<1>2. n \in Nat /\ n # 0 /\ n - 1 \in Nat /\ n - 1 < n /\ (n - 1) + 1 = n
  OBVIOUS
<1>3. n - 1 \notin B
  <2>1. <<n - 1, n>> \in OpToRel(<, Nat)
    BY <1>2 DEF OpToRel
  <2>2. QED
    BY <2>1, <1>1
<1>4. QED
  BY <1>2, <1>3

\* The N steps F stay in A, and g is what they make of a.
Stay(F, N, A) == \A i \in 1 .. N : \A x \in A : F[i][x] \in A
Run(g, a, F, N, A) == /\ g \in [0 .. N -> A]
                      /\ g[0] = a
                      /\ \A i \in 1 .. N : g[i] = F[i][g[i - 1]]

\* Steps that stay in A can be taken one after the other.
LEMMA StepsExist ==
    ASSUME NEW A, NEW a \in A, NEW N \in Nat, NEW F, Stay(F, N, A)
    PROVE  \E g : Run(g, a, F, N, A)
<1> DEFINE Goes(g, n) == Run(g, a, F, n, A)
           G == {n \in Nat : n <= N => \E g : Goes(g, n)}
<1>1. 0 \in G
  <2>1. Goes([i \in 0 .. 0 |-> a], 0)
    BY DEF Run
  <2>2. QED
    BY <2>1
<1>2. ASSUME NEW n \in G PROVE n + 1 \in G
  <2> SUFFICES ASSUME n + 1 <= N PROVE \E g : Goes(g, n + 1)
    OBVIOUS
  <2>1. n \in Nat /\ n <= N
    OBVIOUS
  <2>2. PICK g : Goes(g, n)
    BY <2>1
  <2>3. g \in [0 .. n -> A] /\ g[0] = a /\ \A i \in 1 .. n : g[i] = F[i][g[i - 1]]
    BY <2>2 DEF Run
  <2> DEFINE h == [i \in 0 .. (n + 1) |-> IF i = n + 1 THEN F[n + 1][g[n]] ELSE g[i]]
  <2>4. h \in [0 .. (n + 1) -> A]
    <3>1. g[n] \in A /\ n + 1 \in 1 .. N
      BY <2>1, <2>3
    <3>2. F[n + 1][g[n]] \in A
      BY <3>1 DEF Stay
    <3>3. QED
      BY <3>2, <2>1, <2>3
  <2>5. h[0] = a
    BY <2>1, <2>3
  <2>6. ASSUME NEW i \in 1 .. (n + 1) PROVE h[i] = F[i][h[i - 1]]
    <3>1. i - 1 \in 0 .. n /\ h[i - 1] = g[i - 1]
      BY <2>1
    <3>2. CASE i = n + 1
      BY <3>1, <3>2, <2>1
    <3>3. CASE i # n + 1
      <4>1. i \in 1 .. n
        BY <3>3, <2>1
      <4>2. h[i] = g[i] /\ g[i] = F[i][g[i - 1]]
        BY <4>1, <2>1, <2>3
      <4>3. QED
        BY <4>2, <3>1
    <3>4. QED
      BY <3>2, <3>3
  <2>7. Goes(h, n + 1)
    BY <2>4, <2>5, <2>6 DEF Run
  <2>8. QED
    BY <2>7
<1>3. N \in G
  <2> HIDE DEF G
  <2>1. G \subseteq Nat
    BY DEF G
  <2>2. QED
    BY <2>1, <1>1, <1>2, AllNumbers
<1>4. QED
  BY <1>3

-----------------------------------------------------------------------------
\* f is the function by which FlattenSeq joins the sequences of b.
Flattens(f, b) == f = [i \in 1 .. Len(b) |-> IF i = 1 THEN b[i] ELSE f[i - 1] \o b[i]]

\* FlattenSeq is the last value of that function.
LEMMA FlattenDef ==
    ASSUME NEW b
    PROVE  /\ Len(b) = 0 => FlattenSeq(b) = b
           /\ Len(b) # 0 => FlattenSeq(b) = (CHOOSE f : Flattens(f, b))[Len(b)]
BY DEF FlattenSeq, Flattens

\* Joining sequences is appending them to << >> one after the other.
LEMMA FlattenSteps ==
    ASSUME NEW X, NEW b \in Seq(Seq(X))
    PROVE  \E g \in [0 .. Len(b) -> Seq(X)] :
              /\ g[0] = << >>
              /\ \A i \in 1 .. Len(b) : g[i] = g[i - 1] \o b[i]
              /\ FlattenSeq(b) = g[Len(b)]
<1> DEFINE N == Len(b)
           F == [i \in 1 .. N |-> [x \in Seq(X) |-> x \o b[i]]]
<1>1. N \in Nat /\ \A i \in 1 .. N : b[i] \in Seq(X)
  OBVIOUS
<1>2. PICK g : Run(g, << >>, F, N, Seq(X))
  <2>1. Stay(F, N, Seq(X)) /\ << >> \in Seq(X)
    BY <1>1 DEF Stay
  <2> HIDE DEF F, N
  <2>2. QED
    BY <2>1, <1>1, StepsExist
<1>3. g \in [0 .. N -> Seq(X)] /\ g[0] = << >> /\ \A i \in 1 .. N : g[i] = F[i][g[i - 1]]
  BY <1>2 DEF Run
<1>4. \A i \in 1 .. N : g[i] = g[i - 1] \o b[i]
  <2> SUFFICES ASSUME NEW i \in 1 .. N PROVE g[i] = g[i - 1] \o b[i]
    OBVIOUS
  <2>1. i - 1 \in 0 .. N
    BY <1>1
  <2>2. g[i - 1] \in Seq(X)
    BY <2>1, <1>3
  <2>3. F[i][g[i - 1]] = g[i - 1] \o b[i]
    BY <2>2
  <2>4. QED
    BY <1>3, <2>3
<1>5. ASSUME 1 \in 1 .. N PROVE g[1] = b[1]
  <2>1. ASSUME NEW i \in 1 .. N, NEW j, j = i - 1 PROVE g[i] = g[j] \o b[i]
    BY <2>1, <1>4
  <2>2. 0 = 1 - 1
    OBVIOUS
  <2>3. g[1] = g[0] \o b[1]
    BY <2>1, <2>2, <1>5
  <2>4. g[1] = << >> \o b[1]
    BY <2>3, <1>3
  <2>5. b[1] \in Seq(X)
    BY <1>1, <1>5
  <2>6. QED
    BY <2>4, <2>5
<1>6. CASE N = 0
  <2>1. b = << >>
    BY <1>6
  <2>2. FlattenSeq(b) = b
    BY <1>6, FlattenDef
  <2>3. QED
    BY <2>1, <2>2, <1>3, <1>4, <1>6
<1>7. CASE N # 0
  <2> DEFINE h == [i \in 1 .. N |-> g[i]]
             c == CHOOSE f : Flattens(f, b)
  <2>1. Flattens(h, b)
    <3>1. ASSUME NEW i \in 1 .. N PROVE g[i] = IF i = 1 THEN b[i] ELSE h[i - 1] \o b[i]
      <4>1. CASE i = 1
        BY <4>1, <1>5
      <4>2. CASE i # 1
        <5>1. i - 1 \in 1 .. N
          BY <4>2, <1>1
        <5>2. QED
          BY <4>2, <5>1, <1>4
      <4>3. QED
        BY <4>1, <4>2
    <3>2. QED
      BY <3>1 DEF Flattens
  <2>2. Flattens(c, b)
    BY <2>1
  <2> HIDE DEF c, h
  <2>3. \A i \in 1 .. N : c[i] = IF i = 1 THEN b[i] ELSE c[i - 1] \o b[i]
    BY <2>2 DEF Flattens
  <2> DEFINE G == {n \in Nat : n + 1 \in 1 .. N => c[n + 1] = g[n + 1]}
  <2>4. 0 \in G
    <3>1. 1 \in 1 .. N
      BY <1>7, <1>1
    <3>2. c[1] = b[1]
      BY <3>1, <2>3
    <3>3. QED
      BY <3>1, <3>2, <1>5
  <2>5. ASSUME NEW n \in G PROVE n + 1 \in G
    <3> SUFFICES ASSUME (n + 1) + 1 \in 1 .. N PROVE c[(n + 1) + 1] = g[(n + 1) + 1]
      OBVIOUS
    <3>1. n \in Nat /\ n + 1 \in 1 .. N /\ (n + 1) + 1 # 1 /\ ((n + 1) + 1) - 1 = n + 1
      BY <1>1
    <3>2. c[n + 1] = g[n + 1]
      BY <3>1
    <3> DEFINE m == (n + 1) + 1
    <3>3. c[m] = c[m - 1] \o b[m]
      BY <3>1, <2>3
    <3>4. g[m] = g[m - 1] \o b[m]
      BY <1>4
    <3>5. QED
      BY <3>1, <3>2, <3>3, <3>4
  <2>6. \A n \in Nat : n \in G
    <3>1. G \subseteq Nat
      OBVIOUS
    <3> HIDE DEF G
    <3>2. QED
      BY <3>1, <2>4, <2>5, AllNumbers
  <2>7. c[N] = g[N]
    <3>1. N - 1 \in Nat /\ (N - 1) + 1 = N /\ N \in 1 .. N
      BY <1>1, <1>7
    <3>2. N - 1 \in G
      BY <3>1, <2>6
    <3>3. QED
      BY <3>1, <3>2
  <2>8. FlattenSeq(b) = c[N]
    BY <1>7, FlattenDef DEF c
  <2>9. QED
    BY <2>7, <2>8, <1>3, <1>4
<1>8. QED
  BY <1>6, <1>7

-----------------------------------------------------------------------------
\* All of them are strings, of which the provers know no single one.
Character == STRING \cup Letters \cup Digits \cup {"_", ":", "$", SEPARATOR_BYTE}

\* The strings without a separator.
Separable == {s \in Seq(Character) : \A i \in DOMAIN s : s[i] # SEPARATOR_BYTE}

\* o says where in w each of the strings of a ends: after its characters comes
\* the separator.
Layout(o, w, a) ==
    /\ o \in [0 .. Len(a) -> Nat]
    /\ o[0] = 0 /\ o[Len(a)] = Len(w)
    /\ \A i \in 1 .. Len(a) :
          /\ o[i] = o[i - 1] + Len(a[i]) + 1
          /\ o[i] <= Len(w)
          /\ \A k \in 1 .. Len(a[i]) : w[o[i - 1] + k] = a[i][k]
          /\ w[o[i]] = SEPARATOR_BYTE

\* A string of a hasher's input and the separator after it.
LEMMA Separated ==
    ASSUME NEW a \in Seq(Separable), NEW i \in 1 .. Len(a)
    PROVE  /\ a[i] \in Seq(Character) /\ a[i] \in Separable /\ Len(a[i]) \in Nat
           /\ Append(a[i], SEPARATOR_BYTE) \in Seq(Character)
           /\ Len(Append(a[i], SEPARATOR_BYTE)) = Len(a[i]) + 1
           /\ \A k \in 1 .. Len(a[i]) : Append(a[i], SEPARATOR_BYTE)[k] = a[i][k]
           /\ Append(a[i], SEPARATOR_BYTE)[Len(a[i]) + 1] = SEPARATOR_BYTE
<1>1. a[i] \in Separable
  BY ElementOfSeq
<1>2. a[i] \in Seq(Character)
  BY <1>1 DEF Separable
<1>3. SEPARATOR_BYTE \in Character
  BY DEF Character
<1> HIDE DEF SEPARATOR_BYTE
<1>4. Len(a[i]) \in Nat
  BY <1>2, LenProperties
<1>5. QED
  BY <1>1, <1>2, <1>3, <1>4, AppendProperties

\* What the hasher is given holds every string where the layout says.
LEMMA HashedLayout ==
    ASSUME NEW a \in Seq(Separable)
    PROVE  Hashed(a) \in Seq(Character) /\ \E o : Layout(o, Hashed(a), a)
<1> DEFINE N == Len(a)
           b == [i \in 1 .. N |-> Append(a[i], SEPARATOR_BYTE)]
<1>1. N \in Nat /\ DOMAIN a = 1 .. N
  BY LenProperties
<1>2. b \in Seq(Seq(Character)) /\ Len(b) = N
  <2>1. \A i \in 1 .. N : Append(a[i], SEPARATOR_BYTE) \in Seq(Character)
    BY Separated
  <2>2. b \in [1 .. N -> Seq(Character)]
    BY <2>1
  <2>3. QED
    BY <2>2, <1>1
<1>3. Hashed(a) = FlattenSeq(b)
  BY <1>1 DEF Hashed
<1>4. \A i \in 1 .. N : b[i] = Append(a[i], SEPARATOR_BYTE)
  OBVIOUS
<1> HIDE DEF b
<1>5. PICK g \in [0 .. N -> Seq(Character)] :
          /\ g[0] = << >>
          /\ \A i \in 1 .. N : g[i] = g[i - 1] \o b[i]
          /\ Hashed(a) = g[N]
  <2>1. \E g \in [0 .. Len(b) -> Seq(Character)] :
           /\ g[0] = << >>
           /\ \A i \in 1 .. Len(b) : g[i] = g[i - 1] \o b[i]
           /\ FlattenSeq(b) = g[Len(b)]
    BY <1>2, FlattenSteps
  <2>2. QED
    BY <2>1, <1>2, <1>3
<1>6. ASSUME NEW i \in 1 .. N
      PROVE  /\ i - 1 \in 0 .. N
             /\ g[i - 1] \in Seq(Character) /\ Len(g[i - 1]) \in Nat
             /\ b[i] \in Seq(Character)
             /\ Len(g[i]) = Len(g[i - 1]) + (Len(a[i]) + 1)
             /\ \A k \in 1 .. Len(g[i - 1]) : g[i][k] = g[i - 1][k]
             /\ \A k \in 1 .. Len(a[i]) : g[i][Len(g[i - 1]) + k] = a[i][k]
             /\ g[i][Len(g[i])] = SEPARATOR_BYTE
  <2> DEFINE x == g[i - 1]
             y == b[i]
             m == Len(x)
             n == Len(a[i])
  <2>1. i - 1 \in 0 .. N
    BY <1>1
  <2>2. x \in Seq(Character) /\ m \in Nat
    BY <2>1, <1>5, LenProperties
  <2>3. /\ n \in Nat
        /\ y \in Seq(Character) /\ Len(y) = n + 1
        /\ \A k \in 1 .. n : y[k] = a[i][k]
        /\ y[n + 1] = SEPARATOR_BYTE
    BY <1>4, Separated
  <2>4. g[i] = x \o y
    BY <1>5
  <2> HIDE DEF x, y
  <2>5. /\ Len(g[i]) = m + (n + 1)
        /\ \A k \in 1 .. m + (n + 1) : g[i][k] = IF k <= m THEN x[k] ELSE y[k - m]
    <3>1. x \in Seq(Character) /\ y \in Seq(Character) /\ Len(x) = m /\ Len(y) = n + 1
      BY <2>2, <2>3
    <3> HIDE DEF m, n
    <3>2. /\ Len(x \o y) = Len(x) + Len(y)
          /\ \A k \in 1 .. Len(x) + Len(y) :
                (x \o y)[k] = IF k <= Len(x) THEN x[k] ELSE y[k - Len(x)]
      BY <3>1, ConcatProperties
    <3>3. QED
      BY <3>1, <3>2, <2>4
  <2> HIDE DEF m, n
  <2>6. \A k \in 1 .. m : g[i][k] = x[k]
    BY <2>5, <2>2, <2>3
  <2>7. ASSUME NEW k \in 1 .. n PROVE g[i][m + k] = a[i][k]
    <3>1. m + k \in 1 .. m + (n + 1) /\ ~(m + k <= m) /\ (m + k) - m = k
      BY <2>2, <2>3
    <3>2. QED
      BY <3>1, <2>5, <2>3
  <2>8. g[i][m + (n + 1)] = SEPARATOR_BYTE
    <3>1. m + (n + 1) \in 1 .. m + (n + 1) /\ ~(m + (n + 1) <= m)
             /\ (m + (n + 1)) - m = n + 1
      BY <2>2, <2>3
    <3>2. QED
      BY <3>1, <2>5, <2>3
  <2>9. QED
    BY <2>1, <2>2, <2>3, <2>5, <2>6, <2>7, <2>8 DEF x, y, m, n
<1> DEFINE o == [i \in 0 .. N |-> Len(g[i])]
<1>7. o \in [0 .. N -> Nat] /\ o[0] = 0 /\ o[N] = Len(g[N])
  BY <1>5, <1>1, LenProperties
\* What has been written stays.
<1> DEFINE Stays(i, j) == /\ Len(g[i]) <= Len(g[j])
                          /\ \A k \in 1 .. Len(g[i]) : g[j][k] = g[i][k]
           G == {j \in Nat : j <= N => \A i \in 0 .. j : Stays(i, j)}
<1>8. \A j \in Nat : j \in G
  <2>1. \A i \in 0 .. N : Len(g[i]) \in Nat
    BY <1>5, LenProperties
  <2>2. 0 \in G
    BY <1>5, <2>1, <1>1
  <2>3. ASSUME NEW j \in G PROVE j + 1 \in G
    <3> SUFFICES ASSUME j + 1 <= N, NEW i \in 0 .. (j + 1) PROVE Stays(i, j + 1)
      OBVIOUS
    <3>1. j \in Nat /\ j + 1 \in 1 .. N /\ (j + 1) - 1 = j /\ i \in 0 .. N /\ j \in 0 .. N
      BY <1>1
    <3>2. CASE i = j + 1
      BY <3>2, <3>1, <2>1
    <3>3. CASE i # j + 1
      <4>1. Stays(i, j)
        BY <3>1, <3>3
      <4> DEFINE e == j + 1
      <4>2. /\ Len(g[e]) = Len(g[j]) + (Len(a[e]) + 1)
            /\ \A k \in 1 .. Len(g[j]) : g[e][k] = g[j][k]
        <5>1. e \in 1 .. N /\ e - 1 = j
          BY <3>1
        <5> HIDE DEF e
        <5>2. /\ Len(g[e]) = Len(g[e - 1]) + (Len(a[e]) + 1)
              /\ \A k \in 1 .. Len(g[e - 1]) : g[e][k] = g[e - 1][k]
          BY <5>1, <1>6
        <5>3. QED
          BY <5>1, <5>2
      <4>3. Len(a[e]) \in Nat
        BY <3>1, Separated
      <4>4. Len(g[i]) \in Nat /\ Len(g[j]) \in Nat
        BY <3>1, <2>1
      <4>5. Len(g[i]) <= Len(g[j + 1])
        <5> DEFINE p == Len(g[i])
                   q == Len(g[j])
                   n == Len(a[e])
                   r == Len(g[e])
        <5>1. p \in Nat /\ q \in Nat /\ n \in Nat /\ p <= q /\ r = q + (n + 1)
          BY <4>1, <4>2, <4>3, <4>4
        <5> HIDE DEF p, q, n, r
        <5>2. p <= r
          BY <5>1
        <5>3. QED
          BY <5>2 DEF p, r
      <4>6. ASSUME NEW k \in 1 .. Len(g[i]) PROVE g[j + 1][k] = g[i][k]
        <5>1. k \in 1 .. Len(g[j])
          BY <4>1, <4>4
        <5>2. QED
          BY <5>1, <4>1, <4>2
      <4>7. QED
        BY <4>5, <4>6
    <3>4. QED
      BY <3>2, <3>3
  <2>4. G \subseteq Nat
    OBVIOUS
  <2> HIDE DEF G
  <2>5. QED
    BY <2>2, <2>3, <2>4, AllNumbers
<1>9. ASSUME NEW i \in 0 .. N
      PROVE  /\ Len(g[i]) \in Nat
             /\ Len(g[i]) <= Len(g[N])
             /\ \A k \in 1 .. Len(g[i]) : g[N][k] = g[i][k]
  BY <1>8, <1>1, <1>5, LenProperties
<1>10. ASSUME NEW i \in 1 .. N
       PROVE  /\ o[i] = o[i - 1] + Len(a[i]) + 1
              /\ o[i] <= Len(g[N])
              /\ \A k \in 1 .. Len(a[i]) : g[N][o[i - 1] + k] = a[i][k]
              /\ g[N][o[i]] = SEPARATOR_BYTE
  <2> DEFINE p == Len(g[i - 1])
             q == Len(g[i])
             n == Len(a[i])
  <2>1. i - 1 \in 0 .. N /\ i \in 0 .. N /\ p \in Nat /\ q \in Nat /\ n \in Nat
    BY <1>6, <1>9, <1>1, Separated
  <2>2. o[i] = q /\ o[i - 1] = p
    BY <2>1
  <2>3. /\ q = p + (n + 1)
        /\ \A k \in 1 .. n : g[i][p + k] = a[i][k]
        /\ g[i][q] = SEPARATOR_BYTE
    BY <1>6
  <2>4. q <= Len(g[N]) /\ \A k \in 1 .. q : g[N][k] = g[i][k]
    BY <2>1, <1>9
  <2> HIDE DEF o, p, q, n
  <2>5. ASSUME NEW k \in 1 .. n PROVE g[N][p + k] = a[i][k]
    <3>1. p + k \in 1 .. q
      BY <2>1, <2>3
    <3>2. QED
      BY <3>1, <2>3, <2>4
  <2>6. q \in 1 .. q
    BY <2>1, <2>3
  <2>7. g[N][q] = SEPARATOR_BYTE
    BY <2>6, <2>3, <2>4
  <2>8. q = p + n + 1
    BY <2>1, <2>3
  <2>9. QED
    BY <2>2, <2>4, <2>5, <2>7, <2>8 DEF n
<1>11. Layout(o, Hashed(a), a)
  <2> HIDE DEF o
  <2>1. QED
    BY <1>5, <1>7, <1>10 DEF Layout
<1>12. Hashed(a) \in Seq(Character)
  BY <1>5, <1>1
<1>13. QED
  BY <1>11, <1>12

\* Of two lists of strings in the same place, the strings of the one are those
\* the other begins with.
LEMMA LayoutDecides ==
    ASSUME NEW w, Len(w) \in Nat, NEW a \in Seq(Separable), NEW b \in Seq(Separable),
           NEW o, NEW q, Layout(o, w, a), Layout(q, w, b)
    PROVE  Len(a) <= Len(b) /\ \A i \in 1 .. Len(a) : a[i] = b[i]
<1> DEFINE Same(n) == /\ n <= Len(b)
                      /\ o[n] = q[n]
                      /\ \A i \in 1 .. n : a[i] = b[i]
           G == {n \in Nat : n <= Len(a) => Same(n)}
<1>1. Len(a) \in Nat /\ Len(b) \in Nat
  BY LenProperties
<1>2. 0 \in G
  BY <1>1 DEF Layout
<1>3. ASSUME NEW m \in G PROVE m + 1 \in G
  <2> SUFFICES ASSUME m + 1 <= Len(a) PROVE Same(m + 1)
    OBVIOUS
  <2> DEFINE n == m + 1
             x == Len(a[n])
             y == Len(b[n])
             p == o[m]
  <2>1. m \in Nat /\ Same(m)
    BY <1>1
  <2>2. n \in 1 .. Len(a) /\ n - 1 = m /\ m \in 0 .. Len(a) /\ m \in 0 .. Len(b)
    BY <2>1, <1>1
  <2>3. p \in Nat /\ q[m] = p
    BY <2>1, <2>2 DEF Layout
  <2>4. a[n] \in Separable /\ a[n] \in Seq(Character) /\ x \in Nat
    BY <2>2, Separated
  <2>5. /\ o[n] = p + x + 1
        /\ o[n] <= Len(w)
        /\ \A k \in 1 .. x : w[p + k] = a[n][k]
        /\ w[o[n]] = SEPARATOR_BYTE
    <3> HIDE DEF n
    <3>1. /\ o[n] = o[n - 1] + x + 1
          /\ o[n] <= Len(w)
          /\ \A k \in 1 .. x : w[o[n - 1] + k] = a[n][k]
          /\ w[o[n]] = SEPARATOR_BYTE
      BY <2>2 DEF Layout
    <3>2. QED
      BY <3>1, <2>2
  <2>6. m # Len(b)
    <3> SUFFICES ASSUME m = Len(b) PROVE FALSE
      OBVIOUS
    <3>1. p = Len(w)
      BY <2>3 DEF Layout
    <3> HIDE DEF p, x, n
    <3>2. QED
      BY <3>1, <2>3, <2>4, <2>5
  <2>7. n <= Len(b) /\ n \in 1 .. Len(b)
    BY <2>1, <2>6, <1>1
  <2>8. b[n] \in Separable /\ b[n] \in Seq(Character) /\ y \in Nat
    BY <2>7, Separated
  <2>9. /\ q[n] = p + y + 1
        /\ \A k \in 1 .. y : w[p + k] = b[n][k]
        /\ w[q[n]] = SEPARATOR_BYTE
    <3> HIDE DEF n
    <3>1. /\ q[n] = q[n - 1] + y + 1
          /\ \A k \in 1 .. y : w[q[n - 1] + k] = b[n][k]
          /\ w[q[n]] = SEPARATOR_BYTE
      BY <2>7 DEF Layout
    <3>2. QED
      BY <3>1, <2>2, <2>3
  <2>10. /\ \A k \in 1 .. x : a[n][k] # SEPARATOR_BYTE
         /\ \A k \in 1 .. y : b[n][k] # SEPARATOR_BYTE
    BY <2>4, <2>8, LenProperties DEF Separable
  <2> HIDE DEF n, x, y, p
  <2>11. x = y
    <3>1. ~(x < y)
      <4> SUFFICES ASSUME x < y PROVE FALSE
        OBVIOUS
      <4>1. x + 1 \in 1 .. y /\ p + (x + 1) = p + x + 1
        BY <2>3, <2>4, <2>8
      <4>2. w[p + (x + 1)] = b[n][x + 1]
        BY <4>1, <2>9
      <4>3. QED
        BY <4>1, <4>2, <2>5, <2>10
    <3>2. ~(y < x)
      <4> SUFFICES ASSUME y < x PROVE FALSE
        OBVIOUS
      <4>1. y + 1 \in 1 .. x /\ p + (y + 1) = p + y + 1
        BY <2>3, <2>4, <2>8
      <4>2. w[p + (y + 1)] = a[n][y + 1]
        BY <4>1, <2>5
      <4>3. QED
        BY <4>1, <4>2, <2>9, <2>10
    <3>3. QED
      BY <3>1, <3>2, <2>4, <2>8
  <2>12. a[n] = b[n]
    <3>1. \A k \in 1 .. x : a[n][k] = b[n][k]
      BY <2>5, <2>9, <2>11
    <3>2. QED
      BY <3>1, <2>4, <2>8, <2>11, SeqEqual DEF x, y
  <2>13. o[n] = q[n]
    BY <2>5, <2>9, <2>11
  <2>14. \A i \in 1 .. n : i = n \/ i \in 1 .. m
    BY <2>1 DEF n
  <2>15. \A i \in 1 .. n : a[i] = b[i]
    BY <2>1, <2>12, <2>14
  <2>16. QED
    BY <2>7, <2>13, <2>15 DEF n
<1>4. Len(a) \in G
  <2>1. G \subseteq Nat
    OBVIOUS
  <2> HIDE DEF G
  <2>2. QED
    BY <2>1, <1>1, <1>2, <1>3, AllNumbers
<1>5. QED
  BY <1>4, <1>1

\* Lists of strings that the hasher is given the same bytes for are the same.
LEMMA SeparableInjective ==
    ASSUME NEW a \in Seq(Separable), NEW b \in Seq(Separable), Hashed(a) = Hashed(b)
    PROVE  a = b
<1> DEFINE w == Hashed(a)
<1>1. w \in Seq(Character) /\ Len(w) \in Nat
  BY HashedLayout, LenProperties
<1>2. PICK o : Layout(o, w, a)
  BY HashedLayout
<1>3. PICK q : Layout(q, w, b)
  BY HashedLayout
<1> HIDE DEF w
<1>4. Len(a) <= Len(b) /\ \A i \in 1 .. Len(a) : a[i] = b[i]
  BY <1>1, <1>2, <1>3, LayoutDecides
<1>5. Len(b) <= Len(a)
  BY <1>1, <1>2, <1>3, LayoutDecides
<1>6. Len(a) = Len(b)
  BY <1>4, <1>5, LenProperties
<1>7. QED
  BY <1>4, <1>6, SeqEqual

\* A String of the program has no separator in it.
LEMMA TextIsSeparable == Text \subseteq Separable
<1>1. STRING \subseteq Character
  BY DEF Character
<1>2. \A s \in Seq(STRING) : s \in Seq(Character)
  BY <1>1, SeqMonotonic
<1>3. QED
  BY <1>2 DEF Text, Separable

\* desc.rs, Desc::new: the hasher is given every string with the byte 0xFF after
\* it, so that lists of strings with the same bytes are the same list, however
\* the strings are cut.
THEOREM HashedInjective ==
    ASSUME NEW a \in Seq(Text), NEW b \in Seq(Text), Hashed(a) = Hashed(b)
    PROVE  a = b
<1>1. a \in Seq(Separable) /\ b \in Seq(Separable)
  BY TextIsSeparable, SeqMonotonic
<1>2. QED
  BY <1>1, SeparableInjective

-----------------------------------------------------------------------------
\* Every element of S, each once.
EachOnce(s, S) == s \in Seq(S) /\ ToSet(s) = S /\ IsInjective(s)

\* As many different elements of a finite set as there are are all of them.
LEMMA DifferentAreAll ==
    ASSUME NEW S, IsFiniteSet(S), NEW f \in [1 .. Cardinality(S) -> S], IsInjective(f)
    PROVE  EachOnce(f, S)
<1> DEFINE n == Cardinality(S)
<1>1. n \in Nat
  BY FS_CardinalityType
<1>2. f \in Surjection(1 .. n, S)
  <2>1. f \in Injection(1 .. n, S)
    BY DEF Injection
  <2>2. Cardinality(1 .. n) = Cardinality(S)
    BY <1>1, FS_Interval
  <2>3. QED
    BY <2>1, <2>2, FS_Injection
<1> HIDE DEF n
<1>3. f \in [1 .. n -> S]
  BY DEF n
<1>4. f \in Seq(S) /\ DOMAIN f = 1 .. n
  BY <1>1, <1>3
<1>5. \A x \in S : \E i \in 1 .. n : f[i] = x
  BY <1>2 DEF Surjection
<1>6. ToSet(f) = S
  BY <1>3, <1>4, <1>5 DEF ToSet
<1>7. QED
  BY <1>4, <1>6 DEF EachOnce

\* SetToSeq lists the elements of a finite set, each once.
LEMMA ListedAll ==
    ASSUME NEW S, IsFiniteSet(S)
    PROVE  EachOnce(SetToSeq(S), S) /\ SetToSeq(S) \in [1 .. Cardinality(S) -> S]
<1> DEFINE n == Cardinality(S)
           f == CHOOSE f \in [1 .. n -> S] : IsInjective(f)
<1>1. n \in Nat /\ ExistsBijection(1 .. n, S)
  BY FS_CardinalityType
<1>2. PICK b : b \in Bijection(1 .. n, S)
  BY <1>1 DEF ExistsBijection
<1>3. b \in [1 .. n -> S] /\ IsInjective(b)
  BY <1>2 DEF Bijection, Injection
<1>4. f \in [1 .. n -> S] /\ IsInjective(f)
  BY <1>3
<1>5. SetToSeq(S) = f
  BY DEF SetToSeq
<1> HIDE DEF f
<1>6. QED
  BY <1>4, <1>5, DifferentAreAll

\* A list of what is in it.
List(s) == s \in Seq(ToSet(s))

\* t is s in another order.
Shuffled(t, s) ==
    /\ List(t) /\ Len(t) = Len(s)
    /\ \E p \in [1 .. Len(s) -> 1 .. Len(s)] :
          IsInjective(p) /\ \A i \in 1 .. Len(s) : t[i] = s[p[i]]

\* s with x behind its first n elements.
PutBehind(s, n, x) == SubSeq(s, 1, n) \o <<x>> \o SubSeq(s, n + 1, Len(s))

\* Where the elements are when one has been put among them.
LEMMA PutAmong ==
    ASSUME NEW S, NEW s \in Seq(S), NEW x \in S, NEW n \in 0 .. Len(s)
    PROVE  /\ PutBehind(s, n, x) \in Seq(S)
           /\ Len(PutBehind(s, n, x)) = Len(s) + 1
           /\ \A i \in 1 .. Len(s) + 1 :
                 PutBehind(s, n, x)[i] =
                    IF i <= n THEN s[i] ELSE IF i = n + 1 THEN x ELSE s[i - 1]
<1> DEFINE l == SubSeq(s, 1, n)
           r == SubSeq(s, n + 1, Len(s))
           m == <<x>>
<1>1. Len(s) \in Nat /\ n \in Nat /\ n <= Len(s)
  BY LenProperties
<1>2. l \in Seq(S) /\ Len(l) = n /\ \A i \in 1 .. n : l[i] = s[i]
  <2>1. \A i \in 1 .. n : s[i] \in S
    BY <1>1
  <2>2. QED
    BY <1>1, <2>1, SubSeqProperties
<1>3. r \in Seq(S) /\ Len(r) = Len(s) - n /\ \A i \in 1 .. Len(r) : r[i] = s[n + i]
  <2>1. \A i \in n + 1 .. Len(s) : s[i] \in S
    BY <1>1
  <2>2. n + 1 \in Int /\ Len(s) \in Int
    BY <1>1
  <2>3. /\ r \in Seq(S)
        /\ Len(r) = IF n + 1 <= Len(s) THEN Len(s) - (n + 1) + 1 ELSE 0
        /\ \A i \in 1 .. Len(s) - (n + 1) + 1 : r[i] = s[n + 1 + i - 1]
    BY <2>1, <2>2, SubSeqProperties
  <2> HIDE DEF r
  <2>4. Len(r) = Len(s) - n
    BY <2>3, <1>1
  <2>5. ASSUME NEW i \in 1 .. Len(r) PROVE r[i] = s[n + i]
    <3>1. i \in 1 .. Len(s) - (n + 1) + 1 /\ n + 1 + i - 1 = n + i
      BY <2>4, <1>1
    <3>2. QED
      BY <3>1, <2>3
  <2>6. QED
    BY <2>3, <2>4, <2>5
<1>4. m \in Seq(S) /\ Len(m) = 1 /\ m[1] = x
  OBVIOUS
<1>5. PutBehind(s, n, x) = (l \o m) \o r
  BY DEF PutBehind
<1> HIDE DEF l, r, m
<1> DEFINE lm == l \o m
<1>6. /\ lm \in Seq(S) /\ Len(lm) = n + 1
      /\ \A i \in 1 .. n + 1 : lm[i] = IF i <= n THEN l[i] ELSE m[i - n]
  <2>1. /\ lm \in Seq(S) /\ Len(lm) = Len(l) + Len(m)
        /\ \A i \in 1 .. Len(l) + Len(m) :
              lm[i] = IF i <= Len(l) THEN l[i] ELSE m[i - Len(l)]
    BY <1>2, <1>4, ConcatProperties
  <2> HIDE DEF lm
  <2>2. QED
    BY <2>1, <1>2, <1>4
<1> HIDE DEF lm
<1> DEFINE t == lm \o r
<1>7. /\ t \in Seq(S) /\ Len(t) = n + 1 + Len(r)
      /\ \A i \in 1 .. n + 1 + Len(r) :
            t[i] = IF i <= n + 1 THEN lm[i] ELSE r[i - (n + 1)]
  <2>1. /\ t \in Seq(S) /\ Len(t) = Len(lm) + Len(r)
        /\ \A i \in 1 .. Len(lm) + Len(r) :
              t[i] = IF i <= Len(lm) THEN lm[i] ELSE r[i - Len(lm)]
    BY <1>3, <1>6, ConcatProperties
  <2> HIDE DEF t
  <2>2. QED
    BY <2>1, <1>6
<1> HIDE DEF t
<1>8. Len(t) = Len(s) + 1
  BY <1>1, <1>3, <1>7
<1>9. ASSUME NEW i \in 1 .. Len(s) + 1
      PROVE t[i] = IF i <= n THEN s[i] ELSE IF i = n + 1 THEN x ELSE s[i - 1]
  <2>1. i \in 1 .. n + 1 + Len(r)
    BY <1>1, <1>3
  <2>2. CASE i <= n
    BY <2>1, <2>2, <1>1, <1>2, <1>6, <1>7
  <2>3. CASE i = n + 1
    <3>1. i \in 1 .. n + 1 /\ i - n = 1
      BY <2>3, <1>1
    <3>2. t[i] = m[1]
      BY <2>1, <2>3, <3>1, <1>1, <1>6, <1>7
    <3>3. QED
      BY <3>2, <2>3, <1>1, <1>4
  <2>4. CASE i > n + 1
    <3>1. i - (n + 1) \in 1 .. Len(r) /\ n + (i - (n + 1)) = i - 1
      BY <2>4, <1>1, <1>3
    <3> DEFINE j == i - (n + 1)
    <3>2. t[i] = r[j]
      BY <2>1, <2>4, <1>1, <1>7
    <3>4. r[j] = s[n + j]
      BY <3>1, <1>3
    <3>3. QED
      BY <3>1, <3>2, <3>4, <2>4, <1>1
  <2>5. QED
    BY <2>2, <2>3, <2>4, <1>1
<1>10. PutBehind(s, n, x) = t
  BY <1>5 DEF t, lm
<1> HIDE DEF t
<1>11. QED
  BY <1>7, <1>8, <1>9, <1>10

\* A sequence of some set is a list of what is in it.
LEMMA SequenceLists == ASSUME NEW S, NEW s \in Seq(S) PROVE List(s) /\ DOMAIN s = 1 .. Len(s)
<1>1. Len(s) \in Nat /\ DOMAIN s = 1 .. Len(s)
  BY LenProperties
<1>2. s = [i \in 1 .. Len(s) |-> s[i]] /\ \A i \in 1 .. Len(s) : s[i] \in ToSet(s)
  BY <1>1 DEF ToSet
<1>3. s \in [1 .. Len(s) -> ToSet(s)]
  BY <1>2
<1>4. QED
  BY <1>1, <1>3 DEF List

\* Putting the elements of s one after the other anywhere among those that are
\* there already gives s in another order.
LEMMA PutOneByOne ==
    ASSUME NEW S, NEW s \in Seq(S), NEW f, f[0] = << >>,
           \A i \in 1 .. Len(s) :
              \E n \in 0 .. Len(f[i - 1]) : f[i] = PutBehind(f[i - 1], n, s[i])
    PROVE  Shuffled(f[Len(s)], s) /\ f[Len(s)] \in Seq(S)
<1> DEFINE N == Len(s)
           P(n) == /\ f[n] \in Seq(S) /\ Len(f[n]) = n
                   /\ \E p \in [1 .. n -> 1 .. n] :
                         IsInjective(p) /\ \A i \in 1 .. n : f[n][i] = s[p[i]]
           G == {n \in Nat : n <= N => P(n)}
<1>1. N \in Nat /\ DOMAIN s = 1 .. N /\ \A i \in 1 .. N : s[i] \in S
  BY LenProperties, ElementOfSeq
<1>2. 0 \in G
  <2>1. << >> \in Seq(S) /\ Len(<< >>) = 0
    OBVIOUS
  <2>2. << >> \in [1 .. 0 -> 1 .. 0] /\ IsInjective(<< >>)
    BY DEF IsInjective
  <2>3. \A i \in 1 .. 0 : f[0][i] = s[<< >>[i]]
    OBVIOUS
  <2>4. P(0)
    BY <2>1, <2>2, <2>3
  <2> HIDE DEF P
  <2>5. QED
    BY <2>4
<1>3. ASSUME NEW n \in G PROVE n + 1 \in G
  <2> HIDE DEF P
  <2> SUFFICES ASSUME n + 1 <= N PROVE P(n + 1)
    OBVIOUS
  <2>1. n \in Nat /\ P(n)
    BY <1>1
  <2> USE DEF P
  <2> DEFINE m == n + 1
  <2>2. m \in 1 .. N /\ m - 1 = n /\ m \in Nat /\ m = n + 1
    BY <2>1, <1>1
  <2> HIDE DEF m, P
  <2>3. s[m] \in S /\ f[n] \in Seq(S) /\ Len(f[n]) = n
    BY <2>1, <2>2, <1>1 DEF P
  <2>4. PICK p \in [1 .. n -> 1 .. n] :
           IsInjective(p) /\ \A i \in 1 .. n : f[n][i] = s[p[i]]
    BY <2>1 DEF P
  <2>5. PICK k \in 0 .. n : f[m] = PutBehind(f[n], k, s[m])
    <3>1. \E k \in 0 .. Len(f[m - 1]) : f[m] = PutBehind(f[m - 1], k, s[m])
      BY <2>2
    <3>2. QED
      BY <3>1, <2>2, <2>3
  <2>6. /\ f[m] \in Seq(S) /\ Len(f[m]) = m
        /\ \A i \in 1 .. m :
              f[m][i] = IF i <= k THEN f[n][i] ELSE IF i = k + 1 THEN s[m] ELSE f[n][i - 1]
    <3> DEFINE z == f[n]
    <3>1. z \in Seq(S) /\ Len(z) = n /\ k \in 0 .. Len(z) /\ f[m] = PutBehind(z, k, s[m])
      BY <2>3, <2>5
    <3> HIDE DEF z
    <3> DEFINE e == s[m]
               w == PutBehind(z, k, e)
    <3>5. e \in S /\ z \in Seq(S) /\ k \in 0 .. Len(z)
      BY <2>3, <3>1
    <3>6. f[m] = PutBehind(z, k, e)
      BY <3>1
    <3> HIDE DEF e
    <3>2. /\ w \in Seq(S) /\ Len(w) = Len(z) + 1
          /\ \A i \in 1 .. Len(z) + 1 :
                w[i] = IF i <= k THEN z[i] ELSE IF i = k + 1 THEN e ELSE z[i - 1]
      BY <3>5, PutAmong
    <3>3. f[m] = w
      BY <3>6
    <3> HIDE DEF w
    <3>4. QED
      BY <2>2, <3>1, <3>2, <3>3 DEF z, e
  <2> DEFINE q == [i \in 1 .. m |->
                     IF i <= k THEN p[i] ELSE IF i = k + 1 THEN m ELSE p[i - 1]]
  <2>7. q \in [1 .. m -> 1 .. m]
    BY <2>1, <2>2, <2>4, <2>5
  <2>8. ASSUME NEW i \in 1 .. m, NEW j \in 1 .. m, q[i] = q[j] PROVE i = j
    <3>1. \A x, y \in 1 .. n : p[x] = p[y] => x = y
      BY <2>4 DEF IsInjective
    <3>2. \A x \in 1 .. n : p[x] \in 1 .. n /\ p[x] # m
      BY <2>1, <2>2, <2>4
    <3> DEFINE old(x) == IF x <= k THEN x ELSE x - 1
    <3>3. \A x \in 1 .. m : x # k + 1 => old(x) \in 1 .. n /\ q[x] = p[old(x)]
      BY <2>1, <2>2, <2>5
    <3>4. q[k + 1] = m
      BY <2>1, <2>2, <2>5
    <3> HIDE DEF q
    <3>5. CASE i = k + 1 \/ j = k + 1
      <4> HIDE DEF old
      <4>1. QED
        BY <3>2, <3>3, <3>4, <3>5, <2>8
    <3>6. CASE i # k + 1 /\ j # k + 1
      <4>1. old(i) = old(j)
        <5> HIDE DEF old
        <5>1. QED
          BY <3>1, <3>3, <3>6, <2>8
      <4>2. i \in Int /\ j \in Int /\ k \in Int
        BY <2>2, <2>5
      <4>3. QED
        BY <4>1, <4>2, <3>6
    <3>7. QED
      BY <3>5, <3>6
  <2>9. \A i \in 1 .. m : f[m][i] = s[q[i]]
    <3> SUFFICES ASSUME NEW i \in 1 .. m PROVE f[m][i] = s[q[i]]
      OBVIOUS
    <3>1. CASE i <= k
      <4>1. i \in 1 .. n
        <5> HIDE DEF q
        <5>1. n \in Int /\ k \in Int /\ k <= n
          BY <2>1, <2>5
        <5>2. i \in Int /\ i >= 1
          BY <2>2
        <5>3. QED
          BY <3>1, <5>1, <5>2
      <4>2. f[n][i] = s[p[i]]
        BY <4>1, <2>4
      <4>3. f[m][i] = f[n][i] /\ q[i] = p[i]
        BY <3>1, <2>6
      <4>4. QED
        BY <4>2, <4>3
    <3>2. CASE i = k + 1
      BY <3>2, <2>1, <2>2, <2>5, <2>6
    <3>3. CASE i > k + 1
      <4>1. i - 1 \in 1 .. n
        <5> HIDE DEF q
        <5>1. n \in Int /\ k \in Int /\ k >= 0 /\ m = n + 1
          BY <2>1, <2>2, <2>5
        <5>2. i \in Int /\ i <= n + 1
          BY <5>1
        <5>3. QED
          BY <3>3, <5>1, <5>2
      <4>2. f[n][i - 1] = s[p[i - 1]]
        BY <4>1, <2>4
      <4>3. ~(i <= k) /\ i # k + 1
        <5>1. i \in Int /\ k \in Int
          BY <2>2, <2>5
        <5>2. QED
          BY <3>3, <5>1
      <4>4. f[m][i] = f[n][i - 1] /\ q[i] = p[i - 1]
        BY <4>3, <2>6
      <4>5. QED
        BY <4>2, <4>4
    <3>4. QED
      BY <3>1, <3>2, <3>3, <2>2, <2>5
  <2>10. IsInjective(q)
    <3>1. DOMAIN q = 1 .. m
      OBVIOUS
    <3> HIDE DEF q
    <3>2. QED
      BY <3>1, <2>8 DEF IsInjective
  <2> HIDE DEF q
  <2>11. P(m)
    BY <2>6, <2>7, <2>9, <2>10 DEF P
  <2>12. QED
    BY <2>11 DEF m
<1>4. N \in G
  <2>1. G \subseteq Nat
    OBVIOUS
  <2> HIDE DEF G
  <2>2. QED
    BY <2>1, <1>1, <1>2, <1>3, AllNumbers
<1>5. P(N)
  <2> HIDE DEF P
  <2>1. QED
    BY <1>1, <1>4
<1>6. List(f[N])
  <2>1. f[N] \in Seq(S)
    BY <1>5
  <2>2. QED
    BY <2>1, SequenceLists
<1>7. QED
  BY <1>1, <1>5, <1>6 DEF Shuffled

\* What is in s is in t, and what is there once is there once.
LEMMA ShuffledAll ==
    ASSUME NEW s, NEW t, Len(s) \in Nat, DOMAIN s = 1 .. Len(s), Shuffled(t, s)
    PROVE  /\ ToSet(t) = ToSet(s) /\ DOMAIN t = DOMAIN s
           /\ IsInjective(s) => IsInjective(t)
<1> DEFINE N == Len(s)
<1>1. PICK p \in [1 .. N -> 1 .. N] : IsInjective(p) /\ \A i \in 1 .. N : t[i] = s[p[i]]
  BY DEF Shuffled
<1>2. t \in Seq(ToSet(t)) /\ Len(t) = N
  BY DEF Shuffled, List
<1>3. DOMAIN t = 1 .. N
  BY <1>2, LenProperties
<1>4. ToSet(t) \subseteq ToSet(s)
  BY <1>1, <1>3 DEF ToSet
<1>5. p \in Surjection(1 .. N, 1 .. N)
  <2>1. p \in Injection(1 .. N, 1 .. N)
    BY <1>1 DEF Injection
  <2>2. IsFiniteSet(1 .. N)
    BY FS_Interval
  <2>3. QED
    BY <2>1, <2>2, FS_Injection
<1>6. \A i \in 1 .. N : \E j \in 1 .. N : p[j] = i
  BY <1>5 DEF Surjection
<1>7. ToSet(s) \subseteq ToSet(t)
  BY <1>1, <1>3, <1>6 DEF ToSet
<1>8. ASSUME IsInjective(s) PROVE IsInjective(t)
  <2> SUFFICES ASSUME NEW i \in 1 .. N, NEW j \in 1 .. N, t[i] = t[j] PROVE i = j
    BY <1>3 DEF IsInjective
  <2>1. s[p[i]] = s[p[j]] /\ p[i] \in DOMAIN s /\ p[j] \in DOMAIN s
    BY <1>1
  <2>2. p[i] = p[j]
    BY <2>1, <1>8 DEF IsInjective
  <2>3. QED
    BY <2>2, <1>1 DEF IsInjective
<1>9. QED
  BY <1>3, <1>4, <1>7, <1>8

\* An element is put behind as many others as it is not before.
LEMMA PlaceExists ==
    ASSUME NEW S, NEW s \in Seq(S), NEW C \in SUBSET DOMAIN s
    PROVE  Cardinality(C) \in 0 .. Len(s)
<1>1. Len(s) \in Nat /\ DOMAIN s = 1 .. Len(s)
  BY LenProperties
<1> DEFINE I == 1 .. Len(s)
<1>2. IsFiniteSet(I) /\ Cardinality(I) = Len(s)
  <2>1. Cardinality(I) = IF 1 > Len(s) THEN 0 ELSE Len(s) - 1 + 1
    BY <1>1, FS_Interval
  <2>2. IsFiniteSet(I)
    BY <1>1, FS_Interval
  <2>3. QED
    BY <1>1, <2>1, <2>2
<1> HIDE DEF I
<1>3. C \in SUBSET I
  BY <1>1 DEF I
<1>4. IsFiniteSet(C) /\ Cardinality(C) <= Len(s)
  BY <1>2, <1>3, FS_Subset
<1>5. Cardinality(C) \in Nat
  BY <1>4, FS_CardinalityType
<1>6. QED
  BY <1>1, <1>4, <1>5

\* f is the function by which StableSort sorts strings.
SortsStrings(f, s) == f = [n \in 0 .. Len(s) |->
                       IF n = 0 THEN << >> ELSE Inserted(f[n - 1], s[n], Less)]

\* StableSort is the last value of that function.
LEMMA SortDefStrings ==
    ASSUME NEW s
    PROVE  StableSort(s, Less) = (CHOOSE f : SortsStrings(f, s))[Len(s)]
BY DEF StableSort, SortsStrings

\* Sorting changes the order, and nothing else.
LEMMA SortedStrings ==
    ASSUME NEW S, NEW s \in Seq(S)
    PROVE  Shuffled(StableSort(s, Less), s) /\ StableSort(s, Less) \in Seq(S)
<1> DEFINE N == Len(s)
           F == [i \in 1 .. N |-> [x \in Seq(S) |-> Inserted(x, s[i], Less)]]
           c == CHOOSE f : SortsStrings(f, s)
<1>1. N \in Nat /\ \A i \in 1 .. N : s[i] \in S
  BY LenProperties, ElementOfSeq
<1>2. ASSUME NEW x \in Seq(S), NEW y \in S
      PROVE  \E n \in 0 .. Len(x) : /\ Inserted(x, y, Less) = PutBehind(x, n, y)
                                     /\ PutBehind(x, n, y) \in Seq(S)
  <2> DEFINE C == {i \in DOMAIN x : ~Less(y, x[i])}
  <2>1. Inserted(x, y, Less) = PutBehind(x, Cardinality(C), y)
    BY DEF Inserted, PutBehind
  <2>2. C \in SUBSET DOMAIN x
    OBVIOUS
  <2> HIDE DEF C
  <2>3. Cardinality(C) \in 0 .. Len(x)
    BY <2>2, PlaceExists
  <2>4. QED
    BY <2>1, <2>3, PutAmong
<1>3. PICK g : Run(g, << >>, F, N, Seq(S))
  <2>1. \A i \in 1 .. N : \A x \in Seq(S) : F[i][x] \in Seq(S)
    <3> SUFFICES ASSUME NEW i \in 1 .. N, NEW x \in Seq(S) PROVE F[i][x] \in Seq(S)
      OBVIOUS
    <3>1. s[i] \in S
      BY <1>1
    <3>2. F[i][x] = Inserted(x, s[i], Less)
      OBVIOUS
    <3>3. QED
      BY <3>1, <3>2, <1>2
  <2>2. Stay(F, N, Seq(S)) /\ << >> \in Seq(S)
    BY <2>1 DEF Stay
  <2> HIDE DEF F, N
  <2>3. QED
    BY <2>2, <1>1, StepsExist
<1>4. g \in [0 .. N -> Seq(S)] /\ g[0] = << >> /\ \A i \in 1 .. N : g[i] = F[i][g[i - 1]]
  BY <1>3 DEF Run
<1>5. ASSUME NEW i \in 1 .. N
      PROVE  g[i - 1] \in Seq(S) /\ g[i] = Inserted(g[i - 1], s[i], Less)
  <2> DEFINE j == i - 1
  <2>1. j \in 0 .. N
    BY <1>1
  <2>2. g[j] \in Seq(S)
    BY <2>1, <1>4
  <2>3. F[i][g[j]] = Inserted(g[j], s[i], Less)
    BY <2>2
  <2>4. g[i] = F[i][g[j]]
    BY <1>4
  <2>5. QED
    BY <2>2, <2>3, <2>4
<1>6. SortsStrings(g, s)
  <2>1. ASSUME NEW i \in 0 .. N
        PROVE g[i] = IF i = 0 THEN << >> ELSE Inserted(g[i - 1], s[i], Less)
    <3>1. CASE i = 0
      BY <3>1, <1>4
    <3>2. CASE i # 0
      <4>1. i \in 1 .. N
        BY <3>2, <1>1
      <4>2. QED
        BY <3>2, <4>1, <1>5
    <3>3. QED
      BY <3>1, <3>2
  <2>2. QED
    BY <2>1, <1>4 DEF SortsStrings
<1>7. SortsStrings(c, s)
  BY <1>6
<1>8. StableSort(s, Less) = c[N]
  BY SortDefStrings
<1> HIDE DEF c, F
<1>9. c[0] = << >> /\ \A i \in 1 .. N : c[i] = Inserted(c[i - 1], s[i], Less)
  BY <1>7, <1>1 DEF SortsStrings
<1>10. \A n \in Nat : n <= N => c[n] = g[n]
  <2> DEFINE G == {n \in Nat : n <= N => c[n] = g[n]}
  <2>1. 0 \in G
    BY <1>4, <1>9
  <2>2. ASSUME NEW n \in G PROVE n + 1 \in G
    <3> SUFFICES ASSUME n + 1 <= N PROVE c[n + 1] = g[n + 1]
      OBVIOUS
    <3> DEFINE m == n + 1
    <3>1. m \in 1 .. N /\ m - 1 = n /\ c[n] = g[n]
      BY <1>1
    <3> HIDE DEF m
    <3>2. c[m] = g[m]
      BY <3>1, <1>5, <1>9
    <3>3. QED
      BY <3>2 DEF m
  <2>3. G \subseteq Nat
    OBVIOUS
  <2> HIDE DEF G
  <2>4. \A n \in Nat : n \in G
    BY <2>1, <2>2, <2>3, AllNumbers
  <2>5. QED
    BY <2>4 DEF G
<1>11. c[N] = g[N]
  BY <1>1, <1>10
<1>12. \A i \in 1 .. N : \E n \in 0 .. Len(g[i - 1]) : g[i] = PutBehind(g[i - 1], n, s[i])
  BY <1>1, <1>2, <1>5
<1>13. Shuffled(g[N], s) /\ g[N] \in Seq(S)
  BY <1>4, <1>12, PutOneByOne
<1>14. QED
  BY <1>8, <1>11, <1>13

\* f is the function by which StableSort sorts labels.
SortsPairs(f, s) == f = [n \in 0 .. Len(s) |->
                       IF n = 0 THEN << >> ELSE Inserted(f[n - 1], s[n], PairLess)]

\* StableSort is the last value of that function.
LEMMA SortDefPairs ==
    ASSUME NEW s
    PROVE  StableSort(s, PairLess) = (CHOOSE f : SortsPairs(f, s))[Len(s)]
BY DEF StableSort, SortsPairs

\* Sorting changes the order, and nothing else.
LEMMA SortedPairs ==
    ASSUME NEW S, NEW s \in Seq(S)
    PROVE  Shuffled(StableSort(s, PairLess), s) /\ StableSort(s, PairLess) \in Seq(S)
<1> DEFINE N == Len(s)
           F == [i \in 1 .. N |-> [x \in Seq(S) |-> Inserted(x, s[i], PairLess)]]
           c == CHOOSE f : SortsPairs(f, s)
<1>1. N \in Nat /\ \A i \in 1 .. N : s[i] \in S
  BY LenProperties, ElementOfSeq
<1>2. ASSUME NEW x \in Seq(S), NEW y \in S
      PROVE  \E n \in 0 .. Len(x) : /\ Inserted(x, y, PairLess) = PutBehind(x, n, y)
                                     /\ PutBehind(x, n, y) \in Seq(S)
  <2> DEFINE C == {i \in DOMAIN x : ~PairLess(y, x[i])}
  <2>1. Inserted(x, y, PairLess) = PutBehind(x, Cardinality(C), y)
    BY DEF Inserted, PutBehind
  <2>2. C \in SUBSET DOMAIN x
    OBVIOUS
  <2> HIDE DEF C
  <2>3. Cardinality(C) \in 0 .. Len(x)
    BY <2>2, PlaceExists
  <2>4. QED
    BY <2>1, <2>3, PutAmong
<1>3. PICK g : Run(g, << >>, F, N, Seq(S))
  <2>1. \A i \in 1 .. N : \A x \in Seq(S) : F[i][x] \in Seq(S)
    <3> SUFFICES ASSUME NEW i \in 1 .. N, NEW x \in Seq(S) PROVE F[i][x] \in Seq(S)
      OBVIOUS
    <3>1. s[i] \in S
      BY <1>1
    <3>2. F[i][x] = Inserted(x, s[i], PairLess)
      OBVIOUS
    <3>3. QED
      BY <3>1, <3>2, <1>2
  <2>2. Stay(F, N, Seq(S)) /\ << >> \in Seq(S)
    BY <2>1 DEF Stay
  <2> HIDE DEF F, N
  <2>3. QED
    BY <2>2, <1>1, StepsExist
<1>4. g \in [0 .. N -> Seq(S)] /\ g[0] = << >> /\ \A i \in 1 .. N : g[i] = F[i][g[i - 1]]
  BY <1>3 DEF Run
<1>5. ASSUME NEW i \in 1 .. N
      PROVE  g[i - 1] \in Seq(S) /\ g[i] = Inserted(g[i - 1], s[i], PairLess)
  <2> DEFINE j == i - 1
  <2>1. j \in 0 .. N
    BY <1>1
  <2>2. g[j] \in Seq(S)
    BY <2>1, <1>4
  <2>3. F[i][g[j]] = Inserted(g[j], s[i], PairLess)
    BY <2>2
  <2>4. g[i] = F[i][g[j]]
    BY <1>4
  <2>5. QED
    BY <2>2, <2>3, <2>4
<1>6. SortsPairs(g, s)
  <2>1. ASSUME NEW i \in 0 .. N
        PROVE g[i] = IF i = 0 THEN << >> ELSE Inserted(g[i - 1], s[i], PairLess)
    <3>1. CASE i = 0
      BY <3>1, <1>4
    <3>2. CASE i # 0
      <4>1. i \in 1 .. N
        BY <3>2, <1>1
      <4>2. QED
        BY <3>2, <4>1, <1>5
    <3>3. QED
      BY <3>1, <3>2
  <2>2. QED
    BY <2>1, <1>4 DEF SortsPairs
<1>7. SortsPairs(c, s)
  BY <1>6
<1>8. StableSort(s, PairLess) = c[N]
  BY SortDefPairs
<1> HIDE DEF c, F
<1>9. c[0] = << >> /\ \A i \in 1 .. N : c[i] = Inserted(c[i - 1], s[i], PairLess)
  BY <1>7, <1>1 DEF SortsPairs
<1>10. \A n \in Nat : n <= N => c[n] = g[n]
  <2> DEFINE G == {n \in Nat : n <= N => c[n] = g[n]}
  <2>1. 0 \in G
    BY <1>4, <1>9
  <2>2. ASSUME NEW n \in G PROVE n + 1 \in G
    <3> SUFFICES ASSUME n + 1 <= N PROVE c[n + 1] = g[n + 1]
      OBVIOUS
    <3> DEFINE m == n + 1
    <3>1. m \in 1 .. N /\ m - 1 = n /\ c[n] = g[n]
      BY <1>1
    <3> HIDE DEF m
    <3>2. c[m] = g[m]
      BY <3>1, <1>5, <1>9
    <3>3. QED
      BY <3>2 DEF m
  <2>3. G \subseteq Nat
    OBVIOUS
  <2> HIDE DEF G
  <2>4. \A n \in Nat : n \in G
    BY <2>1, <2>2, <2>3, AllNumbers
  <2>5. QED
    BY <2>4 DEF G
<1>11. c[N] = g[N]
  BY <1>1, <1>10
<1>12. \A i \in 1 .. N : \E n \in 0 .. Len(g[i - 1]) : g[i] = PutBehind(g[i - 1], n, s[i])
  BY <1>1, <1>2, <1>5
<1>13. Shuffled(g[N], s) /\ g[N] \in Seq(S)
  BY <1>4, <1>12, PutOneByOne
<1>14. QED
  BY <1>8, <1>11, <1>13

\* A metric is put where sort_by puts it.
InsertedMetric(b, s, x) == Inserted(s, x, LAMBDA v, w : MetricLess(b, v, w))

\* f is the function by which StableSort sorts the metrics of a family.
SortsMetrics(f, s, b) == f = [n \in 0 .. Len(s) |->
                       IF n = 0 THEN << >> ELSE InsertedMetric(b, f[n - 1], s[n])]

\* StableSort is the last value of that function.
LEMMA SortDefMetrics ==
    ASSUME NEW b, NEW s
    PROVE  StableSort(s, LAMBDA v, w : MetricLess(b, v, w))
             = (CHOOSE f : SortsMetrics(f, s, b))[Len(s)]
BY DEF StableSort, SortsMetrics, InsertedMetric

\* Sorting changes the order, and nothing else.
MetricsInOrder(b, s) == StableSort(s, LAMBDA v, w : MetricLess(b, v, w))

LEMMA SortedMetrics ==
    ASSUME NEW b, NEW S, NEW s \in Seq(S)
    PROVE  Shuffled(MetricsInOrder(b, s), s) /\ MetricsInOrder(b, s) \in Seq(S)
<1> DEFINE N == Len(s)
           F == [i \in 1 .. N |-> [x \in Seq(S) |-> InsertedMetric(b, x, s[i])]]
           c == CHOOSE f : SortsMetrics(f, s, b)
<1>1. N \in Nat /\ \A i \in 1 .. N : s[i] \in S
  BY LenProperties, ElementOfSeq
<1>2. ASSUME NEW x \in Seq(S), NEW y \in S
      PROVE  \E n \in 0 .. Len(x) : /\ InsertedMetric(b, x, y) = PutBehind(x, n, y)
                                     /\ PutBehind(x, n, y) \in Seq(S)
  <2> DEFINE C == {i \in DOMAIN x : ~MetricLess(b, y, x[i])}
  <2>1. InsertedMetric(b, x, y) = PutBehind(x, Cardinality(C), y)
    BY DEF InsertedMetric, Inserted, PutBehind
  <2>2. C \in SUBSET DOMAIN x
    OBVIOUS
  <2> HIDE DEF C
  <2>3. Cardinality(C) \in 0 .. Len(x)
    BY <2>2, PlaceExists
  <2>4. QED
    BY <2>1, <2>3, PutAmong
<1>3. PICK g : Run(g, << >>, F, N, Seq(S))
  <2>1. \A i \in 1 .. N : \A x \in Seq(S) : F[i][x] \in Seq(S)
    <3> SUFFICES ASSUME NEW i \in 1 .. N, NEW x \in Seq(S) PROVE F[i][x] \in Seq(S)
      OBVIOUS
    <3>1. s[i] \in S
      BY <1>1
    <3>2. F[i][x] = InsertedMetric(b, x, s[i])
      OBVIOUS
    <3>3. QED
      BY <3>1, <3>2, <1>2
  <2>2. Stay(F, N, Seq(S)) /\ << >> \in Seq(S)
    BY <2>1 DEF Stay
  <2> HIDE DEF F, N
  <2>3. QED
    BY <2>2, <1>1, StepsExist
<1>4. g \in [0 .. N -> Seq(S)] /\ g[0] = << >> /\ \A i \in 1 .. N : g[i] = F[i][g[i - 1]]
  BY <1>3 DEF Run
<1>5. ASSUME NEW i \in 1 .. N
      PROVE  g[i - 1] \in Seq(S) /\ g[i] = InsertedMetric(b, g[i - 1], s[i])
  <2> DEFINE j == i - 1
  <2>1. j \in 0 .. N
    BY <1>1
  <2>2. g[j] \in Seq(S)
    BY <2>1, <1>4
  <2>3. F[i][g[j]] = InsertedMetric(b, g[j], s[i])
    BY <2>2
  <2>4. g[i] = F[i][g[j]]
    BY <1>4
  <2>5. QED
    BY <2>2, <2>3, <2>4
<1>6. SortsMetrics(g, s, b)
  <2>1. ASSUME NEW i \in 0 .. N
        PROVE g[i] = IF i = 0 THEN << >> ELSE InsertedMetric(b, g[i - 1], s[i])
    <3>1. CASE i = 0
      BY <3>1, <1>4
    <3>2. CASE i # 0
      <4>1. i \in 1 .. N
        BY <3>2, <1>1
      <4>2. QED
        BY <3>2, <4>1, <1>5
    <3>3. QED
      BY <3>1, <3>2
  <2>2. QED
    BY <2>1, <1>4 DEF SortsMetrics
<1>7. SortsMetrics(c, s, b)
  BY <1>6
<1>8. StableSort(s, LAMBDA v, w : MetricLess(b, v, w)) = c[N]
  BY SortDefMetrics
<1> HIDE DEF c, F
<1>9. c[0] = << >> /\ \A i \in 1 .. N : c[i] = InsertedMetric(b, c[i - 1], s[i])
  BY <1>7, <1>1 DEF SortsMetrics
<1>10. \A n \in Nat : n <= N => c[n] = g[n]
  <2> DEFINE G == {n \in Nat : n <= N => c[n] = g[n]}
  <2>1. 0 \in G
    BY <1>4, <1>9
  <2>2. ASSUME NEW n \in G PROVE n + 1 \in G
    <3> SUFFICES ASSUME n + 1 <= N PROVE c[n + 1] = g[n + 1]
      OBVIOUS
    <3> DEFINE m == n + 1
    <3>1. m \in 1 .. N /\ m - 1 = n /\ c[n] = g[n]
      BY <1>1
    <3> HIDE DEF m
    <3>2. c[m] = g[m]
      BY <3>1, <1>5, <1>9
    <3>3. QED
      BY <3>2 DEF m
  <2>3. G \subseteq Nat
    OBVIOUS
  <2> HIDE DEF G
  <2>4. \A n \in Nat : n \in G
    BY <2>1, <2>2, <2>3, AllNumbers
  <2>5. QED
    BY <2>4 DEF G
<1>11. c[N] = g[N]
  BY <1>1, <1>10
<1>12. \A i \in 1 .. N : \E n \in 0 .. Len(g[i - 1]) : g[i] = PutBehind(g[i - 1], n, s[i])
  BY <1>1, <1>2, <1>5
<1>13. Shuffled(g[N], s) /\ g[N] \in Seq(S)
  BY <1>4, <1>12, PutOneByOne
<1>14. QED
  BY <1>8, <1>11, <1>13 DEF MetricsInOrder

\* The names in their order are all the names, each once.
LEMMA NamesSorted ==
    ASSUME NEW S, IsFiniteSet(S)
    PROVE  EachOnce(SortedNames(S), S)
<1> DEFINE s == SetToSeq(S)
<1>1. s \in Seq(S) /\ ToSet(s) = S /\ IsInjective(s)
  BY ListedAll DEF EachOnce
<1>2. SortedNames(S) = StableSort(s, Less)
  BY DEF SortedNames
<1> HIDE DEF s
<1>3. Shuffled(SortedNames(S), s) /\ SortedNames(S) \in Seq(S)
  BY <1>1, <1>2, SortedStrings
<1>4. ToSet(SortedNames(S)) = ToSet(s) /\ IsInjective(SortedNames(S))
  BY <1>1, <1>3, SequenceLists, ShuffledAll, LenProperties
<1>5. QED
  BY <1>1, <1>3, <1>4 DEF EachOnce

-----------------------------------------------------------------------------
\* A map of labels: finitely many names, and a value for each of them.
Labelling(labels) == /\ labels \in [DOMAIN labels -> Text]
                     /\ DOMAIN labels \subseteq Text
                     /\ IsFiniteSet(DOMAIN labels)

\* The elements of a sequence are finitely many.
LEMMA FinitelyMany ==
    ASSUME NEW S, NEW s \in Seq(S)
    PROVE  IsFiniteSet(ToSet(s)) /\ ToSet(s) \subseteq S
<1>1. Len(s) \in Nat /\ s \in [1 .. Len(s) -> S] /\ DOMAIN s = 1 .. Len(s)
  BY LenProperties
<1>2. ToSet(s) \subseteq S
  BY <1>1 DEF ToSet
<1>3. s \in Surjection(1 .. Len(s), ToSet(s))
  BY <1>1 DEF Surjection, ToSet
<1>4. IsFiniteSet(1 .. Len(s))
  BY <1>1, FS_Interval
<1>5. QED
  BY <1>2, <1>3, <1>4, FS_Surjection

\* One of finitely many indices is the last.
LEMMA LastIndex ==
    ASSUME NEW N \in Nat, NEW J \in SUBSET (1 .. N), J # {}
    PROVE  \E i \in J : \A j \in J : j <= i
<1> DEFINE B == {n \in Nat : \E j \in J : n = N - j}
<1>1. B # {} /\ B \subseteq Nat
  <2>1. PICK j \in J : TRUE
    OBVIOUS
  <2>2. N - j \in B
    BY <2>1
  <2>3. QED
    BY <2>2
<1>2. PICK n \in B : \A m \in B : ~(<<m, n>> \in OpToRel(<, Nat))
  <2> HIDE DEF B
  <2>1. QED
    BY <1>1, NatLessThanWellFounded, WFMin
<1>3. \A m \in B : ~(m < n)
  BY <1>1, <1>2 DEF OpToRel
<1>4. PICK i \in J : n = N - i
  BY <1>2
<1>5. ASSUME NEW j \in J PROVE j <= i
  <2>1. N - j \in B
    OBVIOUS
  <2>2. ~(N - j < N - i)
    BY <2>1, <1>3, <1>4
  <2>3. QED
    BY <2>2
<1>6. QED
  BY <1>5

\* What labels! and the maps of opts! give is a map.
LEMMA LabelsType ==
    ASSUME NEW entries \in Seq(Text \X Text)
    PROVE  Labelling(Labels(entries))
<1> DEFINE N == Len(entries)
           D == {entries[i][1] : i \in DOMAIN entries}
           last(n) == CHOOSE i \in DOMAIN entries :
                         /\ entries[i][1] = n
                         /\ \A j \in DOMAIN entries : entries[j][1] = n => j <= i
<1>1. N \in Nat /\ DOMAIN entries = 1 .. N
  BY LenProperties
<1>2. \A i \in 1 .. N : entries[i][1] \in Text /\ entries[i][2] \in Text
  <2>1. \A i \in 1 .. N : entries[i] \in Text \X Text
    BY ElementOfSeq
  <2>2. QED
    BY <2>1
<1>3. Labels(entries) = [n \in D |-> entries[last(n)][2]]
  BY DEF Labels
<1>4. ASSUME NEW n \in D PROVE entries[last(n)][2] \in Text
  <2> DEFINE J == {i \in 1 .. N : entries[i][1] = n}
  <2>1. J \in SUBSET (1 .. N) /\ J # {}
    BY <1>1
  <2>2. PICK i \in J : \A j \in J : j <= i
    <3> HIDE DEF J
    <3>1. QED
      BY <2>1, <1>1, LastIndex
  <2>3. \E l \in DOMAIN entries :
           /\ entries[l][1] = n
           /\ \A j \in DOMAIN entries : entries[j][1] = n => j <= l
    BY <2>2, <1>1
  <2>4. last(n) \in DOMAIN entries
    BY <2>3
  <2>5. QED
    BY <2>4, <1>1, <1>2
<1>5. IsFiniteSet(D) /\ D \subseteq Text
  <2> DEFINE names == [i \in 1 .. N |-> entries[i][1]]
  <2>1. names \in Seq(Text)
    BY <1>1, <1>2
  <2>2. ToSet(names) = D
    BY <1>1 DEF ToSet
  <2> HIDE DEF names
  <2>3. QED
    BY <2>1, <2>2, FinitelyMany
<1> HIDE DEF D, last
<1>6. QED
  BY <1>3, <1>4, <1>5 DEF Labelling

\* Joined sequences have the elements of the joined ones.
LEMMA FlattenType ==
    ASSUME NEW X, NEW b \in Seq(Seq(X))
    PROVE  FlattenSeq(b) \in Seq(X)
<1>1. Len(b) \in Nat
  BY LenProperties
<1>2. PICK g \in [0 .. Len(b) -> Seq(X)] : FlattenSeq(b) = g[Len(b)]
  BY FlattenSteps
<1>3. Len(b) \in 0 .. Len(b)
  BY <1>1
<1>4. QED
  BY <1>2, <1>3

-----------------------------------------------------------------------------
\* A valid name has no separator, and that of a label no dollar sign either.
LEMMA ValidNames ==
    ASSUME NEW n \in Seq(Character)
    PROVE  /\ is_valid_metric_name(n) => n \in Separable
           /\ is_valid_label_name(n) =>
                 n \in Separable /\ \A i \in DOMAIN n : n[i] # "$"
<1>1. ASSUME NEW charset, is_valid_ident(n, charset)
      PROVE  \A i \in DOMAIN n : n[i] \in charset \cup Digits
  <2>1. n # << >> /\ Head(n) \in charset
        /\ \A i \in DOMAIN Tail(n) : Tail(n)[i] \in charset \cup Digits
    BY <1>1 DEF is_valid_ident
  <2>2. Len(n) \in Nat /\ DOMAIN n = 1 .. Len(n) /\ Head(n) = n[1]
    BY LenProperties
  <2>3. /\ Tail(n) \in Seq(Character)
        /\ Len(Tail(n)) = Len(n) - 1
        /\ \A i \in 1 .. Len(Tail(n)) : Tail(n)[i] = n[i + 1]
    BY <2>1, HeadTailProperties
  <2>4. DOMAIN Tail(n) = 1 .. Len(Tail(n))
    BY <2>3, LenProperties
  <2> SUFFICES ASSUME NEW i \in 1 .. Len(n) PROVE n[i] \in charset \cup Digits
    BY <2>2
  <2>5. CASE i = 1
    BY <2>5, <2>1, <2>2
  <2>6. CASE i # 1
    <3> DEFINE j == i - 1
    <3>1. j \in 1 .. Len(Tail(n)) /\ i = j + 1
      BY <2>6, <2>2, <2>3
    <3> HIDE DEF j
    <3>2. Tail(n)[j] = n[i] /\ Tail(n)[j] \in charset \cup Digits
      BY <3>1, <2>1, <2>3, <2>4
    <3>3. QED
      BY <3>2
  <2>7. QED
    BY <2>5, <2>6
<1>2. SEPARATOR_BYTE \notin matches_charset_with_colon \cup Digits
  BY DEF SEPARATOR_BYTE, matches_charset_with_colon, matches_charset_without_colon,
         Letters, Digits
<1>3. /\ SEPARATOR_BYTE \notin matches_charset_without_colon \cup Digits
      /\ "$" \notin matches_charset_without_colon \cup Digits
  BY DEF SEPARATOR_BYTE, matches_charset_without_colon, Letters, Digits
<1>4. ASSUME is_valid_metric_name(n) PROVE n \in Separable
  <2>1. \A i \in DOMAIN n : n[i] \in matches_charset_with_colon \cup Digits
    BY <1>1, <1>4 DEF is_valid_metric_name
  <2> HIDE DEF SEPARATOR_BYTE
  <2>2. QED
    BY <2>1, <1>2 DEF Separable
<1>5. ASSUME is_valid_label_name(n)
      PROVE  n \in Separable /\ \A i \in DOMAIN n : n[i] # "$"
  <2>1. \A i \in DOMAIN n : n[i] \in matches_charset_without_colon \cup Digits
    BY <1>1, <1>5 DEF is_valid_label_name
  <2> HIDE DEF SEPARATOR_BYTE
  <2>2. QED
    BY <2>1, <1>3 DEF Separable
<1>6. QED
  BY <1>4, <1>5

\* Lists are the same if their first elements and the rest of them are.
LEMMA ConsInjective ==
    ASSUME NEW S, NEW x \in S, NEW y \in S, NEW s \in Seq(S), NEW t \in Seq(S),
           <<x>> \o s = <<y>> \o t
    PROVE  x = y /\ s = t
<1> DEFINE k == <<x>>
           l == <<y>>
           u == k \o s
           v == l \o t
<1>1. k \in Seq(S) /\ Len(k) = 1 /\ k[1] = x /\ l \in Seq(S) /\ Len(l) = 1 /\ l[1] = y
  OBVIOUS
<1>2. u = v
  OBVIOUS
<1> HIDE DEF k, l
<1>3. Len(s) \in Nat /\ Len(t) \in Nat
  BY LenProperties
<1>4. u[1] = x /\ v[1] = y
  BY <1>1, <1>3, ConcatProperties
<1>5. x = y
  BY <1>2, <1>4
<1>6. k \o s = k \o t
  BY <1>2, <1>5 DEF k, l
<1>7. s = t
  BY <1>1, <1>6, ConcatSimplifications
<1>8. QED
  BY <1>5, <1>7

-----------------------------------------------------------------------------
\* d is what Desc::new makes of a name, a help, names of variable labels and
\* constant labels.
DescribedAs(d, name, help, variable, labels) ==
    /\ name \in Separable /\ help \in Text
    /\ variable \in Seq(Text) /\ IsInjective(variable) /\ Labelling(labels)
    /\ \A n \in DOMAIN labels \cup ToSet(variable) : is_valid_label_name(n)
    /\ d.fq_name = name /\ d.help = help /\ d.variable_labels = variable
    /\ d.const_label_pairs = ConstPairs(labels)
    /\ d.id = DescId(name, labels)
    /\ d.dim_hash = DimHash(help, labels, variable)

Described(d) ==
    \E name, help, variable, labels : DescribedAs(d, name, help, variable, labels)

\* The values and the names of the constant labels of a descriptor.
ValuesOf(d) == [i \in DOMAIN d.const_label_pairs |-> d.const_label_pairs[i].value]
NamesOf(d) == {d.const_label_pairs[i].name : i \in DOMAIN d.const_label_pairs}

\* The names in const_label_pairs are those of the labels, the values are text.
LEMMA PairsOfLabels ==
    ASSUME NEW d, NEW labels, Labelling(labels),
           d.const_label_pairs = ConstPairs(labels)
    PROVE  ValuesOf(d) \in Seq(Text) /\ NamesOf(d) = DOMAIN labels
<1> DEFINE D == DOMAIN labels
           names == SortedNames(D)
           pairs == d.const_label_pairs
           N == Len(names)
<1>1. names \in Seq(D) /\ ToSet(names) = D
  BY NamesSorted DEF Labelling, EachOnce
<1>2. pairs = [i \in DOMAIN names |-> [name |-> names[i], value |-> labels[names[i]]]]
  BY DEF ConstPairs
<1> HIDE DEF names
<1>3. N \in Nat /\ DOMAIN names = 1 .. N /\ \A i \in 1 .. N : names[i] \in D
  BY <1>1, LenProperties, ElementOfSeq
<1>4. DOMAIN pairs = 1 .. N
      /\ \A i \in 1 .. N : pairs[i].name = names[i] /\ pairs[i].value = labels[names[i]]
  BY <1>2, <1>3
<1>5. \A i \in 1 .. N : labels[names[i]] \in Text
  BY <1>3 DEF Labelling
<1>6. ValuesOf(d) \in Seq(Text)
  BY <1>3, <1>4, <1>5 DEF ValuesOf
<1>7. NamesOf(d) = ToSet(names)
  BY <1>3, <1>4 DEF NamesOf, ToSet
<1>8. QED
  BY <1>1, <1>6, <1>7

\* The id of a descriptor is given by its name and the values of its constant
\* labels, and gives them.
LEMMA IdDecides ==
    ASSUME NEW d, NEW e, Described(d), Described(e)
    PROVE  d.id = e.id <=> d.fq_name = e.fq_name /\ ValuesOf(d) = ValuesOf(e)
<1>1. ASSUME NEW x, Described(x)
      PROVE  /\ x.fq_name \in Separable
             /\ ValuesOf(x) \in Seq(Separable)
             /\ <<x.fq_name>> \o ValuesOf(x) \in Seq(Separable)
             /\ x.id = Hashed(<<x.fq_name>> \o ValuesOf(x))
  <2>1. PICK name, help, variable, labels : DescribedAs(x, name, help, variable, labels)
    BY <1>1 DEF Described
  <2>2. /\ name \in Separable /\ x.fq_name = name /\ Labelling(labels)
        /\ x.const_label_pairs = ConstPairs(labels)
        /\ x.id = DescId(name, labels)
    BY <2>1 DEF DescribedAs
  <2>3. ValuesOf(x) \in Seq(Separable)
    BY <2>2, PairsOfLabels, TextIsSeparable, SeqMonotonic
  <2>4. x.id = Hashed(<<name>> \o ValuesOf(x))
    BY <2>2 DEF DescId, ValuesOf
  <2>5. <<name>> \in Seq(Separable)
    BY <2>2
  <2> DEFINE s == <<name>>
  <2>6. s \o ValuesOf(x) \in Seq(Separable)
    <3> HIDE DEF s
    <3>1. s \in Seq(Separable)
      BY <2>5 DEF s
    <3>2. QED
      BY <3>1, <2>3, ConcatProperties
  <2>7. QED
    BY <2>2, <2>3, <2>4, <2>6
<1> DEFINE m == d.fq_name
           n == e.fq_name
           s == ValuesOf(d)
           t == ValuesOf(e)
<1>2. /\ m \in Separable /\ s \in Seq(Separable)
      /\ <<m>> \o s \in Seq(Separable) /\ d.id = Hashed(<<m>> \o s)
  BY <1>1
<1>3. /\ n \in Separable /\ t \in Seq(Separable)
      /\ <<n>> \o t \in Seq(Separable) /\ e.id = Hashed(<<n>> \o t)
  BY <1>1
<1> HIDE DEF m, n, s, t
<1>4. ASSUME d.id = e.id PROVE m = n /\ s = t
  <2>1. <<m>> \o s = <<n>> \o t
    BY <1>2, <1>3, <1>4, SeparableInjective
  <2>2. QED
    BY <2>1, <1>2, <1>3, ConsInjective
<1>5. ASSUME m = n, s = t PROVE d.id = e.id
  BY <1>2, <1>3, <1>5
<1>6. QED
  BY <1>4, <1>5 DEF m, n, s, t

\* The prefix of the variable names can be taken off again.
LEMMA PrefixedNames ==
    ASSUME NEW n \in Text, is_valid_label_name(n)
    PROVE  /\ Prefixed(n) \in Separable
           /\ Prefixed(n)[1] = "$" /\ 1 \in DOMAIN Prefixed(n)
           /\ \A m \in Text : Prefixed(m) = Prefixed(n) => m = n
<1> DEFINE c == <<"$">>
<1>1. c \in Seq(Character) /\ Len(c) = 1 /\ c[1] = "$"
  BY DEF Character
<1>2. n \in Separable /\ n \in Seq(Character) /\ Len(n) \in Nat /\ DOMAIN n = 1 .. Len(n)
  BY TextIsSeparable, LenProperties DEF Separable
<1>3. \A m \in Text : m \in Seq(Character)
  BY TextIsSeparable DEF Separable
<1>4. \A m : Prefixed(m) = c \o m
  BY DEF Prefixed
<1> HIDE DEF c
<1> DEFINE p == c \o n
<1>5. /\ p \in Seq(Character) /\ Len(p) = 1 + Len(n)
      /\ \A i \in 1 .. 1 + Len(n) : p[i] = IF i <= 1 THEN c[i] ELSE n[i - 1]
  <2> DEFINE k == Len(c)
  <2>1. /\ p \in Seq(Character) /\ Len(p) = k + Len(n)
        /\ \A i \in 1 .. k + Len(n) : p[i] = IF i <= k THEN c[i] ELSE n[i - k]
    BY <1>1, <1>2, ConcatProperties
  <2> HIDE DEF p, k
  <2>2. k = 1
    BY <1>1 DEF k
  <2>3. QED
    BY <2>1, <2>2
<1>6. DOMAIN p = 1 .. 1 + Len(n)
  BY <1>5, LenProperties
<1> HIDE DEF p
<1>7. p[1] = "$" /\ 1 \in DOMAIN p
  BY <1>1, <1>2, <1>5, <1>6
<1>8. "$" # SEPARATOR_BYTE
  BY DEF SEPARATOR_BYTE
<1>9. ASSUME NEW i \in DOMAIN p PROVE p[i] # SEPARATOR_BYTE
  <2> HIDE DEF SEPARATOR_BYTE
  <2>1. CASE i = 1
    BY <2>1, <1>7, <1>8
  <2>2. CASE i # 1
    <3> DEFINE j == i - 1
    <3>1. j \in DOMAIN n /\ p[i] = n[j]
      BY <2>2, <1>2, <1>5, <1>6
    <3> HIDE DEF j
    <3>2. QED
      BY <3>1, <1>2 DEF Separable
  <2>3. QED
    BY <2>1, <2>2
<1>10. p \in Separable
  BY <1>5, <1>9 DEF Separable
<1>11. \A m \in Text : c \o m = c \o n => m = n
  BY <1>1, <1>2, <1>3, ConcatSimplifications
<1>12. Prefixed(n) = p
  BY <1>4 DEF p
<1>13. \A m \in Text : Prefixed(m) = Prefixed(n) => m = n
  BY <1>4, <1>11
<1>14. QED
  BY <1>7, <1>10, <1>12, <1>13

\* The names that are hashed: those of the constant labels, and the prefixed
\* ones of the variable labels.
HashedNames(labels, variable) ==
    DOMAIN labels \cup {Prefixed(n) : n \in ToSet(variable)}

\* The hashed names are finitely many strings without a separator.
LEMMA HashedNamesFinite ==
    ASSUME NEW d, NEW name, NEW help, NEW variable, NEW labels,
           DescribedAs(d, name, help, variable, labels)
    PROVE  /\ IsFiniteSet(HashedNames(labels, variable))
           /\ HashedNames(labels, variable) \subseteq Separable
<1> DEFINE P == [i \in 1 .. Len(variable) |-> Prefixed(variable[i])]
           D == DOMAIN labels
<1>1. /\ variable \in Seq(Text) /\ Labelling(labels)
      /\ \A n \in DOMAIN labels \cup ToSet(variable) : is_valid_label_name(n)
  BY DEF DescribedAs
<1>2. Len(variable) \in Nat /\ DOMAIN variable = 1 .. Len(variable)
      /\ \A i \in 1 .. Len(variable) : variable[i] \in Text /\ variable[i] \in ToSet(variable)
  BY <1>1, LenProperties, ElementOfSeq DEF ToSet
<1>3. \A i \in 1 .. Len(variable) : Prefixed(variable[i]) \in Separable
  BY <1>1, <1>2, PrefixedNames
<1>4. P \in Seq(Separable)
  BY <1>2, <1>3
<1>5. ToSet(P) = {Prefixed(n) : n \in ToSet(variable)}
  BY <1>2 DEF ToSet
<1> HIDE DEF P
<1>6. IsFiniteSet(ToSet(P)) /\ ToSet(P) \subseteq Separable
  BY <1>4, FinitelyMany
<1>7. IsFiniteSet(D) /\ D \subseteq Separable
  BY <1>1, TextIsSeparable DEF Labelling
<1>8. IsFiniteSet(D \cup ToSet(P))
  BY <1>6, <1>7, FS_Union
<1>9. HashedNames(labels, variable) = D \cup ToSet(P)
  BY <1>5 DEF HashedNames
<1>10. QED
  BY <1>6, <1>7, <1>8, <1>9

\* A label in two lists of names of which the hashed names are the same.
LEMMA SameNames ==
    ASSUME NEW d, NEW e, NEW name, NEW help, NEW variable, NEW labels,
           NEW name2, NEW help2, NEW variable2, NEW labels2,
           DescribedAs(d, name, help, variable, labels),
           DescribedAs(e, name2, help2, variable2, labels2),
           HashedNames(labels, variable) \subseteq HashedNames(labels2, variable2)
    PROVE  /\ DOMAIN labels \subseteq DOMAIN labels2
           /\ ToSet(variable) \subseteq ToSet(variable2)
<1>1. ASSUME NEW n \in DOMAIN labels PROVE n \in DOMAIN labels2
  <2>1. n \in Text /\ is_valid_label_name(n)
    BY DEF DescribedAs, Labelling
  <2>2. n \in Seq(Character)
    BY <2>1, TextIsSeparable DEF Separable
  <2>3. \A i \in DOMAIN n : n[i] # "$"
    BY <2>1, <2>2, ValidNames
  <2>4. ASSUME NEW m \in ToSet(variable2) PROVE n # Prefixed(m)
    <3>1. m \in Text /\ is_valid_label_name(m)
      BY FinitelyMany DEF DescribedAs
    <3>2. QED
      BY <3>1, <2>3, PrefixedNames
  <2>5. n \in HashedNames(labels2, variable2)
    BY DEF HashedNames
  <2>6. QED
    BY <2>4, <2>5 DEF HashedNames
<1>2. ASSUME NEW n \in ToSet(variable) PROVE n \in ToSet(variable2)
  <2>1. n \in Text /\ is_valid_label_name(n)
    BY FinitelyMany DEF DescribedAs
  <2>2. Prefixed(n)[1] = "$" /\ 1 \in DOMAIN Prefixed(n)
        /\ \A m \in Text : Prefixed(m) = Prefixed(n) => m = n
    BY <2>1, PrefixedNames
  <2>3. Prefixed(n) \notin DOMAIN labels2
    <3> SUFFICES ASSUME Prefixed(n) \in DOMAIN labels2 PROVE FALSE
      OBVIOUS
    <3> DEFINE p == Prefixed(n)
    <3>1. p \in Text /\ is_valid_label_name(p)
      BY DEF DescribedAs, Labelling
    <3>2. p \in Seq(Character)
      BY <3>1, TextIsSeparable DEF Separable
    <3>3. \A i \in DOMAIN p : p[i] # "$"
      <4> HIDE DEF p
      <4>1. QED
        BY <3>1, <3>2, ValidNames
    <3>4. QED
      BY <3>3, <2>2
  <2>4. Prefixed(n) \in HashedNames(labels2, variable2)
    BY DEF HashedNames
  <2>5. PICK m \in ToSet(variable2) : Prefixed(n) = Prefixed(m)
    BY <2>3, <2>4 DEF HashedNames
  <2>6. m \in Text
    BY FinitelyMany DEF DescribedAs
  <2>7. QED
    BY <2>2, <2>5, <2>6
<1>3. QED
  BY <1>1, <1>2

\* The dimensions of a descriptor are given by its help and the names of its
\* constant and of its variable labels, and give them.
LEMMA DimensionsDecide ==
    ASSUME NEW d, NEW e, Described(d), Described(e)
    PROVE  d.dim_hash = e.dim_hash <=>
              /\ d.help = e.help /\ NamesOf(d) = NamesOf(e)
              /\ ToSet(d.variable_labels) = ToSet(e.variable_labels)
<1>1. PICK name, help, variable, labels : DescribedAs(d, name, help, variable, labels)
  BY DEF Described
<1>2. PICK name2, help2, variable2, labels2 :
         DescribedAs(e, name2, help2, variable2, labels2)
  BY DEF Described
<1> DEFINE K == HashedNames(labels, variable)
           L == HashedNames(labels2, variable2)
           s == SortedNames(K)
           t == SortedNames(L)
<1>3. /\ help \in Separable /\ d.help = help /\ d.variable_labels = variable
      /\ NamesOf(d) = DOMAIN labels /\ d.dim_hash = Hashed(<<help>> \o s)
  BY <1>1, PairsOfLabels, TextIsSeparable DEF DescribedAs, DimHash, HashedNames
<1>4. /\ help2 \in Separable /\ e.help = help2 /\ e.variable_labels = variable2
      /\ NamesOf(e) = DOMAIN labels2 /\ e.dim_hash = Hashed(<<help2>> \o t)
  BY <1>2, PairsOfLabels, TextIsSeparable DEF DescribedAs, DimHash, HashedNames
<1>5. s \in Seq(Separable) /\ ToSet(s) = K
  BY <1>1, HashedNamesFinite, NamesSorted, SeqMonotonic DEF EachOnce
<1>6. t \in Seq(Separable) /\ ToSet(t) = L
  BY <1>2, HashedNamesFinite, NamesSorted, SeqMonotonic DEF EachOnce
<1>7. ASSUME NEW h \in Separable, NEW z \in Seq(Separable)
      PROVE  <<h>> \o z \in Seq(Separable)
  <2> DEFINE c == <<h>>
  <2>1. c \in Seq(Separable)
    OBVIOUS
  <2> HIDE DEF c
  <2>2. c \o z \in Seq(Separable)
    BY <2>1, ConcatProperties
  <2>3. QED
    BY <2>2 DEF c
<1>8. ASSUME d.dim_hash = e.dim_hash
      PROVE  /\ help = help2 /\ DOMAIN labels = DOMAIN labels2
             /\ ToSet(variable) = ToSet(variable2)
  <2> HIDE DEF s, t
  <2>1. <<help>> \o s = <<help2>> \o t
    <3>1. <<help>> \o s \in Seq(Separable) /\ <<help2>> \o t \in Seq(Separable)
      BY <1>3, <1>4, <1>5, <1>6, <1>7
    <3>2. Hashed(<<help>> \o s) = Hashed(<<help2>> \o t)
      BY <1>3, <1>4, <1>8
    <3>3. QED
      BY <3>1, <3>2, SeparableInjective
  <2>2. help = help2 /\ s = t
    BY <2>1, <1>3, <1>4, <1>5, <1>6, ConsInjective
  <2>3. K = L
    BY <2>2, <1>5, <1>6
  <2>4. /\ DOMAIN labels \subseteq DOMAIN labels2 /\ ToSet(variable) \subseteq ToSet(variable2)
    BY <2>3, <1>1, <1>2, SameNames
  <2>5. /\ DOMAIN labels2 \subseteq DOMAIN labels /\ ToSet(variable2) \subseteq ToSet(variable)
    BY <2>3, <1>1, <1>2, SameNames
  <2>6. QED
    BY <2>2, <2>4, <2>5
<1>9. ASSUME help = help2, DOMAIN labels = DOMAIN labels2,
             ToSet(variable) = ToSet(variable2)
      PROVE  d.dim_hash = e.dim_hash
  <2>1. K = L
    BY <1>9 DEF HashedNames
  <2>2. QED
    BY <2>1, <1>3, <1>4, <1>9
<1> HIDE DEF K, L, s, t
<1>10. QED
  BY <1>3, <1>4, <1>8, <1>9

-----------------------------------------------------------------------------
\* A descriptor that Desc::new does not refuse is what its arguments say.
LEMMA NewDescDescribed ==
    ASSUME NEW name \in Seq(Character), NEW help \in Text, NEW variable \in Seq(Text),
           NEW labels, Labelling(labels), NewDesc(name, help, variable, labels).ok
    PROVE  Described(NewDesc(name, help, variable, labels).v)
<1> DEFINE r == NewDesc(name, help, variable, labels)
           d == [fq_name |-> name, help |-> help,
                 const_label_pairs |-> ConstPairs(labels),
                 variable_labels |-> variable,
                 id |-> DescId(name, labels),
                 dim_hash |-> DimHash(help, labels, variable)]
<1>1. \A x : ~Err(x).ok
  BY DEF Err
<1>2. /\ is_valid_metric_name(name) /\ IsInjective(variable)
      /\ \A n \in DOMAIN labels \cup ToSet(variable) : is_valid_label_name(n)
      /\ r = Ok(d)
  BY <1>1 DEF NewDesc, NoneTwice
<1>3. r.v = d
  BY <1>2 DEF Ok
<1>4. name \in Separable
  BY <1>2, ValidNames
<1>5. DescribedAs(d, name, help, variable, labels)
  BY <1>2, <1>4 DEF DescribedAs
<1>6. QED
  BY <1>3, <1>5 DEF Described

\* A function on 1 .. n is a sequence.
LEMMA SequenceOf ==
    ASSUME NEW S, NEW n \in Nat, NEW f \in [1 .. n -> S]
    PROVE  f \in Seq(S)
OBVIOUS

\* Options of text.
TextOpts(o) ==
    /\ {o.namespace, o.subsystem, o.name, o.help} \subseteq Text
    /\ o.variable_labels \in Seq(Text)
    /\ Labelling(o.const_labels)

\* The name with its prefixes is a string.
LEMMA FqNameType ==
    ASSUME NEW a \in Text, NEW b \in Text, NEW c \in Text
    PROVE  build_fq_name(a, b, c) \in Seq(Character)
<1>1. \A t \in Text : t \in Seq(Character)
  BY TextIsSeparable DEF Separable
<1> DEFINE part(i) == <<a, b>>[i]
           parts == [i \in 1 .. 2 |->
                        IF part(i) = << >> THEN << >> ELSE Append(part(i), "_")]
<1>2. ASSUME NEW t \in Text PROVE Append(t, "_") \in Seq(Character)
  <2>1. "_" \in Character
    BY DEF Character
  <2>2. QED
    BY <2>1, <1>1, AppendProperties
<1>3. parts \in Seq(Seq(Character))
  <2>1. \A i \in 1 .. 2 : part(i) \in Text
    OBVIOUS
  <2>2. << >> \in Seq(Character)
    OBVIOUS
  <2> HIDE DEF part
  <2>3. parts \in [1 .. 2 -> Seq(Character)]
    BY <2>1, <2>2, <1>2
  <2> HIDE DEF parts
  <2>4. QED
    BY <2>3, SequenceOf
<1>4. FlattenSeq(parts) \in Seq(Character)
  BY <1>3, FlattenType
<1>5. build_fq_name(a, b, c) = IF c = << >> THEN << >> ELSE FlattenSeq(parts) \o c
  BY DEF build_fq_name
<1> HIDE DEF parts
<1>6. FlattenSeq(parts) \o c \in Seq(Character)
  BY <1>1, <1>4, ConcatProperties
<1>7. QED
  BY <1>5, <1>6

\* Opts::describe gives a descriptor of the options.
LEMMA DescribeDescribed ==
    ASSUME NEW o, TextOpts(o), describe(o).ok
    PROVE  Described(describe(o).v)
<1>1. fq_name(o) \in Seq(Character)
  BY FqNameType DEF TextOpts, fq_name
<1>2. QED
  BY <1>1, NewDescDescribed DEF TextOpts, describe

\* The options that the macros make of an offer.
LEMMA OptsOfOffer ==
    ASSUME NEW o, {o.namespace, o.subsystem, o.name, o.help} \subseteq Text,
           o.const_labels \in Seq(Seq(Text \X Text))
    PROVE  /\ TextOpts(opts_(o))
           /\ \A names \in Seq(Text) :
                 TextOpts([opts_(o) EXCEPT !.variable_labels = names])
<1>1. FlattenSeq(o.const_labels) \in Seq(Text \X Text)
  BY FlattenType
<1> DEFINE labels == Labels(FlattenSeq(o.const_labels))
<1>2. Labelling(labels)
  BY <1>1, LabelsType
<1> DEFINE r == opts(o.name, o.help, o.const_labels)
           q == opts_(o)
           Names == {"namespace", "subsystem", "name", "help", "const_labels",
                     "variable_labels"}
<1>3. /\ DOMAIN r = Names
       /\ r.name = o.name /\ r.help = o.help
       /\ r.const_labels = labels /\ r.variable_labels = << >>
  BY DEF opts, Opts
<1>4. q = [r EXCEPT !.namespace = o.namespace, !.subsystem = o.subsystem]
  BY DEF opts_
<1> HIDE DEF r, q, labels
<1>5. /\ DOMAIN q = Names
      /\ q.namespace = o.namespace /\ q.subsystem = o.subsystem
      /\ q.name = o.name /\ q.help = o.help
      /\ q.const_labels = labels /\ q.variable_labels = << >>
  BY <1>3, <1>4
<1>6. << >> \in Seq(Text)
  OBVIOUS
<1>7. QED
  <2>1. TextOpts(q)
    BY <1>2, <1>5, <1>6 DEF TextOpts
  <2>2. ASSUME NEW names \in Seq(Text)
        PROVE TextOpts([q EXCEPT !.variable_labels = names])
    BY <1>2, <1>5 DEF TextOpts
  <2>3. QED
    BY <2>1, <2>2 DEF q

-----------------------------------------------------------------------------
\* A list of pairs, and the names in it.
NamesIn(pairs) == [l \in DOMAIN pairs |-> pairs[l].name]
Pairs(pairs) ==
    List(pairs) /\ \A p \in ToSet(pairs) : p = [name |-> p.name, value |-> p.value]

\* Names that are there once are there once in any order.
LEMMA ShuffledNames ==
    ASSUME NEW s, NEW t, Len(s) \in Nat, DOMAIN s = 1 .. Len(s), Shuffled(t, s),
           IsInjective(NamesIn(s))
    PROVE  IsInjective(NamesIn(t))
<1> DEFINE N == Len(s)
<1>1. PICK p \in [1 .. N -> 1 .. N] : IsInjective(p) /\ \A i \in 1 .. N : t[i] = s[p[i]]
  BY DEF Shuffled
<1>2. DOMAIN t = 1 .. N
  BY ShuffledAll
<1> SUFFICES ASSUME NEW i \in 1 .. N, NEW j \in 1 .. N, t[i].name = t[j].name
             PROVE  i = j
  BY <1>2 DEF IsInjective, NamesIn
<1>3. s[p[i]].name = s[p[j]].name /\ p[i] \in DOMAIN s /\ p[j] \in DOMAIN s
  BY <1>1
<1>4. p[i] = p[j]
  BY <1>3 DEF IsInjective, NamesIn
<1>5. QED
  BY <1>1, <1>4 DEF IsInjective

\* So are those of two lists that have none in common.
LEMMA JoinedPairs ==
    ASSUME NEW s, Pairs(s), NEW t, Pairs(t)
    PROVE  /\ Pairs(s \o t) /\ ToSet(s \o t) = ToSet(s) \cup ToSet(t)
           /\ Len(s \o t) = Len(s) + Len(t)
           /\ (/\ IsInjective(NamesIn(s)) /\ IsInjective(NamesIn(t))
               /\ \A p \in ToSet(s), q \in ToSet(t) : p.name # q.name)
                 => IsInjective(NamesIn(s \o t))
<1> DEFINE S == ToSet(s) \cup ToSet(t)
           u == s \o t
           M == Len(s)
           N == Len(t)
<1>1. s \in Seq(S) /\ t \in Seq(S) /\ s \in Seq(ToSet(s)) /\ t \in Seq(ToSet(t))
  BY SequenceLists DEF Pairs, List
<1>2. M \in Nat /\ N \in Nat /\ DOMAIN s = 1 .. M /\ DOMAIN t = 1 .. N
  BY <1>1, LenProperties
<1>3. u \in Seq(S) /\ Len(u) = M + N
      /\ \A i \in 1 .. (M + N) : u[i] = IF i <= M THEN s[i] ELSE t[i - M]
  BY <1>1, ConcatProperties
<1>4. DOMAIN u = 1 .. (M + N)
  BY <1>3, LenProperties
<1> HIDE DEF u, M, N
<1>5. /\ \A i \in 1 .. M : i \in 1 .. (M + N) /\ i <= M
      /\ \A i \in 1 .. N : M + i \in 1 .. (M + N) /\ ~(M + i <= M) /\ (M + i) - M = i
      /\ \A i \in 1 .. (M + N) : IF i <= M THEN i \in 1 .. M ELSE i - M \in 1 .. N
  BY <1>2
<1> DEFINE left(i) == i \in DOMAIN s /\ u[i] = s[i] /\ u[i] \in ToSet(s)
           right(i) == i - M \in DOMAIN t /\ u[i] = t[i - M] /\ u[i] \in ToSet(t)
<1>6. \A i \in 1 .. (M + N) : IF i <= M THEN left(i) ELSE right(i)
  <2>1. /\ \A i \in DOMAIN s : s[i] \in ToSet(s)
        /\ \A i \in DOMAIN t : t[i] \in ToSet(t)
    BY DEF ToSet
  <2> SUFFICES ASSUME NEW i \in 1 .. (M + N) PROVE IF i <= M THEN left(i) ELSE right(i)
    OBVIOUS
  <2>2. IF i <= M THEN i \in 1 .. M ELSE i - M \in 1 .. N
    BY <1>5
  <2>3. u[i] = IF i <= M THEN s[i] ELSE t[i - M]
    BY <1>3
  <2>4. CASE i <= M
    BY <2>1, <2>2, <2>3, <2>4, <1>2
  <2>5. CASE ~(i <= M)
    BY <2>1, <2>2, <2>3, <2>5, <1>2
  <2>6. QED
    BY <2>4, <2>5
<1>7. ToSet(u) \subseteq S
  BY <1>4, <1>6 DEF ToSet, left, right
<1>8. S \subseteq ToSet(u)
  <2>1. \A i \in DOMAIN s : s[i] \in ToSet(u)
    BY <1>2, <1>3, <1>4, <1>5 DEF ToSet
  <2>2. \A i \in DOMAIN t : t[i] \in ToSet(u)
    <3> SUFFICES ASSUME NEW i \in DOMAIN t PROVE t[i] \in ToSet(u)
      OBVIOUS
    <3> DEFINE k == M + i
    <3>1. k \in 1 .. (M + N) /\ ~(k <= M) /\ k - M = i
      BY <1>2, <1>5
    <3> HIDE DEF k
    <3>2. u[k] = t[i] /\ k \in DOMAIN u
      BY <3>1, <1>3, <1>4
    <3>3. QED
      BY <3>2 DEF ToSet
  <2>3. QED
    BY <2>1, <2>2 DEF ToSet
<1>9. Pairs(u)
  BY <1>3, <1>7, <1>8 DEF Pairs, List
<1>10. ASSUME IsInjective(NamesIn(s)), IsInjective(NamesIn(t)),
              \A p \in ToSet(s), q \in ToSet(t) : p.name # q.name
       PROVE  IsInjective(NamesIn(u))
  <2> SUFFICES ASSUME NEW i \in 1 .. (M + N), NEW j \in 1 .. (M + N), u[i].name = u[j].name
               PROVE  i = j
    BY <1>4 DEF IsInjective, NamesIn
  <2>1. CASE i <= M /\ j <= M
    <3>1. i \in DOMAIN s /\ j \in DOMAIN s /\ u[i] = s[i] /\ u[j] = s[j]
      BY <1>6, <2>1
    <3>2. QED
      BY <3>1, <1>10 DEF IsInjective, NamesIn
  <2>2. CASE ~(i <= M) /\ ~(j <= M)
    <3>1. i - M \in DOMAIN t /\ j - M \in DOMAIN t /\ u[i] = t[i - M] /\ u[j] = t[j - M]
      BY <1>6, <2>2
    <3>2. i - M = j - M
      BY <3>1, <1>10 DEF IsInjective, NamesIn
    <3>3. i \in Int /\ j \in Int /\ M \in Int
      BY <1>2
    <3>4. QED
      BY <3>2, <3>3
  <2>3. CASE i <= M /\ ~(j <= M)
    <3>1. u[i] \in ToSet(s) /\ u[j] \in ToSet(t)
      BY <1>6, <2>3
    <3>2. QED
      BY <3>1, <1>10
  <2>4. CASE ~(i <= M) /\ j <= M
    <3>1. u[j] \in ToSet(s) /\ u[i] \in ToSet(t)
      BY <1>6, <2>4
    <3>2. QED
      BY <3>1, <1>10
  <2>5. QED
    BY <2>1, <2>2, <2>3, <2>4
<1>11. QED
  BY <1>3, <1>7, <1>8, <1>9, <1>10 DEF u, M, N

\* Pairs of the names of a list, with any values.
LEMMA NamedPairs ==
    ASSUME NEW S, NEW names \in Seq(S), NEW pairs,
           DOMAIN pairs = DOMAIN names,
           \A i \in DOMAIN names :
              pairs[i].name = names[i]
              /\ pairs[i] = [name |-> pairs[i].name, value |-> pairs[i].value],
           \E f : pairs = [i \in DOMAIN names |-> f[i]]
    PROVE  /\ Pairs(pairs) /\ Len(pairs) = Len(names)
           /\ IsInjective(names) => IsInjective(NamesIn(pairs))
           /\ {p.name : p \in ToSet(pairs)} = ToSet(names)
<1>1. Len(names) \in Nat /\ DOMAIN names = 1 .. Len(names)
  BY LenProperties
<1>2. pairs \in [1 .. Len(names) -> ToSet(pairs)]
  BY <1>1 DEF ToSet
<1>3. List(pairs)
  BY <1>1, <1>2, SequenceOf DEF List
<1>4. Len(pairs) = Len(names)
  <2>1. DOMAIN pairs = 1 .. Len(pairs) /\ Len(pairs) \in Nat
    BY <1>3, LenProperties DEF List
  <2>2. QED
    BY <1>1, <2>1
<1>5. Pairs(pairs)
  BY <1>3 DEF Pairs, ToSet
<1>6. IsInjective(names) => IsInjective(NamesIn(pairs))
  <2> SUFFICES ASSUME IsInjective(names), NEW i \in DOMAIN pairs, NEW j \in DOMAIN pairs,
                      pairs[i].name = pairs[j].name
               PROVE  i = j
    BY DEF IsInjective, NamesIn
  <2>1. i \in DOMAIN names /\ j \in DOMAIN names /\ names[i] = names[j]
    OBVIOUS
  <2>2. QED
    BY <2>1 DEF IsInjective
<1>7. {p.name : p \in ToSet(pairs)} = ToSet(names)
  <2>1. \A i \in DOMAIN pairs : pairs[i].name \in ToSet(names)
    BY DEF ToSet
  <2>2. \A i \in DOMAIN names : pairs[i] \in ToSet(pairs) /\ pairs[i].name = names[i]
    BY DEF ToSet
  <2>3. QED
    BY <2>1, <2>2 DEF ToSet
<1>8. QED
  BY <1>4, <1>5, <1>6, <1>7

\* The pairs of the constant labels of a descriptor have different names, and so
\* have its variable labels.
LEMMA PairsOfDesc ==
    ASSUME NEW d, Described(d)
    PROVE  /\ Pairs(d.const_label_pairs) /\ IsInjective(NamesIn(d.const_label_pairs))
           /\ {p.name : p \in ToSet(d.const_label_pairs)} = NamesOf(d)
           /\ d.variable_labels \in Seq(Text) /\ IsInjective(d.variable_labels)
<1>1. PICK name, help, variable, labels : DescribedAs(d, name, help, variable, labels)
  BY DEF Described
<1> DEFINE D == DOMAIN labels
           names == SortedNames(D)
           pairs == d.const_label_pairs
           f == [i \in DOMAIN names |-> [name |-> names[i], value |-> labels[names[i]]]]
<1>2. names \in Seq(D) /\ IsInjective(names)
  BY <1>1, NamesSorted DEF DescribedAs, Labelling, EachOnce
<1>3. pairs = f
  BY <1>1 DEF DescribedAs, ConstPairs
<1> HIDE DEF names
<1>4. /\ DOMAIN f = DOMAIN names
      /\ \A i \in DOMAIN names :
           f[i].name = names[i] /\ f[i] = [name |-> f[i].name, value |-> f[i].value]
      /\ \E g : f = [i \in DOMAIN names |-> g[i]]
  <2>1. f = [i \in DOMAIN names |-> f[i]]
    OBVIOUS
  <2>2. QED
    BY <2>1
<1> HIDE DEF f
<1>5. Pairs(pairs) /\ IsInjective(NamesIn(pairs))
  <2>1. Pairs(f) /\ IsInjective(NamesIn(f))
    BY <1>2, <1>4, NamedPairs
  <2>2. QED
    BY <2>1, <1>3
<1>6. {p.name : p \in ToSet(pairs)} = NamesOf(d)
  <2>1. \A i \in DOMAIN pairs : pairs[i] \in ToSet(pairs) /\ pairs[i].name \in NamesOf(d)
    BY DEF ToSet, NamesOf
  <2>2. QED
    BY <2>1 DEF ToSet, NamesOf
<1>7. QED
  BY <1>1, <1>5, <1>6 DEF DescribedAs

\* The labels of a metric of a descriptor: its names are the constant and the
\* variable ones, each once unless one of them is both.
LabelledAs(pairs, d) ==
    /\ Pairs(pairs)
    /\ {p.name : p \in ToSet(pairs)} = NamesOf(d) \cup ToSet(d.variable_labels)
    /\ NamesOf(d) \cap ToSet(d.variable_labels) = {} => IsInjective(NamesIn(pairs))

\* make_label_pairs gives a metric those labels.
LEMMA MadePairs ==
    ASSUME NEW d, Described(d), NEW values \in Seq(Text), make_label_pairs(d, values).ok
    PROVE  LabelledAs(make_label_pairs(d, values).v, d)
<1> DEFINE names == d.variable_labels
           own == [i \in DOMAIN values |-> [name |-> names[i], value |-> values[i]]]
           const == d.const_label_pairs
           all == own \o const
           S == ToSet(all)
           sorted == StableSort(all, PairLess)
<1>1. Len(values) = Len(names) /\ make_label_pairs(d, values).v = sorted
  BY DEF make_label_pairs, Ok, Err
<1>2. /\ Pairs(const) /\ IsInjective(NamesIn(const))
      /\ {p.name : p \in ToSet(const)} = NamesOf(d)
      /\ names \in Seq(Text) /\ IsInjective(names)
  BY PairsOfDesc
<1>3. DOMAIN values = DOMAIN names
  BY <1>1, <1>2, LenProperties
<1>4. /\ DOMAIN own = DOMAIN names
      /\ \A i \in DOMAIN names :
           own[i].name = names[i] /\ own[i] = [name |-> own[i].name, value |-> own[i].value]
      /\ \E g : own = [i \in DOMAIN names |-> g[i]]
  <2>1. own = [i \in DOMAIN names |-> own[i]]
    BY <1>3
  <2>2. QED
    BY <2>1, <1>3
<1> HIDE DEF own, names, const
<1>5. /\ Pairs(own) /\ IsInjective(NamesIn(own))
      /\ {p.name : p \in ToSet(own)} = ToSet(names)
  BY <1>2, <1>4, NamedPairs
<1>6. /\ Pairs(all) /\ ToSet(all) = ToSet(own) \cup ToSet(const)
      /\ (\A p \in ToSet(own), q \in ToSet(const) : p.name # q.name)
           => IsInjective(NamesIn(all))
  BY <1>2, <1>5, JoinedPairs
<1> HIDE DEF all
<1>7. all \in Seq(S) /\ Len(all) \in Nat /\ DOMAIN all = 1 .. Len(all)
  BY <1>6, LenProperties DEF Pairs, List
<1>8. Shuffled(sorted, all) /\ sorted \in Seq(S)
  BY <1>7, SortedPairs
<1> HIDE DEF sorted, S
<1>9. ToSet(sorted) = ToSet(all) /\ Pairs(sorted)
  <2>1. ToSet(sorted) = ToSet(all)
    BY <1>7, <1>8, ShuffledAll
  <2>2. QED
    BY <1>6, <1>8, <2>1 DEF Pairs, Shuffled
<1>10. {p.name : p \in ToSet(sorted)} = NamesOf(d) \cup ToSet(names)
  BY <1>2, <1>5, <1>6, <1>9
<1>11. ASSUME NamesOf(d) \cap ToSet(names) = {} PROVE IsInjective(NamesIn(sorted))
  <2>1. \A p \in ToSet(own), q \in ToSet(const) : p.name # q.name
    BY <1>2, <1>5, <1>11
  <2>2. IsInjective(NamesIn(all))
    BY <2>1, <1>6
  <2>3. QED
    BY <2>2, <1>7, <1>8, ShuffledNames
<1>12. QED
  BY <1>1, <1>9, <1>10, <1>11 DEF LabelledAs, names
-----------------------------------------------------------------------------
\* A metric of a descriptor has its labels.
ChildOf(m, d) ==
    /\ {"desc", "label_pairs"} \subseteq DOMAIN m
    /\ m.desc = d /\ LabelledAs(m.label_pairs, d)

\* Finitely many metrics of a descriptor, by key.
ChildrenOf(f, d) == IsFiniteSet(DOMAIN f) /\ \A h \in DOMAIN f : ChildOf(f[h], d)

\* A collector of the library keeps what its descriptor was made from, and has
\* metrics of that descriptor.
OfLibrary(c) ==
    /\ {"type", "vec", "opts", "buckets", "descs", "children"} \subseteq DOMAIN c
    /\ c.type \in {"COUNTER", "GAUGE", "HISTOGRAM"}
    /\ c.descs = <<c.descs[1]>> /\ Described(c.descs[1])
    /\ describe(c.opts) = Ok(c.descs[1])
    /\ ChildrenOf(c.children, c.descs[1])

\* A collector is of the library, or code of its own.
Kept(c) == OfLibrary(c) \/ OtherCode(c)

\* What Ok and Err hold.
LEMMA Results == \A x : Ok(x).ok /\ Ok(x).v = x /\ ~Err(x).ok
BY DEF Ok, Err

\* A metric that is built is one of the descriptor of its options.
LEMMA BuiltChild ==
    ASSUME NEW type, NEW o, NEW buckets, NEW values \in Seq(Text),
           Built(type, o, buckets, values).ok,
           describe(o).ok => Described(describe(o).v)
    PROVE  describe(o).ok /\ ChildOf(Built(type, o, buckets, values).v, describe(o).v)
<1> DEFINE r == describe(o)
           d == r.v
           l == make_label_pairs(d, values)
           b == Built(type, o, buckets, values)
<1>1. r.ok /\ l.ok /\ {"desc", "label_pairs"} \subseteq DOMAIN b.v
      /\ b.v.desc = d /\ b.v.label_pairs = l.v
  <2>1. CASE type = "HISTOGRAM"
    <3> DEFINE bounds == check_and_adjust_buckets(buckets)
               m == [desc |-> d, label_pairs |-> l.v, upper_bounds |-> bounds.v,
                     counts |-> [i \in DOMAIN bounds.v |-> 0], count |-> 0, sum |-> 0]
    <3>1. b = NewHistogram(o, buckets, values)
      BY <2>1 DEF Built
    <3>2. b = IF ~r.ok THEN r
              ELSE IF \/ ~check_bucket_label(d.variable_labels)
                      \/ ~check_bucket_label([i \in DOMAIN d.const_label_pairs |->
                                                d.const_label_pairs[i].name])
              THEN Err("le") ELSE IF ~l.ok THEN l ELSE IF ~bounds.ok THEN bounds ELSE Ok(m)
      BY <3>1 DEF NewHistogram, Then
    <3> HIDE DEF l, r, bounds
    <3>3. r.ok /\ l.ok /\ b = Ok(m)
      BY <3>2, Results
    <3>4. b.v = m
      BY <3>3, Results
    <3>5. QED
      BY <3>3, <3>4
  <2>2. CASE type # "HISTOGRAM"
    <3> DEFINE m == [desc |-> d, label_pairs |-> l.v, val |-> 0]
    <3>1. b = NewValue(o, values)
      BY <2>2 DEF Built
    <3>2. b = IF ~r.ok THEN r ELSE IF ~l.ok THEN l ELSE Ok(m)
      BY <3>1 DEF NewValue, Then
    <3> HIDE DEF l, r
    <3>3. r.ok /\ l.ok /\ b = Ok(m)
      BY <3>2, Results
    <3>4. b.v = m
      BY <3>3, Results
    <3>5. QED
      BY <3>3, <3>4
  <2>3. QED
    BY <2>1, <2>2
<1>2. LabelledAs(l.v, d)
  BY <1>1, MadePairs
<1>3. QED
  BY <1>1, <1>2 DEF ChildOf

\* An update changes neither.
LEMMA UpdatedChild ==
    ASSUME NEW m, NEW d, ChildOf(m, d), NEW type, NEW v
    PROVE  ChildOf(Updated(type, m, v), d)
<1>1. CASE type # "HISTOGRAM"
  <2>1. Updated(type, m, v) = [m EXCEPT !.val = m.val + v]
    BY <1>1 DEF Updated
  <2>2. QED
    BY <2>1 DEF ChildOf
<1>2. CASE type = "HISTOGRAM"
  <2> DEFINE fits(i) == AtLeast(m.upper_bounds[i], v)
             u == Updated(type, m, v)
             counts == [i \in DOMAIN m.counts |->
                           IF fits(i) /\ \A j \in 1 .. (i - 1) : ~fits(j)
                           THEN m.counts[i] + 1 ELSE m.counts[i]]
  <2>1. u = [m EXCEPT !.count = m.count + 1, !.sum = m.sum + v, !.counts = counts]
    BY <1>2 DEF Updated
  <2> HIDE DEF u, counts
  <2>2. DOMAIN u = DOMAIN m /\ u.desc = m.desc /\ u.label_pairs = m.label_pairs
    BY <2>1 DEF ChildOf
  <2>3. QED
    BY <2>2 DEF ChildOf, u
<1>3. QED
  BY <1>1, <1>2

\* One more metric, or another one for a key.
LEMMA OneMoreChild ==
    ASSUME NEW f, NEW d, ChildrenOf(f, d), NEW h, NEW m, ChildOf(m, d)
    PROVE  ChildrenOf(With(f, h, m), d)
<1>1. DOMAIN With(f, h, m) = DOMAIN f \cup {h}
      /\ \A x \in DOMAIN f \cup {h} : With(f, h, m)[x] = IF x = h THEN m ELSE f[x]
  BY DEF With
<1>2. IsFiniteSet(DOMAIN f \cup {h})
  BY FS_AddElement DEF ChildrenOf
<1>3. QED
  BY <1>1, <1>2 DEF ChildrenOf

\* describe gives a descriptor, or an error.
LEMMA DescribeOk == ASSUME NEW o, describe(o).ok PROVE describe(o) = Ok(describe(o).v)
BY DEF describe, NewDesc, Ok, Err

\* with_opts makes a collector with the descriptor of its options.
LEMMA SingleOfLibrary ==
    ASSUME NEW type \in {"COUNTER", "GAUGE", "HISTOGRAM"}, NEW o, TextOpts(o),
           NEW buckets, Single(type, o, buckets).ok
    PROVE  OfLibrary(Single(type, o, buckets).v)
<1> DEFINE b == Built(type, o, buckets, << >>)
           d == describe(o)
           f == With(<< >>, << >>, b.v)
           c == [type |-> type, vec |-> FALSE, opts |-> o, buckets |-> buckets,
                 descs |-> <<b.v.desc>>, children |-> f]
<1>1. b.ok /\ Single(type, o, buckets) = Ok(c)
  BY DEF Single, Then
<1>2. Single(type, o, buckets).v = c
  BY <1>1 DEF Ok
<1>3. d.ok /\ Described(d.v) /\ ChildOf(b.v, d.v) /\ b.v.desc = d.v
  <2>1. d.ok => Described(d.v)
    BY DescribeDescribed
  <2>2. << >> \in Seq(Text)
    OBVIOUS
  <2>3. d.ok /\ ChildOf(b.v, d.v)
    BY <1>1, <2>1, <2>2, BuiltChild
  <2>4. QED
    BY <2>1, <2>3 DEF ChildOf
<1>4. d = Ok(d.v)
  BY <1>3, DescribeOk
<1>5. ChildrenOf(f, d.v)
  <2>1. ChildrenOf(<< >>, d.v)
    BY FS_EmptySet DEF ChildrenOf
  <2> HIDE DEF b, d
  <2>2. QED
    BY <2>1, <1>3, OneMoreChild
<1> HIDE DEF b, d, f
<1>6. OfLibrary(c)
  BY <1>3, <1>4, <1>5 DEF OfLibrary, d
<1>7. QED
  BY <1>2, <1>6

\* So does the constructor of a vector.
LEMMA VecOfLibrary ==
    ASSUME NEW type \in {"COUNTER", "GAUGE", "HISTOGRAM"}, NEW o, NEW buckets, NEW names,
           TextOpts([o EXCEPT !.variable_labels = names]),
           NewVec(type, o, buckets, names).ok
    PROVE  OfLibrary(NewVec(type, o, buckets, names).v)
<1> DEFINE p == [o EXCEPT !.variable_labels = names]
           d == describe(p)
           c == [type |-> type, vec |-> TRUE, opts |-> p, buckets |-> buckets,
                 descs |-> <<d.v>>, children |-> << >>]
<1>1. d.ok /\ NewVec(type, o, buckets, names) = Ok(c)
  BY DEF NewVec, Then
<1>2. NewVec(type, o, buckets, names).v = c
  BY <1>1 DEF Ok
<1>3. Described(d.v) /\ d = Ok(d.v)
  BY <1>1, DescribeDescribed, DescribeOk
<1>4. ChildrenOf(<< >>, d.v)
  BY FS_EmptySet DEF ChildrenOf
<1> HIDE DEF d, p
<1>5. OfLibrary(c)
  BY <1>3, <1>4 DEF OfLibrary, d
<1>6. QED
  BY <1>2, <1>5

\* Every macro makes a collector of the library; register takes another one.
LEMMA MadeKept ==
    ASSUME NEW k \in DOMAIN Offers, Made(Offers[k]).ok
    PROVE  Kept(Made(Offers[k]).v)
<1> DEFINE o == Offers[k]
           m == Made(o)
           Macros == {"register_counter", "register_gauge", "register_histogram",
                      "register_counter_vec", "register_gauge_vec",
                      "register_histogram_vec"}
<1> SUFFICES OfLibrary(m.v) \/ OtherCode(m.v)
  BY DEF Kept
<1>1. CASE o.macro = "register"
  <2>1. m = Ok(o.collector)
    BY <1>1 DEF Made
  <2>2. OtherCode(o.collector)
    BY <1>1, OffersAssumption
  <2>3. QED
    BY <2>1, <2>2 DEF Ok
<1>2. CASE o.macro # "register"
  <2>1. /\ o.macro \in Macros
        /\ {o.namespace, o.subsystem, o.name, o.help} \subseteq Text
        /\ o.const_labels \in Seq(Seq(Text \X Text))
        /\ o.label_names \in Seq(Text)
    BY <1>2, OffersAssumption
  <2> DEFINE p == opts_(o)
             h == histogram_opts(o)
  <2> HIDE DEF o
  <2>2. TextOpts(p) /\ TextOpts([p EXCEPT !.variable_labels = o.label_names])
    BY <2>1, OptsOfOffer
  <2>3. m.ok
    BY DEF o
  <2> HIDE DEF m
  <2>4. \A x : Ok(x).ok /\ Ok(x).v = x
    BY DEF Ok
  <2> HIDE DEF p
  <2>5. CASE o.macro = "register_counter"
    <3>1. m = Single("COUNTER", p, << >>)
      BY <2>5 DEF m, Made, register_counter, p
    <3>2. QED
      BY <3>1, <2>2, <2>3, SingleOfLibrary
  <2>6. CASE o.macro = "register_gauge"
    <3>1. m = Single("GAUGE", p, << >>)
      BY <2>6 DEF m, Made, register_gauge, p
    <3>2. QED
      BY <3>1, <2>2, <2>3, SingleOfLibrary
  <2>7. CASE o.macro = "register_histogram"
    <3>1. m = IF h.ok THEN Single("HISTOGRAM", p, h.v) ELSE h
      BY <2>7 DEF m, Made, register_histogram, Then, p
    <3> HIDE DEF h
    <3>2. QED
      BY <3>1, <2>2, <2>3, SingleOfLibrary
  <2>8. CASE o.macro = "register_counter_vec"
    <3>1. m = NewVec("COUNTER", p, << >>, o.label_names)
      BY <2>8 DEF m, Made, register_counter_vec, p
    <3>2. QED
      BY <3>1, <2>2, <2>3, VecOfLibrary
  <2>9. CASE o.macro = "register_gauge_vec"
    <3>1. m = NewVec("GAUGE", p, << >>, o.label_names)
      BY <2>9 DEF m, Made, register_gauge_vec, p
    <3>2. QED
      BY <3>1, <2>2, <2>3, VecOfLibrary
  <2>10. CASE o.macro = "register_histogram_vec"
    <3>1. m = IF h.ok THEN NewVec("HISTOGRAM", p, h.v, o.label_names) ELSE h
      BY <2>10 DEF m, Made, register_histogram_vec, Then, p
    <3> HIDE DEF h
    <3>2. QED
      BY <3>1, <2>2, <2>3, VecOfLibrary
  <2>11. QED
    BY <2>1, <2>5, <2>6, <2>7, <2>8, <2>9, <2>10 DEF o, m
<1>3. QED
  BY <1>1, <1>2

\* A change of the children leaves a collector of the library.
LEMMA OthersChildren ==
    ASSUME NEW c, OfLibrary(c), NEW f, ChildrenOf(f, c.descs[1])
    PROVE  OfLibrary([c EXCEPT !.children = f])
BY DEF OfLibrary

\* A look-up in a vector finds a child or adds one.
LEMMA GetMetricKept ==
    ASSUME NEW c, OfLibrary(c), NEW values \in Seq(Text), GetMetric(c, values).ok
    PROVE  OfLibrary(GetMetric(c, values).v.vec)
<1> DEFINE h == hash_label_values(c, values)
           b == Built(c.type, c.opts, c.buckets, values)
           r == GetMetric(c, values)
           d == c.descs[1]
           f == With(c.children, h.v, b.v)
           new == [c EXCEPT !.children = f]
<1>1. r = IF h.ok THEN IF h.v \in DOMAIN c.children THEN Ok([vec |-> c, key |-> h.v])
                       ELSE IF b.ok THEN Ok([vec |-> new, key |-> h.v]) ELSE b
          ELSE h
  BY DEF GetMetric, Then
<1>2. ASSUME b.ok PROVE OfLibrary(new)
  <2>1. describe(c.opts).v = d /\ Described(d)
    BY Results DEF OfLibrary
  <2>2. ChildOf(b.v, d)
    BY <1>2, <2>1, BuiltChild
  <2>3. ChildrenOf(c.children, d)
    BY DEF OfLibrary
  <2> HIDE DEF b, d, h
  <2>4. ChildrenOf(f, d)
    BY <2>2, <2>3, OneMoreChild
  <2>5. QED
    BY <2>4, OthersChildren DEF d
<1>3. r.ok
  OBVIOUS
<1> HIDE DEF h, b, r, new
<1>4. CASE h.v \in DOMAIN c.children /\ r = Ok([vec |-> c, key |-> h.v])
  <2>1. r.v = [vec |-> c, key |-> h.v]
    BY <1>4, Results
  <2>2. QED
    BY <1>4, <2>1 DEF r
<1>5. CASE b.ok /\ r = Ok([vec |-> new, key |-> h.v])
  <2>1. r.v = [vec |-> new, key |-> h.v]
    BY <1>5, Results
  <2>2. QED
    BY <1>2, <1>5, <2>1 DEF r
<1>6. QED
  BY <1>1, <1>3, <1>4, <1>5

\* So does a look-up by a map of labels.
LEMMA GetMetricWithKept ==
    ASSUME NEW c, OfLibrary(c), NEW labels, \A n \in DOMAIN labels : labels[n] \in Text,
           GetMetricWith(c, labels).ok
    PROVE  OfLibrary(GetMetricWith(c, labels).v.vec)
<1> DEFINE l == LabelValues(c, labels)
           names == c.descs[1].variable_labels
           values == [i \in DOMAIN names |-> labels[names[i]]]
<1>1. GetMetricWith(c, labels) = IF l.ok THEN GetMetric(c, l.v) ELSE l
  BY DEF GetMetricWith, Then
<1>2. l.ok => ToSet(names) \subseteq DOMAIN labels /\ l.v = values
  BY Results DEF LabelValues
<1>3. names \in Seq(Text)
  BY PairsOfDesc DEF OfLibrary
<1> HIDE DEF l, names
<1>4. l.ok /\ GetMetricWith(c, labels) = GetMetric(c, l.v)
  BY <1>1
<1>5. values \in Seq(Text)
  <2>1. Len(names) \in Nat /\ DOMAIN names = 1 .. Len(names)
    BY <1>3, LenProperties
  <2>2. \A i \in DOMAIN names : labels[names[i]] \in Text
    BY <1>2, <1>4 DEF ToSet
  <2>3. values \in [1 .. Len(names) -> Text]
    BY <2>1, <2>2
  <2>4. QED
    BY <2>1, <2>3, SequenceOf
<1> HIDE DEF values
<1>6. QED
  BY <1>2, <1>4, <1>5, GetMetricKept

\* The removal of a child leaves the rest of the vector.
LEMMA DeleteMetricKept ==
    ASSUME NEW c, OfLibrary(c), NEW values, DeleteMetric(c, values).ok
    PROVE  OfLibrary(DeleteMetric(c, values).v)
<1> DEFINE h == hash_label_values(c, values)
           r == DeleteMetric(c, values)
           f == [k \in DOMAIN c.children \ {h.v} |-> c.children[k]]
           new == [c EXCEPT !.children = f]
<1>1. r = IF h.ok THEN IF h.v \notin DOMAIN c.children THEN Err("missing") ELSE Ok(new)
          ELSE h
  BY DEF DeleteMetric, Then
<1>2. ChildrenOf(c.children, c.descs[1])
  BY DEF OfLibrary
<1>3. r.ok
  OBVIOUS
<1> HIDE DEF h, r
<1>4. ChildrenOf(f, c.descs[1])
  <2>1. IsFiniteSet(DOMAIN f)
    BY <1>2, FS_Subset DEF ChildrenOf
  <2>2. QED
    BY <1>2, <2>1 DEF ChildrenOf
<1>5. OfLibrary(new)
  BY <1>4, OthersChildren
<1> HIDE DEF new
<1>6. r.v = new
  BY <1>1, <1>3, Results
<1>7. QED
  BY <1>5, <1>6 DEF r

-----------------------------------------------------------------------------
\* Every collector of which there is a handle is one of the library with its
\* descriptor and its labels, or foreign code.
KeptInv == \A k \in DOMAIN colls : Kept(colls[k])

\* Collectors that keep their descriptors have exact ids and dimensions.
LEMMA KeptDecides == KeptInv => IdentityIsExact
<1> SUFFICES ASSUME KeptInv,
                    NEW j \in DOMAIN colls, NEW k \in DOMAIN colls,
                    colls[j].type # "CUSTOM", colls[k].type # "CUSTOM"
             PROVE  LET d == colls[j].descs[1]
                        e == colls[k].descs[1]
                        values(x) == [i \in DOMAIN x.const_label_pairs |->
                                         x.const_label_pairs[i].value]
                        names(x) == {x.const_label_pairs[i].name :
                                         i \in DOMAIN x.const_label_pairs}
                    IN  /\ d.id = e.id <=> d.fq_name = e.fq_name /\ values(d) = values(e)
                        /\ d.dim_hash = e.dim_hash <=>
                               /\ d.help = e.help /\ names(d) = names(e)
                               /\ ToSet(d.variable_labels) = ToSet(e.variable_labels)
  BY DEF IdentityIsExact
<1> DEFINE d == colls[j].descs[1]
           e == colls[k].descs[1]
<1>1. Described(d) /\ Described(e)
  BY DEF KeptInv, Kept, OtherCode, OfLibrary
<1> HIDE DEF d, e
<1>2. /\ d.id = e.id <=> d.fq_name = e.fq_name /\ ValuesOf(d) = ValuesOf(e)
      /\ d.dim_hash = e.dim_hash <=>
             /\ d.help = e.help /\ NamesOf(d) = NamesOf(e)
             /\ ToSet(d.variable_labels) = ToSet(e.variable_labels)
  BY <1>1, IdDecides, DimensionsDecide
<1>3. QED
  BY <1>2 DEF ValuesOf, NamesOf, d, e

\* At first there is no collector, or that of the process.
LEMMA KeptInit == InstrumentationInit => KeptInv
<1> SUFFICES ASSUME InstrumentationInit PROVE KeptInv
  OBVIOUS
<1>1. PICK s \in Setups :
         IF s.default THEN colls = [process |-> s.process] ELSE colls = << >>
  BY DEF InstrumentationInit
<1>2. CASE s.default
  <2>1. OtherCode(s.process)
    BY <1>2, SetupsAssumption
  <2>2. QED
    BY <1>1, <1>2, <2>1 DEF KeptInv, Kept
<1>3. CASE ~s.default
  BY <1>1, <1>3 DEF KeptInv
<1>4. QED
  BY <1>2, <1>3

\* One collector is replaced by another one of the library.
LEMMA ReplacedKept ==
    ASSUME KeptInv, NEW k \in DOMAIN colls,
           NEW d, OfLibrary(d), colls' = [colls EXCEPT ![k] = d]
    PROVE  KeptInv'
<1>1. DOMAIN colls' = DOMAIN colls
      /\ \A j \in DOMAIN colls : colls'[j] = IF j = k THEN d ELSE colls[j]
  OBVIOUS
<1>2. QED
  BY <1>1 DEF KeptInv, Kept

\* A child of a collector is updated.
LEMMA UpdateKeeps ==
    ASSUME NEW c, OfLibrary(c), NEW h, NEW type, NEW v
    PROVE  OfLibrary([c EXCEPT !.children =
                        [c.children EXCEPT ![h] = Updated(type, c.children[h], v)]])
<1> DEFINE m == Updated(type, c.children[h], v)
           f == [c.children EXCEPT ![h] = m]
           d == c.descs[1]
<1>1. ChildrenOf(c.children, d)
  BY DEF OfLibrary
<1> HIDE DEF d
<1>2. h \in DOMAIN c.children => ChildOf(m, d)
  BY <1>1, UpdatedChild DEF ChildrenOf
<1> HIDE DEF m
<1>3. ChildrenOf(f, d)
  BY <1>1, <1>2 DEF ChildrenOf
<1> HIDE DEF f
<1>4. QED
  BY <1>3, OthersChildren DEF f, d, m

\* The values that a child is asked for, by their names.
LEMMA LabelledWith ==
    ASSUME NEW names \in Seq(Text), NEW values \in Seq(Text),
           NEW n \in DOMAIN Labels([i \in DOMAIN names \cap DOMAIN values |->
                                      <<names[i], values[i]>>])
    PROVE  Labels([i \in DOMAIN names \cap DOMAIN values |->
                      <<names[i], values[i]>>])[n] \in Text
<1> DEFINE M == Len(names)
           N == Len(values)
           k == IF M <= N THEN M ELSE N
           entries == [i \in DOMAIN names \cap DOMAIN values |-> <<names[i], values[i]>>]
<1>1. M \in Nat /\ N \in Nat /\ DOMAIN names = 1 .. M /\ DOMAIN values = 1 .. N
  BY LenProperties
<1>2. k \in Nat /\ (1 .. M) \cap (1 .. N) = 1 .. k
  BY <1>1
<1>3. \A i \in 1 .. k : <<names[i], values[i]>> \in Text \X Text
  BY <1>1, <1>2, ElementOfSeq
<1>4. entries \in [1 .. k -> Text \X Text]
  BY <1>1, <1>2, <1>3
<1> HIDE DEF k, entries
<1>5. entries \in Seq(Text \X Text)
  BY <1>2, <1>4, SequenceOf
<1>6. Labelling(Labels(entries))
  BY <1>5, LabelsType
<1>7. QED
  BY <1>6 DEF Labelling, entries

\* Every call keeps the descriptors and the labels, and so do registrations.
LEMMA KeptNext == KeptInv /\ [InstrumentationNext]_collecting => KeptInv'
<1> SUFFICES ASSUME KeptInv, [InstrumentationNext]_collecting PROVE KeptInv'
  OBVIOUS
<1>1. CASE UNCHANGED colls
  BY <1>1 DEF KeptInv
<1>2. ASSUME NEW k \in DOMAIN Offers, Register(k) PROVE KeptInv'
  <2> DEFINE fresh == Made(Offers[k])
             all == With(colls, k, fresh.v)
  <2>1. colls' = colls \/ (fresh.ok /\ colls' = all)
    BY <1>2 DEF Register
  <2>2. CASE fresh.ok /\ colls' = all
    <3>1. Kept(fresh.v)
      BY <2>2, MadeKept
    <3> HIDE DEF fresh
    <3>2. /\ DOMAIN colls' = DOMAIN colls \cup {k}
          /\ \A j \in DOMAIN colls' : colls'[j] = IF j = k THEN fresh.v ELSE colls[j]
      BY <2>2 DEF With
    <3>3. QED
      BY <3>1, <3>2 DEF KeptInv
  <2>3. QED
    BY <1>1, <2>1, <2>2
<1>3. ASSUME NEW k \in DOMAIN Offers, Unregister(k) \/ Reregister(k) PROVE KeptInv'
  BY <1>1, <1>3 DEF Unregister, Reregister
<1>4. ASSUME NEW k \in DOMAIN Offers, NEW v \in Offers[k].amounts, Update(k, v)
      PROVE KeptInv'
  <2> DEFINE f == [colls[k].children EXCEPT
                      ![<< >>] = Updated(colls[k].type, colls[k].children[<< >>], v)]
             d == [colls[k] EXCEPT !.children = f]
  <2>1. k \in DOMAIN colls /\ OfLibrary(colls[k])
    BY <1>4 DEF Update, Call, KeptInv, Kept, OtherCode
  <2>2. colls' = [colls EXCEPT ![k] = d]
    BY <1>4 DEF Update
  <2>3. OfLibrary(d)
    BY <2>1, UpdateKeeps
  <2> HIDE DEF d
  <2>4. QED
    BY <2>1, <2>2, <2>3, ReplacedKept
<1>5. ASSUME NEW k \in DOMAIN Offers, NEW v \in Offers[k].amounts,
             NEW values \in Offers[k].called_with, UpdateChild(k, values, v)
      PROVE KeptInv'
  <2>1. k \in DOMAIN colls /\ OfLibrary(colls[k])
    BY <1>5 DEF UpdateChild, Call, KeptInv, Kept, OtherCode
  <2> DEFINE names == colls[k].descs[1].variable_labels
             given == DOMAIN names \cap DOMAIN values
             byName == Labels([i \in given |-> <<names[i], values[i]>>])
             new(child) == [child.v.vec EXCEPT !.children =
                               [child.v.vec.children EXCEPT ![child.v.key] =
                                   Updated(colls[k].type,
                                           child.v.vec.children[child.v.key], v)]]
  <2>2. PICK child \in {GetMetric(colls[k], values), GetMetricWith(colls[k], byName)} :
           child.ok /\ colls' = [colls EXCEPT ![k] = new(child)]
    BY <1>5 DEF UpdateChild
  <2>3. values \in Seq(Text)
    BY OffersAssumption
  <2>4. \A n \in DOMAIN byName : byName[n] \in Text
    <3>1. names \in Seq(Text)
      BY <2>1, PairsOfDesc DEF OfLibrary
    <3> HIDE DEF names
    <3>2. QED
      BY <2>3, <3>1, LabelledWith
  <2> HIDE DEF byName
  <2>5. OfLibrary(child.v.vec)
    BY <2>1, <2>2, <2>3, <2>4, GetMetricKept, GetMetricWithKept
  <2>6. OfLibrary(new(child))
    BY <2>5, UpdateKeeps
  <2> HIDE DEF new
  <2>7. QED
    BY <2>1, <2>2, <2>6, ReplacedKept
<1>6. ASSUME NEW k \in DOMAIN Offers, NEW values \in Offers[k].called_with,
             RemoveChild(k, values)
      PROVE KeptInv'
  <2>1. k \in DOMAIN colls /\ OfLibrary(colls[k])
    BY <1>6 DEF RemoveChild, Call, KeptInv, Kept, OtherCode
  <2> DEFINE r == DeleteMetric(colls[k], values)
  <2>2. r.ok /\ colls' = [colls EXCEPT ![k] = r.v]
    BY <1>6 DEF RemoveChild
  <2>3. OfLibrary(r.v)
    BY <2>1, <2>2, DeleteMetricKept
  <2> HIDE DEF r
  <2>4. QED
    BY <2>1, <2>2, <2>3, ReplacedKept
<1>7. QED
  BY <1>1, <1>2, <1>3, <1>4, <1>5, <1>6 DEF InstrumentationNext, collecting

\* desc.rs, Desc::new: whatever collectors a program makes and registers, their
\* descriptors have the same id exactly if their names and the values of their
\* constant labels are the same, and the same dim_hash exactly if their help and
\* the names of their labels are.
THEOREM IdentityExact == InstrumentationSpec => []IdentityIsExact
<1>1. InstrumentationInit => KeptInv
  BY KeptInit
<1>2. KeptInv /\ [InstrumentationNext]_collecting => KeptInv'
  BY KeptNext
<1>3. KeptInv => IdentityIsExact
  BY KeptDecides
<1>4. QED
  BY <1>1, <1>2, <1>3, PTL DEF InstrumentationSpec

-----------------------------------------------------------------------------
\* The fields of a registry, of which only the dimensions and the collectors
\* change when something is registered.
RegistryFields == {"collectors", "dim_hashes_by_name", "desc_ids", "labels", "prefix"}
SameRegistry(q, r) ==
    DOMAIN q = RegistryFields
    /\ q.collectors = r.collectors /\ q.labels = r.labels /\ q.prefix = r.prefix
CheckedFrom(acc, r) ==
    DOMAIN acc = {"registry", "seen", "error"} /\ SameRegistry(acc.registry, r)

\* The loop of register over the descriptors.
Unchecked(r) == [registry |-> r, seen |-> {}, error |-> "none"]
Checks(f, r, descs) ==
    f = [n \in 0 .. Len(descs) |->
            IF n = 0 THEN Unchecked(r) ELSE CheckDesc(f[n - 1], descs[n])]

\* What register makes of what the loop has found in the end.
Outcome(r, cs, k, acc) ==
    IF acc.error # "none" THEN [registry |-> acc.registry, error |-> acc.error]
    ELSE IF \E j \in r.collectors : Ids(cs[j]) = acc.seen
    THEN [registry |-> acc.registry, error |-> "AlreadyReg"]
    ELSE [registry |-> [acc.registry EXCEPT !.collectors = acc.registry.collectors \cup {k},
                                            !.desc_ids = acc.registry.desc_ids \cup acc.seen],
          error |-> "none"]

\* It goes by that.
LEMMA RegisterDef ==
    ASSUME NEW r, NEW cs, NEW k
    PROVE  register(r, cs, k) =
             Outcome(r, cs, k, (CHOOSE f : Checks(f, r, cs[k].descs))[Len(cs[k].descs)])
BY DEF register, Outcome, Checks, Unchecked

\* A turn of the loop leaves the collectors and the common labels alone.
LEMMA CheckDescKeeps ==
    ASSUME NEW r, NEW acc, CheckedFrom(acc, r), NEW desc
    PROVE  CheckedFrom(CheckDesc(acc, desc), r)
<1> DEFINE hashes == acc.registry.dim_hashes_by_name
           q == [acc.registry EXCEPT !.dim_hashes_by_name =
                    With(hashes, desc.fq_name, desc.dim_hash)]
           named == [acc EXCEPT !.registry = q]
           c == CheckDesc(acc, desc)
<1>1. \/ c = acc \/ \E e : c = [acc EXCEPT !.error = e]
      \/ c = [named EXCEPT !.error = "duplicate"]
      \/ \E s : c = [named EXCEPT !.seen = s]
  BY DEF CheckDesc
<1>2. SameRegistry(q, r)
  <2> DEFINE w == With(hashes, desc.fq_name, desc.dim_hash)
  <2> HIDE DEF w
  <2>1. q = [acc.registry EXCEPT !.dim_hashes_by_name = w]
    BY DEF w
  <2> HIDE DEF q
  <2>2. QED
    BY <2>1 DEF CheckedFrom, SameRegistry, RegistryFields
<1> HIDE DEF q, c
<1>3. CheckedFrom(named, r)
  BY <1>2 DEF CheckedFrom
<1> HIDE DEF named
<1>4. QED
  BY <1>1, <1>3 DEF CheckedFrom, c

\* The loop exists, and in the end the collectors and the common labels are the
\* same.
LEMMA ChecksKeep ==
    ASSUME NEW r, DOMAIN r = RegistryFields, NEW descs, List(descs)
    PROVE  CheckedFrom((CHOOSE f : Checks(f, r, descs))[Len(descs)], r)
<1> DEFINE N == Len(descs)
           Goes(g, n) == g = [i \in 0 .. n |->
                                 IF i = 0 THEN Unchecked(r) ELSE CheckDesc(g[i - 1], descs[i])]
           c == CHOOSE f : Checks(f, r, descs)
<1>1. N \in Nat
  BY LenProperties DEF List
<1>2. \A n \in Nat : \E g : Goes(g, n)
  <2> DEFINE G == {n \in Nat : \E g : Goes(g, n)}
  <2>1. 0 \in G
    <3>1. Goes([i \in 0 .. 0 |-> Unchecked(r)], 0)
      OBVIOUS
    <3>2. QED
      BY <3>1
  <2>2. ASSUME NEW n \in G PROVE n + 1 \in G
    <3>1. PICK g : Goes(g, n)
      BY <2>2
    <3> DEFINE h == [i \in 0 .. (n + 1) |->
                        IF i = n + 1 THEN CheckDesc(g[n], descs[n + 1]) ELSE g[i]]
    <3>2. ASSUME NEW i \in 0 .. (n + 1)
          PROVE  h[i] = IF i = 0 THEN Unchecked(r) ELSE CheckDesc(h[i - 1], descs[i])
      <4>1. CASE i = n + 1
        <5>1. h[i] = CheckDesc(g[n], descs[n + 1]) /\ i # 0
          BY <4>1
        <5>2. n \in 0 .. (n + 1) /\ n # n + 1 /\ i - 1 = n
          BY <4>1
        <5>3. h[n] = g[n]
          BY <5>2
        <5> HIDE DEF h
        <5>4. QED
          BY <4>1, <5>1, <5>2, <5>3
      <4>2. CASE i # n + 1
        <5>1. i \in 0 .. n /\ h[i] = g[i]
          BY <4>2
        <5>2. i # 0 => i - 1 \in 0 .. (n + 1) /\ i - 1 # n + 1
          BY <5>1
        <5>3. i # 0 => h[i - 1] = g[i - 1]
          BY <5>2
        <5>4. g[i] = IF i = 0 THEN Unchecked(r) ELSE CheckDesc(g[i - 1], descs[i])
          BY <3>1, <5>1
        <5> HIDE DEF h
        <5>5. QED
          BY <5>1, <5>3, <5>4
      <4>3. QED
        BY <4>1, <4>2
    <3>3. Goes(h, n + 1)
      BY <3>2
    <3> HIDE DEF h
    <3>4. QED
      BY <3>3
  <2> HIDE DEF Goes
  <2>3. G \subseteq Nat
    OBVIOUS
  <2> HIDE DEF G
  <2>4. \A n \in Nat : n \in G
    BY <2>1, <2>2, <2>3, AllNumbers
  <2>5. QED
    BY <2>4 DEF G
<1>3. Checks(c, r, descs)
  <2>1. \E g : Checks(g, r, descs)
    BY <1>1, <1>2 DEF Checks
  <2>2. QED
    BY <2>1
<1> HIDE DEF c
<1>4. c[0] = Unchecked(r) /\ \A i \in 1 .. N : c[i] = CheckDesc(c[i - 1], descs[i])
  BY <1>1, <1>3 DEF Checks
<1>5. \A n \in Nat : n <= N => CheckedFrom(c[n], r)
  <2> DEFINE G == {n \in Nat : n <= N => CheckedFrom(c[n], r)}
  <2>1. 0 \in G
    BY <1>4 DEF CheckedFrom, Unchecked, SameRegistry
  <2>2. ASSUME NEW n \in G PROVE n + 1 \in G
    <3> DEFINE m == n + 1
    <3> SUFFICES ASSUME m <= N PROVE CheckedFrom(c[m], r)
      OBVIOUS
    <3>1. m \in 1 .. N /\ m - 1 = n /\ CheckedFrom(c[n], r)
      BY <1>1
    <3> HIDE DEF m
    <3>2. c[m] = CheckDesc(c[n], descs[m])
      BY <3>1, <1>4
    <3>3. QED
      BY <3>1, <3>2, CheckDescKeeps
  <2>3. G \subseteq Nat
    OBVIOUS
  <2> HIDE DEF G
  <2>4. \A n \in Nat : n \in G
    BY <2>1, <2>2, <2>3, AllNumbers
  <2>5. QED
    BY <2>4 DEF G
<1>6. QED
  BY <1>1, <1>5 DEF c

\* register keeps the collectors, or has one more if it finds no error; the
\* common labels and the prefix stay.
LEMMA RegisterKeeps ==
    ASSUME NEW r, DOMAIN r = RegistryFields, NEW cs, NEW k, List(cs[k].descs)
    PROVE  LET done == register(r, cs, k)
           IN  /\ DOMAIN done.registry = RegistryFields
               /\ done.registry.labels = r.labels /\ done.registry.prefix = r.prefix
               /\ \/ done.registry.collectors = r.collectors
                  \/ done.error = "none" /\ done.registry.collectors = r.collectors \cup {k}
<1> DEFINE acc == (CHOOSE f : Checks(f, r, cs[k].descs))[Len(cs[k].descs)]
           q == acc.registry
           more == [q EXCEPT !.collectors = q.collectors \cup {k},
                             !.desc_ids = q.desc_ids \cup acc.seen]
           found == \E j \in r.collectors : Ids(cs[j]) = acc.seen
           done == register(r, cs, k)
<1>1. CheckedFrom(acc, r) /\ done = Outcome(r, cs, k, acc)
  BY ChecksKeep, RegisterDef
<1> HIDE DEF acc, done
<1>2. \/ done = [registry |-> q, error |-> acc.error]
      \/ done = [registry |-> q, error |-> "AlreadyReg"]
      \/ done = [registry |-> more, error |-> "none"]
  <2>1. Outcome(r, cs, k, acc) =
          IF acc.error # "none" THEN [registry |-> q, error |-> acc.error]
          ELSE IF found THEN [registry |-> q, error |-> "AlreadyReg"]
          ELSE [registry |-> more, error |-> "none"]
    BY DEF Outcome
  <2> HIDE DEF more, found
  <2>2. QED
    BY <1>1, <2>1
<1>3. SameRegistry(q, r)
  BY <1>1 DEF CheckedFrom
<1> HIDE DEF q
<1>4. /\ DOMAIN more = RegistryFields /\ more.labels = r.labels /\ more.prefix = r.prefix
      /\ more.collectors = r.collectors \cup {k}
  BY <1>3 DEF SameRegistry, RegistryFields
<1> HIDE DEF more
<1>5. QED
  BY <1>2, <1>3, <1>4 DEF SameRegistry, done

\* A list of descriptors, of the library or not.
LEMMA DescsListed == ASSUME NEW c, Kept(c) PROVE List(c.descs)
<1>1. ASSUME NEW d PROVE List(<<d>>)
  <2>1. <<d>> \in Seq({d}) /\ ToSet(<<d>>) = {d}
    BY DEF ToSet
  <2>2. QED
    BY <2>1 DEF List
<1>2. QED
  BY <1>1 DEF Kept, OfLibrary, OtherCode, List

\* The registry holds finitely many collectors, of which there are handles, and
\* has finitely many common labels.
RegistryInv ==
    /\ DOMAIN registry = RegistryFields
    /\ registry.collectors \subseteq DOMAIN colls /\ IsFiniteSet(registry.collectors)
    /\ IsFiniteSet(DOMAIN registry.labels)

LEMMA RegistryInitially == InstrumentationInit => RegistryInv
<1> SUFFICES ASSUME InstrumentationInit PROVE RegistryInv
  OBVIOUS
<1>1. PICK s \in Setups :
         IF s.default
         THEN colls = [process |-> s.process] /\ registry = DefaultRegistry(s.process)
         ELSE LET custom == new_custom(s.given, s.prefix, s.labels)
              IN  custom.ok /\ registry = custom.v /\ colls = << >>
  BY DEF InstrumentationInit
<1>2. DOMAIN EmptyRegistry = RegistryFields /\ EmptyRegistry.collectors = {}
      /\ EmptyRegistry.labels = << >>
  BY DEF EmptyRegistry, RegistryFields
<1>3. IsFiniteSet({}) /\ DOMAIN << >> = {}
  BY FS_EmptySet
<1>4. CASE s.default
  <2> DEFINE cs == [process |-> s.process]
             done == register(EmptyRegistry, cs, "process")
  <2>1. OtherCode(s.process)
    BY <1>4, SetupsAssumption
  <2>2. List(cs["process"].descs)
    BY <2>1, DescsListed DEF Kept
  <2>3. registry = done.registry /\ colls = cs /\ DOMAIN cs = {"process"}
    BY <1>1, <1>4 DEF DefaultRegistry
  <2> HIDE DEF cs
  <2>4. /\ DOMAIN done.registry = RegistryFields
        /\ done.registry.labels = << >>
        /\ done.registry.collectors = {} \/ done.registry.collectors = {} \cup {"process"}
    BY <1>2, <2>2, RegisterKeeps
  <2> HIDE DEF done
  <2>5. IsFiniteSet({} \cup {"process"})
    BY <1>3, FS_AddElement
  <2>6. QED
    BY <1>3, <2>3, <2>4, <2>5 DEF RegistryInv
<1>5. CASE ~s.default
  <2> DEFINE custom == new_custom(s.given, s.prefix, s.labels)
             q == [EmptyRegistry EXCEPT !.prefix = s.prefix, !.labels = s.labels]
  <2>1. custom.ok /\ registry = custom.v
    BY <1>1, <1>5
  <2>2. custom = Err("empty prefix namespace") \/ custom = Ok(q)
    BY DEF new_custom
  <2> HIDE DEF custom, q
  <2>3. registry = q
    BY <2>1, <2>2, Results
  <2>4. DOMAIN q = RegistryFields /\ q.collectors = {} /\ q.labels = s.labels
    BY <1>2 DEF q, RegistryFields
  <2>5. IsFiniteSet(DOMAIN s.labels)
    BY <1>5, SetupsAssumption
  <2>6. QED
    BY <1>3, <2>3, <2>4, <2>5 DEF RegistryInv
<1>6. QED
  BY <1>4, <1>5

\* Registering keeps that, if there is a handle afterwards of what was
\* registered.
LEMMA RegisteredKept ==
    ASSUME RegistryInv, NEW cs, DOMAIN colls \subseteq DOMAIN cs,
           NEW k \in DOMAIN cs, List(cs[k].descs)
    PROVE  LET done == register(registry, cs, k)
           IN  /\ DOMAIN done.registry = RegistryFields
               /\ done.registry.collectors \subseteq DOMAIN cs
               /\ done.error # "none" => done.registry.collectors \subseteq DOMAIN colls
               /\ IsFiniteSet(done.registry.collectors)
               /\ IsFiniteSet(DOMAIN done.registry.labels)
<1> DEFINE done == register(registry, cs, k)
<1>1. DOMAIN registry = RegistryFields
  BY DEF RegistryInv
<1>2. /\ DOMAIN done.registry = RegistryFields
      /\ done.registry.labels = registry.labels
      /\ \/ done.registry.collectors = registry.collectors
         \/ done.error = "none" /\ done.registry.collectors = registry.collectors \cup {k}
  BY <1>1, RegisterKeeps
<1> HIDE DEF done
<1>3. IsFiniteSet(registry.collectors \cup {k})
  BY FS_AddElement DEF RegistryInv
<1>4. QED
  BY <1>2, <1>3 DEF RegistryInv, done

LEMMA RegistryKept ==
    KeptInv /\ RegistryInv /\ [InstrumentationNext]_collecting => RegistryInv'
<1> SUFFICES ASSUME KeptInv, RegistryInv, [InstrumentationNext]_collecting
             PROVE  RegistryInv'
  OBVIOUS
<1>1. ASSUME UNCHANGED registry, DOMAIN colls \subseteq DOMAIN colls' PROVE RegistryInv'
  BY <1>1 DEF RegistryInv
<1>2. ASSUME NEW k \in DOMAIN Offers, Register(k) PROVE RegistryInv'
  <2> DEFINE new == Made(Offers[k])
             all == With(colls, k, new.v)
             done == register(registry, all, k)
  <2>1. \/ UNCHANGED <<registry, colls>>
        \/ /\ new.ok /\ registry' = done.registry
           /\ colls' = IF done.error = "none" THEN all ELSE colls
    BY <1>2 DEF Register
  <2>2. CASE new.ok /\ registry' = done.registry
             /\ colls' = IF done.error = "none" THEN all ELSE colls
    <3>1. Kept(new.v)
      BY <2>2, MadeKept
    <3> HIDE DEF new
    <3>2. DOMAIN all = DOMAIN colls \cup {k} /\ all[k] = new.v
      BY DEF With
    <3>3. List(all[k].descs)
      BY <3>1, <3>2, DescsListed
    <3> HIDE DEF all
    <3>4. /\ DOMAIN done.registry = RegistryFields
          /\ done.registry.collectors \subseteq DOMAIN all
          /\ done.error # "none" => done.registry.collectors \subseteq DOMAIN colls
          /\ IsFiniteSet(done.registry.collectors)
          /\ IsFiniteSet(DOMAIN done.registry.labels)
      BY <3>2, <3>3, RegisteredKept
    <3> HIDE DEF done
    <3>5. QED
      BY <2>2, <3>4 DEF RegistryInv
  <2>3. QED
    BY <1>1, <2>1, <2>2
<1>3. ASSUME NEW k \in DOMAIN Offers, Unregister(k) PROVE RegistryInv'
  <2> DEFINE r == unregister(registry, colls, k)
             same == {j \in registry.collectors : Ids(colls[j]) = Ids(colls[k])}
             q == [registry EXCEPT !.collectors = registry.collectors \ same,
                                   !.desc_ids = registry.desc_ids \ Ids(colls[k])]
  <2>1. r.ok /\ registry' = r.v /\ UNCHANGED colls
    BY <1>3 DEF Unregister
  <2>2. r = Err("not registered") \/ r = Ok(q)
    BY DEF unregister
  <2> HIDE DEF r
  <2>3. registry' = q
    BY <2>1, <2>2, Results
  <2> HIDE DEF same
  <2>4. DOMAIN q = RegistryFields /\ q.collectors = registry.collectors \ same
        /\ q.labels = registry.labels
    BY DEF RegistryInv, RegistryFields
  <2> HIDE DEF q
  <2>5. IsFiniteSet(registry.collectors \ same)
    BY FS_Subset DEF RegistryInv
  <2>6. QED
    BY <2>1, <2>3, <2>4, <2>5 DEF RegistryInv
<1>4. ASSUME NEW k \in DOMAIN Offers, Reregister(k) PROVE RegistryInv'
  <2>1. k \in DOMAIN colls /\ registry' = register(registry, colls, k).registry
        /\ UNCHANGED colls
    BY <1>4 DEF Reregister, Call
  <2>2. List(colls[k].descs)
    BY <2>1, DescsListed DEF KeptInv
  <2>3. QED
    BY <2>1, <2>2, RegisteredKept DEF RegistryInv
<1>5. ASSUME NEW k, UNCHANGED registry, NEW d, colls' = [colls EXCEPT ![k] = d]
      PROVE  RegistryInv'
  BY <1>1, <1>5
<1>6. ASSUME NEW k \in DOMAIN Offers,
             \/ \E v : Update(k, v) \/ \E values : UpdateChild(k, values, v)
             \/ \E values : RemoveChild(k, values)
      PROVE  RegistryInv'
  <2>1. UNCHANGED registry /\ \E d : colls' = [colls EXCEPT ![k] = d]
    BY <1>6 DEF Update, UpdateChild, RemoveChild
  <2>2. QED
    BY <1>5, <2>1
<1>7. CASE UNCHANGED collecting
  BY <1>1, <1>7 DEF collecting
<1>8. QED
  BY <1>2, <1>3, <1>4, <1>6, <1>7 DEF InstrumentationNext

-----------------------------------------------------------------------------
\* A field that was set is read as what it was set to.
LEMMA ReadPut ==
    ASSUME NEW b, NEW t, NEW m, NEW f \in DOMAIN m, NEW v
    PROVE  /\ DOMAIN Put(b, t, m, f, v) = DOMAIN m
           /\ Read(b, t, Put(b, t, m, f, v), f) = v
<1>1. Put(b, t, m, f, v)[f] = Stored(b, t, f, v) /\ DOMAIN Put(b, t, m, f, v) = DOMAIN m
  BY DEF Put
<1>2. CASE b = "plain" \/ Fields[t][f].many
  BY <1>1, <1>2 DEF Read, Stored
<1>3. CASE ~(b = "plain" \/ Fields[t][f].many)
  <2>1. Put(b, t, m, f, v)[f] = <<v>>
    BY <1>1, <1>3 DEF Stored
  <2>2. <<v>> # << >> /\ <<v>>[1] = v
    OBVIOUS
  <2>3. QED
    BY <1>1, <1>3, <2>1, <2>2 DEF Read
<1>4. QED
  BY <1>2, <1>3

\* Setting or clearing a field leaves the others.
LEMMA ReadOther ==
    ASSUME NEW b, NEW t, NEW m, NEW f, NEW v, NEW g \in DOMAIN m, g # f
    PROVE  /\ Read(b, t, Put(b, t, m, f, v), g) = Read(b, t, m, g)
           /\ Read(b, t, Erase(b, t, m, f), g) = Read(b, t, m, g)
           /\ DOMAIN Erase(b, t, m, f) = DOMAIN m
<1>1. Put(b, t, m, f, v)[g] = m[g] /\ Erase(b, t, m, f)[g] = m[g]
  BY DEF Put, Erase
<1>2. DOMAIN Erase(b, t, m, f) = DOMAIN m
  BY DEF Erase
<1>3. QED
  BY <1>1, <1>2 DEF Read

\* A message is read as the values it was made of, and as a new one where it was
\* made of none.
LEMMA ReadMessage ==
    ASSUME NEW b, NEW t, NEW values, NEW f \in DOMAIN Fresh(b, t)
    PROVE  /\ DOMAIN Message(b, t, values) = DOMAIN Fresh(b, t)
           /\ f \in DOMAIN values => Read(b, t, Message(b, t, values), f) = values[f]
           /\ f \notin DOMAIN values =>
                 Read(b, t, Message(b, t, values), f) = Read(b, t, Fresh(b, t), f)
<1> DEFINE m == Message(b, t, values)
<1>1. /\ DOMAIN m = DOMAIN Fresh(b, t)
      /\ m[f] = IF f \in DOMAIN values THEN Stored(b, t, f, values[f]) ELSE Fresh(b, t)[f]
  BY DEF Message
<1> HIDE DEF m
<1>2. CASE f \notin DOMAIN values
  BY <1>1, <1>2 DEF Read, m
<1>3. CASE f \in DOMAIN values
  <2>1. CASE b = "plain" \/ Fields[t][f].many
    BY <1>1, <1>3, <2>1 DEF Read, Stored, m
  <2>2. CASE ~(b = "plain" \/ Fields[t][f].many)
    <3> DEFINE v == values[f]
    <3>1. m[f] = <<v>>
      BY <1>1, <1>3, <2>2 DEF Stored
    <3>2. <<v>> # << >> /\ <<v>>[1] = v
      OBVIOUS
    <3> HIDE DEF v
    <3>3. Read(b, t, m, f) = v
      BY <2>2, <3>1, <3>2 DEF Read
    <3>4. QED
      BY <1>1, <1>3, <3>3 DEF m, v
  <2>3. QED
    BY <2>1, <2>2
<1>4. QED
  BY <1>2, <1>3

\* The fields that metrics are gathered in.
LEMMA FreshFields ==
    ASSUME NEW b \in Builds
    PROVE  /\ {"name", "value"} \subseteq DOMAIN Fresh(b, "LabelPair")
           /\ "value" \in DOMAIN Fresh(b, "Counter")
           /\ "value" \in DOMAIN Fresh(b, "Gauge")
           /\ "sample_count" \in DOMAIN Fresh(b, "Histogram")
           /\ {"label", "counter", "gauge", "histogram", "timestamp_ms"}
                \subseteq DOMAIN Fresh(b, "Metric")
           /\ {"name", "help", "field_type", "metric"} \subseteq DOMAIN Fresh(b, "MetricFamily")
<1>1. CASE b = "plain"
  BY <1>1 DEF Fresh, Plain, PlainLabelPair, PlainCounter, PlainGauge, PlainHistogram,
              PlainMetric, PlainMetricFamily
<1>2. CASE b = "protobuf"
  BY <1>2 DEF Fresh, Unset
<1>3. QED
  BY <1>1, <1>2 DEF Builds

\* The number of a metric in which nothing is set.
LEMMA FreshShows ==
    ASSUME NEW b \in Builds, NEW type
    PROVE  Shown(b, type, Fresh(b, "Metric")) = 0
<1> DEFINE m == Fresh(b, "Metric")
<1>1. CASE b = "plain"
  <2>1. /\ m.counter = PlainCounter /\ m.gauge = PlainGauge /\ m.histogram = PlainHistogram
    BY <1>1 DEF Fresh, Plain, PlainMetric
  <2>2. PlainCounter.value = 0 /\ PlainGauge.value = 0 /\ PlainHistogram.sample_count = 0
    BY DEF PlainCounter, PlainGauge, PlainHistogram
  <2> HIDE DEF m
  <2>3. QED
    BY <1>1, <2>1, <2>2 DEF Shown, Read, m
<1>2. CASE b = "protobuf"
  <2>1. b # "plain" /\ m = Unset("Metric")
    BY <1>2 DEF Fresh
  <2>2. m.counter = << >> /\ m.gauge = << >> /\ m.histogram = << >>
    BY <2>1 DEF Unset
  <2>3. /\ ~Fields["Metric"]["counter"].many /\ Fields["Metric"]["counter"].type = "Counter"
        /\ ~Fields["Metric"]["gauge"].many /\ Fields["Metric"]["gauge"].type = "Gauge"
        /\ ~Fields["Metric"]["histogram"].many
        /\ Fields["Metric"]["histogram"].type = "Histogram"
    BY DEF Fields, MetricFields, One
  <2>4. /\ Absent("Counter") = Unset("Counter") /\ Absent("Gauge") = Unset("Gauge")
        /\ Absent("Histogram") = Unset("Histogram")
    BY DEF Absent, Fresh
  <2>5. /\ Unset("Counter").value = << >> /\ Unset("Gauge").value = << >>
        /\ Unset("Histogram").sample_count = << >>
    BY DEF Unset
  <2>6. /\ ~Fields["Counter"]["value"].many /\ Fields["Counter"]["value"].type = "double"
        /\ ~Fields["Gauge"]["value"].many /\ Fields["Gauge"]["value"].type = "double"
        /\ ~Fields["Histogram"]["sample_count"].many
        /\ Fields["Histogram"]["sample_count"].type = "uint64"
    BY DEF Fields, CounterFields, GaugeFields, HistogramFields, One
  <2>7. Absent("double") = 0 /\ Absent("uint64") = 0
    BY DEF Absent
  <2> HIDE DEF m
  <2>8. /\ Read(b, "Metric", m, "counter") = Unset("Counter")
        /\ Read(b, "Metric", m, "gauge") = Unset("Gauge")
        /\ Read(b, "Metric", m, "histogram") = Unset("Histogram")
    BY <2>1, <2>2, <2>3, <2>4 DEF Read
  <2>9. /\ Read(b, "Counter", Unset("Counter"), "value") = 0
        /\ Read(b, "Gauge", Unset("Gauge"), "value") = 0
        /\ Read(b, "Histogram", Unset("Histogram"), "sample_count") = 0
    BY <2>1, <2>5, <2>6, <2>7 DEF Read
  <2>10. QED
    BY <2>8, <2>9 DEF Shown, m
<1>3. QED
  BY <1>1, <1>2 DEF Builds

\* What the fields of a metric are that a type shows.
FieldOf(type) ==
    CASE type = "COUNTER" -> "counter"
      [] type = "GAUGE" -> "gauge"
      [] type = "HISTOGRAM" -> "histogram"

\* A metric of a type shows what it holds in a family of its type, and nothing in
\* one of another type.
ShowsChild(b, type, child, m) ==
    \A t : Shown(b, t, m) = IF t # type THEN 0
                            ELSE IF type = "HISTOGRAM" THEN child.count ELSE child.val

\* So is every metric of the library, and it has its labels.
LEMMA MetricShows ==
    ASSUME NEW b \in Builds, NEW type \in {"COUNTER", "GAUGE", "HISTOGRAM"}, NEW child
    PROVE  /\ DOMAIN metric(b, type, child) = DOMAIN Fresh(b, "Metric")
           /\ LabelsOf(b, metric(b, type, child)) = LabelPairs(b, child.label_pairs)
           /\ ShowsChild(b, type, child, metric(b, type, child))
<1> DEFINE fresh == Fresh(b, "Metric")
           labelled == Put(b, "Metric", fresh, "label", LabelPairs(b, child.label_pairs))
           f == FieldOf(type)
           m == metric(b, type, child)
           v == CASE type = "COUNTER" -> Message(b, "Counter", [value |-> child.val])
                  [] type = "GAUGE" -> Message(b, "Gauge", [value |-> child.val])
                  [] type = "HISTOGRAM" -> proto(b, child)
           T == {"counter", "gauge", "histogram"}
<1>1. T \subseteq DOMAIN fresh /\ "label" \in DOMAIN fresh /\ "label" \notin T /\ f \in T
  BY FreshFields DEF FieldOf
<1>2. m = Put(b, "Metric", labelled, f, v)
  BY DEF metric, FieldOf
<1> HIDE DEF fresh, m, v, f
<1>3. DOMAIN labelled = DOMAIN fresh /\ LabelsOf(b, labelled) = LabelPairs(b, child.label_pairs)
      /\ \A g \in T : Read(b, "Metric", labelled, g) = Read(b, "Metric", fresh, g)
  BY <1>1, ReadPut, ReadOther DEF LabelsOf
<1> HIDE DEF labelled
<1>4. /\ DOMAIN m = DOMAIN fresh /\ LabelsOf(b, m) = LabelPairs(b, child.label_pairs)
      /\ Read(b, "Metric", m, f) = v
      /\ \A g \in T : g # f => Read(b, "Metric", m, g) = Read(b, "Metric", fresh, g)
  <2>1. f \in DOMAIN labelled /\ "label" \in DOMAIN labelled /\ "label" # f
    BY <1>1, <1>3
  <2>2. DOMAIN m = DOMAIN labelled /\ Read(b, "Metric", m, f) = v
    BY <1>2, <2>1, ReadPut
  <2>3. \A g \in DOMAIN labelled : g # f =>
           Read(b, "Metric", m, g) = Read(b, "Metric", labelled, g)
    BY <1>2, ReadOther
  <2>4. QED
    BY <1>1, <1>3, <2>1, <2>2, <2>3 DEF LabelsOf
<1>5. ASSUME NEW t
      PROVE  Shown(b, t, m) = IF t # type THEN 0
                              ELSE IF type = "HISTOGRAM" THEN child.count ELSE child.val
  <2>1. CASE t # type
    <3>1. t \notin {"COUNTER", "GAUGE", "HISTOGRAM"} => Shown(b, t, m) = 0
      BY DEF Shown
    <3>2. t \in {"COUNTER", "GAUGE", "HISTOGRAM"} =>
             Shown(b, t, m) = Shown(b, t, fresh)
      BY <2>1, <1>4 DEF Shown, FieldOf, f
    <3>3. Shown(b, t, fresh) = 0
      BY FreshShows DEF fresh
    <3>4. QED
      BY <2>1, <3>1, <3>2, <3>3
  <2>2. CASE t = type /\ type = "COUNTER"
    <3>1. Read(b, "Counter", Message(b, "Counter", [value |-> child.val]), "value") = child.val
      BY FreshFields, ReadMessage
    <3>2. QED
      BY <2>2, <1>4, <3>1 DEF Shown, FieldOf, f, v
  <2>3. CASE t = type /\ type = "GAUGE"
    <3>1. Read(b, "Gauge", Message(b, "Gauge", [value |-> child.val]), "value") = child.val
      BY FreshFields, ReadMessage
    <3>2. QED
      BY <2>3, <1>4, <3>1 DEF Shown, FieldOf, f, v
  <2>4. CASE t = type /\ type = "HISTOGRAM"
    <3>1. Read(b, "Histogram", proto(b, child), "sample_count") = child.count
      <4> DEFINE cumulative(i) == FoldLeft(LAMBDA n, k : n + k, 0, SubSeq(child.counts, 1, i))
                 bucket(i) == Message(b, "Bucket",
                                [cumulative_count |-> cumulative(i),
                                 upper_bound |-> child.upper_bounds[i]])
                 buckets == [i \in DOMAIN child.counts |-> bucket(i)]
      <4>1. proto(b, child) = Message(b, "Histogram",
                [sample_count |-> child.count, sample_sum |-> child.sum, bucket |-> buckets])
        BY DEF proto
      <4> HIDE DEF buckets
      <4>2. QED
        BY <4>1, FreshFields, ReadMessage
    <3>2. QED
      BY <2>4, <1>4, <3>1 DEF Shown, FieldOf, f, v
  <2>5. QED
    BY <2>1, <2>2, <2>3, <2>4
<1>6. QED
  BY <1>4, <1>5 DEF m, fresh, ShowsChild

-----------------------------------------------------------------------------
\* Every order in which the entries of a map come has each of them once.
LEMMA OrdersList ==
    ASSUME NEW S, IsFiniteSet(S)
    PROVE  /\ EachOnce(SetToSeq(S), S) /\ EachOnce(Reverse(SetToSeq(S)), S)
           /\ \A s \in SetToSeqs(S) : EachOnce(s, S)
<1> DEFINE n == Cardinality(S)
           s == SetToSeq(S)
           r == Reverse(s)
<1>1. n \in Nat
  BY FS_CardinalityType
<1>2. s \in [1 .. n -> S] /\ EachOnce(s, S)
  BY ListedAll
<1> HIDE DEF s
<1>3. Len(s) = n
  BY <1>1, <1>2
<1>4. r = [i \in 1 .. n |-> s[(n - i) + 1]]
  BY <1>3 DEF Reverse
<1> HIDE DEF n, r
<1>5. \A i \in 1 .. n : (n - i) + 1 \in 1 .. n
  BY <1>1
<1>6. r \in [1 .. n -> S]
  BY <1>2, <1>4, <1>5
<1>7. IsInjective(r)
  <2> SUFFICES ASSUME NEW i \in 1 .. n, NEW j \in 1 .. n, r[i] = r[j] PROVE i = j
    BY <1>6 DEF IsInjective
  <2>1. (n - i) + 1 = (n - j) + 1
    <3>1. s[(n - i) + 1] = s[(n - j) + 1]
      BY <1>4
    <3>2. QED
      BY <3>1, <1>2, <1>5 DEF IsInjective, EachOnce
  <2>2. QED
    BY <2>1, <1>1
<1>8. EachOnce(r, S)
  BY <1>6, <1>7, DifferentAreAll DEF n
<1>9. ASSUME NEW t \in SetToSeqs(S) PROVE EachOnce(t, S)
  <2>1. t \in [1 .. n -> S] /\ \A i, j \in 1 .. n : i # j => t[i] # t[j]
    BY DEF SetToSeqs, n
  <2>2. IsInjective(t)
    BY <2>1 DEF IsInjective
  <2>3. QED
    BY <2>1, <2>2, DifferentAreAll DEF n
<1>10. QED
  BY <1>2, <1>8, <1>9 DEF s, r

\* The pairs of the common labels, in the order of their names.
CommonInOrder(names) ==
    [i \in DOMAIN names |-> [name |-> names[i], value |-> registry.labels[names[i]]]]

LEMMA CommonListed ==
    ASSUME NEW names, EachOnce(names, DOMAIN registry.labels)
    PROVE  /\ Pairs(CommonInOrder(names)) /\ IsInjective(NamesIn(CommonInOrder(names)))
           /\ ToSet(CommonInOrder(names)) = CommonPairs
<1> DEFINE c == CommonInOrder(names)
<1>1. /\ DOMAIN c = DOMAIN names
      /\ \A i \in DOMAIN names :
           /\ c[i] = [name |-> names[i], value |-> registry.labels[names[i]]]
           /\ c[i].name = names[i] /\ c[i] = [name |-> c[i].name, value |-> c[i].value]
      /\ \E f : c = [i \in DOMAIN names |-> f[i]]
  <2>1. c = [i \in DOMAIN names |-> c[i]]
    BY DEF CommonInOrder
  <2>2. QED
    BY <2>1 DEF CommonInOrder
<1> HIDE DEF c
<1>2. names \in Seq(DOMAIN registry.labels) /\ IsInjective(names)
      /\ ToSet(names) = DOMAIN registry.labels
  BY DEF EachOnce
<1>3. Pairs(c) /\ IsInjective(NamesIn(c))
  BY <1>1, <1>2, NamedPairs
<1>4. ToSet(c) \subseteq CommonPairs
  <2> SUFFICES ASSUME NEW i \in DOMAIN c PROVE c[i] \in CommonPairs
    BY DEF ToSet
  <2>1. names[i] \in DOMAIN registry.labels
    BY <1>1, <1>2 DEF ToSet
  <2>2. QED
    BY <1>1, <2>1 DEF CommonPairs
<1>5. CommonPairs \subseteq ToSet(c)
  <2> SUFFICES ASSUME NEW n \in DOMAIN registry.labels
               PROVE  [name |-> n, value |-> registry.labels[n]] \in ToSet(c)
    BY DEF CommonPairs
  <2>1. PICK i \in DOMAIN names : names[i] = n
    BY <1>2 DEF ToSet
  <2>2. QED
    BY <2>1, <1>1 DEF ToSet
<1>6. QED
  BY <1>3, <1>4, <1>5 DEF c

\* A pair of a message is read as it was written.
LEMMA PairRead ==
    ASSUME NEW b \in Builds, NEW p, p = [name |-> p.name, value |-> p.value]
    PROVE  /\ PairName(b, Message(b, "LabelPair", p)) = p.name
           /\ PairValue(b, Message(b, "LabelPair", p)) = p.value
<1>1. DOMAIN p = {"name", "value"}
  OBVIOUS
<1>2. QED
  BY <1>1, FreshFields, ReadMessage DEF PairName, PairValue

\* The pairs of a metric and the common ones are read one after the other.
LEMMA CommonAdded ==
    ASSUME NEW b \in Builds, NEW m, DOMAIN m = DOMAIN Fresh(b, "Metric"),
           NEW own, Pairs(own), LabelsOf(b, m) = LabelPairs(b, own),
           NEW names, EachOnce(names, DOMAIN registry.labels)
    PROVE  /\ PlainPairs(b, WithCommonLabels(b, registry, names, m))
                = own \o CommonInOrder(names)
           /\ \A type : Shown(b, type, WithCommonLabels(b, registry, names, m))
                          = Shown(b, type, m)
<1> DEFINE common == CommonInOrder(names)
           x == LabelPairs(b, own)
           y == LabelPairs(b, common)
           erased == Erase(b, "Metric", m, "label")
           w == WithCommonLabels(b, registry, names, m)
           all == own \o common
<1>1. w = Put(b, "Metric", erased, "label", x \o y)
  BY DEF WithCommonLabels, CommonInOrder
<1>2. {"label", "counter", "gauge", "histogram"} \subseteq DOMAIN m
  BY FreshFields
<1>3. "label" \in DOMAIN erased /\ DOMAIN erased = DOMAIN m
  BY <1>2 DEF Erase
<1> HIDE DEF w
<1>4. LabelsOf(b, w) = x \o y
  <2> DEFINE xy == x \o y
  <2>1. w = Put(b, "Metric", erased, "label", xy)
    BY <1>1
  <2> HIDE DEF xy, erased
  <2>2. Read(b, "Metric", w, "label") = xy
    BY <1>3, <2>1, ReadPut
  <2>3. QED
    BY <2>2 DEF LabelsOf, xy
<1>5. \A f \in {"counter", "gauge", "histogram"} :
         Read(b, "Metric", w, f) = Read(b, "Metric", m, f)
  BY <1>1, <1>2, <1>3, ReadOther
<1>6. \A type : Shown(b, type, w) = Shown(b, type, m)
  BY <1>5 DEF Shown
<1> HIDE DEF common, erased
<1>7. Pairs(common) /\ Pairs(all)
  BY CommonListed, JoinedPairs DEF common
<1>8. x \o y = LabelPairs(b, all)
  <2> DEFINE M == Len(own)
             N == Len(common)
             D(z) == [i \in 1 .. Len(z) |-> Message(b, "LabelPair", z[i])]
             S == ToSet(x) \cup ToSet(y)
  <2>1. /\ M \in Nat /\ N \in Nat /\ DOMAIN own = 1 .. M /\ DOMAIN common = 1 .. N
        /\ own \in Seq(ToSet(own)) /\ common \in Seq(ToSet(common))
    BY <1>7, LenProperties DEF Pairs, List
  <2>2. /\ DOMAIN x = 1 .. M /\ \A i \in 1 .. M : x[i] = Message(b, "LabelPair", own[i])
        /\ DOMAIN y = 1 .. N /\ \A i \in 1 .. N : y[i] = Message(b, "LabelPair", common[i])
    BY <2>1 DEF LabelPairs
  <2>3. x \in [1 .. M -> S] /\ y \in [1 .. N -> S]
    <3>1. x = [i \in 1 .. M |-> x[i]] /\ y = [i \in 1 .. N |-> y[i]]
      BY <2>1 DEF LabelPairs
    <3> HIDE DEF x, y, M, N
    <3>2. QED
      BY <3>1, <2>2 DEF ToSet
  <2> HIDE DEF x, y, M, N, S
  <2>4. x \in Seq(S) /\ y \in Seq(S) /\ Len(x) = M /\ Len(y) = N
    <3>1. M \in Nat /\ N \in Nat
      BY <2>1
    <3>2. x \in Seq(S) /\ y \in Seq(S)
      BY <2>3, <3>1, SequenceOf
    <3>3. DOMAIN x = 1 .. Len(x) /\ Len(x) \in Nat /\ DOMAIN y = 1 .. Len(y) /\ Len(y) \in Nat
      BY <3>2, LenProperties
    <3>4. QED
      BY <2>2, <3>1, <3>2, <3>3
  <2>5. /\ x \o y \in Seq(S) /\ Len(x \o y) = M + N
        /\ \A i \in 1 .. (M + N) : (x \o y)[i] = IF i <= M THEN x[i] ELSE y[i - M]
    BY <2>1, <2>4, ConcatProperties
  <2>6. /\ Len(all) = M + N /\ DOMAIN all = 1 .. (M + N)
        /\ \A i \in 1 .. (M + N) : all[i] = IF i <= M THEN own[i] ELSE common[i - M]
    BY <2>1, ConcatProperties, SequenceLists, <1>7 DEF M, N, Pairs, List
  <2>7. ASSUME NEW i \in 1 .. (M + N)
        PROVE  (x \o y)[i] = Message(b, "LabelPair", all[i])
    <3>1. IF i <= M THEN i \in 1 .. M ELSE i - M \in 1 .. N
      BY <2>1
    <3>2. CASE i <= M
      BY <3>1, <3>2, <2>2, <2>5, <2>6
    <3>3. CASE ~(i <= M)
      BY <3>1, <3>3, <2>2, <2>5, <2>6
    <3>4. QED
      BY <3>2, <3>3
  <2>8. x \o y = [i \in 1 .. (M + N) |-> (x \o y)[i]]
    <3>1. DOMAIN (x \o y) = 1 .. (M + N)
      BY <2>5, LenProperties
    <3>2. QED
      BY <2>5, <3>1, LenProperties
  <2> DEFINE xy == x \o y
  <2>9. DOMAIN xy = 1 .. (M + N) /\ \A i \in 1 .. (M + N) : xy[i] = Message(b, "LabelPair", all[i])
    BY <2>7, <2>8
  <2> HIDE DEF xy, all
  <2>10. LabelPairs(b, all) = [i \in 1 .. (M + N) |-> Message(b, "LabelPair", all[i])]
    BY <2>6 DEF LabelPairs
  <2>11. QED
    BY <2>8, <2>9, <2>10 DEF xy
<1> HIDE DEF x, y
<1>9. PlainPairs(b, w) = all
  <2> DEFINE l == LabelPairs(b, all)
  <2>1. /\ all = [i \in DOMAIN all |-> all[i]]
        /\ \A i \in DOMAIN all : all[i] = [name |-> all[i].name, value |-> all[i].value]
    <3> HIDE DEF all
    <3>1. all \in Seq(ToSet(all)) /\ \A i \in DOMAIN all : all[i] \in ToSet(all)
      BY <1>7 DEF Pairs, List, ToSet
    <3>2. all = [i \in DOMAIN all |-> all[i]]
      BY <3>1, LenProperties
    <3>3. QED
      BY <1>7, <3>1, <3>2 DEF Pairs
  <2>2. DOMAIN l = DOMAIN all /\ \A i \in DOMAIN all : l[i] = Message(b, "LabelPair", all[i])
    BY DEF LabelPairs
  <2>3. PlainPairs(b, w) = [i \in DOMAIN l |-> [name |-> PairName(b, l[i]),
                                               value |-> PairValue(b, l[i])]]
    BY <1>4, <1>8 DEF PlainPairs
  <2> HIDE DEF l, all
  <2>4. \A i \in DOMAIN all : [name |-> PairName(b, l[i]), value |-> PairValue(b, l[i])] = all[i]
    <3> SUFFICES ASSUME NEW i \in DOMAIN all
                 PROVE  [name |-> PairName(b, l[i]), value |-> PairValue(b, l[i])] = all[i]
      OBVIOUS
    <3> DEFINE p == all[i]
    <3>1. p = [name |-> p.name, value |-> p.value] /\ l[i] = Message(b, "LabelPair", p)
      BY <2>1, <2>2
    <3> HIDE DEF p
    <3>2. PairName(b, l[i]) = p.name /\ PairValue(b, l[i]) = p.value
      BY <3>1, PairRead
    <3>3. QED
      BY <3>1, <3>2 DEF p
  <2>5. PlainPairs(b, w) = [i \in DOMAIN all |-> all[i]]
    BY <2>2, <2>3, <2>4
  <2>6. QED
    BY <2>1, <2>5
<1>10. QED
  BY <1>6, <1>9 DEF w, all, common

-----------------------------------------------------------------------------
\* What is in one list or the other is in both together, and nothing else.
LEMMA JoinedElements ==
    ASSUME NEW X, NEW s \in Seq(X), NEW t \in Seq(X)
    PROVE  ToSet(s \o t) = ToSet(s) \cup ToSet(t)
<1> DEFINE u == s \o t
           M == Len(s)
           N == Len(t)
<1>1. M \in Nat /\ N \in Nat /\ DOMAIN s = 1 .. M /\ DOMAIN t = 1 .. N
  BY LenProperties
<1>2. u \in Seq(X) /\ Len(u) = M + N
      /\ \A i \in 1 .. (M + N) : u[i] = IF i <= M THEN s[i] ELSE t[i - M]
  BY ConcatProperties
<1>3. DOMAIN u = 1 .. (M + N)
  BY <1>2, LenProperties
<1> HIDE DEF u, M, N
<1>4. ASSUME NEW i \in DOMAIN u PROVE u[i] \in ToSet(s) \cup ToSet(t)
  <2>1. i \in 1 .. (M + N) /\ IF i <= M THEN i \in 1 .. M ELSE i - M \in 1 .. N
    BY <1>1, <1>3
  <2>2. u[i] = IF i <= M THEN s[i] ELSE t[i - M]
    BY <1>2, <2>1
  <2>3. QED
    BY <1>1, <2>1, <2>2 DEF ToSet
<1>5. ASSUME NEW i \in DOMAIN s PROVE s[i] \in ToSet(u)
  <2>1. i \in 1 .. (M + N) /\ i <= M
    BY <1>1
  <2>2. u[i] = s[i]
    BY <1>2, <2>1
  <2>3. QED
    BY <1>3, <2>1, <2>2 DEF ToSet
<1>6. ASSUME NEW i \in DOMAIN t PROVE t[i] \in ToSet(u)
  <2> DEFINE k == M + i
  <2>1. k \in 1 .. (M + N) /\ ~(k <= M) /\ k - M = i
    BY <1>1
  <2> HIDE DEF k
  <2>2. u[k] = t[i]
    BY <1>2, <2>1
  <2>3. QED
    BY <1>3, <2>1, <2>2 DEF ToSet
<1>7. QED
  BY <1>4, <1>5, <1>6 DEF ToSet, u

\* Joined sequences have the elements of the joined ones.
LEMMA FlattenElements ==
    ASSUME NEW X, NEW b \in Seq(Seq(X))
    PROVE  ToSet(FlattenSeq(b)) = UNION {ToSet(b[i]) : i \in DOMAIN b}
<1> DEFINE N == Len(b)
<1>1. N \in Nat /\ DOMAIN b = 1 .. N /\ \A i \in 1 .. N : b[i] \in Seq(X)
  BY LenProperties, ElementOfSeq
<1>2. PICK g \in [0 .. N -> Seq(X)] :
         /\ g[0] = << >> /\ \A i \in 1 .. N : g[i] = g[i - 1] \o b[i]
         /\ FlattenSeq(b) = g[N]
  BY FlattenSteps
<1> HIDE DEF N
<1> DEFINE U(n) == UNION {ToSet(b[i]) : i \in 1 .. n}
<1>3. \A n \in Nat : n <= N => ToSet(g[n]) = U(n)
  <2> DEFINE G == {n \in Nat : n <= N => ToSet(g[n]) = U(n)}
  <2>1. 0 \in G
    <3>1. ToSet(g[0]) = {}
      BY <1>2 DEF ToSet
    <3>2. U(0) = {}
      <4>1. 1 .. 0 = {}
        OBVIOUS
      <4>2. QED
        BY <4>1
    <3> HIDE DEF U
    <3>3. QED
      BY <3>1, <3>2
  <2>2. ASSUME NEW n \in G PROVE n + 1 \in G
    <3> DEFINE m == n + 1
    <3> SUFFICES ASSUME m <= N PROVE ToSet(g[m]) = U(m)
      OBVIOUS
    <3>1. m \in 1 .. N /\ m - 1 = n /\ n \in 0 .. N /\ 1 .. m = (1 .. n) \cup {m}
      <4>1. n \in Nat /\ N \in Nat
        BY <1>1
      <4>2. m \in 1 .. N /\ m - 1 = n /\ n \in 0 .. N
        BY <4>1
      <4>3. \A i \in 1 .. m : i \in 1 .. n \/ i = m
        BY <4>1
      <4>4. \A i \in 1 .. n : i \in 1 .. m
        BY <4>1
      <4>5. m \in 1 .. m
        BY <4>1
      <4> HIDE DEF m, G
      <4>6. QED
        BY <4>2, <4>3, <4>4, <4>5
    <3>2. ToSet(g[n]) = U(n)
      BY <3>1
    <3> HIDE DEF m
    <3>3. g[m] = g[n] \o b[m] /\ g[n] \in Seq(X) /\ b[m] \in Seq(X)
      BY <1>1, <1>2, <3>1
    <3>4. ToSet(g[m]) = ToSet(g[n]) \cup ToSet(b[m])
      BY <3>3, JoinedElements
    <3>5. U(m) = U(n) \cup ToSet(b[m])
      BY <3>1
    <3> HIDE DEF U
    <3>6. QED
      BY <3>2, <3>4, <3>5
  <2>3. G \subseteq Nat
    OBVIOUS
  <2> HIDE DEF G
  <2>4. \A n \in Nat : n \in G
    BY <2>1, <2>2, <2>3, AllNumbers
  <2>5. QED
    BY <2>4 DEF G
<1>4. ToSet(g[N]) = U(N)
  BY <1>1, <1>3
<1>5. QED
  BY <1>1, <1>2, <1>4

\* A family, and what a collector of the library collects.
Family(b, mf) == DOMAIN mf = DOMAIN Fresh(b, "MetricFamily") /\ List(Metrics(b, mf))

FamilyOf(b, c, keys, mf) ==
    /\ Family(b, mf)
    /\ Name(b, mf) = c.descs[1].fq_name
    /\ Read(b, "MetricFamily", mf, "field_type") = c.type
    /\ ToSet(Metrics(b, mf)) = {metric(b, c.type, c.children[keys[i]]) : i \in DOMAIN keys}

LEMMA CollectOne ==
    ASSUME NEW b \in Builds, NEW c, OfLibrary(c), NEW keys, EachOnce(keys, DOMAIN c.children)
    PROVE  \E mf : collect(b, c, keys) = <<mf>> /\ FamilyOf(b, c, keys, mf)
<1> DEFINE ms == [i \in DOMAIN keys |-> metric(b, c.type, c.children[keys[i]])]
           values == [name |-> c.descs[1].fq_name, help |-> c.descs[1].help,
                      field_type |-> c.type, metric |-> ms]
           mf == Message(b, "MetricFamily", values)
<1>1. collect(b, c, keys) = <<mf>>
  BY DEF collect, OfLibrary
<1>2. DOMAIN values = {"name", "help", "field_type", "metric"}
      /\ values["name"] = c.descs[1].fq_name /\ values["field_type"] = c.type
      /\ values["metric"] = ms
  OBVIOUS
<1>3. DOMAIN keys = 1 .. Len(keys) /\ Len(keys) \in Nat
  BY LenProperties DEF EachOnce
<1>4. List(ms) /\ ToSet(ms) = {metric(b, c.type, c.children[keys[i]]) : i \in DOMAIN keys}
  <2>1. ToSet(ms) = {metric(b, c.type, c.children[keys[i]]) : i \in DOMAIN keys}
    BY DEF ToSet
  <2>2. ms \in [1 .. Len(keys) -> ToSet(ms)]
    BY <1>3 DEF ToSet
  <2> HIDE DEF ms
  <2>3. List(ms)
    BY <1>3, <2>2, SequenceOf DEF List
  <2>4. QED
    BY <2>1, <2>3
<1> HIDE DEF values, ms
<1>5. /\ DOMAIN mf = DOMAIN Fresh(b, "MetricFamily")
      /\ Read(b, "MetricFamily", mf, "name") = c.descs[1].fq_name
      /\ Read(b, "MetricFamily", mf, "field_type") = c.type
      /\ Read(b, "MetricFamily", mf, "metric") = ms
  BY <1>2, FreshFields, ReadMessage
<1> HIDE DEF mf
<1>6. QED
  BY <1>1, <1>4, <1>5 DEF FamilyOf, Family, Name, Metrics

\* What any collector collects is a list of families.
LEMMA CollectFamilies ==
    ASSUME NEW b \in Builds, NEW c, Kept(c), NEW keys,
           OfLibrary(c) => EachOnce(keys, DOMAIN c.children)
    PROVE  /\ List(collect(b, c, keys))
           /\ \A mf \in ToSet(collect(b, c, keys)) : Family(b, mf)
<1>1. CASE OfLibrary(c)
  <2>1. PICK mf : collect(b, c, keys) = <<mf>> /\ FamilyOf(b, c, keys, mf)
    BY <1>1, CollectOne
  <2>2. <<mf>> \in Seq({mf}) /\ ToSet(<<mf>>) = {mf}
    BY DEF ToSet
  <2>3. QED
    BY <2>1, <2>2 DEF List, FamilyOf
<1>2. CASE OtherCode(c)
  <2>1. collect(b, c, keys) = c.families[b]
    BY <1>2 DEF collect, OtherCode
  <2>2. QED
    BY <1>2, <2>1 DEF OtherCode, List, Family
<1>3. QED
  BY <1>1, <1>2 DEF Kept

\* The entries of the maps that are gathered come once each.
LEMMA ArrangedOnce ==
    ASSUME KeptInv, RegistryInv, NEW a \in Arrangements(registry, colls)
    PROVE  /\ EachOnce(a.collectors, registry.collectors)
           /\ EachOnce(a.labels, DOMAIN registry.labels)
           /\ \A k \in DOMAIN colls :
                 OfLibrary(colls[k]) => EachOnce(a.keys[k], DOMAIN colls[k].children)
<1> DEFINE D(k) == DOMAIN colls[k].children
           up == [k \in DOMAIN colls |-> SetToSeq(D(k))]
           down == [k \in DOMAIN colls |-> Reverse(SetToSeq(D(k)))]
           L == DOMAIN registry.labels
<1>1. /\ a.collectors \in SetToSeqs(registry.collectors)
      /\ a.keys \in {up, down}
      /\ a.labels \in {SetToSeq(L), Reverse(SetToSeq(L))}
  BY DEF Arrangements
<1>2. EachOnce(a.collectors, registry.collectors)
  BY <1>1, OrdersList DEF RegistryInv
<1>3. EachOnce(a.labels, L)
  BY <1>1, OrdersList DEF RegistryInv
<1>4. ASSUME NEW k \in DOMAIN colls, OfLibrary(colls[k]) PROVE EachOnce(a.keys[k], D(k))
  <2>1. IsFiniteSet(D(k))
    BY <1>4 DEF OfLibrary, ChildrenOf
  <2>2. a.keys[k] \in {SetToSeq(D(k)), Reverse(SetToSeq(D(k)))}
    BY <1>1
  <2>3. QED
    BY <2>1, <2>2, OrdersList
<1>5. QED
  BY <1>2, <1>3, <1>4

\* What is collected are the families of the registered collectors.
LEMMA CollectedAll ==
    ASSUME KeptInv, RegistryInv, NEW b \in Builds, NEW a \in Arrangements(registry, colls)
    PROVE  LET all == Collected(b, colls, a)
           IN  /\ List(all) /\ \A mf \in ToSet(all) : Family(b, mf)
               /\ ToSet(all) = UNION {ToSet(collect(b, colls[k], a.keys[k])) :
                                         k \in registry.collectors}
<1> DEFINE K == registry.collectors
           asked == a.collectors
           f(k) == collect(b, colls[k], a.keys[k])
           X == UNION {ToSet(f(k)) : k \in K}
           lists == [i \in DOMAIN asked |-> f(asked[i])]
           all == Collected(b, colls, a)
<1>1. all = FlattenSeq(lists)
  BY DEF Collected
<1>2. asked \in Seq(K) /\ ToSet(asked) = K
  BY ArrangedOnce DEF EachOnce
<1>3. DOMAIN asked = 1 .. Len(asked) /\ Len(asked) \in Nat /\ \A i \in DOMAIN asked : asked[i] \in K
  BY <1>2, LenProperties, ElementOfSeq
<1>4. \A k \in K : List(f(k)) /\ \A mf \in ToSet(f(k)) : Family(b, mf)
  BY ArrangedOnce, CollectFamilies DEF RegistryInv, KeptInv
<1> HIDE DEF f, all, asked, K
<1>5. \A k \in K : f(k) \in Seq(X)
  <2> SUFFICES ASSUME NEW k \in K PROVE f(k) \in Seq(X)
    OBVIOUS
  <2>1. f(k) \in Seq(ToSet(f(k))) /\ ToSet(f(k)) \subseteq X
    BY <1>4 DEF List
  <2>2. QED
    BY <2>1, SeqMonotonic
<1> HIDE DEF X
<1>6. lists \in [1 .. Len(asked) -> Seq(X)]
  BY <1>3, <1>5
<1>7. DOMAIN lists = DOMAIN asked /\ \A i \in DOMAIN asked : lists[i] = f(asked[i])
  OBVIOUS
<1> HIDE DEF lists
<1>8. lists \in Seq(Seq(X))
  BY <1>3, <1>6, SequenceOf
<1>9. all \in Seq(X) /\ ToSet(all) = UNION {ToSet(lists[i]) : i \in DOMAIN lists}
  BY <1>1, <1>8, FlattenType, FlattenElements
<1>10. ToSet(all) = X
  <2>1. \A i \in DOMAIN lists : ToSet(lists[i]) \subseteq X
    BY <1>3, <1>7 DEF X
  <2>2. \A k \in K : \E i \in DOMAIN lists : lists[i] = f(k)
    BY <1>2, <1>7 DEF ToSet
  <2>3. QED
    BY <1>9, <2>1, <2>2 DEF X
<1>11. List(all)
  BY <1>9, SequenceLists
<1>12. QED
  BY <1>4, <1>10, <1>11 DEF X, f, all, K

-----------------------------------------------------------------------------
\* Two lists together are a list.
LEMMA JoinedLists ==
    ASSUME NEW s, List(s), NEW t, List(t)
    PROVE  List(s \o t) /\ ToSet(s \o t) = ToSet(s) \cup ToSet(t)
<1> DEFINE X == ToSet(s) \cup ToSet(t)
           u == s \o t
<1>1. s \in Seq(X) /\ t \in Seq(X)
  BY SeqMonotonic DEF List
<1> HIDE DEF X
<1>2. u \in Seq(X) /\ ToSet(u) = X
  BY <1>1, ConcatProperties, JoinedElements DEF X
<1> HIDE DEF u
<1>3. QED
  BY <1>2 DEF List, X, u

\* What has been made of the first n families collected: every metric is in the
\* family of its name, and nothing else is there.
MergedTo(acc, b, s, n) ==
    /\ IsFiniteSet(DOMAIN acc)
    /\ \A x \in DOMAIN acc : Family(b, acc[x]) /\ Name(b, acc[x]) = x
    /\ \A i \in 1 .. n : \A m \in ToSet(Metrics(b, s[i])) :
          /\ Name(b, s[i]) \in DOMAIN acc
          /\ m \in ToSet(Metrics(b, acc[Name(b, s[i])]))
    /\ \A x \in DOMAIN acc : \A m \in ToSet(Metrics(b, acc[x])) :
          \E i \in 1 .. n : Name(b, s[i]) = x /\ m \in ToSet(Metrics(b, s[i]))

\* The metrics of one more family join those of its name.
LEMMA MergeStep ==
    ASSUME NEW b \in Builds, NEW s, NEW n \in Nat, NEW acc, MergedTo(acc, b, s, n),
           Family(b, s[n + 1])
    PROVE  MergedTo(MergeFamily(b, acc, s[n + 1]), b, s, n + 1)
<1> DEFINE k == n + 1
           mf == s[k]
           name == Name(b, mf)
           new == MergeFamily(b, acc, mf)
           old == acc[name]
           both == Put(b, "MetricFamily", old, "metric", Metrics(b, old) \o Metrics(b, mf))
<1>1. k \in 1 .. k /\ (\A i \in 1 .. n : i \in 1 .. k) /\ (\A i \in 1 .. k : i \in 1 .. n \/ i = k)
  OBVIOUS
<1>2. Family(b, mf)
  OBVIOUS
<1> HIDE DEF k, mf
<1>3. CASE Metrics(b, mf) = << >>
  <2>1. new = acc
    BY <1>3 DEF MergeFamily
  <2>2. ToSet(Metrics(b, s[k])) = {}
    BY <1>3 DEF ToSet, mf
  <2> HIDE DEF new
  <2>3. \A i \in 1 .. k : \A m \in ToSet(Metrics(b, s[i])) : i \in 1 .. n
    BY <1>1, <2>2
  <2>4. MergedTo(acc, b, s, k)
    BY <1>1, <2>3 DEF MergedTo
  <2>5. QED
    BY <2>1, <2>4 DEF k, mf, new
<1>4. ASSUME NEW fam, Family(b, fam), Name(b, fam) = name, new = With(acc, name, fam),
             IF name \in DOMAIN acc
             THEN ToSet(Metrics(b, fam)) = ToSet(Metrics(b, old)) \cup ToSet(Metrics(b, mf))
             ELSE ToSet(Metrics(b, fam)) = ToSet(Metrics(b, mf))
      PROVE  MergedTo(new, b, s, k)
  <2>1. /\ DOMAIN new = DOMAIN acc \cup {name}
        /\ \A x \in DOMAIN new : new[x] = IF x = name THEN fam ELSE acc[x]
    BY <1>4 DEF With
  <2> HIDE DEF new
  <2>2. IsFiniteSet(DOMAIN new)
    BY <2>1, FS_AddElement DEF MergedTo
  <2>3. \A x \in DOMAIN new : Family(b, new[x]) /\ Name(b, new[x]) = x
    BY <1>4, <2>1 DEF MergedTo
  <2>4. ASSUME NEW i \in 1 .. k, NEW m \in ToSet(Metrics(b, s[i]))
        PROVE  /\ Name(b, s[i]) \in DOMAIN new
               /\ m \in ToSet(Metrics(b, new[Name(b, s[i])]))
    <3>1. CASE i = k
      BY <3>1, <1>4, <2>1, <2>4 DEF name, mf
    <3>2. CASE i # k
      <4>1. i \in 1 .. n
        BY <3>2, <1>1
      <4>2. Name(b, s[i]) \in DOMAIN acc /\ m \in ToSet(Metrics(b, acc[Name(b, s[i])]))
        BY <4>1, <2>4 DEF MergedTo
      <4> DEFINE x == Name(b, s[i])
      <4> HIDE DEF x, name
      <4>3. x \in DOMAIN acc /\ m \in ToSet(Metrics(b, acc[x]))
        BY <4>2 DEF x
      <4>4. CASE x = name
        BY <4>3, <4>4, <1>4, <2>1 DEF x
      <4>5. CASE x # name
        BY <4>3, <4>5, <2>1 DEF x
      <4>6. QED
        BY <4>4, <4>5
    <3>3. QED
      BY <3>1, <3>2
  <2>5. ASSUME NEW x \in DOMAIN new, NEW m \in ToSet(Metrics(b, new[x]))
        PROVE  \E i \in 1 .. k : Name(b, s[i]) = x /\ m \in ToSet(Metrics(b, s[i]))
    <3>1. CASE x \in DOMAIN acc /\ m \in ToSet(Metrics(b, acc[x]))
      <4>1. PICK i \in 1 .. n : Name(b, s[i]) = x /\ m \in ToSet(Metrics(b, s[i]))
        BY <3>1 DEF MergedTo
      <4>2. QED
        BY <4>1, <1>1
    <3>2. CASE ~(x \in DOMAIN acc /\ m \in ToSet(Metrics(b, acc[x])))
      <4> HIDE DEF name
      <4>1. x = name
        BY <3>2, <2>1, <2>5
      <4>2. new[x] = fam
        BY <4>1, <2>1
      <4>3. m \in ToSet(Metrics(b, mf))
        BY <3>2, <4>1, <4>2, <1>4, <2>5
      <4>4. QED
        BY <1>1, <4>1, <4>3 DEF name, mf
    <3>3. QED
      BY <3>1, <3>2
  <2>6. QED
    BY <2>2, <2>3, <2>4, <2>5 DEF MergedTo
<1>5. CASE Metrics(b, mf) # << >> /\ name \notin DOMAIN acc
  <2>1. new = With(acc, name, mf)
    BY <1>5 DEF MergeFamily
  <2> HIDE DEF new
  <2>2. MergedTo(new, b, s, k)
    BY <1>2, <1>4, <1>5, <2>1
  <2>3. QED
    BY <2>2 DEF k, mf, new
<1>6. CASE Metrics(b, mf) # << >> /\ name \in DOMAIN acc
  <2>1. new = With(acc, name, both)
    BY <1>6 DEF MergeFamily
  <2>2. Family(b, old) /\ Name(b, old) = name
    BY <1>6 DEF MergedTo
  <2> DEFINE ms == Metrics(b, old) \o Metrics(b, mf)
  <2>3. List(ms) /\ ToSet(ms) = ToSet(Metrics(b, old)) \cup ToSet(Metrics(b, mf))
    BY <1>2, <2>2, JoinedLists DEF Family
  <2> HIDE DEF ms
  <2>4. both = Put(b, "MetricFamily", old, "metric", ms)
    BY DEF ms
  <2> HIDE DEF both, old, new
  <2>5. {"name", "metric"} \subseteq DOMAIN old /\ DOMAIN old = DOMAIN Fresh(b, "MetricFamily")
    BY <2>2, FreshFields DEF Family
  <2>6. DOMAIN both = DOMAIN old /\ Metrics(b, both) = ms
    BY <2>4, <2>5, ReadPut DEF Metrics
  <2>7. Name(b, both) = Name(b, old)
    BY <2>4, <2>5, ReadOther DEF Name
  <2>8. Family(b, both) /\ Name(b, both) = name
    BY <2>2, <2>3, <2>5, <2>6, <2>7 DEF Family
  <2>9. MergedTo(new, b, s, k)
    BY <1>4, <1>6, <2>1, <2>3, <2>6, <2>8
  <2>10. QED
    BY <2>9 DEF k, mf, new
<1>7. QED
  BY <1>3, <1>5, <1>6

\* The loop of gather over the families collected.
Merges(f, b, s) ==
    f = [n \in 0 .. Len(s) |-> IF n = 0 THEN << >> ELSE MergeFamily(b, f[n - 1], s[n])]

LEMMA MergeDef ==
    ASSUME NEW b, NEW s
    PROVE  FamiliesByName(b, s) = (CHOOSE f : Merges(f, b, s))[Len(s)]
BY DEF FamiliesByName, Merges

\* In the end it has put every metric into the family of its name.
LEMMA FamiliesMerged ==
    ASSUME NEW b \in Builds, NEW s, List(s), \A mf \in ToSet(s) : Family(b, mf)
    PROVE  MergedTo(FamiliesByName(b, s), b, s, Len(s))
<1> DEFINE N == Len(s)
           Goes(g, n) == g = [i \in 0 .. n |->
                                 IF i = 0 THEN << >> ELSE MergeFamily(b, g[i - 1], s[i])]
           c == CHOOSE f : Merges(f, b, s)
<1>1. N \in Nat /\ DOMAIN s = 1 .. N
  BY LenProperties DEF List
<1>2. \A n \in Nat : \E g : Goes(g, n)
  <2> DEFINE G == {n \in Nat : \E g : Goes(g, n)}
  <2>1. 0 \in G
    <3>1. Goes([i \in 0 .. 0 |-> << >>], 0)
      OBVIOUS
    <3>2. QED
      BY <3>1
  <2>2. ASSUME NEW n \in G PROVE n + 1 \in G
    <3>1. PICK g : Goes(g, n)
      BY <2>2
    <3> DEFINE h == [i \in 0 .. (n + 1) |->
                        IF i = n + 1 THEN MergeFamily(b, g[n], s[n + 1]) ELSE g[i]]
    <3>2. ASSUME NEW i \in 0 .. (n + 1)
          PROVE  h[i] = IF i = 0 THEN << >> ELSE MergeFamily(b, h[i - 1], s[i])
      <4>1. CASE i = n + 1
        <5>1. h[i] = MergeFamily(b, g[n], s[n + 1]) /\ i # 0
          BY <4>1
        <5>2. n \in 0 .. (n + 1) /\ n # n + 1 /\ i - 1 = n
          BY <4>1
        <5>3. h[n] = g[n]
          BY <5>2
        <5> HIDE DEF h
        <5>4. QED
          BY <4>1, <5>1, <5>2, <5>3
      <4>2. CASE i # n + 1
        <5>1. i \in 0 .. n /\ h[i] = g[i]
          BY <4>2
        <5>2. i # 0 => i - 1 \in 0 .. (n + 1) /\ i - 1 # n + 1
          BY <5>1
        <5>3. i # 0 => h[i - 1] = g[i - 1]
          BY <5>2
        <5>4. g[i] = IF i = 0 THEN << >> ELSE MergeFamily(b, g[i - 1], s[i])
          BY <3>1, <5>1
        <5> HIDE DEF h
        <5>5. QED
          BY <5>1, <5>3, <5>4
      <4>3. QED
        BY <4>1, <4>2
    <3>3. Goes(h, n + 1)
      BY <3>2
    <3> HIDE DEF h
    <3>4. QED
      BY <3>3
  <2> HIDE DEF Goes
  <2>3. G \subseteq Nat
    OBVIOUS
  <2> HIDE DEF G
  <2>4. \A n \in Nat : n \in G
    BY <2>1, <2>2, <2>3, AllNumbers
  <2>5. QED
    BY <2>4 DEF G
<1>3. Merges(c, b, s)
  <2>1. \E g : Merges(g, b, s)
    BY <1>1, <1>2 DEF Merges
  <2>2. QED
    BY <2>1
<1>4. FamiliesByName(b, s) = c[N]
  BY MergeDef
<1> HIDE DEF c, N
<1>5. c[0] = << >> /\ \A i \in 1 .. N : c[i] = MergeFamily(b, c[i - 1], s[i])
  BY <1>1, <1>3 DEF Merges, N
<1>6. \A n \in Nat : n <= N => MergedTo(c[n], b, s, n)
  <2> DEFINE G == {n \in Nat : n <= N => MergedTo(c[n], b, s, n)}
  <2>1. 0 \in G
    <3>1. IsFiniteSet({}) /\ DOMAIN c[0] = {} /\ 1 .. 0 = {}
      BY <1>5, FS_EmptySet
    <3>2. QED
      BY <3>1 DEF MergedTo
  <2>2. ASSUME NEW n \in G PROVE n + 1 \in G
    <3> DEFINE m == n + 1
    <3> SUFFICES ASSUME m <= N PROVE MergedTo(c[m], b, s, m)
      OBVIOUS
    <3>1. m \in 1 .. N /\ m - 1 = n /\ n \in Nat /\ MergedTo(c[n], b, s, n)
      BY <1>1
    <3>2. s[m] \in ToSet(s)
      BY <1>1, <3>1 DEF ToSet
    <3> HIDE DEF m
    <3>3. c[m] = MergeFamily(b, c[n], s[m]) /\ Family(b, s[m])
      BY <1>5, <3>1, <3>2
    <3>4. QED
      BY <3>1, <3>3, MergeStep DEF m
  <2>3. G \subseteq Nat
    OBVIOUS
  <2> HIDE DEF G
  <2>4. \A n \in Nat : n \in G
    BY <2>1, <2>2, <2>3, AllNumbers
  <2>5. QED
    BY <2>4 DEF G
<1>7. MergedTo(c[N], b, s, N)
  BY <1>1, <1>6
<1>8. QED
  BY <1>4, <1>7 DEF N

\* A family on its way out: its exported name, its type, and its metrics with
\* the common labels.
GivenOut(b, names, mf, out) ==
    /\ Name(b, out) = Exported(Name(b, mf))
    /\ Read(b, "MetricFamily", out, "field_type") = Read(b, "MetricFamily", mf, "field_type")
    /\ {Metrics(b, out)[j] : j \in DOMAIN Metrics(b, out)}
         = {WithCommonLabels(b, registry, names, m) : m \in ToSet(Metrics(b, mf))}

LEMMA FinishedFamily ==
    ASSUME NEW b \in Builds, NEW mf, Family(b, mf), NEW names
    PROVE  GivenOut(b, names, mf, Finished(b, registry, names, mf))
<1> DEFINE ms == Metrics(b, mf)
           sorted == MetricsInOrder(b, ms)
           with(m) == WithCommonLabels(b, registry, names, m)
           full == [j \in DOMAIN sorted |-> with(sorted[j])]
           named == IF registry.prefix = << >> THEN mf
                    ELSE Put(b, "MetricFamily", mf, "name",
                             registry.prefix \o <<"_">> \o Name(b, mf))
           out == Finished(b, registry, names, mf)
<1>1. out = Put(b, "MetricFamily", named, "metric", full)
  BY DEF Finished, MetricsInOrder
<1>2. ms \in Seq(ToSet(ms))
  BY DEF Family, List
<1>3. Shuffled(sorted, ms)
  BY <1>2, SortedMetrics
<1> HIDE DEF sorted, ms
<1>4. ToSet(sorted) = ToSet(ms)
  BY <1>2, <1>3, SequenceLists, ShuffledAll, LenProperties
<1>5. {"name", "metric", "field_type"} \subseteq DOMAIN mf
  BY FreshFields DEF Family
<1>6. /\ DOMAIN named = DOMAIN mf /\ Name(b, named) = Exported(Name(b, mf))
      /\ Read(b, "MetricFamily", named, "field_type") = Read(b, "MetricFamily", mf, "field_type")
  <2> DEFINE name == registry.prefix \o <<"_">> \o Name(b, mf)
  <2>1. CASE registry.prefix = << >>
    BY <2>1 DEF Exported
  <2>2. CASE registry.prefix # << >>
    <3>1. Exported(Name(b, mf)) = name
      BY <2>2 DEF Exported
    <3> HIDE DEF name
    <3>2. named = Put(b, "MetricFamily", mf, "name", name)
      BY <2>2 DEF name
    <3> HIDE DEF named
    <3>3. QED
      BY <1>5, <3>1, <3>2, ReadPut, ReadOther DEF Name
  <2>3. QED
    BY <2>1, <2>2
<1> HIDE DEF named, full, out
<1>7. {"name", "metric", "field_type"} \subseteq DOMAIN named
  BY <1>5, <1>6
<1>8. Metrics(b, out) = full
  BY <1>1, <1>7, ReadPut DEF Metrics
<1>9. Name(b, out) = Name(b, named)
      /\ Read(b, "MetricFamily", out, "field_type") = Read(b, "MetricFamily", named, "field_type")
  BY <1>1, <1>7, ReadOther DEF Name
<1>10. {full[j] : j \in DOMAIN full} = {with(m) : m \in ToSet(ms)}
  <2>1. DOMAIN full = DOMAIN sorted /\ \A j \in DOMAIN sorted : full[j] = with(sorted[j])
    BY DEF full
  <2> HIDE DEF with
  <2>2. {full[j] : j \in DOMAIN full} = {with(m) : m \in ToSet(sorted)}
    BY <2>1 DEF ToSet
  <2>3. QED
    BY <1>4, <2>2
<1>11. QED
  BY <1>6, <1>8, <1>9, <1>10 DEF out, ms, GivenOut

\* gather gives every family by name once finished, and nothing else.
LEMMA GatheredFamilies ==
    ASSUME KeptInv, RegistryInv, NEW b \in Builds, NEW a \in Arrangements(registry, colls)
    PROVE  LET g       == gather(b, registry, colls, a)
               all     == Collected(b, colls, a)
               by_name == FamiliesByName(b, all)
               out(x)  == Finished(b, registry, a.labels, by_name[x])
           IN  /\ MergedTo(by_name, b, all, Len(all))
               /\ \A x \in DOMAIN by_name : \E i \in DOMAIN g : g[i] = out(x)
               /\ \A i \in DOMAIN g : \E x \in DOMAIN by_name : g[i] = out(x)
<1> DEFINE g == gather(b, registry, colls, a)
           all == Collected(b, colls, a)
           by_name == FamiliesByName(b, all)
           out(x) == Finished(b, registry, a.labels, by_name[x])
           names == SortedNames(DOMAIN by_name)
<1>1. List(all) /\ \A mf \in ToSet(all) : Family(b, mf)
  BY CollectedAll
<1>2. g = [i \in DOMAIN names |-> out(names[i])]
  BY DEF gather
<1> HIDE DEF g, all
<1>3. MergedTo(by_name, b, all, Len(all))
  BY <1>1, FamiliesMerged
<1> HIDE DEF by_name
<1>4. ToSet(names) = DOMAIN by_name
  BY <1>3, NamesSorted DEF MergedTo, EachOnce
<1> HIDE DEF names, out
<1>5. \A x \in DOMAIN by_name : \E i \in DOMAIN g : g[i] = out(x)
  BY <1>2, <1>4 DEF ToSet
<1>6. \A i \in DOMAIN g : \E x \in DOMAIN by_name : g[i] = out(x)
  BY <1>2, <1>4 DEF ToSet
<1>7. QED
  BY <1>3, <1>5, <1>6 DEF g, all, by_name, out

\* A metric of the library on its way out: its own labels and the common ones,
\* and what it shows.
GoesOut(b, c, child, names, m) ==
    /\ child.desc = c.descs[1] /\ LabelledAs(child.label_pairs, c.descs[1])
    /\ PlainPairs(b, m) = child.label_pairs \o CommonInOrder(names)
    /\ ToSet(PlainPairs(b, m)) = ToSet(child.label_pairs) \cup CommonPairs
    /\ ShowsChild(b, c.type, child, m)

LEMMA ChildOut ==
    ASSUME NEW b \in Builds, NEW c, OfLibrary(c), NEW h \in DOMAIN c.children,
           NEW names, EachOnce(names, DOMAIN registry.labels)
    PROVE  GoesOut(b, c, c.children[h], names,
                   WithCommonLabels(b, registry, names, metric(b, c.type, c.children[h])))
<1> DEFINE child == c.children[h]
           plain == metric(b, c.type, child)
           m == WithCommonLabels(b, registry, names, plain)
           common == CommonInOrder(names)
<1>1. /\ child.desc = c.descs[1] /\ LabelledAs(child.label_pairs, c.descs[1])
      /\ c.type \in {"COUNTER", "GAUGE", "HISTOGRAM"}
  BY DEF OfLibrary, ChildrenOf, ChildOf
<1> HIDE DEF child
<1>2. Pairs(child.label_pairs)
  BY <1>1 DEF LabelledAs
<1>3. /\ DOMAIN plain = DOMAIN Fresh(b, "Metric")
      /\ LabelsOf(b, plain) = LabelPairs(b, child.label_pairs)
      /\ ShowsChild(b, c.type, child, plain)
  BY <1>1, MetricShows
<1> HIDE DEF plain
<1>4. /\ PlainPairs(b, m) = child.label_pairs \o common
      /\ \A t : Shown(b, t, m) = Shown(b, t, plain)
  BY <1>2, <1>3, CommonAdded
<1> HIDE DEF m
<1>5. Pairs(common) /\ ToSet(common) = CommonPairs
  BY CommonListed
<1> HIDE DEF common
<1>6. ToSet(PlainPairs(b, m)) = ToSet(child.label_pairs) \cup CommonPairs
  BY <1>2, <1>4, <1>5, JoinedPairs
<1>7. QED
  BY <1>1, <1>3, <1>4, <1>6 DEF child, plain, m, common, GoesOut, ShowsChild

\* The collectors are kept, and what was just gathered are their families, in
\* one order of the maps.
ScrapeInv ==
    /\ KeptInv /\ RegistryInv
    /\ JustGathered =>
          \E a \in Arrangements(registry, colls) : families = Gathered(registry, a)

\* So every child is in one of them.
LEMMA ChildrenGathered == ScrapeInv => EveryChildIsGathered
<1> SUFFICES ASSUME ScrapeInv, JustGathered, NEW b \in Builds, NEW k \in Own(registry),
                    NEW h \in DOMAIN colls[k].children
             PROVE  LET child == colls[k].children[h] IN
                    \E i \in DOMAIN families[b] :
                      LET mf == families[b][i]
                          type == Read(b, "MetricFamily", mf, "field_type") IN
                      /\ Name(b, mf) = Exported(child.desc.fq_name)
                      /\ \E j \in DOMAIN Metrics(b, mf) :
                          LET m == Metrics(b, mf)[j] IN
                          /\ ToSet(PlainPairs(b, m)) = ToSet(child.label_pairs) \cup CommonPairs
                          /\ Shown(b, type, m) =
                               IF type = colls[k].type THEN Held(k, child) ELSE 0
  BY DEF EveryChildIsGathered
<1>1. KeptInv /\ RegistryInv
  BY DEF ScrapeInv
<1>2. PICK a \in Arrangements(registry, colls) : families = Gathered(registry, a)
  BY DEF ScrapeInv
<1> DEFINE c == colls[k]
           child == c.children[h]
           x == c.descs[1].fq_name
           g == gather(b, registry, colls, a)
           all == Collected(b, colls, a)
           by_name == FamiliesByName(b, all)
           out(y) == Finished(b, registry, a.labels, by_name[y])
           with(m) == WithCommonLabels(b, registry, a.labels, m)
           m0 == metric(b, c.type, child)
<1>3. families[b] = g
  BY <1>2 DEF Gathered
<1>4. /\ k \in registry.collectors /\ k \in DOMAIN colls
      /\ OfLibrary(c) /\ h \in DOMAIN c.children
  BY <1>1 DEF Own, RegistryInv, KeptInv, Kept, OtherCode
<1>5. EachOnce(a.keys[k], DOMAIN c.children) /\ EachOnce(a.labels, DOMAIN registry.labels)
  BY <1>1, <1>4, ArrangedOnce
<1>6. PICK fam : collect(b, c, a.keys[k]) = <<fam>> /\ FamilyOf(b, c, a.keys[k], fam)
  BY <1>4, <1>5, CollectOne
<1>7. Name(b, fam) = x /\ m0 \in ToSet(Metrics(b, fam))
  <2>1. PICK i \in DOMAIN a.keys[k] : a.keys[k][i] = h
    BY <1>5 DEF EachOnce, ToSet
  <2>2. QED
    BY <1>6, <2>1 DEF FamilyOf
<1>8. PICK i \in 1 .. Len(all) : all[i] = fam
  <2>1. fam \in ToSet(collect(b, c, a.keys[k]))
    BY <1>6 DEF ToSet
  <2>2. List(all) /\ fam \in ToSet(all)
    BY <1>1, <1>4, <2>1, CollectedAll
  <2> HIDE DEF all
  <2>3. DOMAIN all = 1 .. Len(all)
    BY <2>2, LenProperties DEF List
  <2>4. QED
    BY <2>2, <2>3 DEF ToSet
<1>9. /\ MergedTo(by_name, b, all, Len(all))
      /\ \A y \in DOMAIN by_name : \E n \in DOMAIN g : g[n] = out(y)
  BY <1>1, GatheredFamilies
<1> HIDE DEF g, all, by_name, m0, with, c, x
<1>10. x \in DOMAIN by_name /\ m0 \in ToSet(Metrics(b, by_name[x])) /\ Family(b, by_name[x])
       /\ Name(b, by_name[x]) = x
  BY <1>7, <1>8, <1>9 DEF MergedTo
<1>11. PICK n \in DOMAIN g : g[n] = out(x)
  BY <1>9, <1>10
<1>12. /\ Name(b, out(x)) = Exported(x)
       /\ \E j \in DOMAIN Metrics(b, out(x)) : Metrics(b, out(x))[j] = with(m0)
  <2>1. GivenOut(b, a.labels, by_name[x], out(x))
    BY <1>10, FinishedFamily
  <2> HIDE DEF out
  <2>2. with(m0) \in {Metrics(b, out(x))[j] : j \in DOMAIN Metrics(b, out(x))}
    BY <1>10, <2>1 DEF GivenOut, with
  <2>3. QED
    BY <1>10, <2>1, <2>2 DEF GivenOut
<1> HIDE DEF out
<1>13. PICK j \in DOMAIN Metrics(b, g[n]) : Metrics(b, g[n])[j] = with(m0)
  BY <1>11, <1>12
<1>14. GoesOut(b, c, child, a.labels, with(m0))
  BY <1>4, <1>5, ChildOut DEF m0, with
<1> HIDE DEF child
<1>15. /\ child.desc.fq_name = x
       /\ ToSet(PlainPairs(b, with(m0))) = ToSet(child.label_pairs) \cup CommonPairs
       /\ \A t : Shown(b, t, with(m0)) = IF t = c.type THEN Held(k, child) ELSE 0
  <2>1. child.desc.fq_name = x
    BY <1>14 DEF GoesOut, x
  <2>2. ToSet(PlainPairs(b, with(m0))) = ToSet(child.label_pairs) \cup CommonPairs
    BY <1>14 DEF GoesOut
  <2>3. ShowsChild(b, c.type, child, with(m0))
    BY <1>14 DEF GoesOut
  <2>4. Held(k, child) = IF c.type = "HISTOGRAM" THEN child.count ELSE child.val
    BY DEF Held, c
  <2> HIDE DEF with
  <2>5. \A t : Shown(b, t, with(m0)) = IF t = c.type THEN Held(k, child) ELSE 0
    BY <2>3, <2>4 DEF ShowsChild
  <2>6. QED
    BY <2>1, <2>2, <2>5
<1>16. /\ n \in DOMAIN families[b]
       /\ Name(b, families[b][n]) = Exported(child.desc.fq_name)
       /\ j \in DOMAIN Metrics(b, families[b][n])
       /\ Metrics(b, families[b][n])[j] = with(m0)
  BY <1>3, <1>11, <1>12, <1>13, <1>15
<1>17. QED
  BY <1>15, <1>16 DEF child, c

\* A collector whose metrics may have a name twice: it is code of its own, or
\* has a name for two kinds of labels.
Clashes(k) ==
    LET desc == colls[k].descs[1]
        variable == ToSet(desc.variable_labels)
    IN  \/ colls[k].type = "CUSTOM"
        \/ NamesOf(desc) \cap variable # {}
        \/ (NamesOf(desc) \cup variable) \cap DOMAIN registry.labels # {}

\* A metric that goes out was given by a collector that is registered.
LEMMA MetricFrom ==
    ASSUME KeptInv, RegistryInv, NEW b \in Builds, NEW a \in Arrangements(registry, colls),
           NEW i \in DOMAIN gather(b, registry, colls, a),
           NEW j \in DOMAIN Metrics(b, gather(b, registry, colls, a)[i])
    PROVE  \E k \in registry.collectors :
           \E fam \in ToSet(collect(b, colls[k], a.keys[k])) :
           \E m \in ToSet(Metrics(b, fam)) :
             LET out == gather(b, registry, colls, a)[i]
             IN  /\ Name(b, out) = Exported(Name(b, fam))
                 /\ Metrics(b, out)[j] = WithCommonLabels(b, registry, a.labels, m)
<1> DEFINE g == gather(b, registry, colls, a)
           all == Collected(b, colls, a)
           by_name == FamiliesByName(b, all)
           with(m) == WithCommonLabels(b, registry, a.labels, m)
<1>1. /\ MergedTo(by_name, b, all, Len(all))
      /\ \A n \in DOMAIN g : \E y \in DOMAIN by_name :
            g[n] = Finished(b, registry, a.labels, by_name[y])
  BY GatheredFamilies
<1>2. /\ List(all)
      /\ ToSet(all) = UNION {ToSet(collect(b, colls[k], a.keys[k])) : k \in registry.collectors}
  BY CollectedAll
<1> DEFINE out == g[i]
<1>3. j \in DOMAIN Metrics(b, out) /\ i \in DOMAIN g
  OBVIOUS
<1> SUFFICES \E k \in registry.collectors :
             \E fam \in ToSet(collect(b, colls[k], a.keys[k])) :
             \E m \in ToSet(Metrics(b, fam)) :
                /\ Name(b, out) = Exported(Name(b, fam))
                /\ Metrics(b, out)[j] = with(m)
  OBVIOUS
<1> HIDE DEF g, all, by_name, with
<1>4. PICK x \in DOMAIN by_name : out = Finished(b, registry, a.labels, by_name[x])
  BY <1>1, <1>3
<1> HIDE DEF out
<1>5. Family(b, by_name[x]) /\ Name(b, by_name[x]) = x
  BY <1>1 DEF MergedTo
<1>6. GivenOut(b, a.labels, by_name[x], out)
  BY <1>4, <1>5, FinishedFamily
<1>7. PICK m \in ToSet(Metrics(b, by_name[x])) : Metrics(b, out)[j] = with(m)
  <2>1. Metrics(b, out)[j] \in {with(m) : m \in ToSet(Metrics(b, by_name[x]))}
    BY <1>3, <1>6 DEF GivenOut, with
  <2>2. QED
    BY <2>1
<1>8. PICK n \in 1 .. Len(all) : Name(b, all[n]) = x /\ m \in ToSet(Metrics(b, all[n]))
  BY <1>1 DEF MergedTo
<1>9. all[n] \in ToSet(all)
  <2>1. DOMAIN all = 1 .. Len(all)
    BY <1>2, LenProperties DEF List
  <2>2. QED
    BY <2>1 DEF ToSet
<1>10. PICK k \in registry.collectors : all[n] \in ToSet(collect(b, colls[k], a.keys[k]))
  BY <1>2, <1>9
<1>11. Name(b, out) = Exported(Name(b, all[n]))
  BY <1>5, <1>6, <1>8 DEF GivenOut
<1>12. QED
  BY <1>7, <1>8, <1>10, <1>11

\* A metric of the library that goes out has every label name once, unless its
\* collector has one for two kinds of labels.
LEMMA NamesOnce ==
    ASSUME RegistryInv, NEW b \in Builds, NEW k \in DOMAIN colls, OfLibrary(colls[k]),
           NEW h \in DOMAIN colls[k].children,
           NEW names, EachOnce(names, DOMAIN registry.labels), ~Clashes(k)
    PROVE  IsInjective(NamesIn(PlainPairs(b,
               WithCommonLabels(b, registry, names,
                                metric(b, colls[k].type, colls[k].children[h])))))
<1> DEFINE c == colls[k]
           child == c.children[h]
           own == child.label_pairs
           common == CommonInOrder(names)
           d == c.descs[1]
           m == WithCommonLabels(b, registry, names, metric(b, c.type, child))
<1>1. GoesOut(b, c, child, names, m)
  BY ChildOut
<1> HIDE DEF m
<1>2. NamesOf(d) \cap ToSet(d.variable_labels) = {}
      /\ (NamesOf(d) \cup ToSet(d.variable_labels)) \cap DOMAIN registry.labels = {}
  BY DEF Clashes
<1> HIDE DEF d, own
<1>3. LabelledAs(own, d) /\ PlainPairs(b, m) = own \o common
  BY <1>1 DEF GoesOut, d, own
<1>4. Pairs(own) /\ IsInjective(NamesIn(own))
      /\ {p.name : p \in ToSet(own)} = NamesOf(d) \cup ToSet(d.variable_labels)
  BY <1>2, <1>3 DEF LabelledAs
<1>5. Pairs(common) /\ IsInjective(NamesIn(common)) /\ ToSet(common) = CommonPairs
  BY CommonListed
<1> HIDE DEF common
<1>6. \A p \in ToSet(own), q \in ToSet(common) : p.name # q.name
  <2> SUFFICES ASSUME NEW p \in ToSet(own), NEW q \in CommonPairs PROVE p.name # q.name
    BY <1>5
  <2>1. p.name \in NamesOf(d) \cup ToSet(d.variable_labels)
    BY <1>4
  <2>2. q.name \in DOMAIN registry.labels
    BY DEF CommonPairs
  <2>3. QED
    BY <1>2, <2>1, <2>2
<1>7. IsInjective(NamesIn(own \o common))
  BY <1>4, <1>5, <1>6, JoinedPairs
<1>8. QED
  BY <1>3, <1>7 DEF m

LEMMA NamesAreOnce == ScrapeInv => LabelNamesUnique
<1> SUFFICES ASSUME ScrapeInv, JustGathered, NEW b \in Builds, NEW i \in DOMAIN families[b],
                    NEW j \in DOMAIN Metrics(b, families[b][i])
             PROVE  \/ IsInjective(NamesIn(PlainPairs(b, Metrics(b, families[b][i])[j])))
                    \/ \E k \in registry.collectors :
                         /\ \E n \in FamilyNames(k) : Exported(n) = Name(b, families[b][i])
                         /\ Clashes(k)
  BY DEF LabelNamesUnique, Clashes, NamesOf, NamesIn
<1>1. KeptInv /\ RegistryInv
  BY DEF ScrapeInv
<1>2. PICK a \in Arrangements(registry, colls) : families = Gathered(registry, a)
  BY DEF ScrapeInv
<1> DEFINE out == families[b][i]
<1>3. families[b] = gather(b, registry, colls, a)
  BY <1>2 DEF Gathered
<1>4. PICK k \in registry.collectors : \E fam \in ToSet(collect(b, colls[k], a.keys[k])) :
         \E m \in ToSet(Metrics(b, fam)) :
            /\ Name(b, out) = Exported(Name(b, fam))
            /\ Metrics(b, out)[j] = WithCommonLabels(b, registry, a.labels, m)
  <2>1. i \in DOMAIN gather(b, registry, colls, a)
        /\ j \in DOMAIN Metrics(b, gather(b, registry, colls, a)[i])
    BY <1>3
  <2>2. QED
    BY <1>1, <1>3, <2>1, MetricFrom
<1>5. PICK fam \in ToSet(collect(b, colls[k], a.keys[k])) : \E m \in ToSet(Metrics(b, fam)) :
         /\ Name(b, out) = Exported(Name(b, fam))
         /\ Metrics(b, out)[j] = WithCommonLabels(b, registry, a.labels, m)
  BY <1>4
<1>6. PICK m \in ToSet(Metrics(b, fam)) :
         /\ Name(b, out) = Exported(Name(b, fam))
         /\ Metrics(b, out)[j] = WithCommonLabels(b, registry, a.labels, m)
  BY <1>5
<1> HIDE DEF out
<1>7. k \in DOMAIN colls /\ Kept(colls[k])
  BY <1>1 DEF RegistryInv, KeptInv
<1>8. CASE OtherCode(colls[k])
  <2>1. collect(b, colls[k], a.keys[k]) = colls[k].families[b] /\ colls[k].type = "CUSTOM"
    BY <1>8 DEF OtherCode, collect
  <2>2. Name(b, fam) \in FamilyNames(k)
    BY <1>6, <2>1 DEF FamilyNames
  <2>3. QED
    BY <1>6, <2>1, <2>2 DEF Clashes, out
<1>9. CASE OfLibrary(colls[k])
  <2> DEFINE c == colls[k]
             keys == a.keys[k]
  <2>1. EachOnce(keys, DOMAIN c.children) /\ EachOnce(a.labels, DOMAIN registry.labels)
    BY <1>1, <1>7, <1>9, ArrangedOnce
  <2>2. PICK mf : collect(b, c, keys) = <<mf>> /\ FamilyOf(b, c, keys, mf)
    BY <1>9, <2>1, CollectOne
  <2>3. fam = mf
    BY <2>2 DEF ToSet
  <2>4. Name(b, fam) = c.descs[1].fq_name
        /\ ToSet(Metrics(b, fam)) = {metric(b, c.type, c.children[keys[q]]) : q \in DOMAIN keys}
    BY <2>2, <2>3 DEF FamilyOf
  <2>5. Name(b, fam) \in FamilyNames(k)
    BY <1>9, <2>4 DEF FamilyNames, OfLibrary
  <2>6. PICK q \in DOMAIN keys : m = metric(b, c.type, c.children[keys[q]])
    BY <2>4
  <2>7. keys[q] \in DOMAIN c.children
    BY <2>1, <2>6 DEF EachOnce, ToSet
  <2>8. CASE Clashes(k)
    BY <1>6, <2>5, <2>8 DEF out
  <2>9. CASE ~Clashes(k)
    <3>1. IsInjective(NamesIn(PlainPairs(b, WithCommonLabels(b, registry, a.labels, m))))
      BY <1>1, <1>7, <1>9, <2>1, <2>6, <2>7, <2>9, NamesOnce
    <3>2. QED
      BY <1>6, <3>1 DEF out
  <2>10. QED
    BY <2>8, <2>9
<1>10. QED
  BY <1>7, <1>8, <1>9 DEF Kept

\* Nothing is gathered at first; while families are in use nothing changes, and
\* only gather makes families of the registry.
LEMMA ScrapeInitially == ScrapeInit => ScrapeInv
BY KeptInit, RegistryInitially DEF ScrapeInit, ScrapeInv, JustGathered

LEMMA ScrapeKept == ScrapeInv /\ [ScrapeNext]_scraping => ScrapeInv'
<1> SUFFICES ASSUME ScrapeInv, [ScrapeNext]_scraping PROVE ScrapeInv'
  OBVIOUS
<1>1. KeptInv /\ RegistryInv
  BY DEF ScrapeInv
<1>2. [InstrumentationNext]_collecting => KeptInv' /\ RegistryInv'
  BY <1>1, KeptNext, RegistryKept
<1>3. CASE Instrument
  <2>1. ~JustGathered'
    BY <1>3 DEF Instrument, Idle, taken, JustGathered
  <2>2. QED
    BY <1>2, <1>3, <2>1 DEF Instrument, ScrapeInv
<1>4. CASE Gather
  <2>1. KeptInv' /\ RegistryInv'
    BY <1>2, <1>4 DEF Gather
  <2>2. PICK a \in Arrangements(registry, colls) : families' = Gathered(registry, a)
    BY <1>4 DEF Gather
  <2>3. registry' = registry /\ colls' = colls
    BY <1>4 DEF Gather, collecting
  <2>4. a \in Arrangements(registry, colls)' /\ families' = Gathered(registry, a)'
    BY <2>2, <2>3 DEF Gathered
  <2>5. QED
    BY <2>1, <2>4 DEF ScrapeInv
<1>5. CASE Collect \/ CollectTogether
  <2>1. ~JustGathered' /\ UNCHANGED collecting
    BY <1>5 DEF Collect, CollectTogether, JustGathered
  <2>2. QED
    BY <1>2, <2>1 DEF ScrapeInv
<1>6. CASE (\E what \in {"text", "protobuf", "pushed"} : UseAs(what)) \/ Done
  <2>1. ~JustGathered' /\ UNCHANGED collecting
    BY <1>6 DEF UseAs, Done, JustGathered
  <2>2. QED
    BY <1>2, <2>1 DEF ScrapeInv
<1>7. CASE UNCHANGED scraping
  <2>1. UNCHANGED collecting /\ registry' = registry /\ colls' = colls
        /\ families' = families /\ (JustGathered' <=> JustGathered)
    BY <1>7 DEF scraping, taken, collecting, JustGathered
  <2>2. KeptInv' /\ RegistryInv'
    BY <1>2, <2>1
  <2>3. ASSUME NEW a \in Arrangements(registry, colls), families = Gathered(registry, a)
        PROVE  a \in Arrangements(registry, colls)' /\ families' = Gathered(registry, a)'
    BY <2>1, <2>3 DEF Gathered
  <2>4. JustGathered' => \E a \in Arrangements(registry, colls)' :
                            families' = Gathered(registry, a)'
    BY <2>1, <2>3 DEF ScrapeInv
  <2>5. QED
    BY <2>2, <2>4 DEF ScrapeInv
<1>8. QED
  BY <1>3, <1>4, <1>5, <1>6, <1>7 DEF ScrapeNext

LEMMA ScrapeInvariant == ScrapeSpec => []ScrapeInv
<1>1. QED
  BY ScrapeInitially, ScrapeKept, PTL DEF ScrapeSpec

\* Whatever collectors there are, however hash maps list them, their children and
\* the common labels, and whichever families of the same name are merged: gather
\* gives every child of every registered collector of the library, with its
\* labels, the common ones and what it holds.
THEOREM ChildrenAreGathered == ScrapeSpec => []EveryChildIsGathered
<1>1. QED
  BY ScrapeInvariant, ChildrenGathered, PTL

\* And no metric that is gathered has a label name twice, for any options, label
\* values, common labels and prefix, but for the collectors named there: new_desc,
\* which refuses a name that is there twice among the constant and among the
\* variable labels, is enough.
THEOREM LabelNamesAreUnique == ScrapeSpec => []LabelNamesUnique
<1>1. QED
  BY ScrapeInvariant, NamesAreOnce, PTL

-----------------------------------------------------------------------------
(***************************************************************************)
(* Where the leaves of an auto-flushed metric are.                          *)
(***************************************************************************)
\* Levels, each with a list of definitions.
Tree(levels) ==
    /\ levels \in Seq(ToSet(levels))
    /\ \A i \in DOMAIN levels : levels[i].defs \in Seq(ToSet(levels[i].defs))

\* The fields of a struct that lead to the next level.
FieldNames(levels, i) == ToSet(get_names(levels[i].defs))

\* The compiler has put the fields of every struct, of which none is there
\* twice, in some order.
Laid(levels) ==
    \A i \in DOMAIN levels :
        /\ IsInjective(get_names(levels[i].defs))
        /\ FieldNames(levels, i) \cap RootFields(i) = {}
        /\ order[i] \in SetToSeqs(FieldNames(levels, i) \cup RootFields(i))

\* A struct has as many fields as definitions, for none is there twice.
LEMMA FieldsCount ==
    ASSUME NEW levels, Tree(levels), Laid(levels), NEW i \in DOMAIN levels
    PROVE  /\ IsFiniteSet(FieldNames(levels, i))
           /\ Len(levels[i].defs) \in Nat
           /\ Cardinality(FieldNames(levels, i)) = Len(levels[i].defs)
<1> DEFINE defs == levels[i].defs
           n == Len(defs)
           names == get_names(defs)
<1>1. n \in Nat /\ DOMAIN defs = 1 .. n
  BY LenProperties DEF Tree
<1>2. names = [j \in 1 .. n |-> defs[j].name]
  BY <1>1 DEF get_names
<1>3. IsInjective(names)
  BY DEF Laid
<1> HIDE DEF names, defs, n
<1>4. ToSet(names) = {names[j] : j \in 1 .. n}
  BY <1>2 DEF ToSet
<1>5. names \in Surjection(1 .. n, ToSet(names)) /\ names \in Injection(1 .. n, ToSet(names))
  <2>1. DOMAIN names = 1 .. n
    BY <1>2
  <2>2. names \in [1 .. n -> ToSet(names)]
    BY <1>2, <1>4
  <2>3. \A x \in ToSet(names) : \E j \in 1 .. n : names[j] = x
    BY <1>4
  <2>4. QED
    BY <2>2, <2>3, <1>3 DEF Surjection, Injection
<1>6. IsFiniteSet(1 .. n) /\ Cardinality(1 .. n) = n
  BY <1>1, FS_Interval
<1>7. IsFiniteSet(ToSet(names)) /\ Cardinality(ToSet(names)) = n
  BY <1>5, <1>6, FS_Surjection
<1>8. QED
  BY <1>1, <1>7 DEF FieldNames, names, defs, n

\* The root's own fields are two at most.
LEMMA RootFinite ==
    ASSUME NEW i
    PROVE  IsFiniteSet(RootFields(i)) /\ Cardinality(RootFields(i)) \in Nat
<1>1. IsFiniteSet({"last_flush", "flush_millis"})
  <2>1. {"last_flush", "flush_millis"} = {"last_flush"} \cup {"flush_millis"}
    OBVIOUS
  <2>2. IsFiniteSet({"last_flush"}) /\ IsFiniteSet({"flush_millis"})
    BY FS_Singleton
  <2>3. IsFiniteSet({"last_flush"} \cup {"flush_millis"})
    BY <2>2, FS_Union
  <2>4. QED
    BY <2>1, <2>3
<1>2. IsFiniteSet(RootFields(i))
  BY <1>1, FS_EmptySet DEF RootFields
<1>3. QED
  BY <1>2, FS_CardinalityType

\* size is the function by which SizeOf adds up the fields of a struct.
Sizing(size, levels) ==
    size = [height \in 0 .. Len(levels) |->
               IF height = 0 THEN 1
               ELSE LET i == Len(levels) - height + 1
                    IN  Len(levels[i].defs) * size[height - 1] + Cardinality(RootFields(i))]

\* SizeOf in terms of that function.
LEMMA SizeDef ==
    ASSUME NEW levels, NEW index
    PROVE  SizeOf(levels, index) = (CHOOSE f : Sizing(f, levels))[Len(levels) - index + 1]
BY DEF SizeOf, Sizing

\* A struct is as large as its fields, which are of the size of the next level.
LEMMA Sizes ==
    ASSUME NEW levels, Tree(levels), Laid(levels)
    PROVE  /\ SizeOf(levels, Len(levels) + 1) = 1
           /\ \A i \in 1 .. (Len(levels) + 1) : SizeOf(levels, i) \in Nat
           /\ \A i \in 1 .. Len(levels) : 
                 SizeOf(levels, i) = Len(levels[i].defs) * SizeOf(levels, i + 1)
                                        + Cardinality(RootFields(i))
<1> DEFINE L == Len(levels)
           n(i) == Len(levels[i].defs)
           r(i) == Cardinality(RootFields(i))
           F == [h \in 1 .. L |-> [x \in Nat |-> n(L - h + 1) * x + r(L - h + 1)]]
           c == CHOOSE f : Sizing(f, levels)
<1>1. L \in Nat /\ DOMAIN levels = 1 .. L
  BY LenProperties DEF Tree
<1>2. ASSUME NEW h \in 1 .. L
      PROVE  L - h + 1 \in 1 .. L /\ n(L - h + 1) \in Nat /\ r(L - h + 1) \in Nat
  <2>1. L - h + 1 \in 1 .. L
    BY <1>1
  <2>2. QED
    BY <2>1, <1>1, FieldsCount, RootFinite
<1>3. \E g : Sizing(g, levels)
  <2>1. Stay(F, L, Nat)
    <3> SUFFICES ASSUME NEW h \in 1 .. L, NEW x \in Nat PROVE F[h][x] \in Nat
      BY DEF Stay
    <3> DEFINE a == n(L - h + 1)
               b == r(L - h + 1)
    <3>1. a \in Nat /\ b \in Nat
      BY <1>2
    <3>2. F[h][x] = a * x + b
      OBVIOUS
    <3> HIDE DEF a, b, F
    <3>3. a * x + b \in Nat
      BY <3>1
    <3>4. QED
      BY <3>2, <3>3
  <2>2. PICK g : Run(g, 1, F, L, Nat)
    <3> HIDE DEF F, L
    <3>1. QED
      BY <2>1, <1>1, StepsExist
  <2>3. g \in [0 .. L -> Nat] /\ g[0] = 1 /\ \A h \in 1 .. L : g[h] = F[h][g[h - 1]]
    BY <2>2 DEF Run
  <2>4. ASSUME NEW h \in 0 .. L
        PROVE g[h] = IF h = 0 THEN 1 ELSE n(L - h + 1) * g[h - 1] + r(L - h + 1)
    <3>1. CASE h = 0
      BY <2>3, <3>1
    <3>2. CASE h # 0
      <4> DEFINE j == h - 1
      <4>1. h \in 1 .. L /\ j \in 0 .. L
        BY <3>2, <1>1
      <4>2. g[j] \in Nat /\ g[h] = F[h][g[j]]
        BY <4>1, <2>3
      <4>3. F[h][g[j]] = n(L - h + 1) * g[j] + r(L - h + 1)
        BY <4>1, <4>2
      <4>4. QED
        BY <4>2, <4>3, <3>2
    <3>3. QED
      BY <3>1, <3>2
  <2>5. Sizing(g, levels)
    <3>1. g = [h \in 0 .. L |-> g[h]]
      BY <2>3
    <3> HIDE DEF L
    <3>2. g = [h \in 0 .. L |-> IF h = 0 THEN 1
                                ELSE n(L - h + 1) * g[h - 1] + r(L - h + 1)]
      BY <3>1, <2>4
    <3>3. QED
      BY <3>2 DEF Sizing, L
  <2>6. QED
    BY <2>5
<1>4. Sizing(c, levels)
  BY <1>3
<1>5. \A i : SizeOf(levels, i) = c[L - i + 1]
  BY SizeDef
<1> HIDE DEF c
<1>6. /\ c[0] = 1
      /\ \A h, j : h \in 1 .. L /\ j = h - 1 => c[h] = n(L - h + 1) * c[j] + r(L - h + 1)
  <2>1. c = [h \in 0 .. L |-> IF h = 0 THEN 1 ELSE n(L - h + 1) * c[h - 1] + r(L - h + 1)]
    BY <1>4 DEF Sizing
  <2>2. ASSUME NEW h \in 0 .. L
        PROVE c[h] = IF h = 0 THEN 1 ELSE n(L - h + 1) * c[h - 1] + r(L - h + 1)
    <3> HIDE DEF n, r, L
    <3>1. QED
      BY <2>1
  <2>3. c[0] = 1
    BY <2>2, <1>1
  <2>4. ASSUME NEW h, NEW j, h \in 1 .. L, j = h - 1
        PROVE c[h] = n(L - h + 1) * c[j] + r(L - h + 1)
    <3>1. h \in 0 .. L /\ h # 0
      BY <2>4, <1>1
    <3> HIDE DEF n, r, L
    <3>2. QED
      BY <3>1, <2>2, <2>4
  <2>5. QED
    BY <2>3, <2>4
<1> DEFINE G == {h \in Nat : h <= L => c[h] \in Nat}
<1>7. 0 \in G
  BY <1>6
<1>8. ASSUME NEW h \in G PROVE h + 1 \in G
  <2> SUFFICES ASSUME h + 1 <= L PROVE c[h + 1] \in Nat
    OBVIOUS
  <2> DEFINE m == h + 1
             a == n(L - m + 1)
             b == r(L - m + 1)
  <2>1. h \in Nat /\ c[h] \in Nat /\ m \in 1 .. L /\ h = m - 1
    BY <1>1
  <2>2. a \in Nat /\ b \in Nat /\ c[m] = a * c[h] + b
    BY <2>1, <1>2, <1>6
  <2> HIDE DEF m, a, b
  <2>3. a * c[h] + b \in Nat
    BY <2>1, <2>2
  <2>4. QED
    BY <2>2, <2>3 DEF m
<1>9. \A h \in Nat : h \in G
  <2>1. G \subseteq Nat
    OBVIOUS
  <2> HIDE DEF G
  <2>2. QED
    BY <2>1, <1>7, <1>8, AllNumbers
<1>10. ASSUME NEW i \in 1 .. L PROVE SizeOf(levels, i) = n(i) * SizeOf(levels, i + 1) + r(i)
  <2> DEFINE h == L - i + 1
             j == L - (i + 1) + 1
  <2>1. h \in 1 .. L /\ j = h - 1 /\ L - h + 1 = i
    BY <1>1
  <2> HIDE DEF h, j, L
  <2>2. c[h] = n(i) * c[j] + r(i)
    BY <2>1, <1>6
  <2>3. QED
    BY <2>2, <1>5 DEF h, j
<1>11. ASSUME NEW i \in 1 .. (L + 1) PROVE SizeOf(levels, i) \in Nat
  <2>1. L - i + 1 \in Nat /\ L - i + 1 <= L
    BY <1>1
  <2>2. QED
    BY <2>1, <1>5, <1>9
<1>12. SizeOf(levels, L + 1) = 1
  <2>1. L - (L + 1) + 1 = 0
    BY <1>1
  <2>2. QED
    BY <2>1, <1>5, <1>6
<1>13. QED
  BY <1>10, <1>11, <1>12

\* What is before a field in memory.
PlaceOf(i, name) == CHOOSE k \in DOMAIN order[i] : order[i][k] = name
Before(i, name) == {order[i][k] : k \in 1 .. (PlaceOf(i, name) - 1)}

\* OffsetOf in terms of what is before the field.
LEMMA OffsetDef ==
    ASSUME NEW levels, NEW i, NEW name
    PROVE  OffsetOf(levels, i, name) =
              Cardinality(Before(i, name) \ RootFields(i)) * SizeOf(levels, i + 1)
                + Cardinality(Before(i, name) \cap RootFields(i))
BY DEF OffsetOf, Before, PlaceOf

\* Every field is somewhere, and once.
LEMMA Placed ==
    ASSUME NEW levels, Tree(levels), Laid(levels), NEW i \in DOMAIN levels
    PROVE  \E n \in Nat :
              /\ DOMAIN order[i] = 1 .. n
              /\ \A k \in 1 .. n : order[i][k] \in FieldNames(levels, i) \cup RootFields(i)
              /\ \A k, l \in 1 .. n : order[i][k] = order[i][l] => k = l
              /\ \A name \in FieldNames(levels, i) :
                    PlaceOf(i, name) \in 1 .. n /\ order[i][PlaceOf(i, name)] = name
<1> DEFINE S == FieldNames(levels, i) \cup RootFields(i)
           n == Cardinality(S)
           o == order[i]
<1>1. IsFiniteSet(S) /\ n \in Nat
  BY FieldsCount, RootFinite, FS_Union, FS_CardinalityType
<1>2. o \in SetToSeqs(S)
  BY DEF Laid
<1>3. o \in [1 .. n -> S] /\ \A k, l \in 1 .. n : k # l => o[k] # o[l]
  BY <1>2 DEF SetToSeqs
<1> HIDE DEF S, n, o
<1>4. o \in Surjection(1 .. n, S)
  <2>1. o \in Injection(1 .. n, S)
    BY <1>3 DEF Injection, IsInjective
  <2>2. Cardinality(1 .. n) = Cardinality(S)
    BY <1>1, FS_Interval DEF n
  <2>3. QED
    BY <2>1, <2>2, <1>1, FS_Injection
<1>5. ASSUME NEW name \in S PROVE PlaceOf(i, name) \in 1 .. n /\ o[PlaceOf(i, name)] = name
  <2>1. \E k \in 1 .. n : o[k] = name
    BY <1>4 DEF Surjection
  <2>2. DOMAIN o = 1 .. n
    BY <1>3
  <2>3. QED
    BY <2>1, <2>2 DEF PlaceOf, o
<1>6. QED
  BY <1>1, <1>3, <1>5 DEF o, S

\* No field is before itself, and of two one is before the other, with all that is
\* before it.
LEMMA BeforeFields ==
    ASSUME NEW levels, Tree(levels), Laid(levels), NEW i \in DOMAIN levels,
           NEW a \in FieldNames(levels, i)
    PROVE  /\ a \notin Before(i, a)
           /\ Before(i, a) \subseteq FieldNames(levels, i) \cup RootFields(i)
           /\ \A b \in FieldNames(levels, i) :
                 a # b => \/ Before(i, a) \cup {a} \subseteq Before(i, b)
                          \/ Before(i, b) \cup {b} \subseteq Before(i, a)
<1>1. PICK n \in Nat :
              /\ DOMAIN order[i] = 1 .. n
              /\ \A k \in 1 .. n : order[i][k] \in FieldNames(levels, i) \cup RootFields(i)
              /\ \A k, l \in 1 .. n : order[i][k] = order[i][l] => k = l
              /\ \A name \in FieldNames(levels, i) :
                    PlaceOf(i, name) \in 1 .. n /\ order[i][PlaceOf(i, name)] = name
  BY Placed
<1>2. a \notin Before(i, a)
  <2> SUFFICES ASSUME NEW k \in 1 .. (PlaceOf(i, a) - 1), order[i][k] = a PROVE FALSE
    BY DEF Before
  <2>1. PlaceOf(i, a) \in 1 .. n /\ order[i][PlaceOf(i, a)] = a
    BY <1>1
  <2>2. k \in 1 .. n /\ k # PlaceOf(i, a)
    BY <2>1
  <2>3. QED
    BY <2>1, <2>2, <1>1
<1>3. Before(i, a) \subseteq FieldNames(levels, i) \cup RootFields(i)
  BY <1>1 DEF Before
<1>4. ASSUME NEW x \in FieldNames(levels, i), NEW y \in FieldNames(levels, i),
             PlaceOf(i, x) < PlaceOf(i, y)
      PROVE  Before(i, x) \cup {x} \subseteq Before(i, y)
  <2>1. /\ PlaceOf(i, x) \in 1 .. n /\ order[i][PlaceOf(i, x)] = x
        /\ PlaceOf(i, y) \in 1 .. n
    BY <1>1
  <2>2. PlaceOf(i, x) \in 1 .. (PlaceOf(i, y) - 1)
    BY <2>1, <1>4
  <2>3. x \in Before(i, y)
    BY <2>1, <2>2 DEF Before
  <2>4. 1 .. (PlaceOf(i, x) - 1) \subseteq 1 .. (PlaceOf(i, y) - 1)
    BY <2>1, <1>4
  <2>5. Before(i, x) \subseteq Before(i, y)
    BY <2>4 DEF Before
  <2>6. QED
    BY <2>3, <2>5
<1>5. ASSUME NEW b \in FieldNames(levels, i), a # b
      PROVE  PlaceOf(i, a) < PlaceOf(i, b) \/ PlaceOf(i, b) < PlaceOf(i, a)
  <2>1. /\ PlaceOf(i, a) \in 1 .. n /\ order[i][PlaceOf(i, a)] = a
        /\ PlaceOf(i, b) \in 1 .. n /\ order[i][PlaceOf(i, b)] = b
    BY <1>1
  <2>2. QED
    BY <2>1, <1>5
<1>6. QED
  BY <1>2, <1>3, <1>4, <1>5

\* Multiples of m of which one is less are at least m apart.
LEMMA Fits == ASSUME NEW a \in Nat, NEW b \in Nat, NEW m \in Nat, a + 1 <= b
              PROVE  a * m \in Nat /\ b * m \in Nat /\ a * m + m <= b * m
<1>1. PICK d \in Nat : b = a + 1 + d
  <2>1. b - (a + 1) \in Nat /\ b = a + 1 + (b - (a + 1))
    OBVIOUS
  <2>2. QED
    BY <2>1
<1>2. a * m \in Nat /\ d * m \in Nat /\ b * m \in Nat
  OBVIOUS
<1>3. b * m = a * m + m + d * m
  BY <1>1
<1>4. QED
  BY <1>2, <1>3

\* Every field is within its struct, and no two overlap.
LEMMA StructLayout ==
    ASSUME NEW levels, Tree(levels), Laid(levels), NEW i \in 1 .. Len(levels),
           NEW a \in FieldNames(levels, i)
    PROVE  /\ OffsetOf(levels, i, a) \in Nat
           /\ OffsetOf(levels, i, a) + SizeOf(levels, i + 1) <= SizeOf(levels, i)
           /\ \A b \in FieldNames(levels, i) :
                 a # b => \/ OffsetOf(levels, i, a) + SizeOf(levels, i + 1)
                                <= OffsetOf(levels, i, b)
                          \/ OffsetOf(levels, i, b) + SizeOf(levels, i + 1)
                                <= OffsetOf(levels, i, a)
<1> DEFINE m == SizeOf(levels, i + 1)
           n == Len(levels[i].defs)
           R == RootFields(i)
           S == FieldNames(levels, i)
           w(x) == Cardinality(Before(i, x) \ R)
           r(x) == Cardinality(Before(i, x) \cap R)
<1>1. i \in DOMAIN levels /\ m \in Nat /\ SizeOf(levels, i) = n * m + Cardinality(R)
  <2>1. Len(levels) \in Nat /\ DOMAIN levels = 1 .. Len(levels)
    BY LenProperties DEF Tree
  <2>2. i + 1 \in 1 .. (Len(levels) + 1)
    BY <2>1
  <2>3. QED
    BY <2>1, <2>2, Sizes
<1>2. IsFiniteSet(S) /\ Cardinality(S) = n /\ n \in Nat
  BY <1>1, FieldsCount
<1>3. IsFiniteSet(R) /\ Cardinality(R) \in Nat
  BY RootFinite
<1>4. S \cap R = {}
  BY <1>1 DEF Laid
<1>5. ASSUME NEW x \in S
      PROVE  /\ x \notin Before(i, x) /\ x \notin R
             /\ IsFiniteSet(Before(i, x) \ R) /\ IsFiniteSet(Before(i, x) \cap R)
             /\ w(x) \in Nat /\ r(x) \in Nat /\ w(x) + 1 <= n /\ r(x) <= Cardinality(R)
             /\ OffsetOf(levels, i, x) = w(x) * m + r(x)
  <2> DEFINE B == Before(i, x)
  <2>1. x \notin B /\ B \subseteq S \cup R
    BY <1>1, BeforeFields
  <2>2. (B \ R) \cup {x} \in SUBSET S /\ B \cap R \in SUBSET R /\ x \notin R /\ B \ R \in SUBSET S
    BY <2>1, <1>4
  <2> HIDE DEF B, S, R
  <2>3. IsFiniteSet(B \ R) /\ IsFiniteSet(B \cap R) /\ Cardinality(B \cap R) <= Cardinality(R)
    BY <2>2, <1>2, <1>3, FS_Subset
  <2>4. Cardinality(B \ R) \in Nat /\ Cardinality(B \cap R) \in Nat
    BY <2>3, FS_CardinalityType
  <2>5. Cardinality((B \ R) \cup {x}) = Cardinality(B \ R) + 1
    BY <2>1, <2>3, FS_AddElement
  <2>6. Cardinality((B \ R) \cup {x}) <= n
    BY <2>2, <1>2, FS_Subset
  <2>7. OffsetOf(levels, i, x) = Cardinality(B \ R) * m + Cardinality(B \cap R)
    BY OffsetDef DEF B, R
  <2>8. QED
    BY <2>1, <2>2, <2>3, <2>4, <2>5, <2>6, <2>7 DEF B
<1>6. ASSUME NEW x \in S
      PROVE  OffsetOf(levels, i, x) \in Nat /\ OffsetOf(levels, i, x) + m <= SizeOf(levels, i)
  <2> DEFINE p == w(x)
             q == r(x)
             e == Cardinality(R)
  <2>1. p \in Nat /\ q \in Nat /\ p + 1 <= n /\ q <= e /\ e \in Nat /\ n \in Nat /\ m \in Nat
    BY <1>1, <1>2, <1>3, <1>5
  <2>2. OffsetOf(levels, i, x) = p * m + q /\ SizeOf(levels, i) = n * m + e
    BY <1>1, <1>5
  <2> HIDE DEF p, q, e, m, n
  <2>3. p * m \in Nat /\ n * m \in Nat /\ p * m + m <= n * m
    BY <2>1, Fits
  <2>4. p * m + q \in Nat /\ (p * m + q) + m <= n * m + e
    BY <2>1, <2>3
  <2>5. QED
    BY <2>2, <2>4
<1>7. ASSUME NEW x \in S, NEW y \in S, Before(i, x) \cup {x} \subseteq Before(i, y)
      PROVE  OffsetOf(levels, i, x) + m <= OffsetOf(levels, i, y)
  <2> DEFINE p == w(x)
             q == r(x)
             f == w(y)
             g == r(y)
  <2>1. /\ p \in Nat /\ q \in Nat /\ f \in Nat /\ g \in Nat /\ m \in Nat
        /\ OffsetOf(levels, i, x) = p * m + q /\ OffsetOf(levels, i, y) = f * m + g
    BY <1>1, <1>5
  <2>2. p + 1 <= f /\ q <= g
    <3> DEFINE B == Before(i, x)
               C == Before(i, y)
    <3>1. /\ x \notin B /\ x \notin R /\ IsFiniteSet(B \ R)
          /\ IsFiniteSet(C \ R) /\ IsFiniteSet(C \cap R)
      BY <1>5
    <3>2. (B \ R) \cup {x} \in SUBSET (C \ R) /\ B \cap R \in SUBSET (C \cap R)
      BY <3>1, <1>7
    <3> HIDE DEF B, C, R
    <3>3. Cardinality((B \ R) \cup {x}) = Cardinality(B \ R) + 1
      BY <3>1, FS_AddElement
    <3>4. Cardinality((B \ R) \cup {x}) <= Cardinality(C \ R)
      BY <3>1, <3>2, FS_Subset
    <3>5. Cardinality(B \cap R) <= Cardinality(C \cap R)
      BY <3>1, <3>2, FS_Subset
    <3>6. QED
      BY <3>3, <3>4, <3>5 DEF B, C
  <2> HIDE DEF p, q, f, g, m
  <2>3. p * m \in Nat /\ f * m \in Nat /\ p * m + m <= f * m
    BY <2>1, <2>2, Fits
  <2>4. (p * m + q) + m <= f * m + g
    BY <2>1, <2>2, <2>3
  <2>5. QED
    BY <2>1, <2>4
<1>8. QED
  BY <1>1, <1>6, <1>7, BeforeFields

\* address is the function by which Along adds up offsets.
Adds(address, offsets) ==
    address = [n \in 0 .. Len(offsets) |-> IF n = 0 THEN 0 ELSE address[n - 1] + offsets[n]]

\* Along in terms of that function.
LEMMA AlongDef ==
    ASSUME NEW offsets
    PROVE  Along(offsets) = (CHOOSE f : Adds(f, offsets))[Len(offsets)]
BY DEF Along, Adds

\* The addresses on the way.
LEMMA AlongSteps ==
    ASSUME NEW N \in Nat, NEW s \in [1 .. N -> Nat]
    PROVE  \E g : /\ g[0] = 0 /\ Along(s) = g[N]
                  /\ \A n \in 0 .. N : g[n] \in Nat
                  /\ \A n \in 1 .. N : g[n] = g[n - 1] + s[n]
<1> DEFINE F == [n \in 1 .. N |-> [x \in Nat |-> x + s[n]]]
           c == CHOOSE f : Adds(f, s)
<1>1. Len(s) = N
  OBVIOUS
<1>2. \E g : Adds(g, s)
  <2>1. Stay(F, N, Nat)
    BY DEF Stay
  <2>2. PICK g : Run(g, 0, F, N, Nat)
    <3> HIDE DEF F
    <3>1. QED
      BY <2>1, StepsExist
  <2>3. g \in [0 .. N -> Nat] /\ g[0] = 0 /\ \A n \in 1 .. N : g[n] = F[n][g[n - 1]]
    BY <2>2 DEF Run
  <2>4. ASSUME NEW n \in 0 .. N PROVE g[n] = IF n = 0 THEN 0 ELSE g[n - 1] + s[n]
    <3>1. CASE n = 0
      BY <2>3, <3>1
    <3>2. CASE n # 0
      <4> DEFINE j == n - 1
      <4>1. n \in 1 .. N /\ j \in 0 .. N
        BY <3>2
      <4>2. g[j] \in Nat /\ g[n] = F[n][g[j]]
        BY <4>1, <2>3
      <4>3. F[n][g[j]] = g[j] + s[n]
        BY <4>1, <4>2
      <4>4. QED
        BY <4>2, <4>3, <3>2
    <3>3. QED
      BY <3>1, <3>2
  <2>5. Adds(g, s)
    <3>1. g = [n \in 0 .. N |-> g[n]]
      BY <2>3
    <3>2. g = [n \in 0 .. N |-> IF n = 0 THEN 0 ELSE g[n - 1] + s[n]]
      BY <3>1, <2>4
    <3>3. QED
      BY <3>2, <1>1 DEF Adds
  <2>6. QED
    BY <2>5
<1>3. Adds(c, s)
  BY <1>2
<1>4. Along(s) = c[N]
  BY <1>1, AlongDef
<1> HIDE DEF c
<1>5. c = [n \in 0 .. N |-> IF n = 0 THEN 0 ELSE c[n - 1] + s[n]]
  BY <1>1, <1>3 DEF Adds
<1>6. \A n \in 0 .. N : c[n] = IF n = 0 THEN 0 ELSE c[n - 1] + s[n]
  BY <1>5
<1>7. c[0] = 0 /\ \A n \in 1 .. N : c[n] = c[n - 1] + s[n]
  BY <1>6
<1> DEFINE G == {n \in Nat : n <= N => c[n] \in Nat}
<1>8. 0 \in G
  BY <1>7
<1>9. ASSUME NEW n \in G PROVE n + 1 \in G
  <2> SUFFICES ASSUME n + 1 <= N PROVE c[n + 1] \in Nat
    OBVIOUS
  <2> DEFINE m == n + 1
  <2>1. n \in Nat /\ c[n] \in Nat /\ m \in 1 .. N /\ m - 1 = n
    OBVIOUS
  <2>2. c[m] = c[m - 1] + s[m] /\ s[m] \in Nat
    BY <2>1, <1>7
  <2> HIDE DEF m
  <2>3. c[m] \in Nat
    BY <2>1, <2>2
  <2>4. QED
    BY <2>3 DEF m
<1>10. \A n \in Nat : n \in G
  <2>1. G \subseteq Nat
    OBVIOUS
  <2> HIDE DEF G
  <2>2. QED
    BY <2>1, <1>8, <1>9, AllNumbers
<1>11. QED
  BY <1>4, <1>7, <1>10

\* A way from the root to a leaf, by the names of the fields, and its offsets.
WayTo(levels, path) ==
    /\ path \in [1 .. Len(levels) -> UNION {FieldNames(levels, i) : i \in DOMAIN levels}]
    /\ \A i \in 1 .. Len(levels) : path[i] \in FieldNames(levels, i)
OffsetsOf(levels, path) == [i \in DOMAIN path |-> OffsetOf(levels, i, path[i])]

\* What is left of a way is within the struct that it has come to.
LEMMA RestOfWay ==
    ASSUME NEW levels, Tree(levels), Laid(levels), NEW path, WayTo(levels, path)
    PROVE  \E g : /\ g[0] = 0 /\ Along(OffsetsOf(levels, path)) = g[Len(levels)]
                  /\ \A i \in 1 .. Len(levels) :
                        g[i] = g[i - 1] + OffsetOf(levels, i, path[i])
                  /\ \A i \in 0 .. Len(levels) :
                        /\ g[i] \in Nat
                        /\ g[i] <= g[Len(levels)]
                        /\ g[Len(levels)] < g[i] + SizeOf(levels, i + 1)
<1> DEFINE N == Len(levels)
           s == OffsetsOf(levels, path)
           z(i) == SizeOf(levels, i)
<1>1. N \in Nat
  BY LenProperties DEF Tree
<1>2. \A i \in 1 .. N : /\ OffsetOf(levels, i, path[i]) \in Nat
                        /\ OffsetOf(levels, i, path[i]) + z(i + 1) <= z(i)
  BY StructLayout DEF WayTo
<1>3. s \in [1 .. N -> Nat] /\ \A i \in 1 .. N : s[i] = OffsetOf(levels, i, path[i])
  BY <1>2 DEF WayTo, OffsetsOf
<1>4. z(N + 1) = 1 /\ \A i \in 1 .. (N + 1) : z(i) \in Nat
  BY Sizes
<1> HIDE DEF z, s, N
<1>5. PICK g : /\ g[0] = 0 /\ Along(s) = g[N]
               /\ \A n \in 0 .. N : g[n] \in Nat
               /\ \A n \in 1 .. N : g[n] = g[n - 1] + s[n]
  BY <1>1, <1>3, AlongSteps
<1> DEFINE P(i) == g[i] <= g[N] /\ g[N] < g[i] + z(i + 1)
           G == {n \in Nat : n <= N => P(N - n)}
<1>6. 0 \in G
  BY <1>1, <1>4, <1>5
<1>7. ASSUME NEW n \in G PROVE n + 1 \in G
  <2> SUFFICES ASSUME n + 1 <= N PROVE P(N - (n + 1))
    OBVIOUS
  <2> DEFINE i == N - n
             j == N - (n + 1)
  <2>1. n \in Nat /\ i \in 1 .. N /\ j = i - 1 /\ P(i) /\ i \in Nat /\ j \in 0 .. N /\ j + 1 = i
    BY <1>1
  <2> HIDE DEF i, j
  <2>2. g[i] = g[j] + s[i] /\ g[j] \in Nat /\ g[i] \in Nat /\ g[N] \in Nat
    BY <2>1, <1>1, <1>5
  <2>3. s[i] \in Nat /\ s[i] + z(i + 1) <= z(i)
    BY <2>1, <1>2, <1>3
  <2>4. z(i) \in Nat /\ z(i + 1) \in Nat
    BY <2>1, <1>1, <1>4
  <2>5. g[i] <= g[N] /\ g[N] < g[i] + z(i + 1)
    BY <2>1
  <2>6. g[j] <= g[N] /\ g[N] < g[j] + z(i)
    BY <2>2, <2>3, <2>4, <2>5
  <2>7. P(j)
    BY <2>1, <2>6
  <2>8. QED
    BY <2>7 DEF j
<1>8. \A n \in Nat : n \in G
  <2>1. G \subseteq Nat
    OBVIOUS
  <2> HIDE DEF G
  <2>2. QED
    BY <2>1, <1>6, <1>7, AllNumbers
<1>9. ASSUME NEW i \in 0 .. N PROVE P(i)
  <2>1. N - i \in Nat /\ N - i <= N /\ N - (N - i) = i
    BY <1>1
  <2>2. N - i \in G
    BY <2>1, <1>8
  <2>3. P(N - (N - i))
    BY <2>1, <2>2
  <2>4. QED
    BY <2>1, <2>3
<1>10. QED
  BY <1>3, <1>5, <1>9 DEF s, z, N

\* No two leaves of a root have one address.
LEMMA AddressesDiffer ==
    ASSUME NEW levels, Tree(levels), Laid(levels), NEW p, NEW q,
           WayTo(levels, p), WayTo(levels, q),
           Along(OffsetsOf(levels, p)) = Along(OffsetsOf(levels, q))
    PROVE  p = q
<1> DEFINE N == Len(levels)
           a(i) == OffsetOf(levels, i, p[i])
           b(i) == OffsetOf(levels, i, q[i])
           z(i) == SizeOf(levels, i)
<1>1. N \in Nat
  BY LenProperties DEF Tree
<1>2. PICK g : /\ g[0] = 0 /\ Along(OffsetsOf(levels, p)) = g[N]
               /\ \A i \in 1 .. N : g[i] = g[i - 1] + a(i)
               /\ \A i \in 0 .. N : g[i] \in Nat /\ g[i] <= g[N] /\ g[N] < g[i] + z(i + 1)
  BY RestOfWay
<1>3. PICK h : /\ h[0] = 0 /\ Along(OffsetsOf(levels, q)) = h[N]
               /\ \A i \in 1 .. N : h[i] = h[i - 1] + b(i)
               /\ \A i \in 0 .. N : h[i] \in Nat /\ h[i] <= h[N] /\ h[N] < h[i] + z(i + 1)
  BY RestOfWay
<1>4. ASSUME NEW i \in 1 .. N
      PROVE  /\ a(i) \in Nat /\ b(i) \in Nat /\ z(i + 1) \in Nat
             /\ p[i] # q[i] => a(i) + z(i + 1) <= b(i) \/ b(i) + z(i + 1) <= a(i)
  <2>1. p[i] \in FieldNames(levels, i) /\ q[i] \in FieldNames(levels, i)
    BY DEF WayTo
  <2>2. z(i + 1) \in Nat
    <3>1. i + 1 \in 1 .. (N + 1)
      BY <1>1
    <3>2. QED
      BY <3>1, Sizes
  <2>3. QED
    BY <2>1, <2>2, StructLayout
<1> HIDE DEF a, b, z, N
<1> DEFINE P(i) == g[i] = h[i] /\ \A j \in 1 .. i : p[j] = q[j]
           G == {n \in Nat : n <= N => P(n)}
<1>5. 0 \in G
  BY <1>2, <1>3
<1>6. ASSUME NEW n \in G PROVE n + 1 \in G
  <2> SUFFICES ASSUME n + 1 <= N PROVE P(n + 1)
    OBVIOUS
  <2> DEFINE m == n + 1
  <2>1. /\ n \in Nat /\ P(n) /\ m \in 1 .. N /\ m \in 0 .. N
        /\ m - 1 = n /\ n \in 0 .. N /\ N \in 0 .. N
    BY <1>1
  <2>2. g[m] = g[n] + a(m) /\ h[m] = h[n] + b(m)
    BY <2>1, <1>2, <1>3
  <2>3. /\ g[n] \in Nat /\ h[n] = g[n] /\ g[N] \in Nat /\ h[N] = g[N]
        /\ g[m] \in Nat /\ h[m] \in Nat
        /\ g[m] <= g[N] /\ g[N] < g[m] + z(m + 1)
        /\ h[m] <= g[N] /\ g[N] < h[m] + z(m + 1)
    BY <2>1, <1>2, <1>3
  <2>4. a(m) \in Nat /\ b(m) \in Nat /\ z(m + 1) \in Nat
    BY <2>1, <1>4
  <2>5. ~(a(m) + z(m + 1) <= b(m)) /\ ~(b(m) + z(m + 1) <= a(m))
    BY <2>2, <2>3, <2>4
  <2>6. p[m] = q[m]
    BY <2>1, <2>5, <1>4
  <2>7. g[m] = h[m]
    BY <2>2, <2>3, <2>6 DEF a, b
  <2>8. 1 .. m = (1 .. n) \cup {m}
    BY <2>1
  <2>9. QED
    BY <2>1, <2>6, <2>7, <2>8
<1>7. N \in G
  <2>1. G \subseteq Nat
    OBVIOUS
  <2> HIDE DEF G
  <2>2. QED
    BY <2>1, <1>1, <1>5, <1>6, AllNumbers
<1>8. \A i \in 1 .. N : p[i] = q[i]
  BY <1>1, <1>7
<1>9. QED
  BY <1>8 DEF WayTo, N

\* offsets is the function by which the delegators hand theirs on.
Delegates(offsets, levels, path) ==
    offsets = [n \in 1 .. Len(path) |->
                  IF n = 1 THEN outer_from(levels, path[1])
                  ELSE delegator_new(levels, offsets[n - 1], path[n])]

\* Delegator in terms of that function.
LEMMA DelegatorDef ==
    ASSUME NEW levels, NEW path
    PROVE  Delegator(levels, path) = (CHOOSE f : Delegates(f, levels, path))[Len(path)]
BY DEF Delegator, Delegates

\* The last delegator has the offsets of the whole way, each in its own struct.
LEMMA DelegatorOffsets ==
    ASSUME NEW levels, Tree(levels), Laid(levels), Len(levels) # 0,
           NEW path, WayTo(levels, path)
    PROVE  Delegator(levels, path) = OffsetsOf(levels, path)
<1> DEFINE N == Len(levels)
           e(i) == OffsetOf(levels, i, path[i])
           w(n) == [i \in 1 .. n |-> e(i)]
           step(x, n) == IF n = 1 THEN outer_from(levels, path[1])
                         ELSE delegator_new(levels, x, path[n])
           f == [n \in 1 .. N |-> w(n)]
           c == CHOOSE f_ : Delegates(f_, levels, path)
<1>1. N \in Nat /\ N # 0 /\ Len(path) = N /\ DOMAIN path = 1 .. N
  BY LenProperties DEF Tree, WayTo
<1>2. \A i \in 1 .. N : e(i) \in Nat
  BY StructLayout DEF WayTo
<1>3. ASSUME NEW n \in 1 .. N, NEW j, j = n - 1, NEW x, n # 1 => x = w(j) PROVE step(x, n) = w(n)
  <2>1. CASE n = 1
    <3>1. step(x, n) = <<e(1)>>
      BY <2>1 DEF outer_from
    <3>2. w(1) = <<e(1)>>
      OBVIOUS
    <3>3. QED
      BY <2>1, <3>1, <3>2
  <2>2. CASE n # 1
    <3>1. j \in 1 .. N /\ j + 1 = n /\ j \in Nat
      BY <1>1, <1>3, <2>2
    <3> HIDE DEF e
    <3>2. w(j) \in Seq(Nat) /\ Len(w(j)) = j /\ \A i \in 1 .. j : w(j)[i] = e(i)
      BY <3>1, <1>2
    <3>3. step(x, n) = Append(w(j), OffsetOf(levels, j + 1, path[n]))
      BY <2>2, <1>3, <3>2 DEF delegator_new
    <3>4. OffsetOf(levels, j + 1, path[n]) = e(n)
      BY <3>1 DEF e
    <3>5. e(n) \in Nat
      BY <1>2
    <3>6. /\ Append(w(j), e(n)) \in Seq(Nat) /\ Len(Append(w(j), e(n))) = n
          /\ \A i \in 1 .. j : Append(w(j), e(n))[i] = e(i)
          /\ Append(w(j), e(n))[n] = e(n)
      BY <3>1, <3>2, <3>5, AppendProperties
    <3>7. w(n) \in Seq(Nat) /\ Len(w(n)) = n /\ \A i \in 1 .. n : w(n)[i] = e(i)
      BY <1>1, <1>2
    <3> HIDE DEF w
    <3>8. ASSUME NEW i \in 1 .. n PROVE Append(w(j), e(n))[i] = w(n)[i]
      <4>1. i \in 1 .. j \/ i = n
        BY <3>1
      <4>2. QED
        BY <4>1, <3>6, <3>7
    <3>9. Append(w(j), e(n)) = w(n)
      BY <3>6, <3>7, <3>8, SeqEqual
    <3>10. QED
      BY <3>3, <3>4, <3>9
  <2>3. QED
    BY <2>1, <2>2
<1> HIDE DEF w, step
<1>4. Delegates(f, levels, path)
  <2>1. ASSUME NEW n \in 1 .. N PROVE w(n) = step(f[n - 1], n)
    <3>1. n # 1 => f[n - 1] = w(n - 1)
      BY <1>1
    <3>2. QED
      BY <3>1, <1>3
  <2>2. f = [n \in 1 .. N |-> step(f[n - 1], n)]
    BY <2>1
  <2>3. QED
    BY <2>2, <1>1 DEF Delegates, step
<1>5. Delegates(c, levels, path)
  BY <1>4
<1>6. Delegator(levels, path) = c[N]
  BY <1>1, DelegatorDef
<1> HIDE DEF c, f
<1>7. c = [n \in 1 .. N |-> step(c[n - 1], n)]
  BY <1>5, <1>1 DEF Delegates, step
<1>8. \A n \in 1 .. N : c[n] = step(c[n - 1], n)
  BY <1>7
<1> DEFINE G == {n \in Nat : n + 1 \in 1 .. N => c[n + 1] = w(n + 1)}
<1>9. 0 \in G
  <2>1. 1 \in 1 .. N /\ 0 = 1 - 1
    BY <1>1
  <2>2. c[1] = step(c[1 - 1], 1) /\ step(c[1 - 1], 1) = w(1)
    BY <2>1, <1>3, <1>8
  <2>3. QED
    BY <2>2
<1>10. ASSUME NEW n \in G PROVE n + 1 \in G
  <2> SUFFICES ASSUME (n + 1) + 1 \in 1 .. N PROVE c[(n + 1) + 1] = w((n + 1) + 1)
    OBVIOUS
  <2> DEFINE j == n + 1
             m == (n + 1) + 1
  <2>1. n \in Nat /\ j = m - 1 /\ m \in 1 .. N /\ j \in 1 .. N /\ c[j] = w(j)
    BY <1>1
  <2>2. c[m] = step(c[j], m)
    <3>1. c[m] = step(c[m - 1], m)
      BY <2>1, <1>8
    <3>2. QED
      BY <3>1, <2>1
  <2>3. step(c[j], m) = w(m)
    <3> HIDE DEF j, m
    <3>1. QED
      BY <2>1, <1>3
  <2>4. QED
    BY <2>2, <2>3
<1>11. c[N] = w(N)
  <2>1. N - 1 \in Nat /\ (N - 1) + 1 = N /\ N \in 1 .. N
    BY <1>1
  <2>2. \A n \in Nat : n \in G
    <3>1. G \subseteq Nat
      OBVIOUS
    <3> HIDE DEF G
    <3>2. QED
      BY <3>1, <1>9, <1>10, AllNumbers
  <2>3. N - 1 \in G
    BY <2>1, <2>2
  <2>4. QED
    BY <2>1, <2>3
<1>12. QED
  BY <1>1, <1>6, <1>11 DEF w, OffsetsOf

\* A delegator leads to the leaf of its own fields and to no other.
LEMMA DelegatorsLead ==
    ASSUME NEW levels, Tree(levels), Laid(levels), Len(levels) # 0,
           NEW leaves, \A p \in leaves : WayTo(levels, p), NEW path \in leaves
    PROVE  LeavesAt(levels, leaves, get_local(Delegator(levels, path))) = {path}
<1>1. get_local(Delegator(levels, path)) = Along(OffsetsOf(levels, path))
  BY DelegatorOffsets DEF get_local
<1>2. \A a : LeavesAt(levels, leaves, a) = {p \in leaves : Along(OffsetsOf(levels, p)) = a}
  BY DEF LeavesAt, OffsetsOf
<1>3. \A p \in leaves : Along(OffsetsOf(levels, p)) = Along(OffsetsOf(levels, path)) => p = path
  BY AddressesDiffer
<1>4. QED
  BY <1>1, <1>2, <1>3

-----------------------------------------------------------------------------
(***************************************************************************)
(* The leaves that from makes, and flush visits.                            *)
(***************************************************************************)
\* If y can be made longer by e to what is in Z, so can a list of them.
LEMMA LongerPaths ==
    ASSUME NEW Y, NEW D, NEW Z, NEW s \in Seq(Y), NEW d \in Seq(D),
           \A y \in Y, e \in D : Append(y, e) \in Z
    PROVE  FlattenSeq([i \in DOMAIN s |-> [j \in DOMAIN d |-> Append(s[i], d[j])]]) \in Seq(Z)
<1> DEFINE b == [i \in DOMAIN s |-> [j \in DOMAIN d |-> Append(s[i], d[j])]]
<1>1. /\ Len(s) \in Nat /\ DOMAIN s = 1 .. Len(s) /\ \A i \in 1 .. Len(s) : s[i] \in Y
      /\ Len(d) \in Nat /\ DOMAIN d = 1 .. Len(d) /\ \A j \in 1 .. Len(d) : d[j] \in D
  BY LenProperties, ElementOfSeq
<1>2. \A i \in 1 .. Len(s) : [j \in 1 .. Len(d) |-> Append(s[i], d[j])] \in Seq(Z)
  BY <1>1
<1>3. b \in Seq(Seq(Z))
  BY <1>1, <1>2
<1>4. QED
  BY <1>3, FlattenType

\* paths is the function by which Paths makes them longer.
Branches(paths, levels) ==
    paths = [n \in 0 .. Len(levels) |->
                IF n = 0 THEN << << >> >>
                ELSE LET shorter == paths[n - 1]
                     IN  FlattenSeq([i \in DOMAIN shorter |->
                            [j \in DOMAIN levels[n].defs |->
                                Append(shorter[i], levels[n].defs[j])]])]

\* Paths in terms of that function.
LEMMA PathsDef ==
    ASSUME NEW levels
    PROVE  Paths(levels) = (CHOOSE f : Branches(f, levels))[Len(levels)]
BY DEF Paths, Branches

\* Ways of n levels.
AnyField(levels) == UNION {ToSet(levels[i].defs) : i \in DOMAIN levels}
Ways(levels, n) ==
    {p \in Seq(AnyField(levels)) : /\ Len(p) = n
                                   /\ \A i \in 1 .. n : p[i] \in ToSet(levels[i].defs)}

\* Ways s made longer by what is in d.
Longer(s, d) == FlattenSeq([i \in DOMAIN s |-> [j \in DOMAIN d |-> Append(s[i], d[j])]])

\* Paths are made longer, a level at a time, and are lists of one definition of
\* each level.
LEMMA PathsSteps ==
    ASSUME NEW levels, Tree(levels)
    PROVE  \E c : /\ c[0] = << << >> >> /\ Paths(levels) = c[Len(levels)]
                  /\ \A n \in 0 .. Len(levels) : c[n] \in Seq(Ways(levels, n))
                  /\ \A n \in 1 .. Len(levels) : c[n] = Longer(c[n - 1], levels[n].defs)
<1> DEFINE L == Len(levels)
           X == AnyField(levels)
           A == Seq(Seq(X))
           longer(s, n) == FlattenSeq([i \in DOMAIN s |->
                              [j \in DOMAIN levels[n].defs |-> Append(s[i], levels[n].defs[j])]])
           F == [n \in 1 .. L |-> [s \in A |-> longer(s, n)]]
           c == CHOOSE f : Branches(f, levels)
<1>1. L \in Nat /\ DOMAIN levels = 1 .. L
  BY LenProperties DEF Tree
<1>2. ASSUME NEW n \in 1 .. L
      PROVE  levels[n].defs \in Seq(ToSet(levels[n].defs)) /\ ToSet(levels[n].defs) \subseteq X
  BY <1>1 DEF Tree, AnyField
<1>3. ASSUME NEW n \in 1 .. L, NEW Y, NEW Z, NEW s \in Seq(Y),
             \A y \in Y, e \in ToSet(levels[n].defs) : Append(y, e) \in Z
      PROVE  longer(s, n) \in Seq(Z)
  <2> DEFINE d == levels[n].defs
             D == ToSet(d)
  <2>1. d \in Seq(D) /\ \A y \in Y, e \in D : Append(y, e) \in Z
    BY <1>2, <1>3
  <2> HIDE DEF d, D
  <2>2. FlattenSeq([i \in DOMAIN s |-> [j \in DOMAIN d |-> Append(s[i], d[j])]]) \in Seq(Z)
    BY <2>1, LongerPaths
  <2>3. QED
    BY <2>2 DEF d
<1>4. \E g : Branches(g, levels)
  <2>1. Stay(F, L, A)
    <3> SUFFICES ASSUME NEW n \in 1 .. L, NEW s \in A PROVE longer(s, n) \in A
      BY DEF Stay
    <3> HIDE DEF longer, L
    <3>1. \A y \in Seq(X), e \in ToSet(levels[n].defs) : Append(y, e) \in Seq(X)
      BY <1>2, AppendProperties
    <3>2. QED
      BY <3>1, <1>3
  <2>2. << << >> >> \in A
    OBVIOUS
  <2>3. PICK g : Run(g, << << >> >>, F, L, A)
    <3> HIDE DEF F, A, L
    <3>1. QED
      BY <2>1, <2>2, <1>1, StepsExist
  <2>4. g \in [0 .. L -> A] /\ g[0] = << << >> >> /\ \A n \in 1 .. L : g[n] = F[n][g[n - 1]]
    BY <2>3 DEF Run
  <2> HIDE DEF longer, A, L
  <2>5. ASSUME NEW n \in 0 .. L
        PROVE g[n] = IF n = 0 THEN << << >> >> ELSE longer(g[n - 1], n)
    <3>1. CASE n = 0
      BY <2>4, <3>1
    <3>2. CASE n # 0
      <4> DEFINE j == n - 1
      <4>1. n \in 1 .. L /\ j \in 0 .. L
        BY <3>2, <1>1
      <4>2. g[j] \in A /\ g[n] = F[n][g[j]]
        BY <4>1, <2>4
      <4>3. F[n][g[j]] = longer(g[j], n)
        BY <4>1, <4>2
      <4>4. QED
        BY <4>2, <4>3, <3>2
    <3>3. QED
      BY <3>1, <3>2
  <2>6. Branches(g, levels)
    <3>1. g = [n \in 0 .. L |-> g[n]]
      BY <2>4
    <3>2. g = [n \in 0 .. L |-> IF n = 0 THEN << << >> >> ELSE longer(g[n - 1], n)]
      BY <3>1, <2>5
    <3>3. QED
      BY <3>2 DEF Branches, longer, L
  <2>7. QED
    BY <2>6
<1>5. Branches(c, levels)
  BY <1>4
<1>6. Paths(levels) = c[L]
  BY PathsDef
<1> HIDE DEF c, longer, L
<1>7. c = [n \in 0 .. L |-> IF n = 0 THEN << << >> >> ELSE longer(c[n - 1], n)]
  BY <1>5 DEF Branches, longer, L
<1>8. \A n \in 0 .. L : c[n] = IF n = 0 THEN << << >> >> ELSE longer(c[n - 1], n)
  BY <1>7
<1> DEFINE P(n) == c[n] \in Seq(Ways(levels, n))
           G == {n \in Nat : n <= L => P(n)}
<1>9. 0 \in G
  <2>1. << >> \in Ways(levels, 0)
    BY DEF Ways
  <2>2. c[0] = << << >> >>
    <3>1. 0 \in 0 .. L
      BY <1>1
    <3>2. QED
      BY <3>1, <1>8
  <2>3. << << >> >> \in Seq(Ways(levels, 0))
    BY <2>1
  <2>4. QED
    BY <2>2, <2>3
<1>10. ASSUME NEW n \in G PROVE n + 1 \in G
  <2> SUFFICES ASSUME n + 1 <= L PROVE P(n + 1)
    OBVIOUS
  <2> DEFINE m == n + 1
  <2>1. n \in Nat /\ P(n) /\ m \in 1 .. L /\ m \in 0 .. L /\ m # 0 /\ m - 1 = n
    BY <1>1
  <2>2. c[m] = longer(c[m - 1], m)
    BY <2>1, <1>8
  <2>3. \A y \in Ways(levels, n), e \in ToSet(levels[m].defs) : Append(y, e) \in Ways(levels, m)
    <3> SUFFICES ASSUME NEW y \in Ways(levels, n), NEW e \in ToSet(levels[m].defs)
                 PROVE  Append(y, e) \in Ways(levels, m)
      OBVIOUS
    <3>1. y \in Seq(X) /\ Len(y) = n /\ \A i \in 1 .. n : y[i] \in ToSet(levels[i].defs)
      BY DEF Ways
    <3>2. e \in X
      BY <2>1, <1>2
    <3> HIDE DEF X
    <3>3. /\ Append(y, e) \in Seq(X) /\ Len(Append(y, e)) = m
          /\ \A i \in 1 .. n : Append(y, e)[i] = y[i]
          /\ Append(y, e)[m] = e
      BY <3>1, <3>2, AppendProperties
    <3>4. ASSUME NEW i \in 1 .. m PROVE Append(y, e)[i] \in ToSet(levels[i].defs)
      <4>1. i \in 1 .. n \/ i = m
        BY <2>1
      <4>2. QED
        BY <4>1, <3>1, <3>3
    <3>5. QED
      BY <3>3, <3>4 DEF Ways, X
  <2>4. c[n] \in Seq(Ways(levels, n))
    BY <2>1
  <2> HIDE DEF m
  <2>5. longer(c[n], m) \in Seq(Ways(levels, m))
    BY <2>1, <2>3, <2>4, <1>3
  <2>6. QED
    BY <2>1, <2>2, <2>5 DEF m
<1>11. \A n \in Nat : n \in G
  <2>1. G \subseteq Nat
    OBVIOUS
  <2> HIDE DEF G
  <2>2. QED
    BY <2>1, <1>9, <1>10, AllNumbers
<1>12. \A n \in 0 .. L : P(n)
  BY <1>1, <1>11
<1>13. c[0] = << << >> >>
  <2>1. 0 \in 0 .. L
    BY <1>1
  <2>2. QED
    BY <2>1, <1>8
<1>14. \A n \in 1 .. L : c[n] = Longer(c[n - 1], levels[n].defs)
  <2>1. \A n \in 1 .. L : n \in 0 .. L /\ n # 0
    BY <1>1
  <2>2. \A n \in 1 .. L : c[n] = longer(c[n - 1], n)
    BY <2>1, <1>8
  <2>3. QED
    BY <2>2 DEF longer, Longer
<1>15. QED
  BY <1>6, <1>12, <1>13, <1>14 DEF L

\* Paths are lists of one definition of each level.
LEMMA PathsAreWays ==
    ASSUME NEW levels, Tree(levels)
    PROVE  Paths(levels) \in Seq(Ways(levels, Len(levels)))
<1>1. Len(levels) \in 0 .. Len(levels)
  BY LenProperties DEF Tree
<1>2. QED
  BY <1>1, PathsSteps

\* Every list of one definition of each level is a path.
LEMMA WaysArePaths ==
    ASSUME NEW levels, Tree(levels), NEW w \in Ways(levels, Len(levels))
    PROVE  \E i \in DOMAIN Paths(levels) : Paths(levels)[i] = w
<1> DEFINE L == Len(levels)
<1>1. L \in Nat /\ DOMAIN levels = 1 .. L
  BY LenProperties DEF Tree
<1>2. PICK c : /\ c[0] = << << >> >> /\ Paths(levels) = c[L]
               /\ \A n \in 0 .. L : c[n] \in Seq(Ways(levels, n))
               /\ \A n \in 1 .. L : c[n] = Longer(c[n - 1], levels[n].defs)
  BY PathsSteps
<1>3. /\ w \in Seq(AnyField(levels)) /\ Len(w) = L
      /\ \A i \in 1 .. L : w[i] \in ToSet(levels[i].defs)
  BY DEF Ways
<1> HIDE DEF L
<1> DEFINE head(n) == SubSeq(w, 1, n)
           P(n) == head(n) \in ToSet(c[n])
           G == {n \in Nat : n <= L => P(n)}
<1>4. 0 \in G
  <2>1. head(0) = << >>
    BY <1>3
  <2>2. ToSet(c[0]) = {<< >>}
    BY <1>2 DEF ToSet
  <2>3. QED
    BY <2>1, <2>2
<1>5. ASSUME NEW n \in G PROVE n + 1 \in G
  <2> SUFFICES ASSUME n + 1 <= L PROVE P(n + 1)
    OBVIOUS
  <2> DEFINE m == n + 1
             s == c[n]
             d == levels[m].defs
             X == Seq(AnyField(levels))
  <2>1. n \in Nat /\ head(n) \in ToSet(s) /\ m \in 1 .. L /\ n \in 0 .. L /\ m - 1 = n
    BY <1>1
  <2>2. c[m] = Longer(c[m - 1], d)
    BY <2>1, <1>2
  <2>3. c[m] = Longer(s, d) /\ s \in Seq(X)
    <3>1. s \in Seq(Ways(levels, n)) /\ Ways(levels, n) \subseteq X
      BY <2>1, <1>2 DEF Ways
    <3>2. QED
      BY <3>1, <2>1, <2>2, SeqMonotonic
  <2>4. d \in Seq(ToSet(d)) /\ ToSet(d) \subseteq AnyField(levels)
    BY <2>1, <1>1 DEF Tree, AnyField
  <2>5. w[m] \in ToSet(d)
    BY <2>1, <1>3
  <2>6. head(m) = Append(head(n), w[m])
    BY <2>1, <1>1, <1>3
  <2> HIDE DEF head, m, d, X
  <2>7. \A i \in DOMAIN s : s[i] \in X
    BY <2>3, LenProperties, ElementOfSeq
  <2>8. PICK i \in DOMAIN s : head(n) = s[i]
    BY <2>1 DEF ToSet
  <2>9. PICK j \in DOMAIN d : w[m] = d[j]
    BY <2>5 DEF ToSet
  <2> DEFINE b == [k \in DOMAIN s |-> [l \in DOMAIN d |-> Append(s[k], d[l])]]
  <2>10. b \in Seq(Seq(X))
    <3>1. /\ Len(s) \in Nat /\ DOMAIN s = 1 .. Len(s)
          /\ Len(d) \in Nat /\ DOMAIN d = 1 .. Len(d) /\ \A l \in DOMAIN d : d[l] \in ToSet(d)
      BY <2>3, <2>4, LenProperties, ElementOfSeq
    <3>2. ASSUME NEW k \in DOMAIN s, NEW l \in DOMAIN d PROVE Append(s[k], d[l]) \in X
      <4>1. s[k] \in Seq(AnyField(levels)) /\ d[l] \in AnyField(levels)
        BY <3>1, <2>4, <2>7 DEF X
      <4>2. QED
        BY <4>1, AppendProperties DEF X
    <3>3. \A k \in 1 .. Len(s) : [l \in 1 .. Len(d) |-> Append(s[k], d[l])] \in Seq(X)
      BY <3>1, <3>2
    <3>4. QED
      BY <3>1, <3>3
  <2>11. c[m] = FlattenSeq(b)
    BY <2>3 DEF Longer
  <2>12. b[i][j] = head(m) /\ j \in DOMAIN b[i] /\ i \in DOMAIN b
    BY <2>6, <2>8, <2>9
  <2> HIDE DEF b
  <2>13. ToSet(c[m]) = UNION {ToSet(b[k]) : k \in DOMAIN b}
    BY <2>10, <2>11, FlattenElements
  <2>14. head(m) \in ToSet(b[i])
    BY <2>12 DEF ToSet
  <2>15. head(m) \in ToSet(c[m])
    BY <2>12, <2>13, <2>14
  <2>16. QED
    BY <2>15 DEF m
<1>6. L \in G
  <2>1. G \subseteq Nat
    OBVIOUS
  <2> HIDE DEF G
  <2>2. QED
    BY <2>1, <1>1, <1>4, <1>5, AllNumbers
<1>7. head(L) = w
  BY <1>3, SubSeqFull
<1> HIDE DEF head
<1>8. w \in ToSet(c[L])
  BY <1>1, <1>6, <1>7
<1>9. QED
  BY <1>2, <1>8 DEF ToSet

\* The names of the fields on a way.
LEMMA NamesOfWay ==
    ASSUME NEW levels, Tree(levels), NEW path \in Ways(levels, Len(levels))
    PROVE  WayTo(levels, get_names(path))
<1> DEFINE L == Len(levels)
<1>1. L \in Nat /\ DOMAIN levels = 1 .. L
  BY LenProperties DEF Tree
<1>2. /\ path \in Seq(AnyField(levels)) /\ Len(path) = L
      /\ \A i \in 1 .. L : path[i] \in ToSet(levels[i].defs)
  BY DEF Ways
<1>3. DOMAIN path = 1 .. L
  BY <1>2, LenProperties
<1>4. get_names(path) = [i \in 1 .. L |-> path[i].name]
  BY <1>3 DEF get_names
<1>5. ASSUME NEW i \in 1 .. L PROVE path[i].name \in FieldNames(levels, i)
  <2>1. PICK j \in DOMAIN levels[i].defs : path[i] = levels[i].defs[j]
    BY <1>2 DEF ToSet
  <2>2. /\ get_names(levels[i].defs)[j] = path[i].name
        /\ DOMAIN get_names(levels[i].defs) = DOMAIN levels[i].defs
    BY <2>1 DEF get_names
  <2>3. QED
    BY <2>2 DEF FieldNames, ToSet
<1>6. QED
  BY <1>1, <1>4, <1>5 DEF WayTo

\* built is the function by which From makes the leaves.
Makes(built, levels, v) ==
    built = [n \in 0 .. Len(Paths(levels)) |->
                IF n = 0 THEN [vec |-> v, leaves |-> << >>, ok |-> TRUE]
                ELSE FromLeaf(levels, Paths(levels)[n], built[n - 1])]

\* From in terms of that function.
LEMMA FromDef ==
    ASSUME NEW levels, NEW v
    PROVE  From(levels, v) = (CHOOSE f : Makes(f, levels, v))[Len(Paths(levels))]
BY DEF From, Makes

\* The leaves are made one after the other.
LEMMA FromSteps ==
    ASSUME NEW levels, NEW v, Len(Paths(levels)) \in Nat
    PROVE  \E g : /\ g[0] = [vec |-> v, leaves |-> << >>, ok |-> TRUE]
                  /\ From(levels, v) = g[Len(Paths(levels))]
                  /\ \A n \in 1 .. Len(Paths(levels)) :
                        g[n] = FromLeaf(levels, Paths(levels)[n], g[n - 1])
<1> DEFINE N == Len(Paths(levels))
           a == [vec |-> v, leaves |-> << >>, ok |-> TRUE]
           step(n, x) == FromLeaf(levels, Paths(levels)[n], x)
           c == CHOOSE f : Makes(f, levels, v)
           Goes(g, n) == g = [i \in 0 .. n |-> IF i = 0 THEN a ELSE step(i, g[i - 1])]
           G == {n \in Nat : \E g : Goes(g, n)}
<1> HIDE DEF a, step
<1>1. 0 \in G
  <2> DEFINE g == [i \in 0 .. 0 |-> a]
  <2>1. Goes(g, 0)
    OBVIOUS
  <2>2. QED
    BY <2>1
<1>2. ASSUME NEW n \in G PROVE n + 1 \in G
  <2>1. PICK g : Goes(g, n)
    OBVIOUS
  <2> DEFINE m == n + 1
             h == [i \in 0 .. m |-> IF i = m THEN step(m, g[n]) ELSE g[i]]
  <2>2. n \in Nat /\ m \in Nat /\ m # 0 /\ m - 1 = n
    OBVIOUS
  <2>3. \A i \in 0 .. n : g[i] = IF i = 0 THEN a ELSE step(i, g[i - 1])
    BY <2>1
  <2>4. ASSUME NEW i \in 0 .. m PROVE h[i] = IF i = 0 THEN a ELSE step(i, h[i - 1])
    <3>1. CASE i = m
      <4>1. n \in 0 .. m /\ n # m
        BY <2>2
      <4>2. h[n] = g[n] /\ h[m] = step(m, g[n])
        BY <4>1, <2>2
      <4>3. h[m - 1] = g[n]
        BY <4>2, <2>2
      <4> HIDE DEF h, m
      <4>4. QED
        BY <3>1, <4>2, <4>3, <2>2
    <3>2. CASE i # m
      <4>1. i \in 0 .. n /\ (i # 0 => i - 1 \in 0 .. m /\ i - 1 # m)
        BY <3>2, <2>2
      <4>2. h[i] = g[i] /\ (i # 0 => h[i - 1] = g[i - 1])
        BY <4>1, <3>2
      <4> HIDE DEF h, m
      <4>3. QED
        BY <4>1, <4>2, <2>3
    <3>3. QED
      BY <3>1, <3>2
  <2>5. h = [i \in 0 .. m |-> h[i]]
    OBVIOUS
  <2> HIDE DEF h
  <2>6. Goes(h, m)
    BY <2>4, <2>5
  <2>7. QED
    BY <2>2, <2>6
<1>3. N \in G
  <2>1. G \subseteq Nat
    OBVIOUS
  <2> HIDE DEF G
  <2>2. QED
    BY <2>1, <1>1, <1>2, AllNumbers
<1>4. \E g : Goes(g, N)
  BY <1>3
<1>5. \A g : Makes(g, levels, v) <=> Goes(g, N)
  BY DEF Makes, a, step
<1>6. Goes(c, N)
  BY <1>4, <1>5
<1>7. From(levels, v) = c[N]
  BY FromDef
<1> HIDE DEF c, N
<1>8. \A n \in 0 .. N : c[n] = IF n = 0 THEN a ELSE step(n, c[n - 1])
  BY <1>6
<1>9. N \in Nat
  BY DEF N
<1>10. c[0] = a
  <2>1. 0 \in 0 .. N
    BY <1>9
  <2>2. QED
    BY <2>1, <1>8
<1>11. \A n \in 1 .. N : c[n] = step(n, c[n - 1])
  <2>1. \A n \in 1 .. N : n \in 0 .. N /\ n # 0
    BY <1>9
  <2>2. QED
    BY <2>1, <1>8
<1>12. QED
  BY <1>7, <1>10, <1>11 DEF a, step, N

\* A root has a leaf at the end of every way, and nothing else.
Rooted(levels, leaves) ==
    /\ DOMAIN leaves = {get_names(Paths(levels)[i]) : i \in DOMAIN Paths(levels)}
    /\ \A p \in DOMAIN leaves : "held" \in DOMAIN leaves[p]

\* If no leaf panics, from makes a leaf for every way, and nothing else.
LEMMA FromRooted ==
    ASSUME NEW levels, Tree(levels), NEW v, From(levels, v).ok
    PROVE  Rooted(levels, From(levels, v).leaves)
<1> DEFINE paths == Paths(levels)
           N == Len(paths)
           names(n) == get_names(paths[n])
<1>1. N \in Nat /\ DOMAIN paths = 1 .. N
  BY PathsAreWays, LenProperties
<1>2. PICK g : /\ g[0] = [vec |-> v, leaves |-> << >>, ok |-> TRUE]
               /\ From(levels, v) = g[N]
               /\ \A n \in 1 .. N : g[n] = FromLeaf(levels, paths[n], g[n - 1])
  BY <1>1, FromSteps
<1> DEFINE P(n) == /\ DOMAIN g[n] = {"vec", "leaves", "ok"}
                   /\ g[n].ok => /\ DOMAIN g[n].leaves = {names(i) : i \in 1 .. n}
                                 /\ \A p \in DOMAIN g[n].leaves : "held" \in DOMAIN g[n].leaves[p]
           G == {n \in Nat : n <= N => P(n)}
<1> HIDE DEF paths, N
<1>3. 0 \in G
  <2>1. DOMAIN g[0] = {"vec", "leaves", "ok"} /\ g[0].leaves = << >>
    BY <1>2
  <2>2. DOMAIN g[0].leaves = {}
    BY <2>1
  <2>3. {names(i) : i \in 1 .. 0} = {}
    OBVIOUS
  <2> HIDE DEF names
  <2>4. QED
    BY <2>1, <2>2, <2>3
<1>4. ASSUME NEW n \in G PROVE n + 1 \in G
  <2> SUFFICES ASSUME n + 1 <= N PROVE P(n + 1)
    OBVIOUS
  <2> DEFINE m == n + 1
             x == g[n]
             child == GetMetricWith(x.vec, LabelMap(levels, paths[m]))
             leaf == [key |-> child.v.key, held |-> 0]
  <2>1. n \in Nat /\ P(n) /\ m \in 1 .. N /\ m - 1 = n
    BY <1>1
  <2>2. g[m] = FromLeaf(levels, paths[m], x)
    <3>1. g[m] = FromLeaf(levels, paths[m], g[m - 1])
      BY <2>1, <1>2
    <3>2. QED
      BY <3>1, <2>1
  <2>3. g[m] = IF ~x.ok THEN x
               ELSE IF ~child.ok THEN [x EXCEPT !.ok = FALSE]
               ELSE [x EXCEPT !.vec = child.v.vec,
                              !.leaves = With(@, names(m), leaf)]
    BY <2>2 DEF FromLeaf
  <2>4. DOMAIN x = {"vec", "leaves", "ok"}
    BY <2>1
  <2> HIDE DEF child, leaf
  <2>5. CASE ~x.ok
    BY <2>3, <2>4, <2>5
  <2>6. CASE x.ok /\ ~child.ok
    <3>1. g[m] = [x EXCEPT !.ok = FALSE]
      BY <2>3, <2>6
    <3>2. DOMAIN g[m] = {"vec", "leaves", "ok"} /\ ~g[m].ok
      BY <3>1, <2>4
    <3>3. QED
      BY <3>2
  <2>7. CASE x.ok /\ child.ok
    <3>1. g[m] = [x EXCEPT !.vec = child.v.vec, !.leaves = With(@, names(m), leaf)]
      BY <2>3, <2>7
    <3> DEFINE l == With(x.leaves, names(m), leaf)
    <3>2. DOMAIN g[m] = {"vec", "leaves", "ok"} /\ g[m].leaves = l
      <4> HIDE DEF l
      <4>1. g[m] = [x EXCEPT !.vec = child.v.vec, !.leaves = l]
        BY <3>1 DEF l
      <4> HIDE DEF x, m
      <4>2. QED
        BY <4>1, <2>4
    <3>3. /\ DOMAIN x.leaves = {names(i) : i \in 1 .. n}
          /\ \A p \in DOMAIN x.leaves : "held" \in DOMAIN x.leaves[p]
      BY <2>1, <2>7
    <3> HIDE DEF x, m, names
    <3>4. DOMAIN l = DOMAIN x.leaves \cup {names(m)}
      BY DEF With
    <3>5. {names(i) : i \in 1 .. m} = {names(i) : i \in 1 .. n} \cup {names(m)}
      <4>1. 1 .. m = (1 .. n) \cup {m}
        BY <2>1
      <4> HIDE DEF names
      <4>2. QED
        BY <4>1
    <3>6. ASSUME NEW p \in DOMAIN l PROVE "held" \in DOMAIN l[p]
      <4>1. l[p] = IF p = names(m) THEN leaf ELSE x.leaves[p]
        BY <3>4 DEF With
      <4>2. "held" \in DOMAIN leaf
        BY DEF leaf
      <4> HIDE DEF l
      <4>3. QED
        BY <4>1, <4>2, <3>3, <3>4
    <3> HIDE DEF l
    <3>7. P(m)
      BY <3>2, <3>3, <3>4, <3>5, <3>6
    <3>8. QED
      BY <3>7 DEF m
  <2>8. QED
    BY <2>5, <2>6, <2>7
<1>5. N \in G
  <2>1. G \subseteq Nat
    OBVIOUS
  <2> HIDE DEF G
  <2>2. QED
    BY <2>1, <1>1, <1>3, <1>4, AllNumbers
<1>6. P(N)
  BY <1>1, <1>5
<1> HIDE DEF names
<1>7. QED
  BY <1>1, <1>2, <1>6 DEF Rooted, names, paths

\* flushed is the function by which FlushTree visits the leaves.
Visits(flushed, paths, acc) ==
    flushed = [n \in 0 .. Len(paths) |->
                  IF n = 0 THEN acc ELSE FlushLeaf(flushed[n - 1], get_names(paths[n]))]

\* FlushTree in terms of that function.
LEMMA FlushDef ==
    ASSUME NEW paths, NEW acc
    PROVE  FlushTree(paths, acc) = (CHOOSE f : Visits(f, paths, acc))[Len(paths)]
BY DEF FlushTree, Visits

\* The leaves are flushed one after the other.
LEMMA FlushSteps ==
    ASSUME NEW paths, NEW acc, Len(paths) \in Nat
    PROVE  \E g : /\ g[0] = acc
                  /\ FlushTree(paths, acc) = g[Len(paths)]
                  /\ \A n \in 1 .. Len(paths) : g[n] = FlushLeaf(g[n - 1], get_names(paths[n]))
<1> DEFINE N == Len(paths)
           step(n, x) == FlushLeaf(x, get_names(paths[n]))
           c == CHOOSE f : Visits(f, paths, acc)
           Goes(g, n) == g = [i \in 0 .. n |-> IF i = 0 THEN acc ELSE step(i, g[i - 1])]
           G == {n \in Nat : \E g : Goes(g, n)}
<1> HIDE DEF step
<1>1. 0 \in G
  <2> DEFINE g == [i \in 0 .. 0 |-> acc]
  <2>1. Goes(g, 0)
    OBVIOUS
  <2>2. QED
    BY <2>1
<1>2. ASSUME NEW n \in G PROVE n + 1 \in G
  <2>1. PICK g : Goes(g, n)
    OBVIOUS
  <2> DEFINE m == n + 1
             h == [i \in 0 .. m |-> IF i = m THEN step(m, g[n]) ELSE g[i]]
  <2>2. n \in Nat /\ m \in Nat /\ m # 0 /\ m - 1 = n
    OBVIOUS
  <2>3. \A i \in 0 .. n : g[i] = IF i = 0 THEN acc ELSE step(i, g[i - 1])
    BY <2>1
  <2>4. ASSUME NEW i \in 0 .. m PROVE h[i] = IF i = 0 THEN acc ELSE step(i, h[i - 1])
    <3>1. CASE i = m
      <4>1. n \in 0 .. m /\ n # m
        BY <2>2
      <4>2. h[n] = g[n] /\ h[m] = step(m, g[n])
        BY <4>1, <2>2
      <4>3. h[m - 1] = g[n]
        BY <4>2, <2>2
      <4> HIDE DEF h, m
      <4>4. QED
        BY <3>1, <4>2, <4>3, <2>2
    <3>2. CASE i # m
      <4>1. i \in 0 .. n /\ (i # 0 => i - 1 \in 0 .. m /\ i - 1 # m)
        BY <3>2, <2>2
      <4>2. h[i] = g[i] /\ (i # 0 => h[i - 1] = g[i - 1])
        BY <4>1, <3>2
      <4> HIDE DEF h, m
      <4>3. QED
        BY <4>1, <4>2, <2>3
    <3>3. QED
      BY <3>1, <3>2
  <2>5. h = [i \in 0 .. m |-> h[i]]
    OBVIOUS
  <2> HIDE DEF h
  <2>6. Goes(h, m)
    BY <2>4, <2>5
  <2>7. QED
    BY <2>2, <2>6
<1>3. N \in G
  <2>1. G \subseteq Nat
    OBVIOUS
  <2> HIDE DEF G
  <2>2. QED
    BY <2>1, <1>1, <1>2, AllNumbers
<1>4. \E g : Goes(g, N)
  BY <1>3
<1>5. \A g : Visits(g, paths, acc) <=> Goes(g, N)
  BY DEF Visits, step
<1>6. Goes(c, N)
  BY <1>4, <1>5
<1>7. FlushTree(paths, acc) = c[N]
  BY FlushDef
<1> HIDE DEF c, N
<1>8. \A n \in 0 .. N : c[n] = IF n = 0 THEN acc ELSE step(n, c[n - 1])
  BY <1>6
<1>9. N \in Nat
  BY DEF N
<1>10. c[0] = acc
  <2>1. 0 \in 0 .. N
    BY <1>9
  <2>2. QED
    BY <2>1, <1>8
<1>11. \A n \in 1 .. N : c[n] = step(n, c[n - 1])
  <2>1. \A n \in 1 .. N : n \in 0 .. N /\ n # 0
    BY <1>9
  <2>2. QED
    BY <2>1, <1>8
<1>12. QED
  BY <1>7, <1>10, <1>11 DEF step, N

\* A flush leaves nothing in any leaf, and every leaf where it was.
LEMMA FlushEmpties ==
    ASSUME NEW levels, Tree(levels), NEW leaves, Rooted(levels, leaves), NEW v
    PROVE  LET done == FlushTree(Paths(levels), [vec |-> v, leaves |-> leaves]).leaves
           IN  Rooted(levels, done) /\ \A p \in DOMAIN done : done[p].held = 0
<1> DEFINE paths == Paths(levels)
           N == Len(paths)
           names(n) == get_names(paths[n])
           acc == [vec |-> v, leaves |-> leaves]
<1>1. N \in Nat /\ DOMAIN paths = 1 .. N
  BY PathsAreWays, LenProperties
<1>2. PICK g : /\ g[0] = acc
               /\ FlushTree(paths, acc) = g[N]
               /\ \A n \in 1 .. N : g[n] = FlushLeaf(g[n - 1], names(n))
  BY <1>1, FlushSteps
<1>3. /\ DOMAIN leaves = {names(i) : i \in 1 .. N}
      /\ \A p \in DOMAIN leaves : "held" \in DOMAIN leaves[p]
  BY <1>1 DEF Rooted
<1> DEFINE P(n) == /\ DOMAIN g[n].leaves = DOMAIN leaves
                   /\ \A p \in DOMAIN leaves : "held" \in DOMAIN g[n].leaves[p]
                   /\ \A i \in 1 .. n : g[n].leaves[names(i)].held = 0
           G == {n \in Nat : n <= N => P(n)}
<1> HIDE DEF paths, N, names
<1>4. 0 \in G
  <2>1. g[0].leaves = leaves
    BY <1>2
  <2>2. QED
    BY <2>1, <1>3
<1>5. ASSUME NEW n \in G PROVE n + 1 \in G
  <2> SUFFICES ASSUME n + 1 <= N PROVE P(n + 1)
    OBVIOUS
  <2> DEFINE m == n + 1
             x == g[n].leaves
             y == g[m].leaves
  <2>1. n \in Nat /\ P(n) /\ m \in 1 .. N /\ m - 1 = n
    BY <1>1
  <2>2. g[m] = FlushLeaf(g[n], names(m))
    <3>1. g[m] = FlushLeaf(g[m - 1], names(m))
      BY <2>1, <1>2
    <3>2. QED
      BY <3>1, <2>1
  <2>3. y = [x EXCEPT ![names(m)].held = 0]
    BY <2>2 DEF FlushLeaf
  <2>4. /\ DOMAIN x = DOMAIN leaves
        /\ \A p \in DOMAIN leaves : "held" \in DOMAIN x[p]
        /\ \A i \in 1 .. n : x[names(i)].held = 0
    BY <2>1
  <2>5. names(m) \in DOMAIN leaves
    BY <2>1, <1>3
  <2> HIDE DEF x, y
  <2>6. DOMAIN y = DOMAIN leaves
    BY <2>3, <2>4
  <2>7. ASSUME NEW p \in DOMAIN leaves
        PROVE  /\ "held" \in DOMAIN y[p]
               /\ y[p].held = IF p = names(m) THEN 0 ELSE x[p].held
    BY <2>3, <2>4
  <2>8. ASSUME NEW i \in 1 .. m PROVE y[names(i)].held = 0
    <3>1. names(i) \in DOMAIN leaves
      <4>1. i \in 1 .. N
        BY <1>1, <2>1
      <4>2. QED
        BY <4>1, <1>3
    <3>2. i = m \/ i \in 1 .. n
      BY <2>1
    <3>3. QED
      BY <3>1, <3>2, <2>4, <2>7
  <2>9. P(m)
    BY <2>6, <2>7, <2>8 DEF y
  <2>10. QED
    BY <2>9
<1>6. N \in G
  <2>1. G \subseteq Nat
    OBVIOUS
  <2> HIDE DEF G
  <2>2. QED
    BY <2>1, <1>1, <1>4, <1>5, AllNumbers
<1>7. P(N)
  BY <1>1, <1>6
<1> DEFINE done == FlushTree(paths, acc).leaves
<1>8. done = g[N].leaves
  BY <1>2
<1>9. DOMAIN done = DOMAIN leaves /\ \A p \in DOMAIN done : "held" \in DOMAIN done[p]
  BY <1>7, <1>8
<1>10. \A p \in DOMAIN done : done[p].held = 0
  BY <1>3, <1>7, <1>8, <1>9
<1> HIDE DEF done
<1>11. Rooted(levels, done)
  BY <1>9 DEF Rooted
<1>12. QED
  BY <1>10, <1>11 DEF done, paths

-----------------------------------------------------------------------------
(***************************************************************************)
(* The metrics that the macros generate.                                    *)
(***************************************************************************)
\* A function on 1 .. n is a list.
LEMMA ListOf == ASSUME NEW n \in Nat, NEW f, f = [i \in 1 .. n |-> f[i]] PROVE List(f)
<1>1. \A i \in 1 .. n : f[i] \in ToSet(f)
  BY DEF ToSet
<1>2. f \in [1 .. n -> ToSet(f)]
  BY <1>1
<1>3. QED
  BY <1>2, SequenceOf DEF List

\* The metrics so far are each of a scope of its own, below the next one.
Scoped(scope, metrics) ==
    /\ scope \in Nat
    /\ List(metrics)
    /\ \A i \in DOMAIN metrics :
        /\ metrics[i].scope \in Nat /\ metrics[i].scope < scope
        /\ Tree(metrics[i].levels)
    /\ \A i, j \in DOMAIN metrics : i # j => metrics[i].scope # metrics[j].scope

\* What the items so far have made.
Good(acc) ==
    /\ DOMAIN acc = {"enums", "scope", "metrics", "error"}
    /\ \A e \in DOMAIN acc.enums : List(acc.enums[e].definitions)
    /\ Scoped(acc.scope, acc.metrics)

\* A metric in the next scope is in a scope of its own.
LEMMA OneMore ==
    ASSUME NEW scope, NEW metrics, Scoped(scope, metrics),
           NEW m, m.scope = scope, Tree(m.levels)
    PROVE  Scoped(NextScope(scope), Append(metrics, m))
<1> DEFINE n == Len(metrics)
           S == ToSet(metrics) \cup {m}
           all == Append(metrics, m)
<1>1. metrics \in Seq(ToSet(metrics)) /\ n \in Nat /\ DOMAIN metrics = 1 .. n
  BY LenProperties DEF Scoped, List
<1>2. metrics \in Seq(S) /\ m \in S
  <2>1. \A i \in 1 .. n : metrics[i] \in S
    BY <1>1 DEF ToSet
  <2>2. metrics \in [1 .. n -> S]
    BY <1>1, <2>1
  <2>3. QED
    BY <1>1, <2>2, SequenceOf
<1> HIDE DEF S
<1>3. /\ all \in Seq(S) /\ Len(all) = n + 1
      /\ \A i \in 1 .. n : all[i] = metrics[i]
      /\ all[n + 1] = m
  BY <1>1, <1>2, AppendProperties
<1> HIDE DEF all, n
<1>4. n + 1 \in Nat /\ DOMAIN all = 1 .. (n + 1) /\ all = [i \in 1 .. (n + 1) |-> all[i]]
  BY <1>1, <1>3, LenProperties
<1>5. List(all)
  BY <1>4, ListOf
<1>6. scope \in Nat /\ NextScope(scope) = scope + 1
  BY DEF Scoped, NextScope
<1>7. ASSUME NEW i \in DOMAIN all
      PROVE  /\ all[i].scope \in Nat /\ all[i].scope < NextScope(scope)
             /\ Tree(all[i].levels)
             /\ i # n + 1 => i \in DOMAIN metrics /\ all[i] = metrics[i]
                             /\ all[i].scope < scope
  <2>1. CASE i = n + 1
    BY <2>1, <1>3, <1>6
  <2>2. CASE i # n + 1
    <3>1. i \in 1 .. n
      BY <1>1, <1>4, <2>2
    <3>2. metrics[i].scope \in Nat /\ metrics[i].scope < scope /\ Tree(metrics[i].levels)
      BY <1>1, <3>1 DEF Scoped
    <3>3. QED
      BY <1>1, <1>3, <1>6, <3>1, <3>2
  <2>3. QED
    BY <2>1, <2>2
<1>8. ASSUME NEW i \in DOMAIN all, NEW j \in DOMAIN all, i # j
      PROVE  all[i].scope # all[j].scope
  <2>1. CASE i = n + 1
    BY <2>1, <1>3, <1>6, <1>7, <1>8
  <2>2. CASE j = n + 1
    BY <2>2, <1>3, <1>6, <1>7, <1>8
  <2>3. CASE i # n + 1 /\ j # n + 1
    BY <2>3, <1>7, <1>8 DEF Scoped
  <2>4. QED
    BY <2>1, <2>2, <2>3
<1>9. NextScope(scope) \in Nat
  BY <1>6
<1>10. QED
  BY <1>5, <1>7, <1>8, <1>9 DEF Scoped, all

\* The definitions of an enum or of a label are a list.
LEMMA ValueDefs == ASSUME NEW given \in Definitions PROVE List(MetricValueDefList(given))
<1>1. Len(given) \in Nat /\ DOMAIN given = 1 .. Len(given)
  BY LenProperties DEF Definitions
<1> DEFINE f == MetricValueDefList(given)
<1>2. f = [i \in 1 .. Len(given) |-> MetricValueDef(given[i])]
  BY <1>1 DEF MetricValueDefList
<1>3. f = [i \in 1 .. Len(given) |-> f[i]]
  BY <1>2
<1> HIDE DEF f
<1>4. QED
  BY <1>1, <1>3, ListOf DEF f

\* The enums that a metric names have been defined.
LEMMA EnumsChecked ==
    ASSUME NEW struct \in MetricDefs, NEW enums, CheckEnums(struct, enums) = "none",
           \A e \in DOMAIN enums : List(enums[e].definitions),
           NEW i \in DOMAIN struct.labels
    PROVE  List(get_value_def_list(struct.labels[i], enums))
<1>1. struct.labels[i] \in LabelDefs
  BY ElementOfSeq, LenProperties DEF MetricDefs
<1> DEFINE named == {get_enum_ident(struct.labels[j]) : j \in DOMAIN struct.labels} \ {"none"}
<1>2. named \subseteq DOMAIN enums
  BY DEF CheckEnums
<1>3. CASE struct.labels[i].enum = "none"
  BY <1>1, <1>3, ValueDefs DEF get_value_def_list, LabelDefs
<1>4. CASE struct.labels[i].enum # "none"
  <2>1. struct.labels[i].enum \in DOMAIN enums
    BY <1>2, <1>4 DEF get_enum_ident
  <2>2. QED
    BY <2>1, <1>4 DEF get_value_def_list
<1>5. QED
  BY <1>3, <1>4

\* A list of levels, each with a list of definitions, is a tree.
LEMMA MetricTree ==
    ASSUME NEW struct \in MetricDefs, NEW levels,
           levels = [i \in DOMAIN struct.labels |-> levels[i]],
           \A i \in DOMAIN struct.labels : List(levels[i].defs)
    PROVE  Tree(levels)
<1>1. Len(struct.labels) \in Nat /\ DOMAIN struct.labels = 1 .. Len(struct.labels)
  BY LenProperties DEF MetricDefs
<1>2. List(levels)
  BY <1>1, ListOf
<1>3. QED
  BY <1>2 DEF Tree, List

\* An item of a macro, whether it panics or not, keeps the metrics in scopes of their own.
LEMMA ItemGood ==
    ASSUME NEW auto_flush, NEW acc, Good(acc), NEW item \in EnumDefs \cup MetricDefs
    PROVE  Good(build_item(auto_flush, acc, item))
<1> DEFINE enums == acc.enums
           done == build_item(auto_flush, acc, item)
<1>1. CASE acc.error # "none"
  BY <1>1 DEF build_item
<1>2. CASE acc.error = "none" /\ item.item = "enum"
  <2>1. item \in EnumDefs
    BY <1>2 DEF EnumDefs, MetricDefs
  <2> DEFINE e == [public |-> item.public, definitions |-> MetricValueDefList(item.definitions)]
             new == With(enums, item.name, e)
  <2>2. done = [acc EXCEPT !.enums = new]
    BY <1>2 DEF build_item, build_label_enum
  <2>3. List(e.definitions)
    <3>1. item.definitions \in Definitions
      BY <2>1 DEF EnumDefs
    <3>2. QED
      BY <3>1, ValueDefs
  <2> HIDE DEF e
  <2>4. \A x \in DOMAIN new : List(new[x].definitions)
    BY <2>3 DEF With, Good
  <2> HIDE DEF new, done
  <2>5. /\ DOMAIN done = {"enums", "scope", "metrics", "error"}
        /\ done.enums = new /\ done.scope = acc.scope /\ done.metrics = acc.metrics
    BY <2>2 DEF Good
  <2>6. Good(done)
    BY <2>4, <2>5 DEF Good
  <2>7. QED
    BY <2>6 DEF done
<1>3. CASE acc.error = "none" /\ item.item # "enum"
  <2>1. item \in MetricDefs
    BY <1>3 DEF EnumDefs, MetricDefs
  <2> DEFINE plain == [i \in DOMAIN item.labels |-> MetricBuilderContext(item, enums, i)]
             auto == [i \in DOMAIN item.labels |-> AutoFlushContext(item, enums, i)]
             m(b, l) == [scope |-> acc.scope, type |-> item.type, auto_flush |-> b, levels |-> l]
             grown(b, l) == [acc EXCEPT !.scope = NextScope(@), !.metrics = Append(@, m(b, l))]
  <2>2. \/ \E x : done = [acc EXCEPT !.error = x]
        \/ CheckEnums(item, enums) = "none" /\ done = grown(FALSE, plain)
        \/ CheckEnums(item, enums) = "none" /\ done = grown(TRUE, auto)
    <3>1. CASE auto_flush
      <4>1. done = build_auto_flush_metric_struct(acc, item)
        BY <1>3, <3>1 DEF build_item
      <4>2. QED
        BY <4>1 DEF build_auto_flush_metric_struct
    <3>2. CASE ~auto_flush
      <4>1. done = build_metric_struct(acc, item)
        BY <1>3, <3>2 DEF build_item
      <4>2. QED
        BY <4>1 DEF build_metric_struct
    <3>3. QED
      BY <3>1, <3>2
  <2>3. ASSUME NEW b, NEW l, Tree(l), done = grown(b, l) PROVE Good(done)
    <3> DEFINE x == m(b, l)
    <3>1. x.scope = acc.scope /\ x.levels = l
      OBVIOUS
    <3>2. Scoped(acc.scope, acc.metrics)
      BY DEF Good
    <3> HIDE DEF x
    <3>3. Scoped(NextScope(acc.scope), Append(acc.metrics, x))
      BY <3>1, <3>2, <2>3, OneMore
    <3> HIDE DEF done
    <3>4. done = [acc EXCEPT !.scope = NextScope(acc.scope), !.metrics = Append(acc.metrics, x)]
      BY <2>3 DEF x
    <3>5. /\ DOMAIN done = {"enums", "scope", "metrics", "error"}
          /\ done.enums = acc.enums /\ done.scope = NextScope(acc.scope)
          /\ done.metrics = Append(acc.metrics, x)
      BY <3>4 DEF Good
    <3>6. QED
      BY <3>3, <3>5 DEF Good
  <2>4. CASE \E x : done = [acc EXCEPT !.error = x]
    <3>1. PICK x : done = [acc EXCEPT !.error = x]
      BY <2>4
    <3> HIDE DEF done
    <3>2. /\ DOMAIN done = {"enums", "scope", "metrics", "error"}
          /\ done.enums = acc.enums /\ done.scope = acc.scope /\ done.metrics = acc.metrics
      BY <3>1 DEF Good
    <3>3. Good(done)
      BY <3>2 DEF Good
    <3>4. QED
      BY <3>3 DEF done
  <2>5. CASE CheckEnums(item, enums) = "none"
    <3>1. \A i \in DOMAIN item.labels : List(get_value_def_list(item.labels[i], enums))
      BY <2>1, <2>5, EnumsChecked DEF Good
    <3>2. \A i \in DOMAIN item.labels : plain[i].defs = get_value_def_list(item.labels[i], enums)
      BY DEF MetricBuilderContext
    <3>3. \A i \in DOMAIN item.labels : auto[i].defs = get_value_def_list(item.labels[i], enums)
      BY DEF MetricBuilderContext, AutoFlushContext
    <3>4. /\ plain = [i \in DOMAIN item.labels |-> plain[i]]
          /\ auto = [i \in DOMAIN item.labels |-> auto[i]]
      OBVIOUS
    <3> HIDE DEF plain, auto
    <3>5. Tree(plain) /\ Tree(auto)
      BY <2>1, <3>1, <3>2, <3>3, <3>4, MetricTree
    <3> HIDE DEF done, m
    <3>6. QED
      BY <2>2, <2>3, <2>4, <3>5 DEF done
  <2>6. QED
    BY <2>2, <2>4, <2>5
<1>4. QED
  BY <1>1, <1>2, <1>3

\* built is the function by which build takes the items.
Takes(built, auto_flush, items, scope, metrics) ==
    built = [n \in 0 .. Len(items) |->
                IF n = 0
                THEN [enums |-> << >>, scope |-> scope, metrics |-> metrics, error |-> "none"]
                ELSE build_item(auto_flush, built[n - 1], items[n])]

\* build in terms of that function.
LEMMA BuildDef ==
    ASSUME NEW auto_flush, NEW items, NEW scope, NEW metrics
    PROVE  build(auto_flush, items, scope, metrics)
              = (CHOOSE f : Takes(f, auto_flush, items, scope, metrics))[Len(items)]
BY DEF build, Takes

\* The items are taken one after the other.
LEMMA BuildSteps ==
    ASSUME NEW auto_flush, NEW items, NEW scope, NEW metrics, Len(items) \in Nat
    PROVE  \E g : /\ g[0] = [enums |-> << >>, scope |-> scope, metrics |-> metrics,
                             error |-> "none"]
                  /\ build(auto_flush, items, scope, metrics) = g[Len(items)]
                  /\ \A n \in 1 .. Len(items) :
                        g[n] = build_item(auto_flush, g[n - 1], items[n])
<1> DEFINE N == Len(items)
           a == [enums |-> << >>, scope |-> scope, metrics |-> metrics, error |-> "none"]
           step(n, x) == build_item(auto_flush, x, items[n])
           c == CHOOSE f : Takes(f, auto_flush, items, scope, metrics)
           Goes(g, n) == g = [i \in 0 .. n |-> IF i = 0 THEN a ELSE step(i, g[i - 1])]
           G == {n \in Nat : \E g : Goes(g, n)}
<1> HIDE DEF a, step
<1>1. 0 \in G
  <2> DEFINE g == [i \in 0 .. 0 |-> a]
  <2>1. Goes(g, 0)
    OBVIOUS
  <2>2. QED
    BY <2>1
<1>2. ASSUME NEW n \in G PROVE n + 1 \in G
  <2>1. PICK g : Goes(g, n)
    OBVIOUS
  <2> DEFINE m == n + 1
             h == [i \in 0 .. m |-> IF i = m THEN step(m, g[n]) ELSE g[i]]
  <2>2. n \in Nat /\ m \in Nat /\ m # 0 /\ m - 1 = n
    OBVIOUS
  <2>3. \A i \in 0 .. n : g[i] = IF i = 0 THEN a ELSE step(i, g[i - 1])
    BY <2>1
  <2>4. ASSUME NEW i \in 0 .. m PROVE h[i] = IF i = 0 THEN a ELSE step(i, h[i - 1])
    <3>1. CASE i = m
      <4>1. n \in 0 .. m /\ n # m
        BY <2>2
      <4>2. h[n] = g[n] /\ h[m] = step(m, g[n])
        BY <4>1, <2>2
      <4>3. h[m - 1] = g[n]
        BY <4>2, <2>2
      <4> HIDE DEF h, m
      <4>4. QED
        BY <3>1, <4>2, <4>3, <2>2
    <3>2. CASE i # m
      <4>1. i \in 0 .. n /\ (i # 0 => i - 1 \in 0 .. m /\ i - 1 # m)
        BY <3>2, <2>2
      <4>2. h[i] = g[i] /\ (i # 0 => h[i - 1] = g[i - 1])
        BY <4>1, <3>2
      <4> HIDE DEF h, m
      <4>3. QED
        BY <4>1, <4>2, <2>3
    <3>3. QED
      BY <3>1, <3>2
  <2>5. h = [i \in 0 .. m |-> h[i]]
    OBVIOUS
  <2> HIDE DEF h
  <2>6. Goes(h, m)
    BY <2>4, <2>5
  <2>7. QED
    BY <2>2, <2>6
<1>3. N \in G
  <2>1. G \subseteq Nat
    OBVIOUS
  <2> HIDE DEF G
  <2>2. QED
    BY <2>1, <1>1, <1>2, AllNumbers
<1>4. \E g : Goes(g, N)
  BY <1>3
<1>5. \A g : Takes(g, auto_flush, items, scope, metrics) <=> Goes(g, N)
  BY DEF Takes, a, step
<1>6. Goes(c, N)
  BY <1>4, <1>5
<1>7. build(auto_flush, items, scope, metrics) = c[N]
  BY BuildDef
<1> HIDE DEF c, N
<1>8. \A n \in 0 .. N : c[n] = IF n = 0 THEN a ELSE step(n, c[n - 1])
  BY <1>6
<1>9. N \in Nat
  BY DEF N
<1>10. c[0] = a
  <2>1. 0 \in 0 .. N
    BY <1>9
  <2>2. QED
    BY <2>1, <1>8
<1>11. \A n \in 1 .. N : c[n] = step(n, c[n - 1])
  <2>1. \A n \in 1 .. N : n \in 0 .. N /\ n # 0
    BY <1>9
  <2>2. QED
    BY <2>1, <1>8
<1>12. QED
  BY <1>7, <1>10, <1>11 DEF a, step, N

\* Expanding a macro leaves every metric in a scope of its own.
LEMMA BuildScoped ==
    ASSUME NEW auto_flush, NEW items \in Seq(EnumDefs \cup MetricDefs),
           NEW scope, NEW metrics, Scoped(scope, metrics)
    PROVE  LET done == build(auto_flush, items, scope, metrics)
           IN  Scoped(done.scope, done.metrics)
<1> DEFINE N == Len(items)
<1>1. N \in Nat /\ \A n \in 1 .. N : items[n] \in EnumDefs \cup MetricDefs
  BY LenProperties, ElementOfSeq
<1>2. PICK g : /\ g[0] = [enums |-> << >>, scope |-> scope, metrics |-> metrics,
                          error |-> "none"]
               /\ build(auto_flush, items, scope, metrics) = g[N]
               /\ \A n \in 1 .. N : g[n] = build_item(auto_flush, g[n - 1], items[n])
  BY <1>1, BuildSteps
<1> DEFINE G == {n \in Nat : n <= N => Good(g[n])}
<1> HIDE DEF N
<1>3. 0 \in G
  <2>1. /\ DOMAIN g[0] = {"enums", "scope", "metrics", "error"}
        /\ g[0].enums = << >> /\ g[0].scope = scope /\ g[0].metrics = metrics
    BY <1>2
  <2>2. DOMAIN g[0].enums = {}
    BY <2>1
  <2>3. Good(g[0])
    BY <2>1, <2>2 DEF Good
  <2>4. QED
    BY <2>3
<1>4. ASSUME NEW n \in G PROVE n + 1 \in G
  <2> SUFFICES ASSUME n + 1 <= N PROVE Good(g[n + 1])
    OBVIOUS
  <2> DEFINE m == n + 1
  <2>1. n \in Nat /\ Good(g[n]) /\ m \in 1 .. N /\ m - 1 = n
    BY <1>1
  <2>2. g[m] = build_item(auto_flush, g[n], items[m])
    <3>1. g[m] = build_item(auto_flush, g[m - 1], items[m])
      BY <2>1, <1>2
    <3>2. QED
      BY <3>1, <2>1
  <2>3. items[m] \in EnumDefs \cup MetricDefs
    BY <2>1, <1>1
  <2> HIDE DEF m
  <2>4. Good(g[m])
    BY <2>1, <2>2, <2>3, ItemGood
  <2>5. QED
    BY <2>4 DEF m
<1>5. N \in G
  <2>1. G \subseteq Nat
    OBVIOUS
  <2> HIDE DEF G
  <2>2. QED
    BY <2>1, <1>1, <1>3, <1>4, AllNumbers
<1>6. QED
  BY <1>1, <1>2, <1>5 DEF Good

-----------------------------------------------------------------------------
(***************************************************************************)
(* What holds of a program from when it is compiled until it ends.          *)
(***************************************************************************)
InvocationDefs == [auto_flush : BOOLEAN, items : Seq(EnumDefs \cup MetricDefs)]

\* The last metric has been compiled, and can be used.
Usable == program.invocations = << >> /\ panicked # "compile" /\ expanded # << >>

StructsInv ==
    /\ DOMAIN program = {"invocations", "labels"}
    /\ program.invocations \in Seq(InvocationDefs)
    /\ Scoped(SCOPE_ID, expanded)
    /\ panicked # "compile" => \A m \in ToSet(expanded) : Compiles(m)
    /\ Usable /\ Metric.auto_flush => order \in Orders(Levels)
    /\ roots # << >> => Usable
    /\ \A o \in DOMAIN roots : Rooted(Levels, roots[o])

\* The metric that the program uses is one of those that were compiled.
LEMMA LastMetric ==
    ASSUME StructsInv, expanded # << >>
    PROVE  /\ Tree(Levels) /\ Metric \in ToSet(expanded)
           /\ panicked # "compile" => Compiles(Metric)
<1>1. Scoped(SCOPE_ID, expanded)
  BY DEF StructsInv
<1>2. expanded \in Seq(ToSet(expanded))
  BY <1>1 DEF Scoped, List
<1>3. Len(expanded) \in Nat /\ DOMAIN expanded = 1 .. Len(expanded) /\ Len(expanded) # 0
  BY <1>2, LenProperties, EmptySeq
<1>4. Len(expanded) \in DOMAIN expanded
  BY <1>3
<1>5. Metric = expanded[Len(expanded)]
  BY DEF Metric, Last
<1>6. Tree(Levels) /\ Metric \in ToSet(expanded)
  BY <1>1, <1>4, <1>5 DEF Scoped, Levels, ToSet
<1>7. QED
  BY <1>6 DEF StructsInv

\* Of a metric that is flushed automatically, the structs are laid out.
LEMMA LastLaid ==
    ASSUME StructsInv, Usable, Metric.auto_flush
    PROVE  Laid(Levels) /\ Len(Levels) # 0
<1>1. Tree(Levels) /\ Compiles(Metric)
  BY LastMetric DEF Usable
<1>2. order \in Orders(Levels)
  BY DEF StructsInv
<1>3. \A i \in DOMAIN Levels : order[i] \in SetToSeqs(FieldNames(Levels, i) \cup RootFields(i))
  BY <1>2 DEF Orders, FieldNames
<1>4. \A i \in DOMAIN Levels : /\ IsInjective(get_names(Levels[i].defs))
                               /\ FieldNames(Levels, i) \cap RootFields(i) = {}
  BY <1>1 DEF Compiles, Levels, FieldNames
<1>5. Len(Levels) # 0
  BY <1>1, EmptySeq DEF Compiles, Levels, Tree
<1>6. QED
  BY <1>3, <1>4, <1>5 DEF Laid

\* It holds of a program that is not compiled yet.
LEMMA StructsInit == Init => StructsInv
<1> SUFFICES ASSUME Init PROVE StructsInv
  OBVIOUS
<1>1. program \in [invocations : Seq(InvocationDefs), labels : Seq(Seq(STRING))]
  BY ProgramsAssumption DEF Init, InvocationDefs
<1>2. SCOPE_ID = 0 /\ expanded = << >> /\ roots = << >>
  BY DEF Init
<1>3. List(expanded)
  BY <1>2 DEF List
<1>4. DOMAIN expanded = {} /\ DOMAIN roots = {}
  BY <1>2
<1>5. Scoped(SCOPE_ID, expanded)
  BY <1>2, <1>3, <1>4 DEF Scoped
<1>6. ToSet(expanded) = {}
  BY <1>4 DEF ToSet
<1>7. QED
  BY <1>1, <1>2, <1>4, <1>5, <1>6 DEF StructsInv, Usable

\* A leaf in which one more is held.
LEMMA HeldMore ==
    ASSUME NEW levels, NEW leaves, Rooted(levels, leaves), NEW leaf
    PROVE  Rooted(levels, [leaves EXCEPT ![leaf].held = @ + 1])
<1> DEFINE added == [leaves EXCEPT ![leaf].held = @ + 1]
<1>1. DOMAIN added = DOMAIN leaves
  OBVIOUS
<1>2. \A p \in DOMAIN leaves : DOMAIN added[p] = DOMAIN leaves[p]
  OBVIOUS
<1> HIDE DEF added
<1>3. Rooted(levels, added)
  BY <1>1, <1>2 DEF Rooted
<1>4. QED
  BY <1>3 DEF added

\* What steps of the compiled program keep: only roots, and what is not of the
\* structs, change.
LEMMA RootsKept ==
    ASSUME StructsInv,
           UNCHANGED <<program, SCOPE_ID, expanded, order>>,
           panicked' = panicked \/ (panicked # "compile" /\ panicked' # "compile"),
           roots' # << >> => Usable,
           \A o \in DOMAIN roots' : Rooted(Levels, roots'[o])
    PROVE  StructsInv'
<1>1. Metric' = Metric /\ Levels' = Levels
  BY DEF Metric, Levels
<1>2. (panicked' # "compile") <=> (panicked # "compile")
  OBVIOUS
<1>3. Usable' <=> Usable
  BY <1>2 DEF Usable
<1>4. Orders(Levels)' = Orders(Levels)
  BY <1>1 DEF Orders
<1>5. Scoped(SCOPE_ID, expanded)'
  BY DEF StructsInv
<1>6. /\ (DOMAIN program = {"invocations", "labels"})'
      /\ (program.invocations \in Seq(InvocationDefs))'
  BY DEF StructsInv
<1>7. (panicked # "compile" => \A m \in ToSet(expanded) : Compiles(m))'
  BY <1>2 DEF StructsInv
<1>8. (Usable /\ Metric.auto_flush => order \in Orders(Levels))'
  BY <1>1, <1>3, <1>4 DEF StructsInv
<1>9. (roots # << >> => Usable)'
  BY <1>3
<1>10. (\A o \in DOMAIN roots : Rooted(Levels, roots[o]))'
  BY <1>1
<1>11. QED
  BY <1>5, <1>6, <1>7, <1>8, <1>9, <1>10 DEF StructsInv

\* A macro is expanded: the last one that is compiled is laid out.
LEMMA ExpandKept == ASSUME StructsInv, Expand PROVE StructsInv'
<1> DEFINE head == Head(program.invocations)
           done == build(head.auto_flush, head.items, SCOPE_ID, expanded)
           ok == done.error = "none" /\ \A m \in ToSet(done.metrics) : Compiles(m)
           last == /\ ok /\ Len(program.invocations) = 1
                   /\ done.metrics # << >> /\ Last(done.metrics).auto_flush
<1>1. program.invocations # << >> /\ panicked = "no"
  BY DEF Expand
<1>2. program.invocations \in Seq(InvocationDefs) /\ DOMAIN program = {"invocations", "labels"}
  BY DEF StructsInv
<1>3. SCOPE_ID' = done.scope /\ expanded' = done.metrics
  BY DEF Expand
<1>4. panicked' = IF ok THEN "no" ELSE "compile"
  BY DEF Expand
<1>5. last => order' \in Orders(Last(done.metrics).levels)
  BY DEF Expand
<1>6. program' = [program EXCEPT !.invocations = Tail(@)] /\ UNCHANGED <<vec, roots, made>>
  BY DEF Expand
<1>7. /\ head \in InvocationDefs
      /\ Tail(program.invocations) \in Seq(InvocationDefs)
      /\ Len(program.invocations) \in Nat
      /\ Len(Tail(program.invocations)) = Len(program.invocations) - 1
  BY <1>1, <1>2, HeadTailProperties, LenProperties
<1>8. Scoped(SCOPE_ID', expanded')
  <2>1. head.items \in Seq(EnumDefs \cup MetricDefs)
    BY <1>7 DEF InvocationDefs
  <2>2. Scoped(SCOPE_ID, expanded)
    BY DEF StructsInv
  <2> HIDE DEF head
  <2>3. Scoped(done.scope, done.metrics)
    BY <2>1, <2>2, BuildScoped
  <2>4. QED
    BY <1>3, <2>3
<1>9. roots = << >> /\ roots' = << >>
  BY <1>1, <1>6 DEF StructsInv, Usable
<1>10. DOMAIN program' = {"invocations", "labels"}
       /\ program'.invocations = Tail(program.invocations)
  BY <1>2, <1>6
<1> HIDE DEF head, done
<1>11. panicked' # "compile" => \A m \in ToSet(expanded') : Compiles(m)
  BY <1>3, <1>4
<1>12. Usable' /\ Metric'.auto_flush => order' \in Orders(Levels')
  <2> SUFFICES ASSUME Usable', Metric'.auto_flush PROVE order' \in Orders(Levels')
    OBVIOUS
  <2>1. Metric' = Last(done.metrics) /\ Levels' = Last(done.metrics).levels
    BY <1>3 DEF Metric, Levels
  <2>2. Tail(program.invocations) = << >> /\ panicked' # "compile" /\ done.metrics # << >>
    BY <1>3, <1>10 DEF Usable
  <2>3. Len(program.invocations) = 1
    <3> DEFINE rest == Tail(program.invocations)
    <3>1. rest = << >>
      BY <2>2
    <3> HIDE DEF rest
    <3>2. Len(rest) = 0
      BY <3>1, EmptySeq
    <3>3. QED
      BY <3>2, <1>7 DEF rest
  <2>4. last
    BY <2>1, <2>2, <2>3, <1>4
  <2>5. QED
    BY <2>1, <2>4, <1>5
<1>13. Orders(Levels)' = Orders(Levels')
  BY DEF Orders
<1>14. QED
  BY <1>7, <1>8, <1>9, <1>10, <1>11, <1>12, <1>13 DEF StructsInv

\* A root is built: with all its leaves, or not at all.
LEMMA BuildRootKept == ASSUME StructsInv, NEW t \in Threads, BuildRoot(t) PROVE StructsInv'
<1> DEFINE done == From(Levels, vec)
<1>1. Expanded /\ Usable
  BY DEF BuildRoot, Expanded, Usable
<1>2. /\ roots' = IF done.ok THEN With(roots, Owner(t), done.leaves) ELSE roots
      /\ panicked' = IF done.ok THEN "no" ELSE "from"
      /\ UNCHANGED <<program, SCOPE_ID, expanded, order>>
  BY DEF BuildRoot
<1>3. done.ok => Rooted(Levels, done.leaves)
  BY <1>1, LastMetric, FromRooted DEF Usable
<1> HIDE DEF done
<1>4. panicked # "compile" /\ panicked' # "compile"
  BY <1>1, <1>2 DEF Usable
<1>5. ASSUME NEW o \in DOMAIN roots' PROVE Rooted(Levels, roots'[o])
  <2>1. CASE ~done.ok
    BY <2>1, <1>2 DEF StructsInv
  <2>2. CASE done.ok
    <3>1. DOMAIN roots' = DOMAIN roots \cup {Owner(t)}
          /\ roots'[o] = IF o = Owner(t) THEN done.leaves ELSE roots[o]
      BY <2>2, <1>2 DEF With
    <3>2. QED
      BY <3>1, <2>2, <1>3 DEF StructsInv
  <2>3. QED
    BY <2>1, <2>2
<1>6. QED
  BY <1>1, <1>2, <1>4, <1>5, RootsKept

\* What is flushed of a root is a root, with nothing in its leaves.
LEMMA FlushedRoot ==
    ASSUME StructsInv, Usable, NEW v, NEW leaves, Rooted(Levels, leaves)
    PROVE  /\ Rooted(Levels, Flushed(v, leaves).leaves)
           /\ \A p \in DOMAIN Flushed(v, leaves).leaves : Flushed(v, leaves).leaves[p].held = 0
BY LastMetric, FlushEmpties DEF Usable, Flushed

\* A root in place of another.
LEMMA RootReplaced ==
    ASSUME StructsInv, Usable, NEW o, NEW leaves, Rooted(Levels, leaves),
           roots' = [roots EXCEPT ![o] = leaves]
    PROVE  \A u \in DOMAIN roots' : Rooted(Levels, roots'[u])
BY DEF StructsInv

\* An update of a leaf, and the flush that may follow it.
LEMMA UpdateKept ==
    ASSUME StructsInv, NEW t \in Threads, Built_(t), NEW access, UpdateLeaf(t, access)
    PROVE  StructsInv'
<1> DEFINE leaf == Leaf(t, access)
           leaves == roots[Owner(t)]
           added == [leaves EXCEPT ![leaf].held = @ + 1]
<1>1. Usable /\ Owner(t) \in DOMAIN roots
  BY DEF Built_, Expanded, Usable
<1>2. UNCHANGED <<program, SCOPE_ID, expanded, order, panicked>>
  BY DEF UpdateLeaf
<1>3. \/ roots' = roots
      \/ roots' = [roots EXCEPT ![Owner(t)] = added]
      \/ roots' = [roots EXCEPT ![Owner(t)] = Flushed(vec, added).leaves]
  BY DEF UpdateLeaf
<1>4. Rooted(Levels, added)
  BY <1>1, HeldMore DEF StructsInv
<1> HIDE DEF added
<1>5. Rooted(Levels, Flushed(vec, added).leaves)
  BY <1>1, <1>4, FlushedRoot
<1> DEFINE flushed == Flushed(vec, added).leaves
<1> HIDE DEF flushed
<1>6. \A u \in DOMAIN roots' : Rooted(Levels, roots'[u])
  BY <1>1, <1>3, <1>4, <1>5, RootReplaced DEF StructsInv, flushed
<1>7. QED
  BY <1>1, <1>2, <1>6, RootsKept

\* A flush.
LEMMA FlushKept == ASSUME StructsInv, NEW t \in Threads, Flush(t) PROVE StructsInv'
<1>1. Usable /\ t \in DOMAIN roots
  BY DEF Flush, Built_, Expanded, Usable, Owner
<1>2. /\ UNCHANGED <<program, SCOPE_ID, expanded, order, panicked>>
      /\ roots' = [roots EXCEPT ![t] = Flushed(vec, roots[t]).leaves]
  BY DEF Flush
<1>3. Rooted(Levels, Flushed(vec, roots[t]).leaves)
  BY <1>1, FlushedRoot DEF StructsInv
<1>4. \A u \in DOMAIN roots' : Rooted(Levels, roots'[u])
  BY <1>1, <1>2, <1>3, RootReplaced
<1>5. QED
  BY <1>1, <1>2, <1>4, RootsKept

\* Every step keeps it.
LEMMA StructsNext == StructsInv /\ [Next]_vars => StructsInv'
<1> SUFFICES ASSUME StructsInv, [Next]_vars PROVE StructsInv'
  OBVIOUS
<1>1. CASE Expand
  BY <1>1, ExpandKept
<1>2. CASE MakeVec \/ UNCHANGED vars
  <2>1. UNCHANGED <<program, SCOPE_ID, expanded, order, panicked, roots>>
    BY <1>2 DEF MakeVec, vars
  <2>2. roots' # << >> => Usable
    BY <2>1 DEF StructsInv
  <2>3. \A o \in DOMAIN roots' : Rooted(Levels, roots'[o])
    BY <2>1 DEF StructsInv
  <2>4. QED
    BY <2>1, <2>2, <2>3, RootsKept
<1>3. ASSUME NEW t \in Threads, BuildRoot(t) PROVE StructsInv'
  BY <1>3, BuildRootKept
<1>4. ASSUME NEW t \in Threads, Flush(t) PROVE StructsInv'
  BY <1>4, FlushKept
<1>5. ASSUME NEW t \in Threads, Built_(t), NEW access \in Accesses, UpdateLeaf(t, access)
      PROVE StructsInv'
  BY <1>5, UpdateKept
<1>6. QED
  BY <1>1, <1>2, <1>3, <1>4, <1>5 DEF Next

\* It holds of every program, all the time.
LEMMA StructsInvariant == Spec => []StructsInv
BY StructsInit, StructsNext, PTL DEF Spec

\* builder.rs, SCOPE_ID.fetch_add: whatever a program's macros are, no two metrics
\* generate structs in one scope, not even metrics whose names are each other's
\* and a number.
THEOREM StructsAreApart == Spec => []StructsApart
<1>1. StructsInv => StructsApart
  <2> SUFFICES ASSUME StructsInv, NEW i \in DOMAIN expanded, NEW j \in DOMAIN expanded, i # j
               PROVE  {<<expanded[i].scope, s[1]>> :
                          s \in UNION {l.structs : l \in ToSet(expanded[i].levels)}}
                      \cap {<<expanded[j].scope, s[1]>> :
                          s \in UNION {l.structs : l \in ToSet(expanded[j].levels)}} = {}
    BY DEF StructsApart
  <2>1. expanded[i].scope # expanded[j].scope
    BY DEF StructsInv, Scoped
  <2>2. QED
    BY <2>1
<1>2. QED
  BY <1>1, StructsInvariant, PTL

\* The delegators of a root lead to its leaves.
LEMMA DelegatorsOfRoot == StructsInv => DelegatorsReachTheirLeaves
<1> SUFFICES ASSUME StructsInv, roots # << >>, Metric.auto_flush,
                    NEW t \in DOMAIN roots, NEW path \in DOMAIN roots[t]
             PROVE  LeavesAt(Levels, DOMAIN roots[t], get_local(Delegator(Levels, path)))
                       = {path}
  BY DEF DelegatorsReachTheirLeaves
<1>1. Usable /\ Rooted(Levels, roots[t])
  BY DEF StructsInv
<1>2. Tree(Levels) /\ Laid(Levels) /\ Len(Levels) # 0
  BY <1>1, LastMetric, LastLaid DEF Usable
<1>3. ASSUME NEW p \in DOMAIN roots[t] PROVE WayTo(Levels, p)
  <2>1. PICK i \in DOMAIN Paths(Levels) : p = get_names(Paths(Levels)[i])
    BY <1>1 DEF Rooted
  <2>2. Paths(Levels)[i] \in Ways(Levels, Len(Levels))
    BY <1>2, <2>1, PathsAreWays, LenProperties, ElementOfSeq
  <2>3. QED
    BY <1>2, <2>1, <2>2, NamesOfWay
<1>4. QED
  BY <1>2, <1>3, DelegatorsLead

\* auto_flush_from.rs, the delegators: for any labels and any order in which the
\* compiler puts the fields, the offsets of a delegator lead to the leaf of the
\* fields it was reached by and to no other.
THEOREM DelegatorsLeadHome == Spec => []DelegatorsReachTheirLeaves
BY DelegatorsOfRoot, StructsInvariant, PTL

\* flush of the static structs: it visits every leaf of the thread's root, however
\* deep the tree is, and no other thread's.
THEOREM FlushesAreComplete == Spec => FlushReachesEveryLeaf
<1>1. StructsInv /\ [Next]_vars =>
        [\A t \in Threads :
            Flush(t) => /\ \A path \in DOMAIN roots'[t] : roots'[t][path].held = 0
                        /\ \A u \in DOMAIN roots \ {t} : roots'[u] = roots[u]]_vars
  <2> SUFFICES ASSUME StructsInv, NEW t \in Threads, Flush(t)
               PROVE  /\ \A path \in DOMAIN roots'[t] : roots'[t][path].held = 0
                      /\ \A u \in DOMAIN roots \ {t} : roots'[u] = roots[u]
    OBVIOUS
  <2>1. Usable /\ t \in DOMAIN roots
    BY DEF Flush, Built_, Expanded, Usable, Owner
  <2>2. roots' = [roots EXCEPT ![t] = Flushed(vec, roots[t]).leaves]
    BY DEF Flush
  <2>3. \A p \in DOMAIN Flushed(vec, roots[t]).leaves : Flushed(vec, roots[t]).leaves[p].held = 0
    BY <2>1, FlushedRoot DEF StructsInv
  <2>4. QED
    BY <2>1, <2>2, <2>3
<1>2. QED
  BY <1>1, StructsInvariant, PTL DEF Spec, FlushReachesEveryLeaf

-----------------------------------------------------------------------------
(***************************************************************************)
(* The children of the vector that roots are built from, and what is in     *)
(* them and in the leaves of roots.                                         *)
(***************************************************************************)
\* A vector with no constant labels, that was made with names for its variable ones.
VecOf(v, names) ==
    /\ {"type", "opts", "buckets", "descs", "children"} \subseteq DOMAIN v
    /\ List(names) /\ IsInjective(names)
    /\ v.descs[1].variable_labels = names /\ v.descs[1].const_label_pairs = << >>
    /\ describe(v.opts) = Ok(v.descs[1])

\* A child in which something can be added up, and how much is in it.
Holds(type, m) ==
    IF type = "HISTOGRAM"
    THEN {"label_pairs", "count", "sum", "counts"} \subseteq DOMAIN m /\ m.count \in Nat
    ELSE {"label_pairs", "val"} \subseteq DOMAIN m /\ m.val \in Nat
Amount(type, m) == IF type = "HISTOGRAM" THEN m.count ELSE m.val

\* Of two vectors, the same but for the children.
SameVec(v, w) ==
    /\ DOMAIN w = DOMAIN v
    /\ w.type = v.type /\ w.opts = v.opts /\ w.buckets = v.buckets /\ w.descs = v.descs

\* No labels, no pairs.
LEMMA NoPairs == Labels(<< >>) = << >> /\ ConstPairs(<< >>) = << >>
<1>1. DOMAIN Labels(<< >>) = {}
  BY DEF Labels
<1>2. Labels(<< >>) = [n \in DOMAIN Labels(<< >>) |-> Labels(<< >>)[n]]
  BY DEF Labels
<1>3. Labels(<< >>) = << >>
  BY <1>1, <1>2
<1> DEFINE names == SortedNames({})
<1>4. names \in Seq({})
  BY FS_EmptySet, NamesSorted DEF EachOnce
<1>5. DOMAIN << >> = {}
  OBVIOUS
<1>6. ConstPairs(<< >>) = [i \in DOMAIN names |-> [name |-> names[i], value |-> << >>[names[i]]]]
  BY <1>5 DEF ConstPairs
<1> HIDE DEF names
<1>7. names = << >>
  <2>1. Len(names) \in Nat /\ \A i \in 1 .. Len(names) : names[i] \in {}
    BY <1>4, LenProperties, ElementOfSeq
  <2>2. Len(names) = 0
    <3>1. \A n \in Nat : n # 0 => 1 \in 1 .. n
      OBVIOUS
    <3>2. QED
      BY <2>1, <3>1
  <2>3. QED
    BY <1>4, <2>2, EmptySeq
<1>8. ConstPairs(<< >>) = << >>
  BY <1>5, <1>6, <1>7
<1>9. QED
  BY <1>3, <1>8

\* The vector that a program makes.
LEMMA NewVecOf ==
    ASSUME NEW type, NEW name, NEW help, NEW buckets, NEW names, List(names),
           NewVec(type, Opts(name, help), buckets, names).ok
    PROVE  LET v == NewVec(type, Opts(name, help), buckets, names).v
           IN  VecOf(v, names) /\ v.children = << >> /\ v.type = type
<1> DEFINE o == Opts(name, help)
           p == [o EXCEPT !.variable_labels = names]
           r == describe(p)
           c == [type |-> type, vec |-> TRUE, opts |-> p, buckets |-> buckets,
                 descs |-> <<r.v>>, children |-> << >>]
<1>1. NewVec(type, o, buckets, names) = IF r.ok THEN Ok(c) ELSE r
  BY DEF NewVec, Then
<1>2. p.variable_labels = names /\ p.const_labels = << >>
  BY NoPairs DEF Opts
<1>3. r = NewDesc(fq_name(p), p.help, names, << >>)
  BY <1>2 DEF describe
<1> HIDE DEF p, r, o
<1>4. r.ok /\ NewVec(type, o, buckets, names).v = c
  BY <1>1, Results DEF o
<1>5. IsInjective(names) /\ r.v.variable_labels = names /\ r.v.const_label_pairs = << >>
  BY <1>3, <1>4, NoPairs DEF NewDesc, Ok, Err, NoneTwice
<1>6. r = Ok(r.v)
  BY <1>4, DescribeOk DEF r
<1>7. VecOf(c, names)
  BY <1>5, <1>6 DEF VecOf, r
<1>8. QED
  BY <1>4, <1>7 DEF o

\* The labels that a vector accepts, by their names.
Accepts(v, K) ==
    /\ Cardinality(K) = Len(v.descs[1].variable_labels)
    /\ ToSet(v.descs[1].variable_labels) \subseteq K

\* The values of labels in the order of the names of a vector.
InOrder(names, labels) == [i \in DOMAIN names |-> labels[names[i]]]
New(v, values) == Built(v.type, v.opts, v.buckets, values)

LEMMA InOrderLen ==
    ASSUME NEW names, List(names), NEW labels
    PROVE  Len(InOrder(names, labels)) = Len(names)
<1>1. Len(names) \in Nat /\ DOMAIN names = 1 .. Len(names)
  BY LenProperties DEF List
<1>2. QED
  BY <1>1 DEF InOrder

\* with of a vector finds the child of the labels, or makes it, if it accepts
\* the labels.
LEMMA GetWith ==
    ASSUME NEW v, NEW names, VecOf(v, names), NEW labels
    PROVE  LET r   == GetMetricWith(v, labels)
               key == KeyOf(v, labels)
               m   == New(v, InOrder(names, labels))
           IN  /\ r.ok <=> /\ Accepts(v, DOMAIN labels)
                           /\ key \in DOMAIN v.children \/ m.ok
               /\ r.ok => /\ r.v.key = key
                          /\ r.v.vec = IF key \in DOMAIN v.children THEN v
                                       ELSE [v EXCEPT !.children = With(@, key, m.v)]
<1> DEFINE r == GetMetricWith(v, labels)
           key == KeyOf(v, labels)
           values == InOrder(names, labels)
           m == New(v, values)
           h == FlattenSeq(values)
<1>1. v.descs[1].variable_labels = names /\ Len(values) = Len(names)
  BY InOrderLen DEF VecOf
<1>2. LabelValues(v, labels) = IF Cardinality(DOMAIN labels) # Len(names) THEN Err("cardinality")
                               ELSE IF ~(ToSet(names) \subseteq DOMAIN labels) THEN Err("missing")
                               ELSE Ok(values)
  BY <1>1 DEF LabelValues, InOrder
<1> HIDE DEF values
<1>3. CASE ~Accepts(v, DOMAIN labels)
  <2>1. ~LabelValues(v, labels).ok
    BY <1>1, <1>2, <1>3, Results DEF Accepts
  <2>2. r = LabelValues(v, labels)
    BY <2>1 DEF GetMetricWith, Then
  <2>3. QED
    BY <1>3, <2>1, <2>2
<1>4. CASE Accepts(v, DOMAIN labels)
  <2>1. LabelValues(v, labels) = Ok(values)
    BY <1>1, <1>2, <1>4 DEF Accepts
  <2>2. r = GetMetric(v, values)
    BY <2>1, Results DEF GetMetricWith, Then
  <2>3. hash_label_values(v, values) = Ok(h)
    BY <1>1 DEF hash_label_values
  <2>4. key = h
    BY <2>1, <2>3, Results DEF KeyOf
  <2> DEFINE more == [vec |-> [v EXCEPT !.children = With(@, h, m.v)], key |-> h]
  <2>5. r = IF h \in DOMAIN v.children THEN Ok([vec |-> v, key |-> h])
            ELSE IF m.ok THEN Ok(more) ELSE m
    BY <2>2, <2>3, Results DEF GetMetric, Then, New
  <2> HIDE DEF h, m, r, key
  <2>6. CASE h \in DOMAIN v.children
    <3>1. r = Ok([vec |-> v, key |-> h])
      BY <2>5, <2>6
    <3>2. r.ok /\ r.v.vec = v /\ r.v.key = h
      BY <3>1, Results
    <3>3. QED
      BY <1>4, <2>4, <2>6, <3>2 DEF h, m, r, key, values
  <2>7. CASE h \notin DOMAIN v.children /\ m.ok
    <3>1. r = Ok(more)
      BY <2>5, <2>7
    <3>2. r.ok /\ r.v = more
      BY <3>1, Results
    <3>3. QED
      BY <1>4, <2>4, <2>7, <3>2 DEF h, m, r, key, values
  <2>8. CASE h \notin DOMAIN v.children /\ ~m.ok
    <3>1. ~r.ok
      BY <2>5, <2>8
    <3>2. QED
      BY <1>4, <2>4, <2>8, <3>1 DEF h, m, r, key, values
  <2>9. QED
    BY <2>6, <2>7, <2>8
<1>5. QED
  BY <1>3, <1>4

\* Whether a child can be made has nothing to do with its values.
LEMMA NewOfAny ==
    ASSUME NEW v, NEW values, NEW other, Len(values) = Len(other)
    PROVE  New(v, values).ok <=> New(v, other).ok
<1> DEFINE r == describe(v.opts)
           bounds == check_and_adjust_buckets(v.buckets)
           l(x) == make_label_pairs(r.v, x)
           plain(x) == [desc |-> r.v, label_pairs |-> l(x).v, val |-> 0]
           histogram(x) == [desc |-> r.v, label_pairs |-> l(x).v, upper_bounds |-> bounds.v,
                            counts |-> [i \in DOMAIN bounds.v |-> 0], count |-> 0, sum |-> 0]
           le == \/ ~check_bucket_label(r.v.variable_labels)
                 \/ ~check_bucket_label([i \in DOMAIN r.v.const_label_pairs |->
                                           r.v.const_label_pairs[i].name])
<1>1. l(values).ok <=> l(other).ok
  BY Results DEF make_label_pairs
<1>2. ASSUME NEW x
      PROVE  New(v, x) = IF v.type = "HISTOGRAM"
                         THEN IF ~r.ok THEN r ELSE IF le THEN Err("le")
                              ELSE IF ~l(x).ok THEN l(x) ELSE IF ~bounds.ok THEN bounds
                              ELSE Ok(histogram(x))
                         ELSE IF ~r.ok THEN r ELSE IF ~l(x).ok THEN l(x) ELSE Ok(plain(x))
  BY DEF New, Built, NewHistogram, NewValue, Then
<1> HIDE DEF r, l, bounds, plain, histogram, le
<1>3. ASSUME NEW x
      PROVE  New(v, x).ok <=> /\ r.ok /\ l(x).ok
                              /\ v.type = "HISTOGRAM" => ~le /\ bounds.ok
  BY <1>2, Results
<1>4. QED
  BY <1>1, <1>3

\* A child that is made has nothing in it, and the labels it was made for.
LEMMA NewHolds ==
    ASSUME NEW v, NEW names, VecOf(v, names), NEW labels,
           New(v, InOrder(names, labels)).ok
    PROVE  LET m == New(v, InOrder(names, labels)).v
           IN  /\ Holds(v.type, m) /\ Amount(v.type, m) = 0
               /\ ToSet(m.label_pairs) = {[name |-> n, value |-> labels[n]] : n \in ToSet(names)}
<1> DEFINE values == InOrder(names, labels)
           d == v.descs[1]
           own == [i \in DOMAIN values |-> [name |-> d.variable_labels[i], value |-> values[i]]]
           l == make_label_pairs(d, values)
           bounds == check_and_adjust_buckets(v.buckets)
           plain == [desc |-> d, label_pairs |-> l.v, val |-> 0]
           histogram == [desc |-> d, label_pairs |-> l.v, upper_bounds |-> bounds.v,
                         counts |-> [i \in DOMAIN bounds.v |-> 0], count |-> 0, sum |-> 0]
           m == New(v, values).v
<1>1. /\ describe(v.opts) = Ok(d) /\ describe(v.opts).ok /\ describe(v.opts).v = d
      /\ d.variable_labels = names /\ d.const_label_pairs = << >> /\ List(names)
  BY Results DEF VecOf
<1>2. m = IF v.type = "HISTOGRAM" THEN histogram ELSE plain
  BY <1>1, Results DEF New, Built, NewHistogram, NewValue, Then
<1>3. l.ok
  BY <1>1, Results DEF New, Built, NewHistogram, NewValue, Then
<1>4. Len(values) = Len(names) /\ DOMAIN values = DOMAIN names
      /\ Len(names) \in Nat /\ DOMAIN names = 1 .. Len(names)
  BY <1>1, InOrderLen, LenProperties DEF InOrder, List
<1>5. l.v = StableSort(own \o << >>, PairLess)
  BY <1>1, <1>4, Results DEF make_label_pairs
<1>6. own \in Seq(ToSet(own)) /\ Len(own) = Len(names) /\ DOMAIN own = 1 .. Len(names)
  <2>1. own = [i \in 1 .. Len(names) |-> own[i]] /\ DOMAIN own = 1 .. Len(names)
    BY <1>4
  <2> HIDE DEF own
  <2>2. List(own)
    BY <1>4, <2>1, ListOf
  <2>3. QED
    BY <1>4, <2>1, <2>2, LenProperties DEF List
<1>7. ToSet(own) = {[name |-> n, value |-> labels[n]] : n \in ToSet(names)}
  <2>1. \A i \in DOMAIN names : own[i] = [name |-> names[i], value |-> labels[names[i]]]
    BY <1>1, <1>4 DEF InOrder
  <2> HIDE DEF own
  <2>2. QED
    BY <1>4, <1>6, <2>1 DEF ToSet
<1> HIDE DEF own, l
<1>8. l.v = StableSort(own, PairLess)
  <2> DEFINE S == ToSet(own)
  <2>1. own \in Seq(S)
    BY <1>6
  <2> HIDE DEF S
  <2>2. own \o << >> = own
    BY <2>1, ConcatEmptySeq
  <2>3. QED
    BY <1>5, <2>2
<1>9. ToSet(l.v) = ToSet(own)
  <2>1. Shuffled(StableSort(own, PairLess), own)
    BY <1>6, SortedPairs
  <2>2. QED
    BY <1>4, <1>6, <1>8, <2>1, ShuffledAll
<1>10. m.label_pairs = l.v /\ Holds(v.type, m) /\ Amount(v.type, m) = 0
  BY <1>2 DEF Holds, Amount
<1> HIDE DEF m, values
<1>11. QED
  BY <1>7, <1>9, <1>10 DEF m, values

-----------------------------------------------------------------------------
\* The names of the labels of a tree.
LabelKeys(levels) == {levels[i].label_key : i \in DOMAIN levels}

\* Values of all levels stand for labels of those names, finitely many.
LEMMA MeantKeys ==
    ASSUME NEW levels, Tree(levels), NEW c, DOMAIN c = DOMAIN levels
    PROVE  DOMAIN Meant(levels, c) = LabelKeys(levels) /\ IsFiniteSet(LabelKeys(levels))
<1> DEFINE e == [i \in DOMAIN c |-> <<levels[i].label_key, c[i]>>]
           keys == [i \in 1 .. Len(levels) |-> levels[i].label_key]
<1>1. Len(levels) \in Nat /\ DOMAIN levels = 1 .. Len(levels)
  BY LenProperties DEF Tree
<1>2. \A i \in DOMAIN e : e[i][1] = levels[i].label_key
  OBVIOUS
<1>3. DOMAIN e = DOMAIN levels
  OBVIOUS
<1> HIDE DEF e
<1>4. DOMAIN Labels(e) = LabelKeys(levels)
  BY <1>2, <1>3 DEF Labels, LabelKeys
<1>5. keys = [i \in 1 .. Len(levels) |-> keys[i]] /\ ToSet(keys) = LabelKeys(levels)
  BY <1>1 DEF ToSet, LabelKeys
<1> HIDE DEF keys
<1>6. keys \in Seq(ToSet(keys))
  BY <1>1, <1>5, ListOf DEF List
<1>7. IsFiniteSet(LabelKeys(levels))
  BY <1>5, <1>6, FinitelyMany
<1>8. QED
  BY <1>4, <1>7 DEF Meant, e

\* The values on a way are one of each level, and LabelMap is what they stand for.
ValuesOn(path) == [i \in DOMAIN path |-> path[i].value]

LEMMA ValuesOfWay ==
    ASSUME NEW levels, Tree(levels), NEW w \in Ways(levels, Len(levels))
    PROVE  /\ ValuesOn(w) \in Combinations(levels)
           /\ LabelMap(levels, w) = Meant(levels, ValuesOn(w))
           /\ DOMAIN ValuesOn(w) = DOMAIN levels
<1> DEFINE L == Len(levels)
<1>1. L \in Nat /\ DOMAIN levels = 1 .. L
  BY LenProperties DEF Tree
<1>2. Len(w) = L /\ DOMAIN w = 1 .. L /\ \A i \in 1 .. L : w[i] \in ToSet(levels[i].defs)
  BY LenProperties DEF Ways
<1> HIDE DEF L
<1>3. ASSUME NEW i \in 1 .. L PROVE w[i].value \in LevelValues(levels, i)
  <2>1. PICK j \in DOMAIN levels[i].defs : w[i] = levels[i].defs[j]
    BY <1>2 DEF ToSet
  <2>2. /\ DOMAIN get_values(levels[i].defs) = DOMAIN levels[i].defs
        /\ get_values(levels[i].defs)[j] = w[i].value
    BY <2>1 DEF get_values
  <2>3. QED
    BY <2>2 DEF LevelValues, ToSet
<1>4. ValuesOn(w) = [i \in 1 .. L |-> w[i].value]
  BY <1>2 DEF ValuesOn
<1>5. ValuesOn(w) \in Combinations(levels)
  BY <1>1, <1>3, <1>4 DEF Combinations
<1>6. LabelMap(levels, w) = Meant(levels, ValuesOn(w))
  <2>1. [i \in DOMAIN w |-> <<levels[i].label_key, w[i].value>>]
          = [i \in DOMAIN ValuesOn(w) |-> <<levels[i].label_key, ValuesOn(w)[i]>>]
    BY <1>2, <1>4
  <2>2. QED
    BY <2>1 DEF LabelMap, Meant
<1>7. QED
  BY <1>1, <1>4, <1>5, <1>6

\* A list of a definition of each level is a path of From.
LEMMA PathOf ==
    ASSUME NEW levels, Tree(levels), NEW d,
           d = [i \in DOMAIN levels |-> d[i]],
           \A i \in DOMAIN levels : d[i] \in ToSet(levels[i].defs)
    PROVE  \E n \in DOMAIN Paths(levels) : Paths(levels)[n] = d
<1>1. Len(levels) \in Nat /\ DOMAIN levels = 1 .. Len(levels)
  BY LenProperties DEF Tree
<1>2. \A i \in 1 .. Len(levels) : d[i] \in AnyField(levels)
  BY <1>1 DEF AnyField
<1>3. d \in [1 .. Len(levels) -> AnyField(levels)]
  BY <1>1, <1>2
<1>4. d \in Seq(AnyField(levels)) /\ Len(d) = Len(levels)
  BY <1>1, <1>3
<1>5. d \in Ways(levels, Len(levels))
  BY <1>1, <1>4 DEF Ways
<1>6. QED
  BY <1>5, WaysArePaths

\* Every combination of values is that of a path.
LEMMA CombinationsAreWays ==
    ASSUME NEW levels, Tree(levels), NEW c \in Combinations(levels)
    PROVE  \E n \in DOMAIN Paths(levels) : ValuesOn(Paths(levels)[n]) = c
<1> DEFINE d == [i \in DOMAIN levels |->
                    CHOOSE x \in ToSet(levels[i].defs) : x.value = c[i]]
<1>1. ASSUME NEW i \in DOMAIN levels
      PROVE  d[i] \in ToSet(levels[i].defs) /\ d[i].value = c[i]
  <2>1. c[i] \in LevelValues(levels, i)
    BY DEF Combinations
  <2>2. PICK j \in DOMAIN levels[i].defs : levels[i].defs[j].value = c[i]
    BY <2>1 DEF LevelValues, ToSet, get_values
  <2>3. \E x \in ToSet(levels[i].defs) : x.value = c[i]
    BY <2>2 DEF ToSet
  <2>4. QED
    BY <2>3
<1>2. d = [i \in DOMAIN levels |-> d[i]] /\ DOMAIN d = DOMAIN levels
  OBVIOUS
<1> HIDE DEF d
<1>3. PICK n \in DOMAIN Paths(levels) : Paths(levels)[n] = d
  BY <1>1, <1>2, PathOf
<1>4. DOMAIN c = DOMAIN levels /\ c = [i \in DOMAIN levels |-> c[i]]
  BY DEF Combinations
<1>5. ValuesOn(d) = c
  BY <1>1, <1>2, <1>4 DEF ValuesOn
<1>6. QED
  BY <1>3, <1>5

\* If a vector accepts labels, its names are theirs.
LEMMA AcceptedNames ==
    ASSUME NEW v, NEW names, VecOf(v, names), NEW K, IsFiniteSet(K), Accepts(v, K)
    PROVE  ToSet(names) = K
<1>1. names \in Seq(ToSet(names)) /\ IsInjective(names) /\ ToSet(names) \subseteq K
      /\ Len(names) = Cardinality(K)
  BY DEF VecOf, Accepts, List
<1>2. names \in [1 .. Cardinality(K) -> K]
  <2>1. names \in [1 .. Len(names) -> ToSet(names)]
    BY <1>1, LenProperties
  <2>2. QED
    BY <1>1, <2>1
<1>3. QED
  BY <1>1, <1>2, DifferentAreAll DEF EachOnce

\* If no struct has a field twice, the names of the fields tell ways apart.
DifferentFields(levels) == \A i \in DOMAIN levels : IsInjective(get_names(levels[i].defs))

LEMMA NamesDecide ==
    ASSUME NEW levels, Tree(levels), DifferentFields(levels),
           NEW u \in Ways(levels, Len(levels)), NEW w \in Ways(levels, Len(levels)),
           get_names(u) = get_names(w)
    PROVE  u = w
<1> DEFINE L == Len(levels)
<1>1. L \in Nat /\ DOMAIN levels = 1 .. L
  BY LenProperties DEF Tree
<1>2. /\ u \in Seq(AnyField(levels)) /\ Len(u) = L /\ DOMAIN u = 1 .. L
      /\ w \in Seq(AnyField(levels)) /\ Len(w) = L /\ DOMAIN w = 1 .. L
      /\ \A i \in 1 .. L : u[i] \in ToSet(levels[i].defs) /\ w[i] \in ToSet(levels[i].defs)
  BY LenProperties DEF Ways
<1> HIDE DEF L
<1>3. ASSUME NEW i \in 1 .. L PROVE u[i] = w[i]
  <2> DEFINE d == levels[i].defs
             names == get_names(d)
  <2>1. PICK j \in DOMAIN d : u[i] = d[j]
    BY <1>2 DEF ToSet
  <2>2. PICK k \in DOMAIN d : w[i] = d[k]
    BY <1>2 DEF ToSet
  <2>3. get_names(u)[i] = u[i].name /\ get_names(w)[i] = w[i].name
    BY <1>2 DEF get_names
  <2>4. DOMAIN names = DOMAIN d /\ names[j] = d[j].name /\ names[k] = d[k].name
    BY DEF get_names
  <2>5. IsInjective(names)
    BY <1>1 DEF DifferentFields
  <2> HIDE DEF names, d
  <2>6. j = k
    BY <2>1, <2>2, <2>3, <2>4, <2>5 DEF IsInjective
  <2>7. QED
    BY <2>1, <2>2, <2>6
<1>4. u = [i \in 1 .. L |-> u[i]] /\ w = [i \in 1 .. L |-> w[i]]
  BY <1>1, <1>2
<1>5. QED
  BY <1>3, <1>4

\* How much is in a child of a vector, if there is one.
At(v, k) == IF k \in DOMAIN v.children THEN Amount(v.type, v.children[k]) ELSE 0

\* w is v, and has perhaps more children, with nothing in them, each of the labels
\* on one of the ways.
MoreOf(v, w, levels, ways) ==
    /\ SameVec(v, w)
    /\ \A k \in DOMAIN v.children : k \in DOMAIN w.children /\ w.children[k] = v.children[k]
    /\ \A k \in DOMAIN w.children \ DOMAIN v.children :
          /\ Holds(v.type, w.children[k]) /\ Amount(v.type, w.children[k]) = 0
          /\ \E p \in ways : /\ KeyOf(v, LabelMap(levels, p)) = k
                             /\ ToSet(w.children[k].label_pairs) = PairsOf(LabelMap(levels, p))

\* A key has to do with the descriptor only.
LEMMA KeySame ==
    ASSUME NEW v, NEW w, SameVec(v, w)
    PROVE  /\ \A labels : KeyOf(w, labels) = KeyOf(v, labels)
           /\ \A K : Accepts(w, K) <=> Accepts(v, K)
           /\ \A values : New(w, values) = New(v, values)
           /\ \A names : VecOf(v, names) => VecOf(w, names)
BY DEF SameVec, KeyOf, hash_label_values, LabelValues, Accepts, New, VecOf

\* What with gives in w, which is v and has more children, for the labels on a way.
LeafGiven(levels, v, names, w, ways, p, r) ==
    /\ r.ok <=> /\ Accepts(v, LabelKeys(levels))
                /\ \/ KeyOf(v, LabelMap(levels, p)) \in DOMAIN w.children
                   \/ New(v, InOrder(names, LabelMap(levels, p))).ok
    /\ r.ok => /\ r.v.key = KeyOf(v, LabelMap(levels, p))
               /\ DOMAIN r.v.vec.children = DOMAIN w.children \cup {r.v.key}
               /\ MoreOf(v, r.v.vec, levels, ways \cup {p})

\* A leaf is made: its child is there already, or is made.
LEMMA OneLeaf ==
    ASSUME NEW levels, Tree(levels), NEW v, NEW names, VecOf(v, names),
           NEW w, NEW ways, MoreOf(v, w, levels, ways),
           NEW p \in Ways(levels, Len(levels))
    PROVE  LeafGiven(levels, v, names, w, ways, p, GetMetricWith(w, LabelMap(levels, p)))
<1> DEFINE labels == LabelMap(levels, p)
           key == KeyOf(v, labels)
           m == New(v, InOrder(names, labels))
           more == [w EXCEPT !.children = With(@, key, m.v)]
           r == GetMetricWith(w, labels)
<1>1. SameVec(v, w) /\ VecOf(w, names)
  BY KeySame DEF MoreOf
<1>2. DOMAIN labels = LabelKeys(levels) /\ IsFiniteSet(LabelKeys(levels))
  BY ValuesOfWay, MeantKeys
<1>3. KeyOf(w, labels) = key /\ New(w, InOrder(names, labels)) = m
      /\ (Accepts(w, LabelKeys(levels)) <=> Accepts(v, LabelKeys(levels)))
  BY <1>1, KeySame
<1> HIDE DEF labels, key, m, r
<1>4. /\ r.ok <=> Accepts(w, DOMAIN labels) /\ (key \in DOMAIN w.children \/ m.ok)
      /\ r.ok => r.v.key = key /\ r.v.vec = IF key \in DOMAIN w.children THEN w ELSE more
  BY <1>1, <1>3, GetWith DEF labels, r
<1>5. r.ok <=> Accepts(v, LabelKeys(levels)) /\ (key \in DOMAIN w.children \/ m.ok)
  BY <1>2, <1>3, <1>4
<1>6. ASSUME r.ok
      PROVE  /\ DOMAIN r.v.vec.children = DOMAIN w.children \cup {key}
             /\ MoreOf(v, r.v.vec, levels, ways \cup {p})
  <2>1. CASE key \in DOMAIN w.children
    <3>1. r.v.vec = w
      BY <1>4, <1>6, <2>1
    <3>2. QED
      BY <2>1, <3>1 DEF MoreOf
  <2>2. CASE key \notin DOMAIN w.children
    <3> DEFINE f == With(w.children, key, m.v)
    <3>1. r.v.vec = [w EXCEPT !.children = f] /\ m.ok
      BY <1>4, <1>6, <2>2
    <3>2. DOMAIN f = DOMAIN w.children \cup {key} /\ f[key] = m.v
          /\ \A k \in DOMAIN w.children : f[k] = w.children[k]
      BY <2>2 DEF With
    <3> HIDE DEF f
    <3>3. SameVec(v, r.v.vec) /\ r.v.vec.children = f
      BY <1>1, <3>1 DEF SameVec, VecOf
    <3>4. /\ Holds(v.type, m.v) /\ Amount(v.type, m.v) = 0
          /\ ToSet(m.v.label_pairs) = {[name |-> n, value |-> labels[n]] : n \in ToSet(names)}
      BY <3>1, NewHolds DEF m
    <3>5. ToSet(names) = DOMAIN labels
      BY <1>2, <1>5, <1>6, AcceptedNames
    <3>6. ToSet(m.v.label_pairs) = PairsOf(labels)
      BY <3>4, <3>5 DEF PairsOf
    <3>7. \A k \in DOMAIN v.children : k \in DOMAIN f /\ f[k] = v.children[k]
      BY <3>2 DEF MoreOf
    <3>8. ASSUME NEW k \in DOMAIN f \ DOMAIN v.children
          PROVE  /\ Holds(v.type, f[k]) /\ Amount(v.type, f[k]) = 0
                 /\ \E q \in ways \cup {p} :
                       /\ KeyOf(v, LabelMap(levels, q)) = k
                       /\ ToSet(f[k].label_pairs) = PairsOf(LabelMap(levels, q))
      <4>1. CASE k = key
        BY <4>1, <3>2, <3>4, <3>6 DEF key, labels
      <4>2. CASE k # key
        <5>1. k \in DOMAIN w.children \ DOMAIN v.children /\ f[k] = w.children[k]
          BY <4>2, <3>2
        <5>2. QED
          BY <5>1 DEF MoreOf
      <4>3. QED
        BY <4>1, <4>2
    <3>9. MoreOf(v, r.v.vec, levels, ways \cup {p})
      BY <3>3, <3>7, <3>8 DEF MoreOf
    <3>10. QED
      BY <3>2, <3>3, <3>9
  <2>3. QED
    BY <2>1, <2>2
<1>7. QED
  BY <1>4, <1>5, <1>6 DEF LeafGiven, labels, key, m, r

\* The key of a leaf, and a leaf that has just been made.
KeyOn(levels, v, p) == KeyOf(v, LabelMap(levels, p))

\* from: the vector has perhaps more children, for the paths; if no leaf panics it
\* has those of all paths, and if the first one panics none.
LEMMA FromMakes ==
    ASSUME NEW levels, Tree(levels), DifferentFields(levels),
           NEW v, NEW names, VecOf(v, names)
    PROVE  LET done  == From(levels, v)
               paths == Paths(levels)
           IN  /\ MoreOf(v, done.vec, levels, ToSet(paths))
               /\ done.ok => \A n \in DOMAIN paths :
                     /\ KeyOn(levels, v, paths[n]) \in DOMAIN done.vec.children
                     /\ done.leaves[get_names(paths[n])]
                          = [key |-> KeyOn(levels, v, paths[n]), held |-> 0]
               /\ ~done.ok /\ DOMAIN v.children = {} => done.vec = v
<1> DEFINE paths == Paths(levels)
           N == Len(paths)
           key(n) == KeyOn(levels, v, paths[n])
           leaf(n) == [key |-> key(n), held |-> 0]
           D(n) == {paths[i] : i \in 1 .. n}
           field(n) == get_names(paths[n])
<1>1. N \in Nat /\ DOMAIN paths = 1 .. N /\ \A n \in 1 .. N : paths[n] \in Ways(levels, Len(levels))
  BY PathsAreWays, LenProperties, ElementOfSeq
<1>2. PICK g : /\ g[0] = [vec |-> v, leaves |-> << >>, ok |-> TRUE]
               /\ From(levels, v) = g[N]
               /\ \A n \in 1 .. N : g[n] = FromLeaf(levels, paths[n], g[n - 1])
  BY <1>1, FromSteps
<1> HIDE DEF paths, N
<1>3. \A i, j \in 1 .. N : field(i) = field(j) => paths[i] = paths[j]
  BY <1>1, NamesDecide
<1> DEFINE Able == /\ Accepts(v, LabelKeys(levels))
                   /\ \A n \in 1 .. N : New(v, InOrder(names, LabelMap(levels, paths[n]))).ok
           P(n) == /\ DOMAIN g[n] = {"vec", "leaves", "ok"}
                   /\ MoreOf(v, g[n].vec, levels, D(n))
                   /\ g[n].ok => \A i \in 1 .. n : /\ key(i) \in DOMAIN g[n].vec.children
                                                   /\ field(i) \in DOMAIN g[n].leaves
                                                   /\ g[n].leaves[field(i)] = leaf(i)
                   /\ DOMAIN v.children = {} =>
                         IF g[n].ok THEN n # 0 => Able ELSE g[n].vec = v
           G == {n \in Nat : n <= N => P(n)}
<1>4. ASSUME NEW i \in 1 .. N, NEW j \in 1 .. N,
             New(v, InOrder(names, LabelMap(levels, paths[i]))).ok
      PROVE  New(v, InOrder(names, LabelMap(levels, paths[j]))).ok
  <2>1. List(names)
    BY DEF VecOf
  <2>2. Len(InOrder(names, LabelMap(levels, paths[i])))
          = Len(InOrder(names, LabelMap(levels, paths[j])))
    BY <2>1, InOrderLen
  <2>3. QED
    BY <2>2, <1>4, NewOfAny
<1> HIDE DEF key, leaf, field
<1>5. 0 \in G
  <2>1. DOMAIN g[0] = {"vec", "leaves", "ok"} /\ g[0].vec = v /\ g[0].ok
    BY <1>2
  <2>2. MoreOf(v, v, levels, D(0))
    BY DEF MoreOf, SameVec
  <2> HIDE DEF D
  <2>3. QED
    BY <2>1, <2>2
<1>6. ASSUME NEW n \in G PROVE n + 1 \in G
  <2> SUFFICES ASSUME n + 1 <= N PROVE P(n + 1)
    OBVIOUS
  <2> DEFINE m == n + 1
             x == g[n]
             p == paths[m]
             r == GetMetricWith(x.vec, LabelMap(levels, p))
             new == [key |-> r.v.key, held |-> 0]
             l == With(x.leaves, field(m), new)
  <2>1. n \in Nat /\ P(n) /\ m \in 1 .. N /\ m - 1 = n /\ m # 0
        /\ (\A i \in 1 .. m : i \in 1 .. n \/ i = m)
        /\ (\A i \in 1 .. m : i \in 1 .. N)
    BY <1>1
  <2>2. g[m] = FromLeaf(levels, paths[m], x)
    <3>1. g[m] = FromLeaf(levels, paths[m], g[m - 1])
      BY <2>1, <1>2
    <3>2. QED
      BY <3>1, <2>1
  <2>3. g[m] = IF ~x.ok THEN x
               ELSE IF ~r.ok THEN [x EXCEPT !.ok = FALSE]
               ELSE [x EXCEPT !.vec = r.v.vec, !.leaves = l]
    BY <2>2 DEF FromLeaf, field
  <2>4. /\ DOMAIN x = {"vec", "leaves", "ok"}
        /\ MoreOf(v, x.vec, levels, D(n))
        /\ x.ok => \A i \in 1 .. n : /\ key(i) \in DOMAIN x.vec.children
                                     /\ field(i) \in DOMAIN x.leaves
                                     /\ x.leaves[field(i)] = leaf(i)
        /\ DOMAIN v.children = {} => IF x.ok THEN n # 0 => Able ELSE x.vec = v
    BY <2>1
  <2>5. D(m) = D(n) \cup {p}
    <3>1. \A i \in 1 .. n : i \in 1 .. m
      BY <2>1
    <3>2. m \in 1 .. m
      BY <2>1
    <3> HIDE DEF m
    <3>3. QED
      BY <3>1, <3>2, <2>1
  <2>6. p \in Ways(levels, Len(levels))
    BY <2>1, <1>1
  <2> HIDE DEF D, r, p, l, x, m, Able
  <2>7. /\ r.ok <=> /\ Accepts(v, LabelKeys(levels))
                    /\ \/ KeyOf(v, LabelMap(levels, p)) \in DOMAIN x.vec.children
                       \/ New(v, InOrder(names, LabelMap(levels, p))).ok
        /\ r.ok => /\ r.v.key = KeyOf(v, LabelMap(levels, p))
                   /\ DOMAIN r.v.vec.children = DOMAIN x.vec.children \cup {r.v.key}
                   /\ MoreOf(v, r.v.vec, levels, D(n) \cup {p})
    <3> DEFINE u == x.vec
               ways == D(n)
    <3>1. r = GetMetricWith(u, LabelMap(levels, p)) /\ MoreOf(v, u, levels, ways)
      BY <2>4 DEF r
    <3> HIDE DEF u, ways
    <3>2. LeafGiven(levels, v, names, u, ways, p, r)
      BY <3>1, <2>6, OneLeaf
    <3>3. QED
      BY <3>2 DEF LeafGiven, u, ways
  <2>8. \A w : MoreOf(v, w, levels, D(n)) => MoreOf(v, w, levels, D(m))
    BY <2>5 DEF MoreOf
  <2>9. CASE ~x.ok
    <3>1. g[m] = x
      BY <2>3, <2>9
    <3>2. P(m)
      BY <3>1, <2>4, <2>8, <2>9
    <3>3. QED
      BY <3>2 DEF m
  <2>10. CASE x.ok /\ ~r.ok
    <3>1. g[m] = [x EXCEPT !.ok = FALSE]
      BY <2>3, <2>10
    <3>2. DOMAIN g[m] = {"vec", "leaves", "ok"} /\ ~g[m].ok /\ g[m].vec = x.vec
      BY <3>1, <2>4
    <3>3. ASSUME DOMAIN v.children = {} PROVE x.vec = v
      <4>1. CASE n # 0
        <5>1. Able
          BY <4>1, <3>3, <2>4, <2>10
        <5>2. r.ok
          BY <5>1, <2>1, <2>7 DEF Able, p
        <5>3. QED
          BY <5>2, <2>10
      <4>2. CASE n = 0
        <5>1. g[0].vec = v
          BY <1>2
        <5>2. QED
          BY <4>2, <5>1 DEF x
      <4>3. QED
        BY <4>1, <4>2
    <3>4. P(m)
      BY <3>2, <3>3, <2>4, <2>8
    <3>5. QED
      BY <3>4 DEF m
  <2>11. CASE x.ok /\ r.ok
    <3>1. g[m] = [x EXCEPT !.vec = r.v.vec, !.leaves = l]
      BY <2>3, <2>11
    <3>2. DOMAIN g[m] = {"vec", "leaves", "ok"} /\ g[m].ok
          /\ g[m].vec = r.v.vec /\ g[m].leaves = l
      BY <3>1, <2>4, <2>11
    <3>3. key(m) = r.v.key /\ new = leaf(m)
      BY <2>7, <2>11 DEF key, KeyOn, p, leaf
    <3>4. DOMAIN l = DOMAIN x.leaves \cup {field(m)}
          /\ \A q \in DOMAIN l : l[q] = IF q = field(m) THEN new ELSE x.leaves[q]
      BY DEF l, With
    <3>5. ASSUME NEW i \in 1 .. m
          PROVE  /\ key(i) \in DOMAIN r.v.vec.children
                 /\ field(i) \in DOMAIN l /\ l[field(i)] = leaf(i)
      <4>1. CASE field(i) = field(m)
        <5>1. paths[i] = paths[m]
          BY <4>1, <1>3, <2>1
        <5>2. key(i) = key(m) /\ leaf(i) = leaf(m)
          BY <5>1 DEF key, leaf
        <5>3. QED
          BY <5>2, <4>1, <3>3, <3>4, <2>7, <2>11
      <4>2. CASE field(i) # field(m)
        <5>1. i \in 1 .. n
          BY <4>2, <2>1
        <5>2. QED
          BY <5>1, <4>2, <3>4, <2>4, <2>7, <2>11
      <4>3. QED
        BY <4>1, <4>2
    <3>6. ASSUME DOMAIN v.children = {} PROVE Able
      <4>1. CASE n # 0
        BY <4>1, <3>6, <2>4, <2>11
      <4>2. CASE n = 0
        <5>1. DOMAIN x.vec.children = {}
          BY <1>2, <3>6, <4>2 DEF x
        <5>2. Accepts(v, LabelKeys(levels)) /\ New(v, InOrder(names, LabelMap(levels, p))).ok
          BY <5>1, <2>7, <2>11
        <5>3. QED
          BY <5>2, <1>4, <2>1 DEF Able, p
      <4>3. QED
        BY <4>1, <4>2
    <3>7. P(m)
      BY <3>2, <3>5, <3>6, <2>5, <2>7, <2>11
    <3>8. QED
      BY <3>7 DEF m
  <2>12. QED
    BY <2>9, <2>10, <2>11
<1>7. N \in G
  <2>1. G \subseteq Nat
    OBVIOUS
  <2> HIDE DEF G
  <2>2. QED
    BY <2>1, <1>1, <1>5, <1>6, AllNumbers
<1> HIDE DEF Able, D
<1>8. P(N)
  BY <1>1, <1>7
<1>9. D(N) = ToSet(paths)
  BY <1>1 DEF ToSet, D
<1>10. QED
  BY <1>1, <1>2, <1>8, <1>9 DEF key, leaf, field, paths

-----------------------------------------------------------------------------
\* What is added to a child is in it, and nothing else of it changes.
AddedTo(type, m, n, sum) ==
    /\ Holds(type, sum) /\ sum.label_pairs = m.label_pairs
    /\ Amount(type, sum) = Amount(type, m) + n

LEMMA OneAdded ==
    ASSUME NEW type, NEW m, Holds(type, m)
    PROVE  AddedTo(type, m, 1, Updated(type, m, 1))
<1> DEFINE u == Updated(type, m, 1)
           counts == [i \in DOMAIN m.counts |->
                         IF /\ AtLeast(m.upper_bounds[i], 1)
                            /\ \A j \in 1 .. (i - 1) : ~AtLeast(m.upper_bounds[j], 1)
                         THEN m.counts[i] + 1 ELSE m.counts[i]]
<1>1. CASE type # "HISTOGRAM"
  <2>1. u = [m EXCEPT !.val = m.val + 1]
    BY <1>1 DEF Updated
  <2> HIDE DEF u
  <2>2. DOMAIN u = DOMAIN m /\ u.val = m.val + 1 /\ u.label_pairs = m.label_pairs
    BY <1>1, <2>1 DEF Holds
  <2>3. QED
    BY <1>1, <2>2 DEF AddedTo, Holds, Amount, u
<1>2. CASE type = "HISTOGRAM"
  <2>1. u = [m EXCEPT !.count = m.count + 1, !.sum = m.sum + 1, !.counts = counts]
    BY <1>2 DEF Updated
  <2> HIDE DEF u, counts
  <2>2. DOMAIN u = DOMAIN m /\ u.count = m.count + 1 /\ u.label_pairs = m.label_pairs
    BY <1>2, <2>1 DEF Holds
  <2>3. QED
    BY <1>2, <2>2 DEF AddedTo, Holds, Amount, u
<1>3. QED
  BY <1>1, <1>2

LEMMA SumAdded ==
    ASSUME NEW type, NEW m, Holds(type, m), NEW n \in Nat
    PROVE  AddedTo(type, m, n, Refilled(type, m, n))
<1> DEFINE u == Refilled(type, m, n)
           once == Updated(type, m, 1)
           counts == [i \in DOMAIN m.counts |->
                         m.counts[i] + n * (once.counts[i] - m.counts[i])]
<1>1. CASE type # "HISTOGRAM"
  <2>1. u = [m EXCEPT !.val = m.val + n]
    BY <1>1 DEF Refilled, Updated
  <2> HIDE DEF u
  <2>2. DOMAIN u = DOMAIN m /\ u.val = m.val + n /\ u.label_pairs = m.label_pairs
    BY <1>1, <2>1 DEF Holds
  <2>3. QED
    BY <1>1, <2>2 DEF AddedTo, Holds, Amount, u
<1>2. CASE type = "HISTOGRAM"
  <2>1. u = [m EXCEPT !.count = m.count + n, !.sum = m.sum + n, !.counts = counts]
    BY <1>2 DEF Refilled
  <2> HIDE DEF u, counts
  <2>2. DOMAIN u = DOMAIN m /\ u.count = m.count + n /\ u.label_pairs = m.label_pairs
    BY <1>2, <2>1 DEF Holds
  <2>3. QED
    BY <1>2, <2>2 DEF AddedTo, Holds, Amount, u
<1>3. QED
  BY <1>1, <1>2

\* w is v, with the same children, and perhaps other amounts in them.
Children(v) ==
    /\ {"type", "opts", "buckets", "descs", "children"} \subseteq DOMAIN v
    /\ \A k \in DOMAIN v.children : Holds(v.type, v.children[k])
SameChildren(v, w) ==
    /\ SameVec(v, w) /\ Children(w) /\ DOMAIN w.children = DOMAIN v.children
    /\ \A k \in DOMAIN v.children : w.children[k].label_pairs = v.children[k].label_pairs

\* w is v, and in one child is more.
Raised(v, c, n, w) ==
    /\ SameChildren(v, w)
    /\ \A k \in DOMAIN v.children : At(w, k) = At(v, k) + (IF k = c THEN n ELSE 0)

\* Something is added to one child of a vector.
LEMMA ChildAdded ==
    ASSUME NEW v, Children(v), NEW c \in DOMAIN v.children, NEW n \in Nat,
           NEW m, AddedTo(v.type, v.children[c], n, m),
           NEW w, w = [v EXCEPT !.children = [v.children EXCEPT ![c] = m]]
    PROVE  Raised(v, c, n, w)
<1> DEFINE f == [v.children EXCEPT ![c] = m]
<1>1. DOMAIN f = DOMAIN v.children
      /\ \A k \in DOMAIN v.children : f[k] = IF k = c THEN m ELSE v.children[k]
  OBVIOUS
<1> HIDE DEF f
<1>2. SameVec(v, w) /\ w.children = f
  BY DEF SameVec, Children, f
<1>3. SameChildren(v, w)
  BY <1>1, <1>2 DEF SameChildren, SameVec, Children, AddedTo
<1>4. ASSUME NEW k \in DOMAIN v.children
      PROVE  At(w, k) = At(v, k) + (IF k = c THEN n ELSE 0)
  <2>1. At(w, k) = Amount(v.type, f[k]) /\ At(v, k) = Amount(v.type, v.children[k])
    BY <1>1, <1>2 DEF At, SameVec
  <2>2. Amount(v.type, v.children[k]) \in Nat
    BY DEF Children, Holds, Amount
  <2>3. CASE k = c
    BY <2>1, <2>3, <1>1 DEF AddedTo
  <2>4. CASE k # c
    BY <2>1, <2>2, <2>4, <1>1
  <2>5. QED
    BY <2>3, <2>4
<1>5. QED
  BY <1>3, <1>4 DEF Raised

LEMMA SameChildrenTwice ==
    ASSUME NEW u, NEW v, NEW w, SameChildren(u, v), SameChildren(v, w)
    PROVE  SameChildren(u, w)
BY DEF SameChildren, SameVec

-----------------------------------------------------------------------------
\* Leaves, each of which holds a number for the child of its key.
Leaves(leaves) ==
    /\ IsFiniteSet(DOMAIN leaves)
    /\ \A p \in DOMAIN leaves : {"key", "held"} \subseteq DOMAIN leaves[p]
                                /\ leaves[p].held \in Nat

\* Of two roots, the same leaves but for what is held.
SameLeaves(l, m) ==
    /\ Leaves(m) /\ DOMAIN m = DOMAIN l
    /\ \A p \in DOMAIN l : DOMAIN m[p] = DOMAIN l[p] /\ m[p].key = l[p].key

\* What a root holds for a child is a number.
LEMMA HeldType ==
    ASSUME NEW l, Leaves(l), NEW k
    PROVE  HeldIn(l, k) \in Nat
<1> DEFINE f == [p \in DOMAIN l |-> IF l[p].key = k THEN l[p].held ELSE 0]
<1>1. f \in [DOMAIN l -> Nat] /\ IsFiniteSet(DOMAIN l)
  BY DEF Leaves
<1> HIDE DEF f
<1>2. SumFunction(f) \in Nat
  BY <1>1, SumIsNat
<1>3. QED
  BY <1>2 DEF HeldIn, f

\* m is l, and one leaf holds n.
Refills(l, q, n, m) ==
    /\ SameLeaves(l, m) /\ m[q].held = n
    /\ \A p \in DOMAIN l \ {q} : m[p] = l[p]
    /\ \A k : HeldIn(m, k) = IF l[q].key = k THEN HeldIn(l, k) - l[q].held + n
                             ELSE HeldIn(l, k)

\* One leaf holds something else.
LEMMA HeldElse ==
    ASSUME NEW l, Leaves(l), NEW q \in DOMAIN l, NEW n \in Nat,
           NEW m, m = [l EXCEPT ![q] = [l[q] EXCEPT !.held = n]]
    PROVE  Refills(l, q, n, m)
<1>1. DOMAIN m = DOMAIN l
      /\ \A p \in DOMAIN l : m[p] = IF p = q THEN [l[q] EXCEPT !.held = n] ELSE l[p]
  OBVIOUS
<1>2. \A p \in DOMAIN l :
         /\ DOMAIN m[p] = DOMAIN l[p] /\ m[p].key = l[p].key
         /\ m[p].held = IF p = q THEN n ELSE l[p].held
  BY <1>1 DEF Leaves
<1>3. SameLeaves(l, m)
  BY <1>1, <1>2 DEF SameLeaves, Leaves
<1>4. ASSUME NEW k
      PROVE  HeldIn(m, k) = IF l[q].key = k THEN HeldIn(l, k) - l[q].held + n ELSE HeldIn(l, k)
  <2> DEFINE f == [p \in DOMAIN l |-> IF l[p].key = k THEN l[p].held ELSE 0]
             g == [p \in DOMAIN l |-> IF m[p].key = k THEN m[p].held ELSE 0]
  <2>1. HeldIn(l, k) = SumFunction(f) /\ HeldIn(m, k) = SumFunction(g)
    BY <1>1 DEF HeldIn
  <2>2. f \in [DOMAIN l -> Int] /\ g \in [DOMAIN l -> Int] /\ IsFiniteSet(DOMAIN l)
    BY <1>2 DEF Leaves
  <2>3. \A p \in DOMAIN l \ {q} : f[p] = g[p]
    BY <1>2
  <2>4. /\ f[q] = IF l[q].key = k THEN l[q].held ELSE 0
        /\ g[q] = IF l[q].key = k THEN n ELSE 0
    BY <1>2
  <2> HIDE DEF f, g
  <2>5. SumFunction(g) = SumFunction(f) - f[q] + g[q] /\ SumFunction(f) \in Int
    BY <2>2, <2>3, SumUpdate, SumIsInt
  <2>6. l[q].held \in Int
    BY DEF Leaves
  <2>7. QED
    BY <2>1, <2>4, <2>5, <2>6
<1>5. QED
  BY <1>1, <1>2, <1>3, <1>4 DEF Refills

\* What is in the children and in the leaves of a root is moved, not changed.
Moved(v, l, w, m) ==
    /\ SameChildren(v, w) /\ SameLeaves(l, m)
    /\ \A k \in DOMAIN v.children : At(w, k) + HeldIn(m, k) = At(v, k) + HeldIn(l, k)

\* A flush of a leaf moves what it holds.
LEMMA LeafMoves ==
    ASSUME NEW v, Children(v), NEW l, Leaves(l), NEW q \in DOMAIN l,
           l[q].key \in DOMAIN v.children
    PROVE  LET done == FlushLeaf([vec |-> v, leaves |-> l], q)
           IN  Moved(v, l, done.vec, done.leaves)
<1> DEFINE done == FlushLeaf([vec |-> v, leaves |-> l], q)
           w == done.vec
           m == done.leaves
           c == l[q].key
           n == l[q].held
           sum == Refilled(v.type, v.children[c], n)
<1>1. /\ w = [v EXCEPT !.children = [v.children EXCEPT ![c] = sum]]
      /\ m = [l EXCEPT ![q] = [l[q] EXCEPT !.held = 0]]
  BY DEF FlushLeaf
<1>2. n \in Nat /\ AddedTo(v.type, v.children[c], n, sum)
  BY SumAdded DEF Leaves, Children
<1> HIDE DEF done, w, m, n, c, sum
<1>3. c \in DOMAIN v.children
  BY DEF c
<1>4. /\ SameChildren(v, w)
      /\ \A k \in DOMAIN v.children : At(w, k) = At(v, k) + (IF k = c THEN n ELSE 0)
  <2>1. Raised(v, c, n, w)
    BY <1>1, <1>2, <1>3, ChildAdded
  <2>2. QED
    BY <2>1 DEF Raised
<1>5. /\ SameLeaves(l, m)
      /\ \A k : HeldIn(m, k) = IF c = k THEN HeldIn(l, k) - n + 0 ELSE HeldIn(l, k)
  <2>1. m = [l EXCEPT ![q] = [l[q] EXCEPT !.held = 0]] /\ 0 \in Nat
    BY <1>1
  <2>2. Refills(l, q, 0, m)
    BY <2>1, HeldElse
  <2>3. QED
    BY <2>2 DEF Refills, c, n
<1>6. ASSUME NEW k \in DOMAIN v.children
      PROVE  At(w, k) + HeldIn(m, k) = At(v, k) + HeldIn(l, k)
  <2>1. HeldIn(l, k) \in Int
    BY HeldType
  <2>2. At(v, k) \in Int
    BY DEF At, Children, Holds, Amount
  <2>3. QED
    BY <2>1, <2>2, <1>2, <1>4, <1>5
<1>7. Moved(v, l, w, m)
  BY <1>4, <1>5, <1>6 DEF Moved
<1>8. QED
  BY <1>7 DEF done, w, m

LEMMA MovedTwice ==
    ASSUME NEW u, NEW j, NEW v, NEW l, NEW w, NEW m, Moved(u, j, v, l), Moved(v, l, w, m)
    PROVE  Moved(u, j, w, m)
<1>1. SameChildren(u, w)
  BY SameChildrenTwice DEF Moved
<1>2. SameLeaves(j, m)
  BY DEF Moved, SameLeaves
<1>3. DOMAIN v.children = DOMAIN u.children
  BY DEF Moved, SameChildren
<1>4. QED
  BY <1>1, <1>2, <1>3 DEF Moved

\* So does a flush of a root.
LEMMA FlushMoves ==
    ASSUME NEW levels, Tree(levels), NEW v, Children(v), NEW l, Leaves(l),
           \A n \in DOMAIN Paths(levels) : get_names(Paths(levels)[n]) \in DOMAIN l,
           \A p \in DOMAIN l : l[p].key \in DOMAIN v.children
    PROVE  LET done == FlushTree(Paths(levels), [vec |-> v, leaves |-> l])
           IN  Moved(v, l, done.vec, done.leaves)
<1> DEFINE paths == Paths(levels)
           N == Len(paths)
           acc == [vec |-> v, leaves |-> l]
<1>1. N \in Nat /\ DOMAIN paths = 1 .. N
  BY PathsAreWays, LenProperties
<1> HIDE DEF paths, acc
<1>2. PICK g : /\ g[0] = acc
               /\ FlushTree(paths, acc) = g[N]
               /\ \A n \in 1 .. N : g[n] = FlushLeaf(g[n - 1], get_names(paths[n]))
  BY <1>1, FlushSteps
<1> HIDE DEF N
<1> DEFINE P(n) == /\ g[n] = [vec |-> g[n].vec, leaves |-> g[n].leaves]
                   /\ Moved(v, l, g[n].vec, g[n].leaves)
           G == {n \in Nat : n <= N => P(n)}
<1>3. 0 \in G
  <2>1. g[0] = [vec |-> v, leaves |-> l]
    BY <1>2 DEF acc
  <2>2. Moved(v, l, v, l)
    BY DEF Moved, SameChildren, SameVec, SameLeaves
  <2>3. QED
    BY <2>1, <2>2
<1>4. ASSUME NEW n \in G PROVE n + 1 \in G
  <2> SUFFICES ASSUME n + 1 <= N PROVE P(n + 1)
    OBVIOUS
  <2> DEFINE m == n + 1
             q == get_names(paths[m])
             w == g[n].vec
             k == g[n].leaves
  <2>1. n \in Nat /\ P(n) /\ m \in 1 .. N /\ m - 1 = n
    BY <1>1
  <2>2. g[m] = FlushLeaf([vec |-> w, leaves |-> k], q)
    <3>1. g[m] = FlushLeaf(g[m - 1], q)
      BY <2>1, <1>2
    <3>2. QED
      BY <3>1, <2>1
  <2>3. Moved(v, l, w, k)
    BY <2>1
  <2>4. q \in DOMAIN l
    BY <2>1, <1>1 DEF paths
  <2> HIDE DEF q, w, k, m
  <2>5. Children(w) /\ Leaves(k) /\ q \in DOMAIN k /\ k[q].key \in DOMAIN w.children
    BY <2>3, <2>4 DEF Moved, SameChildren, SameLeaves
  <2> DEFINE done == FlushLeaf([vec |-> w, leaves |-> k], q)
  <2>6. done = [vec |-> done.vec, leaves |-> done.leaves]
    BY DEF FlushLeaf
  <2>7. Moved(w, k, done.vec, done.leaves)
    BY <2>5, LeafMoves
  <2> HIDE DEF done
  <2>8. Moved(v, l, done.vec, done.leaves)
    BY <2>3, <2>7, MovedTwice
  <2>9. g[m] = done
    BY <2>2 DEF done
  <2>10. P(m)
    BY <2>6, <2>8, <2>9
  <2>11. QED
    BY <2>10 DEF m
<1>5. N \in G
  <2>1. G \subseteq Nat
    OBVIOUS
  <2> HIDE DEF G
  <2>2. QED
    BY <2>1, <1>1, <1>3, <1>4, AllNumbers
<1>6. P(N)
  BY <1>1, <1>5
<1>7. QED
  BY <1>2, <1>6 DEF paths, acc

-----------------------------------------------------------------------------
\* One more is counted under labels.
LEMMA CountedMore ==
    ASSUME NEW v, NEW f, f \in [DOMAIN f -> Nat], IsFiniteSet(DOMAIN f), NEW l,
           NEW g, g = With(f, l, Count(f, l) + 1)
    PROVE  /\ g \in [DOMAIN g -> Nat] /\ IsFiniteSet(DOMAIN g) /\ DOMAIN g # {}
           /\ \A k : MadeFor(v, g, k) = MadeFor(v, f, k) + (IF KeyOf(v, l) = k THEN 1 ELSE 0)
<1> DEFINE S == DOMAIN f \cup {l}
<1>1. DOMAIN g = S /\ Count(f, l) \in Nat
      /\ \A x \in S : g[x] = IF x = l THEN Count(f, l) + 1 ELSE f[x]
  BY DEF With, Count
<1>2. IsFiniteSet(S)
  BY FS_AddElement
<1>3. g \in [S -> Nat]
  <2>1. g = [x \in S |-> g[x]]
    BY DEF With
  <2>2. \A x \in S : g[x] \in Nat
    BY <1>1
  <2> HIDE DEF S
  <2>3. QED
    BY <2>1, <2>2
<1>4. ASSUME NEW k
      PROVE  MadeFor(v, g, k) = MadeFor(v, f, k) + (IF KeyOf(v, l) = k THEN 1 ELSE 0)
  <2> DEFINE a == [x \in DOMAIN f |-> IF KeyOf(v, x) = k THEN f[x] ELSE 0]
             b == [x \in S |-> IF KeyOf(v, x) = k THEN g[x] ELSE 0]
             R == S \ {l}
  <2>1. MadeFor(v, f, k) = SumFunction(a) /\ MadeFor(v, g, k) = SumFunction(b)
    BY <1>1 DEF MadeFor
  <2>2. DOMAIN a = DOMAIN f /\ DOMAIN b = S
    BY <1>1
  <2>3. \A x \in DOMAIN f : a[x] \in Int
    OBVIOUS
  <2>4. \A x \in S : b[x] \in Int
    BY <1>3
  <2>5. \A x \in R : a[x] = b[x]
    BY <1>1
  <2>6. b[l] = IF KeyOf(v, l) = k THEN Count(f, l) + 1 ELSE 0
    BY <1>1
  <2>7. l \in DOMAIN f => a[l] = IF KeyOf(v, l) = k THEN Count(f, l) ELSE 0
    BY DEF Count
  <2>8. l \notin DOMAIN f => Count(f, l) = 0
    BY DEF Count
  <2> HIDE DEF a, b
  <2>9. SumFunction(a) = SumFunctionOnSet(a, DOMAIN f) /\ SumFunction(b) = SumFunctionOnSet(b, S)
    BY <2>2 DEF SumFunction
  <2>10. l \in S /\ IsFiniteSet(R)
    BY <1>2, FS_RemoveElement
  <2> HIDE DEF S
  <2>11. SumFunctionOnSet(b, S) = b[l] + SumFunctionOnSet(b, R)
    BY <1>2, <2>4, <2>10, SumRemove
  <2>12. SumFunctionOnSet(a, R) = SumFunctionOnSet(b, R)
    BY <2>5, <2>10, SumSame
  <2>13. SumFunctionOnSet(b, R) \in Int
    BY <2>4, <2>10, SumType
  <2>14. CASE l \in DOMAIN f
    <3>1. R = DOMAIN f \ {l}
      BY <2>14 DEF S
    <3> HIDE DEF R
    <3>2. SumFunctionOnSet(a, DOMAIN f) = a[l] + SumFunctionOnSet(a, R)
      BY <2>3, <2>14, <3>1, SumRemove
    <3>3. QED
      BY <1>1, <2>1, <2>6, <2>7, <2>9, <2>11, <2>12, <2>13, <2>14, <3>2
  <2>15. CASE l \notin DOMAIN f
    <3>1. R = DOMAIN f
      BY <2>15 DEF S
    <3> HIDE DEF R
    <3>2. QED
      BY <1>1, <2>1, <2>6, <2>8, <2>9, <2>11, <2>12, <2>13, <2>15, <3>1
  <2>16. QED
    BY <2>14, <2>15
<1>5. QED
  BY <1>1, <1>2, <1>3, <1>4

\* Roots, finitely many.
Roots(owned) == IsFiniteSet(DOMAIN owned) /\ \A o \in DOMAIN owned : Leaves(owned[o])

\* Nothing is held in new leaves, nor by no roots.
LEMMA NothingHeld ==
    /\ \A l, k : Leaves(l) /\ (\A p \in DOMAIN l : l[p].held = 0) => HeldIn(l, k) = 0
    /\ \A k : HeldFor(<< >>, k) = 0
    /\ \A v, k : MadeFor(v, << >>, k) = 0
<1>1. ASSUME NEW l, NEW k, Leaves(l), \A p \in DOMAIN l : l[p].held = 0
      PROVE  HeldIn(l, k) = 0
  <2> DEFINE f == [p \in DOMAIN l |-> IF l[p].key = k THEN l[p].held ELSE 0]
  <2>1. f \in [DOMAIN l -> Int] /\ IsFiniteSet(DOMAIN l) /\ \A p \in DOMAIN l : f[p] = 0
    BY <1>1 DEF Leaves
  <2> HIDE DEF f
  <2>2. SumFunction(f) = 0
    BY <2>1, SumZero
  <2>3. QED
    BY <2>2 DEF HeldIn, f
<1>2. ASSUME NEW f, DOMAIN f = {} PROVE SumFunction(f) = 0
  <2>1. IsFiniteSet({})
    BY FS_EmptySet
  <2>2. QED
    BY <1>2, <2>1, SumFirst DEF SumFunction
<1>3. ASSUME NEW k PROVE HeldFor(<< >>, k) = 0
  <2> DEFINE f == [o \in DOMAIN << >> |-> HeldIn(<< >>[o], k)]
  <2>1. DOMAIN f = {}
    OBVIOUS
  <2> HIDE DEF f
  <2>2. QED
    BY <2>1, <1>2 DEF HeldFor, f
<1>4. ASSUME NEW v, NEW k PROVE MadeFor(v, << >>, k) = 0
  <2> DEFINE f == [l \in DOMAIN << >> |-> IF KeyOf(v, l) = k THEN << >>[l] ELSE 0]
  <2>1. DOMAIN f = {}
    OBVIOUS
  <2> HIDE DEF f
  <2>2. QED
    BY <2>1, <1>2 DEF MadeFor, f
<1>5. QED
  BY <1>1, <1>3, <1>4

\* What roots hold is a number.
LEMMA HeldForType ==
    ASSUME NEW owned, Roots(owned), NEW k
    PROVE  HeldFor(owned, k) \in Nat
<1> DEFINE f == [o \in DOMAIN owned |-> HeldIn(owned[o], k)]
<1>1. f \in [DOMAIN owned -> Nat] /\ IsFiniteSet(DOMAIN owned)
  BY HeldType DEF Roots
<1> HIDE DEF f
<1>2. SumFunction(f) \in Nat
  BY <1>1, SumIsNat
<1>3. QED
  BY <1>2 DEF HeldFor, f

\* Of other roots, one is l in place of what it was.
Replaced(owned, o, l, other) ==
    /\ Roots(other)
    /\ \A k : HeldFor(other, k) = HeldFor(owned, k) - HeldIn(owned[o], k) + HeldIn(l, k)

\* One root holds something else.
LEMMA RootElse ==
    ASSUME NEW owned, Roots(owned), NEW o \in DOMAIN owned, NEW l, Leaves(l),
           NEW other, other = [owned EXCEPT ![o] = l]
    PROVE  Replaced(owned, o, l, other)
<1> DEFINE S == DOMAIN owned
<1>1. DOMAIN other = S /\ \A u \in S : other[u] = IF u = o THEN l ELSE owned[u]
  OBVIOUS
<1>2. Roots(other)
  BY <1>1 DEF Roots
<1>3. ASSUME NEW k
      PROVE  HeldFor(other, k) = HeldFor(owned, k) - HeldIn(owned[o], k) + HeldIn(l, k)
  <2> DEFINE f == [u \in S |-> HeldIn(owned[u], k)]
             g == [u \in S |-> HeldIn(other[u], k)]
  <2>1. f \in [S -> Int] /\ g \in [S -> Int] /\ IsFiniteSet(S)
    <3>1. \A u \in S : HeldIn(owned[u], k) \in Int /\ HeldIn(other[u], k) \in Int
      BY <1>1, <1>2, HeldType DEF Roots
    <3>2. QED
      BY <3>1 DEF Roots
  <2>2. HeldFor(owned, k) = SumFunction(f) /\ HeldFor(other, k) = SumFunction(g)
    BY <1>1 DEF HeldFor
  <2>3. f[o] = HeldIn(owned[o], k) /\ g[o] = HeldIn(l, k) /\ \A u \in S \ {o} : f[u] = g[u]
    BY <1>1
  <2> HIDE DEF f, g, S
  <2>4. o \in S
    BY DEF S
  <2>5. SumFunction(g) = SumFunction(f) - f[o] + g[o]
    BY <2>1, <2>3, <2>4, SumUpdate
  <2>6. QED
    BY <2>2, <2>3, <2>5
<1>4. QED
  BY <1>2, <1>3 DEF Replaced

\* Of other roots, there is one more, l.
Grown(owned, l, other) ==
    /\ Roots(other)
    /\ \A k : HeldFor(other, k) = HeldFor(owned, k) + HeldIn(l, k)

\* There is one more root.
LEMMA OneMoreRoot ==
    ASSUME NEW owned, Roots(owned), NEW o, o \notin DOMAIN owned, NEW l, Leaves(l),
           NEW other, other = With(owned, o, l)
    PROVE  Grown(owned, l, other)
<1> DEFINE S == DOMAIN owned \cup {o}
<1>1. DOMAIN other = S /\ \A u \in S : other[u] = IF u = o THEN l ELSE owned[u]
  BY DEF With
<1>2. Roots(other)
  <2>1. IsFiniteSet(S)
    BY FS_AddElement DEF Roots
  <2>2. QED
    BY <1>1, <2>1 DEF Roots
<1>3. ASSUME NEW k PROVE HeldFor(other, k) = HeldFor(owned, k) + HeldIn(l, k)
  <2> DEFINE f == [u \in DOMAIN owned |-> HeldIn(owned[u], k)]
             g == [u \in S |-> HeldIn(other[u], k)]
  <2>1. \A u \in S : g[u] \in Int
    <3>1. \A u \in S : HeldIn(other[u], k) \in Int
      BY <1>1, <1>2, HeldType DEF Roots
    <3>2. QED
      BY <3>1
  <2>2. HeldFor(owned, k) = SumFunction(f) /\ HeldFor(other, k) = SumFunction(g)
    BY <1>1 DEF HeldFor
  <2>3. /\ g[o] = HeldIn(l, k) /\ \A u \in DOMAIN owned : f[u] = g[u]
        /\ DOMAIN f = DOMAIN owned /\ DOMAIN g = S
    BY <1>1
  <2> HIDE DEF f, g
  <2>4. SumFunction(f) = SumFunctionOnSet(f, DOMAIN owned) /\ SumFunction(g) = SumFunctionOnSet(g, S)
    BY <2>3 DEF SumFunction
  <2>5. S \ {o} = DOMAIN owned /\ o \in S /\ IsFiniteSet(S) /\ IsFiniteSet(DOMAIN owned)
    BY <1>1, <1>2 DEF Roots
  <2> HIDE DEF S
  <2>6. SumFunctionOnSet(g, S) = g[o] + SumFunctionOnSet(g, S \ {o})
    BY <2>1, <2>5, SumRemove
  <2>7. SumFunctionOnSet(f, DOMAIN owned) = SumFunctionOnSet(g, DOMAIN owned)
    BY <2>3, <2>5, SumSame
  <2>8. HeldFor(owned, k) \in Int /\ HeldIn(l, k) \in Int
    BY HeldForType, HeldType
  <2>9. QED
    BY <2>2, <2>3, <2>4, <2>5, <2>6, <2>7, <2>8
<1>4. QED
  BY <1>2, <1>3 DEF Grown

\* Of some numbers up to n, one is the least.
LEMMA LeastIndex ==
    ASSUME NEW n \in Nat, NEW J \in SUBSET (1 .. n), J # {}
    PROVE  Min(J) \in J
<1> DEFINE Free(k) == \A j \in J : j > k
           G == {k \in Nat : Free(k)}
<1> SUFFICES ASSUME Min(J) \notin J PROVE FALSE
  OBVIOUS
<1>1. ~ \E j \in J : \A y \in J : j =< y
  BY DEF Min
<1>2. 0 \in G
  OBVIOUS
<1>3. ASSUME NEW k \in G PROVE k + 1 \in G
  <2>1. k \in Nat /\ Free(k)
    OBVIOUS
  <2>2. k + 1 \notin J
    <3>1. ASSUME k + 1 \in J PROVE \A y \in J : k + 1 =< y
      BY <2>1
    <3>2. QED
      BY <3>1, <1>1
  <2>3. Free(k + 1)
    BY <2>1, <2>2
  <2>4. QED
    BY <2>1, <2>3
<1>4. n \in G
  <2>1. G \subseteq Nat
    OBVIOUS
  <2> HIDE DEF G
  <2>2. QED
    BY <2>1, <1>2, <1>3, AllNumbers
<1>5. Free(n)
  BY <1>4
<1>6. PICK j \in J : j \in 1 .. n
  OBVIOUS
<1>7. QED
  BY <1>5, <1>6

\* What a step of an access leads to is a definition of its level, of the value
\* that is meant.
LEMMA StepMeans ==
    ASSUME NEW level, level.defs \in Seq(ToSet(level.defs)),
           NEW s \in Steps(level), s.field # "None"
    PROVE  \E d \in ToSet(level.defs) : d.name = s.field /\ d.value = s.value
<1> DEFINE defs == level.defs
           N == Len(defs)
<1>1. N \in Nat /\ DOMAIN defs = 1 .. N
  BY LenProperties
<1>2. CASE \E d \in ToSet(defs) : s = [value |-> d.value, field |-> d.name]
  BY <1>2
<1>3. CASE \E d \in ToSet(defs) : s = [value |-> d.value, field |-> get(level, d.name)]
  <2>1. PICK j \in DOMAIN defs : s = [value |-> defs[j].value, field |-> get(level, defs[j].name)]
    BY <1>3 DEF ToSet
  <2> DEFINE i == CHOOSE k \in DOMAIN defs : get_names(defs)[k] = defs[j].name
  <2>2. \A k \in DOMAIN defs : get_names(defs)[k] = defs[k].name
    BY DEF get_names
  <2>3. i \in DOMAIN defs /\ get_names(defs)[i] = defs[j].name
    BY <2>2
  <2>4. get(level, defs[j].name) = defs[i].name
    BY DEF get
  <2> HIDE DEF i
  <2>5. s.field = defs[j].name /\ s.value = defs[j].value
    BY <2>1, <2>2, <2>3, <2>4
  <2>6. QED
    BY <2>5 DEF ToSet
<1>4. CASE \E v \in ToSet(get_values(defs)) : s = [value |-> v, field |-> try_get(level, v)]
  <2>1. PICK v : s = [value |-> v, field |-> try_get(level, v)]
    BY <1>4
  <2> DEFINE found == {i \in DOMAIN defs : get_values(defs)[i] = v}
  <2>2. try_get(level, v) = IF found = {} THEN "None" ELSE defs[Min(found)].name
    BY DEF try_get
  <2>3. \A k \in DOMAIN defs : get_values(defs)[k] = defs[k].value
    BY DEF get_values
  <2>4. s.field = try_get(level, v) /\ s.value = v
    BY <2>1
  <2>5. found # {} /\ found \in SUBSET (1 .. N)
    BY <1>1, <2>2, <2>4
  <2>6. Min(found) \in found
    <3> HIDE DEF found
    <3>1. QED
      BY <1>1, <2>5, LeastIndex
  <2>7. PICK k \in DOMAIN defs : k = Min(found) /\ get_values(defs)[k] = v
    BY <2>6
  <2>8. defs[k].name = s.field /\ defs[k].value = s.value
    <3> HIDE DEF found
    <3>1. QED
      BY <2>2, <2>3, <2>4, <2>5, <2>7
  <2>9. QED
    BY <2>8 DEF ToSet
<1>5. QED
  BY <1>2, <1>3, <1>4 DEF Steps


\* An access is along a path: what it means is what the path stands for.
LEMMA AccessAlong ==
    ASSUME Tree(Levels), NEW access \in Accesses
    PROVE  \E n \in DOMAIN Paths(Levels) :
              /\ [i \in DOMAIN access |-> access[i].field] = get_names(Paths(Levels)[n])
              /\ Meant(Levels, [i \in DOMAIN access |-> access[i].value])
                    = LabelMap(Levels, Paths(Levels)[n])
<1> DEFINE d == [i \in DOMAIN Levels |->
                    CHOOSE x \in ToSet(Levels[i].defs) :
                        x.name = access[i].field /\ x.value = access[i].value]
<1>1. DOMAIN access = DOMAIN Levels
      /\ \A i \in DOMAIN Levels : access[i] \in Steps(Levels[i]) /\ access[i].field # "None"
  BY DEF Accesses
<1>2. \A i \in DOMAIN Levels : Levels[i].defs \in Seq(ToSet(Levels[i].defs))
  BY DEF Tree
<1>3. ASSUME NEW i \in DOMAIN Levels
      PROVE  /\ d[i] \in ToSet(Levels[i].defs)
             /\ d[i].name = access[i].field /\ d[i].value = access[i].value
  <2>1. \E x \in ToSet(Levels[i].defs) : x.name = access[i].field /\ x.value = access[i].value
    BY <1>1, <1>2, StepMeans
  <2>2. QED
    BY <2>1
<1>4. d = [i \in DOMAIN Levels |-> d[i]] /\ DOMAIN d = DOMAIN Levels
  OBVIOUS
<1> HIDE DEF d
<1>5. PICK n \in DOMAIN Paths(Levels) : Paths(Levels)[n] = d
  BY <1>3, <1>4, PathOf
<1>6. [i \in DOMAIN access |-> access[i].field] = get_names(d)
  BY <1>1, <1>3, <1>4 DEF get_names
<1> DEFINE c == [i \in DOMAIN access |-> access[i].value]
<1>7. /\ DOMAIN c = DOMAIN d
      /\ \A i \in DOMAIN d : c[i] = d[i].value
  BY <1>1, <1>3, <1>4
<1> HIDE DEF c
<1>8. [i \in DOMAIN c |-> <<Levels[i].label_key, c[i]>>]
        = [i \in DOMAIN d |-> <<Levels[i].label_key, d[i].value>>]
  BY <1>7
<1>9. Meant(Levels, c) = LabelMap(Levels, d)
  BY <1>8 DEF Meant, LabelMap
<1>10. QED
  BY <1>5, <1>6, <1>9 DEF c

\* An access leads to the leaf of what it means.
LEMMA AccessLeads ==
    ASSUME StructsInv, NEW t \in Threads, Built_(t), NEW access \in Accesses
    PROVE  \E n \in DOMAIN Paths(Levels) :
              /\ Leaf(t, access) = get_names(Paths(Levels)[n])
              /\ get_names(Paths(Levels)[n]) \in DOMAIN roots[Owner(t)]
              /\ Meant(Levels, [i \in DOMAIN access |-> access[i].value])
                    = LabelMap(Levels, Paths(Levels)[n])
<1> DEFINE path == [i \in DOMAIN access |-> access[i].field]
           meant == Meant(Levels, [i \in DOMAIN access |-> access[i].value])
<1>1. Usable /\ Owner(t) \in DOMAIN roots
  BY DEF Built_, Expanded, Usable
<1>2. Tree(Levels)
  BY <1>1, LastMetric DEF Usable
<1>3. PICK n \in DOMAIN Paths(Levels) : path = get_names(Paths(Levels)[n])
                                        /\ meant = LabelMap(Levels, Paths(Levels)[n])
  BY <1>2, AccessAlong
<1>4. path \in DOMAIN roots[Owner(t)]
  BY <1>1, <1>3 DEF StructsInv, Rooted
<1>5. Leaf(t, access) = path
  <2>1. CASE ~Metric.auto_flush
    BY <2>1 DEF Leaf
  <2>2. CASE Metric.auto_flush
    <3>1. roots # << >>
      BY <1>1
    <3>2. LeavesAt(Levels, DOMAIN roots[Owner(t)], get_local(Delegator(Levels, path))) = {path}
      BY <2>2, <3>1, <1>1, <1>4, DelegatorsOfRoot DEF DelegatorsReachTheirLeaves
    <3> HIDE DEF path
    <3>3. Leaf(t, access) = CHOOSE p \in {path} : TRUE
      BY <2>2, <3>2 DEF Leaf, path
    <3>4. QED
      BY <3>3
  <2>3. QED
    BY <2>1, <2>2
<1>6. QED
  BY <1>3, <1>4, <1>5

\* The keys of the combinations are those of the paths.
LEMMA KeysOfPaths ==
    ASSUME NEW levels, Tree(levels), NEW v
    PROVE  /\ {KeyOf(v, Meant(levels, c)) : c \in Combinations(levels)}
                = {KeyOn(levels, v, Paths(levels)[n]) : n \in DOMAIN Paths(levels)}
           /\ \A p \in ToSet(Paths(levels)) : \E c \in Combinations(levels) :
                  Meant(levels, c) = LabelMap(levels, p)
<1>1. ASSUME NEW n \in DOMAIN Paths(levels)
      PROVE  /\ ValuesOn(Paths(levels)[n]) \in Combinations(levels)
             /\ LabelMap(levels, Paths(levels)[n]) = Meant(levels, ValuesOn(Paths(levels)[n]))
  <2>1. Paths(levels)[n] \in Ways(levels, Len(levels))
    BY PathsAreWays, LenProperties, ElementOfSeq
  <2>2. QED
    BY <2>1, ValuesOfWay
<1>2. ASSUME NEW c \in Combinations(levels)
      PROVE  \E n \in DOMAIN Paths(levels) : LabelMap(levels, Paths(levels)[n]) = Meant(levels, c)
  <2>1. PICK n \in DOMAIN Paths(levels) : ValuesOn(Paths(levels)[n]) = c
    BY CombinationsAreWays
  <2>2. QED
    BY <2>1, <1>1
<1>3. QED
  BY <1>1, <1>2 DEF KeyOn, ToSet

-----------------------------------------------------------------------------
\* Every combination of values has a child, that of its key, and there is no other.
Combined(levels, v) ==
    /\ DOMAIN v.children = {KeyOf(v, Meant(levels, c)) : c \in Combinations(levels)}
    /\ \A k \in DOMAIN v.children : \E c \in Combinations(levels) :
         /\ KeyOf(v, Meant(levels, c)) = k
         /\ ToSet(v.children[k].label_pairs) = PairsOf(Meant(levels, c))

\* What is in the children and in the leaves of roots is what was counted.
Conserves(v, owned, counts) ==
    \A k \in DOMAIN v.children : At(v, k) + HeldFor(owned, k) = MadeFor(v, counts, k)

\* The leaves have the keys of the children that they are flushed into.
Keyed(levels, v, leaves) ==
    \A n \in DOMAIN Paths(levels) :
        leaves[get_names(Paths(levels)[n])].key = KeyOn(levels, v, Paths(levels)[n])

\* If only amounts change, the combinations still have their children, and the
\* leaves their keys.
LEMMA StillCombined ==
    ASSUME NEW levels, NEW v, NEW w, SameChildren(v, w)
    PROVE  /\ Combined(levels, v) => Combined(levels, w)
           /\ \A leaves : Keyed(levels, v, leaves) => Keyed(levels, w, leaves)
           /\ \A counts, k : MadeFor(w, counts, k) = MadeFor(v, counts, k)
<1>1. /\ \A labels : KeyOf(w, labels) = KeyOf(v, labels)
      /\ DOMAIN w.children = DOMAIN v.children
      /\ \A k \in DOMAIN v.children : w.children[k].label_pairs = v.children[k].label_pairs
  BY KeySame DEF SameChildren
<1>2. QED
  BY <1>1 DEF Combined, Keyed, KeyOn, MadeFor

\* So they do if there are more children.
LEMMA MoreChildren ==
    ASSUME NEW levels, Tree(levels), NEW v, Children(v), NEW w,
           MoreOf(v, w, levels, ToSet(Paths(levels)))
    PROVE  /\ Children(w)
           /\ \A k \in DOMAIN w.children : At(w, k) = At(v, k)
           /\ Combined(levels, v) => Combined(levels, w)
           /\ Combined(levels, v) => DOMAIN w.children = DOMAIN v.children
           /\ \A leaves : Keyed(levels, v, leaves) => Keyed(levels, w, leaves)
           /\ \A counts, k : MadeFor(w, counts, k) = MadeFor(v, counts, k)
<1>1. SameVec(v, w) /\ \A labels : KeyOf(w, labels) = KeyOf(v, labels)
  BY KeySame DEF MoreOf
<1>2. /\ \A k \in DOMAIN v.children : k \in DOMAIN w.children /\ w.children[k] = v.children[k]
      /\ \A k \in DOMAIN w.children \ DOMAIN v.children :
            Holds(v.type, w.children[k]) /\ Amount(v.type, w.children[k]) = 0
  BY DEF MoreOf
<1>3. Children(w)
  BY <1>1, <1>2 DEF Children, SameVec
<1>4. \A k \in DOMAIN w.children : At(w, k) = At(v, k)
  BY <1>1, <1>2 DEF At, SameVec
<1>5. ASSUME Combined(levels, v) PROVE DOMAIN w.children = DOMAIN v.children
  <2>1. ASSUME NEW k \in DOMAIN w.children, k \notin DOMAIN v.children PROVE FALSE
    <3>1. PICK p \in ToSet(Paths(levels)) : KeyOf(v, LabelMap(levels, p)) = k
      BY <2>1 DEF MoreOf
    <3>2. PICK c \in Combinations(levels) : Meant(levels, c) = LabelMap(levels, p)
      BY KeysOfPaths
    <3>3. k \in DOMAIN v.children
      BY <3>1, <3>2, <1>5 DEF Combined
    <3>4. QED
      BY <3>3, <2>1
  <2>2. QED
    BY <2>1, <1>2
<1>6. ASSUME Combined(levels, v) PROVE Combined(levels, w)
  BY <1>1, <1>2, <1>5, <1>6 DEF Combined
<1>7. \A leaves : Keyed(levels, v, leaves) => Keyed(levels, w, leaves)
  BY <1>1 DEF Keyed, KeyOn
<1>8. \A counts, k : MadeFor(w, counts, k) = MadeFor(v, counts, k)
  BY <1>1 DEF MadeFor
<1>9. QED
  BY <1>3, <1>4, <1>5, <1>6, <1>7, <1>8

\* The first root makes the children of all combinations.
LEMMA FirstRoot ==
    ASSUME NEW levels, Tree(levels), NEW v, DOMAIN v.children = {}, NEW w,
           MoreOf(v, w, levels, ToSet(Paths(levels))),
           \A n \in DOMAIN Paths(levels) : KeyOn(levels, v, Paths(levels)[n]) \in DOMAIN w.children
    PROVE  Combined(levels, w)
<1>1. \A labels : KeyOf(w, labels) = KeyOf(v, labels)
  BY KeySame DEF MoreOf
<1>2. ASSUME NEW k \in DOMAIN w.children
      PROVE  \E c \in Combinations(levels) :
                /\ KeyOf(w, Meant(levels, c)) = k
                /\ ToSet(w.children[k].label_pairs) = PairsOf(Meant(levels, c))
  <2>1. PICK p \in ToSet(Paths(levels)) :
            /\ KeyOf(v, LabelMap(levels, p)) = k
            /\ ToSet(w.children[k].label_pairs) = PairsOf(LabelMap(levels, p))
    BY DEF MoreOf
  <2>2. PICK c \in Combinations(levels) : Meant(levels, c) = LabelMap(levels, p)
    BY KeysOfPaths
  <2>3. QED
    BY <1>1, <2>1, <2>2
<1>3. ASSUME NEW c \in Combinations(levels) PROVE KeyOf(w, Meant(levels, c)) \in DOMAIN w.children
  <2>1. KeyOf(v, Meant(levels, c)) \in {KeyOn(levels, v, Paths(levels)[n]) : n \in DOMAIN Paths(levels)}
    BY KeysOfPaths
  <2>2. QED
    BY <1>1, <2>1
<1>4. QED
  BY <1>2, <1>3 DEF Combined

\* The leaves of a root that has just been built.
LEMMA NewLeaves ==
    ASSUME NEW levels, Tree(levels), NEW v, NEW leaves, Rooted(levels, leaves),
           \A n \in DOMAIN Paths(levels) : leaves[get_names(Paths(levels)[n])]
               = [key |-> KeyOn(levels, v, Paths(levels)[n]), held |-> 0]
    PROVE  Leaves(leaves) /\ Keyed(levels, v, leaves) /\ \A k : HeldIn(leaves, k) = 0
<1> DEFINE paths == Paths(levels)
           names == [n \in DOMAIN paths |-> get_names(paths[n])]
<1>1. Len(paths) \in Nat /\ DOMAIN paths = 1 .. Len(paths)
  BY PathsAreWays, LenProperties
<1>2. names = [n \in 1 .. Len(paths) |-> names[n]] /\ DOMAIN names = DOMAIN paths
  BY <1>1
<1>3. DOMAIN leaves = ToSet(names)
  BY DEF Rooted, ToSet
<1>4. IsFiniteSet(DOMAIN leaves)
  <2> HIDE DEF names
  <2>1. names \in Seq(ToSet(names))
    BY <1>1, <1>2, ListOf DEF List
  <2>2. QED
    BY <1>3, <2>1, FinitelyMany
<1>5. ASSUME NEW p \in DOMAIN leaves
      PROVE  {"key", "held"} \subseteq DOMAIN leaves[p] /\ leaves[p].held = 0
  <2>1. PICK n \in DOMAIN paths : p = get_names(paths[n])
    BY DEF Rooted
  <2>2. leaves[p] = [key |-> KeyOn(levels, v, paths[n]), held |-> 0]
    BY <2>1
  <2>3. QED
    BY <2>2
<1>6. Leaves(leaves)
  BY <1>4, <1>5 DEF Leaves
<1>7. \A k : HeldIn(leaves, k) = 0
  BY <1>5, <1>6, NothingHeld
<1>8. Keyed(levels, v, leaves)
  <2>1. ASSUME NEW n \in DOMAIN paths
        PROVE  leaves[get_names(paths[n])].key = KeyOn(levels, v, paths[n])
    <3> DEFINE l == leaves[get_names(paths[n])]
               x == KeyOn(levels, v, paths[n])
    <3>1. l = [key |-> x, held |-> 0]
      OBVIOUS
    <3> HIDE DEF l, x
    <3>2. l.key = x
      BY <3>1
    <3>3. QED
      BY <3>2 DEF l, x
  <2>2. QED
    BY <2>1 DEF Keyed
<1>9. QED
  BY <1>6, <1>7, <1>8

-----------------------------------------------------------------------------
\* What holds of the vector, of the roots and of what was counted.
CountsInv ==
    /\ List(program.labels)
    /\ vec = << >> => roots = << >>
    /\ vec # << >> => Usable /\ VecOf(vec, program.labels) /\ Children(vec)
    /\ vec # << >> /\ roots = << >> => DOMAIN vec.children = {}
    /\ roots = << >> => made = << >>
    /\ roots # << >> => Combined(Levels, vec) /\ Conserves(vec, roots, made)
    /\ Roots(roots)
    /\ \A o \in DOMAIN roots : Keyed(Levels, vec, roots[o])
    /\ made \in [DOMAIN made -> Nat] /\ IsFiniteSet(DOMAIN made)

\* What a root of a program is.
LEMMA RootKeys ==
    ASSUME StructsInv, CountsInv, NEW o \in DOMAIN roots
    PROVE  /\ roots # << >> /\ vec # << >> /\ Usable /\ Tree(Levels)
           /\ Rooted(Levels, roots[o]) /\ Leaves(roots[o])
           /\ \A n \in DOMAIN Paths(Levels) : get_names(Paths(Levels)[n]) \in DOMAIN roots[o]
           /\ \A n \in DOMAIN Paths(Levels) :
                 KeyOn(Levels, vec, Paths(Levels)[n]) \in DOMAIN vec.children
           /\ \A p \in DOMAIN roots[o] : roots[o][p].key \in DOMAIN vec.children
<1>1. roots # << >> /\ vec # << >> /\ Usable
  <2>1. DOMAIN << >> = {}
    OBVIOUS
  <2>2. roots # << >>
    BY <2>1
  <2>3. QED
    BY <2>2 DEF CountsInv
<1>2. Tree(Levels)
  BY <1>1, LastMetric DEF Usable
<1>3. /\ Rooted(Levels, roots[o]) /\ Leaves(roots[o]) /\ Keyed(Levels, vec, roots[o])
      /\ Combined(Levels, vec)
  <2>1. Rooted(Levels, roots[o])
    BY DEF StructsInv
  <2>2. Roots(roots) /\ Keyed(Levels, vec, roots[o]) /\ Combined(Levels, vec)
    BY <1>1 DEF CountsInv
  <2>3. QED
    BY <2>1, <2>2 DEF Roots
<1>4. \A n \in DOMAIN Paths(Levels) : get_names(Paths(Levels)[n]) \in DOMAIN roots[o]
  BY <1>3 DEF Rooted
<1>5. ASSUME NEW n \in DOMAIN Paths(Levels)
      PROVE  KeyOn(Levels, vec, Paths(Levels)[n]) \in DOMAIN vec.children
  <2> DEFINE p == Paths(Levels)[n]
  <2>1. p \in ToSet(Paths(Levels))
    BY DEF ToSet
  <2> HIDE DEF p
  <2>2. PICK c \in Combinations(Levels) : Meant(Levels, c) = LabelMap(Levels, p)
    BY <1>2, <2>1, KeysOfPaths
  <2>3. KeyOf(vec, LabelMap(Levels, p)) \in DOMAIN vec.children
    BY <1>3, <2>2 DEF Combined
  <2>4. QED
    BY <2>3 DEF KeyOn, p
<1>6. ASSUME NEW p \in DOMAIN roots[o] PROVE roots[o][p].key \in DOMAIN vec.children
  <2>1. PICK n \in DOMAIN Paths(Levels) : p = get_names(Paths(Levels)[n])
    BY <1>3 DEF Rooted
  <2>2. roots[o][get_names(Paths(Levels)[n])].key = KeyOn(Levels, vec, Paths(Levels)[n])
    BY <1>3 DEF Keyed
  <2>3. QED
    BY <2>1, <2>2, <1>5
<1>7. QED
  BY <1>1, <1>2, <1>3, <1>4, <1>5, <1>6

\* Updates and flushes keep it, if they leave the children and the leaves where they
\* are and what is in them is what is counted.
LEMMA CountsKept ==
    ASSUME StructsInv, CountsInv, DOMAIN roots # {},
           UNCHANGED <<program, SCOPE_ID, expanded, order, panicked>>,
           SameChildren(vec, vec'), Roots(roots'), DOMAIN roots' = DOMAIN roots,
           \A o \in DOMAIN roots : SameLeaves(roots[o], roots'[o]),
           made' \in [DOMAIN made' -> Nat], IsFiniteSet(DOMAIN made'),
           \A k \in DOMAIN vec.children :
               At(vec', k) + HeldFor(roots', k) = MadeFor(vec, made', k)
    PROVE  CountsInv'
<1>1. Levels' = Levels /\ (Usable' <=> Usable) /\ program' = program
  BY DEF Levels, Metric, Usable
<1>2. vec # << >> /\ Usable /\ VecOf(vec, program.labels) /\ Combined(Levels, vec)
  <2>1. DOMAIN << >> = {}
    OBVIOUS
  <2>2. roots # << >>
    BY <2>1
  <2>3. QED
    BY <2>2 DEF CountsInv
<1>3. vec' # << >> /\ roots' # << >>
  <2>1. "type" \in DOMAIN vec' /\ DOMAIN << >> = {}
    BY <1>2 DEF VecOf, SameChildren, SameVec
  <2>2. QED
    BY <2>1
<1>4. VecOf(vec', program.labels) /\ Children(vec')
  BY <1>2, KeySame DEF SameChildren
<1>5. Combined(Levels, vec')
  BY <1>2, StillCombined
<1>6. Conserves(vec', roots', made')
  <2>1. \A counts, k : MadeFor(vec', counts, k) = MadeFor(vec, counts, k)
    BY StillCombined
  <2>2. DOMAIN vec'.children = DOMAIN vec.children
    BY DEF SameChildren
  <2>3. QED
    BY <2>1, <2>2 DEF Conserves
<1>7. ASSUME NEW o \in DOMAIN roots PROVE Keyed(Levels, vec', roots'[o])
  <2>1. SameLeaves(roots[o], roots'[o]) /\ Keyed(Levels, vec, roots[o])
    BY DEF CountsInv
  <2>2. \A n \in DOMAIN Paths(Levels) : get_names(Paths(Levels)[n]) \in DOMAIN roots[o]
    BY RootKeys
  <2>3. Keyed(Levels, vec, roots'[o])
    BY <2>1, <2>2 DEF Keyed, SameLeaves
  <2>4. QED
    BY <2>3, StillCombined
<1>8. List(program.labels)
  BY DEF CountsInv
<1>9. QED
  BY <1>1, <1>2, <1>3, <1>4, <1>5, <1>6, <1>7, <1>8 DEF CountsInv

\* It holds of a program that is not compiled yet.
LEMMA CountsInit == Init => CountsInv
<1> SUFFICES ASSUME Init PROVE CountsInv
  OBVIOUS
<1>1. program.labels \in Seq(Seq(STRING))
  BY ProgramsAssumption DEF Init
<1>2. List(program.labels)
  <2> DEFINE s == program.labels
  <2> HIDE DEF s
  <2>1. Len(s) \in Nat /\ s = [i \in 1 .. Len(s) |-> s[i]]
    BY <1>1, LenProperties DEF s
  <2>2. QED
    BY <2>1, ListOf DEF s
<1>3. vec = << >> /\ roots = << >> /\ made = << >>
  BY DEF Init
<1>4. DOMAIN << >> = {} /\ IsFiniteSet({})
  BY FS_EmptySet
<1>5. Roots(roots)
  BY <1>3, <1>4 DEF Roots
<1>6. made \in [DOMAIN made -> Nat]
  BY <1>3
<1>7. QED
  BY <1>2, <1>3, <1>4, <1>5, <1>6 DEF CountsInv

\* A macro is expanded before there is a vector.
LEMMA ExpandCounts == ASSUME StructsInv, CountsInv, Expand PROVE CountsInv'
<1>1. program.invocations # << >> /\ UNCHANGED <<vec, roots, made>>
      /\ program' = [program EXCEPT !.invocations = Tail(@)]
  BY DEF Expand
<1>2. vec = << >> /\ roots = << >> /\ DOMAIN roots = {}
  BY <1>1 DEF CountsInv, Usable
<1>3. program'.labels = program.labels
  BY <1>1 DEF StructsInv
<1>4. QED
  BY <1>1, <1>2, <1>3 DEF CountsInv

\* The vector is made.
LEMMA MakeVecCounts == ASSUME StructsInv, CountsInv, MakeVec PROVE CountsInv'
<1> DEFINE v == NewVec(VecType[to_non_local_metric_type(Metric.type)],
                       Opts(Chars("m"), Chars("h")), << >>, program.labels)
<1>1. /\ UNCHANGED <<program, SCOPE_ID, expanded, order, roots, panicked, made>>
      /\ v.ok /\ vec' = v.v /\ Expanded /\ vec = << >>
  BY DEF MakeVec
<1>2. VecOf(v.v, program.labels) /\ v.v.children = << >>
  BY <1>1, NewVecOf DEF CountsInv
<1> HIDE DEF v
<1>3. VecOf(vec', program.labels) /\ DOMAIN vec'.children = {}
  BY <1>1, <1>2
<1>4. Children(vec')
  BY <1>3 DEF VecOf, Children
<1>5. Usable'
  BY <1>1 DEF Usable, Expanded
<1>6. roots' = << >> /\ DOMAIN roots' = {} /\ made' = << >>
  BY <1>1 DEF CountsInv
<1>7. QED
  BY <1>1, <1>3, <1>4, <1>5, <1>6 DEF CountsInv


\* What is flushed of leaves with the keys of a root is moved into the children.
LEMMA RootMoves ==
    ASSUME StructsInv, CountsInv, NEW o \in DOMAIN roots, NEW l, SameLeaves(roots[o], l)
    PROVE  Moved(vec, l, Flushed(vec, l).vec, Flushed(vec, l).leaves)
<1>1. /\ Tree(Levels) /\ vec # << >>
      /\ \A n \in DOMAIN Paths(Levels) : get_names(Paths(Levels)[n]) \in DOMAIN roots[o]
      /\ \A p \in DOMAIN roots[o] : roots[o][p].key \in DOMAIN vec.children
  BY RootKeys
<1>2. Children(vec)
  BY <1>1 DEF CountsInv
<1>3. /\ Leaves(l)
      /\ \A n \in DOMAIN Paths(Levels) : get_names(Paths(Levels)[n]) \in DOMAIN l
      /\ \A p \in DOMAIN l : l[p].key \in DOMAIN vec.children
  BY <1>1 DEF SameLeaves
<1>4. QED
  BY <1>1, <1>2, <1>3, FlushMoves DEF Flushed

\* What was counted for a child is a number.
LEMMA MadeType ==
    ASSUME NEW v, NEW f, f \in [DOMAIN f -> Nat], IsFiniteSet(DOMAIN f), NEW k
    PROVE  MadeFor(v, f, k) \in Nat
<1> DEFINE a == [l \in DOMAIN f |-> IF KeyOf(v, l) = k THEN f[l] ELSE 0]
<1>1. a \in [DOMAIN f -> Nat]
  OBVIOUS
<1> HIDE DEF a
<1>2. SumFunction(a) \in Nat
  BY <1>1, SumIsNat
<1>3. QED
  BY <1>2 DEF MadeFor, a

\* What is in the children and in the leaves of a root goes up by what is counted.
Balanced(v, l, f, w, m, g) ==
    \A k \in DOMAIN v.children :
        (At(w, k) + HeldIn(m, k)) - MadeFor(v, g, k) = (At(v, k) + HeldIn(l, k)) - MadeFor(v, f, k)

\* One root holds something else, and the amounts change with it.
LEMMA OneRootKept ==
    ASSUME StructsInv, CountsInv, NEW o \in DOMAIN roots, NEW l, SameLeaves(roots[o], l),
           UNCHANGED <<program, SCOPE_ID, expanded, order, panicked>>,
           SameChildren(vec, vec'), roots' = [roots EXCEPT ![o] = l],
           made' \in [DOMAIN made' -> Nat], IsFiniteSet(DOMAIN made'),
           Balanced(vec, roots[o], made, vec', l, made')
    PROVE  CountsInv'
<1>1. Roots(roots) /\ Conserves(vec, roots, made) /\ Leaves(l) /\ Leaves(roots[o])
  BY RootKeys DEF CountsInv, SameLeaves
<1>2. Roots(roots')
      /\ \A k : HeldFor(roots', k) = HeldFor(roots, k) - HeldIn(roots[o], k) + HeldIn(l, k)
  <2>1. Replaced(roots, o, l, roots')
    BY <1>1, RootElse
  <2>2. QED
    BY <2>1 DEF Replaced
<1>3. DOMAIN roots' = DOMAIN roots
      /\ \A u \in DOMAIN roots : roots'[u] = IF u = o THEN l ELSE roots[u]
  OBVIOUS
<1>4. \A u \in DOMAIN roots : SameLeaves(roots[u], roots'[u])
  BY <1>1, <1>3 DEF SameLeaves, Roots
<1>5. ASSUME NEW k \in DOMAIN vec.children
      PROVE  At(vec', k) + HeldFor(roots', k) = MadeFor(vec, made', k)
  <2>1. At(vec, k) + HeldFor(roots, k) = MadeFor(vec, made, k)
    BY <1>1 DEF Conserves
  <2>2. /\ (At(vec', k) + HeldIn(l, k)) - MadeFor(vec, made', k)
             = (At(vec, k) + HeldIn(roots[o], k)) - MadeFor(vec, made, k)
        /\ HeldFor(roots', k) = HeldFor(roots, k) - HeldIn(roots[o], k) + HeldIn(l, k)
    BY <1>2 DEF Balanced
  <2>3. /\ HeldIn(l, k) \in Int /\ HeldIn(roots[o], k) \in Int /\ HeldFor(roots, k) \in Int
        /\ HeldFor(roots', k) \in Int
    BY <1>1, <1>2, HeldType, HeldForType
  <2>4. At(vec, k) \in Int /\ At(vec', k) \in Int
    <3>1. Children(vec) /\ Children(vec')
      BY RootKeys DEF CountsInv, SameChildren
    <3>2. QED
      BY <3>1 DEF At, Children, Holds, Amount
  <2>5. MadeFor(vec, made', k) \in Int /\ MadeFor(vec, made, k) \in Int
    BY MadeType DEF CountsInv
  <2> DEFINE a == At(vec, k)
             b == At(vec', k)
             c == HeldFor(roots, k)
             d == HeldFor(roots', k)
             e == MadeFor(vec, made, k)
             f == MadeFor(vec, made', k)
             g == HeldIn(roots[o], k)
             h == HeldIn(l, k)
  <2> HIDE DEF a, b, c, d, e, f, g, h
  <2>6. a + c = e /\ (b + h) - f = (a + g) - e /\ d = c - g + h
    BY <2>1, <2>2 DEF a, b, c, d, e, f, g, h
  <2>7. /\ a \in Int /\ b \in Int /\ c \in Int /\ d \in Int /\ e \in Int /\ f \in Int
        /\ g \in Int /\ h \in Int
    BY <2>3, <2>4, <2>5 DEF a, b, c, d, e, f, g, h
  <2>8. b + d = f
    BY <2>6, <2>7
  <2>9. QED
    BY <2>8 DEF b, d, f
<1>6. DOMAIN roots # {}
  OBVIOUS
<1>7. QED
  BY <1>2, <1>3, <1>4, <1>5, <1>6, CountsKept

\* A flush.
LEMMA FlushCounts ==
    ASSUME StructsInv, CountsInv, NEW t \in Threads, Flush(t)
    PROVE  CountsInv'
<1> DEFINE l == Flushed(vec, roots[t]).leaves
<1>1. t \in DOMAIN roots
  BY DEF Flush, Built_, Owner
<1>2. /\ UNCHANGED <<program, SCOPE_ID, expanded, order, panicked, made>>
      /\ vec' = Flushed(vec, roots[t]).vec /\ roots' = [roots EXCEPT ![t] = l]
  BY DEF Flush
<1>3. SameLeaves(roots[t], roots[t])
  BY <1>1, RootKeys DEF SameLeaves
<1>4. Moved(vec, roots[t], vec', l)
  BY <1>1, <1>2, <1>3, RootMoves
<1> HIDE DEF l
<1>5. /\ SameChildren(vec, vec') /\ SameLeaves(roots[t], l)
      /\ \A k \in DOMAIN vec.children : At(vec', k) + HeldIn(l, k) = At(vec, k) + HeldIn(roots[t], k)
  BY <1>4 DEF Moved
<1>6. made' = made /\ made' \in [DOMAIN made' -> Nat] /\ IsFiniteSet(DOMAIN made')
  BY <1>2 DEF CountsInv
<1>7. Balanced(vec, roots[t], made, vec', l, made')
  <2>1. ASSUME NEW k \in DOMAIN vec.children
        PROVE  At(vec', k) + HeldIn(l, k) = At(vec, k) + HeldIn(roots[t], k)
               /\ MadeFor(vec, made', k) = MadeFor(vec, made, k)
    BY <1>5, <1>6
  <2>2. QED
    BY <2>1 DEF Balanced
<1>8. roots' = [roots EXCEPT ![t] = l]
      /\ UNCHANGED <<program, SCOPE_ID, expanded, order, panicked>>
  BY <1>2
<1>9. QED
  BY <1>1, <1>5, <1>6, <1>7, <1>8, OneRootKept


\* An update, and the flush that may follow it.
LEMMA UpdateCounts ==
    ASSUME StructsInv, CountsInv, NEW t \in Threads, Built_(t), NEW access \in Accesses,
           UpdateLeaf(t, access)
    PROVE  CountsInv'
<1> DEFINE o == Owner(t)
           l == roots[o]
           leaf == Leaf(t, access)
           meant == Meant(Levels, [i \in DOMAIN access |-> access[i].value])
           key == KeyOf(vec, meant)
           one == Updated(vec.type, vec.children[key], 1)
           added == [l EXCEPT ![leaf] = [l[leaf] EXCEPT !.held = l[leaf].held + 1]]
           flushed == Flushed(vec, added)
<1>1. o \in DOMAIN roots
  BY DEF Built_
<1>2. PICK n \in DOMAIN Paths(Levels) :
         /\ leaf = get_names(Paths(Levels)[n]) /\ leaf \in DOMAIN l
         /\ meant = LabelMap(Levels, Paths(Levels)[n])
  BY AccessLeads
<1>3. Leaves(l) /\ Children(vec) /\ Keyed(Levels, vec, l)
  BY <1>1, RootKeys DEF CountsInv
<1>4. l[leaf].key = key /\ key \in DOMAIN vec.children
  <2>1. key = KeyOn(Levels, vec, Paths(Levels)[n])
    BY <1>2 DEF KeyOn
  <2>2. l[leaf].key = KeyOn(Levels, vec, Paths(Levels)[n])
    BY <1>2, <1>3 DEF Keyed
  <2>3. KeyOn(Levels, vec, Paths(Levels)[n]) \in DOMAIN vec.children
    BY <1>1, RootKeys
  <2>4. QED
    BY <2>1, <2>2, <2>3
<1>5. /\ UNCHANGED <<program, SCOPE_ID, expanded, order, panicked>>
      /\ made' = With(made, meant, Count(made, meant) + 1)
      /\ \/ vec' = [vec EXCEPT !.children = [vec.children EXCEPT ![l[leaf].key]
                      = Updated(vec.type, vec.children[l[leaf].key], 1)]] /\ UNCHANGED roots
         \/ UNCHANGED vec /\ roots' = [roots EXCEPT ![o] = added]
         \/ vec' = flushed.vec /\ roots' = [roots EXCEPT ![o] = flushed.leaves]
  BY DEF UpdateLeaf
<1> HIDE DEF o, leaf, meant, key
<1>6. /\ made' \in [DOMAIN made' -> Nat] /\ IsFiniteSet(DOMAIN made')
      /\ \A k : MadeFor(vec, made', k) = MadeFor(vec, made, k) + (IF key = k THEN 1 ELSE 0)
  BY <1>5, CountedMore DEF CountsInv, key
<1>7. /\ SameLeaves(l, added)
      /\ \A k : HeldIn(added, k) = IF key = k THEN HeldIn(l, k) - l[leaf].held + (l[leaf].held + 1)
                                   ELSE HeldIn(l, k)
  <2>1. l[leaf].held + 1 \in Nat
    BY <1>2, <1>3 DEF Leaves
  <2>2. Refills(l, leaf, l[leaf].held + 1, added)
    BY <2>1, <1>2, <1>3, HeldElse
  <2>3. QED
    BY <2>2, <1>4 DEF Refills
<1>8. \A k \in DOMAIN vec.children :
         /\ At(vec, k) \in Int /\ HeldIn(l, k) \in Int /\ MadeFor(vec, made, k) \in Int
         /\ l[leaf].held \in Int
  BY <1>2, <1>3, HeldType, MadeType DEF CountsInv, At, Children, Holds, Amount, Leaves
<1> HIDE DEF added, l
<1>9. \A k \in DOMAIN vec.children :
         (At(vec, k) + HeldIn(added, k)) - MadeFor(vec, made', k)
            = (At(vec, k) + HeldIn(l, k)) - MadeFor(vec, made, k)
  BY <1>6, <1>7, <1>8
<1>10. CASE /\ vec' = [vec EXCEPT !.children = [vec.children EXCEPT ![l[leaf].key]
                          = Updated(vec.type, vec.children[l[leaf].key], 1)]]
            /\ UNCHANGED roots
  <2>1. vec' = [vec EXCEPT !.children = [vec.children EXCEPT ![key] = one]]
    BY <1>4, <1>10
  <2>2. AddedTo(vec.type, vec.children[key], 1, one)
    BY <1>3, <1>4, OneAdded DEF Children
  <2> HIDE DEF one
  <2>3. Raised(vec, key, 1, vec')
    BY <1>3, <1>4, <2>1, <2>2, ChildAdded
  <2>4. /\ SameChildren(vec, vec')
        /\ \A k \in DOMAIN vec.children : At(vec', k) = At(vec, k) + (IF k = key THEN 1 ELSE 0)
    BY <2>3 DEF Raised
  <2>5. Roots(roots) /\ Conserves(vec, roots, made) /\ roots' = roots
    BY <1>1, <1>10, RootKeys DEF CountsInv
  <2>6. ASSUME NEW k \in DOMAIN vec.children
        PROVE  At(vec', k) + HeldFor(roots', k) = MadeFor(vec, made', k)
    <3>1. At(vec, k) + HeldFor(roots, k) = MadeFor(vec, made, k)
      BY <2>5 DEF Conserves
    <3>2. HeldFor(roots, k) \in Int
      BY <2>5, HeldForType
    <3>3. QED
      BY <1>6, <1>8, <2>4, <2>5, <3>1, <3>2
  <2>7. \A u \in DOMAIN roots : SameLeaves(roots[u], roots'[u])
    BY <2>5 DEF Roots, SameLeaves
  <2>8. DOMAIN roots # {} /\ Roots(roots') /\ DOMAIN roots' = DOMAIN roots
    BY <1>1, <2>5
  <2>9. QED
    BY <1>5, <1>6, <2>4, <2>6, <2>7, <2>8, CountsKept
<1>11. CASE UNCHANGED vec /\ roots' = [roots EXCEPT ![o] = added]
  <2>1. SameChildren(vec, vec')
    BY <1>3, <1>11 DEF SameChildren, SameVec
  <2>2. Balanced(vec, l, made, vec', added, made')
    BY <1>9, <1>11 DEF Balanced
  <2>3. l = roots[o]
    BY DEF l
  <2>4. QED
    BY <1>1, <1>5, <1>6, <1>7, <1>11, <2>1, <2>2, <2>3, OneRootKept
<1>12. CASE vec' = flushed.vec /\ roots' = [roots EXCEPT ![o] = flushed.leaves]
  <2>1. l = roots[o]
    BY DEF l
  <2>2. Moved(vec, added, flushed.vec, flushed.leaves)
    BY <1>1, <1>7, <2>1, RootMoves
  <2> HIDE DEF flushed
  <2>3. /\ SameChildren(vec, vec') /\ SameLeaves(added, flushed.leaves)
        /\ \A k \in DOMAIN vec.children :
              At(vec', k) + HeldIn(flushed.leaves, k) = At(vec, k) + HeldIn(added, k)
    BY <1>12, <2>2 DEF Moved
  <2>4. SameLeaves(l, flushed.leaves)
    BY <1>7, <2>3 DEF SameLeaves
  <2>5. Balanced(vec, l, made, vec', flushed.leaves, made')
    BY <1>9, <2>3 DEF Balanced
  <2>6. QED
    BY <1>1, <1>5, <1>6, <1>12, <2>1, <2>3, <2>4, <2>5, OneRootKept
<1>13. QED
  BY <1>5, <1>10, <1>11, <1>12


\* What from gives for a vector: a root, if no leaf panics.
LEMMA RootMade ==
    ASSUME StructsInv, CountsInv, Expanded, vec # << >>
    PROVE  LET done == From(Levels, vec)
           IN  /\ MoreOf(vec, done.vec, Levels, ToSet(Paths(Levels)))
               /\ done.ok => /\ Leaves(done.leaves) /\ Keyed(Levels, vec, done.leaves)
                             /\ \A k : HeldIn(done.leaves, k) = 0
                             /\ \A n \in DOMAIN Paths(Levels) :
                                  KeyOn(Levels, vec, Paths(Levels)[n]) \in DOMAIN done.vec.children
               /\ ~done.ok /\ DOMAIN vec.children = {} => done.vec = vec
<1> DEFINE done == From(Levels, vec)
<1>1. Usable
  BY DEF Usable, Expanded
<1>2. Tree(Levels) /\ Compiles(Metric)
  BY <1>1, LastMetric DEF Usable
<1>3. DifferentFields(Levels)
  BY <1>2 DEF Compiles, DifferentFields, Levels
<1>4. VecOf(vec, program.labels)
  BY DEF CountsInv
<1>5. /\ MoreOf(vec, done.vec, Levels, ToSet(Paths(Levels)))
      /\ done.ok => \A n \in DOMAIN Paths(Levels) :
            /\ KeyOn(Levels, vec, Paths(Levels)[n]) \in DOMAIN done.vec.children
            /\ done.leaves[get_names(Paths(Levels)[n])]
                 = [key |-> KeyOn(Levels, vec, Paths(Levels)[n]), held |-> 0]
      /\ ~done.ok /\ DOMAIN vec.children = {} => done.vec = vec
  BY <1>2, <1>3, <1>4, FromMakes
<1>6. done.ok => Rooted(Levels, done.leaves)
  BY <1>2, FromRooted
<1> HIDE DEF done
<1>7. done.ok => Leaves(done.leaves) /\ Keyed(Levels, vec, done.leaves)
                 /\ \A k : HeldIn(done.leaves, k) = 0
  <2> SUFFICES ASSUME done.ok
               PROVE  Leaves(done.leaves) /\ Keyed(Levels, vec, done.leaves)
                      /\ \A k : HeldIn(done.leaves, k) = 0
    OBVIOUS
  <2> DEFINE leaves == done.leaves
  <2>1. /\ Rooted(Levels, leaves)
        /\ \A n \in DOMAIN Paths(Levels) : leaves[get_names(Paths(Levels)[n])]
               = [key |-> KeyOn(Levels, vec, Paths(Levels)[n]), held |-> 0]
    BY <1>5, <1>6
  <2> HIDE DEF leaves
  <2>2. Leaves(leaves) /\ Keyed(Levels, vec, leaves) /\ \A k : HeldIn(leaves, k) = 0
    BY <1>2, <2>1, NewLeaves
  <2>3. QED
    BY <2>2 DEF leaves
<1>8. QED
  BY <1>5, <1>7 DEF done

\* A root is built, or is not because a leaf panics.
LEMMA BuildRootCounts ==
    ASSUME StructsInv, CountsInv, NEW t \in Threads, BuildRoot(t)
    PROVE  CountsInv'
<1> DEFINE done == From(Levels, vec)
           o == Owner(t)
<1>1. /\ Expanded /\ vec # << >> /\ o \notin DOMAIN roots /\ vec' = done.vec
      /\ roots' = IF done.ok THEN With(roots, o, done.leaves) ELSE roots
      /\ panicked' = IF done.ok THEN "no" ELSE "from"
      /\ UNCHANGED <<program, SCOPE_ID, expanded, order, made>>
  BY DEF BuildRoot
<1>2. Usable
  BY <1>1 DEF Usable, Expanded
<1>3. Tree(Levels)
  BY <1>2, LastMetric DEF Usable
<1>4. /\ MoreOf(vec, done.vec, Levels, ToSet(Paths(Levels)))
      /\ done.ok => /\ Leaves(done.leaves) /\ Keyed(Levels, vec, done.leaves)
                    /\ \A k : HeldIn(done.leaves, k) = 0
                    /\ \A n \in DOMAIN Paths(Levels) :
                         KeyOn(Levels, vec, Paths(Levels)[n]) \in DOMAIN done.vec.children
      /\ ~done.ok /\ DOMAIN vec.children = {} => done.vec = vec
  BY <1>1, RootMade
<1> DEFINE w == done.vec
           l == done.leaves
<1> HIDE DEF o, done
<1>5. Children(vec) /\ VecOf(vec, program.labels) /\ Roots(roots) /\ List(program.labels)
      /\ made \in [DOMAIN made -> Nat] /\ IsFiniteSet(DOMAIN made)
  BY <1>1 DEF CountsInv
<1>6. /\ Children(w)
      /\ \A k \in DOMAIN w.children : At(w, k) = At(vec, k)
      /\ Combined(Levels, vec) => Combined(Levels, w) /\ DOMAIN w.children = DOMAIN vec.children
      /\ \A leaves : Keyed(Levels, vec, leaves) => Keyed(Levels, w, leaves)
      /\ \A counts, k : MadeFor(w, counts, k) = MadeFor(vec, counts, k)
  BY <1>3, <1>4, <1>5, MoreChildren
<1>7. VecOf(w, program.labels) /\ w # << >>
  <2>1. VecOf(w, program.labels)
    BY <1>4, <1>5, KeySame DEF MoreOf
  <2>2. "type" \in DOMAIN w /\ DOMAIN << >> = {}
    BY <2>1 DEF VecOf
  <2>3. QED
    BY <2>1, <2>2
<1>8. Levels' = Levels /\ Usable' /\ made' = made /\ program' = program
  BY <1>1, <1>2 DEF Levels, Metric, Usable
<1>9. CASE done.ok
  <2>1. roots' = With(roots, o, l) /\ Leaves(l) /\ Keyed(Levels, w, l) /\ \A k : HeldIn(l, k) = 0
    BY <1>1, <1>4, <1>6, <1>9
  <2>2. DOMAIN roots' = DOMAIN roots \cup {o}
        /\ \A u \in DOMAIN roots' : roots'[u] = IF u = o THEN l ELSE roots[u]
    BY <2>1 DEF With
  <2> HIDE DEF w, l
  <2>3. Grown(roots, l, roots')
    BY <1>1, <1>5, <2>1, OneMoreRoot
  <2>4. Roots(roots') /\ \A k : HeldFor(roots', k) = HeldFor(roots, k)
    <3>1. \A k : HeldFor(roots, k) \in Int
      BY <1>5, HeldForType
    <3>2. QED
      BY <2>1, <2>3, <3>1 DEF Grown
  <2>5. \A u \in DOMAIN roots' : Keyed(Levels, w, roots'[u])
    BY <2>1, <2>2, <1>6 DEF CountsInv
  <2>6. Combined(Levels, w)
    <3>1. CASE roots # << >>
      BY <3>1, <1>6 DEF CountsInv
    <3>2. CASE roots = << >>
      <4>1. DOMAIN vec.children = {}
        BY <1>1, <3>2 DEF CountsInv
      <4>2. /\ MoreOf(vec, w, Levels, ToSet(Paths(Levels)))
            /\ \A n \in DOMAIN Paths(Levels) :
                 KeyOn(Levels, vec, Paths(Levels)[n]) \in DOMAIN w.children
        BY <1>4, <1>9 DEF w
      <4>3. QED
        BY <1>3, <4>1, <4>2, FirstRoot
    <3>3. QED
      BY <3>1, <3>2
  <2>7. ASSUME NEW k \in DOMAIN w.children
        PROVE  At(vec, k) + HeldFor(roots, k) = MadeFor(vec, made, k)
    <3>1. CASE roots # << >>
      BY <3>1, <1>6 DEF CountsInv, Conserves
    <3>2. CASE roots = << >>
      <4>1. DOMAIN vec.children = {} /\ made = << >>
        BY <1>1, <3>2 DEF CountsInv
      <4>2. At(vec, k) = 0
        BY <4>1 DEF At
      <4>3. HeldFor(roots, k) = 0 /\ MadeFor(vec, made, k) = 0
        BY <3>2, <4>1, NothingHeld
      <4>4. QED
        BY <4>2, <4>3
    <3>3. QED
      BY <3>1, <3>2
  <2>8. Conserves(w, roots', made)
    BY <1>6, <2>4, <2>7 DEF Conserves
  <2>9. roots' # << >>
    <3>1. DOMAIN << >> = {}
      OBVIOUS
    <3>2. QED
      BY <2>2, <3>1
  <2>10. vec' = w
    BY <1>1 DEF w
  <2>11. QED
    BY <1>5, <1>6, <1>7, <1>8, <2>4, <2>5, <2>6, <2>8, <2>9, <2>10 DEF CountsInv
<1>10. CASE ~done.ok
  <2>1. roots' = roots /\ vec' = w
    BY <1>1, <1>10
  <2>2. \A u \in DOMAIN roots : Keyed(Levels, w, roots[u])
    BY <1>6 DEF CountsInv
  <2>3. ASSUME roots # << >> PROVE Combined(Levels, w) /\ Conserves(w, roots, made)
    <3>1. Combined(Levels, vec) /\ Conserves(vec, roots, made)
      BY <2>3 DEF CountsInv
    <3>2. Combined(Levels, w) /\ DOMAIN w.children = DOMAIN vec.children
      BY <3>1, <1>6
    <3>3. Conserves(w, roots, made)
      BY <3>1, <3>2, <1>6 DEF Conserves
    <3>4. QED
      BY <3>2, <3>3
  <2>4. roots = << >> => DOMAIN w.children = {} /\ made = << >>
    BY <1>1, <1>4, <1>10 DEF CountsInv
  <2> HIDE DEF w
  <2>5. QED
    BY <1>5, <1>6, <1>7, <1>8, <2>1, <2>2, <2>3, <2>4 DEF CountsInv
<1>11. QED
  BY <1>9, <1>10

\* Nothing happens.
LEMMA CountsStay == ASSUME CountsInv, UNCHANGED vars PROVE CountsInv'
<1>1. /\ program' = program /\ vec' = vec /\ roots' = roots /\ made' = made
      /\ expanded' = expanded /\ panicked' = panicked
  BY DEF vars
<1>2. Levels' = Levels /\ (Usable' <=> Usable)
  BY <1>1 DEF Levels, Metric, Usable
<1>3. QED
  BY <1>1, <1>2 DEF CountsInv

\* Every step keeps it.
LEMMA CountsNext == StructsInv /\ CountsInv /\ [Next]_vars => CountsInv'
<1> SUFFICES ASSUME StructsInv, CountsInv, [Next]_vars PROVE CountsInv'
  OBVIOUS
<1>1. CASE Expand
  BY <1>1, ExpandCounts
<1>2. CASE MakeVec
  BY <1>2, MakeVecCounts
<1>3. CASE UNCHANGED vars
  BY <1>3, CountsStay
<1>4. ASSUME NEW t \in Threads, BuildRoot(t) PROVE CountsInv'
  BY <1>4, BuildRootCounts
<1>5. ASSUME NEW t \in Threads, Flush(t) PROVE CountsInv'
  BY <1>5, FlushCounts
<1>6. ASSUME NEW t \in Threads, Built_(t), NEW access \in Accesses, UpdateLeaf(t, access)
      PROVE CountsInv'
  BY <1>6, UpdateCounts
<1>7. QED
  BY <1>1, <1>2, <1>3, <1>4, <1>5, <1>6 DEF Next

\* It holds of every program, all the time.
LEMMA CountsInvariant == Spec => []CountsInv
<1>1. StructsInv /\ CountsInv /\ [Next]_vars => CountsInv'
  BY CountsNext
<1>2. QED
  BY <1>1, CountsInit, StructsInvariant, PTL DEF Spec

\* builder.rs, from: whatever the labels of a metric are, a vector has a child for
\* every combination of their values as soon as a root is built, with the labels of
\* one that belongs to it, and no other; of a root that panics it has none.
THEOREM CombinationsExist == Spec => []EveryCombinationExists
<1>1. CountsInv => EveryCombinationExists
  BY DEF CountsInv, EveryCombinationExists, Combined
<1>2. QED
  BY <1>1, CountsInvariant, PTL

\* builder.rs and auto_flush_from.rs, inc and flush: what is added through fields,
\* get, try_get or a delegator, by any thread and flushed at any time, is in the
\* child of the labels that were meant or still in a leaf that is flushed into it,
\* once, whatever the labels and the order of the fields are.
THEOREM UpdatesConserved == Spec => []Conserved
<1>1. CountsInv => Conserved
  <2> SUFFICES ASSUME CountsInv, roots # << >>, NEW k \in DOMAIN vec.children
               PROVE  Total(vec.children[k]) + HeldFor(roots, k) = MadeFor(vec, made, k)
    BY DEF Conserved
  <2>1. At(vec, k) + HeldFor(roots, k) = MadeFor(vec, made, k)
    BY DEF CountsInv, Conserves
  <2>2. At(vec, k) = Total(vec.children[k])
    BY DEF At, Amount, Total
  <2>3. QED
    BY <2>1, <2>2
<1>2. QED
  BY <1>1, CountsInvariant, PTL

=============================================================================
