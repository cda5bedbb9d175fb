------------------------------ MODULE SumLemmas ------------------------------
(***************************************************************************)
(* Sums of functions over finite sets, as the models count what their        *)
(* metrics hold: SumFunctionOnSet of the community modules adds the values   *)
(* up in an order that CHOOSE makes, and these lemmas say that it is the sum *)
(* whatever the order.                                                      *)
(*                                                                          *)
(* The induction is over the subsets of a finite set: a set of subsets that  *)
(* is not empty has a smallest one, so there is no smallest counterexample.  *)
(***************************************************************************)
EXTENDS Integers, Functions, FiniteSetTheorems, TLAPS

LEMMA SmallestSubset ==
    ASSUME NEW S, IsFiniteSet(S), NEW B \in SUBSET (SUBSET S), B # {}
    PROVE  \E T \in B : \A U \in SUBSET T : U # T => U \notin B
<1>1. IsWellFoundedOn(StrictSubsetOrdering(S), SUBSET S)
  BY FS_StrictSubsetOrderingWellFounded, FS_FiniteSubsetsOfFinite
<1>2. PICK T \in B : \A U \in B : ~(<<U, T>> \in StrictSubsetOrdering(S))
  BY <1>1, WFMin
<1>3. QED
  BY <1>2 DEF StrictSubsetOrdering

-----------------------------------------------------------------------------
\* The element that the sum of s starts with.
First(s) == CHOOSE x \in s : TRUE

\* g gives the sum of f over every subset of S.
Sums(g, f, S) ==
    g = [s \in SUBSET S |-> IF s = {} THEN 0 ELSE f[First(s)] + g[s \ {First(s)}]]

LEMMA SumDef ==
    ASSUME NEW f, NEW S
    PROVE  SumFunctionOnSet(f, S) = (CHOOSE g : Sums(g, f, S))[S]
BY DEF SumFunctionOnSet, FoldFunctionOnSet, MapThenFoldSet, Sums, First

LEMMA SumsAt ==
    ASSUME NEW f, NEW S, NEW g, Sums(g, f, S), NEW s \in SUBSET S
    PROVE  /\ s = {} => g[s] = 0
           /\ s # {} => g[s] = f[First(s)] + g[s \ {First(s)}]
BY DEF Sums

LEMMA SumsAtEmpty ==
    ASSUME NEW f, NEW S, NEW g, Sums(g, f, S)
    PROVE  g[{}] = 0
<1>1. {} \in SUBSET S
  OBVIOUS
<1>2. QED
  BY <1>1, SumsAt

LEMMA FirstIn == ASSUME NEW s, s # {} PROVE First(s) \in s
BY DEF First

\* The sums over two sets agree on what is in both.
LEMMA SumsAgree ==
    ASSUME NEW f, NEW S, IsFiniteSet(S), NEW T, NEW g, NEW h,
           Sums(g, f, S), Sums(h, f, T), NEW R, R \subseteq S, R \subseteq T
    PROVE  g[R] = h[R]
<1> DEFINE B == {U \in SUBSET R : g[U] # h[U]}
<1> SUFFICES ASSUME B # {} PROVE FALSE
  OBVIOUS
<1>1. IsFiniteSet(R)
  BY FS_Subset
<1>2. B \in SUBSET (SUBSET R)
  OBVIOUS
<1>3. PICK U \in B : \A V \in SUBSET U : V # U => V \notin B
  <2> HIDE DEF B
  <2>1. QED
    BY <1>1, <1>2, SmallestSubset
<1>4. CASE U = {}
  <2>1. g[{}] = 0 /\ h[{}] = 0
    BY SumsAtEmpty
  <2>2. QED
    BY <1>3, <1>4, <2>1
<1>5. CASE U # {}
  <2>1. /\ U \in SUBSET S /\ U \in SUBSET T
        /\ U \ {First(U)} \in SUBSET U /\ U \ {First(U)} # U
    BY <1>5, FirstIn
  <2>2. g[U \ {First(U)}] = h[U \ {First(U)}]
    BY <2>1, <1>3
  <2>3. g[U] = f[First(U)] + g[U \ {First(U)}]
    BY <2>1, <1>5, SumsAt
  <2>4. h[U] = f[First(U)] + h[U \ {First(U)}]
    BY <2>1, <1>5, SumsAt
  <2>5. QED
    BY <2>2, <2>3, <2>4, <1>3
<1>6. QED
  BY <1>4, <1>5

\* There is such a function: on a smallest set that had none, it would be made
\* from those of the sets below.
LEMMA SumsExist ==
    ASSUME NEW f, NEW S, IsFiniteSet(S)
    PROVE  \E g : Sums(g, f, S)
<1> DEFINE B == {T \in SUBSET S : ~ \E g : Sums(g, f, T)}
<1> SUFFICES ASSUME B # {} PROVE FALSE
  OBVIOUS
<1>1. B \in SUBSET (SUBSET S)
  OBVIOUS
<1>2. PICK T \in B : \A U \in SUBSET T : U # T => U \notin B
  <2> HIDE DEF B
  <2>1. QED
    BY <1>1, SmallestSubset
<1> DEFINE below(U) == CHOOSE g : Sums(g, f, U)
           h == [s \in SUBSET T |-> IF s = {} THEN 0
                   ELSE f[First(s)] + below(s \ {First(s)})[s \ {First(s)}]]
<1>3. ASSUME NEW U \in SUBSET T, U # T PROVE Sums(below(U), f, U) /\ IsFiniteSet(U)
  BY <1>2, <1>3, FS_Subset
<1>4. ASSUME NEW U \in SUBSET T, U # T PROVE h[U] = below(U)[U]
  <2>1. CASE U = {}
    <3>1. h[U] = 0
      BY <2>1
    <3>2. Sums(below(U), f, U)
      BY <1>3, <1>4
    <3> HIDE DEF below, h
    <3>3. below(U)[{}] = 0
      BY <3>2, SumsAtEmpty
    <3>4. QED
      BY <2>1, <3>1, <3>3
  <2>2. CASE U # {}
    <3> DEFINE V == U \ {First(U)}
    <3>1. V \in SUBSET U /\ V \in SUBSET T /\ V # T /\ V \subseteq V /\ U \in SUBSET U
      BY <2>2, <1>4, FirstIn
    <3>2. Sums(below(V), f, V) /\ IsFiniteSet(V) /\ Sums(below(U), f, U)
      BY <3>1, <1>3, <1>4
    <3>3. below(V)[V] = below(U)[V]
      <4> HIDE DEF V, below
      <4>1. QED
        BY <3>1, <3>2, SumsAgree
    <3>4. below(U)[U] = f[First(U)] + below(U)[V]
      <4> HIDE DEF below
      <4>1. QED
        BY <3>1, <3>2, <2>2, SumsAt
    <3>5. h[U] = f[First(U)] + below(V)[V]
      <4> HIDE DEF below
      <4>1. QED
        BY <2>2, <1>4
    <3>6. QED
      BY <3>3, <3>4, <3>5
  <2>3. QED
    BY <2>1, <2>2
<1>5. Sums(h, f, T)
  <2>1. h = [s \in SUBSET T |-> IF s = {} THEN 0
               ELSE f[First(s)] + below(s \ {First(s)})[s \ {First(s)}]]
    OBVIOUS
  <2> HIDE DEF h, below
  <2>2. ASSUME NEW s \in SUBSET T, s # {}
        PROVE  h[s \ {First(s)}] = below(s \ {First(s)})[s \ {First(s)}]
    <3>1. s \ {First(s)} \in SUBSET T /\ s \ {First(s)} # T
      BY <2>2, FirstIn
    <3>2. QED
      BY <3>1, <1>4
  <2>3. h = [s \in SUBSET T |-> IF s = {} THEN 0 ELSE f[First(s)] + h[s \ {First(s)}]]
    BY <2>1, <2>2
  <2>4. QED
    BY <2>3 DEF Sums
<1>6. QED
  BY <1>2, <1>5

-----------------------------------------------------------------------------
\* The sum over a set is that of its first element and the rest.
LEMMA SumFirst ==
    ASSUME NEW f, NEW S, IsFiniteSet(S)
    PROVE  /\ S = {} => SumFunctionOnSet(f, S) = 0
           /\ S # {} => SumFunctionOnSet(f, S)
                          = f[First(S)] + SumFunctionOnSet(f, S \ {First(S)})
<1> DEFINE g == CHOOSE g : Sums(g, f, S)
           R == S \ {First(S)}
           h == CHOOSE h : Sums(h, f, R)
<1>1. Sums(g, f, S)
  BY SumsExist
<1>2. SumFunctionOnSet(f, S) = g[S]
  BY SumDef
<1>3. S \in SUBSET S
  OBVIOUS
<1>4. S = {} => g[S] = 0
  <2> HIDE DEF g
  <2>1. QED
    BY <1>1, <1>3, SumsAt
<1>5. ASSUME S # {} PROVE g[S] = f[First(S)] + SumFunctionOnSet(f, R)
  <2>1. IsFiniteSet(R)
    BY FS_RemoveElement
  <2>2. Sums(h, f, R)
    BY <2>1, SumsExist
  <2>3. SumFunctionOnSet(f, R) = h[R]
    BY SumDef
  <2> HIDE DEF g, h
  <2>4. g[R] = h[R]
    <3>1. R \subseteq S /\ R \subseteq R
      OBVIOUS
    <3> HIDE DEF R
    <3>2. QED
      BY <3>1, <1>1, <2>2, SumsAgree
  <2>5. g[S] = f[First(S)] + g[R]
    BY <1>1, <1>3, <1>5, SumsAt
  <2>6. QED
    BY <2>3, <2>4, <2>5
<1>6. QED
  BY <1>2, <1>4, <1>5

\* It is a number if the values are, ...
LEMMA SumType ==
    ASSUME NEW f, NEW S, IsFiniteSet(S), \A x \in S : f[x] \in Int
    PROVE  /\ SumFunctionOnSet(f, S) \in Int
           /\ (\A x \in S : f[x] >= 0) => SumFunctionOnSet(f, S) >= 0
<1> DEFINE Good(T) == /\ SumFunctionOnSet(f, T) \in Int
                      /\ (\A x \in S : f[x] >= 0) => SumFunctionOnSet(f, T) >= 0
           B == {T \in SUBSET S : ~Good(T)}
<1> SUFFICES ASSUME B # {} PROVE FALSE
  OBVIOUS
<1>1. B \in SUBSET (SUBSET S)
  OBVIOUS
<1>2. PICK T \in B : \A U \in SUBSET T : U # T => U \notin B
  <2> HIDE DEF B
  <2>1. QED
    BY <1>1, SmallestSubset
<1>3. IsFiniteSet(T)
  BY FS_Subset
<1>4. CASE T = {}
  <2>1. SumFunctionOnSet(f, T) = 0
    BY <1>3, <1>4, SumFirst
  <2>2. QED
    BY <2>1, <1>2
<1>5. CASE T # {}
  <2>1. T \ {First(T)} \in SUBSET T /\ T \ {First(T)} # T /\ First(T) \in S
    BY <1>5, FirstIn
  <2>2. Good(T \ {First(T)})
    BY <2>1, <1>2
  <2>3. SumFunctionOnSet(f, T) = f[First(T)] + SumFunctionOnSet(f, T \ {First(T)})
    BY <1>3, <1>5, SumFirst
  <2>4. QED
    BY <2>1, <2>2, <2>3, <1>2
<1>6. QED
  BY <1>4, <1>5

\* ... any element may be taken out first, ...
LEMMA SumRemove ==
    ASSUME NEW f, NEW S, IsFiniteSet(S), \A x \in S : f[x] \in Int, NEW a \in S
    PROVE  SumFunctionOnSet(f, S) = f[a] + SumFunctionOnSet(f, S \ {a})
<1> DEFINE Good(T) == \A x \in T :
                SumFunctionOnSet(f, T) = f[x] + SumFunctionOnSet(f, T \ {x})
           B == {T \in SUBSET S : ~Good(T)}
<1> SUFFICES ASSUME B # {} PROVE FALSE
  OBVIOUS
<1>1. B \in SUBSET (SUBSET S)
  OBVIOUS
<1>2. PICK T \in B : \A U \in SUBSET T : U # T => U \notin B
  <2> HIDE DEF B
  <2>1. QED
    BY <1>1, SmallestSubset
<1>3. PICK x \in T : SumFunctionOnSet(f, T) # f[x] + SumFunctionOnSet(f, T \ {x})
  BY <1>2
<1> DEFINE c == First(T)
<1>4. IsFiniteSet(T) /\ c \in T /\ T \subseteq S
  BY FS_Subset, FirstIn
<1>5. SumFunctionOnSet(f, T) = f[c] + SumFunctionOnSet(f, T \ {c})
  BY <1>4, SumFirst
<1>6. x # c
  BY <1>3, <1>5
<1> HIDE DEF c
<1>7. /\ T \ {c} \in SUBSET T /\ T \ {c} # T /\ x \in T \ {c}
      /\ T \ {x} \in SUBSET T /\ T \ {x} # T /\ c \in T \ {x}
  BY <1>4, <1>6
<1> DEFINE R == (T \ {x}) \ {c}
<1>8. R = (T \ {c}) \ {x}
  OBVIOUS
<1>9. f[x] \in Int /\ f[c] \in Int /\ SumFunctionOnSet(f, R) \in Int
  <2>1. IsFiniteSet(R) /\ \A y \in R : f[y] \in Int
    BY <1>4, FS_Subset
  <2> HIDE DEF R
  <2>2. QED
    BY <2>1, <1>4, SumType
<1>10. SumFunctionOnSet(f, T \ {x}) = f[c] + SumFunctionOnSet(f, R)
  BY <1>2, <1>7
<1> HIDE DEF R
<1>11. SumFunctionOnSet(f, T \ {c}) = f[x] + SumFunctionOnSet(f, R)
  BY <1>2, <1>7, <1>8
<1> HIDE DEF Good, B
<1>12. QED
  BY <1>3, <1>5, <1>9, <1>10, <1>11

\* ... and only the values on the set count.
LEMMA SumSame ==
    ASSUME NEW f, NEW g, NEW S, IsFiniteSet(S), \A x \in S : f[x] = g[x]
    PROVE  SumFunctionOnSet(f, S) = SumFunctionOnSet(g, S)
<1> DEFINE B == {T \in SUBSET S : SumFunctionOnSet(f, T) # SumFunctionOnSet(g, T)}
<1> SUFFICES ASSUME B # {} PROVE FALSE
  OBVIOUS
<1>1. B \in SUBSET (SUBSET S)
  OBVIOUS
<1>2. PICK T \in B : \A U \in SUBSET T : U # T => U \notin B
  <2> HIDE DEF B
  <2>1. QED
    BY <1>1, SmallestSubset
<1>3. IsFiniteSet(T)
  BY FS_Subset
<1>4. CASE T = {}
  BY <1>2, <1>3, <1>4, SumFirst
<1>5. CASE T # {}
  <2>1. T \ {First(T)} \in SUBSET T /\ T \ {First(T)} # T /\ First(T) \in S
    BY <1>5, FirstIn
  <2>2. SumFunctionOnSet(f, T \ {First(T)}) = SumFunctionOnSet(g, T \ {First(T)})
    BY <2>1, <1>2
  <2>3. SumFunctionOnSet(f, T) = f[First(T)] + SumFunctionOnSet(f, T \ {First(T)})
    BY <1>3, <1>5, SumFirst
  <2>4. SumFunctionOnSet(g, T) = g[First(T)] + SumFunctionOnSet(g, T \ {First(T)})
    BY <1>3, <1>5, SumFirst
  <2>5. QED
    BY <2>1, <2>2, <2>3, <2>4, <1>2
<1>6. QED
  BY <1>4, <1>5

-----------------------------------------------------------------------------
(***************************************************************************)
(* What the proofs of the models cite.                                      *)
(***************************************************************************)

\* If two functions differ at one place, so do their sums, by the same.
LEMMA SumUpdate ==
    ASSUME NEW S, IsFiniteSet(S), NEW f \in [S -> Int], NEW g \in [S -> Int],
           NEW a \in S, \A x \in S \ {a} : f[x] = g[x]
    PROVE  SumFunction(g) = SumFunction(f) - f[a] + g[a]
<1>1. SumFunction(f) = SumFunctionOnSet(f, S) /\ SumFunction(g) = SumFunctionOnSet(g, S)
  BY DEF SumFunction
<1>2. IsFiniteSet(S \ {a})
  BY FS_RemoveElement
<1>3. SumFunctionOnSet(f, S) = f[a] + SumFunctionOnSet(f, S \ {a})
  BY SumRemove
<1>4. SumFunctionOnSet(g, S) = g[a] + SumFunctionOnSet(g, S \ {a})
  BY SumRemove
<1>5. SumFunctionOnSet(f, S \ {a}) = SumFunctionOnSet(g, S \ {a})
  BY <1>2, SumSame
<1>6. SumFunctionOnSet(f, S \ {a}) \in Int
  BY <1>2, SumType
<1>7. QED
  BY <1>1, <1>3, <1>4, <1>5, <1>6

LEMMA SumZero ==
    ASSUME NEW S, IsFiniteSet(S), NEW f \in [S -> Int], \A x \in S : f[x] = 0
    PROVE  SumFunction(f) = 0
<1> DEFINE B == {T \in SUBSET S : SumFunctionOnSet(f, T) # 0}
<1>1. B \in SUBSET (SUBSET S)
  OBVIOUS
<1>2. ASSUME B # {} PROVE FALSE
  <2>1. PICK T \in B : \A U \in SUBSET T : U # T => U \notin B
    <3> HIDE DEF B
    <3>1. QED
      BY <1>1, <1>2, SmallestSubset
  <2>2. IsFiniteSet(T)
    BY FS_Subset
  <2>3. CASE T = {}
    BY <2>1, <2>2, <2>3, SumFirst
  <2>4. CASE T # {}
    <3>1. T \ {First(T)} \in SUBSET T /\ T \ {First(T)} # T /\ f[First(T)] = 0
      BY <2>4, FirstIn
    <3>2. SumFunctionOnSet(f, T \ {First(T)}) = 0
      BY <3>1, <2>1
    <3>3. SumFunctionOnSet(f, T) = f[First(T)] + SumFunctionOnSet(f, T \ {First(T)})
      BY <2>2, <2>4, SumFirst
    <3>4. QED
      BY <3>1, <3>2, <3>3, <2>1
  <2>5. QED
    BY <2>3, <2>4
<1>3. QED
  BY <1>2 DEF SumFunction

LEMMA SumIsNat ==
    ASSUME NEW S, IsFiniteSet(S), NEW f \in [S -> Nat]
    PROVE  SumFunction(f) \in Nat
BY SumType DEF SumFunction

LEMMA SumIsInt ==
    ASSUME NEW S, IsFiniteSet(S), NEW f \in [S -> Int]
    PROVE  SumFunction(f) \in Int
BY SumType DEF SumFunction

=============================================================================
