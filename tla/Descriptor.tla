----------------------------- MODULE Descriptor -----------------------------
(***************************************************************************)
(* desc.rs and the options, labels and names a descriptor is made from      *)
(* (metrics.rs, value.rs, the macros labels! and opts!).                    *)
(*                                                                          *)
(* A string is a sequence of characters.  A hash is the bytes that are       *)
(* written to the hasher: two of them are equal when the bytes are, so what  *)
(* is modelled is which inputs are told apart, and collisions of the hash    *)
(* function itself are not.                                                 *)
(***************************************************************************)
EXTENDS Integers, Sequences, SequencesExt, FiniteSets

\* The characters of a TLA+ string.
Chars(s) == [i \in 1 .. Len(s) |-> SubSeq(s, i, i)]

\* The characters of the models, in the order of their bytes, and SEPARATOR_BYTE.
Bytes == Chars("\n \"#$/0123456789:ABCDEFGHIJKLMNOPQRSTUVWXYZ\\_abcdefghijklmnopqrstuvwxyz{") \o <<"0xFF">>
SEPARATOR_BYTE == "0xFF"

\* A String is UTF-8, in which no byte is 0xFF.
Text == {s \in Seq(STRING) : \A i \in DOMAIN s : s[i] # SEPARATOR_BYTE}

Rank == [c \in ToSet(Bytes) |-> CHOOSE i \in DOMAIN Bytes : Bytes[i] = c]

\* str::cmp.
Less(a, b) ==
    \/ IsStrictPrefix(a, b)
    \/ \E i \in DOMAIN a \cap DOMAIN b :
          SubSeq(a, 1, i - 1) = SubSeq(b, 1, i - 1) /\ Rank[a[i]] < Rank[b[i]]

\* An element behind those of a sorted sequence that it is not before.
Inserted(sorted, x, Before(_, _)) ==
    LET n == Cardinality({i \in DOMAIN sorted : ~Before(x, sorted[i])})
    IN  SubSeq(sorted, 1, n) \o <<x>> \o SubSeq(sorted, n + 1, Len(sorted))

\* Vec::sort, sort_by: equal elements keep their order.
StableSort(s, Before(_, _)) ==
    LET sorted[n \in 0 .. Len(s)] ==
            IF n = 0 THEN << >> ELSE Inserted(sorted[n - 1], s[n], Before)
    IN  sorted[Len(s)]

\* Result<T>.
Ok(v) == [ok |-> TRUE, v |-> v]
Err(e) == [ok |-> FALSE, e |-> e]

-----------------------------------------------------------------------------
Digits == {"0", "1", "2", "3", "4", "5", "6", "7", "8", "9"}
Letters == {"A", "B", "C", "D", "E", "F", "G", "H", "I", "J", "K", "L", "M",
            "N", "O", "P", "Q", "R", "S", "T", "U", "V", "W", "X", "Y", "Z",
            "a", "b", "c", "d", "e", "f", "g", "h", "i", "j", "k", "l", "m",
            "n", "o", "p", "q", "r", "s", "t", "u", "v", "w", "x", "y", "z"}

matches_charset_without_colon == Letters \cup {"_"}
matches_charset_with_colon == matches_charset_without_colon \cup {":"}

is_valid_ident(input, charset) ==
    /\ input # << >>
    /\ Head(input) \in charset
    /\ \A i \in DOMAIN Tail(input) : Tail(input)[i] \in charset \cup Digits

is_valid_metric_name(name) == is_valid_ident(name, matches_charset_with_colon)
is_valid_label_name(name) == is_valid_ident(name, matches_charset_without_colon)

-----------------------------------------------------------------------------
\* labels!, and any HashMap of labels: of two values for a name the later stays.
Labels(entries) ==
    [n \in {entries[i][1] : i \in DOMAIN entries} |->
        LET last == CHOOSE i \in DOMAIN entries :
                        /\ entries[i][1] = n
                        /\ \A j \in DOMAIN entries : entries[j][1] = n => j <= i
        IN  entries[last][2]]

Opts(name, help) ==
    [namespace |-> << >>, subsystem |-> << >>, name |-> name, help |-> help,
     const_labels |-> Labels(<< >>), variable_labels |-> << >>]

\* opts!: the constant labels of every map in turn.
opts(name, help, maps) ==
    [Opts(name, help) EXCEPT !.const_labels = Labels(FlattenSeq(maps))]

build_fq_name(namespace, subsystem, name) ==
    IF name = << >> THEN << >>
    ELSE FlattenSeq([i \in 1 .. 2 |->
                        LET part == <<namespace, subsystem>>[i]
                        IN  IF part = << >> THEN << >> ELSE Append(part, "_")])
           \o name

fq_name(o) == build_fq_name(o.namespace, o.subsystem, o.name)

-----------------------------------------------------------------------------
\* Mutant: the strings are not separated.
HashedTogether(strings) == FlattenSeq(strings)

\* What a hasher is given: every string, and a separator after it.
Hashed(strings) ==
    FlattenSeq([i \in DOMAIN strings |-> Append(strings[i], SEPARATOR_BYTE)])

Prefixed(name) == <<"$">> \o name

\* The names and values of the constant labels, in the order of the names.
SortedNames(names) == StableSort(SetToSeq(names), Less)
ConstPairs(labels) ==
    LET names == SortedNames(DOMAIN labels)
    IN  [i \in DOMAIN names |-> [name |-> names[i], value |-> labels[names[i]]]]

\* The id: the name and the values of the constant labels.
DescId(name, labels) ==
    Hashed(<<name>> \o [i \in DOMAIN ConstPairs(labels) |-> ConstPairs(labels)[i].value])

\* Mutant: variable and constant label names are not told apart.
DimHashUnprefixed(help, labels, variable) ==
    Hashed(<<help>> \o SortedNames(DOMAIN labels \cup ToSet(variable)))

\* The dimensions: help, and the names of all labels, the variable ones with a
\* prefix that tells them from constant ones.
DimHash(help, labels, variable) ==
    Hashed(<<help>> \o SortedNames(DOMAIN labels
                                     \cup {Prefixed(n) : n \in ToSet(variable)}))

\* Mutant: a variable label may be named twice.
NoneTwiceUnchecked(variable) == TRUE

\* Inserting the variable labels into the set of names finds none there.
NoneTwice(variable) == IsInjective(variable)

\* Desc::new.
NewDesc(name, help, variable, labels) ==
    IF help = << >> THEN Err("help")
    ELSE IF ~is_valid_metric_name(name) THEN Err("metric name")
    ELSE IF \E n \in DOMAIN labels \cup ToSet(variable) : ~is_valid_label_name(n)
    THEN Err("label name")
    ELSE IF ~NoneTwice(variable) THEN Err("duplicate")
    ELSE Ok([fq_name |-> name, help |-> help,
             const_label_pairs |-> ConstPairs(labels),
             variable_labels |-> variable,
             id |-> DescId(name, labels),
             dim_hash |-> DimHash(help, labels, variable)])

\* Opts::describe.
describe(o) == NewDesc(fq_name(o), o.help, o.variable_labels, o.const_labels)

-----------------------------------------------------------------------------
\* LabelPair::cmp.
PairLess(p, q) == Less(p.name, q.name)

make_label_pairs(desc, values) ==
    IF Len(values) # Len(desc.variable_labels) THEN Err("cardinality")
    ELSE Ok(StableSort([i \in DOMAIN values |->
                           [name |-> desc.variable_labels[i], value |-> values[i]]]
                         \o desc.const_label_pairs, PairLess))
=============================================================================
