----------------------------- MODULE StaticMetric -----------------------------
(***************************************************************************)
(* The static-metric crate.  make_static_metric! and                         *)
(* make_auto_flush_static_metric! generate a tree of structs from label      *)
(* definitions; here its code is run: a root is built from a vector, one     *)
(* leaf for each combination of label values, and leaves are reached through *)
(* fields, get and try_get, or through the offsets of delegators into a root *)
(* that each thread has of its own.                                         *)
(*                                                                          *)
(* Identifiers are strings of TLA+; label keys and values are sequences of   *)
(* characters, as in Descriptor.  When a root is flushed automatically is    *)
(* in AutoFlush.                                                            *)
(***************************************************************************)
EXTENDS Collectors

CONSTANTS
    Programs,  \* macro invocations, and the names of the labels of the vector
               \* that the last metric is used with
    Threads,
    MaxUpdates \* bound: the updates of all threads

\* Names, each with a value of its own or without.
Definitions == Seq({given \in Seq(STRING) : given # << >>})
LabelDefs == [key : Seq(STRING), enum : STRING, values : Definitions]
EnumDefs == [item : {"enum"}, name : STRING, public : BOOLEAN, definitions : Definitions]
MetricDefs == [item : {"metric"}, name : STRING, public : BOOLEAN, type : STRING,
               labels : Seq(LabelDefs)]

ASSUME ProgramsAssumption ==
    Programs \subseteq
        [invocations : Seq([auto_flush : BOOLEAN, items : Seq(EnumDefs \cup MetricDefs)]),
         labels : Seq(Seq(STRING))]

VARIABLES
    program,
    SCOPE_ID,  \* builder.rs: how many scopes there are
    expanded,  \* the metrics generated so far
    order,     \* the order of the fields in memory, by label
    vec,       \* the metric vector, << >> before there is one
    roots,     \* the roots, by owner: the leaves that have been built
    panicked,  \* "no", or where the program ended
    made       \* history: the updates, by label values

vars == <<program, SCOPE_ID, expanded, order, vec, roots, panicked, made>>

-----------------------------------------------------------------------------
(***************************************************************************)
(* parser.rs                                                                *)
(***************************************************************************)
\* name, or name: "value".
MetricValueDef(given) ==
    [name |-> given[1],
     value |-> IF Len(given) = 1 THEN Chars(given[1]) ELSE Chars(given[2])]

MetricValueDefList(given) == [i \in DOMAIN given |-> MetricValueDef(given[i])]
get_names(defs) == [i \in DOMAIN defs |-> defs[i].name]
get_values(defs) == [i \in DOMAIN defs |-> defs[i].value]

\* Label keys with values of their own, or with the name of an enum.
get_value_def_list(label, enums) ==
    IF label.enum = "none" THEN MetricValueDefList(label.values)
    ELSE enums[label.enum].definitions
get_enum_ident(label) == label.enum

-----------------------------------------------------------------------------
(***************************************************************************)
(* util.rs                                                                  *)
(***************************************************************************)
is_local_metric(type) == IsPrefix(Chars("Local"), Chars(type))
to_non_local_metric_type(type) ==
    IF is_local_metric(type) THEN SubSeq(type, 6, Len(type)) ELSE type
get_label_struct_name(name, index) ==
    IF index = 1 THEN name ELSE name \o ToString(index)
get_member_type(struct, index) ==
    IF index = Len(struct.labels) THEN struct.type
    ELSE get_label_struct_name(struct.name, index + 1)
get_inner_member_type(struct, index) ==
    IF index = Len(struct.labels) THEN struct.type
    ELSE get_label_struct_name(struct.name, index + 1) \o "Inner"
get_delegator_member_type(struct, index) ==
    IF index = Len(struct.labels) THEN "usize"
    ELSE get_label_struct_name(struct.name, index + 1) \o "Delegator"

-----------------------------------------------------------------------------
(***************************************************************************)
(* builder.rs and auto_flush_builder.rs: what a macro generates.            *)
(***************************************************************************)
\* Enums must be defined before they are used, and be as visible as the metric.
CheckEnums(struct, enums) ==
    LET used == {get_enum_ident(struct.labels[i]) : i \in DOMAIN struct.labels} \ {"none"}
    IN  IF ~(used \subseteq DOMAIN enums) THEN "undefined enum"
        ELSE IF struct.public /\ \E e \in used : ~enums[e].public THEN "private enum"
        ELSE "none"

\* One level of the tree: make_static_metric.
MetricBuilderContext(struct, enums, index) ==
    [label_key |-> struct.labels[index].key,
     enum |-> get_enum_ident(struct.labels[index]),
     defs |-> get_value_def_list(struct.labels[index], enums),
     structs |-> {<<get_label_struct_name(struct.name, index),
                    get_member_type(struct, index)>>}]

\* make_auto_flush_static_metric: a level of the inner tree, its delegator, and
\* for the first label the outer struct.
AutoFlushContext(struct, enums, index) ==
    LET name == get_label_struct_name(struct.name, index)
    IN  [MetricBuilderContext(struct, enums, index) EXCEPT !.structs =
            {<<name \o "Inner", get_inner_member_type(struct, index)>>,
             <<name \o "Delegator", get_delegator_member_type(struct, index)>>}
            \cup IF index = 1 THEN {<<name, name \o "Delegator">>} ELSE {}]

\* Mutant: every metric is in the first scope.
NextScopeSame(scope) == scope

\* SCOPE_ID.fetch_add(1).
NextScope(scope) == scope + 1

\* A metric definition becomes a module of a scope of its own.
build_metric_struct(acc, struct) ==
    IF CheckEnums(struct, acc.enums) # "none"
    THEN [acc EXCEPT !.error = CheckEnums(struct, acc.enums)]
    ELSE [acc EXCEPT
            !.scope = NextScope(@),
            !.metrics = Append(@, [scope |-> acc.scope, type |-> struct.type,
                auto_flush |-> FALSE,
                levels |-> [i \in DOMAIN struct.labels |->
                               MetricBuilderContext(struct, acc.enums, i)]])]

build_auto_flush_metric_struct(acc, struct) ==
    IF CheckEnums(struct, acc.enums) # "none"
    THEN [acc EXCEPT !.error = CheckEnums(struct, acc.enums)]
    ELSE IF struct.labels = << >> THEN [acc EXCEPT !.error = "no labels"]
    ELSE IF to_non_local_metric_type(struct.type) \notin {"Counter", "IntCounter", "Histogram"}
    THEN [acc EXCEPT !.error = "metric type"]
    ELSE [acc EXCEPT
            !.scope = NextScope(@),
            !.metrics = Append(@, [scope |-> acc.scope, type |-> struct.type,
                auto_flush |-> TRUE,
                levels |-> [i \in DOMAIN struct.labels |->
                               AutoFlushContext(struct, acc.enums, i)]])]

build_label_enum(acc, item) ==
    [acc EXCEPT !.enums = With(@, item.name,
        [public |-> item.public, definitions |-> MetricValueDefList(item.definitions)])]

\* An item of the macro's body; after a panic there are no more.
build_item(auto_flush, acc, item) ==
    IF acc.error # "none" THEN acc
    ELSE IF item.item = "enum" THEN build_label_enum(acc, item)
    ELSE IF auto_flush THEN build_auto_flush_metric_struct(acc, item)
    ELSE build_metric_struct(acc, item)

\* build of both builders: the items in their order.
build(auto_flush, items, scope, metrics) ==
    LET built[n \in 0 .. Len(items)] ==
            IF n = 0
            THEN [enums |-> << >>, scope |-> scope, metrics |-> metrics, error |-> "none"]
            ELSE build_item(auto_flush, built[n - 1], items[n])
    IN  built[Len(items)]

\* The fields of the root that are no labels'.
RootFields(index) == IF index = 1 THEN {"last_flush", "flush_millis"} ELSE {}

\* What the compiler refuses: a metric without a struct of its name, and a struct
\* that has a field twice.
Compiles(m) ==
    /\ m.levels # << >>
    /\ \A i \in DOMAIN m.levels :
        LET names == get_names(m.levels[i].defs)
        IN  /\ IsInjective(names)
            /\ m.auto_flush => ToSet(names) \cap RootFields(i) = {}

-----------------------------------------------------------------------------
(***************************************************************************)
(* The generated code: from, get, try_get and flush.                        *)
(***************************************************************************)
\* Mutant: the fields' names for the values.
LabelMapOfNames(levels, path) ==
    Labels([i \in DOMAIN path |-> <<levels[i].label_key, Chars(path[i].name)>>])

\* The map that a leaf is looked up with.
LabelMap(levels, path) ==
    Labels([i \in DOMAIN path |-> <<levels[i].label_key, path[i].value>>])

\* The leaves of a tree of structs, by the fields that lead there: the fields of
\* a struct in their order, and what is below each.
Paths(levels) ==
    LET paths[n \in 0 .. Len(levels)] ==
            IF n = 0 THEN << << >> >>
            ELSE LET shorter == paths[n - 1]
                 IN  FlattenSeq([i \in DOMAIN shorter |->
                        [j \in DOMAIN levels[n].defs |->
                            Append(shorter[i], levels[n].defs[j])]])
    IN  paths[Len(levels)]

\* One leaf: m.with(..), a panic if there is no such metric, and .local().
FromLeaf(levels, path, acc) ==
    LET child == GetMetricWith(acc.vec, LabelMap(levels, path))
    IN  IF ~acc.ok THEN acc
        ELSE IF ~child.ok THEN [acc EXCEPT !.ok = FALSE]
        ELSE [acc EXCEPT !.vec = child.v.vec,
                         !.leaves = With(@, get_names(path), [key |-> child.v.key, held |-> 0])]

\* from: the leaves in their order, until one panics.
From(levels, v) ==
    LET paths == Paths(levels)
        built[n \in 0 .. Len(paths)] ==
            IF n = 0 THEN [vec |-> v, leaves |-> << >>, ok |-> TRUE]
            ELSE FromLeaf(levels, paths[n], built[n - 1])
    IN  built[Len(paths)]

\* get: the field whose place in the struct is that of the item in the enum.
get(level, item) ==
    level.defs[CHOOSE i \in DOMAIN level.defs : get_names(level.defs)[i] = item].name

\* Mutant: the names of the fields are matched.
try_get_name(level, value) ==
    LET found == {i \in DOMAIN level.defs : Chars(get_names(level.defs)[i]) = value}
    IN  IF found = {} THEN "None" ELSE level.defs[Min(found)].name

\* try_get: the first arm of the match whose value it is.
try_get(level, value) ==
    LET found == {i \in DOMAIN level.defs : get_values(level.defs)[i] = value}
    IN  IF found = {} THEN "None" ELSE level.defs[Min(found)].name

\* What local metrics have added up of n updates of 1, in their child: inc_by, and
\* the addition of every bucket.
Refilled(type, child, n) ==
    LET once == Updated(type, child, 1)
    IN  IF type # "HISTOGRAM" THEN Updated(type, child, n)
        ELSE [child EXCEPT !.count = @ + n, !.sum = @ + n,
                           !.counts = [i \in DOMAIN @ |-> @[i] + n * (once.counts[i] - @[i])]]

\* flush of one local metric into its child.
FlushLeaf(acc, leaf) ==
    LET key == acc.leaves[leaf].key
    IN  [vec |-> [acc.vec EXCEPT !.children[key] =
                     Refilled(acc.vec.type, @, acc.leaves[leaf].held)],
         leaves |-> [acc.leaves EXCEPT ![leaf].held = 0]]

\* Mutant: flush leaves out the last leaf.
FlushTreeShort(paths, acc) ==
    LET flushed[n \in 0 .. Len(paths)] ==
            IF n = 0 THEN acc ELSE FlushLeaf(flushed[n - 1], get_names(paths[n]))
    IN  flushed[Len(paths) - 1]

\* flush: every field in turn, and what is below it.
FlushTree(paths, acc) ==
    LET flushed[n \in 0 .. Len(paths)] ==
            IF n = 0 THEN acc ELSE FlushLeaf(flushed[n - 1], get_names(paths[n]))
    IN  flushed[Len(paths)]

-----------------------------------------------------------------------------
(***************************************************************************)
(* The delegators: offsets into the root, taken from a value of each struct  *)
(* that is not initialized.  Memory is counted in leaves; the compiler may   *)
(* put the fields of a struct in any order, the same for all its values.     *)
(***************************************************************************)
\* The size of a struct of a level, and of a leaf behind the last one: fields of
\* the size of the next level, the lowest level first.
SizeOf(levels, index) ==
    LET size[height \in 0 .. Len(levels)] ==
            IF height = 0 THEN 1
            ELSE LET i == Len(levels) - height + 1
                 IN  Len(levels[i].defs) * size[height - 1] + Cardinality(RootFields(i))
    IN  size[Len(levels) - index + 1]

\* The offset of a field in the struct of a level: what is before it in memory.
OffsetOf(levels, index, name) ==
    LET place  == CHOOSE i \in DOMAIN order[index] : order[index][i] = name
        before == {order[index][i] : i \in 1 .. (place - 1)}
    IN  Cardinality(before \ RootFields(index)) * SizeOf(levels, index + 1)
          + Cardinality(before \cap RootFields(index))

\* from of the outer struct: the offset of a field of the root.
outer_from(levels, name) == <<OffsetOf(levels, 1, name)>>

\* Mutant: a delegator forgets the offset of its own level.
delegator_new_forgets(levels, offsets, name) ==
    Append([offsets EXCEPT ![Len(offsets)] = 0], OffsetOf(levels, Len(offsets) + 1, name))

\* new of the delegators: the offsets known so far, and that of a field of the
\* next level.
delegator_new(levels, offsets, name) ==
    Append(offsets, OffsetOf(levels, Len(offsets) + 1, name))

\* The offsets in the last delegator on a way from the outer struct.
Delegator(levels, path) ==
    LET offsets[n \in 1 .. Len(path)] ==
            IF n = 1 THEN outer_from(levels, path[1])
            ELSE delegator_new(levels, offsets[n - 1], path[n])
    IN  offsets[Len(path)]

\* An address, and offsets one after the other from there.
Along(offsets) ==
    LET address[n \in 0 .. Len(offsets)] ==
            IF n = 0 THEN 0 ELSE address[n - 1] + offsets[n]
    IN  address[Len(offsets)]

\* get_local.
get_local(offsets) == Along(offsets)

\* The leaf at an address of a root, if there is one.
LeavesAt(levels, leaves, address) ==
    {path \in leaves : Along([i \in DOMAIN path |-> OffsetOf(levels, i, path[i])]) = address}

-----------------------------------------------------------------------------
Metric == Last(expanded)
Levels == Metric.levels
IsLocal == is_local_metric(Metric.type)
Expanded == program.invocations = << >> /\ panicked = "no" /\ expanded # << >>

\* A local root is in a LocalKey and its owner a thread; others are shared.
Owner(t) == IF IsLocal THEN t ELSE "shared"
Built_(t) == Expanded /\ vec # << >> /\ Owner(t) \in DOMAIN roots

Init ==
    /\ program \in Programs
    /\ SCOPE_ID = 0 /\ expanded = << >> /\ order = << >>
    /\ vec = << >> /\ roots = << >> /\ panicked = "no" /\ made = << >>

\* The orders that the fields of the structs of a root may have in memory.
Orders(levels) ==
    LET layouts(i) == SetToSeqs(ToSet(get_names(levels[i].defs)) \cup RootFields(i))
    IN  {o \in [DOMAIN levels -> UNION {layouts(i) : i \in DOMAIN levels}] :
            \A i \in DOMAIN levels : o[i] \in layouts(i)}

\* A macro is expanded, while the program is compiled.
Expand ==
    /\ program.invocations # << >> /\ panicked = "no"
    /\ LET head == Head(program.invocations)
           done == build(head.auto_flush, head.items, SCOPE_ID, expanded)
           ok   == done.error = "none" /\ \A m \in ToSet(done.metrics) : Compiles(m)
       IN  /\ SCOPE_ID' = done.scope
           /\ expanded' = done.metrics
           /\ panicked' = IF ok THEN "no" ELSE "compile"
           /\ IF /\ ok /\ Len(program.invocations) = 1
                 /\ done.metrics # << >> /\ Last(done.metrics).auto_flush
              THEN order' \in Orders(Last(done.metrics).levels)
              ELSE UNCHANGED order
    /\ program' = [program EXCEPT !.invocations = Tail(@)]
    /\ UNCHANGED <<vec, roots, made>>

VecType == [Counter |-> "COUNTER", IntCounter |-> "COUNTER", Gauge |-> "GAUGE",
            Histogram |-> "HISTOGRAM"]

\* register_static_..._vec!, or a vector of the program's own: it is made first.
MakeVec ==
    /\ Expanded /\ vec = << >>
    /\ LET v == NewVec(VecType[to_non_local_metric_type(Metric.type)],
                       Opts(Chars("m"), Chars("h")), << >>, program.labels)
       IN  v.ok /\ vec' = v.v
    /\ UNCHANGED <<program, SCOPE_ID, expanded, order, roots, panicked, made>>

\* from: the static struct, or a thread's root when the thread uses it first.
BuildRoot(t) ==
    /\ Expanded /\ vec # << >> /\ Owner(t) \notin DOMAIN roots
    /\ LET done == From(Levels, vec)
       IN  /\ vec' = done.vec
           /\ roots' = IF done.ok THEN With(roots, Owner(t), done.leaves) ELSE roots
           /\ panicked' = IF done.ok THEN "no" ELSE "from"
    /\ UNCHANGED <<program, SCOPE_ID, expanded, order, made>>

\* What a step of an access names, the label value that it means, and the field
\* that it leads to.  Only enums have get, only plain structs try_get.
Steps(level) ==
    {[value |-> d.value, field |-> d.name] : d \in ToSet(level.defs)}
    \cup {[value |-> d.value, field |-> get(level, d.name)] :
            d \in IF level.enum = "none" THEN {} ELSE ToSet(level.defs)}
    \cup {[value |-> v, field |-> try_get(level, v)] :
            v \in IF Metric.auto_flush THEN {} ELSE ToSet(get_values(level.defs))}

Accesses ==
    {s \in [DOMAIN Levels -> UNION {Steps(Levels[i]) : i \in DOMAIN Levels}] :
        \A i \in DOMAIN s : s[i] \in Steps(Levels[i]) /\ s[i].field # "None"}

\* The leaf of an access: a field, or what get_local finds at the offsets.
Leaf(t, access) ==
    LET path == [i \in DOMAIN access |-> access[i].field]
    IN  IF Metric.auto_flush
        THEN CHOOSE p \in LeavesAt(Levels, DOMAIN roots[Owner(t)],
                                   get_local(Delegator(Levels, path))) : TRUE
        ELSE path

\* The labels that values of all levels stand for.
Meant(levels, values) == Labels([i \in DOMAIN values |-> <<levels[i].label_key, values[i]>>])

Flushed(v, leaves) == FlushTree(Paths(Levels), [vec |-> v, leaves |-> leaves])

Count(f, k) == IF k \in DOMAIN f THEN f[k] ELSE 0

\* inc or observe; an auto-flushed root may be flushed after it.
UpdateLeaf(t, access) ==
    /\ MapThenSumSet(LAMBDA l : made[l], DOMAIN made) < MaxUpdates
    /\ LET leaf   == Leaf(t, access)
           meant  == Meant(Levels, [i \in DOMAIN access |-> access[i].value])
           leaves == roots[Owner(t)]
           direct == [vec EXCEPT !.children[leaves[leaf].key] = Updated(vec.type, @, 1)]
           added  == [leaves EXCEPT ![leaf].held = @ + 1]
       IN  /\ made' = With(made, meant, Count(made, meant) + 1)
           /\ IF ~IsLocal THEN vec' = direct /\ UNCHANGED roots
              ELSE \/ UNCHANGED vec /\ roots' = [roots EXCEPT ![Owner(t)] = added]
                   \/ /\ Metric.auto_flush
                      /\ vec' = Flushed(vec, added).vec
                      /\ roots' = [roots EXCEPT ![Owner(t)] = Flushed(vec, added).leaves]
    /\ UNCHANGED <<program, SCOPE_ID, expanded, order, panicked>>

\* flush of the static struct, or of the outer one: the thread's root.
Flush(t) ==
    /\ Built_(t) /\ IsLocal
    /\ vec' = Flushed(vec, roots[t]).vec
    /\ roots' = [roots EXCEPT ![t] = Flushed(vec, roots[t]).leaves]
    /\ UNCHANGED <<program, SCOPE_ID, expanded, order, panicked, made>>

Next ==
    \/ Expand \/ MakeVec
    \/ \E t \in Threads :
        \/ BuildRoot(t) \/ Flush(t)
        \/ Built_(t) /\ \E access \in Accesses : UpdateLeaf(t, access)

Spec == Init /\ [][Next]_vars

-----------------------------------------------------------------------------
\* The structs of all metrics are apart: two metrics may have names of which one
\* is the other and a number (builder.rs, SCOPE_ID).
StructsApart ==
    \A i, j \in DOMAIN expanded :
        i # j => {<<expanded[i].scope, s[1]>> : s \in UNION {l.structs : l \in ToSet(expanded[i].levels)}}
              \cap {<<expanded[j].scope, s[1]>> : s \in UNION {l.structs : l \in ToSet(expanded[j].levels)}}
              = {}

\* The key of the child that labels belong to.
KeyOf(v, labels) == hash_label_values(v, LabelValues(v, labels).v).v

\* A value of each label.
LevelValues(levels, i) == ToSet(get_values(levels[i].defs))
Combinations(levels) ==
    {c \in [DOMAIN levels -> UNION {LevelValues(levels, i) : i \in DOMAIN levels}] :
        \A i \in DOMAIN levels : c[i] \in LevelValues(levels, i)}
PairsOf(labels) == {[name |-> n, value |-> labels[n]] : n \in DOMAIN labels}

\* Every combination of label values has a child of the vector, that of its key,
\* and every child is of one of them, once a root is built; a root that cannot be
\* built makes no child.
EveryCombinationExists ==
    vec # << >> =>
        IF roots = << >> THEN DOMAIN vec.children = {}
        ELSE /\ DOMAIN vec.children = {KeyOf(vec, Meant(Levels, c)) : c \in Combinations(Levels)}
             /\ \A k \in DOMAIN vec.children : \E c \in Combinations(Levels) :
                  /\ KeyOf(vec, Meant(Levels, c)) = k
                  /\ ToSet(vec.children[k].label_pairs) = PairsOf(Meant(Levels, c))

Total(child) == IF vec.type = "HISTOGRAM" THEN child.count ELSE child.val

\* What a root holds for a child, what roots do, and what was added under labels
\* that belong to the child.
HeldIn(leaves, k) ==
    SumFunction([p \in DOMAIN leaves |-> IF leaves[p].key = k THEN leaves[p].held ELSE 0])
HeldFor(owned, k) == SumFunction([o \in DOMAIN owned |-> HeldIn(owned[o], k)])
MadeFor(v, counts, k) ==
    SumFunction([l \in DOMAIN counts |-> IF KeyOf(v, l) = k THEN counts[l] ELSE 0])

\* What is in a child and in the local leaves of all threads that belong to it
\* is what was added under its label values, however the leaves were reached.
\* (The key of a child does not separate the values, so a child may be that of two
\* combinations.)
Conserved ==
    roots # << >> =>
        \A k \in DOMAIN vec.children :
            Total(vec.children[k]) + HeldFor(roots, k) = MadeFor(vec, made, k)

\* Every delegator leads to the leaf of its own fields, in whatever order the
\* fields are in memory.
DelegatorsReachTheirLeaves ==
    roots # << >> /\ Metric.auto_flush =>
        \A t \in DOMAIN roots : \A path \in DOMAIN roots[t] :
            LeavesAt(Levels, DOMAIN roots[t], get_local(Delegator(Levels, path))) = {path}

\* A flush leaves nothing in any leaf of its thread, and changes no other's.
FlushReachesEveryLeaf ==
    [][\A t \in Threads :
        Flush(t) => /\ \A path \in DOMAIN roots'[t] : roots'[t][path].held = 0
                    /\ \A u \in DOMAIN roots \ {t} : roots'[u] = roots[u]]_vars
=============================================================================
