------------------------------- MODULE Gather -------------------------------
(***************************************************************************)
(* RegistryCore of registry.rs as functions of its state: what register,     *)
(* unregister and gather make of it.  Registry has the steps they are made   *)
(* of and their locks; here are the families that come out of gather.        *)
(*                                                                          *)
(* A registry holds handles of collectors.  A collector is identified by the *)
(* set of its descriptor ids, which the code adds up.                        *)
(***************************************************************************)
EXTENDS Collectors

\* RegistryCore::default().
EmptyRegistry ==
    [collectors |-> {}, dim_hashes_by_name |-> << >>, desc_ids |-> {},
     labels |-> << >>, prefix |-> << >>]

\* new_custom; no prefix and no labels are << >>, a prefix that is given but
\* empty is refused.
new_custom(given, prefix, labels) ==
    IF given /\ prefix = << >> THEN Err("empty prefix namespace")
    ELSE Ok([EmptyRegistry EXCEPT !.prefix = prefix, !.labels = labels])

Ids(c) == {c.descs[i].id : i \in DOMAIN c.descs}

\* One turn of register's loop: the registry, the ids seen and the first error.
CheckDesc(acc, desc) ==
    LET hashes == acc.registry.dim_hashes_by_name
        named  == [acc EXCEPT !.registry.dim_hashes_by_name =
                       With(hashes, desc.fq_name, desc.dim_hash)]
    IN  IF acc.error # "none" THEN acc
        ELSE IF desc.id \in acc.registry.desc_ids THEN [acc EXCEPT !.error = "AlreadyReg"]
        ELSE IF desc.fq_name \in DOMAIN hashes /\ hashes[desc.fq_name] # desc.dim_hash
        THEN [acc EXCEPT !.error = "mismatch"]
        ELSE IF desc.id \in acc.seen THEN [named EXCEPT !.error = "duplicate"]
        ELSE [named EXCEPT !.seen = @ \cup {desc.id}]

\* register: the registry afterwards, which an error has changed, too.
register(registry, colls, k) ==
    LET descs == colls[k].descs
        checked[n \in 0 .. Len(descs)] ==
            IF n = 0 THEN [registry |-> registry, seen |-> {}, error |-> "none"]
            ELSE CheckDesc(checked[n - 1], descs[n])
        acc == checked[Len(descs)]
    IN  IF acc.error # "none" THEN [registry |-> acc.registry, error |-> acc.error]
        ELSE IF \E j \in registry.collectors : Ids(colls[j]) = acc.seen
        THEN [registry |-> acc.registry, error |-> "AlreadyReg"]
        ELSE [registry |-> [acc.registry EXCEPT !.collectors = @ \cup {k},
                                                !.desc_ids = @ \cup acc.seen],
              error |-> "none"]

unregister(registry, colls, k) ==
    LET same == {j \in registry.collectors : Ids(colls[j]) = Ids(colls[k])}
    IN  IF same = {} THEN Err("not registered")
        ELSE Ok([registry EXCEPT !.collectors = @ \ same,
                                 !.desc_ids = @ \ Ids(colls[k])])

\* push_from_collector: the collectors in a registry of their own, unless one
\* of them is refused.
FreshRegistry(colls, ks) ==
    FoldLeft(LAMBDA acc, k :
                IF acc.error # "none" THEN acc ELSE register(acc.registry, colls, k),
             [registry |-> EmptyRegistry, error |-> "none"], ks)

-----------------------------------------------------------------------------
Name(build, mf) == Read(build, "MetricFamily", mf, "name")
Metrics(build, mf) == Read(build, "MetricFamily", mf, "metric")
LabelsOf(build, m) == Read(build, "Metric", m, "label")
PairName(build, p) == Read(build, "LabelPair", p, "name")
PairValue(build, p) == Read(build, "LabelPair", p, "value")

\* A collector that is code of its own: it has a list of descriptors, and it
\* collects a list of families, each with its list of metrics.
OtherCode(c) ==
    LET listed(s) == s \in Seq(ToSet(s)) IN
    /\ c.type = "CUSTOM" /\ c.vec = FALSE
    /\ listed(c.descs)
    /\ \A b \in Builds :
        /\ listed(c.families[b])
        /\ \A mf \in ToSet(c.families[b]) :
            DOMAIN mf = DOMAIN Fresh(b, "MetricFamily") /\ listed(Metrics(b, mf))

\* The labels of a metric, as a reader gets them.
PlainPairs(build, m) ==
    [i \in DOMAIN LabelsOf(build, m) |->
        [name |-> PairName(build, LabelsOf(build, m)[i]),
         value |-> PairValue(build, LabelsOf(build, m)[i])]]

\* Mutant: a family of a name that is there already replaces it.
MergeFamilyReplaces(build, acc, mf) ==
    IF Metrics(build, mf) = << >> THEN acc ELSE With(acc, Name(build, mf), mf)

\* A collected family is pruned, inserted, or its metrics are moved to the end
\* of the family of its name, whose type and help stay.
MergeFamily(build, acc, mf) ==
    LET name == Name(build, mf) IN
    IF Metrics(build, mf) = << >> THEN acc
    ELSE IF name \notin DOMAIN acc THEN With(acc, name, mf)
    ELSE With(acc, name, Put(build, "MetricFamily", acc[name], "metric",
                             Metrics(build, acc[name]) \o Metrics(build, mf)))

\* Mutant: metrics stay in the order in which they were collected.
MetricLessNever(build, m, n) == FALSE

\* The order of the metrics of a family: the number of labels, the first values
\* that differ, the timestamps.
MetricLess(build, m, n) ==
    LET lm == LabelsOf(build, m)
        ln == LabelsOf(build, n)
        time(x) == Read(build, "Metric", x, "timestamp_ms")
        differ == {i \in DOMAIN lm : PairValue(build, lm[i]) # PairValue(build, ln[i])}
    IN  IF Len(lm) # Len(ln) THEN Len(lm) < Len(ln)
        ELSE IF differ # {}
        THEN LET i == Min(differ) IN Less(PairValue(build, lm[i]), PairValue(build, ln[i]))
        ELSE time(m) < time(n)

\* The registry's common labels after a metric's own, in the order of the map.
WithCommonLabels(build, registry, names, m) ==
    LET common == [i \in DOMAIN names |-> [name |-> names[i],
                                           value |-> registry.labels[names[i]]]]
        own    == LabelsOf(build, m)
        taken  == Erase(build, "Metric", m, "label")
    IN  Put(build, "Metric", taken, "label", own \o LabelPairs(build, common))

\* Prefix and common labels of a family on its way out.
Finished(build, registry, names, mf) ==
    LET sorted == StableSort(Metrics(build, mf), LAMBDA m, n : MetricLess(build, m, n))
        named  == IF registry.prefix = << >> THEN mf
                  ELSE Put(build, "MetricFamily", mf, "name",
                           registry.prefix \o <<"_">> \o Name(build, mf))
    IN  Put(build, "MetricFamily", named, "metric",
            [i \in DOMAIN sorted |-> WithCommonLabels(build, registry, names, sorted[i])])

\* Every way in which hash maps can list their entries: the collectors of the
\* registry, the children of each, and the common labels.
Arrangements(registry, colls) ==
    LET Orders(S) == {SetToSeq(S), Reverse(SetToSeq(S))}
    IN  [collectors : SetToSeqs(registry.collectors),
         keys : {[k \in DOMAIN colls |-> SetToSeq(DOMAIN colls[k].children)],
                 [k \in DOMAIN colls |-> Reverse(SetToSeq(DOMAIN colls[k].children))]},
         labels : Orders(DOMAIN registry.labels)]

\* What the collectors collect, in the order in which they are asked.
Collected(build, colls, arranged) ==
    FlattenSeq([i \in DOMAIN arranged.collectors |->
        LET k == arranged.collectors[i]
        IN  collect(build, colls[k], arranged.keys[k])])

\* The families by name, after all that were collected.
FamiliesByName(build, collected) ==
    LET by_name[n \in 0 .. Len(collected)] ==
            IF n = 0 THEN << >> ELSE MergeFamily(build, by_name[n - 1], collected[n])
    IN  by_name[Len(collected)]

\* gather.
gather(build, registry, colls, arranged) ==
    LET by_name == FamiliesByName(build, Collected(build, colls, arranged))
        names   == SortedNames(DOMAIN by_name)
    IN  [i \in DOMAIN names |->
            Finished(build, registry, arranged.labels, by_name[names[i]])]
=============================================================================
