------------------------------- MODULE Scrape -------------------------------
(***************************************************************************)
(* A program that instruments itself, and that is scraped: the registry is   *)
(* gathered, or a collector is asked without a registry, or some are pushed   *)
(* in a registry of their own.  The families are made in both builds of the  *)
(* crate side by side.  What is made of them is in Exposition.               *)
(*                                                                          *)
(* Gathered families are a snapshot, so nothing is lost by letting no update *)
(* happen until they have been used.                                        *)
(***************************************************************************)
EXTENDS Instrumentation

CONSTANT
    MaxTogether     \* bound: the collectors pushed together

VARIABLES
    source,    \* where the families are from
    families,  \* what it gave in each build
    used       \* what has been done with the families

taken == <<source, families>>
scraping == <<collecting, taken, used>>

Idle == used = "nothing"

ScrapeInit ==
    /\ InstrumentationInit
    /\ families = << >> /\ source = "none"
    /\ used = "nothing"

\* The program goes on while no families are in use.
Instrument ==
    /\ Idle
    /\ InstrumentationNext
    /\ UNCHANGED <<taken, used>>

-----------------------------------------------------------------------------
Gathered(r, a) == [b \in Builds |-> gather(b, r, colls, a)]

Gather ==
    /\ Idle
    /\ \E a \in Arrangements(registry, colls) : families' = Gathered(registry, a)
    /\ source' = "gather" /\ used' = "taken"
    /\ UNCHANGED collecting

\* Without a registry: what a collector collects.
Collect ==
    /\ Idle
    /\ \E k \in DOMAIN colls, a \in Arrangements(registry, colls) :
        families' = [b \in Builds |-> collect(b, colls[k], a.keys[k])]
    /\ source' = "collect" /\ used' = "taken"
    /\ UNCHANGED collecting

\* push_from_collector: the collectors in a registry of their own, unless one
\* of them is refused; it is gathered, and pushed at once.
CollectTogether ==
    /\ Idle
    /\ \E n \in 1 .. MaxTogether : \E ks \in [1 .. n -> DOMAIN colls] :
        LET fresh == FreshRegistry(colls, ks)
        IN  /\ fresh.error = "none"
            /\ \E a \in Arrangements(fresh.registry, colls) :
                families' = Gathered(fresh.registry, a)
    /\ source' = "push" /\ used' = "pushed"
    /\ UNCHANGED collecting

\* The families are encoded or pushed.
UseAs(what) ==
    /\ used = "taken" /\ used' = what
    /\ UNCHANGED <<collecting, taken>>

Done ==
    /\ ~Idle
    /\ families' = << >> /\ source' = "none"
    /\ used' = "nothing"
    /\ UNCHANGED collecting

ScrapeNext ==
    \/ Instrument
    \/ Gather \/ Collect \/ CollectTogether
    \/ \E what \in {"text", "protobuf", "pushed"} : UseAs(what)
    \/ Done

ScrapeSpec == ScrapeInit /\ [][ScrapeNext]_scraping

-----------------------------------------------------------------------------
(***************************************************************************)
(* Properties of what was gathered.                                         *)
(***************************************************************************)
JustGathered == source = "gather" /\ used = "taken"

Own(r) == {k \in r.collectors : colls[k].type # "CUSTOM"}
FamilyNames(k) ==
    IF colls[k].type = "CUSTOM"
    THEN UNION {{Name(b, mf) : mf \in ToSet(colls[k].families[b])} : b \in Builds}
    ELSE {colls[k].descs[1].fq_name}
Exported(name) == IF registry.prefix = << >> THEN name
                  ELSE registry.prefix \o <<"_">> \o name

CommonPairs == {[name |-> n, value |-> registry.labels[n]] : n \in DOMAIN registry.labels}

\* The number that a metric shows in a family of a type.
Shown(b, type, m) ==
    CASE type = "COUNTER" -> Read(b, "Counter", Read(b, "Metric", m, "counter"), "value")
      [] type = "GAUGE" -> Read(b, "Gauge", Read(b, "Metric", m, "gauge"), "value")
      [] type = "HISTOGRAM" ->
            Read(b, "Histogram", Read(b, "Metric", m, "histogram"), "sample_count")
      [] OTHER -> 0

Held(k, child) == IF colls[k].type = "HISTOGRAM" THEN child.count ELSE child.val

\* Every child of every registered collector is in the family of its name, with
\* its labels and the common ones, and shows what it holds.  If collectors of
\* different types share a name, the family has the type of one of them, and
\* the metrics of the others show nothing: registry.rs does not compare types.
EveryChildIsGathered ==
    JustGathered =>
        \A b \in Builds, k \in Own(registry) : \A h \in DOMAIN colls[k].children :
            LET child == colls[k].children[h] IN
            \E i \in DOMAIN families[b] :
                LET mf == families[b][i]
                    type == Read(b, "MetricFamily", mf, "field_type") IN
                /\ Name(b, mf) = Exported(child.desc.fq_name)
                /\ \E j \in DOMAIN Metrics(b, mf) :
                    LET m == Metrics(b, mf)[j] IN
                    /\ ToSet(PlainPairs(b, m)) = ToSet(child.label_pairs) \cup CommonPairs
                    /\ Shown(b, type, m) = IF type = colls[k].type THEN Held(k, child) ELSE 0

\* Two collectors make a family of one name that is not that of either.
Mixed(r) ==
    \E j, k \in r.collectors :
        /\ j # k /\ FamilyNames(j) \cap FamilyNames(k) # {}
        /\ colls[j].type # colls[k].type \/ colls[j].type = "CUSTOM"

\* registry.rs: the order of the metrics is "reproducible", whatever the order
\* of the hash maps of collectors and of children; only the common labels come
\* in the order of their map.
GatherIsReproducible ==
    JustGathered /\ ~Mixed(registry) =>
        \A a \in Arrangements(registry, colls) :
        \E b \in Arrangements(registry, colls) :
            gather("protobuf", registry, colls, [a EXCEPT !.labels = b.labels])
                = families["protobuf"]

\* No label name occurs twice in a metric, unless a collector of its family is
\* code of its own, or has a name for both a constant and a variable label or for
\* both a label of its own and a common one.
LabelNamesUnique ==
    JustGathered =>
        \A b \in Builds : \A i \in DOMAIN families[b] :
        LET mf    == families[b][i]
            namesakes == {k \in registry.collectors :
                             \E n \in FamilyNames(k) : Exported(n) = Name(b, mf)}
        IN  \A j \in DOMAIN Metrics(b, mf) :
            LET pairs == PlainPairs(b, Metrics(b, mf)[j])
            IN  \/ IsInjective([l \in DOMAIN pairs |-> pairs[l].name])
                \/ \E k \in namesakes :
                     LET desc  == colls[k].descs[1]
                         fixed == {desc.const_label_pairs[l].name :
                                      l \in DOMAIN desc.const_label_pairs}
                         variable == ToSet(desc.variable_labels)
                     IN  \/ colls[k].type = "CUSTOM"
                         \/ fixed \cap variable # {}
                         \/ (fixed \cup variable) \cap DOMAIN registry.labels # {}
=============================================================================
