-------------------------- MODULE Instrumentation --------------------------
(***************************************************************************)
(* What a program does to be observed: collectors are made and registered by *)
(* the macros of macros.rs, or by calls of register and unregister, and      *)
(* their metrics are created, updated and removed.                          *)
(***************************************************************************)
EXTENDS Gather

CONSTANTS
    Offers,         \* what can be made, by name: a macro and its arguments, and
                    \* the label values and numbers that it is called with
    Setups,         \* registries, each with the names of what is offered there
    MaxCalls        \* bound: the calls to collectors

\* Strings are text, and a collector of other code is not one of the library's.
ASSUME OffersAssumption ==
    \A k \in DOMAIN Offers :
        LET o == Offers[k]
        IN  /\ o.called_with \subseteq Seq(Text)
            /\ IF o.macro = "register" THEN OtherCode(o.collector)
               ELSE /\ o.macro \in {"register_counter", "register_gauge", "register_histogram",
                                    "register_counter_vec", "register_gauge_vec",
                                    "register_histogram_vec"}
                    /\ {o.namespace, o.subsystem, o.name, o.help} \subseteq Text
                    /\ o.const_labels \in Seq(Seq(Text \X Text))
                    /\ o.label_names \in Seq(Text)

ASSUME SetupsAssumption ==
    \A s \in Setups :
        IF s.default THEN OtherCode(s.process) ELSE IsFiniteSet(DOMAIN s.labels)

VARIABLES
    registry,  \* the RegistryCore
    colls,     \* the collectors of which there is a handle, by name
    offered,   \* the offers not taken up yet
    refused,   \* the offers that register has refused
    calls      \* the calls to collectors

collecting == <<registry, colls, offered, refused, calls>>

-----------------------------------------------------------------------------
(***************************************************************************)
(* The macros.  A bad argument is a panic of unwrap() before the registry is *)
(* touched.                                                                 *)
(***************************************************************************)
opts_(o) == [opts(o.name, o.help, o.const_labels)
               EXCEPT !.namespace = o.namespace, !.subsystem = o.subsystem]

register_counter(o) == Single("COUNTER", opts_(o), << >>)
register_gauge(o) == Single("GAUGE", opts_(o), << >>)
histogram_opts(o) == IF o.buckets.ok THEN Ok(o.buckets.v) ELSE o.buckets
register_histogram(o) ==
    Then(histogram_opts(o), LAMBDA buckets : Single("HISTOGRAM", opts_(o), buckets))
register_counter_vec(o) == NewVec("COUNTER", opts_(o), << >>, o.label_names)
register_gauge_vec(o) == NewVec("GAUGE", opts_(o), << >>, o.label_names)
register_histogram_vec(o) ==
    Then(histogram_opts(o), LAMBDA buckets :
         NewVec("HISTOGRAM", opts_(o), buckets, o.label_names))

\* register(Box::new(..)) of a collector that is code of its own.
Made(o) ==
    CASE o.macro = "register_counter" -> register_counter(o)
      [] o.macro = "register_gauge" -> register_gauge(o)
      [] o.macro = "register_histogram" -> register_histogram(o)
      [] o.macro = "register_counter_vec" -> register_counter_vec(o)
      [] o.macro = "register_gauge_vec" -> register_gauge_vec(o)
      [] o.macro = "register_histogram_vec" -> register_histogram_vec(o)
      [] o.macro = "register" -> Ok(o.collector)

\* DEFAULT_REGISTRY: the process collector is registered first.
DefaultRegistry(process) ==
    register(EmptyRegistry, [process |-> process], "process").registry

InstrumentationInit ==
    /\ \E s \in Setups :
        /\ offered = s.offered
        /\ IF s.default
           THEN /\ colls = [process |-> s.process]
                /\ registry = DefaultRegistry(s.process)
           ELSE LET custom == new_custom(s.given, s.prefix, s.labels)
                IN  custom.ok /\ registry = custom.v /\ colls = << >>
    /\ refused = {} /\ calls = 0

\* A macro returns the handle, or drops it with the error of register.
Register(k) ==
    /\ k \in offered
    /\ offered' = offered \ {k}
    /\ LET made == Made(Offers[k])
           all  == With(colls, k, made.v)
           done == register(registry, all, k)
       IN  IF ~made.ok THEN UNCHANGED <<registry, colls, refused>>
           ELSE /\ registry' = done.registry
                /\ colls' = IF done.error = "none" THEN all ELSE colls
                /\ refused' = IF done.error = "none" THEN refused ELSE refused \cup {k}
    /\ UNCHANGED calls

Call(k) ==
    /\ k \in DOMAIN colls
    /\ calls < MaxCalls
    /\ calls' = calls + 1
    /\ UNCHANGED <<offered, refused>>

Unregister(k) ==
    /\ Call(k)
    /\ LET done == unregister(registry, colls, k)
       IN  done.ok /\ registry' = done.v
    /\ UNCHANGED colls

\* A handle is registered once more.
Reregister(k) ==
    /\ Call(k)
    /\ registry' = register(registry, colls, k).registry
    /\ registry' # registry
    /\ UNCHANGED colls

\* with_label_values(..) and with(..) of a vector, and an update of the child.
\* A panic for bad labels, or for a child that cannot be built, changes nothing.
UpdateChild(k, values, v) ==
    /\ Call(k)
    /\ colls[k].vec
    /\ LET names == colls[k].descs[1].variable_labels
           given == DOMAIN names \cap DOMAIN values
           byName == Labels([i \in given |-> <<names[i], values[i]>>])
       IN  \E child \in {GetMetric(colls[k], values), GetMetricWith(colls[k], byName)} :
           /\ child.ok
           /\ colls' = [colls EXCEPT ![k] =
                  [child.v.vec EXCEPT !.children[child.v.key] =
                      Updated(colls[k].type, @, v)]]
    /\ UNCHANGED registry

\* inc_by, observe of a single metric.
Update(k, v) ==
    /\ Call(k)
    /\ ~colls[k].vec /\ colls[k].type # "CUSTOM"
    /\ colls' = [colls EXCEPT ![k].children[<< >>] = Updated(colls[k].type, @, v)]
    /\ UNCHANGED registry

RemoveChild(k, values) ==
    /\ Call(k)
    /\ colls[k].vec
    /\ LET without == DeleteMetric(colls[k], values)
       IN  without.ok /\ colls' = [colls EXCEPT ![k] = without.v]
    /\ UNCHANGED registry

InstrumentationNext ==
    \E k \in DOMAIN Offers :
        \/ Register(k) \/ Unregister(k) \/ Reregister(k)
        \/ \E v \in Offers[k].amounts :
            \/ Update(k, v)
            \/ \E values \in Offers[k].called_with : UpdateChild(k, values, v)
        \/ \E values \in Offers[k].called_with : RemoveChild(k, values)

InstrumentationSpec == InstrumentationInit /\ [][InstrumentationNext]_collecting

-----------------------------------------------------------------------------
\* desc.rs: two descriptors have the same id exactly if their names and the
\* values of their constant labels are the same, and the same dimensions
\* exactly if their help and their sets of constant and of variable label
\* names are.
IdentityIsExact ==
    \A j, k \in {k \in DOMAIN colls : colls[k].type # "CUSTOM"} :
        LET d == colls[j].descs[1]
            e == colls[k].descs[1]
            values(x) == [i \in DOMAIN x.const_label_pairs |-> x.const_label_pairs[i].value]
            names(x) == {x.const_label_pairs[i].name : i \in DOMAIN x.const_label_pairs}
        IN  /\ d.id = e.id <=> d.fq_name = e.fq_name /\ values(d) = values(e)
            /\ d.dim_hash = e.dim_hash <=>
                   /\ d.help = e.help /\ names(d) = names(e)
                   /\ ToSet(d.variable_labels) = ToSet(e.variable_labels)
=============================================================================
