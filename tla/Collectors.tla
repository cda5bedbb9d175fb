----------------------------- MODULE Collectors -----------------------------
(***************************************************************************)
(* How counters, gauges, histograms and their vectors are made from options *)
(* and what they collect: value.rs, the constructors of counter.rs, gauge.rs *)
(* and histogram.rs, and vec.rs.  What threads do to the cells of a metric   *)
(* and to the map of a vector is in AtomicF64, HistogramCore and MetricVec;  *)
(* here an operation is one step.                                           *)
(***************************************************************************)
EXTENDS Descriptor, DataModel

CONSTANTS
    INF,            \* positive infinity, a bound on the numbers
    NaN,            \* compares to nothing
    DEFAULT_BUCKETS

ASSUME CollectorsAssumption == INF \in Nat /\ NaN \in Int /\ NaN < 0

\* HashMap::insert.
With(f, k, v) == [x \in DOMAIN f \cup {k} |-> IF x = k THEN v ELSE f[x]]

\* The ? operator.
Then(r, F(_)) == IF r.ok THEN F(r.v) ELSE r

-----------------------------------------------------------------------------
\* The buckets of a histogram.
BUCKET_LABEL == Chars("le")

check_bucket_label(names) == \A i \in DOMAIN names : names[i] # BUCKET_LABEL

AtLeast(a, b) == NaN \notin {a, b} /\ a >= b

\* Mutant: a last bound of +Inf stays.
check_and_adjust_buckets_with_inf(given) ==
    LET buckets == IF given = << >> THEN DEFAULT_BUCKETS ELSE given
    IN  IF \E i \in 1 .. (Len(buckets) - 1) : AtLeast(buckets[i], buckets[i + 1])
        THEN Err("buckets")
        ELSE Ok(buckets)

check_and_adjust_buckets(given) ==
    LET buckets == IF given = << >> THEN DEFAULT_BUCKETS ELSE given
    IN  IF \E i \in 1 .. (Len(buckets) - 1) : AtLeast(buckets[i], buckets[i + 1])
        THEN Err("buckets")
        ELSE Ok(IF Last(buckets) = INF THEN Front(buckets) ELSE buckets)

linear_buckets(start, width, count) ==
    IF count < 1 \/ width <= 0 THEN Err("linear_buckets")
    ELSE Ok([step \in 1 .. count |-> start + width * (step - 1)])

\* The products stay below INF in the models; a double would reach it.
exponential_buckets(start, factor, count) ==
    IF count < 1 \/ start <= 0 \/ factor <= 1 THEN Err("exponential_buckets")
    ELSE Ok([step \in 1 .. count |-> start * factor ^ (step - 1)])

-----------------------------------------------------------------------------
\* Value::new.
NewValue(o, values) ==
    Then(describe(o), LAMBDA desc :
    Then(make_label_pairs(desc, values), LAMBDA pairs :
        Ok([desc |-> desc, label_pairs |-> pairs, val |-> 0])))

\* HistogramCore::new.
NewHistogram(o, buckets, values) ==
    Then(describe(o), LAMBDA desc :
    IF ~check_bucket_label(desc.variable_labels)
         \/ ~check_bucket_label([i \in DOMAIN desc.const_label_pairs |->
                                    desc.const_label_pairs[i].name])
    THEN Err("le") ELSE
    Then(make_label_pairs(desc, values), LAMBDA pairs :
    Then(check_and_adjust_buckets(buckets), LAMBDA bounds :
        Ok([desc |-> desc, label_pairs |-> pairs, upper_bounds |-> bounds,
            counts |-> [i \in DOMAIN bounds |-> 0], count |-> 0, sum |-> 0]))))

\* MetricVecBuilder::build, and the constructor of a single metric.
Built(type, o, buckets, values) ==
    IF type = "HISTOGRAM" THEN NewHistogram(o, buckets, values)
    ELSE NewValue(o, values)

\* with_opts: a collector of one metric.
Single(type, o, buckets) ==
    Then(Built(type, o, buckets, << >>), LAMBDA m :
        Ok([type |-> type, vec |-> FALSE, opts |-> o, buckets |-> buckets,
            descs |-> <<m.desc>>, children |-> With(<< >>, << >>, m)]))

\* CounterVec::new, GaugeVec::new, HistogramVec::new: MetricVec::create with the
\* label names for variable labels.
NewVec(type, o, buckets, names) ==
    LET opts_ == [o EXCEPT !.variable_labels = names]
    IN  Then(describe(opts_), LAMBDA desc :
            Ok([type |-> type, vec |-> TRUE, opts |-> opts_, buckets |-> buckets,
                descs |-> <<desc>>, children |-> << >>]))

-----------------------------------------------------------------------------
\* hash_label_values: the bytes of the values, without a separator.
hash_label_values(c, values) ==
    IF Len(values) # Len(c.descs[1].variable_labels) THEN Err("cardinality")
    ELSE Ok(FlattenSeq(values))

\* get_label_values of a map, after hash_labels has found the same errors.
LabelValues(c, labels) ==
    LET names == c.descs[1].variable_labels
    IN  IF Cardinality(DOMAIN labels) # Len(names) THEN Err("cardinality")
        ELSE IF ~(ToSet(names) \subseteq DOMAIN labels) THEN Err("missing")
        ELSE Ok([i \in DOMAIN names |-> labels[names[i]]])

\* get_metric_with_label_values: the vector with the child, and the child's key.
GetMetric(c, values) ==
    Then(hash_label_values(c, values), LAMBDA h :
    IF h \in DOMAIN c.children THEN Ok([vec |-> c, key |-> h])
    ELSE Then(Built(c.type, c.opts, c.buckets, values), LAMBDA m :
            Ok([vec |-> [c EXCEPT !.children = With(@, h, m)],
                key |-> h])))

\* get_metric_with.
GetMetricWith(c, labels) ==
    Then(LabelValues(c, labels), LAMBDA values : GetMetric(c, values))

\* delete_label_values.
DeleteMetric(c, values) ==
    Then(hash_label_values(c, values), LAMBDA h :
    IF h \notin DOMAIN c.children THEN Err("missing")
    ELSE Ok([c EXCEPT !.children = [k \in DOMAIN @ \ {h} |-> @[k]]]))

\* inc_by of a counter or a gauge, and observe of a histogram: the first bucket
\* whose bound is not below the value.
Updated(type, m, v) ==
    IF type # "HISTOGRAM" THEN [m EXCEPT !.val = @ + v]
    ELSE LET fits(i) == AtLeast(m.upper_bounds[i], v)
         IN  [m EXCEPT !.count = @ + 1, !.sum = @ + v,
                       !.counts = [i \in DOMAIN @ |->
                           IF fits(i) /\ \A j \in 1 .. (i - 1) : ~fits(j)
                           THEN @[i] + 1 ELSE @[i]]]

-----------------------------------------------------------------------------
LabelPairs(build, pairs) ==
    [i \in DOMAIN pairs |-> Message(build, "LabelPair", pairs[i])]

\* HistogramCore::proto, when no thread is observing.
proto(build, m) ==
    LET cumulative(i) == FoldLeft(LAMBDA n, k : n + k, 0, SubSeq(m.counts, 1, i))
        bucket(i) == Message(build, "Bucket", [cumulative_count |-> cumulative(i),
                                               upper_bound |-> m.upper_bounds[i]])
    IN  Message(build, "Histogram",
                [sample_count |-> m.count, sample_sum |-> m.sum,
                 bucket |-> [i \in DOMAIN m.counts |-> bucket(i)]])

\* Value::metric and Histogram::metric: only the field of the type is set.
metric(build, type, m) ==
    LET labelled == Put(build, "Metric", Fresh(build, "Metric"), "label",
                        LabelPairs(build, m.label_pairs))
        field(f, v) == Put(build, "Metric", labelled, f, v)
    IN  CASE type = "COUNTER" -> field("counter", Message(build, "Counter", [value |-> m.val]))
          [] type = "GAUGE" -> field("gauge", Message(build, "Gauge", [value |-> m.val]))
          [] type = "HISTOGRAM" -> field("histogram", proto(build, m))

\* Collector::collect.  The children of a vector come in the order of its hash
\* map, one of the arrangements that keys stands for; other collectors are code
\* of their own and say what they collect.
collect(build, c, keys) ==
    IF c.type = "CUSTOM" THEN c.families[build]
    ELSE << Message(build, "MetricFamily",
                [name |-> c.descs[1].fq_name, help |-> c.descs[1].help,
                 field_type |-> c.type,
                 metric |-> [i \in DOMAIN keys |->
                                metric(build, c.type, c.children[keys[i]])]]) >>
=============================================================================
