----------------------------- MODULE DataModel -----------------------------
(***************************************************************************)
(* The messages in which metrics are collected, in both builds of the crate: *)
(* the generated one of proto_model.rs (feature "protobuf") and the written  *)
(* one of plain_model.rs.  A generated singular field is absent or has a     *)
(* value, here a sequence of at most one; a plain field always has a value,  *)
(* and its Default stands for "not set".  Repeated fields are sequences.     *)
(*                                                                          *)
(* Numbers are integers (a double of the program is one, too), and a string  *)
(* is a sequence of characters.                                             *)
(***************************************************************************)
EXTENDS Integers, Sequences, FiniteSetsExt

\* The builds of the crate.
Builds == {"protobuf", "plain"}

\* A field: singular or repeated, of a scalar type or of messages.
One(type) == [many |-> FALSE, type |-> type]
Many(type) == [many |-> TRUE, type |-> type]

-----------------------------------------------------------------------------
\* proto_model.rs: the fields of each message, with their accessors.
LabelPairFields == [name |-> One("string"), value |-> One("string")]
GaugeFields     == [value |-> One("double")]
CounterFields   == [value |-> One("double")]
QuantileFields  == [quantile |-> One("double"), value |-> One("double")]
SummaryFields   == [sample_count |-> One("uint64"), sample_sum |-> One("double"),
                    quantile |-> Many("Quantile")]
UntypedFields   == [value |-> One("double")]
HistogramFields == [sample_count |-> One("uint64"), sample_sum |-> One("double"),
                    bucket |-> Many("Bucket")]
BucketFields    == [cumulative_count |-> One("uint64"), upper_bound |-> One("double")]
MetricFields    == [label |-> Many("LabelPair"), gauge |-> One("Gauge"),
                    counter |-> One("Counter"), summary |-> One("Summary"),
                    untyped |-> One("Untyped"), histogram |-> One("Histogram"),
                    timestamp_ms |-> One("int64")]
MetricFamilyFields == [name |-> One("string"), help |-> One("string"),
                       field_type |-> One("enum"), metric |-> Many("Metric")]

Fields ==
    [LabelPair |-> LabelPairFields, Gauge |-> GaugeFields, Counter |-> CounterFields,
     Quantile |-> QuantileFields, Summary |-> SummaryFields,
     Untyped |-> UntypedFields, Histogram |-> HistogramFields,
     Bucket |-> BucketFields, Metric |-> MetricFields,
     MetricFamily |-> MetricFamilyFields]

MetricType ==
    [COUNTER |-> 0, GAUGE |-> 1, SUMMARY |-> 2, UNTYPED |-> 3, HISTOGRAM |-> 4]

-----------------------------------------------------------------------------
\* plain_model.rs: each message with the values of its Default.
PlainLabelPair == [name |-> << >>, value |-> << >>]
PlainGauge     == [value |-> 0]
PlainCounter   == [value |-> 0]
PlainQuantile  == [quantile |-> 0, value |-> 0]
PlainSummary   == [sample_count |-> 0, sample_sum |-> 0, quantile |-> << >>]
PlainUntyped   == [value |-> 0]
PlainHistogram == [sample_count |-> 0, sample_sum |-> 0, bucket |-> << >>]
PlainBucket    == [cumulative_count |-> 0, upper_bound |-> 0]

\* Mutant: a metric without a timestamp has the timestamp 1.
PlainMetricStamped ==
    [label |-> << >>, gauge |-> PlainGauge, counter |-> PlainCounter,
     summary |-> PlainSummary, untyped |-> PlainUntyped,
     histogram |-> PlainHistogram, timestamp_ms |-> 1]

PlainMetric ==
    [label |-> << >>, gauge |-> PlainGauge, counter |-> PlainCounter,
     summary |-> PlainSummary, untyped |-> PlainUntyped,
     histogram |-> PlainHistogram, timestamp_ms |-> 0]
PlainMetricFamily ==
    [name |-> << >>, help |-> << >>, field_type |-> "COUNTER", metric |-> << >>]

Plain ==
    [LabelPair |-> PlainLabelPair, Gauge |-> PlainGauge, Counter |-> PlainCounter,
     Quantile |-> PlainQuantile, Summary |-> PlainSummary,
     Untyped |-> PlainUntyped, Histogram |-> PlainHistogram,
     Bucket |-> PlainBucket, Metric |-> PlainMetric,
     MetricFamily |-> PlainMetricFamily]

-----------------------------------------------------------------------------
\* Default of a generated message: nothing is set.
Unset(t) ==
    LET none == << >> IN
    CASE t = "LabelPair" -> [name |-> none, value |-> none, unknown_fields |-> none]
      [] t \in {"Gauge", "Counter", "Untyped"} -> [value |-> none, unknown_fields |-> none]
      [] t = "Quantile" -> [quantile |-> none, value |-> none, unknown_fields |-> none]
      [] t = "Summary" -> [sample_count |-> none, sample_sum |-> none, quantile |-> none,
                           unknown_fields |-> none]
      [] t = "Histogram" -> [sample_count |-> none, sample_sum |-> none, bucket |-> none,
                             unknown_fields |-> none]
      [] t = "Bucket" -> [cumulative_count |-> none, upper_bound |-> none,
                          unknown_fields |-> none]
      [] t = "Metric" -> [label |-> none, gauge |-> none, counter |-> none,
                          summary |-> none, untyped |-> none, histogram |-> none,
                          timestamp_ms |-> none, unknown_fields |-> none]
      [] t = "MetricFamily" -> [name |-> none, help |-> none, field_type |-> none,
                                metric |-> none, unknown_fields |-> none]

\* new() and default() of a message.
Fresh(build, t) == IF build = "plain" THEN Plain[t] ELSE Unset(t)

\* What an absent field of a generated message is read as: get_*, unwrap_or,
\* default_instance().
Absent(type) ==
    CASE type = "string" -> << >>
      [] type \in {"double", "uint64", "int64"} -> 0
      [] type = "enum" -> "COUNTER"
      [] OTHER -> Fresh("protobuf", type)

\* How a field that is set holds its value.
Stored(build, t, f, v) == IF build = "plain" \/ Fields[t][f].many THEN v ELSE <<v>>

\* set_*, get_*, clear_* and take_* of a field.
Put(build, t, m, f, v) == [m EXCEPT ![f] = Stored(build, t, f, v)]

Read(build, t, m, f) ==
    IF build = "plain" \/ Fields[t][f].many THEN m[f]
    ELSE IF m[f] = << >> THEN Absent(Fields[t][f].type) ELSE m[f][1]

Erase(build, t, m, f) == [m EXCEPT ![f] = Fresh(build, t)[f]]

\* A message in which the fields of values are set.
Message(build, t, values) ==
    [f \in DOMAIN Fresh(build, t) |->
        IF f \in DOMAIN values THEN Stored(build, t, f, values[f]) ELSE Fresh(build, t)[f]]
=============================================================================
