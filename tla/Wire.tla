-------------------------------- MODULE Wire --------------------------------
(***************************************************************************)
(* The binary form of the generated messages (proto_model.rs) and the       *)
(* ProtobufEncoder of encoder/pb.rs.  Bytes are abstracted to atoms: a tag, a *)
(* length, or a whole scalar or string is one.  A length is what compute_size *)
(* has cached, so a reader finds the end of a nested message only if          *)
(* compute_size and write_to_with_cached_sizes agree.                        *)
(***************************************************************************)
EXTENDS DataModel, SequencesExt

\* The fields of a message in the order in which they are written, each with
\* its number.
LabelPairWire == << <<1, "name">>, <<2, "value">> >>
GaugeWire     == << <<1, "value">> >>
CounterWire   == << <<1, "value">> >>
QuantileWire  == << <<1, "quantile">>, <<2, "value">> >>
SummaryWire   == << <<1, "sample_count">>, <<2, "sample_sum">>, <<3, "quantile">> >>
UntypedWire   == << <<1, "value">> >>
HistogramWire == << <<1, "sample_count">>, <<2, "sample_sum">>, <<3, "bucket">> >>
BucketWire    == << <<1, "cumulative_count">>, <<2, "upper_bound">> >>
MetricWire    == << <<1, "label">>, <<2, "gauge">>, <<3, "counter">>,
                    <<4, "summary">>, <<5, "untyped">>, <<7, "histogram">>,
                    <<6, "timestamp_ms">> >>
MetricFamilyWire == << <<1, "name">>, <<2, "help">>, <<3, "field_type">>,
                       <<4, "metric">> >>

WireOf ==
    [LabelPair |-> LabelPairWire, Gauge |-> GaugeWire, Counter |-> CounterWire,
     Quantile |-> QuantileWire, Summary |-> SummaryWire, Untyped |-> UntypedWire,
     Histogram |-> HistogramWire, Bucket |-> BucketWire, Metric |-> MetricWire,
     MetricFamily |-> MetricFamilyWire]

\* The wire types of the protobuf library.
WireType(type) ==
    CASE type = "double" -> "fixed64"
      [] type \in {"uint64", "int64", "enum"} -> "varint"
      [] OTHER -> "delimited"

IsMessage(type) == type \in DOMAIN Fields

Tag(number, wt) == [atom |-> "tag", number |-> number, wire_type |-> wt]
Length(n) == [atom |-> "length", n |-> n]
Scalar(v) == [atom |-> "scalar", v |-> v]

-----------------------------------------------------------------------------
\* The fields that the compute_size of each message counts.
Counted ==
    [LabelPair |-> {"name", "value"}, Gauge |-> {"value"}, Counter |-> {"value"},
     Quantile |-> {"quantile", "value"},
     Summary |-> {"sample_count", "sample_sum", "quantile"}, Untyped |-> {"value"},
     Histogram |-> {"sample_count", "sample_sum", "bucket"},
     Bucket |-> {"cumulative_count", "upper_bound"},
     Metric |-> {"label", "gauge", "counter", "summary", "untyped", "histogram",
                 "timestamp_ms"},
     MetricFamily |-> {"name", "help", "field_type", "metric"}]

\* Mutant: a timestamp is written and not counted.
CountsOfUnstamped(t) == Counted[t] \ {"timestamp_ms"}

Counts(t) == Counted[t]

\* compute_size: a tag and a scalar, or a tag, a length and the bytes.
RECURSIVE Size(_, _)
Size(t, m) ==
    LET ValueSize(type, v) ==
            IF IsMessage(type) THEN 1 + 1 + Size(type, v)
            ELSE IF WireType(type) = "delimited" THEN 3 ELSE 2
        FieldSize(f) ==
            FoldLeft(LAMBDA n, v : n + ValueSize(Fields[t][f].type, v), 0, m[f])
    IN  MapThenSumSet(FieldSize, Counts(t))
          + Len(m.unknown_fields)

Concat(seqs) == FoldLeft(LAMBDA s, t : s \o t, << >>, seqs)

\* write_to_with_cached_sizes: the fields that are set, then the unknown ones.
RECURSIVE Write(_, _)
Write(t, m) ==
    LET WriteValue(number, type, v) ==
            <<Tag(number, WireType(type))>>
              \o (IF IsMessage(type) THEN <<Length(Size(type, v))>> \o Write(type, v)
                  ELSE IF WireType(type) = "delimited" THEN <<Length(1), Scalar(v)>>
                  ELSE IF type = "enum" THEN <<Scalar(MetricType[v])>>
                  ELSE <<Scalar(v)>>)
        WriteField(e) ==
            Concat([i \in DOMAIN m[e[2]] |->
                            WriteValue(e[1], Fields[t][e[2]].type, m[e[2]][i])])
    IN  Concat([i \in DOMAIN WireOf[t] |-> WriteField(WireOf[t][i])])
          \o m.unknown_fields

-----------------------------------------------------------------------------
\* What merge_from makes of the bytes when it refuses them.
Malformed == [error |-> "malformed"]
IsMalformed(m) == "error" \in DOMAIN m

\* The value after a tag takes one atom, or two with a length, or a length and
\* as many as the length says.
Taken(in) == IF in[2].atom # "length" THEN 2
             ELSE 2 + in[2].n

\* merge_from: one tag and its value at a time, until the end.  Of a singular
\* field the last value stays; a repeated one takes them all.
RECURSIVE Merge(_, _, _)
Merge(t, m, in) ==
    IF in = << >> THEN m
    ELSE IF Len(in) < 2 \/ in[1].atom # "tag" THEN Malformed
    ELSE IF Len(in) < Taken(in) THEN Malformed
    ELSE
        LET known == {e \in ToSet(WireOf[t]) : e[1] = in[1].number}
            rest  == SubSeq(in, Taken(in) + 1, Len(in))
            Add(f, v) == Merge(t, [m EXCEPT ![f] = IF Fields[t][f].many
                                                   THEN Append(@, v) ELSE <<v>>], rest)
        IN  IF known = {}
            THEN Merge(t, [m EXCEPT !.unknown_fields =
                                      @ \o SubSeq(in, 1, Taken(in))], rest)
            ELSE LET f    == (CHOOSE e \in known : TRUE)[2]
                     type == Fields[t][f].type
                     name == {n \in DOMAIN MetricType :
                                type = "enum" /\ Scalar(MetricType[n]) = in[2]}
                 IN  IF in[1].wire_type # WireType(type) THEN Malformed
                     ELSE IF IsMessage(type)
                     THEN LET v == Merge(type, Fresh("protobuf", type),
                                         SubSeq(in, 3, Taken(in)))
                          IN  IF IsMalformed(v) THEN Malformed ELSE Add(f, v)
                     ELSE IF type = "enum"
                     THEN IF name = {}
                          THEN Merge(t, [m EXCEPT !.unknown_fields =
                                                    @ \o SubSeq(in, 1, 2)], rest)
                          ELSE Add(f, CHOOSE n \in name : TRUE)
                     ELSE Add(f, in[Taken(in)].v)

\* The reader of one message, and of messages that each have their length
\* before them (encoding=delimited).
Decode(t, in) == Merge(t, Fresh("protobuf", t), in)

Delimited(t, m) == <<Length(Size(t, m))>> \o Write(t, m)

RECURSIVE DecodeDelimited(_, _)
DecodeDelimited(t, in) ==
    IF in = << >> THEN << >>
    ELSE IF in[1].atom # "length" \/ in[1].n + 1 > Len(in) THEN <<Malformed>>
    ELSE <<Decode(t, SubSeq(in, 2, in[1].n + 1))>>
           \o DecodeDelimited(t, SubSeq(in, in[1].n + 2, Len(in)))
=============================================================================
