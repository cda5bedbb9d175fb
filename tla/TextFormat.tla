----------------------------- MODULE TextFormat -----------------------------
(***************************************************************************)
(* The encoders (encoder/mod.rs, text.rs, pb.rs): what they write of a       *)
(* sequence of metric families, and where they stop.  A text is a sequence   *)
(* of characters, so that a character of a label value is the same thing as  *)
(* a delimiter of the format.  An encoding is what has been written and an   *)
(* error; the writer of the caller has the part before an error, too.        *)
(***************************************************************************)
EXTENDS Gather, Wire

\* to_string of a number.
Digit == Chars("0123456789")
RECURSIVE Decimal(_)
Decimal(n) == (IF n < 10 THEN << >> ELSE Decimal(n \div 10)) \o <<Digit[(n % 10) + 1]>>
to_string(n) ==
    CASE n = INF -> Chars("inf")
      [] n = NaN -> Chars("NaN")
      [] n \notin {INF, NaN} /\ n < 0 -> <<"-">> \o Decimal(-n)
      [] OTHER -> Decimal(n)

POSITIVE_INF == Chars("+Inf")

-----------------------------------------------------------------------------
\* check_metric_family.
check_metric_family(build, mf) ==
    IF Metrics(build, mf) = << >> THEN "no metrics"
    ELSE IF Name(build, mf) = << >> THEN "no name"
    ELSE "none"

\* Mutant: quotes are left as they are.
escape_string_no_quote(v, include_double_quote) ==
    FlattenSeq([i \in DOMAIN v |->
        CASE v[i] = "\\" -> <<"\\", "\\">>
          [] v[i] = "\n" -> <<"\\", "n">>
          [] OTHER -> <<v[i]>>])

escape_string(v, include_double_quote) ==
    FlattenSeq([i \in DOMAIN v |->
        CASE v[i] = "\\" -> <<"\\", "\\">>
          [] v[i] = "\n" -> <<"\\", "n">>
          [] v[i] = "\"" /\ include_double_quote -> <<"\\", "\"">>
          [] OTHER -> <<v[i]>>])

\* label_pairs_to_text: pairs of a name and a value, an additional one last.
label_pairs_to_text(pairs) ==
    LET pair(i) == (IF i = 1 THEN <<"{">> ELSE <<",">>) \o pairs[i].name
                     \o Chars("=\"") \o escape_string(pairs[i].value, TRUE) \o <<"\"">>
    IN  IF pairs = << >> THEN << >>
        ELSE FlattenSeq([i \in DOMAIN pairs |-> pair(i)]) \o <<"}">>

\* write_sample: one line; additional is a sequence of at most one label.
write_sample(build, name, postfix, m, additional, value) ==
    LET time == Read(build, "Metric", m, "timestamp_ms")
    IN  name \o postfix \o label_pairs_to_text(PlainPairs(build, m) \o additional)
          \o <<" ">> \o to_string(value)
          \o (IF time = 0 THEN << >> ELSE <<" ">> \o to_string(time)) \o <<"\n">>

-----------------------------------------------------------------------------
\* The lines of a histogram: buckets, +Inf unless it is among them, sum, count.
HistogramLines(build, name, m) ==
    LET h       == Read(build, "Metric", m, "histogram")
        buckets == Read(build, "Histogram", h, "bucket")
        count   == Read(build, "Histogram", h, "sample_count")
        bound(i) == Read(build, "Bucket", buckets[i], "upper_bound")
        le(v)   == << [name |-> BUCKET_LABEL, value |-> v] >>
        line(postfix, additional, v) ==
            write_sample(build, name, Chars(postfix), m, additional, v)
        inf_seen == \E i \in DOMAIN buckets : bound(i) = INF
    IN  FlattenSeq([i \in DOMAIN buckets |->
            line("_bucket", le(to_string(bound(i))),
                 Read(build, "Bucket", buckets[i], "cumulative_count"))])
          \o (IF inf_seen THEN << >> ELSE line("_bucket", le(POSITIVE_INF), count))
          \o line("_sum", << >>, Read(build, "Histogram", h, "sample_sum"))
          \o line("_count", << >>, count)

\* The lines of a summary: quantiles, sum, count.
SummaryLines(build, name, m) ==
    LET s         == Read(build, "Metric", m, "summary")
        quantiles == Read(build, "Summary", s, "quantile")
        line(postfix, additional, v) ==
            write_sample(build, name, Chars(postfix), m, additional, v)
        quantile(q) == << [name |-> Chars("quantile"),
                           value |-> to_string(Read(build, "Quantile", q, "quantile"))] >>
    IN  FlattenSeq([i \in DOMAIN quantiles |->
            line("", quantile(quantiles[i]), Read(build, "Quantile", quantiles[i], "value"))])
          \o line("_sum", << >>, Read(build, "Summary", s, "sample_sum"))
          \o line("_count", << >>, Read(build, "Summary", s, "sample_count"))

\* The lines of a metric are those of its family's type, whichever it has set.
MetricLines(build, type, name, m) ==
    CASE type = "COUNTER" ->
            write_sample(build, name, << >>, m, << >>,
                         Read(build, "Counter", Read(build, "Metric", m, "counter"), "value"))
      [] type = "GAUGE" ->
            write_sample(build, name, << >>, m, << >>,
                         Read(build, "Gauge", Read(build, "Metric", m, "gauge"), "value"))
      [] type = "HISTOGRAM" -> HistogramLines(build, name, m)
      [] type = "SUMMARY" -> SummaryLines(build, name, m)

Lowercase ==
    [COUNTER |-> Chars("counter"), GAUGE |-> Chars("gauge"), SUMMARY |-> Chars("summary"),
     UNTYPED |-> Chars("untyped"), HISTOGRAM |-> Chars("histogram")]

\* The # HELP line, unless there is no help, and the # TYPE line.
Header(name, help, type) ==
    (IF help = << >> THEN << >>
     ELSE Chars("# HELP ") \o name \o <<" ">> \o escape_string(help, FALSE) \o <<"\n">>)
      \o Chars("# TYPE ") \o name \o <<" ">> \o Lowercase[type] \o <<"\n">>

\* One family of encode_impl; unimplemented!() is a panic after the header.
TextOf(build, mf) ==
    LET name == Name(build, mf)
        type == Read(build, "MetricFamily", mf, "field_type")
        header == Header(name, Read(build, "MetricFamily", mf, "help"), type)
    IN  IF type = "UNTYPED" THEN [out |-> header, error |-> "panic"]
        ELSE [out |-> header
                        \o FlattenSeq([i \in DOMAIN Metrics(build, mf) |->
                              MetricLines(build, type, name, Metrics(build, mf)[i])]),
              error |-> "none"]

-----------------------------------------------------------------------------
\* Mutant: a family is written before it is checked.
EncodeNextUnchecked(build, acc, mf, written) ==
    IF acc.error # "none" THEN acc
    ELSE [out |-> acc.out \o written.out,
          error |-> IF written.error # "none" THEN written.error
                    ELSE check_metric_family(build, mf)]

\* One turn of an encoder's loop: a family is checked and then written, until
\* one is refused.
EncodeNext(build, acc, mf, written) ==
    IF acc.error # "none" THEN acc
    ELSE IF check_metric_family(build, mf) # "none"
    THEN [acc EXCEPT !.error = check_metric_family(build, mf)]
    ELSE [out |-> acc.out \o written.out, error |-> written.error]

Nothing == [out |-> << >>, error |-> "none"]

\* TextEncoder::encode_impl.
encode_impl(build, families) ==
    FoldLeft(LAMBDA acc, mf : EncodeNext(build, acc, mf, TextOf(build, mf)),
             Nothing, families)

\* encode_utf8 appends to the buffer, and encode_to_string starts with none and
\* keeps the text only if there is no error.
encode_utf8(build, families, buf) == buf \o encode_impl(build, families).out
encode_to_string(build, families) ==
    LET e == encode_impl(build, families)
    IN  IF e.error = "none" THEN Ok(e.out) ELSE Err(e.error)

\* ProtobufEncoder::encode, in the protobuf build.
encode(families) ==
    FoldLeft(LAMBDA acc, mf :
                EncodeNext("protobuf", acc, mf,
                           [out |-> Delimited("MetricFamily", mf), error |-> "none"]),
             Nothing, families)
=============================================================================
