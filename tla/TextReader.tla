----------------------------- MODULE TextReader -----------------------------
(***************************************************************************)
(* A reader of the text format, and what the text of a family ought to say:  *)
(* the reference for the text encoder.                                      *)
(***************************************************************************)
EXTENDS TextFormat, Characters

\* Every line ends in a newline.
Lines(s) == Front(Split(s, {"\n"}))

\* The characters up to an unescaped one of C, and where that one is.
RECURSIVE Unescape(_, _, _, _)
Unescape(s, i, C, acc) ==
    IF i > Len(s) \/ s[i] \in C THEN [v |-> acc, next |-> i]
    ELSE IF s[i] = "\\" /\ i < Len(s)
    THEN Unescape(s, i + 2, C, Append(acc, IF s[i + 1] = "n" THEN "\n" ELSE s[i + 1]))
    ELSE Unescape(s, i + 1, C, Append(acc, s[i]))

\* The labels from position i, after a brace or a comma, to the closing brace.
RECURSIVE ReadLabels(_, _, _)
ReadLabels(s, i, acc) ==
    LET eq    == Find(s, i, {"="})
        value == Unescape(s, eq + 2, {"\""}, << >>)
        pairs == Append(acc, [name |-> SubSeq(s, i, eq - 1), value |-> value.v])
    IN  IF value.next < Len(s) /\ s[value.next + 1] = ","
        THEN ReadLabels(s, value.next + 2, pairs)
        ELSE [pairs |-> pairs, next |-> value.next + 2]

ReadSample(s) ==
    LET stop   == Find(s, 1, {"{", " "})
        labels == IF stop <= Len(s) /\ s[stop] = "{" THEN ReadLabels(s, stop + 1, << >>)
                  ELSE [pairs |-> << >>, next |-> stop]
        end    == Find(s, labels.next + 1, {" "})
    IN  [kind |-> Chars("sample"), name |-> SubSeq(s, 1, stop - 1), labels |-> labels.pairs,
         value |-> SubSeq(s, labels.next + 1, end - 1), time |-> SubSeq(s, end + 1, Len(s))]

ReadComment(s) ==
    LET stop == Find(s, 8, {" "})
    IN  [kind |-> SubSeq(s, 3, 6), name |-> SubSeq(s, 8, stop - 1),
         text |-> Unescape(s, stop + 1, {}, << >>).v]

ReadText(s) ==
    LET lines == Lines(s)
    IN  [i \in DOMAIN lines |-> IF lines[i][1] = "#" THEN ReadComment(lines[i])
                                ELSE ReadSample(lines[i])]

-----------------------------------------------------------------------------
\* What the lines of a family ought to say.
Said(build, mf) ==
    LET name == Name(build, mf)
        help == Read(build, "MetricFamily", mf, "help")
        type == Read(build, "MetricFamily", mf, "field_type")
        sample(m, postfix, more, v) ==
            LET time == Read(build, "Metric", m, "timestamp_ms")
            IN  [kind |-> Chars("sample"), name |-> name \o Chars(postfix),
                 labels |-> PlainPairs(build, m) \o more, value |-> to_string(v),
                 time |-> IF time = 0 THEN << >> ELSE to_string(time)]
        more(n, v) == << [name |-> Chars(n), value |-> v] >>
        samples(m) ==
            CASE type \in {"COUNTER", "GAUGE"} ->
                    LET f == IF type = "GAUGE" THEN "gauge" ELSE "counter"
                        t == IF type = "GAUGE" THEN "Gauge" ELSE "Counter"
                    IN  << sample(m, "", << >>, Read(build, t, Read(build, "Metric", m, f), "value")) >>
              [] type = "HISTOGRAM" ->
                    LET h == Read(build, "Metric", m, "histogram")
                        n == Read(build, "Histogram", h, "sample_count")
                        b == Read(build, "Histogram", h, "bucket")
                        bound(x) == Read(build, "Bucket", x, "upper_bound")
                        infinite == \E i \in DOMAIN b : bound(b[i]) = INF
                    IN  [i \in DOMAIN b |->
                            sample(m, "_bucket", more("le", to_string(bound(b[i]))),
                                   Read(build, "Bucket", b[i], "cumulative_count"))]
                          \o (IF infinite THEN << >>
                              ELSE << sample(m, "_bucket", more("le", Chars("+Inf")), n) >>)
                          \o << sample(m, "_sum", << >>, Read(build, "Histogram", h, "sample_sum")),
                                sample(m, "_count", << >>, n) >>
              [] type = "SUMMARY" ->
                    LET s == Read(build, "Metric", m, "summary")
                        q == Read(build, "Summary", s, "quantile")
                    IN  [i \in DOMAIN q |->
                            sample(m, "", more("quantile",
                                               to_string(Read(build, "Quantile", q[i], "quantile"))),
                                   Read(build, "Quantile", q[i], "value"))]
                          \o << sample(m, "_sum", << >>, Read(build, "Summary", s, "sample_sum")),
                                sample(m, "_count", << >>, Read(build, "Summary", s, "sample_count")) >>
              [] type = "UNTYPED" -> << >>
    IN  (IF help = << >> THEN << >>
         ELSE << [kind |-> Chars("HELP"), name |-> name, text |-> help] >>)
          \o << [kind |-> Chars("TYPE"), name |-> name, text |-> Lowercase[type]] >>
          \o FlattenSeq([i \in DOMAIN Metrics(build, mf) |-> samples(Metrics(build, mf)[i])])
=============================================================================
