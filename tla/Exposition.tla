----------------------------- MODULE Exposition -----------------------------
(***************************************************************************)
(* From options to what a scrape or a push sends: the families of Scrape are *)
(* encoded or pushed, those of both builds of the crate side by side.  Every *)
(* step is one of Scrape's.                                                  *)
(***************************************************************************)
EXTENDS Scrape, TextReader, Push

CONSTANT
    Pushes          \* the arguments of pushes, and the Pushgateway's response

VARIABLE
    out        \* what came of the use of the families

vars == <<scraping, out>>

-----------------------------------------------------------------------------
Init == ScrapeInit /\ out = << >>

\* The program goes on, or families are taken.
Prepare == (Instrument \/ Gather \/ Collect) /\ out' = << >>

EncodeText ==
    /\ UseAs("text")
    /\ out' = [b \in Builds |-> [out |-> encode_utf8(b, families[b], << >>),
                                 string |-> encode_to_string(b, families[b])]]

EncodeProtobuf ==
    /\ UseAs("protobuf")
    /\ out' = encode(families["protobuf"])

\* A request, if there is one, and what the call returns, for an order of the
\* grouping's map.
Pushed(p, names, fs) ==
    LET request == IF p.method = "PUT"
                   THEN push_metrics(p.job, p.grouping, names, p.url, p.auth, fs)
                   ELSE push_add_metrics(p.job, p.grouping, names, p.url, p.auth, fs)
    IN  [push |-> p, request |-> request, result |-> PushResult(request, p.status)]

PushGathered ==
    /\ UseAs("pushed")
    /\ \E p \in Pushes : \E names \in SetToSeqs(DOMAIN p.grouping) :
            out' = Pushed(p, names, families["protobuf"])

\* push_collector, push_add_collector.
PushCollectors ==
    /\ CollectTogether
    /\ \E p \in Pushes : \E names \in SetToSeqs(DOMAIN p.grouping) :
            out' = Pushed(p, names, families'["protobuf"])

Forget == Done /\ out' = << >>

Next ==
    \/ Prepare
    \/ EncodeText \/ EncodeProtobuf \/ PushGathered \/ PushCollectors
    \/ Forget

Spec == Init /\ [][Next]_vars

-----------------------------------------------------------------------------
(***************************************************************************)
(* Properties of what was written.                                          *)
(***************************************************************************)
\* The families before the first that the encoder refuses, or panics on.
Encodable(b, mf) == check_metric_family(b, mf) = "none"
Written(b) ==
    LET refused_ == {i \in DOMAIN families[b] : ~Encodable(b, families[b][i])}
    IN  SubSeq(families[b], 1, Min(refused_ \cup {Len(families[b]) + 1}) - 1)
Panics(b, mf) == Read(b, "MetricFamily", mf, "field_type") = "UNTYPED"

\* A text reads back as what the families say, through quotes, backslashes and
\* newlines, up to the family that the encoder refuses and nothing of that one;
\* an untyped family is a panic after its header.  A string is returned only if
\* it is the whole text.
TextIsFaithful ==
    used = "text" =>
        \A b \in Builds :
            LET panics == {i \in DOMAIN Written(b) : Panics(b, Written(b)[i])}
                said   == SubSeq(Written(b), 1, Min(panics \cup {Len(Written(b))}))
            IN  /\ ReadText(out[b].out) = FlattenSeq([i \in DOMAIN said |-> Said(b, said[i])])
                /\ out[b].string.ok <=> said = families[b] /\ panics = {}
                /\ out[b].string.ok => out[b].string.v = out[b].out

\* The plain data model and the generated one give the same text.
BuildsAgree == used = "text" => out["plain"] = out["protobuf"]

Samples(lines) == {i \in DOMAIN lines : lines[i].kind = Chars("sample")}

\* The name of the family of a sample.
FamilyOf(lines, i) ==
    lines[Max({j \in 1 .. i : lines[j].kind = Chars("TYPE")})].name

\* No two samples of a family have the same name and labels, whatever collectors
\* make the family up.  (Families of two names may clash: a counter may be named
\* like the _count of a histogram.)
SeriesUnique ==
    /\ used = "text" /\ source = "gather"
    /\ ~\E k \in registry.collectors : colls[k].type = "CUSTOM"
    =>
        LET lines == ReadText(out["plain"].out) IN
        \A i, j \in Samples(lines) :
            (i # j /\ lines[i].name = lines[j].name
                   /\ ToSet(lines[i].labels) = ToSet(lines[j].labels))
                => FamilyOf(lines, i) # FamilyOf(lines, j)

\* The buckets of a histogram of the library, in a text: bounds in increasing
\* order, counts that never decrease, and one +Inf bucket, the last, with as
\* many as _count.
Number(digits) ==
    FoldLeft(LAMBDA n, c : 10 * n + (CHOOSE i \in 1 .. 10 : Digit[i] = c) - 1, 0, digits)
Le(line) == (CHOOSE p \in ToSet(line.labels) : p.name = BUCKET_LABEL).value

HistogramSeries ==
    used = "text" /\ source = "gather" =>
        LET lines == ReadText(out["plain"].out)
            own == {Exported(colls[k].descs[1].fq_name) :
                      k \in {k \in Own(registry) : colls[k].type = "HISTOGRAM"}}
            counts == {i \in Samples(lines) : FamilyOf(lines, i) \in own
                         /\ lines[i].name = FamilyOf(lines, i) \o Chars("_count")}
            buckets(i) == {j \in Samples(lines) : j < i
                             /\ lines[j].name = FamilyOf(lines, i) \o Chars("_bucket")
                             /\ ToSet(lines[i].labels) \subseteq ToSet(lines[j].labels)}
        IN  \A i \in counts :
                /\ {j \in buckets(i) : Le(lines[j]) = POSITIVE_INF} = {Max(buckets(i))}
                /\ lines[Max(buckets(i))].value = lines[i].value
                /\ \A j, l \in buckets(i) : j < l =>
                     /\ Number(lines[j].value) <= Number(lines[l].value)
                     /\ l # Max(buckets(i)) => Number(Le(lines[j])) < Number(Le(lines[l]))

\* A reader of the protobuf encoding gets the gathered families, up to the one
\* that the encoder refuses and nothing of that one.
WireIsFaithful ==
    used = "protobuf" =>
        DecodeDelimited("MetricFamily", out.out) = Written("protobuf")

\* The group that a Pushgateway files a request in: it is at the URL of the push,
\* and it reads the job and the labels from the segments behind.
Base(url) == LET at == Parsed(WithScheme(url)).v.path
             IN  IF Last(at) = << >> THEN Front(at) ELSE at
Filed(job, pairs) ==
    IF Len(pairs) % 2 = 1 THEN [group |-> "none"]
    ELSE [group |-> "job", job |-> job,
          labels |-> {<<pairs[2 * i - 1], pairs[2 * i]>> : i \in 1 .. Len(pairs) \div 2}]
GroupAt(path, base) ==
    IF ~IsPrefix(base, path) \/ Len(path) = Len(base) THEN [group |-> "none"]
    ELSE Filed(path[Len(base) + 1], SubSeq(path, Len(base) + 2, Len(path)))
FiledUnder(request, url) ==
    GroupAt(request.path, Base(url) \o <<Chars("metrics"), Chars("job")>>)

\* The request goes to the host of the URL, and the gateway files what is in it
\* under the job and the grouping of the call, whatever the order of the map.
\* (The URL is that of a host, maybe with a path.)
ReachesItsGroup(request, p) ==
    LET own == Parsed(WithScheme(p.url)) IN
    own.ok /\ ToSet(p.url) \cap {"?", "#"} = {} =>
        /\ request.host = own.v.host
        /\ FiledUnder(request, p.url) =
              [group |-> "job", job |-> p.job,
               labels |-> {<<n, p.grouping[n]>> : n \in DOMAIN p.grouping}]

\* A text without characters that mean something in a URL.  A slash is not among
\* them: push looks for that one itself, but in a label name.
Unmarked(s) ==
    /\ ToSet(s) \cap ({"?", "#", "%", "\\"} \cup Blanks) = {}
    /\ s \notin {Chars("."), Chars("..")}
Plainly(p) ==
    /\ Unmarked(p.job)
    /\ \A n \in DOMAIN p.grouping :
         Unmarked(n) /\ "/" \notin ToSet(n) /\ Unmarked(p.grouping[n])

LabelNames(mf) ==
    UNION {{PairName("protobuf", l) : l \in ToSet(LabelsOf("protobuf", m))} :
             m \in ToSet(Metrics("protobuf", mf))}

\* push.rs: what is sent reaches the group of its job and grouping, if these need
\* no escaping, which push does not do; it is every family that can be encoded,
\* whole, and none has a label of the group, be it a metric's own or a common one.
\* Nothing is refused but for a slash or such a label, and a call panics only
\* over a URL that is none by itself.
PushIsFaithful ==
    used = "pushed" =>
        LET p       == out.push
            request == out.request
            group   == {Chars("job")} \cup DOMAIN p.grouping
            slashed == "/" \in ToSet(p.job)
                         \/ \E n \in DOMAIN p.grouping : "/" \in ToSet(p.grouping[n])
            clashes == \E mf \in ToSet(families["protobuf"]) : LabelNames(mf) \cap group # {}
        IN  /\ request.ok =>
                 /\ Plainly(p) => ReachesItsGroup(request.v, p)
                 /\ DecodeDelimited("MetricFamily", request.v.body) =
                      SelectSeq(families["protobuf"], LAMBDA mf : Encodable("protobuf", mf))
            /\ (~request.ok /\ request.e \in {"slash", "label"}) <=> (slashed \/ clashes)
            /\ out.result = "panic" => ~Parsed(WithScheme(p.url)).ok
=============================================================================
