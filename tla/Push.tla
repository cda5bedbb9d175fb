-------------------------------- MODULE Push --------------------------------
(***************************************************************************)
(* push.rs: a request for a Pushgateway is put together from a job, a        *)
(* grouping, a URL and gathered families, and its response is judged.  The   *)
(* HTTP client and the gateway are not part of the program.                 *)
(***************************************************************************)
EXTENDS TextFormat, Url

Mentions(s, part) == \E i \in 0 .. (Len(s) - Len(part)) : SubSeq(s, i + 1, i + Len(part)) = part

LABEL_NAME_JOB == Chars("job")
Accepted == {200, 202}

\* The URL with a scheme, and without one closing slash.
WithScheme(url) == IF Mentions(url, Chars("://")) THEN url ELSE Chars("http://") \o url
BaseUrl(url) ==
    LET full == WithScheme(url) IN IF Last(full) = "/" THEN Front(full) ELSE full

Joined(parts) ==
    FlattenSeq([i \in DOMAIN parts |-> IF i = 1 THEN parts[i] ELSE <<"/">> \o parts[i]])

\* Mutant: only the job is looked at for a slash.
NoSlashInJob(job, grouping) == "/" \notin ToSet(job)

\* Neither the job nor a value of the grouping has a slash.
NoSlash(job, grouping) ==
    /\ "/" \notin ToSet(job)
    /\ \A n \in DOMAIN grouping : "/" \notin ToSet(grouping[n])

\* The path: the job, then the grouping in the order of its map.
PushUrl(job, grouping, names, url) ==
    BaseUrl(url) \o Chars("/metrics/job/")
      \o Joined(<<job>> \o FlattenSeq([i \in DOMAIN names |-> <<names[i], grouping[names[i]]>>]))

\* A label of the family is the job label or one of the grouping.
HasGroupLabel(mf, grouping) ==
    \E i \in DOMAIN Metrics("protobuf", mf) :
        LET labels == LabelsOf("protobuf", Metrics("protobuf", mf)[i])
        IN  \E j \in DOMAIN labels :
                PairName("protobuf", labels[j]) \in {LABEL_NAME_JOB} \cup DOMAIN grouping

\* The families one at a time; those that the encoder refuses are left out.
PushBody(grouping, families) ==
    FoldLeft(LAMBDA acc, mf :
                IF ~acc.ok THEN acc
                ELSE IF HasGroupLabel(mf, grouping) THEN Err("label")
                ELSE Ok(acc.v \o encode(<<mf>>).out),
             Ok(<< >>), families)

\* push up to the request.  The URL is put together as it comes and then parsed,
\* and unwrap() panics if it cannot be; the client refuses schemes but its own.
PushRequest(method, job, grouping, names, url, basic_auth, families) ==
    IF ~NoSlash(job, grouping) THEN Err("slash")
    ELSE Then(PushBody(grouping, families), LAMBDA body :
            LET to == Parsed(PushUrl(job, grouping, names, url))
            IN  IF ~to.ok THEN Err("panic")
                ELSE IF to.v.scheme \notin Http THEN Err("client")
                ELSE Ok([method |-> method, host |-> to.v.host, path |-> to.v.path,
                         body |-> body, auth |-> basic_auth]))

push_metrics(job, grouping, names, url, basic_auth, families) ==
    PushRequest("PUT", job, grouping, names, url, basic_auth, families)
push_add_metrics(job, grouping, names, url, basic_auth, families) ==
    PushRequest("POST", job, grouping, names, url, basic_auth, families)

\* What the call returns, if it does.  The response is a status, or an error of
\* the client: no answer in time.
PushResult(request, status) ==
    CASE ~request.ok -> IF request.e = "panic" THEN "panic" ELSE "error"
      [] request.ok /\ status \in Accepted -> "ok"
      [] OTHER -> "error"

\* hostname_grouping_key: the name up to the first NUL, if the call succeeds and
\* it is UTF-8.
hostname_grouping_key(status, bytes, is_utf8) ==
    LET zero == {i \in DOMAIN bytes : bytes[i] = "NUL"}
        name == IF zero = {} THEN bytes ELSE SubSeq(bytes, 1, Min(zero) - 1)
    IN  Labels(<< <<Chars("instance"),
                    IF status = 0 /\ is_utf8 THEN name ELSE Chars("unknown")>> >>)
=============================================================================
