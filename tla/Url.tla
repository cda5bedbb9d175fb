--------------------------------- MODULE Url ---------------------------------
(***************************************************************************)
(* Url::from_str of the url crate, as push.rs uses it, and what a server     *)
(* reads from the path that it is sent.  Both are outside of the program.    *)
(*                                                                          *)
(* Left out: schemes in capitals and the form of a host.  No host of the     *)
(* models is an address or has an escape.                                   *)
(***************************************************************************)
EXTENDS Characters

Http == {Chars("http"), Chars("https")}
Slashes == {"/", "\\"}
Breaks == {"\t", "\n", "\r"}
Blanks == {" "} \cup Breaks

\* Blanks at the ends, and breaks anywhere, are not part of a URL.
Stripped(text) ==
    LET kept == {i \in DOMAIN text : text[i] \notin Blanks}
        ends == IF kept = {} THEN << >> ELSE SubSeq(text, Min(kept), Max(kept))
    IN  SelectSeq(ends, LAMBDA c : c \notin Breaks)

IsScheme(s) ==
    /\ s # << >> /\ s[1] \in Letters
    /\ ToSet(s) \subseteq Letters \cup Digits \cup {"+", "-", "."}

IsPort(s) ==
    /\ ToSet(s) \subseteq Digits
    /\ FoldLeft(LAMBDA n, c : 10 * n + Rank[c] - Rank["0"], 0, s) < 2 ^ 16

\* What a server makes of a segment: a character that has to be escaped is, and
\* comes out as it was; what looks like an escape is one, here an atom.
Received(segment) ==
    LET hex == Digits \cup ToSet(Chars("abcdefABCDEF"))
        escapes == {i \in DOMAIN segment :
                      /\ segment[i] = "%" /\ i + 2 <= Len(segment)
                      /\ segment[i + 1] \in hex /\ segment[i + 2] \in hex}
    IN  FlattenSeq([i \in DOMAIN segment |->
            IF i \in escapes THEN <<"%" \o segment[i + 1] \o segment[i + 2]>>
            ELSE IF {i - 1, i - 2} \cap escapes # {} THEN << >>
            ELSE <<segment[i]>>])

Here  == {Chars("."), Chars("%2e"), Chars("%2E")}
Above == {a \o b : a, b \in Here}

\* The segments of a path: one step down for each, none for a dot, and up for
\* two.  A path that ends in dots is that of a directory.
Segments(path) ==
    LET parts == Split(SubSeq(path, 2, Len(path)), Slashes)
        end(i) == IF i = Len(parts) THEN << << >> >> ELSE << >>
        Walk(at, i) ==
            CASE parts[i] \in Above -> (IF at = << >> THEN at ELSE Front(at)) \o end(i)
              [] parts[i] \in Here -> at \o end(i)
              [] OTHER -> Append(at, Received(parts[i]))
    IN  FoldLeft(Walk, << >>, [i \in DOMAIN parts |-> i])

\* An authority is a host, maybe with a user before it and a port behind.
Host(authority) ==
    SubSeq(authority, 1 + Max({0} \cup {i \in DOMAIN authority : authority[i] = "@"}),
           Len(authority))
PortAt(host) == Find(host, 1 + Max({0} \cup {i \in DOMAIN host : host[i] = "]"}), {":"})

AtHost(scheme, host, port, path) ==
    IF port = 1 \/ host = << >> THEN Err("no host")
    ELSE IF ~IsPort(SubSeq(host, port + 1, Len(host))) THEN Err("port")
    ELSE Ok([scheme |-> scheme, host |-> host, path |-> Segments(path)])

\* What comes after the slashes: the authority, and a path up to a query.
Located(scheme, rest) ==
    LET path == Find(rest, 1, Slashes \cup {"?", "#"})
        host == Host(SubSeq(rest, 1, path - 1))
    IN  AtHost(scheme, host, PortAt(host),
               SubSeq(rest, path, Find(rest, path, {"?", "#"}) - 1))

\* A URL of another scheme is parsed no further here: no request is made of it.
Schemed(url, colon) ==
    LET scheme == SubSeq(url, 1, colon - 1)
        slashes == {i \in colon + 1 .. Len(url) : \A j \in colon + 1 .. i : url[j] \in Slashes}
    IN  IF ~IsScheme(scheme) \/ colon > Len(url) THEN Err("no base")
        ELSE IF scheme \notin Http
        THEN Ok([scheme |-> scheme, host |-> << >>, path |-> << >>])
        ELSE Located(scheme, SubSeq(url, colon + 1 + Cardinality(slashes), Len(url)))

ParsedOf(url) == Schemed(url, Find(url, 1, {":"}))
Parsed(text) == ParsedOf(Stripped(text))
=============================================================================
