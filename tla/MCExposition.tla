---------------------------- MODULE MCExposition ----------------------------
(***************************************************************************)
(* Registries with a few offers each: constant and variable labels of one    *)
(* name, two types of one name, histograms and a counter named like a _count, *)
(* quotes and newlines, the default registry, and collectors of other code.   *)
(***************************************************************************)
EXTENDS Exposition, TLC

MCInf == 1000
MCNaN == -1000
MCDefaultBuckets == <<1, 2>>

Offer(macro, name, help, labels) ==
    [macro |-> macro, namespace |-> << >>, subsystem |-> << >>, name |-> Chars(name),
     help |-> help, const_labels |-> labels, buckets |-> Ok(<< >>), label_names |-> << >>,
     called_with |-> {}, amounts |-> {1}]
One_(n, v) == << << <<Chars(n), Chars(v)>> >> >>
Foreign(descs, given) ==
    [macro |-> "register", called_with |-> {}, amounts |-> {},
     collector |-> [type |-> "CUSTOM", vec |-> FALSE, descs |-> descs,
                    children |-> << >>, families |-> given]]

\* A summary with a timestamp, an untyped metric, and a family without a name.
Summaries(b) ==
    Message(b, "MetricFamily",
        [name |-> Chars("s"), field_type |-> "SUMMARY",
         metric |-> << Message(b, "Metric",
            [timestamp_ms |-> 7,
             summary |-> Message(b, "Summary",
                [sample_count |-> 3, sample_sum |-> -2,
                 quantile |-> << Message(b, "Quantile", [quantile |-> 5, value |-> 1]) >>])]) >>])
Untyped(b, name) ==
    Message(b, "MetricFamily",
        [name |-> Chars(name), help |-> Chars("u"), field_type |-> "UNTYPED",
         metric |-> << Message(b, "Metric", [untyped |-> Message(b, "Untyped", [value |-> 4])]) >>])
Twice(b) ==
    Message(b, "MetricFamily",
        [name |-> Chars("x"), field_type |-> "HISTOGRAM",
         metric |-> [i \in 1 .. 2 |-> Message(b, "Metric",
            [timestamp_ms |-> 3 - i,
             histogram |-> Message(b, "Histogram",
                [bucket |-> << Message(b, "Bucket", [upper_bound |-> MCInf]) >>])])]])

Desc_(name) == NewDesc(Chars(name), Chars("h"), << >>, Labels(<< >>)).v

MCOffers ==
    [one   |-> Offer("register_counter", "x", Chars("h"), One_("a", "1")),
     two   |-> Offer("register_counter", "x", Chars("h"), One_("a", "2")),
     gauge |-> Offer("register_gauge", "x", Chars("h"), One_("a", "0")),
     byA   |-> [Offer("register_counter_vec", "x", Chars("h"), << >>)
                  EXCEPT !.label_names = <<Chars("a")>>,
                         !.called_with = {<<Chars("1")>>, <<Chars("2")>>}],
     split |-> [Offer("register_counter", "b", Chars("h"), One_("a", "c"))
                  EXCEPT !.namespace = Chars("a")],
     join  |-> Offer("register_counter", "a_bc", Chars("h"), << << >> >>),
     both  |-> [Offer("register_gauge_vec", "y", Chars("h"), One_("a", "b"))
                  EXCEPT !.label_names = <<Chars("a"), Chars("b")>>,
                         !.called_with = {<<Chars("1"), Chars("2")>>, <<Chars("1")>>}],
     quote |-> [Offer("register_gauge_vec", "g", Chars("a\\ \"\n"), << >>)
                  EXCEPT !.label_names = <<Chars("b"), Chars("a")>>,
                         !.called_with = {<<Chars("a\"\n"), Chars("\\")>>}],
     job   |-> [Offer("register_gauge_vec", "j", Chars("h"), << >>)
                  EXCEPT !.label_names = <<Chars("job"), Chars("job")>>,
                         !.called_with = {<<Chars("1"), Chars("2")>>}],
     hist  |-> [Offer("register_histogram", "h", Chars("h"), One_("job", "1"))
                  EXCEPT !.buckets = Ok(<<1, MCInf>>), !.amounts = {1, 2}],
     hists |-> [Offer("register_histogram_vec", "v", Chars("h"), << >>)
                  EXCEPT !.label_names = <<Chars("a")>>, !.buckets = linear_buckets(1, 1, 2),
                         !.called_with = {<<Chars("1")>>}, !.amounts = {3}],
     powers |-> [Offer("register_histogram_vec", "v", Chars("h"), << >>)
                  EXCEPT !.label_names = <<Chars("le")>>, !.buckets = exponential_buckets(1, 2, 2),
                         !.called_with = {<<Chars("1")>>}],
     down  |-> [Offer("register_histogram", "d", Chars("h"), << << >> >>)
                  EXCEPT !.buckets = Ok(<<2, 1>>)],
     none  |-> [Offer("register_histogram", "d", Chars("h"), << << >> >>)
                  EXCEPT !.buckets = exponential_buckets(1, 1, 2)],
     count |-> Offer("register_counter", "h_count", Chars("c"), << << >> >>),
     other |-> Offer("register_counter", "x", Chars("o"), One_("b", "1")),
     nameless |-> Offer("register_counter", "", Chars("h"), << << >> >>),
     helpless |-> Offer("register_counter", "n", << >>, << << >> >>),
     sums  |-> Foreign(<<Desc_("s"), Desc_("u")>>, [b \in Builds |-> <<Summaries(b), Untyped(b, "u")>>]),
     empty |-> Foreign(<<Desc_("e")>>, [b \in Builds |-> <<Untyped(b, "")>>]),
     twice |-> Foreign(<<Desc_("x"), Desc_("x")>>, [b \in Builds |-> <<Twice(b)>>]),
     times |-> Foreign(<<Desc_("t")>>, [b \in Builds |-> <<Twice(b)>>])]

\* What a registry with these options is offered.
Custom(prefix, labels, names) ==
    [default |-> FALSE, given |-> prefix # "", prefix |-> Chars(prefix), labels |-> labels,
     offered |-> names]

MCSetups ==
    { Custom("", Labels(<< >>), {"one", "two", "byA"}),
      Custom("k", Labels(<< <<Chars("c"), Chars("9")>> >>), {"one", "gauge", "split", "join"}),
      Custom("", Labels(<< >>), {"hist", "count", "hists", "nameless"}),
      Custom("", Labels(<< <<Chars("b"), Chars("1")>>, <<Chars("c"), Chars("2")>> >>),
             {"both", "quote", "helpless"}),
      Custom("", Labels(<< >>), {"quote", "job", "powers", "down", "none"}),
      Custom("", Labels(<< >>), {"empty", "times", "one", "twice"}),
      Custom("k", Labels(<< >>), {"empty", "byA", "other"}),
      [default |-> TRUE, offered |-> {"split", "sums"},
       process |-> Foreign(<<Desc_("p")>>,
                           [b \in Builds |-> <<Untyped(b, "x")>>]).collector],
      [Custom("", Labels(<< >>), {"one"}) EXCEPT !.given = TRUE] }

PushCall(method, job, url, grouping, status) ==
    [method |-> method, job |-> Chars(job), url |-> Chars(url), auth |-> method = "PUT",
     grouping |-> grouping, status |-> status]

MCPushes ==
    { PushCall("PUT", "a", "b:9/", hostname_grouping_key(0, Chars("c") \o <<"NUL">>, TRUE), 200),
      PushCall("POST", "", "https://b/x/", Labels(<< <<Chars("c"), Chars("\"2")>>,
                                               <<Chars("instance"), << >> >> >>), 202),
      PushCall("PUT", "a/c", "b", Labels(<< >>), 200),
      PushCall("POST", "a", "http://b", Labels(<< <<Chars("z"), Chars("1/2")>> >>), 0),
      PushCall("POST", "a", "http://u@b:9/..", Labels(<< <<Chars("a"), Chars("1")>>,
                                                    <<Chars("z"), Chars("1")>> >>), 0),
      PushCall("PUT", "a", "b:c", Labels(<< >>), 200),
      PushCall("PUT", "a", "ftp://b", Labels(<< >>), 200) }
=============================================================================
