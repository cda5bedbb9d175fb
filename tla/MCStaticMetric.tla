---------------------------- MODULE MCStaticMetric ----------------------------
(***************************************************************************)
(* Plain, local and auto-flushed metrics of one, two and three labels; names *)
(* whose values are each other's; one value under two names; a vector whose  *)
(* labels are in another order, or are others; enums that are not defined    *)
(* yet or not visible; a field twice, one like the root's own, which may be  *)
(* in a lower struct, and a metric without labels; values that run together  *)
(* to the same, and a label that two levels name.                            *)
(***************************************************************************)
EXTENDS StaticMetric

MCInf == 1000
MCNaN == -1000
MCDefaultBuckets == <<1>>

Enum(name, public, definitions) ==
    [item |-> "enum", name |-> name, public |-> public, definitions |-> definitions]
Struct(name, type, labels) ==
    [item |-> "metric", name |-> name, public |-> TRUE, type |-> type, labels |-> labels]
Values(key, values) == [key |-> Chars(key), enum |-> "none", values |-> values]
Named(key, enum) == [key |-> Chars(key), enum |-> enum, values |-> << >>]
Invoke(auto_flush, items) == [auto_flush |-> auto_flush, items |-> items]
Program(invocations, labels) ==
    [invocations |-> invocations, labels |-> [i \in DOMAIN labels |-> Chars(labels[i])]]

Methods == Enum("Methods", TRUE, << <<"post">>, <<"put", "x">> >>)
Swapped == << <<"a", "b">>, <<"b", "a">> >>
Twice == << <<"a">>, <<"c", "a">> >>

MCPrograms ==
    { Program(<< Invoke(FALSE, << Struct("Foo2", "Gauge", << Values("k", Swapped) >>),
                                  Methods, Struct("Foo", "Counter",
                     << Named("m", "Methods"), Values("k", Swapped) >>) >>) >>, <<"k", "m">>),
      Program(<< Invoke(FALSE, << Methods, Struct("Foo", "LocalCounter",
                     << Named("m", "Methods"), Values("k", Twice) >>) >>) >>, <<"m", "k">>),
      Program(<< Invoke(FALSE, << Struct("Foo2", "Gauge", << Values("k", Swapped) >>) >>),
                 Invoke(TRUE, << Methods, Struct("Foo", "LocalHistogram",
                     << Named("m", "Methods"), Values("k", Swapped) >>) >>) >>, <<"k", "m">>),
      Program(<< Invoke(TRUE, << Methods, Struct("Foo", "LocalIntCounter",
                     << Values("j", << <<"foo">> >>), Named("m", "Methods"),
                        Values("k", Swapped) >>) >>) >>, <<"m", "k", "j">>),
      Program(<< Invoke(TRUE, << Methods, Struct("Foo", "LocalCounter",
                     << Named("m", "Methods") >>) >>) >>, <<"m">>),
      Program(<< Invoke(FALSE, << Methods, Struct("Foo", "Counter",
                     << Named("m", "Methods") >>) >>) >>, <<"n">>),
      Program(<< Invoke(FALSE, << Struct("Foo", "Counter", << Named("m", "Methods") >>),
                                  Methods >>) >>, <<"m">>),
      Program(<< Invoke(FALSE, << Enum("Methods", FALSE, << <<"post">> >>),
                                  Struct("Foo", "Counter", << Named("m", "Methods") >>) >>) >>,
              <<"m">>),
      Program(<< Invoke(TRUE, << Struct("Foo", "LocalGauge", << Values("k", Twice) >>) >>) >>,
              <<"k">>),
      Program(<< Invoke(TRUE, << Struct("Foo", "LocalCounter", << >>) >>) >>, << >>),
      Program(<< Invoke(FALSE, << Struct("Foo", "Counter", << >>) >>) >>, << >>),
      Program(<< Invoke(FALSE, << Struct("Foo", "Counter",
                     << Values("k", << <<"a">>, <<"a", "b">> >>) >>) >>) >>, <<"k">>),
      Program(<< Invoke(TRUE, << Struct("Foo", "LocalCounter",
                     << Values("k", << <<"last_flush">> >>) >>) >>) >>, <<"k">>),
      Program(<< Invoke(TRUE, << Struct("Foo", "LocalCounter",
                     << Values("j", Swapped), Values("k", << <<"last_flush">>, <<"c">> >>)
                        >>) >>) >>, <<"k", "j">>),
      Program(<< Invoke(FALSE, << Struct("Foo", "LocalHistogram",
                     << Values("j", << <<"a">>, <<"ab">> >>),
                        Values("k", << <<"bc">>, <<"c">> >>) >>) >>) >>, <<"j", "k">>),
      Program(<< Invoke(FALSE, << Struct("Foo", "Gauge",
                     << Values("k", Swapped), Values("k", << <<"c">>, <<"d">> >>) >>) >>) >>,
              <<"k">>) }
=============================================================================
