---------------------------- MODULE MCMetricVec ----------------------------
(***************************************************************************)
(* Instances of MetricVec for TLC: label values are strings, with which     *)
(* FlattenSeq concatenates as the hasher does.                              *)
(***************************************************************************)
EXTENDS MetricVec, TLC

\* One variable label.
OneLabel == {<<"a">>, <<"b">>}

\* Two variable labels, whose values concatenate to the same bytes.
TwoLabels == {<<"ab", "c">>, <<"a", "bc">>}

Alike == Permutations(Users) \cup Permutations(Metric)
=============================================================================
