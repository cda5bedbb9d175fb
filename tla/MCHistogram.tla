----------------------------- MODULE MCHistogram -----------------------------
(***************************************************************************)
(* Instances of HistogramCore for TLC.  Observation n falls in bucket n,    *)
(* the last one above every bound, so that each bucket is hit once, and     *)
(* with four observations the last two are both above the bounds.           *)
(***************************************************************************)
EXTENDS HistogramCore

MCBucketOf == [o \in Obs |-> IF o <= NB THEN o ELSE NB + 1]
=============================================================================
