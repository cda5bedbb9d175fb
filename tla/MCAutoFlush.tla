---------------------------- MODULE MCAutoFlush ----------------------------
(***************************************************************************)
(* Instances of AutoFlush for TLC: no thread is special.                    *)
(***************************************************************************)
EXTENDS AutoFlush, TLC

Alike == Permutations(Threads)
=============================================================================
