---------------------------- MODULE MCAtomicF64 ----------------------------
(***************************************************************************)
(* AtomicF64 over three bit patterns: 0, 1 and 2 stand for numbers whose    *)
(* addition wraps, so that a cell often gets back to an earlier value.      *)
(***************************************************************************)
EXTENDS AtomicF64, Naturals

MCAdd(x, y) == (x + y) % 3
=============================================================================
