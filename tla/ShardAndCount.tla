---------------------------- MODULE ShardAndCount ----------------------------
(***************************************************************************)
(* The packed word of a histogram (histogram.rs, struct ShardAndCount): an  *)
(* unsigned word whose most significant bit is the index of the hot shard   *)
(* and whose other bits count the observations.  The code has a u64, hence  *)
(* CountRange = 2^63; the arithmetic is modulo 2 * CountRange, so a count   *)
(* that outgrows its bits carries into the shard bit exactly as fetch_add   *)
(* does.                                                                    *)
(***************************************************************************)
EXTENDS Naturals

CONSTANT CountRange

ASSUME CountRangeAssumption == CountRange \in Nat \ {0}

Shard == {0, 1}

Word == 0 .. (2 * CountRange - 1)

\* ShardIndex::inverse
Other(s) == 1 - s

\* Mutant: an addition that does not wrap at the word's width.
WrapAddWider(n, d) == n + d

\* fetch_add on the word, for an operand that is itself a word.
WrapAdd(n, d) == IF n + d < 2 * CountRange THEN n + d ELSE n + d - 2 * CountRange

\* split_shard_index_and_count: n >> 63 and n & ((1 << 63) - 1).
ShardIndex(n) == IF n < CountRange THEN 0 ELSE 1
ObsCount(n) == IF n < CountRange THEN n ELSE n - CountRange

\* Mutant: a flip that reads the word and leaves it.
FlipWordForgotten(n) == n

\* The new value of the word; the caller splits the old one.
FlipWord(n) == WrapAdd(n, CountRange)
IncWord(n, d) == WrapAdd(n, d)

=============================================================================
