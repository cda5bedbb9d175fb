----------------------------- MODULE Characters -----------------------------
(***************************************************************************)
(* Looking for characters in a text, and cutting it.  No part of the program: *)
(* what the readers of texts and of URLs share.                             *)
(***************************************************************************)
EXTENDS Descriptor

\* The first position from i on of one of the characters of C, or the position
\* after the end.
Find(s, i, C) == Min({j \in i .. Len(s) : s[j] \in C} \cup {Len(s) + 1})

\* The pieces of s between the characters of C.
Split(s, C) ==
    FoldLeft(LAMBDA acc, x : IF x \in C THEN Append(acc, << >>)
                             ELSE [acc EXCEPT ![Len(acc)] = Append(@, x)],
             << << >> >>, s)
=============================================================================
