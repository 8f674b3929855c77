------------------------------ MODULE ListOps ------------------------------
(***************************************************************************)
(* Operations on the intrusive lists of util.h, for the modules that take  *)
(* a list to be the sequence of its elements.                              *)
(***************************************************************************)
EXTENDS Naturals, Sequences, SequencesExt

\* rlist_remove of an element of the list.
Without(list, u) == RemoveAt(list, CHOOSE i \in DOMAIN list : list[i] = u)

\* The elements of the list that are in S, in order: what is left when all
\* others have been removed, and what a walk along the list picks.
Kept(list, S) ==
  LET kept[i \in 0 .. Len(list)] ==
        IF i = 0 THEN <<>>
        ELSE IF list[i] \in S THEN Append(kept[i - 1], list[i]) ELSE kept[i - 1]
  IN  kept[Len(list)]
=============================================================================
