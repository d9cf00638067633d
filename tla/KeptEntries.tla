----------------------------- MODULE KeptEntries -----------------------------
(***************************************************************************)
(* What is left of a list when entries are taken out of it: Array.filter of  *)
(* the client, and the rows of a table in the order they were written. The    *)
(* recursion is over the length, so that what is kept can be proved about.    *)
(***************************************************************************)
EXTENDS Integers, Sequences

\* The entries of the list at these indices, in their order.
Kept(list, indices) ==
  LET kept[n \in 0..Len(list)] ==
        IF n = 0 THEN <<>>
        ELSE IF n \in indices THEN Append(kept[n - 1], list[n]) ELSE kept[n - 1]
  IN  kept[Len(list)]

=============================================================================
