--------------------------- MODULE MCReviewOutbox ---------------------------
(***************************************************************************)
(* ReviewOutbox on small sets.  The tabs, the items and the answers are    *)
(* each alike, as far as an instance gives none of them a part of its own. *)
(* The symmetry is for runs of safety properties only.                     *)
(***************************************************************************)
EXTENDS ReviewOutbox, TLC

Symmetry == Permutations(Tab) \cup Permutations(Item) \cup Permutations(Answer)
=============================================================================
