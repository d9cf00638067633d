------------------------------- MODULE Totals -------------------------------
(***************************************************************************)
(* What a list or a table adds up to: the counts and the sums that the       *)
(* queries of the service and the pages of the client take.                   *)
(***************************************************************************)
EXTENDS Integers

\* The sum of what f gives to each element of its domain.
SumOf(f) ==
  LET sum[S \in SUBSET DOMAIN f] ==
        IF S = {} THEN 0
        ELSE LET x == CHOOSE x \in S : TRUE
             IN  f[x] + sum[S \ {x}]
  IN  sum[DOMAIN f]

=============================================================================
