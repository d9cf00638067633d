--------------------------- MODULE MCAuthSessions ---------------------------
(***************************************************************************)
(* AuthSessions on small sets.  The requests, the links and the tokens are *)
(* each alike: NoToken is not among the tokens that are exchanged.         *)
(***************************************************************************)
EXTENDS AuthSessions, TLC

Symmetry == Permutations(Token) \cup Permutations(Request) \cup Permutations(Link)
=============================================================================
