--------------------------- MODULE DeviceSessions ---------------------------
(***************************************************************************)
(* What the account page of LexiGo promises about the devices of one user  *)
(* (docs/access-token-revocation.md, docs/architecture.md): a device is    *)
(* one session; a session that has ended stays ended; and a change of the  *)
(* credentials ends, at the moment it takes effect, every session but the  *)
(* one that made it.                                                       *)
(***************************************************************************)
EXTENDS Naturals

CONSTANT Session

VARIABLES
  phase,     \* "none", "open" or "ended"
  changes    \* the number of credential changes so far

deviceVars == <<phase, changes>>

Init ==
  /\ phase = [s \in Session |-> "none"]
  /\ changes = 0

Open(s) ==
  /\ phase[s] = "none"
  /\ phase' = [phase EXCEPT ![s] = "open"]
  /\ UNCHANGED changes

\* Logout, expiry or an invalid refresh.
End(s) ==
  /\ phase[s] = "open"
  /\ phase' = [phase EXCEPT ![s] = "ended"]
  /\ UNCHANGED changes

EndAllBut(kept) ==
  phase' = [s \in Session |-> IF phase[s] = "open" /\ s \notin kept THEN "ended" ELSE phase[s]]

\* A change made by a session that is open, or by a link sent by mail.
Change(kept) ==
  /\ \A s \in kept : phase[s] = "open"
  /\ EndAllBut(kept)
  /\ changes' = changes + 1

Next ==
  \/ \E s \in Session : Open(s) \/ End(s) \/ Change({s})
  \/ Change({})

Spec == Init /\ [][Next]_deviceVars
=============================================================================
