---------------------------- MODULE AuthSessions ----------------------------
(***************************************************************************)
(* The refresh-token families of one user and the transactions over them   *)
(* (backend/internal/auth): login, refresh, logout, the changes of the     *)
(* credentials and the links that reset a forgotten password.              *)
(*                                                                         *)
(* PostgreSQL runs them read committed.  A transaction is split where      *)
(* another may commit between two of its statements: after a read without  *)
(* a lock, and at an UPDATE of a whole family, which changes the rows that *)
(* existed when the statement began but waits for the locks on them.  Row  *)
(* locks are held from the step that takes them to the one that ends the   *)
(* transaction and are read off the requests' states.                      *)
(*                                                                         *)
(* A family is named by its first token.  Every new password hash is       *)
(* different (bcrypt salts it), so a hash is the number of changes so far. *)
(***************************************************************************)
EXTENDS Integers, FiniteSets

CONSTANTS
  Token,        \* refresh tokens
  NoToken,
  Link,         \* password reset links
  Request,      \* requests being handled
  MaxVersion    \* bound: credential changes

ASSUME AuthAssumption ==
  /\ NoToken \notin Token
  /\ MaxVersion \in Nat

VARIABLES
  authVersion,  \* users.auth_version
  password,     \* users.password_hash
  issued,       \* rows of refresh_tokens
  family,       \* refresh_tokens.family_id
  epoch,        \* refresh_tokens.auth_version
  revoked,      \* revoked_at is set
  replaced,     \* replaced_by_hash is set
  stale,        \* rotated more than refreshRotationGrace ago
  expired,      \* expires_at has passed
  sent,         \* rows of password_reset_tokens
  unused,       \* used_at is not set, expires_at has not passed
  op,           \* per request, the transaction it is in
  access        \* access tokens that clients hold

tokenVars == <<issued, family, epoch, revoked, replaced, stale, expired>>
userVars  == <<authVersion, password>>
linkVars  == <<sent, unused>>
vars == <<authVersion, password, issued, family, epoch, revoked, replaced,
          stale, expired, sent, unused, op, access>>

\* "rotate" and "close" hold the user row FOR SHARE; "close" and "logout" hold
\* the presented token FOR UPDATE.
At == {"idle", "store", "rotate", "close", "answer", "logout", "authorized",
       "password", "others", "replace"}

\* read is the auth_version or password hash the request has read, rows the
\* tokens and links its pending UPDATE found; live is history: the token
\* presented at a logout was live.
Op == [at : At, token : Token \cup {NoToken}, read : Nat, rows : SUBSET Token,
       links : SUBSET Link, live : BOOLEAN]
Idle == [at |-> "idle", token |-> NoToken, read |-> 0, rows |-> {}, links |-> {}, live |-> FALSE]

Access == [family : Token, version : Nat]

\* What a request holds is in the tables.
Fits(o) ==
  /\ o.rows \subseteq issued
  /\ o.at \notin {"idle", "store", "replace"} => o.token \in issued

TypeOK ==
  /\ authVersion \in Nat \ {0}
  /\ password \in Nat
  /\ issued \in SUBSET Token
  /\ family \in [Token -> Token]
  /\ epoch \in [Token -> Nat]
  /\ revoked \in SUBSET issued
  /\ replaced \in SUBSET revoked
  /\ stale \in SUBSET replaced
  /\ expired \in SUBSET issued
  /\ sent \in SUBSET Link
  /\ unused \in SUBSET sent
  /\ op \in [Request -> Op]
  /\ \A r \in Request : Fits(op[r])
  /\ access \in SUBSET Access

Init ==
  /\ authVersion = 1
  /\ password = 0
  /\ issued = {}
  /\ family = [t \in Token |-> t]
  /\ epoch = [t \in Token |-> 0]
  /\ revoked = {}
  /\ replaced = {}
  /\ stale = {}
  /\ expired = {}
  /\ sent = {}
  /\ unused = {}
  /\ op = [r \in Request |-> Idle]
  /\ access = {}

Live == issued \ revoked
Rows(f) == {t \in issued : family[t] = f}

\* A request of R holds the row of a token of S.
LockedBy(R, S) == \E q \in R : op[q].at \in {"close", "logout"} /\ op[q].token \in S

Locked(S, r) == LockedBy(Request \ {r}, S)

\* Some request holds the user row FOR SHARE, so no UPDATE of it proceeds.
Shared == \E r \in Request : op[r].at \in {"rotate", "close"}

Finish(r) == op' = [op EXCEPT ![r] = Idle]

Answer(r, t, v) == op' = [op EXCEPT ![r] = [Idle EXCEPT !.at = "answer", !.token = t, !.read = v]]

Issue(n, f, v) ==
  /\ n \notin issued
  /\ issued' = issued \cup {n}
  /\ family' = [family EXCEPT ![n] = f]
  /\ epoch' = [epoch EXCEPT ![n] = v]

-----------------------------------------------------------------------------
(* Login: the user is read, the password verified, the session stored.  The *)
(* first session, of Register, is stored in the same way.                   *)

Login(r) ==
  /\ op[r].at = "idle"
  /\ op' = [op EXCEPT ![r] = [Idle EXCEPT !.at = "store", !.read = authVersion]]
  /\ UNCHANGED <<userVars, tokenVars, linkVars, access>>

\* Faulty variant: the version read before the password check is not compared.
StoreUnchecked(r) ==
  /\ op[r].at = "store"
  /\ \E n \in Token : Issue(n, n, op[r].read) /\ Answer(r, n, op[r].read)
  /\ UNCHANGED <<userVars, linkVars, access, revoked, replaced, stale, expired>>

\* Store, under a share lock of the user row.
Store(r) ==
  /\ op[r].at = "store"
  /\ \/ /\ op[r].read # authVersion
        /\ Finish(r)
        /\ UNCHANGED tokenVars
     \/ /\ op[r].read = authVersion
        /\ \E n \in Token : Issue(n, n, authVersion) /\ Answer(r, n, authVersion)
        /\ UNCHANGED <<revoked, replaced, stale, expired>>
  /\ UNCHANGED <<userVars, linkVars, access>>

-----------------------------------------------------------------------------
(* Refresh                                                                  *)

\* Rotate resolves the owner of the token and locks the user row for share.
Refresh(r, t) ==
  /\ op[r].at = "idle"
  /\ t \in issued
  /\ op' = [op EXCEPT ![r] = [Idle EXCEPT !.at = "rotate", !.token = t, !.read = authVersion]]
  /\ UNCHANGED <<userVars, tokenVars, linkVars, access>>

BeginClose(r) ==
  op' = [op EXCEPT ![r].at = "close", ![r].rows = Rows(family[op[r].token])]

Replay(t) == t \in revoked /\ (t \notin replaced \/ t \in stale)

\* Faulty variant: a token that was rotated already is rotated again.
RotateAgain(r) ==
  LET t == op[r].token IN
  /\ op[r].at = "rotate"
  /\ ~ Locked({t}, r)
  /\ t \notin expired
  /\ revoked' = revoked \cup {t}
  /\ replaced' = replaced \cup {t}
  /\ \E n \in Token : Issue(n, family[t], op[r].read) /\ Answer(r, n, op[r].read)
  /\ UNCHANGED <<userVars, linkVars, access, stale, expired>>

\* The token row is locked and the token judged: a family of another version
\* or a replayed token closes the family, a token rotated moments ago is a
\* conflict, an expired one is revoked, and a live one is rotated.
Rotate(r) ==
  LET t == op[r].token
      current == epoch[t] = op[r].read
  IN
  /\ op[r].at = "rotate"
  /\ ~ Locked({t}, r)
  /\ \/ /\ ~ current \/ Replay(t)
        /\ BeginClose(r)
        /\ UNCHANGED tokenVars
     \/ /\ current
        /\ t \in replaced \ stale
        /\ Finish(r)
        /\ UNCHANGED tokenVars
     \/ /\ current
        /\ t \in expired \ revoked
        /\ revoked' = revoked \cup {t}
        /\ Finish(r)
        /\ UNCHANGED <<issued, family, epoch, replaced, stale, expired>>
     \/ /\ current
        /\ t \notin expired \cup revoked
        /\ revoked' = revoked \cup {t}
        /\ replaced' = replaced \cup {t}
        /\ \E n \in Token : Issue(n, family[t], op[r].read) /\ Answer(r, n, op[r].read)
        /\ UNCHANGED <<stale, expired>>
  /\ UNCHANGED <<userVars, linkVars, access>>

\* The UPDATE of the family's rows gets their locks; the request is refused.
Close(r) ==
  /\ op[r].at = "close"
  /\ ~ Locked(op[r].rows, r)
  /\ revoked' = revoked \cup op[r].rows
  /\ Finish(r)
  /\ UNCHANGED <<userVars, linkVars, access, issued, family, epoch, replaced, stale, expired>>

\* Faulty variant: the access token is made from the user as read again after
\* the rotation has committed.
DeliverReread(r) ==
  /\ op[r].at = "answer"
  /\ access' = access \cup {[family |-> family[op[r].token], version |-> authVersion]}
  /\ Finish(r)
  /\ UNCHANGED <<userVars, tokenVars, linkVars>>

\* The answer of a login, a refresh or a credential change reaches its client:
\* the access token carries the version its transaction had locked.
Deliver(r) ==
  /\ op[r].at = "answer"
  /\ access' = access \cup {[family |-> family[op[r].token], version |-> op[r].read]}
  /\ Finish(r)
  /\ UNCHANGED <<userVars, tokenVars, linkVars>>

-----------------------------------------------------------------------------
(* Logout                                                                   *)

\* Revoke locks the token and finds the rows of its family.
Logout(r, t) ==
  /\ op[r].at = "idle"
  /\ t \in issued
  /\ ~ Locked({t}, r)
  /\ op' = [op EXCEPT ![r] = [Idle EXCEPT !.at = "logout", !.token = t,
                                !.rows = Rows(family[t]), !.live = t \in Live]]
  /\ UNCHANGED <<userVars, tokenVars, linkVars, access>>

EndLogout(r) ==
  /\ op[r].at = "logout"
  /\ ~ Locked(op[r].rows, r)
  /\ revoked' = revoked \cup op[r].rows
  /\ Finish(r)
  /\ UNCHANGED <<userVars, linkVars, access, issued, family, epoch, replaced, stale, expired>>

-----------------------------------------------------------------------------
(* Changes of the credentials.  Each transaction locks the user row first,  *)
(* so that no Store or Rotate is under way, and keeps it to its commit.     *)

\* ValidateAccess accepts an access token; the cookie holds t.
Authorize(r, t) ==
  /\ op[r].at = "idle"
  /\ t \in issued
  /\ \E a \in access : a.version = authVersion
  /\ op' = [op EXCEPT ![r] = [Idle EXCEPT !.at = "authorized", !.token = t]]
  /\ UNCHANGED <<userVars, tokenVars, linkVars, access>>

\* The current password is verified; kind is the change that follows.
Reauthenticate(r, kind) ==
  /\ op[r].at = "authorized"
  /\ kind \in {"password", "others"}
  /\ op' = [op EXCEPT ![r].at = kind, ![r].read = password]
  /\ UNCHANGED <<userVars, tokenVars, linkVars, access>>

\* Row locks of S and of the user row can be had; MaxVersion bounds the changes.
CanChange(S) == ~ Shared /\ ~ LockedBy(Request, S) /\ authVersion < MaxVersion

NewPassword ==
  /\ password' = password + 1
  /\ unused' = {}
  /\ UNCHANGED sent

\* Faulty variant: the other sessions are left open.
ChangeKeepingOthers(r) ==
  LET t == op[r].token IN
  /\ op[r].at \in {"password", "others"}
  /\ op[r].read = password
  /\ t \in Live \ expired
  /\ CanChange(Rows(family[t]))
  /\ authVersion' = authVersion + 1
  /\ epoch' = [u \in Token |-> IF u \in Rows(family[t]) THEN authVersion' ELSE epoch[u]]
  /\ Answer(r, t, authVersion')
  /\ UNCHANGED <<password, linkVars, access, issued, family, revoked, replaced, stale, expired>>

\* ChangePasswordAndRevokeOtherSessions and RevokeOtherSessions: refused when
\* the password has changed meanwhile or the presented token is not live.
ChangeCredentials(r) ==
  LET t == op[r].token
      f == family[t]
  IN
  /\ op[r].at \in {"password", "others"}
  /\ \/ /\ ~ Shared
        /\ op[r].read # password \/ (~ Locked({t}, r) /\ t \notin Live \ expired)
        /\ Finish(r)
        /\ UNCHANGED <<userVars, tokenVars, linkVars>>
     \/ /\ op[r].read = password
        /\ t \in Live \ expired
        /\ CanChange(Live \cup Rows(f))
        /\ authVersion' = authVersion + 1
        /\ epoch' = [u \in Token |-> IF u \in Rows(f) THEN authVersion' ELSE epoch[u]]
        /\ revoked' = revoked \cup (Live \ Rows(f))
        /\ IF op[r].at = "password" THEN NewPassword ELSE UNCHANGED <<password, linkVars>>
        /\ Answer(r, t, authVersion')
        /\ UNCHANGED <<issued, family, replaced, stale, expired>>
  /\ UNCHANGED access

\* A link is used: all links are used up and all sessions closed.
ConsumePasswordReset(l) ==
  /\ l \in unused
  /\ CanChange(issued)
  /\ authVersion' = authVersion + 1
  /\ NewPassword
  /\ revoked' = issued
  /\ UNCHANGED <<op, access, issued, family, epoch, replaced, stale, expired>>

\* account.ConsumeEmailChange, whose own tokens are left out: the address of
\* the account changes and all sessions are closed.
ConsumeEmailChange ==
  /\ CanChange(Live)
  /\ authVersion' = authVersion + 1
  /\ revoked' = issued
  /\ UNCHANGED <<password, linkVars, op, access, issued, family, epoch, replaced, stale, expired>>

-----------------------------------------------------------------------------
(* Password reset links                                                     *)

\* The UPDATE that uses up the earlier links finds those committed so far.
RequestPasswordReset(r) ==
  /\ op[r].at = "idle"
  /\ op' = [op EXCEPT ![r] = [Idle EXCEPT !.at = "replace", !.links = unused]]
  /\ UNCHANGED <<userVars, tokenVars, linkVars, access>>

\* It has their locks; the new link is inserted and sent.
ReplacePasswordReset(r) ==
  /\ op[r].at = "replace"
  /\ \E l \in Link \ sent :
       /\ sent' = sent \cup {l}
       /\ unused' = (unused \ op[r].links) \cup {l}
  /\ Finish(r)
  /\ UNCHANGED <<userVars, tokenVars, access>>

-----------------------------------------------------------------------------
(* Time, and requests that stop: a lost connection, a deadlock victim, an   *)
(* answer that never arrives.                                               *)

GraceEnds(t) ==
  /\ t \in replaced \ stale
  /\ stale' = stale \cup {t}
  /\ UNCHANGED <<userVars, linkVars, op, access, issued, family, epoch, revoked, replaced, expired>>

\* That a token which is revoked expires too changes nothing.
Expire(t) ==
  /\ t \in Live \ expired
  /\ expired' = expired \cup {t}
  /\ UNCHANGED <<userVars, linkVars, op, access, issued, family, epoch, revoked, replaced, stale>>

LinkExpires(l) ==
  /\ l \in unused
  /\ unused' = unused \ {l}
  /\ UNCHANGED <<userVars, tokenVars, op, access, sent>>

Abort(r) ==
  /\ op[r].at # "idle"
  /\ Finish(r)
  /\ UNCHANGED <<userVars, tokenVars, linkVars, access>>

Step(r) ==
  \/ Login(r) \/ Store(r) \/ Rotate(r) \/ Close(r) \/ Deliver(r) \/ EndLogout(r)
  \/ ChangeCredentials(r) \/ RequestPasswordReset(r) \/ ReplacePasswordReset(r) \/ Abort(r)
  \/ \E t \in Token : Refresh(r, t) \/ Logout(r, t) \/ Authorize(r, t)
  \/ \E kind \in {"password", "others"} : Reauthenticate(r, kind)

Next ==
  \/ \E r \in Request : Step(r)
  \/ \E l \in Link : ConsumePasswordReset(l) \/ LinkExpires(l)
  \/ \E t \in Token : GraceEnds(t) \/ Expire(t)
  \/ ConsumeEmailChange

Spec == Init /\ [][Next]_vars

-----------------------------------------------------------------------------
(* Properties                                                               *)

\* A session has at most one refresh token that is not revoked, whatever
\* refreshes race with the token their tabs share (Rotate).
OneLiveToken ==
  \A t, u \in Live : family[t] = family[u] => t = u

\* Every token that is not revoked carries the version of the user row: no
\* login or refresh that raced a change of the credentials has published a
\* token of the version before it (docs/access-token-revocation.md, "Refresh-
\* token race safety").
LiveTokensAreCurrent ==
  \A t \in Live : epoch[t] = authVersion

\* An access token that ValidateAccess would accept belongs to a session the
\* last change of the credentials created after it or preserved: a refresh
\* that raced the change is not answered with the version after it
\* (Service.Refresh).
AccessIsBacked ==
  \A a \in access : a.version = authVersion =>
    \E t \in Rows(a.family) : epoch[t] = authVersion

\* When a logout with a live token is answered no token of its session is
\* live, whatever refreshes ran meanwhile (Revoke).
LogoutEndsSession ==
  [][\A r \in Request : EndLogout(r) /\ op[r].live =>
       \A t \in issued' : family'[t] = family[op[r].token] => t \in revoked']_vars

Phase(s) ==
  IF Rows(s) = {} THEN "none" ELSE IF Rows(s) \subseteq revoked THEN "ended" ELSE "open"

Devices == INSTANCE DeviceSessions WITH
  Session <- Token, phase <- [s \in Token |-> Phase(s)], changes <- authVersion - 1

\* The tables implement the sessions of DeviceSessions: a session never opens
\* again, and a change ends all but the one it preserves in one step.
ImplementsDeviceSessions == Devices!Spec
=============================================================================
