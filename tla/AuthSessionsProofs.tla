------------------------- MODULE AuthSessionsProofs -------------------------
(***************************************************************************)
(* Theorems of AuthSessions, for every number of tokens, links, requests   *)
(* and credential changes.                                                 *)
(***************************************************************************)
EXTENDS AuthSessions, TLAPS

USE AuthAssumption

\* Session f has a row that carries version v or a later one.
Backed(f, v) == \E t \in Rows(f) : epoch[t] >= v

\* The first token of a session stays in the table.
FamilyKnown == \A t \in issued : family[t] \in issued

EpochsBounded == \A t \in issued : epoch[t] <= authVersion

TokensInv == OneLiveToken /\ LiveTokensAreCurrent /\ FamilyKnown /\ EpochsBounded

\* What a request knows stays true while it holds its locks.
RequestInv(o) ==
  /\ o.at \in {"rotate", "close"} => o.read = authVersion
  /\ o.at = "answer" => Backed(family[o.token], o.read)
  /\ o.at = "logout" /\ o.live => o.token \in Live \cap o.rows
  /\ o.at \in {"close", "logout"} => \A t \in o.rows : family[t] = family[o.token]

AccessInv == \A a \in access : Backed(a.family, a.version)

Inv ==
  /\ TypeOK
  /\ TokensInv
  /\ \A r \in Request : RequestInv(op[r])
  /\ AccessInv

-----------------------------------------------------------------------------
(* Types.                                                                   *)

\* A request that moves to state o leaves the others in theirs.
LEMMA OpUpdateType ==
  ASSUME TypeOK, NEW q \in Request, NEW o \in Op,
         op' = [op EXCEPT ![q] = o],
         issued \subseteq issued', Fits(o)'
  PROVE  /\ op' \in [Request -> Op]
         /\ \A r \in Request : Fits(op[r])'
<1>1. op' \in [Request -> Op] /\ op'[q] = o
  BY DEF TypeOK
<1>2. ASSUME NEW r \in Request \ {q}
      PROVE  Fits(op[r])'
  <2>1. op'[r] = op[r] /\ Fits(op[r])
    BY DEF TypeOK
  <2> QED BY <2>1 DEF Fits
<1> QED BY <1>1, <1>2 DEF Fits

\* A request that ended.
LEMMA IdleType == Idle \in Op /\ Idle.at = "idle" /\ Idle.rows = {}
  BY DEF Idle, Op, At

Answering(t, v) == [Idle EXCEPT !.at = "answer", !.token = t, !.read = v]

\* A request with an answer to deliver.
LEMMA AnswerType ==
  ASSUME NEW t \in Token, NEW v \in Nat
  PROVE  /\ Answering(t, v) \in Op
         /\ Answering(t, v).at = "answer"
         /\ Answering(t, v).token = t
         /\ Answering(t, v).read = v
         /\ Answering(t, v).rows = {}
  BY DEF Idle, Op, At, Answering

\* Every action keeps the types.
LEMMA TypeStep ==
  ASSUME TypeOK, [Next]_vars
  PROVE  TypeOK'
<1> USE DEF tokenVars, userVars, linkVars
<1>1. ASSUME NEW r \in Request, Finish(r),
             UNCHANGED <<userVars, linkVars, access, family, epoch>>,
             issued' = issued, revoked' \in SUBSET issued, replaced' \in SUBSET revoked',
             stale' \in SUBSET replaced', expired' \in SUBSET issued
      PROVE  TypeOK'
  <2>1. Fits(Idle)'
    BY IdleType DEF Fits
  <2>2. /\ op' \in [Request -> Op]
        /\ \A q \in Request : Fits(op[q])'
    BY <1>1, <2>1, IdleType, OpUpdateType DEF Finish
  <2> QED BY <1>1, <2>2 DEF TypeOK
<1>2. ASSUME NEW r \in Request, NEW o \in Op, op' = [op EXCEPT ![r] = o],
             Fits(o),
             UNCHANGED <<userVars, tokenVars, linkVars, access>>
      PROVE  TypeOK'
  <2>1. /\ op' \in [Request -> Op]
        /\ \A q \in Request : Fits(op[q])'
    BY <1>2, OpUpdateType DEF Fits
  <2> QED BY <1>2, <2>1 DEF TypeOK
<1>3. ASSUME NEW r \in Request, NEW n \in Token, NEW f \in Token, NEW v \in Nat,
             Issue(n, f, v), Answer(r, n, v),
             UNCHANGED <<userVars, linkVars, access, stale, expired>>,
             revoked' \in SUBSET issued, replaced' \in SUBSET revoked', replaced \subseteq replaced'
      PROVE  TypeOK'
  <2>1. n \in issued' /\ issued \subseteq issued' /\ issued' \subseteq Token
    BY <1>3 DEF Issue, TypeOK
  <2>2. /\ op' \in [Request -> Op]
        /\ \A q \in Request : Fits(op[q])'
    <3>1. Fits(Answering(n, v))'
      BY <2>1, AnswerType DEF Fits
    <3> QED BY <1>3, <2>1, <3>1, AnswerType, OpUpdateType DEF Answer, Answering
  <2> QED BY <1>3, <2>1, <2>2 DEF Issue, TypeOK
<1>4. ASSUME NEW r \in Request, Step(r)
      PROVE  TypeOK'
  <2>1. CASE Login(r)
    <3>1. [Idle EXCEPT !.at = "store", !.read = authVersion] \in Op
      BY DEF Idle, Op, At, TypeOK
    <3> QED BY <1>2, <2>1, <3>1 DEF Login, Idle, Fits
  <2>2. CASE Store(r)
    BY <1>1, <1>3, <2>2 DEF Store, TypeOK
  <2>3. CASE Rotate(r)
    <3>1. op[r].token \in issued /\ op[r] \in Op
      BY <2>3 DEF Rotate, TypeOK, Fits
    <3>2. CASE BeginClose(r) /\ UNCHANGED <<userVars, tokenVars, linkVars, access>>
      <4>1. [op[r] EXCEPT !.at = "close", !.rows = Rows(family[op[r].token])] \in Op
        BY <3>1 DEF Op, At, Rows, TypeOK
      <4>3. Fits([op[r] EXCEPT !.at = "close", !.rows = Rows(family[op[r].token])])
        BY <3>1 DEF Fits, Rows, Op
      <4>2. op' = [op EXCEPT ![r] = [op[r] EXCEPT !.at = "close", !.rows = Rows(family[op[r].token])]]
        BY <3>2 DEF BeginClose, TypeOK
      <4> QED BY <1>2, <3>2, <4>1, <4>2, <4>3
    <3>3. CASE /\ Finish(r)
               /\ UNCHANGED <<userVars, linkVars, access, issued, family, epoch, replaced, stale, expired>>
               /\ revoked' \in {revoked, revoked \cup {op[r].token}}
      BY <1>1, <3>1, <3>3 DEF TypeOK
    <3>4. CASE /\ UNCHANGED <<userVars, linkVars, access, stale, expired>>
               /\ revoked' = revoked \cup {op[r].token}
               /\ replaced' = replaced \cup {op[r].token}
               /\ \E n \in Token : Issue(n, family[op[r].token], op[r].read) /\ Answer(r, n, op[r].read)
      <4>1. PICK n \in Token : Issue(n, family[op[r].token], op[r].read) /\ Answer(r, n, op[r].read)
        BY <3>4
      <4>2. family[op[r].token] \in Token /\ op[r].read \in Nat
        BY <3>1 DEF TypeOK, Op
      <4> QED BY <1>3, <3>1, <3>4, <4>1, <4>2 DEF TypeOK
    <3> QED BY <2>3, <3>2, <3>3, <3>4 DEF Rotate
  <2>4. CASE Close(r)
    <3>1. op[r].token \in issued /\ op[r].rows \subseteq issued
      BY <2>4 DEF Close, TypeOK, Fits
    <3> QED BY <1>1, <2>4, <3>1 DEF Close, TypeOK
  <2>5. CASE Deliver(r)
    <3>1. op[r].token \in issued /\ op[r].read \in Nat
      BY <2>5 DEF Deliver, TypeOK, Fits, Op
    <3>2. Fits(Idle)'
      BY IdleType DEF Fits
    <3>3. /\ op' \in [Request -> Op]
          /\ \A q \in Request : Fits(op[q])'
      BY <2>5, <3>2, IdleType, OpUpdateType DEF Deliver, Finish
    <3>4. [family |-> family[op[r].token], version |-> op[r].read] \in Access
      BY <3>1 DEF Access, TypeOK
    <3> QED BY <2>5, <3>3, <3>4 DEF Deliver, TypeOK
  <2>6. CASE EndLogout(r)
    <3>1. op[r].rows \subseteq issued
      BY DEF TypeOK, Fits
    <3> QED BY <1>1, <2>6, <3>1 DEF EndLogout, TypeOK
  <2>7. CASE ChangeCredentials(r)
    <3>1. op[r].token \in issued
      BY <2>7 DEF ChangeCredentials, TypeOK, Fits
    <3>2. CASE Finish(r) /\ UNCHANGED <<userVars, tokenVars, linkVars, access>>
      BY <1>1, <3>2 DEF TypeOK
    <3>3. CASE ~ (Finish(r) /\ UNCHANGED <<userVars, tokenVars, linkVars, access>>)
      <4>1. /\ authVersion' = authVersion + 1
            /\ epoch' = [u \in Token |-> IF u \in Rows(family[op[r].token]) THEN authVersion' ELSE epoch[u]]
            /\ revoked' = revoked \cup (Live \ Rows(family[op[r].token]))
            /\ NewPassword \/ UNCHANGED <<password, linkVars>>
            /\ Answer(r, op[r].token, authVersion')
            /\ UNCHANGED <<access, issued, family, replaced, stale, expired>>
        BY <2>7, <3>3 DEF ChangeCredentials
      <4>2. authVersion' \in Nat \ {0} /\ epoch' \in [Token -> Nat]
        BY <4>1 DEF TypeOK
      <4>3. PICK t \in issued, v \in Nat : t = op[r].token /\ v = authVersion'
        BY <3>1, <4>2
      <4>4. Answering(t, v) \in Op /\ Fits(Answering(t, v))'
        BY <4>1, <4>3, AnswerType DEF Fits, TypeOK
      <4>5. /\ op' \in [Request -> Op]
            /\ \A q \in Request : Fits(op[q])'
        <5>1. op' = [op EXCEPT ![r] = Answering(t, v)]
          BY <4>1, <4>3 DEF Answer, Answering
        <5> QED BY <4>1, <4>4, <5>1, OpUpdateType
      <4>6. password' \in Nat /\ sent' = sent /\ unused' \in SUBSET sent
        BY <4>1 DEF NewPassword, TypeOK
      <4>7. revoked' \in SUBSET issued
        BY <4>1 DEF Live, TypeOK
      <4> QED BY <4>1, <4>2, <4>5, <4>6, <4>7 DEF TypeOK
    <3> QED BY <3>2, <3>3
  <2>8. CASE RequestPasswordReset(r)
    <3>1. [Idle EXCEPT !.at = "replace", !.links = unused] \in Op
      BY DEF Idle, Op, At, TypeOK
    <3> QED BY <1>2, <2>8, <3>1 DEF RequestPasswordReset, Idle, Fits
  <2>9. CASE ReplacePasswordReset(r)
    <3>1. Fits(Idle)'
      BY IdleType DEF Fits
    <3>2. /\ op' \in [Request -> Op]
          /\ \A q \in Request : Fits(op[q])'
      BY <2>9, <3>1, IdleType, OpUpdateType DEF ReplacePasswordReset, Finish
    <3> QED BY <2>9, <3>2 DEF ReplacePasswordReset, TypeOK
  <2>10. CASE Abort(r)
    BY <1>1, <2>10 DEF Abort, TypeOK
  <2>11. CASE \E t \in Token : Refresh(r, t) \/ Logout(r, t) \/ Authorize(r, t)
    <3>1. PICK t \in Token : Refresh(r, t) \/ Logout(r, t) \/ Authorize(r, t)
      BY <2>11
    <3>2. CASE Refresh(r, t)
      <4>1. [Idle EXCEPT !.at = "rotate", !.token = t, !.read = authVersion] \in Op
        BY DEF Idle, Op, At, TypeOK
      <4> QED BY <1>2, <3>2, <4>1 DEF Refresh, Idle, Fits
    <3>3. CASE Logout(r, t)
      <4>1. Rows(family[t]) \subseteq issued /\ issued \subseteq Token /\ (t \in Live) \in BOOLEAN
        BY DEF Rows, TypeOK
      <4> DEFINE o == [Idle EXCEPT !.at = "logout", !.token = t, !.rows = Rows(family[t]), !.live = t \in Live]
      <4>2. o \in Op
        BY <4>1 DEF Idle, Op, At
      <4>3. Fits(o)
        BY <3>3, <4>1 DEF Logout, Idle, Fits
      <4> QED BY <1>2, <3>3, <4>2, <4>3 DEF Logout
    <3>4. CASE Authorize(r, t)
      <4>1. [Idle EXCEPT !.at = "authorized", !.token = t] \in Op
        BY DEF Idle, Op, At
      <4> QED BY <1>2, <3>4, <4>1 DEF Authorize, Idle, Fits
    <3> QED BY <3>1, <3>2, <3>3, <3>4
  <2>12. CASE \E kind \in {"password", "others"} : Reauthenticate(r, kind)
    <3>1. PICK kind \in {"password", "others"} : Reauthenticate(r, kind)
      BY <2>12
    <3> DEFINE o == [op[r] EXCEPT !.at = kind, !.read = password]
    <3>2. op[r] \in Op /\ Fits(op[r]) /\ op[r].at = "authorized"
      BY <3>1 DEF TypeOK, Reauthenticate
    <3>3. o \in Op /\ Fits(o)
      BY <3>2 DEF Op, At, Fits, TypeOK
    <3>4. op' = [op EXCEPT ![r] = o]
      BY <3>1 DEF Reauthenticate, TypeOK
    <3>5. UNCHANGED <<userVars, tokenVars, linkVars, access>>
      BY <3>1 DEF Reauthenticate
    <3> HIDE DEF o
    <3> QED BY <1>2, <3>3, <3>4, <3>5
  <2> QED BY <1>4, <2>1, <2>2, <2>3, <2>4, <2>5, <2>6, <2>7, <2>8, <2>9, <2>10, <2>11, <2>12 DEF Step
<1>5. ASSUME op' = op, UNCHANGED <<issued, family, access>>,
             authVersion' \in Nat \ {0}, password' \in Nat, epoch' = epoch,
             revoked' \in SUBSET issued, replaced' \in SUBSET revoked', stale' \in SUBSET replaced',
             expired' \in SUBSET issued, sent' = sent, unused' \in SUBSET sent
      PROVE  TypeOK'
  BY <1>5 DEF TypeOK, Fits
<1>6. CASE \E l \in Link : ConsumePasswordReset(l) \/ LinkExpires(l)
  BY <1>5, <1>6 DEF ConsumePasswordReset, LinkExpires, NewPassword, TypeOK
<1>7. CASE \E t \in Token : GraceEnds(t) \/ Expire(t)
  BY <1>5, <1>7 DEF GraceEnds, Expire, Live, TypeOK
<1>8. CASE ConsumeEmailChange
  BY <1>5, <1>8 DEF ConsumeEmailChange, TypeOK
<1>9. CASE UNCHANGED vars
  BY <1>5, <1>9 DEF vars, TypeOK
<1> QED BY <1>4, <1>6, <1>7, <1>8, <1>9 DEF Next

\* The tables, the requests and the access tokens are always of their types.
THEOREM TypeCorrect == Spec => []TypeOK
<1>1. Init => TypeOK
  BY IdleType DEF Init, TypeOK, Fits
<1> QED BY <1>1, TypeStep, PTL DEF Spec

-----------------------------------------------------------------------------
(* The invariant.                                                           *)

\* Rows are never removed nor moved to another session, and versions only grow.
TablesGrow ==
  /\ issued \subseteq issued'
  /\ \A t \in issued : family'[t] = family[t] /\ epoch'[t] >= epoch[t]

\* A session that has a row of version v keeps one.
LEMMA BackedStays ==
  ASSUME TypeOK, TypeOK', TablesGrow, NEW f, NEW v \in Nat, Backed(f, v)
  PROVE  Backed(f, v)'
<1>1. PICK t \in issued : family[t] = f /\ epoch[t] >= v
  BY DEF Backed, Rows
<1>2. t \in issued' /\ family'[t] = f /\ epoch'[t] >= v
  BY <1>1 DEF TablesGrow, TypeOK
<1> QED BY <1>2 DEF Backed, Rows

\* A request that does not move keeps what it knows.
LEMMA OthersKeep ==
  ASSUME Inv, TypeOK', TablesGrow, NEW q \in Request, op'[q] = op[q],
         op[q].at \in {"rotate", "close"} => authVersion' = authVersion,
         op[q].at = "logout" /\ op[q].live => op[q].token \in Live'
  PROVE  RequestInv(op[q])'
<1>1. PICK o \in Op : o = op[q]
  BY DEF Inv, TypeOK
<1>2. RequestInv(o) /\ Fits(o)
  BY <1>1 DEF Inv, TypeOK
<1>3. o.at = "answer" => Backed(family[o.token], o.read)'
  <2> SUFFICES ASSUME o.at = "answer"
               PROVE  Backed(family[o.token], o.read)'
    OBVIOUS
  <2>1. o.token \in issued /\ o.read \in Nat
    BY <1>2 DEF Fits, Op
  <2>2. PICK f : f = family[o.token]
    OBVIOUS
  <2>3. family'[o.token] = f
    BY <2>1, <2>2 DEF TablesGrow
  <2>4. Backed(f, o.read)'
    BY <1>2, <2>1, <2>2, BackedStays DEF Inv, RequestInv
  <2> QED BY <2>3, <2>4
<1>4. o.at \in {"close", "logout"} => \A t \in o.rows : family'[t] = family'[o.token]
  BY <1>2 DEF RequestInv, Fits, TablesGrow
<1>5. RequestInv(o)'
  BY <1>1, <1>2, <1>3, <1>4 DEF RequestInv
<1> QED BY <1>1, <1>5

\* What a step of one request has to show.
LEMMA StepKeepsInv ==
  ASSUME Inv, TypeOK', TablesGrow, TokensInv', NEW r \in Request, NEW o \in Op,
         op' = [op EXCEPT ![r] = o], RequestInv(o)', access' = access,
         \A q \in Request \ {r} :
           /\ op[q].at \in {"rotate", "close"} => authVersion' = authVersion
           /\ op[q].at = "logout" /\ op[q].live => op[q].token \in Live'
  PROVE  Inv'
<1>1. op'[r] = o /\ \A q \in Request \ {r} : op'[q] = op[q]
  BY DEF Inv, TypeOK
<1>2. \A q \in Request : RequestInv(op[q])'
  <2> TAKE q \in Request
  <2>1. CASE q = r
    BY <1>1, <2>1
  <2>2. CASE q # r
    BY <1>1, <2>2, OthersKeep
  <2> QED BY <2>1, <2>2
<1>3. AccessInv'
  BY BackedStays DEF Inv, AccessInv, TypeOK, Access
<1> QED BY <1>2, <1>3 DEF Inv

\* A step that changes no row of a session.
LEMMA OpStepKeepsInv ==
  ASSUME Inv, TypeOK', NEW r \in Request, NEW o \in Op, op' = [op EXCEPT ![r] = o],
         RequestInv(o), UNCHANGED <<authVersion, issued, family, epoch, revoked, access>>
  PROVE  Inv'
<1>1. TablesGrow
  BY DEF TablesGrow, Inv, TypeOK
<1>2. TokensInv' /\ RequestInv(o)'
  BY DEF Inv, TokensInv, OneLiveToken, LiveTokensAreCurrent, FamilyKnown, EpochsBounded,
         RequestInv, Backed, Rows, Live
<1>3. ASSUME NEW q \in Request, op[q].at = "logout", op[q].live
      PROVE  op[q].token \in Live'
  BY <1>3 DEF Inv, RequestInv, Live
<1> QED BY <1>1, <1>2, <1>3, StepKeepsInv

\* A step that only revokes tokens, none of them held by a logout.
LEMMA RevokeKeepsInv ==
  ASSUME Inv, TypeOK', NEW r \in Request, Finish(r),
         UNCHANGED <<authVersion, issued, family, epoch, access>>,
         NEW S, ~ Locked(S, r), revoked' = revoked \cup S
  PROVE  Inv'
<1>1. TablesGrow
  BY DEF TablesGrow, Inv, TypeOK
<1>2. TokensInv'
  BY DEF Inv, TokensInv, OneLiveToken, LiveTokensAreCurrent, FamilyKnown, EpochsBounded, Live
<1>3. RequestInv(Idle)'
  BY IdleType DEF RequestInv
<1>4. ASSUME NEW q \in Request \ {r}, op[q].at = "logout", op[q].live
      PROVE  op[q].token \in Live'
  BY <1>4 DEF Inv, RequestInv, Live, Locked, LockedBy
<1> QED BY <1>1, <1>2, <1>3, <1>4, IdleType, StepKeepsInv DEF Finish

\* A new token of session f replaces the live ones of f among S.
LEMMA IssueKeepsInv ==
  ASSUME Inv, TypeOK', NEW r \in Request, NEW n \in Token, NEW f \in Token,
         Issue(n, f, authVersion), Answer(r, n, authVersion),
         UNCHANGED <<authVersion, access>>,
         NEW S \in SUBSET issued, ~ Locked(S, r), revoked' = revoked \cup S,
         f \in issued \cup {n},
         \A t \in Live : family[t] = f => t \in S
  PROVE  Inv'
<1> USE DEF Inv
<1>1. n \notin issued /\ issued' = issued \cup {n} /\ family'[n] = f /\ epoch'[n] = authVersion
  BY DEF Issue, TypeOK
<1>2. \A t \in issued : family'[t] = family[t] /\ epoch'[t] = epoch[t]
  BY DEF Issue, TypeOK
<1>3. TablesGrow
  BY <1>1, <1>2 DEF TablesGrow, TypeOK
<1>4. Live' = (Live \ S) \cup {n}
  BY <1>1 DEF Live, TypeOK
<1>5. TokensInv'
  <2>1. OneLiveToken'
    BY <1>1, <1>2, <1>4 DEF TokensInv, OneLiveToken, Live
  <2>2. LiveTokensAreCurrent'
    BY <1>1, <1>2, <1>4 DEF TokensInv, LiveTokensAreCurrent, Live
  <2>3. FamilyKnown'
    BY <1>1, <1>2 DEF TokensInv, FamilyKnown
  <2>4. EpochsBounded'
    BY <1>1, <1>2 DEF TokensInv, EpochsBounded, TypeOK
  <2> QED BY <2>1, <2>2, <2>3, <2>4 DEF TokensInv
<1>6. authVersion \in Nat
  BY DEF TypeOK
<1>7. RequestInv(Answering(n, authVersion))'
  <2>1. PICK v \in Nat : v = authVersion
    BY <1>6
  <2>2. Backed(f, v)'
    BY <1>1, <2>1 DEF Backed, Rows
  <2>3. RequestInv(Answering(n, v))'
    BY <1>1, <2>2, AnswerType DEF RequestInv
  <2>4. Answering(n, v)' = Answering(n, authVersion)'
    BY <2>1
  <2> QED BY <2>1, <2>3
<1>8. ASSUME NEW q \in Request \ {r}, op[q].at = "logout", op[q].live
      PROVE  op[q].token \in Live'
  BY <1>4, <1>8 DEF RequestInv, Live, Locked, LockedBy
<1>9. op' = [op EXCEPT ![r] = Answering(n, authVersion)] /\ Answering(n, authVersion) \in Op
  BY <1>6, AnswerType DEF Answer, Answering
<1> QED BY <1>3, <1>5, <1>7, <1>8, <1>9, StepKeepsInv

\* A change of the credentials advances the rows of the sessions F and revokes
\* every live token of the others.
LEMMA ChangeKeepsTokens ==
  ASSUME Inv, TypeOK', NEW F,
         authVersion' = authVersion + 1,
         UNCHANGED <<issued, family>>,
         epoch' = [u \in Token |-> IF u \in issued /\ family[u] \in F THEN authVersion' ELSE epoch[u]],
         revoked \subseteq revoked',
         \A u \in Live : family[u] \notin F => u \in revoked'
  PROVE  TablesGrow /\ TokensInv'
<1> USE DEF Inv
<1>1. authVersion \in Nat /\ issued \subseteq Token
  BY DEF TypeOK
<1>2. \A u \in issued : epoch'[u] = IF family[u] \in F THEN authVersion + 1 ELSE epoch[u]
  BY <1>1
<1>3. \A u \in issued : epoch[u] \in Nat /\ epoch[u] <= authVersion
  BY DEF TypeOK, TokensInv, EpochsBounded
<1>4. TablesGrow
  BY <1>1, <1>2, <1>3 DEF TablesGrow
<1>5. OneLiveToken'
  BY DEF TokensInv, OneLiveToken, Live
<1>6. LiveTokensAreCurrent'
  BY <1>2 DEF LiveTokensAreCurrent, Live
<1>7. FamilyKnown' /\ EpochsBounded'
  BY <1>1, <1>2, <1>3 DEF TokensInv, FamilyKnown, EpochsBounded
<1> QED BY <1>4, <1>5, <1>6, <1>7 DEF TokensInv

\* A change made by a link keeps the invariant.
LEMMA LinkChangeKeepsInv ==
  ASSUME Inv, TypeOK', CanChange(Live), authVersion' = authVersion + 1, revoked' = issued,
         UNCHANGED <<op, access, issued, family, epoch>>
  PROVE  Inv'
<1>1. PICK F : F = {}
  OBVIOUS
<1>2. TablesGrow /\ TokensInv'
  <2>1. epoch' = [u \in Token |-> IF u \in issued /\ family[u] \in F THEN authVersion' ELSE epoch[u]]
    BY <1>1 DEF Inv, TypeOK
  <2>2. revoked \subseteq revoked' /\ \A u \in Live : family[u] \notin F => u \in revoked'
    BY DEF Inv, TypeOK, Live
  <2> QED BY <2>1, <2>2, ChangeKeepsTokens
<1>3. ASSUME NEW q \in Request
      PROVE  RequestInv(op[q])'
  <2>1. op[q].at \notin {"rotate", "close"}
    BY DEF CanChange, Shared
  <2>2. ~ (op[q].at = "logout" /\ op[q].live)
    BY DEF CanChange, LockedBy, Inv, RequestInv
  <2> QED BY <1>2, <2>1, <2>2, OthersKeep
<1>4. AccessInv'
  BY <1>2, BackedStays DEF Inv, AccessInv, TypeOK, Access
<1> QED BY <1>2, <1>3, <1>4 DEF Inv

\* The refusals and the success of a change made by a session.
LEMMA SessionChangeKeepsInv ==
  ASSUME Inv, TypeOK', NEW r \in Request, ChangeCredentials(r)
  PROVE  Inv'
<1>1. CASE Finish(r) /\ UNCHANGED <<userVars, tokenVars, linkVars, access>>
  <2>1. RequestInv(Idle)
    BY IdleType DEF RequestInv
  <2> QED BY <1>1, <2>1, IdleType, OpStepKeepsInv DEF Finish, userVars, tokenVars
<1>2. CASE ~ (Finish(r) /\ UNCHANGED <<userVars, tokenVars, linkVars, access>>)
  <2>1. PICK t \in issued, f \in Token : t = op[r].token /\ f = family[t]
    BY DEF ChangeCredentials, Inv, TypeOK, Fits
  <2>2. /\ CanChange(Live \cup Rows(f))
        /\ authVersion' = authVersion + 1
        /\ epoch' = [u \in Token |-> IF u \in Rows(f) THEN authVersion' ELSE epoch[u]]
        /\ revoked' = revoked \cup (Live \ Rows(f))
        /\ Answer(r, t, authVersion')
        /\ UNCHANGED <<access, issued, family>>
    BY <1>2, <2>1 DEF ChangeCredentials
  <2>3. /\ epoch' = [u \in Token |-> IF u \in issued /\ family[u] \in {f} THEN authVersion' ELSE epoch[u]]
        /\ \A u \in Live : family[u] \notin {f} => u \in revoked'
    BY <2>2 DEF Rows, Live
  <2>4. revoked \subseteq revoked'
    BY <2>2
  <2>5. TablesGrow /\ TokensInv'
    BY <2>2, <2>3, <2>4, ChangeKeepsTokens
  <2>6. PICK v \in Nat : v = authVersion'
    BY DEF TypeOK
  <2>7. Answering(t, v) \in Op /\ op' = [op EXCEPT ![r] = Answering(t, v)]
    BY <2>2, <2>6, AnswerType DEF Inv, TypeOK, Answer, Answering
  <2>8. RequestInv(Answering(t, v))'
    <3>1. t \in issued' /\ family'[t] = f /\ epoch'[t] = v
      BY <2>1, <2>2, <2>6 DEF Rows, Inv, TypeOK
    <3>2. Backed(f, v)'
      BY <3>1 DEF Backed, Rows
    <3> QED BY <3>1, <3>2, AnswerType, <2>1 DEF RequestInv, Inv, TypeOK
  <2>9. ASSUME NEW q \in Request \ {r}
        PROVE  /\ op[q].at \notin {"rotate", "close"}
               /\ ~ (op[q].at = "logout" /\ op[q].live)
    BY <2>2 DEF CanChange, Shared, LockedBy, Inv, RequestInv
  <2> QED BY <2>2, <2>5, <2>7, <2>8, <2>9, StepKeepsInv
<1> QED BY <1>1, <1>2

\* Every action keeps the invariant.
LEMMA InvStep ==
  ASSUME Inv, [Next]_vars
  PROVE  Inv'
<1> USE DEF tokenVars, userVars, linkVars
<1>1. TypeOK'
  BY TypeStep DEF Inv
<1>2. ASSUME NEW r \in Request, Step(r)
      PROVE  Inv'
  <2>1. CASE Login(r)
    <3>1. [Idle EXCEPT !.at = "store", !.read = authVersion] \in Op
      BY DEF Idle, Op, At, Inv, TypeOK
    <3>2. RequestInv([Idle EXCEPT !.at = "store", !.read = authVersion])
      BY DEF RequestInv, Idle
    <3> QED BY <1>1, <2>1, <3>1, <3>2, OpStepKeepsInv DEF Login
  <2>2. ASSUME Finish(r), UNCHANGED <<authVersion, issued, family, epoch, revoked, access>>
        PROVE  Inv'
    <3>1. RequestInv(Idle)
      BY IdleType DEF RequestInv
    <3> QED BY <1>1, <2>2, <3>1, IdleType, OpStepKeepsInv DEF Finish
  <2>3. CASE Store(r)
    <3>1. CASE op[r].read = authVersion
      <4>1. PICK n \in Token : Issue(n, n, authVersion) /\ Answer(r, n, authVersion)
        BY <2>3, <3>1 DEF Store
      <4>2. ~ Locked({}, r) /\ \A t \in Live : family[t] # n
        BY <4>1 DEF Locked, LockedBy, Issue, Live, Inv, TokensInv, FamilyKnown
      <4>3. revoked' = revoked \cup {} /\ UNCHANGED <<authVersion, access>>
        BY <2>3, <3>1 DEF Store
      <4> QED BY <1>1, <4>1, <4>2, <4>3, IssueKeepsInv
    <3>2. CASE op[r].read # authVersion
      BY <2>2, <2>3, <3>2 DEF Store
    <3> QED BY <3>1, <3>2
  <2>4. CASE Rotate(r)
    <3>1. PICK t \in issued : t = op[r].token
      BY <2>4 DEF Rotate, Inv, TypeOK, Fits
    <3>2. op[r].read = authVersion /\ ~ Locked({t}, r) /\ op[r] \in Op
      BY <2>4, <3>1 DEF Rotate, Inv, RequestInv, TypeOK
    <3>3. CASE BeginClose(r) /\ UNCHANGED tokenVars
      <4> DEFINE o == [op[r] EXCEPT !.at = "close", !.rows = Rows(family[t])]
      <4>1. o \in Op
        BY <3>1, <3>2 DEF Op, At, Rows, Inv, TypeOK
      <4>2. op' = [op EXCEPT ![r] = o]
        BY <3>1, <3>3 DEF BeginClose, Inv, TypeOK
      <4>3. RequestInv(o)
        BY <3>1, <3>2 DEF RequestInv, Op, Rows
      <4>4. UNCHANGED <<authVersion, issued, family, epoch, revoked, access>>
        BY <2>4, <3>3 DEF Rotate
      <4> HIDE DEF o
      <4> QED BY <1>1, <4>1, <4>2, <4>3, <4>4, OpStepKeepsInv
    <3>4. CASE Finish(r) /\ UNCHANGED tokenVars
      BY <2>2, <2>4, <3>4 DEF Rotate
    <3>5. CASE Finish(r) /\ revoked' = revoked \cup {t} /\ UNCHANGED <<issued, family, epoch>>
      BY <1>1, <2>4, <3>2, <3>5, RevokeKeepsInv DEF Rotate
    <3>6. CASE /\ t \notin revoked
               /\ revoked' = revoked \cup {t}
               /\ \E n \in Token : Issue(n, family[t], op[r].read) /\ Answer(r, n, op[r].read)
      <4>1. PICK n \in Token : Issue(n, family[t], authVersion) /\ Answer(r, n, authVersion)
        BY <3>2, <3>6
      <4>2. \A u \in Live : family[u] = family[t] => u \in {t}
        BY <3>6 DEF Inv, TokensInv, OneLiveToken, Live
      <4>3. family[t] \in issued /\ family[t] \in Token
        BY DEF Inv, TokensInv, FamilyKnown, TypeOK
      <4>4. UNCHANGED <<authVersion, access>>
        BY <2>4 DEF Rotate
      <4> QED BY <1>1, <3>2, <3>6, <4>1, <4>2, <4>3, <4>4, IssueKeepsInv
    <3> QED BY <2>4, <3>1, <3>3, <3>4, <3>5, <3>6 DEF Rotate
  <2>5. CASE Close(r)
    BY <1>1, <2>5, RevokeKeepsInv DEF Close
  <2>6. CASE Deliver(r)
    <3> DEFINE a == [family |-> family[op[r].token], version |-> op[r].read]
    <3>1. RequestInv(Idle)
      BY IdleType DEF RequestInv
    <3>2. Backed(a.family, a.version) /\ access' = access \cup {a}
      BY <2>6 DEF Deliver, Inv, RequestInv
    <3>3. AccessInv'
      BY <2>6, <3>2 DEF Deliver, Inv, AccessInv, Backed, Rows
    <3>4. \A q \in Request : RequestInv(op'[q])
      BY <2>6, <3>1 DEF Deliver, Finish, Inv, TypeOK
    <3>5. (\A q \in Request : RequestInv(op[q]))'
      BY <2>6, <3>4 DEF Deliver, RequestInv, Backed, Rows, Live
    <3>6. TokensInv'
      BY <2>6 DEF Deliver, Inv, TokensInv, OneLiveToken, LiveTokensAreCurrent, FamilyKnown, EpochsBounded, Live
    <3> QED BY <1>1, <3>3, <3>5, <3>6 DEF Inv
  <2>7. CASE EndLogout(r)
    BY <1>1, <2>7, RevokeKeepsInv DEF EndLogout
  <2>8. CASE ChangeCredentials(r)
    BY <1>1, <2>8, SessionChangeKeepsInv
  <2>9. CASE RequestPasswordReset(r)
    <3>1. [Idle EXCEPT !.at = "replace", !.links = unused] \in Op
      BY DEF Idle, Op, At, Inv, TypeOK
    <3>2. RequestInv([Idle EXCEPT !.at = "replace", !.links = unused])
      BY DEF RequestInv, Idle
    <3> QED BY <1>1, <2>9, <3>1, <3>2, OpStepKeepsInv DEF RequestPasswordReset
  <2>10. CASE ReplacePasswordReset(r) \/ Abort(r)
    BY <2>2, <2>10 DEF ReplacePasswordReset, Abort
  <2>11. CASE \E t \in Token : Refresh(r, t) \/ Logout(r, t) \/ Authorize(r, t)
    <3>1. PICK t \in Token : Refresh(r, t) \/ Logout(r, t) \/ Authorize(r, t)
      BY <2>11
    <3>2. CASE Refresh(r, t)
      <4>1. [Idle EXCEPT !.at = "rotate", !.token = t, !.read = authVersion] \in Op
        BY DEF Idle, Op, At, Inv, TypeOK
      <4>2. RequestInv([Idle EXCEPT !.at = "rotate", !.token = t, !.read = authVersion])
        BY DEF RequestInv, Idle
      <4> QED BY <1>1, <3>2, <4>1, <4>2, OpStepKeepsInv DEF Refresh
    <3>3. CASE Logout(r, t)
      <4> DEFINE o == [Idle EXCEPT !.at = "logout", !.token = t, !.rows = Rows(family[t]), !.live = t \in Live]
      <4>1. Rows(family[t]) \subseteq Token /\ (t \in Live) \in BOOLEAN
        BY DEF Rows, Inv, TypeOK
      <4>2. o \in Op
        BY <4>1 DEF Idle, Op, At
      <4>3. RequestInv(o)
        BY <3>3 DEF Logout, RequestInv, Idle, Rows
      <4>4. /\ op' = [op EXCEPT ![r] = o]
            /\ UNCHANGED <<authVersion, issued, family, epoch, revoked, access>>
        BY <3>3 DEF Logout
      <4> HIDE DEF o
      <4> QED BY <1>1, <4>2, <4>3, <4>4, OpStepKeepsInv
    <3>4. CASE Authorize(r, t)
      <4>1. [Idle EXCEPT !.at = "authorized", !.token = t] \in Op
        BY DEF Idle, Op, At
      <4>2. RequestInv([Idle EXCEPT !.at = "authorized", !.token = t])
        BY DEF RequestInv, Idle
      <4> QED BY <1>1, <3>4, <4>1, <4>2, OpStepKeepsInv DEF Authorize
    <3> QED BY <3>1, <3>2, <3>3, <3>4
  <2>12. CASE \E kind \in {"password", "others"} : Reauthenticate(r, kind)
    <3>1. PICK kind \in {"password", "others"} : Reauthenticate(r, kind)
      BY <2>12
    <3> DEFINE o == [op[r] EXCEPT !.at = kind, !.read = password]
    <3>2. op[r] \in Op
      BY DEF Inv, TypeOK
    <3>3. o \in Op /\ RequestInv(o)
      BY <3>2 DEF Op, At, Inv, TypeOK, RequestInv
    <3>4. /\ op' = [op EXCEPT ![r] = o]
          /\ UNCHANGED <<authVersion, issued, family, epoch, revoked, access>>
      BY <3>1 DEF Reauthenticate, Inv, TypeOK
    <3> HIDE DEF o
    <3> QED BY <1>1, <3>3, <3>4, OpStepKeepsInv
  <2> QED BY <1>2, <2>1, <2>3, <2>4, <2>5, <2>6, <2>7, <2>8, <2>9, <2>10, <2>11, <2>12 DEF Step
<1>3. ASSUME UNCHANGED <<authVersion, issued, family, epoch, revoked, op, access>>
      PROVE  Inv'
  <2>1. TokensInv' /\ AccessInv'
    BY <1>3 DEF Inv, TokensInv, OneLiveToken, LiveTokensAreCurrent, FamilyKnown, EpochsBounded,
                AccessInv, Backed, Rows, Live
  <2>2. (\A q \in Request : RequestInv(op[q]))'
    BY <1>3 DEF Inv, RequestInv, Backed, Rows, Live
  <2> QED BY <1>1, <2>1, <2>2 DEF Inv
<1>4. CASE \E l \in Link : ConsumePasswordReset(l) \/ LinkExpires(l)
  <2>1. PICK l \in Link : ConsumePasswordReset(l) \/ LinkExpires(l)
    BY <1>4
  <2>2. CASE ConsumePasswordReset(l)
    <3>1. CanChange(Live)
      BY <2>2 DEF ConsumePasswordReset, CanChange, LockedBy, Live
    <3> QED BY <1>1, <2>2, <3>1, LinkChangeKeepsInv DEF ConsumePasswordReset
  <2>3. CASE LinkExpires(l)
    BY <1>3, <2>3 DEF LinkExpires
  <2> QED BY <2>1, <2>2, <2>3
<1>5. CASE \E t \in Token : GraceEnds(t) \/ Expire(t)
  BY <1>3, <1>5 DEF GraceEnds, Expire
<1>6. CASE ConsumeEmailChange
  BY <1>1, <1>6, LinkChangeKeepsInv DEF ConsumeEmailChange
<1>7. CASE UNCHANGED vars
  BY <1>3, <1>7 DEF vars
<1> QED BY <1>2, <1>4, <1>5, <1>6, <1>7 DEF Next

LEMMA InvInit ==
  ASSUME Init
  PROVE  Inv
<1>1. TypeOK
  BY IdleType DEF Init, TypeOK, Fits
<1>2. TokensInv /\ AccessInv
  BY DEF Init, TokensInv, OneLiveToken, LiveTokensAreCurrent, FamilyKnown, EpochsBounded, AccessInv, Live
<1>3. \A r \in Request : RequestInv(op[r])
  BY IdleType DEF Init, RequestInv
<1> QED BY <1>1, <1>2, <1>3 DEF Inv

\* The invariant holds in every reachable state.
THEOREM SessionsInvariant == Spec => []Inv
BY InvInit, InvStep, PTL DEF Spec

\* A session never has two live tokens, however its tabs refresh.
THEOREM OneTokenPerSession == Spec => []OneLiveToken
<1>1. Inv => OneLiveToken
  BY DEF Inv, TokensInv
<1> QED BY <1>1, SessionsInvariant, PTL

\* No live token carries a version other than the user's.
THEOREM NoTokenOutlivesAChange == Spec => []LiveTokensAreCurrent
<1>1. Inv => LiveTokensAreCurrent
  BY DEF Inv, TokensInv
<1> QED BY <1>1, SessionsInvariant, PTL

\* Access tokens that are accepted belong to sessions the last change kept.
THEOREM AcceptedAccessIsBacked == Spec => []AccessIsBacked
<1>1. ASSUME Inv
      PROVE  AccessIsBacked
  <2> SUFFICES ASSUME NEW a \in access, a.version = authVersion
               PROVE  \E t \in Rows(a.family) : epoch[t] = authVersion
    BY DEF AccessIsBacked
  <2>1. PICK t \in Rows(a.family) : epoch[t] >= authVersion
    BY <1>1 DEF Inv, AccessInv, Backed
  <2>2. t \in issued /\ epoch[t] <= authVersion /\ epoch[t] \in Nat /\ authVersion \in Nat
    BY <1>1 DEF Inv, TypeOK, TokensInv, EpochsBounded, Rows
  <2> QED BY <2>1, <2>2
<1> QED BY <1>1, SessionsInvariant, PTL

\* A logout leaves no live token of the session behind.
THEOREM LogoutsEndSessions == Spec => LogoutEndsSession
<1>1. ASSUME Inv, NEW r \in Request, EndLogout(r), op[r].live
      PROVE  \A t \in issued' : family'[t] = family[op[r].token] => t \in revoked'
  <2>1. op[r].token \in Live \cap op[r].rows
    BY <1>1 DEF Inv, RequestInv, EndLogout
  <2>2. \A t \in Live : family[t] = family[op[r].token] => t = op[r].token
    BY <1>1, <2>1 DEF Inv, TokensInv, OneLiveToken
  <2> QED BY <1>1, <2>1, <2>2 DEF EndLogout, Live
<1>2. Inv /\ [Next]_vars =>
        [\A r \in Request : EndLogout(r) /\ op[r].live =>
           \A t \in issued' : family'[t] = family[op[r].token] => t \in revoked']_vars
  BY <1>1
<1> QED BY <1>2, SessionsInvariant, PTL DEF Spec, LogoutEndsSession

-----------------------------------------------------------------------------
(* The tables implement the sessions of DeviceSessions.                     *)

HasRows(s) == \E t \in issued : family[t] = s
HasLive(s) == \E t \in Live : family[t] = s

\* The phase of a session, read off its rows.
LEMMA PhaseMeaning ==
  ASSUME NEW s
  PROVE  /\ Phase(s) = "none" <=> ~ HasRows(s)
         /\ Phase(s) = "open" <=> HasLive(s)
         /\ Phase(s) = "ended" <=> HasRows(s) /\ ~ HasLive(s)
BY DEF Phase, HasRows, HasLive, Rows, Live

\* Sessions whose rows and live rows stay have the phase they had.
LEMMA PhaseStays ==
  ASSUME NEW s, HasRows(s) <=> HasRows(s)', HasLive(s) <=> HasLive(s)'
  PROVE  Phase(s)' = Phase(s)
BY DEF Phase, HasRows, HasLive, Rows, Live

LEMMA StutterSimulates ==
  ASSUME \A s \in Token : Phase(s)' = Phase(s), authVersion' = authVersion
  PROVE  UNCHANGED Devices!deviceVars
BY DEF Devices!deviceVars

\* Revoking tokens of one session ends it or leaves it open.
LEMMA RevokeSimulates ==
  ASSUME NEW S, NEW f \in Token, revoked' = revoked \cup S, \A t \in S : family[t] = f,
         UNCHANGED <<authVersion, issued, family>>
  PROVE  [Devices!Next]_(Devices!deviceVars)
<1>1. ASSUME NEW s \in Token, s # f
      PROVE  Phase(s)' = Phase(s)
  <2>1. HasRows(s) <=> HasRows(s)'
    BY DEF HasRows
  <2>2. HasLive(s) <=> HasLive(s)'
    BY <1>1 DEF HasLive, Live
  <2> QED BY <2>1, <2>2, PhaseStays
<1>2. HasRows(f) <=> HasRows(f)'
  BY DEF HasRows
<1>3. CASE HasLive(f) <=> HasLive(f)'
  BY <1>1, <1>2, <1>3, PhaseStays, StutterSimulates
<1>4. CASE HasLive(f) /\ ~ HasLive(f)'
  <2>1. Phase(f) = "open" /\ Phase(f)' = "ended"
    BY <1>2, <1>4, PhaseMeaning DEF Phase, HasRows, HasLive, Rows, Live
  <2>2. [s \in Token |-> Phase(s)]' = [[s \in Token |-> Phase(s)] EXCEPT ![f] = "ended"]
    BY <1>1, <2>1
  <2>3. Devices!End(f)
    BY <2>1, <2>2 DEF Devices!End
  <2> QED BY <2>3 DEF Devices!Next
<1>5. ~ (HasLive(f)' /\ ~ HasLive(f))
  BY DEF HasLive, Live
<1> QED BY <1>3, <1>4, <1>5

\* A change that keeps at most the session of a live token is a Change.
LEMMA ChangeSimulates ==
  ASSUME TypeOK, NEW kept \in SUBSET Token, kept = {} \/ \E f \in Token : kept = {f},
         \A f \in kept : HasLive(f),
         authVersion' = authVersion + 1, UNCHANGED <<issued, family>>,
         Live' = {t \in Live : family[t] \in kept}
  PROVE  Devices!Next
<1>1. ASSUME NEW s \in Token
      PROVE  Phase(s)' = IF Phase(s) = "open" /\ s \notin kept THEN "ended" ELSE Phase(s)
  <2>1. HasRows(s) <=> HasRows(s)'
    BY DEF HasRows
  <2>2. CASE HasLive(s) /\ s \notin kept
    <3>1. ~ HasLive(s)' /\ HasRows(s)
      BY <2>2 DEF HasLive, HasRows, Live
    <3>2. Phase(s) = "open"
      BY <2>2, PhaseMeaning
    <3>3. Phase(s)' = "ended"
      BY <2>1, <3>1 DEF Phase, HasRows, HasLive, Rows, Live
    <3> QED BY <2>2, <3>2, <3>3
  <2>3. CASE ~ (HasLive(s) /\ s \notin kept)
    <3>1. HasLive(s) <=> HasLive(s)'
      BY <2>3 DEF HasLive
    <3>2. ~ (Phase(s) = "open" /\ s \notin kept)
      BY <2>3, PhaseMeaning
    <3> QED BY <2>1, <3>1, <3>2, PhaseStays
  <2> QED BY <2>2, <2>3
<1>2. \A s \in kept : Phase(s) = "open"
  BY PhaseMeaning
<1>3. (authVersion - 1)' = (authVersion - 1) + 1
  BY DEF TypeOK
<1>4. Devices!Change(kept)
  BY <1>1, <1>2, <1>3 DEF Devices!Change, Devices!EndAllBut
<1> QED BY <1>4 DEF Devices!Next

\* A new session opens.
LEMMA OpenSimulates ==
  ASSUME TypeOK, FamilyKnown, NEW n \in Token, NEW v, Issue(n, n, v),
         UNCHANGED <<authVersion, revoked>>
  PROVE  Devices!Next
<1>1. /\ n \notin issued /\ n \notin revoked /\ issued' = issued \cup {n} /\ family'[n] = n
      /\ \A t \in issued : family'[t] = family[t]
  BY DEF Issue, TypeOK
<1>2. ASSUME NEW s \in Token, s # n
      PROVE  Phase(s)' = Phase(s)
  <2>1. HasRows(s) <=> HasRows(s)'
    BY <1>1, <1>2 DEF HasRows
  <2>2. HasLive(s) <=> HasLive(s)'
    BY <1>1, <1>2 DEF HasLive, Live
  <2> QED BY <2>1, <2>2, PhaseStays
<1>3. Phase(n) = "none"
  BY <1>1, PhaseMeaning DEF HasRows, FamilyKnown
<1>4. Phase(n)' = "open"
  BY <1>1 DEF Phase, Rows
<1>5. [s \in Token |-> Phase(s)]' = [[s \in Token |-> Phase(s)] EXCEPT ![n] = "open"]
  BY <1>2, <1>4
<1>6. Devices!Open(n)
  BY <1>3, <1>5 DEF Devices!Open
<1> QED BY <1>6 DEF Devices!Next

\* A rotated session stays open.
LEMMA RotateSimulates ==
  ASSUME TypeOK, NEW t \in Live, NEW n \in Token, NEW v, Issue(n, family[t], v),
         revoked' = revoked \cup {t}, authVersion' = authVersion
  PROVE  UNCHANGED Devices!deviceVars
<1>1. /\ n \notin issued /\ n \notin revoked /\ issued' = issued \cup {n} /\ family'[n] = family[t]
      /\ \A u \in issued : family'[u] = family[u]
  BY DEF Issue, TypeOK
<1>2. ASSUME NEW s \in Token
      PROVE  Phase(s)' = Phase(s)
  <2>1. HasRows(s) <=> HasRows(s)'
    BY <1>1 DEF HasRows, Live
  <2>2. HasLive(s) <=> HasLive(s)'
    <3>1. n \in Live' /\ t \in issued /\ t # n
      BY <1>1 DEF Live
    <3>2. CASE s = family[t]
      BY <1>1, <3>1, <3>2 DEF HasLive
    <3>3. CASE s # family[t]
      BY <1>1, <3>1, <3>3 DEF HasLive, Live
    <3> QED BY <3>2, <3>3
  <2> QED BY <2>1, <2>2, PhaseStays
<1> QED BY <1>2, StutterSimulates

\* Every step is a step of the devices or leaves them alone.
LEMMA StepSimulates ==
  ASSUME Inv, [Next]_vars
  PROVE  [Devices!Next]_(Devices!deviceVars)
<1> USE DEF tokenVars, userVars, linkVars
<1>1. ASSUME UNCHANGED <<authVersion, issued, family, revoked>>
      PROVE  [Devices!Next]_(Devices!deviceVars)
  <2>1. \A s \in Token : Phase(s)' = Phase(s)
    BY <1>1 DEF Phase, Rows
  <2> QED BY <1>1, <2>1, StutterSimulates
<1>2. ASSUME NEW r \in Request, Step(r)
      PROVE  [Devices!Next]_(Devices!deviceVars)
  <2>1. CASE Store(r)
    <3>1. CASE op[r].read = authVersion
      <4>1. PICK n \in Token : Issue(n, n, authVersion)
        BY <2>1, <3>1 DEF Store
      <4>2. UNCHANGED <<authVersion, revoked>>
        BY <2>1, <3>1 DEF Store
      <4> QED BY <4>1, <4>2, OpenSimulates DEF Inv, TokensInv
    <3>2. CASE op[r].read # authVersion
      BY <1>1, <2>1, <3>2 DEF Store
    <3> QED BY <3>1, <3>2
  <2>2. CASE Rotate(r)
    <3>1. PICK t \in issued, f \in Token : t = op[r].token /\ f = family[t]
      BY <2>2 DEF Rotate, Inv, TypeOK, Fits
    <3>2. authVersion' = authVersion
      BY <2>2 DEF Rotate
    <3>3. CASE UNCHANGED tokenVars
      BY <1>1, <3>2, <3>3
    <3>4. CASE revoked' = revoked \cup {t} /\ UNCHANGED <<issued, family>>
      <4>1. PICK S : S = {t}
        OBVIOUS
      <4>2. revoked' = revoked \cup S /\ \A u \in S : family[u] = f
        BY <3>1, <3>4, <4>1
      <4> QED BY <3>2, <3>4, <4>2, RevokeSimulates
    <3>5. CASE /\ t \notin revoked
               /\ revoked' = revoked \cup {t}
               /\ \E n \in Token : Issue(n, family[t], op[r].read)
      BY <3>2, <3>5, RotateSimulates DEF Live, Inv
    <3> QED BY <2>2, <3>1, <3>3, <3>4, <3>5 DEF Rotate
  <2>3. CASE Close(r) \/ EndLogout(r)
    <3>1. PICK t \in issued, f \in Token : t = op[r].token /\ f = family[t]
      BY <2>3 DEF Close, EndLogout, Inv, TypeOK, Fits
    <3>2. \A u \in op[r].rows : family[u] = f
      BY <2>3, <3>1 DEF Close, EndLogout, Inv, RequestInv
    <3>3. revoked' = revoked \cup op[r].rows /\ UNCHANGED <<authVersion, issued, family>>
      BY <2>3 DEF Close, EndLogout
    <3> QED BY <3>2, <3>3, RevokeSimulates
  <2>4. CASE ChangeCredentials(r)
    <3>1. CASE UNCHANGED <<userVars, tokenVars>>
      BY <1>1, <3>1
    <3>2. CASE ~ UNCHANGED <<userVars, tokenVars>>
      <4>1. PICK t \in Live, f \in Token : t = op[r].token /\ f = family[t]
        BY <2>4, <3>2 DEF ChangeCredentials, Inv, TypeOK, Live
      <4>2. /\ authVersion' = authVersion + 1 /\ UNCHANGED <<issued, family>>
            /\ revoked' = revoked \cup (Live \ Rows(f))
        BY <2>4, <3>2, <4>1 DEF ChangeCredentials
      <4>3. PICK kept \in SUBSET Token : kept = {f}
        OBVIOUS
      <4>4. Live' = {u \in Live : family[u] \in kept}
        BY <4>2, <4>3 DEF Live, Rows
      <4>5. \A g \in kept : HasLive(g)
        BY <4>1, <4>3 DEF HasLive
      <4> QED BY <4>2, <4>3, <4>4, <4>5, ChangeSimulates DEF Inv
    <3> QED BY <3>1, <3>2
  <2>5. CASE ~ (Store(r) \/ Rotate(r) \/ Close(r) \/ EndLogout(r) \/ ChangeCredentials(r))
    <3>1. UNCHANGED <<authVersion, issued, family, revoked>>
      BY <1>2, <2>5 DEF Step, Login, Deliver, RequestPasswordReset, ReplacePasswordReset, Abort,
                        Refresh, Logout, Authorize, Reauthenticate
    <3> QED BY <1>1, <3>1
  <2> QED BY <2>1, <2>2, <2>3, <2>4, <2>5
<1>3. ASSUME authVersion' = authVersion + 1, revoked' = issued, UNCHANGED <<issued, family>>
      PROVE  Devices!Next
  <2>1. PICK kept \in SUBSET Token : kept = {}
    OBVIOUS
  <2>2. Live' = {t \in Live : family[t] \in kept}
    BY <1>3, <2>1 DEF Live
  <2> QED BY <1>3, <2>1, <2>2, ChangeSimulates DEF Inv
<1>4. CASE \E l \in Link : ConsumePasswordReset(l) \/ LinkExpires(l)
  BY <1>1, <1>3, <1>4 DEF ConsumePasswordReset, LinkExpires
<1>5. CASE \E t \in Token : GraceEnds(t) \/ Expire(t)
  BY <1>1, <1>5 DEF GraceEnds, Expire
<1>6. CASE ConsumeEmailChange
  BY <1>3, <1>6 DEF ConsumeEmailChange
<1>7. CASE UNCHANGED vars
  BY <1>1, <1>7 DEF vars
<1> QED BY <1>2, <1>4, <1>5, <1>6, <1>7 DEF Next

\* The transactions over the token tables implement the sessions of the account
\* page: a session that ended stays ended, and a change ends all sessions but
\* the one it keeps in the same step.
THEOREM TablesImplementSessions == Spec => ImplementsDeviceSessions
<1>1. Init => Devices!Init
  <2> SUFFICES ASSUME Init
               PROVE  Devices!Init
    OBVIOUS
  <2>1. \A s \in Token : Phase(s) = "none"
    BY DEF Init, Phase, Rows
  <2> QED BY <2>1 DEF Init, Devices!Init
<1> QED BY <1>1, StepSimulates, SessionsInvariant, PTL DEF Spec, ImplementsDeviceSessions, Devices!Spec
=============================================================================
