------------------------- MODULE TabSessionsProofs -------------------------
(***************************************************************************)
(* Proofs about the session of the learner in the tabs of a browser: for any *)
(* number of tabs, of sign-ins and of tries, the server sees a refresh token  *)
(* used twice only when an answer was lost, and a tab presents the learner as *)
(* a guest only when the session is over.                                    *)
(***************************************************************************)
EXTENDS TabSessions, Integers, TLAPS

\* Sign-ins are counted, and there may be one.
Numbered == MaxLogins \in Nat \ {0}

Session == [family : Nat, number : Nat]

RefreshState ==
  [at : {"none", "lock", "sent", "answered", "read", "pause"}, patient : BOOLEAN, retries : Nat,
   sent : Session, answer : {"none", "conflict", "failed", "ok", "dead"}]

CallState == [at : {"none", "refresh", "resent"}, used : Session, got : Session]

Document ==
  [page : Session, path : {"home", "profile", "lesson"}, suppressed : BOOLEAN, leaving : BOOLEAN,
   recoverable : BOOLEAN, timer : BOOLEAN, awake : BOOLEAN,
   cache : [session : Session, marker : Session],
   awaiting : BOOLEAN, refresh : RefreshState, call : CallState, logout : BOOLEAN]

FamilyState == [is : {"unused", "live", "reused", "over"}, current : Nat, recent : SUBSET Nat]

TypeInv ==
  /\ server \in [Family -> FamilyState]
  /\ jar \in Session
  /\ tab \in [Tab -> Document]
  /\ losses \in Nat

\* A token the server once gave.
Given(k) ==
  /\ k.family \in Family
  /\ server[k.family].is # "unused"
  /\ k.number <= server[k.family].current

Sent(t) == tab[t].refresh.at = "sent"
Rotated(t) == tab[t].refresh.at = "answered" /\ tab[t].refresh.answer = "ok"

\* A family that has ended, or none at all.
Dead(k) == k = NoToken \/ (k.family \in Family /\ server[k.family].is \notin {"unused", "live"})

\* The refresh of tab t, at every point of its way.
Travels(t) ==
  LET r == tab[t].refresh
  IN  /\ r.at \in {"sent", "answered"} => Given(r.sent)
      /\ r.at = "read" /\ r.answer = "ok" => Given(r.sent)
      /\ r.at \in {"none", "lock", "sent", "pause"} => r.answer \notin {"ok", "dead"}
      /\ r.at \in {"answered", "read"} /\ r.answer = "dead" => Dead(r.sent)

\* What is under way between the tabs and the server.
FlightInv ==
  /\ \A f \in Family : \A n \in server[f].recent : n < server[f].current
  /\ jar # NoToken => Given(jar)
  /\ \A t \in Tab : Travels(t)

\* As long as no answer is lost: what a tab sends is the current token or one that was
\* replaced a moment ago; there is one rotation of a family under way, whose token
\* nobody has yet; and the browser has the current token but for that rotation.
NoLossInv ==
  /\ \A f \in Family : server[f].is # "reused"
  /\ \A t \in Tab : Sent(t) =>
       LET k == tab[t].refresh.sent
       IN  k.number = server[k.family].current \/ k.number \in server[k.family].recent
  /\ \A t \in Tab : Rotated(t) =>
       LET k == tab[t].refresh.sent
       IN  /\ k.number = server[k.family].current
           /\ jar # k
           /\ \A u \in Tab : Sent(u) => tab[u].refresh.sent # k
           /\ \A u \in Tab \ {t} : Rotated(u) => tab[u].refresh.sent.family # k.family
  /\ jar # NoToken =>
       \/ jar.number = server[jar.family].current
       \/ /\ jar.number \in server[jar.family].recent
          /\ \E t \in Tab : Rotated(t) /\ tab[t].refresh.sent.family = jar.family

\* The session a request was sent again with is one.
CallsInv == \A t \in Tab : tab[t].call.at = "resent" => tab[t].call.got # NoToken

Inv == TypeInv /\ FlightInv /\ CallsInv /\ (losses = 0 => NoLossInv)

-----------------------------------------------------------------------------
(* What the handlers make of a document                                      *)

CallOK(d) == d.call.at = "resent" => d.call.got # NoToken

\* The refresh goes on, or one that is over makes room for the next.
RefreshKept(d, e) ==
  \/ e.refresh = d.refresh
  \/ /\ d.refresh.at \in {"none", "read"}
     /\ e.refresh.at \in {"none", "lock", "pause"}
     /\ e.refresh.answer \notin {"ok", "dead"}

\* e is the document d after a handler that found the cookies c.
Follows(d, e, c) ==
  /\ e \in Document
  /\ RefreshKept(d, e)
  /\ CallOK(d) => CallOK(e)
  /\ e.page = Guest => d.page = Guest \/ c = NoToken

LEMMA Tokens ==
  /\ NoToken \in Session /\ Guest = NoToken /\ Booting \in Session /\ Booting # Guest
  /\ NoRefresh \in RefreshState /\ NoRefresh.at = "none" /\ NoRefresh.answer = "none"
  /\ NoCall \in CallState /\ NoCall.at = "none"
  /\ NoCache \in [session : Session, marker : Session] /\ NoCache.session = NoToken
BY DEF NoToken, Session, Guest, Booting, NoRefresh, RefreshState, NoCall, CallState, NoCache

LEMMA FollowsOn ==
  ASSUME NEW d, NEW e, NEW f, NEW c, Follows(d, e, c), Follows(e, f, c)
  PROVE  Follows(d, f, c)
BY DEF Follows, RefreshKept

LEMMA FreshDocument ==
  ASSUME NEW p \in {"home", "profile", "lesson"}
  PROVE  /\ Fresh(p) \in Document /\ Fresh(p).refresh = NoRefresh /\ CallOK(Fresh(p))
         /\ Fresh(p).page = Booting
<1> USE Tokens
<1>1. Fresh(p) \in Document
  BY DEF Fresh, Document
<1> QED BY <1>1 DEF Fresh, CallOK

LEMMA RefreshingFollows ==
  ASSUME NEW d \in Document, NEW patient \in BOOLEAN, NEW c
  PROVE  Follows(d, Refreshing(d, patient), c)
<1> DEFINE n == [NoRefresh EXCEPT !.at = "lock", !.patient = patient]
<1>1. n \in RefreshState /\ n.at = "lock" /\ n.answer = "none"
  BY DEF NoRefresh, RefreshState, Session, NoToken
<1> HIDE DEF n
<1>2. CASE d.refresh.at # "none"
  BY <1>2 DEF Refreshing, Follows, RefreshKept
<1>3. CASE d.refresh.at = "none"
  <2> DEFINE e == [d EXCEPT !.refresh = n]
  <2>1. e \in Document /\ e.refresh = n /\ e.call = d.call /\ e.page = d.page
    BY <1>1 DEF Document
  <2>2. Refreshing(d, patient) = e
    BY <1>3 DEF Refreshing, n
  <2> HIDE DEF e
  <2> QED BY <1>1, <1>3, <2>1, <2>2 DEF Follows, RefreshKept, CallOK
<1> QED BY <1>2, <1>3

LEMMA PreflightFollows ==
  ASSUME NEW d \in Document, NEW c \in Session
  PROVE  Follows(d, Preflight(d, c), c)
<1> USE Tokens
<1>1. CASE d.suppressed
  <2> DEFINE e == [d EXCEPT !.awaiting = FALSE]
  <2>1. e \in Document /\ e.refresh = d.refresh /\ e.call = d.call /\ e.page = d.page
    BY DEF Document
  <2>2. Preflight(d, c) = e
    BY <1>1 DEF Preflight
  <2> HIDE DEF e
  <2> QED BY <2>1, <2>2 DEF Follows, RefreshKept, CallOK
<1>2. CASE ~ d.suppressed /\ c = NoToken
  <2> DEFINE e == [d EXCEPT !.cache = NoCache, !.page = Guest, !.recoverable = FALSE, !.awaiting = FALSE,
                            !.path = IF d.path = "lesson" THEN "profile" ELSE d.path]
  <2>1. e \in Document /\ e.refresh = d.refresh /\ e.call = d.call
    BY DEF Document
  <2>2. Preflight(d, c) = e
    BY <1>2 DEF Preflight
  <2> HIDE DEF e
  <2> QED BY <1>2, <2>1, <2>2 DEF Follows, RefreshKept, CallOK
<1>3. CASE ~ d.suppressed /\ c # NoToken /\ d.cache.session # NoToken /\ d.cache.marker = c
  <2> DEFINE e == [d EXCEPT !.page = d.cache.session, !.recoverable = FALSE, !.awaiting = FALSE]
  <2>1. e \in Document /\ e.refresh = d.refresh /\ e.call = d.call /\ e.page = d.cache.session
    BY DEF Document
  <2>2. Preflight(d, c) = e
    BY <1>3 DEF Preflight
  <2> HIDE DEF e
  <2> QED BY <1>3, <2>1, <2>2 DEF Follows, RefreshKept, CallOK
<1>4. CASE ~ d.suppressed /\ c # NoToken /\ ~ (d.cache.session # NoToken /\ d.cache.marker = c)
  <2> DEFINE e == [d EXCEPT !.cache = NoCache, !.awaiting = TRUE]
  <2>1. e \in Document /\ e.refresh = d.refresh /\ e.call = d.call /\ e.page = d.page
    BY DEF Document
  <2>2. Preflight(d, c) = Refreshing(e, TRUE)
    BY <1>4 DEF Preflight
  <2> HIDE DEF e
  <2>3. Follows(d, e, c)
    BY <2>1 DEF Follows, RefreshKept, CallOK
  <2> QED BY <2>1, <2>2, <2>3, RefreshingFollows, FollowsOn
<1> QED BY <1>1, <1>2, <1>3, <1>4

LEMMA AdoptedFollows ==
  ASSUME NEW d \in Document, NEW s \in Session, NEW c \in Session, s # NoToken
  PROVE  Follows(d, Adopted(d, s, c), c)
<1> DEFINE e == [d EXCEPT !.cache = [session |-> s, marker |-> c], !.page = s, !.suppressed = FALSE]
<1>1. e \in Document /\ e.refresh = d.refresh /\ e.call = d.call /\ e.page = s
  BY DEF Document
<1>2. Adopted(d, s, c) = IF d.suppressed THEN Preflight(e, c) ELSE e
  BY DEF Adopted
<1> HIDE DEF e
<1>3. Follows(d, e, c)
  BY <1>1, Tokens DEF Follows, RefreshKept, CallOK
<1> QED BY <1>1, <1>2, <1>3, PreflightFollows, FollowsOn

LEMMA RetriedFollows ==
  ASSUME NEW d \in Document, NEW c \in Session
  PROVE  Follows(d, Retried(d, c), c)
<1> DEFINE e == [d EXCEPT !.cache = NoCache, !.suppressed = FALSE, !.page = Booting,
                          !.recoverable = FALSE, !.timer = FALSE]
<1>1. e \in Document /\ e.refresh = d.refresh /\ e.call = d.call /\ e.page = Booting
  BY Tokens DEF Document
<1>2. Retried(d, c) = Preflight(e, c)
  BY DEF Retried
<1> HIDE DEF e
<1>3. Follows(d, e, c)
  BY <1>1, Tokens DEF Follows, RefreshKept, CallOK
<1> QED BY <1>1, <1>2, <1>3, PreflightFollows, FollowsOn

\* A refresh that is over, and the page it is answered to.
LEMMA RefreshedFollows ==
  ASSUME NEW d \in Document, NEW s \in Session, NEW c \in Session, s # NoToken, d.refresh.at = "read"
  PROVE  Follows(d, Refreshed(d, s, c), c)
<1> DEFINE d0 == [d EXCEPT !.refresh = NoRefresh]
           e == Adopted(d0, s, c)
           f == IF e.awaiting THEN [e EXCEPT !.page = s, !.recoverable = FALSE, !.awaiting = FALSE] ELSE e
           g == IF f.call.at = "refresh" THEN [f EXCEPT !.call.at = "resent", !.call.got = s] ELSE f
<1>1. d0 \in Document /\ d0.refresh = NoRefresh /\ d0.call = d.call /\ d0.page = d.page
  BY Tokens DEF Document
<1>2. Refreshed(d, s, c) = g
  BY DEF Refreshed
<1> HIDE DEF d0
<1>3. Follows(d, d0, c)
  BY <1>1, Tokens DEF Follows, RefreshKept, CallOK
<1>4. Follows(d, e, c) /\ e \in Document
  BY <1>1, <1>3, AdoptedFollows, FollowsOn DEF Follows
<1> HIDE DEF e
<1>5. Follows(d, f, c) /\ f \in Document
  <2>1. CASE e.awaiting
    <3>1. f \in Document /\ f.refresh = e.refresh /\ f.call = e.call /\ f.page = s
      BY <1>4, <2>1 DEF Document
    <3> QED BY <1>4, <3>1, Tokens DEF Follows, RefreshKept, CallOK
  <2>2. CASE ~ e.awaiting
    BY <1>4, <2>2
  <2> QED BY <2>1, <2>2
<1> HIDE DEF f
<1>6. Follows(d, g, c)
  <2>1. CASE f.call.at = "refresh"
    <3>1. f.call \in CallState
      BY <1>5 DEF Document
    <3> DEFINE k == [f.call EXCEPT !.at = "resent", !.got = s]
    <3>2. k \in CallState /\ k.at = "resent" /\ k.got = s
      BY <3>1 DEF CallState
    <3>3. g = [f EXCEPT !.call = k]
      BY <1>5, <2>1, <3>1 DEF Document, CallState
    <3> HIDE DEF g, k
    <3>4. g \in Document /\ g.refresh = f.refresh /\ g.page = f.page /\ g.call = k
      BY <1>5, <3>2, <3>3 DEF Document
    <3> QED BY <1>5, <3>2, <3>4 DEF Follows, RefreshKept, CallOK
  <2>2. CASE f.call.at # "refresh"
    BY <1>5, <2>2
  <2> QED BY <2>1, <2>2
<1> HIDE DEF g
<1> QED BY <1>2, <1>6

LEMMA FailedFollows ==
  ASSUME NEW d \in Document, NEW c \in Session, d.refresh.at = "read"
  PROVE  Follows(d, Failed(d), c)
<1> USE Tokens
<1> DEFINE e == [d EXCEPT !.refresh = NoRefresh,
                          !.call = IF d.call.at = "refresh" THEN NoCall ELSE d.call]
           f == [e EXCEPT !.page = Booting, !.recoverable = TRUE, !.timer = TRUE, !.awaiting = FALSE]
<1>1. /\ e \in Document /\ e.refresh = NoRefresh /\ e.page = d.page
      /\ e.call = NoCall \/ e.call = d.call
  BY DEF Document
<1>2. Failed(d) = IF d.awaiting THEN f ELSE e
  BY DEF Failed
<1> HIDE DEF e
<1>3. f \in Document /\ f.refresh = NoRefresh /\ f.page = Booting /\ f.call = e.call
  BY <1>1 DEF Document
<1> HIDE DEF f
<1> QED BY <1>1, <1>2, <1>3 DEF Follows, RefreshKept, CallOK

\* The page of a session that is over need not be kept: the cookies were cleared.
LEMMA EndedFollows ==
  ASSUME NEW d \in Document, NEW c \in Session, d.refresh.at = "read"
  PROVE  Ended(d, c) \in Document /\ RefreshKept(d, Ended(d, c)) /\ (CallOK(d) => CallOK(Ended(d, c)))
<1> USE Tokens
<1> DEFINE e == [d EXCEPT !.refresh = NoRefresh]
           shown == [e EXCEPT !.cache = NoCache, !.page = Guest, !.recoverable = FALSE,
                              !.awaiting = FALSE, !.path = "profile"]
<1>1. e \in Document /\ e.refresh = NoRefresh /\ e.call = d.call
  BY DEF Document
<1>2. Ended(d, c) = IF d.call.at = "refresh" THEN Preflight(Fresh("profile"), c)
                    ELSE IF ~ d.awaiting THEN e
                    ELSE IF d.path = "profile" THEN shown ELSE Preflight(shown, c)
  BY DEF Ended
<1> HIDE DEF e
<1>3. shown \in Document /\ shown.refresh = NoRefresh /\ shown.call = d.call
  <2> DEFINE f == [e EXCEPT !.cache = NoCache, !.page = Guest]
  <2>1. f \in Document /\ f.refresh = NoRefresh /\ f.call = d.call
    BY <1>1 DEF Document
  <2>2. shown = [f EXCEPT !.recoverable = FALSE, !.awaiting = FALSE, !.path = "profile"]
    BY <1>1 DEF Document
  <2> HIDE DEF f, shown
  <2>3. shown \in Document
    BY <2>1, <2>2 DEF Document
  <2>4. shown.refresh = NoRefresh /\ shown.call = d.call
    BY <2>1, <2>2 DEF Document
  <2> QED BY <2>3, <2>4
<1> HIDE DEF shown
<1>4. ASSUME NEW x \in Document, x.refresh = NoRefresh, CallOK(d) => CallOK(x)
      PROVE  /\ RefreshKept(d, x) /\ RefreshKept(d, Preflight(x, c))
             /\ Preflight(x, c) \in Document /\ (CallOK(d) => CallOK(Preflight(x, c)))
  BY <1>4, PreflightFollows DEF Follows, RefreshKept
<1>5. CallOK(d) => CallOK(e) /\ CallOK(shown)
  BY <1>1, <1>3 DEF CallOK
<1> QED BY <1>1, <1>2, <1>3, <1>4, <1>5, FreshDocument

-----------------------------------------------------------------------------
(* What the steps do to the tokens                                           *)

\* A step of the documents: no answer of a refresh is given or taken, and families
\* end at most.
LEMMA DocumentsKeepInv ==
  ASSUME Inv,
         server' \in [Family -> FamilyState],
         \A f \in Family : /\ server'[f].current = server[f].current
                           /\ server'[f].recent = server[f].recent
                           /\ server'[f].is = server[f].is \/ (server[f].is = "live" /\ server'[f].is = "over"),
         jar' \in {jar, NoToken}, losses' = losses,
         tab' \in [Tab -> Document],
         \A t \in Tab : RefreshKept(tab[t], tab'[t]) /\ (CallOK(tab[t]) => CallOK(tab'[t]))
  PROVE  Inv'
<1>1. TypeInv'
  BY Tokens DEF Inv, TypeInv
<1>2. \A t \in Tab : Sent(t)' => Sent(t) /\ tab'[t].refresh = tab[t].refresh
  BY DEF Sent, RefreshKept
<1>3. \A t \in Tab : /\ Rotated(t)' => Rotated(t) /\ tab'[t].refresh = tab[t].refresh
                     /\ Rotated(t) => Rotated(t)' /\ tab'[t].refresh = tab[t].refresh
  BY DEF Rotated, RefreshKept
<1>4. \A k : (Given(k) => Given(k)') /\ (Dead(k) => Dead(k)')
  BY DEF Given, Dead
<1>5. FlightInv'
  <2>1. /\ \A f \in Family : \A n \in server'[f].recent : n < server'[f].current
        /\ jar' # NoToken => Given(jar)'
    BY <1>4 DEF Inv, FlightInv
  <2>2. ASSUME NEW t \in Tab PROVE Travels(t)'
    <3>1. CASE tab'[t].refresh = tab[t].refresh
      <4>1. Travels(t)
        BY DEF Inv, FlightInv
      <4> QED BY <1>4, <3>1, <4>1 DEF Travels
    <3>2. CASE /\ tab'[t].refresh.at \in {"none", "lock", "pause"}
               /\ tab'[t].refresh.answer \notin {"ok", "dead"}
      BY <3>2 DEF Travels
    <3> QED BY <3>1, <3>2 DEF RefreshKept
  <2> QED BY <2>1, <2>2 DEF FlightInv
<1>6. CallsInv'
  BY DEF Inv, CallsInv, CallOK
<1>7. ASSUME losses = 0 PROVE NoLossInv'
  <2>1. NoLossInv
    BY <1>7 DEF Inv
  <2>2. \A t \in Tab : Sent(t) \/ Rotated(t) => tab[t].refresh.sent.family \in Family
    BY DEF Inv, FlightInv, Travels, Sent, Rotated, Given
  <2>3. \A f \in Family : server'[f].is # "reused"
    BY <2>1 DEF NoLossInv
  <2>4. ASSUME NEW t \in Tab, Sent(t)'
        PROVE  LET k == tab'[t].refresh.sent
               IN  k.number = server'[k.family].current \/ k.number \in server'[k.family].recent
    BY <1>2, <2>1, <2>2, <2>4 DEF NoLossInv
  <2>5. ASSUME NEW t \in Tab, Rotated(t)'
        PROVE  LET k == tab'[t].refresh.sent
               IN  /\ k.number = server'[k.family].current
                   /\ jar' # k
                   /\ \A u \in Tab : Sent(u)' => tab'[u].refresh.sent # k
                   /\ \A u \in Tab \ {t} : Rotated(u)' => tab'[u].refresh.sent.family # k.family
    <3> DEFINE k == tab[t].refresh.sent
    <3>1. Rotated(t) /\ tab'[t].refresh.sent = k /\ k.family \in Family
      BY <1>3, <2>2, <2>5
    <3>2. k # NoToken
      BY <3>1 DEF NoToken, Family
    <3>3. /\ k.number = server[k.family].current
          /\ jar # k
          /\ \A u \in Tab : Sent(u) => tab[u].refresh.sent # k
          /\ \A u \in Tab \ {t} : Rotated(u) => tab[u].refresh.sent.family # k.family
      BY <2>1, <3>1 DEF NoLossInv
    <3> HIDE DEF k
    <3> QED BY <1>2, <1>3, <3>1, <3>2, <3>3
  <2>6. ASSUME jar' # NoToken
        PROVE  \/ jar'.number = server'[jar'.family].current
               \/ /\ jar'.number \in server'[jar'.family].recent
                  /\ \E t \in Tab : Rotated(t)' /\ tab'[t].refresh.sent.family = jar'.family
    <3>1. jar' = jar /\ jar # NoToken /\ jar.family \in Family
      BY <2>6 DEF Inv, FlightInv, Given
    <3> QED BY <1>3, <2>1, <3>1 DEF NoLossInv
  <2> QED BY <2>3, <2>4, <2>5, <2>6 DEF NoLossInv
<1> QED BY <1>1, <1>5, <1>6, <1>7 DEF Inv

\* A refresh of tab t goes a step, and nothing else of the documents changes.
LEMMA StepDocument ==
  ASSUME TypeInv, CallsInv, NEW t \in Tab, NEW r \in RefreshState, Step(t, r)
  PROVE  /\ tab' \in [Tab -> Document]
         /\ tab'[t].refresh = r /\ tab'[t].call = tab[t].call /\ tab'[t].page = tab[t].page
         /\ \A u \in Tab \ {t} : tab'[u] = tab[u]
         /\ CallsInv'
<1> DEFINE d == [tab[t] EXCEPT !.refresh = r]
<1>1. d \in Document /\ d.refresh = r /\ d.call = tab[t].call /\ d.page = tab[t].page
  BY DEF TypeInv, Document
<1>2. tab' = [tab EXCEPT ![t] = d]
  BY DEF Step, Becomes
<1> HIDE DEF d
<1>3. tab' \in [Tab -> Document] /\ tab'[t] = d /\ \A u \in Tab \ {t} : tab'[u] = tab[u]
  BY <1>1, <1>2 DEF TypeInv
<1> QED BY <1>1, <1>3 DEF CallsInv

\* The token of the cookie is sent, or there is none.
LEMMA SendingKeepsInv ==
  ASSUME Inv, NEW t \in Tab, tab[t].refresh.at \in {"lock", "pause"},
         Step(t, Sending(tab[t].refresh)), server' = server, jar' = jar, losses' = losses
  PROVE  Inv'
<1> DEFINE r == Sending(tab[t].refresh)
<1>1. /\ r \in RefreshState
      /\ jar = NoToken => r.at = "read" /\ r.answer = "dead" /\ r.sent = NoToken
      /\ jar # NoToken => r.at = "sent" /\ r.sent = jar /\ r.answer = tab[t].refresh.answer
  BY Tokens DEF Sending, Inv, TypeInv, Document, RefreshState
<1>2. /\ tab' \in [Tab -> Document] /\ tab'[t].refresh = r
      /\ \A u \in Tab \ {t} : tab'[u] = tab[u]
      /\ CallsInv'
  BY <1>1, StepDocument DEF Inv
<1> HIDE DEF r
<1>3. TypeInv'
  BY <1>2 DEF Inv, TypeInv
<1>4. Travels(t) /\ (jar # NoToken => Given(jar))
  BY DEF Inv, FlightInv
<1>5. \A k : (Given(k) <=> Given(k)') /\ (Dead(k) <=> Dead(k)')
  BY DEF Given, Dead
<1>6. FlightInv'
  <2>1. Travels(t)'
    BY <1>1, <1>2, <1>4, <1>5 DEF Travels, Dead
  <2>2. \A u \in Tab \ {t} : Travels(u)'
    BY <1>2, <1>5 DEF Inv, FlightInv, Travels
  <2> QED BY <1>5, <2>1, <2>2 DEF Inv, FlightInv
<1>7. ASSUME losses = 0 PROVE NoLossInv'
  <2>1. NoLossInv
    BY <1>7 DEF Inv
  <2>2. ~ Sent(t) /\ ~ Rotated(t) /\ ~ Rotated(t)' /\ (Sent(t)' => jar # NoToken /\ r.sent = jar)
    BY <1>1, <1>2 DEF Sent, Rotated
  <2>3. \A u \in Tab \ {t} : (Sent(u) <=> Sent(u)') /\ (Rotated(u) <=> Rotated(u)')
    BY <1>2 DEF Sent, Rotated
  <2>4. jar' # NoToken => \/ jar'.number = server'[jar'.family].current
                          \/ /\ jar'.number \in server'[jar'.family].recent
                             /\ \E u \in Tab : Rotated(u)' /\ tab'[u].refresh.sent.family = jar'.family
    BY <1>2, <2>1, <2>2, <2>3 DEF NoLossInv
  <2>5. ASSUME NEW u \in Tab, Sent(u)'
        PROVE  LET k == tab'[u].refresh.sent
               IN  k.number = server'[k.family].current \/ k.number \in server'[k.family].recent
    BY <1>2, <2>1, <2>2, <2>3, <2>5 DEF NoLossInv
  <2>6. ASSUME NEW u \in Tab, Rotated(u)'
        PROVE  LET k == tab'[u].refresh.sent
               IN  /\ k.number = server'[k.family].current
                   /\ jar' # k
                   /\ \A v \in Tab : Sent(v)' => tab'[v].refresh.sent # k
                   /\ \A v \in Tab \ {u} : Rotated(v)' => tab'[v].refresh.sent.family # k.family
    BY <1>2, <2>1, <2>2, <2>3, <2>6 DEF NoLossInv
  <2> QED BY <2>1, <2>4, <2>5, <2>6 DEF NoLossInv
<1> QED BY <1>2, <1>3, <1>6, <1>7 DEF Inv

\* The refresh of tab t is answered without the server having been asked, or pauses.
LEMMA IdleKeepsInv ==
  ASSUME Inv, NEW t \in Tab, NEW r \in RefreshState, Step(t, r),
         r.at \in {"read", "pause"}, r.answer \notin {"ok", "dead"}, ~ Rotated(t) \/ losses' > 0,
         server' = server, jar' = jar, losses' \in {losses, losses + 1}
  PROVE  Inv'
<1>1. /\ tab' \in [Tab -> Document] /\ tab'[t].refresh = r
      /\ \A u \in Tab \ {t} : tab'[u] = tab[u]
      /\ CallsInv'
  BY StepDocument DEF Inv
<1>2. TypeInv'
  BY <1>1 DEF Inv, TypeInv
<1>3. \A k : (Given(k) <=> Given(k)') /\ (Dead(k) <=> Dead(k)')
  BY DEF Given, Dead
<1>4. FlightInv'
  <2>1. Travels(t)'
    BY <1>1 DEF Travels
  <2>2. \A u \in Tab \ {t} : Travels(u)'
    BY <1>1, <1>3 DEF Inv, FlightInv, Travels
  <2> QED BY <1>3, <2>1, <2>2 DEF Inv, FlightInv
<1>5. ASSUME losses' = 0 PROVE NoLossInv'
  <2>1. NoLossInv
    BY <1>5 DEF Inv, TypeInv
  <2>2. ~ Sent(t)' /\ ~ Rotated(t) /\ ~ Rotated(t)'
    BY <1>1, <1>5 DEF Sent, Rotated
  <2>3. \A u \in Tab \ {t} : (Sent(u) <=> Sent(u)') /\ (Rotated(u) <=> Rotated(u)')
    BY <1>1 DEF Sent, Rotated
  <2> QED BY <1>1, <2>1, <2>2, <2>3 DEF NoLossInv
<1> QED BY <1>1, <1>2, <1>4, <1>5 DEF Inv

\* A refusal of Serve, to a token that was used while an answer was lost or to one of
\* a family that has ended; or the conflict.
Refuses(t, a) ==
  LET k == tab[t].refresh.sent
  IN  /\ Step(t, [tab[t].refresh EXCEPT !.at = "answered", !.answer = a, !.sent.number = k.number])
      /\ \A f \in Family \ {k.family} : server'[f] = server[f]
      /\ server'[k.family].current = server[k.family].current
      /\ server'[k.family].recent = server[k.family].recent
      /\ \/ server'[k.family].is = server[k.family].is
         \/ server[k.family].is = "live" /\ server'[k.family].is = "reused"
      /\ losses = 0 => server'[k.family].is # "reused"
      /\ a = "dead" => server'[k.family].is # "live"

\* The server refuses a token, or tells that it was replaced a moment ago.
LEMMA RefusalKeepsInv ==
  ASSUME Inv, NEW t \in Tab, Sent(t), NEW a \in {"conflict", "dead"},
         Refuses(t, a), server' \in [Family -> FamilyState], jar' = jar, losses' = losses
  PROVE  Inv'
<1> DEFINE r == [tab[t].refresh EXCEPT !.at = "answered", !.answer = a,
                                     !.sent.number = tab[t].refresh.sent.number]
<1>0. PICK k : k = tab[t].refresh.sent
  OBVIOUS
<1>1. tab[t].refresh \in RefreshState /\ k \in Session
  BY <1>0 DEF Inv, TypeInv, Document, RefreshState
<1>2. r \in RefreshState /\ r.at = "answered" /\ r.answer = a /\ r.sent = k
  BY <1>0, <1>1 DEF RefreshState, Session
<1>3. Step(t, r)
  BY DEF Refuses
<1>4. Travels(t) /\ Given(k) /\ k.family \in Family
  BY <1>0 DEF Inv, FlightInv, Travels, Sent, Given
<1> HIDE DEF r
<1>5. /\ tab' \in [Tab -> Document] /\ tab'[t].refresh = r
      /\ \A u \in Tab \ {t} : tab'[u] = tab[u]
      /\ CallsInv'
  BY <1>2, <1>3, StepDocument DEF Inv
<1>6. TypeInv'
  BY <1>5 DEF Inv, TypeInv
<1>7. \A f \in Family : /\ server'[f].current = server[f].current /\ server'[f].recent = server[f].recent
                        /\ server[f].is # "unused" => server'[f].is # "unused"
                        /\ server[f].is \notin {"unused", "live"} => server'[f].is \notin {"unused", "live"}
  BY <1>0, <1>4 DEF Refuses
<1>8. \A q : (Given(q) => Given(q)') /\ (Dead(q) => Dead(q)')
  BY <1>7 DEF Given, Dead
<1>9. FlightInv'
  <2>1. Travels(t)'
    <3>1. a = "dead" => Dead(k)'
      BY <1>0, <1>4, <1>7 DEF Dead, Given, Refuses
    <3> QED BY <1>2, <1>4, <1>5, <1>8, <3>1 DEF Travels
  <2>2. \A u \in Tab \ {t} : Travels(u)'
    BY <1>5, <1>8 DEF Inv, FlightInv, Travels
  <2> QED BY <1>7, <1>8, <2>1, <2>2 DEF Inv, FlightInv
<1>10. ASSUME losses = 0 PROVE NoLossInv'
  <2>1. NoLossInv
    BY <1>10 DEF Inv
  <2>2. ~ Sent(t)' /\ ~ Rotated(t) /\ ~ Rotated(t)'
    BY <1>2, <1>5 DEF Sent, Rotated
  <2>3. \A u \in Tab \ {t} : (Sent(u) <=> Sent(u)') /\ (Rotated(u) <=> Rotated(u)')
    BY <1>5 DEF Sent, Rotated
  <2>4. \A u \in Tab : Sent(u) \/ Rotated(u) => tab[u].refresh.sent.family \in Family
    BY DEF Inv, FlightInv, Travels, Sent, Rotated, Given
  <2>5. jar # NoToken => jar.family \in Family
    BY DEF Inv, FlightInv, Given
  <2>6. \A f \in Family : server'[f].is # "reused"
    BY <1>0, <1>10, <2>1 DEF NoLossInv, Refuses
  <2>7. ASSUME NEW u \in Tab, Sent(u)'
        PROVE  LET q == tab'[u].refresh.sent
               IN  q.number = server'[q.family].current \/ q.number \in server'[q.family].recent
    <3>1. u # t /\ Sent(u) /\ tab'[u] = tab[u] /\ tab[u].refresh.sent.family \in Family
      BY <1>5, <2>2, <2>3, <2>4, <2>7
    <3> QED BY <1>7, <2>1, <3>1 DEF NoLossInv
  <2>8. ASSUME NEW u \in Tab, Rotated(u)'
        PROVE  LET q == tab'[u].refresh.sent
               IN  /\ q.number = server'[q.family].current
                   /\ jar' # q
                   /\ \A v \in Tab : Sent(v)' => tab'[v].refresh.sent # q
                   /\ \A v \in Tab \ {u} : Rotated(v)' => tab'[v].refresh.sent.family # q.family
    <3> DEFINE q == tab[u].refresh.sent
    <3>1. Rotated(u) /\ tab'[u].refresh.sent = q /\ q.family \in Family
      BY <1>5, <2>2, <2>3, <2>4, <2>8
    <3>2. /\ q.number = server[q.family].current
          /\ jar # q
          /\ \A v \in Tab : Sent(v) => tab[v].refresh.sent # q
          /\ \A v \in Tab \ {u} : Rotated(v) => tab[v].refresh.sent.family # q.family
      BY <2>1, <3>1 DEF NoLossInv
    <3> HIDE DEF q
    <3> QED BY <1>5, <1>7, <2>2, <2>3, <3>1, <3>2
  <2>9. jar' # NoToken => \/ jar'.number = server'[jar'.family].current
                          \/ /\ jar'.number \in server'[jar'.family].recent
                             /\ \E u \in Tab : Rotated(u)' /\ tab'[u].refresh.sent.family = jar'.family
    BY <1>5, <1>7, <2>1, <2>2, <2>3, <2>5 DEF NoLossInv
  <2> QED BY <2>6, <2>7, <2>8, <2>9 DEF NoLossInv
<1> QED BY <1>5, <1>6, <1>9, <1>10 DEF Inv

\* The rotation of Serve.
Rotates(t) ==
  LET k == tab[t].refresh.sent
  IN  /\ k.number = server[k.family].current
      /\ server' = [server EXCEPT ![k.family].current = @ + 1,
                                  ![k.family].recent = @ \cup {k.number}]
      /\ Step(t, [tab[t].refresh EXCEPT !.at = "answered", !.answer = "ok",
                                        !.sent.number = k.number + 1])

\* The server rotates a token: the next one is under way, and nobody has it.
LEMMA RotationKeepsInv ==
  ASSUME Inv, NEW t \in Tab, Sent(t),
         Rotates(t), jar' = jar, losses' = losses
  PROVE  Inv'
<1> DEFINE r == [tab[t].refresh EXCEPT !.at = "answered", !.answer = "ok",
                                     !.sent.number = tab[t].refresh.sent.number + 1]
<1>0. PICK k : k = tab[t].refresh.sent
  OBVIOUS
<1>1. tab[t].refresh \in RefreshState /\ k \in Session
  BY <1>0 DEF Inv, TypeInv, Document, RefreshState
<1> DEFINE n == [family |-> k.family, number |-> k.number + 1]
<1>n. n \in Session /\ n.family = k.family /\ n.number = k.number + 1 /\ k.number \in Nat
  BY <1>1 DEF Session
<1>2. r \in RefreshState /\ r.at = "answered" /\ r.answer = "ok" /\ r.sent = n
  <2>1. n = [k EXCEPT !.number = k.number + 1]
    BY <1>1 DEF Session
  <2>2. r = [tab[t].refresh EXCEPT !.at = "answered", !.answer = "ok", !.sent = n]
    BY <1>0, <1>1, <2>1 DEF RefreshState
  <2> HIDE DEF n, r
  <2> QED BY <1>1, <1>n, <2>2 DEF RefreshState
<1>3. Step(t, r)
  BY DEF Rotates
<1>4. Given(k) /\ k.family \in Family
  BY <1>0 DEF Inv, FlightInv, Travels, Sent, Given
<1>5. server[k.family] \in FamilyState /\ k.number = server[k.family].current
  BY <1>0, <1>4 DEF Inv, TypeInv, Rotates
<1>6. /\ server' \in [Family -> FamilyState]
      /\ \A f \in Family \ {k.family} : server'[f] = server[f]
      /\ server'[k.family].current = server[k.family].current + 1
      /\ server'[k.family].recent = server[k.family].recent \cup {k.number}
      /\ server'[k.family].is = server[k.family].is
  <2> DEFINE S == server[k.family]
             s == [S EXCEPT !.current = @ + 1, !.recent = @ \cup {k.number}]
  <2>1. S \in FamilyState
    BY <1>5
  <2>2. server' = [server EXCEPT ![k.family] = s]
    BY <1>0, <1>4, <1>5 DEF Inv, TypeInv, FamilyState, Rotates
  <2> HIDE DEF S
  <2>3. s \in FamilyState
    <3>1. S.current + 1 \in Nat
      BY <2>1 DEF FamilyState
    <3>2. S.recent \cup {k.number} \in SUBSET Nat
      BY <1>n, <2>1 DEF FamilyState
    <3> QED BY <2>1, <3>1, <3>2 DEF FamilyState
  <2>4. s.current = S.current + 1 /\ s.recent = S.recent \cup {k.number} /\ s.is = S.is
    BY <2>1 DEF FamilyState
  <2> USE DEF S
  <2> HIDE DEF s
  <2> QED BY <1>4, <2>2, <2>3, <2>4 DEF Inv, TypeInv
<1> HIDE DEF r, n
<1>7. /\ tab' \in [Tab -> Document] /\ tab'[t].refresh = r
      /\ \A u \in Tab \ {t} : tab'[u] = tab[u]
      /\ CallsInv'
  BY <1>2, <1>3, StepDocument DEF Inv
<1>8. TypeInv'
  BY <1>6, <1>7 DEF Inv, TypeInv
<1>9. \A f \in Family : server[f].current \in Nat /\ server[f].recent \subseteq Nat
  BY DEF Inv, TypeInv, FamilyState
<1>10. /\ \A q \in Session : Given(q) => Given(q)'
       /\ \A q : Dead(q) => Dead(q)'
  <2>1. \A f \in Family : /\ server'[f].is = server[f].is
                          /\ server'[f].current \in Nat /\ server[f].current <= server'[f].current
    BY <1>6, <1>9
  <2>2. ASSUME NEW q \in Session, Given(q) PROVE Given(q)'
    <3>1. q.number \in Nat /\ q.family \in Family /\ q.number <= server[q.family].current
      BY <2>2 DEF Session, Given
    <3> QED BY <1>9, <2>1, <2>2, <3>1 DEF Given
  <2> QED BY <2>1, <2>2 DEF Dead
<1>11. jar \in Session /\ \A u \in Tab : tab[u].refresh.sent \in Session
  BY DEF Inv, TypeInv, Document, RefreshState
<1>12. FlightInv'
  <2>1. Travels(t)'
    <3>1. Given(n)'
      BY <1>4, <1>5, <1>6, <1>9, <1>n DEF Given
    <3> QED BY <1>2, <1>7, <3>1 DEF Travels
  <2>2. \A u \in Tab \ {t} : Travels(u)'
    BY <1>7, <1>10, <1>11 DEF Inv, FlightInv, Travels
  <2>3. \A f \in Family : \A m \in server'[f].recent : m < server'[f].current
    <3>1. \A f \in Family : \A m \in server[f].recent : m \in Nat /\ m < server[f].current
      BY <1>9 DEF Inv, FlightInv
    <3>2. \A m \in server'[k.family].recent : m < server'[k.family].current
      BY <1>4, <1>5, <1>6, <1>9, <1>n, <3>1
    <3> QED BY <1>6, <3>1, <3>2
  <2>4. jar' # NoToken => Given(jar)'
    BY <1>10, <1>11 DEF Inv, FlightInv
  <2> QED BY <2>1, <2>2, <2>3, <2>4 DEF FlightInv
<1>13. ASSUME losses = 0 PROVE NoLossInv'
  <2>1. NoLossInv
    BY <1>13 DEF Inv
  <2>2. ~ Sent(t)' /\ Rotated(t)' /\ tab'[t].refresh.sent = n
    BY <1>2, <1>7 DEF Sent, Rotated
  <2>3. \A u \in Tab \ {t} : (Sent(u) <=> Sent(u)') /\ (Rotated(u) <=> Rotated(u)')
    BY <1>7 DEF Sent, Rotated
  <2>4. \A u \in Tab : Sent(u) \/ Rotated(u) => Given(tab[u].refresh.sent)
    BY DEF Inv, FlightInv, Travels, Sent, Rotated
  <2>5. \A u \in Tab : Rotated(u) => tab[u].refresh.sent.family # k.family
    <3> SUFFICES ASSUME NEW u \in Tab, Rotated(u), tab[u].refresh.sent.family = k.family
                 PROVE  FALSE
      OBVIOUS
    <3>1. tab[u].refresh.sent.number = k.number /\ tab[u].refresh.sent # k
      BY <1>0, <1>5, <2>1 DEF NoLossInv
    <3> QED BY <1>1, <1>11, <3>1 DEF Session
  \* Nobody has a token whose number is beyond the current one.
  <2>6. \A q \in Session : Given(q) => q # n
    <3> SUFFICES ASSUME NEW q \in Session, Given(q), q = n PROVE FALSE
      OBVIOUS
    <3>1. k.number + 1 <= server[k.family].current
      BY <1>n DEF Given
    <3> QED BY <1>5, <1>n, <3>1
  <2>7. \A f \in Family : server'[f].is # "reused"
    BY <1>6, <2>1 DEF NoLossInv
  <2>8. ASSUME NEW u \in Tab, Sent(u)'
        PROVE  LET q == tab'[u].refresh.sent
               IN  q.number = server'[q.family].current \/ q.number \in server'[q.family].recent
    <3>1. u # t /\ Sent(u) /\ tab'[u].refresh.sent = tab[u].refresh.sent
          /\ tab[u].refresh.sent.family \in Family
      BY <1>7, <2>2, <2>3, <2>4, <2>8 DEF Given
    <3> DEFINE q == tab[u].refresh.sent
    <3>2. q.number = server[q.family].current \/ q.number \in server[q.family].recent
      BY <2>1, <3>1 DEF NoLossInv
    <3> HIDE DEF q
    <3>3. CASE q.family = k.family
      BY <1>5, <1>6, <3>1, <3>2, <3>3 DEF q
    <3>4. CASE q.family # k.family
      BY <1>6, <3>1, <3>2, <3>4 DEF q
    <3> QED BY <3>3, <3>4
  <2>9. ASSUME NEW u \in Tab, Rotated(u)'
        PROVE  LET q == tab'[u].refresh.sent
               IN  /\ q.number = server'[q.family].current
                   /\ jar' # q
                   /\ \A v \in Tab : Sent(v)' => tab'[v].refresh.sent # q
                   /\ \A v \in Tab \ {u} : Rotated(v)' => tab'[v].refresh.sent.family # q.family
    <3>1. CASE u = t
      <4>1. n.number = server'[n.family].current
        BY <1>5, <1>6, <1>n
      <4>2. jar # n
        <5>1. n # NoToken
          BY <1>4, <1>n DEF NoToken, Family
        <5> QED BY <1>11, <2>6, <5>1 DEF Inv, FlightInv
      <4>3. \A v \in Tab : Sent(v)' => tab'[v].refresh.sent # n
        BY <1>7, <1>11, <2>2, <2>3, <2>4, <2>6
      <4>4. \A v \in Tab \ {t} : Rotated(v)' => tab'[v].refresh.sent.family # n.family
        BY <1>7, <1>n, <2>3, <2>5
      <4> QED BY <2>2, <3>1, <4>1, <4>2, <4>3, <4>4
    <3>2. CASE u # t
      <4> DEFINE q == tab[u].refresh.sent
      <4>1. Rotated(u) /\ tab'[u].refresh.sent = q /\ q.family \in Family \ {k.family}
        BY <1>7, <2>3, <2>4, <2>5, <2>9, <3>2 DEF Given
      <4>2. /\ q.number = server[q.family].current
            /\ jar # q
            /\ \A v \in Tab : Sent(v) => tab[v].refresh.sent # q
            /\ \A v \in Tab \ {u} : Rotated(v) => tab[v].refresh.sent.family # q.family
        BY <2>1, <4>1 DEF NoLossInv
      <4> HIDE DEF q
      <4>3. server'[q.family] = server[q.family] /\ q # n /\ n.family # q.family
        BY <1>6, <1>n, <4>1
      <4> QED BY <1>7, <2>2, <2>3, <4>1, <4>2, <4>3
    <3> QED BY <3>1, <3>2
  <2>10. jar' # NoToken => \/ jar'.number = server'[jar'.family].current
                           \/ /\ jar'.number \in server'[jar'.family].recent
                              /\ \E u \in Tab : Rotated(u)' /\ tab'[u].refresh.sent.family = jar'.family
    <3> SUFFICES ASSUME jar # NoToken
                 PROVE  \/ jar.number = server'[jar.family].current
                        \/ /\ jar.number \in server'[jar.family].recent
                           /\ \E u \in Tab : Rotated(u)' /\ tab'[u].refresh.sent.family = jar.family
      OBVIOUS
    <3>1. jar.family \in Family
      BY DEF Inv, FlightInv, Given
    <3>2. CASE jar.family = k.family
      <4>1. jar.number = k.number \/ jar.number \in server[k.family].recent
        BY <1>5, <2>1, <3>2 DEF NoLossInv
      <4>2. jar.number \in server'[jar.family].recent
        BY <1>6, <3>2, <4>1
      <4> QED BY <1>n, <2>2, <3>2, <4>2
    <3>3. CASE jar.family # k.family
      <4>1. server'[jar.family] = server[jar.family]
        BY <1>6, <3>1, <3>3
      <4> QED BY <1>7, <2>1, <2>2, <2>3, <2>5, <3>3, <4>1 DEF NoLossInv
    <3> QED BY <3>2, <3>3
  <2> QED BY <2>7, <2>8, <2>9, <2>10 DEF NoLossInv
<1> QED BY <1>7, <1>8, <1>12, <1>13 DEF Inv

LEMMA ServeKeepsInv == ASSUME Inv, NEW t \in Tab, Serve(t) PROVE Inv'
<1> DEFINE k == tab[t].refresh.sent
           s == server[k.family]
           answered(a, n) == Step(t, [tab[t].refresh EXCEPT !.at = "answered", !.answer = a, !.sent.number = n])
<1>1. /\ Sent(t) /\ jar' = jar /\ losses' = losses
      /\ \/ /\ k.number \in s.recent
            /\ answered("conflict", k.number)
            /\ server' = server
         \/ /\ k.number \notin s.recent
            /\ s.is = "live" /\ k.number = s.current
            /\ server' = [server EXCEPT ![k.family].current = @ + 1,
                                        ![k.family].recent = @ \cup {k.number}]
            /\ answered("ok", k.number + 1)
         \/ /\ k.number \notin s.recent
            /\ s.is # "live" \/ k.number # s.current
            /\ server' = [server EXCEPT ![k.family].is = IF s.is = "live" THEN "reused" ELSE s.is]
            /\ answered("dead", k.number)
  BY DEF Serve, Sent, Uneventful
<1>2. server \in [Family -> FamilyState] /\ Given(k) /\ k.family \in Family
  BY <1>1 DEF Inv, TypeInv, FlightInv, Travels, Sent, Given
<1>3. CASE k.number \in s.recent /\ answered("conflict", k.number) /\ server' = server
  <2>1. losses = 0 => s.is # "reused"
    BY <1>2 DEF Inv, NoLossInv
  <2>2. Refuses(t, "conflict")
    BY <1>3, <2>1 DEF Refuses
  <2> QED BY <1>1, <1>2, <1>3, <2>2, RefusalKeepsInv
<1>4. CASE /\ k.number = s.current
           /\ server' = [server EXCEPT ![k.family].current = @ + 1,
                                       ![k.family].recent = @ \cup {k.number}]
           /\ answered("ok", k.number + 1)
  <2>1. Rotates(t)
    BY <1>4 DEF Rotates
  <2> QED BY <1>1, <2>1, RotationKeepsInv
<1>5. CASE /\ k.number \notin s.recent
           /\ s.is # "live" \/ k.number # s.current
           /\ server' = [server EXCEPT ![k.family].is = IF s.is = "live" THEN "reused" ELSE s.is]
           /\ answered("dead", k.number)
  <2> DEFINE is == IF s.is = "live" THEN "reused" ELSE s.is
             e == [s EXCEPT !.is = is]
  <2>1. server' = [server EXCEPT ![k.family] = e]
    BY <1>5
  <2>2. s \in FamilyState
    BY <1>2
  <2> HIDE DEF s, k
  <2>3. e \in FamilyState /\ e.current = s.current /\ e.recent = s.recent /\ e.is = is
    BY <2>2 DEF FamilyState
  <2> HIDE DEF e
  <2>4. server' \in [Family -> FamilyState] /\ server'[k.family] = e
        /\ \A f \in Family \ {k.family} : server'[f] = server[f]
    BY <1>2, <2>1, <2>3
  \* A token the server saw used twice.
  <2>5. losses = 0 => s.is \notin {"live", "reused"}
    BY <1>1, <1>2, <1>5 DEF Inv, NoLossInv, s, k
  <2>6. Refuses(t, "dead")
    <3>1. /\ \A f \in Family \ {k.family} : server'[f] = server[f]
          /\ server'[k.family].current = s.current /\ server'[k.family].recent = s.recent
          /\ server'[k.family].is = s.is \/ (s.is = "live" /\ server'[k.family].is = "reused")
          /\ losses = 0 => server'[k.family].is # "reused"
          /\ server'[k.family].is # "live"
      BY <2>3, <2>4, <2>5
    <3> HIDE DEF is
    <3> USE DEF s, k
    <3> QED BY <1>5, <3>1 DEF Refuses
  <2> QED BY <1>1, <2>4, <2>6, RefusalKeepsInv
<1> QED BY <1>1, <1>3, <1>4, <1>5

\* The browser takes the token of an answer, or forgets the one it has.
LEMMA ArriveKeepsInv == ASSUME Inv, NEW t \in Tab, Arrive(t) PROVE Inv'
<1> DEFINE r == [tab[t].refresh EXCEPT !.at = "read"]
<1>0. PICK k : k = tab[t].refresh.sent
  OBVIOUS
<1>1. /\ tab[t].refresh.at = "answered" /\ Step(t, r) /\ server' = server /\ losses' = losses
      /\ tab[t].refresh.answer = "ok" => jar' = k
      /\ tab[t].refresh.answer = "dead" => jar' = NoToken
      /\ tab[t].refresh.answer \notin {"ok", "dead"} => jar' = jar
  BY <1>0 DEF Arrive, Uneventful
<1>2. /\ tab[t].refresh \in RefreshState /\ k \in Session
      /\ r \in RefreshState /\ r.at = "read" /\ r.sent = k /\ r.answer = tab[t].refresh.answer
  BY <1>0 DEF Inv, TypeInv, Document, RefreshState
<1>3. Travels(t) /\ Given(k) /\ k.family \in Family
  BY <1>0, <1>1 DEF Inv, FlightInv, Travels, Given
<1> HIDE DEF r
<1>4. /\ tab' \in [Tab -> Document] /\ tab'[t].refresh = r
      /\ \A u \in Tab \ {t} : tab'[u] = tab[u]
      /\ CallsInv'
  BY <1>1, <1>2, StepDocument DEF Inv
<1>5. jar' \in {jar, NoToken} \/ (jar' = k /\ Rotated(t))
  BY <1>1 DEF Rotated
<1>6. TypeInv'
  BY <1>1, <1>2, <1>4, <1>5, Tokens DEF Inv, TypeInv
<1>7. \A q : (Given(q) <=> Given(q)') /\ (Dead(q) <=> Dead(q)')
  BY <1>1 DEF Given, Dead
<1>8. FlightInv'
  <2>1. Travels(t)'
    BY <1>0, <1>1, <1>2, <1>3, <1>4, <1>7 DEF Travels
  <2>2. \A u \in Tab \ {t} : Travels(u)'
    BY <1>4, <1>7 DEF Inv, FlightInv, Travels
  <2>3. jar' # NoToken => Given(jar)'
    BY <1>3, <1>5, <1>7 DEF Inv, FlightInv
  <2> QED BY <1>1, <2>1, <2>2, <2>3 DEF Inv, FlightInv
<1>9. ASSUME losses = 0 PROVE NoLossInv'
  <2>1. NoLossInv
    BY <1>9 DEF Inv
  <2>2. ~ Sent(t)' /\ ~ Rotated(t)'
    BY <1>2, <1>4 DEF Sent, Rotated
  <2>3. \A u \in Tab \ {t} : (Sent(u) <=> Sent(u)') /\ (Rotated(u) <=> Rotated(u)')
    BY <1>4 DEF Sent, Rotated
  <2>4. ASSUME NEW u \in Tab, Sent(u)'
        PROVE  LET q == tab'[u].refresh.sent
               IN  q.number = server'[q.family].current \/ q.number \in server'[q.family].recent
    BY <1>1, <1>4, <2>1, <2>2, <2>3, <2>4 DEF NoLossInv
  <2>5. ASSUME NEW u \in Tab, Rotated(u)'
        PROVE  LET q == tab'[u].refresh.sent
               IN  /\ q.number = server'[q.family].current
                   /\ jar' # q
                   /\ \A v \in Tab : Sent(v)' => tab'[v].refresh.sent # q
                   /\ \A v \in Tab \ {u} : Rotated(v)' => tab'[v].refresh.sent.family # q.family
    <3> DEFINE q == tab[u].refresh.sent
    <3>1. u # t /\ Rotated(u) /\ tab'[u].refresh.sent = q
      BY <1>4, <2>2, <2>3, <2>5
    <3>2. /\ q.number = server[q.family].current
          /\ jar # q
          /\ \A v \in Tab : Sent(v) => tab[v].refresh.sent # q
          /\ \A v \in Tab \ {u} : Rotated(v) => tab[v].refresh.sent.family # q.family
      BY <2>1, <3>1 DEF NoLossInv
    <3>3. jar' # q
      <4>1. q # NoToken
        BY <3>1 DEF Inv, FlightInv, Travels, Rotated, Given, NoToken, Family
      <4>2. Rotated(t) => k # q
        BY <1>0, <3>1, <3>2
      <4> QED BY <1>5, <3>2, <4>1, <4>2
    <3> HIDE DEF q
    <3> QED BY <1>1, <1>4, <2>2, <2>3, <3>1, <3>2, <3>3
  <2>6. jar' # NoToken => \/ jar'.number = server'[jar'.family].current
                          \/ /\ jar'.number \in server'[jar'.family].recent
                             /\ \E u \in Tab : Rotated(u)' /\ tab'[u].refresh.sent.family = jar'.family
    <3>1. CASE Rotated(t)
      <4>1. jar' = k /\ k.number = server[k.family].current
        BY <1>0, <1>1, <2>1, <3>1 DEF NoLossInv, Rotated
      <4> QED BY <1>1, <4>1
    <3>2. CASE ~ Rotated(t) /\ jar' # NoToken
      <4>1. jar' = jar
        BY <1>5, <3>2
      <4> QED BY <1>1, <1>4, <2>1, <2>3, <3>2, <4>1 DEF NoLossInv
    <3> QED BY <3>1, <3>2
  <2> QED BY <1>1, <2>1, <2>4, <2>5, <2>6 DEF NoLossInv
<1> QED BY <1>1, <1>4, <1>6, <1>8, <1>9 DEF Inv

\* While no answer is lost, a request under way keeps the grace of its family open: the
\* browser has a token that was replaced only while the answer to that rotation is under
\* way.
LEMMA GraceKeepsInv == ASSUME Inv, NEW f \in Family, GraceEnds(f) PROVE Inv'
<1>1. /\ \A t \in Tab :
           LET r == tab[t].refresh
           IN  r.at \in {"sent", "answered"} /\ r.sent.family = f =>
                 r.answer # "ok" /\ jar.family = f /\ jar.number \in server[f].recent
      /\ server' = [server EXCEPT ![f].recent = {}]
      /\ jar' = jar /\ tab' = tab /\ losses' = losses
  BY DEF GraceEnds, Uneventful
<1>2. server[f] \in FamilyState /\ server \in [Family -> FamilyState]
  BY DEF Inv, TypeInv
<1>3. /\ server' \in [Family -> FamilyState]
      /\ \A g \in Family : /\ server'[g].is = server[g].is /\ server'[g].current = server[g].current
                           /\ server'[g].recent = IF g = f THEN {} ELSE server[g].recent
  <2> DEFINE e == [server[f] EXCEPT !.recent = {}]
  <2>1. e \in FamilyState /\ e.is = server[f].is /\ e.current = server[f].current /\ e.recent = {}
    BY <1>2 DEF FamilyState
  <2>2. server' = [server EXCEPT ![f] = e]
    BY <1>1
  <2> HIDE DEF e
  <2> QED BY <1>2, <2>1, <2>2
<1>4. TypeInv'
  BY <1>1, <1>3 DEF Inv, TypeInv
<1>5. \A q : (Given(q) <=> Given(q)') /\ (Dead(q) <=> Dead(q)')
  BY <1>3 DEF Given, Dead
<1>6. FlightInv'
  <2>1. \A t \in Tab : Travels(t)'
    BY <1>1, <1>5 DEF Inv, FlightInv, Travels
  <2> QED BY <1>1, <1>3, <1>5, <2>1 DEF Inv, FlightInv
<1>7. CallsInv'
  BY <1>1 DEF Inv, CallsInv
<1>8. ASSUME losses = 0 PROVE NoLossInv'
  <2>1. NoLossInv
    BY <1>8 DEF Inv
  <2>2. \A t \in Tab : Rotated(t) => tab[t].refresh.sent.family # f
    BY <1>1 DEF Rotated
  <2>3. jar # NoToken /\ jar.family = f => jar.number = server[f].current
    BY <2>1, <2>2 DEF NoLossInv
  <2>4. \A t \in Tab : Sent(t) => tab[t].refresh.sent.family \in Family \ {f}
    <3> SUFFICES ASSUME NEW t \in Tab, Sent(t), tab[t].refresh.sent.family = f
                 PROVE  FALSE
      BY DEF Inv, FlightInv, Travels, Sent, Given
    <3>1. jar.family = f /\ jar.number \in server[f].recent
      BY <1>1 DEF Sent
    <3>2. jar # NoToken
      BY <3>1 DEF NoToken, Family
    <3>3. jar.number < server[f].current /\ server[f].current \in Nat /\ jar.number \in Nat
      BY <1>2, <3>1 DEF Inv, FlightInv, FamilyState
    <3> QED BY <2>3, <3>1, <3>2, <3>3
  <2>5. \A t \in Tab : Rotated(t) => tab[t].refresh.sent.family \in Family
    BY DEF Inv, FlightInv, Travels, Rotated, Given
  <2>6. \A g \in Family : server'[g].is # "reused"
    BY <1>3, <2>1 DEF NoLossInv
  <2>7. ASSUME NEW t \in Tab, Sent(t)'
        PROVE  LET q == tab'[t].refresh.sent
               IN  q.number = server'[q.family].current \/ q.number \in server'[q.family].recent
    <3> DEFINE q == tab[t].refresh.sent
    <3>1. Sent(t) /\ tab'[t].refresh.sent = q /\ q.family \in Family \ {f}
      BY <1>1, <2>4, <2>7 DEF Sent
    <3>2. q.number = server[q.family].current \/ q.number \in server[q.family].recent
      BY <2>1, <3>1 DEF NoLossInv
    <3> HIDE DEF q
    <3> QED BY <1>3, <3>1, <3>2
  <2>8. ASSUME NEW t \in Tab, Rotated(t)'
        PROVE  LET q == tab'[t].refresh.sent
               IN  /\ q.number = server'[q.family].current
                   /\ jar' # q
                   /\ \A v \in Tab : Sent(v)' => tab'[v].refresh.sent # q
                   /\ \A v \in Tab \ {t} : Rotated(v)' => tab'[v].refresh.sent.family # q.family
    <3> DEFINE q == tab[t].refresh.sent
    <3>1. Rotated(t) /\ q.family \in Family
      BY <1>1, <2>5, <2>8 DEF Rotated
    <3>2. /\ q.number = server[q.family].current
          /\ jar # q
          /\ \A v \in Tab : Sent(v) => tab[v].refresh.sent # q
          /\ \A v \in Tab \ {t} : Rotated(v) => tab[v].refresh.sent.family # q.family
      BY <2>1, <3>1 DEF NoLossInv
    <3>3. \A v \in Tab : (Sent(v)' <=> Sent(v)) /\ (Rotated(v)' <=> Rotated(v))
      BY <1>1 DEF Sent, Rotated
    <3>4. tab'[t].refresh.sent = q
      BY <1>1
    <3> HIDE DEF q
    <3> QED BY <1>1, <1>3, <3>1, <3>2, <3>3, <3>4
  <2>9. jar' # NoToken => \/ jar'.number = server'[jar'.family].current
                          \/ /\ jar'.number \in server'[jar'.family].recent
                             /\ \E u \in Tab : Rotated(u)' /\ tab'[u].refresh.sent.family = jar'.family
    <3> SUFFICES ASSUME jar # NoToken
                 PROVE  \/ jar.number = server'[jar.family].current
                        \/ /\ jar.number \in server'[jar.family].recent
                           /\ \E u \in Tab : Rotated(u)' /\ tab'[u].refresh.sent.family = jar.family
      BY <1>1
    <3>1. jar.family \in Family
      BY DEF Inv, FlightInv, Given
    <3>2. CASE jar.family = f
      BY <1>3, <2>3, <3>2
    <3>3. CASE jar.family # f
      BY <1>1, <1>3, <2>1, <3>1, <3>3 DEF NoLossInv, Rotated
    <3> QED BY <3>2, <3>3
  <2> QED BY <2>6, <2>7, <2>8, <2>9 DEF NoLossInv
<1> QED BY <1>1, <1>4, <1>6, <1>7, <1>8 DEF Inv

-----------------------------------------------------------------------------
(* The steps of the documents                                                *)

\* What NoFalseLogout says of a step of tab t.
Honest(t) ==
  tab[t].page = Booting /\ tab'[t].page = Guest =>
    \/ jar' = NoToken \/ tab[t].leaving
    \/ LET k == tab[t].refresh.sent
       IN  k = NoToken \/ server[k.family].is # "live"

\* Families end at most.
Ends ==
  /\ server' \in [Family -> FamilyState]
  /\ \A f \in Family : /\ server'[f].current = server[f].current
                       /\ server'[f].recent = server[f].recent
                       /\ server'[f].is = server[f].is \/ (server[f].is = "live" /\ server'[f].is = "over")

LEMMA UnchangedEnds == ASSUME TypeInv, server' = server PROVE Ends
BY DEF TypeInv, Ends

LEMMA EndingEnds ==
  ASSUME TypeInv, NEW f \in Family, server' = [server EXCEPT ![f].is = IF @ = "live" THEN "over" ELSE @]
  PROVE  Ends
<1> DEFINE is == IF server[f].is = "live" THEN "over" ELSE server[f].is
           e == [server[f] EXCEPT !.is = is]
<1>1. server[f] \in FamilyState
  BY DEF TypeInv
<1>2. e \in FamilyState /\ e.current = server[f].current /\ e.recent = server[f].recent /\ e.is = is
  BY <1>1 DEF FamilyState
<1>3. server' = [server EXCEPT ![f] = e]
  OBVIOUS
<1> HIDE DEF e
<1> QED BY <1>1, <1>2, <1>3 DEF TypeInv, Ends

\* The document of tab t becomes one that its handlers make of it.
LEMMA BecomesKeepsInv ==
  ASSUME Inv, NEW t \in Tab, NEW e \in Document, Becomes(t, e), Ends,
         RefreshKept(tab[t], e), CallOK(tab[t]) => CallOK(e),
         jar' \in {jar, NoToken}, losses' = losses
  PROVE  Inv' /\ tab'[t] = e /\ \A u \in Tab \ {t} : Honest(u)
<1>1. tab' \in [Tab -> Document] /\ tab'[t] = e /\ \A u \in Tab \ {t} : tab'[u] = tab[u]
  BY DEF Becomes, Inv, TypeInv
<1>2. \A u \in Tab : RefreshKept(tab[u], tab'[u]) /\ (CallOK(tab[u]) => CallOK(tab'[u]))
  BY <1>1 DEF RefreshKept
<1>3. Inv'
  BY <1>1, <1>2, DocumentsKeepInv DEF Ends
<1>4. \A u \in Tab \ {t} : Honest(u)
  BY <1>1, Tokens DEF Honest
<1> QED BY <1>1, <1>3, <1>4

LEMMA HandlerKeepsInv ==
  ASSUME Inv, NEW t \in Tab, NEW e, Becomes(t, e), Ends, Follows(tab[t], e, jar'),
         jar' \in {jar, NoToken}, losses' = losses
  PROVE  Inv' /\ \A u \in Tab : Honest(u)
<1>1. /\ e \in Document /\ RefreshKept(tab[t], e) /\ (CallOK(tab[t]) => CallOK(e))
      /\ e.page = Guest => tab[t].page = Guest \/ jar' = NoToken
  BY DEF Follows
<1>2. Inv' /\ tab'[t] = e /\ \A u \in Tab \ {t} : Honest(u)
  BY <1>1, BecomesKeepsInv
<1>3. Honest(t)
  BY <1>1, <1>2, Tokens DEF Honest
<1> QED BY <1>2, <1>3

LEMMA IsDocument == ASSUME Inv, NEW t \in Tab PROVE tab[t] \in Document /\ jar \in Session
BY DEF Inv, TypeInv

\* A change of a document that is no matter of its refresh.
LEMMA PlainFollows ==
  ASSUME NEW d \in Document, NEW e \in Document, NEW c, e.refresh = d.refresh,
         e.call = d.call \/ CallOK(e), e.page = d.page \/ e.page # Guest \/ c = NoToken
  PROVE  Follows(d, e, c)
BY DEF Follows, RefreshKept, CallOK

LEMMA RestoringKeepsInv ==
  ASSUME Inv, NEW t \in Tab,
         TimerFires(t) \/ Wake(t) \/ PanelExpired(t) \/ Reload(t) \/ Sleep(t)
  PROVE  Inv' /\ \A u \in Tab : Honest(u)
<1> DEFINE d == tab[t]
<1>1. d \in Document /\ jar \in Session
  BY IsDocument
<1> DEFINE awoken == [d EXCEPT !.awake = TRUE]
           asleep == [d EXCEPT !.awake = FALSE]
           spent == [d EXCEPT !.timer = FALSE]
<1>2. /\ jar' = jar /\ server' = server /\ losses' = losses
      /\ \/ Becomes(t, Retried(d, jar))
         \/ Becomes(t, Retried(awoken, jar))
         \/ Becomes(t, awoken)
         \/ Becomes(t, asleep)
         \/ Becomes(t, spent)
         \/ d.refresh.at \in {"none", "read"} /\ Becomes(t, Preflight(Fresh(d.path), jar))
  BY DEF TimerFires, Wake, PanelExpired, Reload, Sleep, OnlyTab
<1>3. Ends
  BY <1>2, UnchangedEnds DEF Inv
<1>4. /\ awoken \in Document /\ awoken.refresh = d.refresh /\ awoken.call = d.call /\ awoken.page = d.page
      /\ asleep \in Document /\ asleep.refresh = d.refresh /\ asleep.call = d.call /\ asleep.page = d.page
      /\ spent \in Document /\ spent.refresh = d.refresh /\ spent.call = d.call /\ spent.page = d.page
  BY <1>1 DEF Document
<1> HIDE DEF awoken, asleep, spent
<1>5. Follows(d, awoken, jar) /\ Follows(d, asleep, jar) /\ Follows(d, spent, jar)
  BY <1>1, <1>4, PlainFollows
<1>6. Follows(d, Retried(d, jar), jar) /\ Follows(d, Retried(awoken, jar), jar)
  BY <1>1, <1>4, <1>5, RetriedFollows, FollowsOn
<1>7. d.refresh.at \in {"none", "read"} => Follows(d, Preflight(Fresh(d.path), jar), jar)
  <2> DEFINE n == Fresh(d.path)
  <2>1. n \in Document /\ n.refresh = NoRefresh /\ CallOK(n) /\ n.page = Booting
    BY <1>1, FreshDocument DEF Document
  <2> HIDE DEF n
  <2>2. d.refresh.at \in {"none", "read"} => Follows(d, n, jar)
    BY <2>1, Tokens DEF Follows, RefreshKept
  <2> QED BY <1>1, <2>1, <2>2, PreflightFollows, FollowsOn DEF n
<1> HIDE DEF d
<1>8. PICK e : Becomes(t, e) /\ Follows(d, e, jar)
  BY <1>2, <1>5, <1>6, <1>7
<1> QED BY <1>2, <1>3, <1>8, HandlerKeepsInv DEF d

LEMMA PagesKeepInv ==
  ASSUME Inv, NEW t \in Tab,
         \/ \E p \in {"home", "profile", "lesson"} : Navigate(t, p)
         \/ Unauthorized(t) \/ CallReturns(t) \/ QueueRefreshes(t)
  PROVE  Inv' /\ \A u \in Tab : Honest(u)
<1> USE Tokens
<1>1. tab[t] \in Document /\ jar \in Session
  BY IsDocument
<1>2. PICK d : d = tab[t]
  OBVIOUS
<1>3. jar' = jar /\ server' = server /\ losses' = losses
  BY DEF Navigate, Unauthorized, CallReturns, QueueRefreshes, OnlyTab
<1>4. Ends
  BY <1>3, UnchangedEnds DEF Inv
<1>5. ASSUME NEW p \in {"home", "profile", "lesson"}, Navigate(t, p)
      PROVE  \E e : Becomes(t, e) /\ Follows(d, e, jar)
  <2> DEFINE x == [d EXCEPT !.path = p]
  <2>1. Becomes(t, Preflight(x, jar))
    BY <1>2, <1>5 DEF Navigate
  <2>2. x \in Document /\ x.refresh = d.refresh /\ x.call = d.call /\ x.page = d.page
    BY <1>1, <1>2 DEF Document
  <2> HIDE DEF x
  <2> QED BY <1>1, <1>2, <2>1, <2>2, PlainFollows, PreflightFollows, FollowsOn
<1>6. ASSUME Unauthorized(t) PROVE \E e : Becomes(t, e) /\ Follows(d, e, jar)
  <2> DEFINE k == [at |-> "refresh", used |-> d.page, got |-> NoToken]
             x == [d EXCEPT !.call = k]
  <2>1. Becomes(t, Refreshing(x, FALSE))
    BY <1>2, <1>6 DEF Unauthorized
  <2>2. k \in CallState /\ k.at = "refresh"
    BY <1>1, <1>2 DEF CallState, Document
  <2> HIDE DEF k
  <2>3. x \in Document /\ x.refresh = d.refresh /\ x.call = k /\ x.page = d.page
    BY <1>1, <1>2, <2>2 DEF Document
  <2> HIDE DEF x
  <2>4. CallOK(x)
    BY <2>2, <2>3 DEF CallOK
  <2>5. Follows(d, x, jar)
    BY <1>1, <1>2, <2>3, <2>4, PlainFollows
  <2>6. Follows(x, Refreshing(x, FALSE), jar)
    BY <2>3, RefreshingFollows
  <2> QED BY <2>1, <2>5, <2>6, FollowsOn
<1>7. ASSUME CallReturns(t) PROVE \E e : Becomes(t, e) /\ Follows(d, e, jar)
  <2> DEFINE x == [d EXCEPT !.call = NoCall]
  <2>1. Becomes(t, x) \/ Becomes(t, Adopted(x, d.call.got, jar))
    BY <1>2, <1>7 DEF CallReturns
  <2>2. x \in Document /\ x.refresh = d.refresh /\ x.call = NoCall /\ x.page = d.page
    BY <1>1, <1>2 DEF Document
  <2> HIDE DEF x
  <2>3. Follows(d, x, jar)
    BY <1>1, <1>2, <2>2, PlainFollows DEF CallOK
  <2>4. d.call.got \in Session /\ d.call.got # NoToken
    BY <1>1, <1>2, <1>7 DEF CallReturns, Inv, CallsInv, Document, CallState
  <2>5. Follows(x, Adopted(x, d.call.got, jar), jar)
    BY <1>1, <2>2, <2>4, AdoptedFollows
  <2> QED BY <2>1, <2>3, <2>5, FollowsOn
<1>8. ASSUME QueueRefreshes(t) PROVE \E e : Becomes(t, e) /\ Follows(d, e, jar)
  <2>1. Becomes(t, Refreshing(d, FALSE))
    BY <1>2, <1>8 DEF QueueRefreshes
  <2>2. Follows(d, Refreshing(d, FALSE), jar)
    BY <1>1, <1>2, RefreshingFollows
  <2> QED BY <2>1, <2>2
<1>9. PICK e : Becomes(t, e) /\ Follows(d, e, jar)
  BY <1>5, <1>6, <1>7, <1>8
<1> QED BY <1>2, <1>3, <1>4, <1>9, HandlerKeepsInv

\* Closing the account leaves the refresh and the call of the document alone.
LEMMA ClosedIsADocument ==
  ASSUME NEW d \in Document
  PROVE  Closed(d) \in Document /\ Closed(d).refresh = d.refresh /\ Closed(d).call = d.call
<1> USE Tokens
<1> DEFINE e == [d EXCEPT !.cache = NoCache, !.suppressed = TRUE, !.page = Guest]
<1>1. e \in Document /\ e.refresh = d.refresh /\ e.call = d.call
  BY DEF Document
<1>2. Closed(d) = [e EXCEPT !.recoverable = FALSE, !.awaiting = FALSE, !.path = "profile"]
  BY DEF Document, Closed
<1> HIDE DEF e
<1>3. Closed(d) \in Document
  BY <1>1, <1>2 DEF Document
<1>4. Closed(d).refresh = d.refresh /\ Closed(d).call = d.call
  BY <1>1, <1>2 DEF Document
<1> QED BY <1>3, <1>4

\* The ways out of the session.
LEMMA LeavingKeepsInv ==
  ASSUME Inv, NEW t \in Tab,
         Logout(t) \/ LoggedOut(t) \/ Finalize(t) \/ CloseAccount(t)
  PROVE  Inv' /\ \A u \in Tab : Honest(u)
<1> USE Tokens
<1>1. tab[t] \in Document /\ jar \in Session /\ (jar # NoToken => jar.family \in Family)
  BY IsDocument DEF Inv, FlightInv, Given
<1>2. PICK d : d = tab[t]
  OBVIOUS
<1>3. CASE Logout(t)
  <2> DEFINE x == [d EXCEPT !.logout = TRUE]
  <2>1. /\ Becomes(t, x) /\ jar' = jar /\ losses' = losses /\ jar # NoToken
        /\ server' = [server EXCEPT ![jar.family].is = IF @ = "live" THEN "over" ELSE @]
    BY <1>2, <1>3 DEF Logout
  <2>2. x \in Document /\ x.refresh = d.refresh /\ x.call = d.call /\ x.page = d.page
    BY <1>1, <1>2 DEF Document
  <2>3. Ends
    BY <1>1, <2>1, EndingEnds DEF Inv
  <2> HIDE DEF x
  <2>4. Follows(d, x, jar)
    BY <1>1, <1>2, <2>2, PlainFollows
  <2> QED BY <1>2, <2>1, <2>3, <2>4, HandlerKeepsInv
<1>4. CASE LoggedOut(t)
  <2> DEFINE x == [d EXCEPT !.logout = FALSE, !.suppressed = TRUE, !.awaiting = FALSE,
                            !.leaving = TRUE, !.path = "home"]
  <2>1. Becomes(t, x) /\ jar' = NoToken /\ losses' = losses /\ server' = server
    BY <1>2, <1>4 DEF LoggedOut, Uneventful
  <2>2. x \in Document /\ x.refresh = d.refresh /\ x.call = d.call /\ x.page = d.page
    BY <1>1, <1>2 DEF Document
  <2>3. Ends
    BY <2>1, UnchangedEnds DEF Inv
  <2> HIDE DEF x
  <2>4. Follows(d, x, jar')
    BY <1>1, <1>2, <2>2, PlainFollows
  <2> QED BY <1>2, <2>1, <2>3, <2>4, HandlerKeepsInv
<1>5. CASE Finalize(t)
  <2> DEFINE x == [d EXCEPT !.cache = NoCache, !.page = Guest, !.recoverable = FALSE, !.leaving = FALSE]
  <2>1. Becomes(t, x) /\ jar' = jar /\ losses' = losses /\ server' = server /\ tab[t].leaving
    BY <1>2, <1>5 DEF Finalize, OnlyTab
  <2>2. x \in Document /\ x.refresh = d.refresh /\ x.call = d.call
    BY <1>1, <1>2 DEF Document
  <2>3. Ends
    BY <2>1, UnchangedEnds DEF Inv
  <2> HIDE DEF x
  <2>4. RefreshKept(d, x) /\ (CallOK(d) => CallOK(x))
    BY <2>2 DEF RefreshKept, CallOK
  <2>5. Inv' /\ \A u \in Tab \ {t} : Honest(u)
    BY <1>2, <2>1, <2>2, <2>3, <2>4, BecomesKeepsInv
  <2> QED BY <2>1, <2>5 DEF Honest
<1>6. CASE CloseAccount(t)
  <2> DEFINE x == Closed(d)
  <2>1. /\ Becomes(t, x) /\ jar' = NoToken /\ losses' = losses /\ jar # NoToken
        /\ server' = [server EXCEPT ![jar.family].is = IF @ = "live" THEN "over" ELSE @]
    BY <1>2, <1>6 DEF CloseAccount
  <2>2. x \in Document /\ x.refresh = d.refresh /\ x.call = d.call
    BY <1>1, <1>2, ClosedIsADocument
  <2>3. Ends
    BY <1>1, <2>1, EndingEnds DEF Inv
  <2> HIDE DEF x
  <2>4. Follows(d, x, jar')
    BY <1>1, <1>2, <2>1, <2>2, PlainFollows
  <2> QED BY <1>2, <2>1, <2>3, <2>4, HandlerKeepsInv
<1> QED BY <1>3, <1>4, <1>5, <1>6

\* A new family, of which nobody has a token but the browser.
LEMMA LoginKeepsInv ==
  ASSUME Numbered, Inv, NEW t \in Tab, Login(t)
  PROVE  Inv' /\ \A u \in Tab : Honest(u)
<1>1. PICK f \in Family :
        /\ server[f] = Unused /\ server' = [server EXCEPT ![f] = Opened]
        /\ jar' = [family |-> f, number |-> 1]
        /\ Becomes(t, Preflight([tab[t] EXCEPT !.path = "home"], jar'))
        /\ losses' = losses /\ tab[t].page = Guest
  BY DEF Login
<1>2. /\ f \in Nat /\ jar' \in Session /\ jar' # NoToken /\ jar'.family = f /\ jar'.number = 1
      /\ tab[t] \in Document
  BY <1>1, IsDocument DEF Numbered, Family, Session, NoToken
<1>3. /\ server' \in [Family -> FamilyState] /\ server'[f] = Opened
      /\ \A g \in Family \ {f} : server'[g] = server[g]
      /\ Opened.is = "live" /\ Opened.current = 1 /\ Opened.recent = {} /\ Unused.is = "unused"
  BY <1>1 DEF Inv, TypeInv, FamilyState, Opened, Unused
<1> DEFINE x == [tab[t] EXCEPT !.path = "home"]
           e == Preflight(x, jar')
<1>4. x \in Document /\ x.refresh = tab[t].refresh /\ x.call = tab[t].call /\ x.page = tab[t].page
  BY <1>2 DEF Document
<1> HIDE DEF x
<1>5. Follows(tab[t], x, jar')
  BY <1>2, <1>4, PlainFollows
<1>6. Follows(tab[t], e, jar')
  BY <1>2, <1>4, <1>5, PreflightFollows, FollowsOn
<1>7. Becomes(t, e)
  BY <1>1 DEF x
<1> HIDE DEF e
<1>8. tab' \in [Tab -> Document] /\ tab'[t] = e /\ \A u \in Tab \ {t} : tab'[u] = tab[u]
  BY <1>6, <1>7 DEF Becomes, Inv, TypeInv, Follows
<1>9. \A u \in Tab : RefreshKept(tab[u], tab'[u]) /\ (CallOK(tab[u]) => CallOK(tab'[u]))
  BY <1>6, <1>8 DEF RefreshKept, Follows
<1>10. TypeInv' /\ CallsInv'
  BY <1>1, <1>2, <1>3, <1>8, <1>9 DEF Inv, TypeInv, CallsInv, CallOK
<1>11. \A q : (Given(q) => q.family # f /\ Given(q)') /\ (Dead(q) => Dead(q)')
  BY <1>1, <1>3 DEF Given, Dead
<1>12. FlightInv'
  <2>1. ASSUME NEW u \in Tab PROVE Travels(u)'
    <3>1. CASE tab'[u].refresh = tab[u].refresh
      <4>1. Travels(u)
        BY DEF Inv, FlightInv
      <4> QED BY <1>11, <3>1, <4>1 DEF Travels
    <3>2. CASE /\ tab'[u].refresh.at \in {"none", "lock", "pause"}
               /\ tab'[u].refresh.answer \notin {"ok", "dead"}
      BY <3>2 DEF Travels
    <3> QED BY <1>9, <3>1, <3>2 DEF RefreshKept
  <2>2. Given(jar)'
    BY <1>2, <1>3 DEF Given
  <2>3. \A g \in Family : \A n \in server'[g].recent : n < server'[g].current
    BY <1>3 DEF Inv, FlightInv
  <2> QED BY <2>1, <2>2, <2>3 DEF FlightInv
<1>13. ASSUME losses = 0 PROVE NoLossInv'
  <2>1. NoLossInv
    BY <1>13 DEF Inv
  <2>2. \A u \in Tab : /\ Sent(u)' => Sent(u) /\ tab'[u].refresh = tab[u].refresh
                       /\ Rotated(u)' => Rotated(u) /\ tab'[u].refresh = tab[u].refresh
    BY <1>9 DEF Sent, Rotated, RefreshKept
  <2>3. \A u \in Tab : Sent(u) \/ Rotated(u) => tab[u].refresh.sent.family \in Family \ {f}
    BY <1>11 DEF Inv, FlightInv, Travels, Sent, Rotated, Given
  <2>4. \A g \in Family : server'[g].is # "reused"
    BY <1>3, <2>1 DEF NoLossInv
  <2>5. ASSUME NEW u \in Tab, Sent(u)'
        PROVE  LET q == tab'[u].refresh.sent
               IN  q.number = server'[q.family].current \/ q.number \in server'[q.family].recent
    <3>1. Sent(u) /\ tab'[u].refresh = tab[u].refresh /\ tab[u].refresh.sent.family \in Family \ {f}
      BY <2>2, <2>3, <2>5
    <3> QED BY <1>3, <2>1, <3>1 DEF NoLossInv
  <2>6. ASSUME NEW u \in Tab, Rotated(u)'
        PROVE  LET q == tab'[u].refresh.sent
               IN  /\ q.number = server'[q.family].current
                   /\ jar' # q
                   /\ \A v \in Tab : Sent(v)' => tab'[v].refresh.sent # q
                   /\ \A v \in Tab \ {u} : Rotated(v)' => tab'[v].refresh.sent.family # q.family
    <3> DEFINE q == tab[u].refresh.sent
    <3>1. Rotated(u) /\ tab'[u].refresh.sent = q /\ q.family \in Family \ {f}
      BY <2>2, <2>3, <2>6
    <3>2. /\ q.number = server[q.family].current
          /\ \A v \in Tab : Sent(v) => tab[v].refresh.sent # q
          /\ \A v \in Tab \ {u} : Rotated(v) => tab[v].refresh.sent.family # q.family
      BY <2>1, <3>1 DEF NoLossInv
    <3> HIDE DEF q
    <3> QED BY <1>2, <1>3, <2>2, <3>1, <3>2
  <2> QED BY <1>2, <1>3, <2>4, <2>5, <2>6 DEF NoLossInv
<1>14. \A u \in Tab : Honest(u)
  BY <1>1, <1>8, Tokens DEF Honest
<1> QED BY <1>1, <1>10, <1>12, <1>13, <1>14 DEF Inv

\* The refresh settles: its answer is one of the server, or the tab may try again.
LEMMA SettleKeepsInv ==
  ASSUME Inv, NEW t \in Tab, Settle(t)
  PROVE  Inv' /\ \A u \in Tab : Honest(u)
<1> USE Tokens
<1>1. tab[t] \in Document /\ jar \in Session
  BY IsDocument
<1>2. PICK d : d = tab[t]
  OBVIOUS
<1>3. PICK r : r = d.refresh
  OBVIOUS
<1>4. /\ r.at = "read" /\ server' = server /\ jar' = jar /\ losses' = losses
      /\ IF Again(r)
         THEN Step(t, [r EXCEPT !.at = "pause", !.retries = @ + 1])
         ELSE Becomes(t, CASE r.answer = "ok" -> Refreshed(d, r.sent, jar)
                           [] r.answer = "dead" -> Ended(d, jar)
                           [] OTHER -> Failed(d))
  BY <1>2, <1>3 DEF Settle, Uneventful
<1>5. r \in RefreshState /\ Travels(t) /\ r = tab[t].refresh
  BY <1>1, <1>2, <1>3 DEF Document, Inv, FlightInv
<1>6. CASE Again(r)
  <2> DEFINE n == [r EXCEPT !.at = "pause", !.retries = @ + 1]
  <2>1. Step(t, n) /\ r.answer \notin {"ok", "dead"}
    BY <1>4, <1>6 DEF Again
  <2>2. n \in RefreshState /\ n.at = "pause" /\ n.answer = r.answer
    <3>1. r.retries + 1 \in Nat
      BY <1>5 DEF RefreshState
    <3> QED BY <1>5, <3>1 DEF RefreshState
  <2> HIDE DEF n
  <2>3. ~ Rotated(t)
    BY <1>4, <1>5 DEF Rotated
  <2>4. Inv'
    BY <1>4, <2>1, <2>2, <2>3, IdleKeepsInv
  <2>5. /\ \A u \in Tab \ {t} : tab'[u] = tab[u]
        /\ tab'[t].page = tab[t].page
    BY <2>1, <2>2, StepDocument DEF Inv
  <2> QED BY <2>4, <2>5 DEF Honest
<1>7. Ends
  BY <1>4, UnchangedEnds DEF Inv
<1>8. CASE ~ Again(r) /\ r.answer = "ok"
  <2>1. Becomes(t, Refreshed(d, r.sent, jar))
    BY <1>4, <1>8
  <2>2. r.sent \in Session /\ r.sent # NoToken
    BY <1>4, <1>5, <1>8 DEF Travels, Given, RefreshState, NoToken, Family
  <2>3. Follows(d, Refreshed(d, r.sent, jar), jar)
    BY <1>1, <1>2, <1>3, <1>4, <2>2, RefreshedFollows
  <2> QED BY <1>2, <1>4, <1>7, <2>1, <2>3, HandlerKeepsInv
<1>9. CASE ~ Again(r) /\ r.answer = "dead"
  <2>1. Becomes(t, Ended(d, jar))
    BY <1>4, <1>9
  <2>2. Ended(d, jar) \in Document /\ RefreshKept(d, Ended(d, jar)) /\ (CallOK(d) => CallOK(Ended(d, jar)))
    BY <1>1, <1>2, <1>3, <1>4, EndedFollows
  <2>3. Inv' /\ \A u \in Tab \ {t} : Honest(u)
    BY <1>2, <1>4, <1>7, <2>1, <2>2, BecomesKeepsInv
  <2>4. Dead(r.sent)
    BY <1>4, <1>5, <1>9 DEF Travels
  <2>5. Honest(t)
    BY <1>5, <2>4 DEF Honest, Dead
  <2> QED BY <2>3, <2>5
<1>10. CASE ~ Again(r) /\ r.answer \notin {"ok", "dead"}
  <2>1. Becomes(t, Failed(d))
    BY <1>4, <1>10
  <2>2. Follows(d, Failed(d), jar)
    BY <1>1, <1>2, <1>3, <1>4, FailedFollows
  <2> QED BY <1>2, <1>4, <1>7, <2>1, <2>2, HandlerKeepsInv
<1> QED BY <1>6, <1>8, <1>9, <1>10

\* The steps of a refresh before it settles, which show nothing.
LEMMA RefreshKeepsInv ==
  ASSUME Inv, NEW t \in Tab,
         Locked(t) \/ Resend(t) \/ Serve(t) \/ Fail(t) \/ Lose(t) \/ Arrive(t)
  PROVE  Inv' /\ \A u \in Tab : Honest(u)
<1>1. Inv'
  <2>1. CASE Locked(t) \/ Resend(t)
    BY <2>1, SendingKeepsInv DEF Locked, Resend, Uneventful
  <2>2. CASE Serve(t)
    BY <2>2, ServeKeepsInv
  <2>3. CASE Fail(t) \/ Lose(t)
    <3> DEFINE r == [tab[t].refresh EXCEPT !.at = "read", !.answer = "failed"]
    <3>0. tab[t].refresh \in RefreshState
      BY IsDocument DEF Document
    <3>1. r \in RefreshState /\ r.at = "read" /\ r.answer = "failed"
      BY <3>0 DEF RefreshState
    <3>2. /\ Step(t, r) /\ server' = server /\ jar' = jar /\ losses \in Nat
          /\ \/ losses' = losses /\ tab[t].refresh.at = "sent"
             \/ losses' = losses + 1
      BY <2>3 DEF Fail, Lose, Uneventful, Inv, TypeInv
    <3> HIDE DEF r
    <3>3. ~ Rotated(t) \/ losses' > 0
      BY <3>2 DEF Rotated
    <3> QED BY <3>1, <3>2, <3>3, IdleKeepsInv
  <2>4. CASE Arrive(t)
    BY <2>4, ArriveKeepsInv
  <2> QED BY <2>1, <2>2, <2>3, <2>4
<1>2. \E r : Step(t, r)
  BY DEF Locked, Resend, Serve, Fail, Lose, Arrive
<1>3. \A u \in Tab : tab'[u].page = tab[u].page
  <2>1. PICK r : tab' = [tab EXCEPT ![t] = [tab[t] EXCEPT !.refresh = r]]
    BY <1>2 DEF Step, Becomes
  <2>2. tab \in [Tab -> Document]
    BY DEF Inv, TypeInv
  <2>3. [tab[t] EXCEPT !.refresh = r].page = tab[t].page
    BY <2>2 DEF Document
  <2> QED BY <2>1, <2>2, <2>3
<1>4. \A u \in Tab : Honest(u)
  BY <1>3, Tokens DEF Honest
<1> QED BY <1>1, <1>4

-----------------------------------------------------------------------------

LEMMA InitInv == ASSUME Numbered, Init PROVE Inv
<1> USE Tokens
<1>1. /\ losses = 0
      /\ \/ /\ server = [f \in Family |-> IF f = 1 THEN Opened ELSE Unused]
            /\ jar = [family |-> 1, number |-> 1]
         \/ /\ server = [f \in Family |-> Unused]
            /\ jar = NoToken
  BY DEF Init
<1>2. PICK p \in [Tab -> {"home", "profile"}] : tab = [t \in Tab |-> Preflight(Fresh(p[t]), jar)]
  BY DEF Init
<1>3. /\ Opened \in FamilyState /\ Unused \in FamilyState
      /\ Opened.is = "live" /\ Opened.current = 1 /\ Opened.recent = {}
      /\ Unused.is = "unused" /\ Unused.recent = {}
  BY DEF Opened, Unused, FamilyState
<1>4. server \in [Family -> FamilyState] /\ jar \in Session
  BY <1>1, <1>3 DEF Session
<1>5. ASSUME NEW t \in Tab
      PROVE  /\ tab[t] \in Document /\ CallOK(tab[t])
             /\ tab[t].refresh.at \in {"none", "lock", "pause"} /\ tab[t].refresh.answer \notin {"ok", "dead"}
  <2> DEFINE d == Fresh(p[t])
  <2>1. d \in Document /\ d.refresh = NoRefresh /\ CallOK(d)
    BY FreshDocument
  <2>2. tab[t] = Preflight(d, jar)
    BY <1>2
  <2> HIDE DEF d
  <2>3. Follows(d, tab[t], jar)
    BY <1>4, <2>1, <2>2, PreflightFollows
  <2> QED BY <2>1, <2>3 DEF Follows, RefreshKept
<1>6. TypeInv
  BY <1>1, <1>2, <1>4, <1>5 DEF TypeInv
<1>7. CallsInv
  BY <1>5 DEF CallsInv, CallOK
<1>8. \A t \in Tab : Travels(t) /\ ~ Sent(t) /\ ~ Rotated(t)
  BY <1>5 DEF Travels, Sent, Rotated
<1>9. /\ \A f \in Family : server[f].is # "reused" /\ server[f].recent = {}
      /\ jar # NoToken => Given(jar) /\ jar.number = server[jar.family].current
  <2>1. CASE /\ server = [f \in Family |-> IF f = 1 THEN Opened ELSE Unused]
             /\ jar = [family |-> 1, number |-> 1]
    BY <1>3, <2>1 DEF Given, Family, Numbered
  <2>2. CASE server = [f \in Family |-> Unused] /\ jar = NoToken
    BY <1>3, <2>2
  <2> QED BY <1>1, <2>1, <2>2
<1>10. FlightInv /\ NoLossInv
  BY <1>8, <1>9 DEF FlightInv, NoLossInv
<1> QED BY <1>6, <1>7, <1>10 DEF Inv

LEMMA StepKeepsInv ==
  ASSUME Numbered, Inv, Next
  PROVE  Inv' /\ \A t \in Tab : Honest(t)
<1>1. ASSUME NEW t \in Tab, Refresh(t) PROVE Inv' /\ \A u \in Tab : Honest(u)
  BY <1>1, RefreshKeepsInv, SettleKeepsInv DEF Refresh
<1>2. ASSUME NEW t \in Tab,
             \/ TimerFires(t) \/ Sleep(t) \/ Wake(t) \/ Reload(t)
             \/ \E p \in {"home", "profile", "lesson"} : Navigate(t, p)
             \/ Unauthorized(t) \/ CallReturns(t) \/ QueueRefreshes(t) \/ PanelExpired(t)
      PROVE  Inv' /\ \A u \in Tab : Honest(u)
  BY <1>2, RestoringKeepsInv, PagesKeepInv
<1>3. ASSUME NEW t \in Tab,
             Logout(t) \/ LoggedOut(t) \/ Finalize(t) \/ Login(t) \/ CloseAccount(t)
      PROVE  Inv' /\ \A u \in Tab : Honest(u)
  BY <1>3, LeavingKeepsInv, LoginKeepsInv
<1>4. ASSUME NEW f \in Family, GraceEnds(f) \/ Revoke(f)
      PROVE  Inv' /\ \A u \in Tab : Honest(u)
  <2>1. tab' = tab /\ losses' = losses /\ jar' = jar
    BY <1>4 DEF GraceEnds, Revoke, Uneventful
  <2>2. \A u \in Tab : Honest(u)
    BY <2>1, Tokens DEF Honest
  <2>3. CASE GraceEnds(f)
    BY <2>2, <2>3, GraceKeepsInv
  <2>4. CASE Revoke(f)
    <3>1. server' = [server EXCEPT ![f].is = IF @ = "live" THEN "over" ELSE @]
      BY <2>4 DEF Revoke
    <3>2. Ends
      BY <3>1, EndingEnds DEF Inv
    <3>3. \A u \in Tab : RefreshKept(tab[u], tab'[u]) /\ (CallOK(tab[u]) => CallOK(tab'[u]))
      BY <2>1 DEF RefreshKept
    <3>4. tab' \in [Tab -> Document]
      BY <2>1 DEF Inv, TypeInv
    <3> QED BY <2>1, <2>2, <3>2, <3>3, <3>4, DocumentsKeepInv DEF Ends
  <2> QED BY <1>4, <2>3, <2>4
<1> QED BY <1>1, <1>2, <1>3, <1>4 DEF Next

LEMMA StutterKeepsInv == ASSUME Inv, UNCHANGED vars PROVE Inv'
<1>1. server' = server /\ jar' = jar /\ tab' = tab /\ losses' = losses
  BY DEF vars
<1>2. Ends /\ tab' \in [Tab -> Document]
  BY <1>1, UnchangedEnds DEF Inv, TypeInv
<1>3. \A u \in Tab : RefreshKept(tab[u], tab'[u]) /\ (CallOK(tab[u]) => CallOK(tab'[u]))
  BY <1>1 DEF RefreshKept
<1> QED BY <1>1, <1>2, <1>3, DocumentsKeepInv DEF Ends

THEOREM InvHolds == ASSUME Numbered PROVE Spec => []Inv
<1>1. Init => Inv
  BY InitInv
<1>2. Inv /\ [Next]_vars => Inv'
  BY StepKeepsInv, StutterKeepsInv
<1> QED BY <1>1, <1>2, PTL DEF Spec

\* lib/auth-session.ts performRefreshAttempt reads the cookies anew for every attempt:
\* however the tabs of a browser race with each other, with their retries and with the
\* sign-ins, the server sees a token used twice only when an answer was lost.
THEOREM ReuseNeedsALoss == ASSUME Numbered PROVE Spec => []ReuseTakesALoss
<1>1. Inv => ReuseTakesALoss
  BY DEF Inv, TypeInv, NoLossInv, ReuseTakesALoss
<1> QED BY <1>1, InvHolds, PTL

\* lib/session-bootstrap.ts: a tab that restores the session presents the learner as a
\* guest only when there are no cookies, when the learner is logging out, or when the
\* session it asked for is not live.
THEOREM GuestsHaveNoSession == ASSUME Numbered PROVE Spec => NoFalseLogout
<1>1. Inv /\ [Next]_vars =>
        [\A t \in Tab :
           tab[t].page = Booting /\ tab'[t].page = Guest =>
             \/ jar' = NoToken \/ tab[t].leaving
             \/ LET k == tab[t].refresh.sent
                IN  k = NoToken \/ server[k.family].is # "live"]_vars
  BY StepKeepsInv DEF Honest
<1> QED BY <1>1, InvHolds, PTL DEF Spec, NoFalseLogout
=============================================================================
