---------------------------- MODULE TabSessions ----------------------------
(***************************************************************************)
(* The session of the learner in the tabs of one browser                     *)
(* (lib/auth-session.ts, lib/session-bootstrap.ts, lib/session-resume.ts,    *)
(* lib/authorized-json.ts, components/lexigo-bootstrapped-app.tsx and the    *)
(* account panels).  The tabs share the cookies and nothing else: each has   *)
(* its own refresh in flight, its own cache of the session and its own view. *)
(* The server is that of AuthSessions as a browser can tell it: a family of  *)
(* refresh tokens, the current one and those replaced a moment ago.          *)
(***************************************************************************)
EXTENDS Naturals, FiniteSets

CONSTANTS
  Tab,
  ConflictRetries,  \* the length of CONFLICT_RETRY_DELAYS_MS
  RestoreRetries,   \* the length of RESTORE_RETRY_DELAYS_MS
  MaxLogins,        \* bound on the sign-ins: see Login
  MaxLosses,        \* bound on the answers lost after the server acted: see Lose
  MaxEvents         \* bound on what befalls the browser: see Event

VARIABLES
  server,    \* the families of refresh tokens, numbered by sign-in
  jar,       \* the refresh and CSRF cookies, which are set and cleared together
  lock,      \* the tab that holds REFRESH_LOCK_NAME; or the browser has no locks
  tab,       \* the document of each tab
  losses,    \* number of answers lost so far
  happened   \* number of events so far

vars == <<server, jar, lock, tab, losses, happened>>

Family == 1 .. MaxLogins
NoTab == "no tab"
NoLocks == "no locks"

\* A refresh token, its CSRF marker and the session that came with them.
Token == [family : Family, number : Nat]
NoToken == [family |-> 0, number |-> 0]

\* What initialSession is, when it is not a session.
Guest == NoToken
Booting == [family |-> 0, number |-> 1]

Unused == [is |-> "unused", current |-> 0, recent |-> {}]
Opened == [is |-> "live", current |-> 1, recent |-> {}]

NoRefresh == [at |-> "none", patient |-> FALSE, retries |-> 0, sent |-> NoToken, answer |-> "none"]
NoCall == [at |-> "none", used |-> NoToken, got |-> NoToken]
NoCache == [session |-> NoToken, marker |-> NoToken]

\* A document that has just been loaded at path p.
Fresh(p) ==
  [page |-> Booting, path |-> p, suppressed |-> FALSE, leaving |-> FALSE,
   recoverable |-> FALSE, timer |-> FALSE, awake |-> TRUE, cache |-> NoCache,
   awaiting |-> FALSE, refresh |-> NoRefresh, call |-> NoCall, logout |-> FALSE]

-----------------------------------------------------------------------------
(* The document: what its handlers make of it.  d is the document before,    *)
(* c the cookies.                                                            *)

SignedIn(d) == d.page \notin {Guest, Booting}

\* refreshSession: one refresh at a time in a document, with the options of
\* the call that began it.
Refreshing(d, patient) ==
  IF d.refresh.at # "none" THEN d
  ELSE [d EXCEPT !.refresh = [NoRefresh EXCEPT !.at = "lock", !.patient = patient]]

\* The effect of LexigoBootstrappedApp that restores the session
\* (preflightSession over restoreBootstrappedSession).
Preflight(d, c) ==
  IF d.suppressed THEN [d EXCEPT !.awaiting = FALSE]
  ELSE IF c = NoToken
       THEN [d EXCEPT !.cache = NoCache, !.page = Guest, !.recoverable = FALSE, !.awaiting = FALSE,
                      !.path = IF d.path = "lesson" THEN "profile" ELSE d.path]
  ELSE IF d.cache.session # NoToken /\ d.cache.marker = c
       THEN [d EXCEPT !.page = d.cache.session, !.recoverable = FALSE, !.awaiting = FALSE]
  ELSE Refreshing([d EXCEPT !.cache = NoCache, !.awaiting = TRUE], TRUE)

\* handleSessionUpdated.
Adopted(d, s, c) ==
  LET e == [d EXCEPT !.cache = [session |-> s, marker |-> c], !.page = s, !.suppressed = FALSE]
  IN  IF d.suppressed THEN Preflight(e, c) ELSE e

\* retryRestore.
Retried(d, c) ==
  Preflight([d EXCEPT !.cache = NoCache, !.suppressed = FALSE, !.page = Booting,
                      !.recoverable = FALSE, !.timer = FALSE], c)

\* handleAccountDeleted, handleEmailChanged.
Closed(d) ==
  [d EXCEPT !.cache = NoCache, !.suppressed = TRUE, !.page = Guest, !.recoverable = FALSE,
            !.awaiting = FALSE, !.path = "profile"]

\* The refresh gave session s: reportRefreshedSession first, then whoever waits.
Refreshed(d, s, c) ==
  LET e == Adopted([d EXCEPT !.refresh = NoRefresh], s, c)
      f == IF e.awaiting THEN [e EXCEPT !.page = s, !.recoverable = FALSE, !.awaiting = FALSE] ELSE e
  IN  IF f.call.at = "refresh" THEN [f EXCEPT !.call.at = "resent", !.call.got = s] ELSE f

\* The refresh failed and the session is over (isDefinitiveSessionRefreshError):
\* a request of a page leaves for the expired screen, redirectToExpiredSession;
\* the preflight shows that screen in place.
Ended(d, c) ==
  LET e == [d EXCEPT !.refresh = NoRefresh]
      shown == [e EXCEPT !.cache = NoCache, !.page = Guest, !.recoverable = FALSE,
                         !.awaiting = FALSE, !.path = "profile"]
  IN  IF d.call.at = "refresh" THEN Preflight(Fresh("profile"), c)
      ELSE IF ~ d.awaiting THEN e
      ELSE IF d.path = "profile" THEN shown ELSE Preflight(shown, c)

\* Mutant of Failed: no connection is taken for no session.
FailedAsGuest(d) ==
  [d EXCEPT !.refresh = NoRefresh, !.call = NoCall, !.awaiting = FALSE,
            !.page = IF d.awaiting THEN Guest ELSE @]

\* The refresh failed and may be tried again.
Failed(d) ==
  LET e == [d EXCEPT !.refresh = NoRefresh,
                     !.call = IF d.call.at = "refresh" THEN NoCall ELSE d.call]
  IN  IF d.awaiting
      THEN [e EXCEPT !.page = Booting, !.recoverable = TRUE, !.timer = TRUE, !.awaiting = FALSE]
      ELSE e

-----------------------------------------------------------------------------

Init ==
  /\ \/ /\ server = [f \in Family |-> IF f = 1 THEN Opened ELSE Unused]
        /\ jar = [family |-> 1, number |-> 1]
     \/ /\ server = [f \in Family |-> Unused]
        /\ jar = NoToken
  /\ lock \in {NoTab, NoLocks}
  /\ \E p \in [Tab -> {"home", "profile"}] : tab = [t \in Tab |-> Preflight(Fresh(p[t]), jar)]
  /\ losses = 0
  /\ happened = 0

\* What need not happen, and happens only so often.
Event == happened < MaxEvents /\ happened' = happened + 1

Becomes(t, d) == tab' = [tab EXCEPT ![t] = d]

OnlyTab == UNCHANGED <<server, jar, lock, losses>>
Uneventful == UNCHANGED <<losses, happened>>

-----------------------------------------------------------------------------
(* A refresh, step by step                                                   *)

Step(t, r) == Becomes(t, [tab[t] EXCEPT !.refresh = r])

\* performRefreshAttempt reads the cookies and sends; without them it fails
\* at once.
Sending(r) ==
  IF jar = NoToken THEN [r EXCEPT !.at = "read", !.sent = NoToken, !.answer = "dead"]
                   ELSE [r EXCEPT !.at = "sent", !.sent = jar]

\* navigator.locks.request grants the lock, where the browser has locks.
Locked(t) ==
  /\ tab[t].refresh.at = "lock"
  /\ \/ lock = NoTab /\ lock' = t
     \/ lock = NoLocks /\ UNCHANGED lock
  /\ Step(t, Sending(tab[t].refresh))
  /\ UNCHANGED <<server, jar>> /\ Uneventful

\* Mutant of Resend: the marker read for the first attempt is used again.
ResendSame(t) ==
  /\ tab[t].refresh.at = "pause"
  /\ Step(t, [tab[t].refresh EXCEPT !.at = "sent"])
  /\ UNCHANGED <<server, jar, lock>> /\ Uneventful

\* The delay of performRefresh is over.
Resend(t) ==
  /\ tab[t].refresh.at = "pause"
  /\ Step(t, Sending(tab[t].refresh))
  /\ UNCHANGED <<server, jar, lock>> /\ Uneventful

\* POST /auth/refresh: Handler.Refresh over Repository.Rotate.
Serve(t) ==
  /\ tab[t].refresh.at = "sent"
  /\ LET k == tab[t].refresh.sent
         s == server[k.family]
         answered(a, n) == Step(t, [tab[t].refresh EXCEPT !.at = "answered", !.answer = a,
                                                          !.sent.number = n])
     IN  \/ /\ k.number \in s.recent
            /\ answered("conflict", k.number)
            /\ UNCHANGED server
         \/ /\ k.number \notin s.recent
            /\ s.is = "live" /\ k.number = s.current
            /\ server' = [server EXCEPT ![k.family].current = @ + 1,
                                        ![k.family].recent = @ \cup {k.number}]
            /\ answered("ok", k.number + 1)
         \/ /\ k.number \notin s.recent
            /\ s.is # "live" \/ k.number # s.current
            /\ server' = [server EXCEPT ![k.family].is = IF s.is = "live" THEN "reused" ELSE s.is]
            /\ answered("dead", k.number)
  /\ UNCHANGED <<jar, lock>> /\ Uneventful

\* The request is not served: no connection, a time-out, a server error.
Fail(t) ==
  /\ tab[t].refresh.at = "sent"
  /\ Step(t, [tab[t].refresh EXCEPT !.at = "read", !.answer = "failed"])
  /\ UNCHANGED <<server, jar, lock>> /\ Uneventful

\* The server acted, and its answer and cookies do not reach the browser.
Lose(t) ==
  /\ tab[t].refresh.at = "answered"
  /\ losses < MaxLosses
  /\ losses' = losses + 1
  /\ Step(t, [tab[t].refresh EXCEPT !.at = "read", !.answer = "failed"])
  /\ UNCHANGED <<server, jar, lock, happened>>

\* The browser takes the cookies of the answer; no JavaScript has run yet.
Arrive(t) ==
  LET r == tab[t].refresh IN
  /\ r.at = "answered"
  /\ jar' = CASE r.answer = "ok" -> r.sent
              [] r.answer = "dead" -> NoToken
              [] OTHER -> jar
  /\ Step(t, [r EXCEPT !.at = "read"])
  /\ UNCHANGED <<server, lock>> /\ Uneventful

\* performRefresh tries again after a conflict and, when a restore asked for
\* it, after a failure.
Again(r) ==
  /\ r.answer \in {"conflict", "failed"}
  /\ r.answer = "conflict" \/ r.patient
  /\ r.retries < IF r.patient THEN RestoreRetries ELSE ConflictRetries

\* The attempt returns in performRefresh, and the refresh with it unless it
\* is tried again.
Settle(t) ==
  LET d == tab[t]
      r == d.refresh
  IN
  /\ r.at = "read"
  /\ IF Again(r)
     THEN Step(t, [r EXCEPT !.at = "pause", !.retries = @ + 1]) /\ UNCHANGED lock
     ELSE /\ Becomes(t, CASE r.answer = "ok" -> Refreshed(d, r.sent, jar)
                          [] r.answer = "dead" -> Ended(d, jar)
                          [] OTHER -> Failed(d))
          /\ lock' = IF lock = t THEN NoTab ELSE lock
  /\ UNCHANGED <<server, jar>> /\ Uneventful

\* The rotation is older than refreshRotationGrace.  No request and no answer
\* travels that long, other than those that count as lost: once the answer to
\* the rotation is lost, the browser goes on sending the token it has.
GraceEnds(f) ==
  /\ server[f].recent # {}
  /\ \A t \in Tab :
       LET r == tab[t].refresh
       IN  r.at \in {"sent", "answered"} /\ r.sent.family = f =>
             r.answer # "ok" /\ jar.family = f /\ jar.number \in server[f].recent
  /\ server' = [server EXCEPT ![f].recent = {}]
  /\ UNCHANGED <<jar, lock, tab>> /\ Uneventful

-----------------------------------------------------------------------------
(* The recovery of a restore that failed                                     *)

\* The timer of AUTO_RESTORE_DELAYS_MS: requestRetry.
TimerFires(t) ==
  /\ tab[t].recoverable /\ tab[t].timer
  /\ Becomes(t, IF tab[t].awake THEN Retried(tab[t], jar) ELSE [tab[t] EXCEPT !.timer = FALSE])
  /\ OnlyTab /\ UNCHANGED happened

\* The tab is hidden or offline.
Sleep(t) ==
  /\ tab[t].awake /\ Event
  /\ Becomes(t, [tab[t] EXCEPT !.awake = FALSE])
  /\ OnlyTab

\* Mutant of Wake: only the timer tries again.
WakeIdle(t) ==
  /\ ~ tab[t].awake
  /\ Becomes(t, [tab[t] EXCEPT !.awake = TRUE])
  /\ OnlyTab /\ UNCHANGED happened

\* subscribeToSessionResume: online, pageshow, visibilitychange.
Wake(t) ==
  /\ ~ tab[t].awake
  /\ LET d == [tab[t] EXCEPT !.awake = TRUE]
     IN  Becomes(t, IF d.recoverable THEN Retried(d, jar) ELSE d)
  /\ OnlyTab /\ UNCHANGED happened

-----------------------------------------------------------------------------
(* What the pages and the learner do                                         *)

\* The pathname changes; the focused routes need a session.
Navigate(t, p) ==
  /\ tab[t].path # p /\ Event
  /\ Becomes(t, Preflight([tab[t] EXCEPT !.path = p], jar))
  /\ OnlyTab

\* The learner loads the page anew.
Reload(t) ==
  /\ tab[t].refresh.at \in {"none", "read"} /\ Event
  /\ Becomes(t, Preflight(Fresh(tab[t].path), jar))
  /\ lock' = IF lock = t THEN NoTab ELSE lock
  /\ UNCHANGED <<server, jar, losses>>

\* authorizedJSON: a request was answered 401.
Unauthorized(t) ==
  /\ SignedIn(tab[t]) /\ tab[t].call = NoCall /\ Event
  /\ Becomes(t, Refreshing([tab[t] EXCEPT !.call = [at |-> "refresh", used |-> tab[t].page,
                                                    got |-> NoToken]], FALSE))
  /\ OnlyTab

\* The request sent again returns, and the page adopts the session it used.
CallReturns(t) ==
  LET d == [tab[t] EXCEPT !.call = NoCall]
      g == tab[t].call.got
  IN
  /\ tab[t].call.at = "resent"
  /\ \/ Becomes(t, d)
     \/ g # tab[t].call.used /\ Becomes(t, Adopted(d, g, jar))
  /\ OnlyTab /\ UNCHANGED happened

\* syncPendingReviews: a delivery was answered 401.
QueueRefreshes(t) ==
  /\ SignedIn(tab[t]) /\ tab[t].refresh.at = "none" /\ Event
  /\ Becomes(t, Refreshing(tab[t], FALSE))
  /\ OnlyTab

\* A request of an account panel was answered 401: onSessionExpired.
PanelExpired(t) ==
  /\ SignedIn(tab[t]) /\ tab[t].path = "profile" /\ Event
  /\ Becomes(t, Retried(tab[t], jar))
  /\ OnlyTab

\* logout of LexigoProfileApp; the server ends the family of the cookie.
Logout(t) ==
  /\ SignedIn(tab[t]) /\ tab[t].path = "profile" /\ ~ tab[t].logout
  /\ jar # NoToken /\ Event
  /\ server' = [server EXCEPT ![jar.family].is = IF @ = "live" THEN "over" ELSE @]
  /\ Becomes(t, [tab[t] EXCEPT !.logout = TRUE])
  /\ UNCHANGED <<jar, lock, losses>>

\* Its answer: the cookies are cleared, and handleLoggedOut goes home.
LoggedOut(t) ==
  /\ tab[t].logout
  /\ jar' = NoToken
  /\ Becomes(t, [tab[t] EXCEPT !.logout = FALSE, !.suppressed = TRUE, !.awaiting = FALSE,
                               !.leaving = TRUE, !.path = "home"])
  /\ UNCHANGED <<server, lock>> /\ Uneventful

\* finalizeLoggedOut, from a timer once the path is that of the home page.
Finalize(t) ==
  /\ tab[t].leaving /\ tab[t].path = "home"
  /\ Becomes(t, [tab[t] EXCEPT !.cache = NoCache, !.page = Guest, !.recoverable = FALSE,
                               !.leaving = FALSE])
  /\ OnlyTab /\ UNCHANGED happened

\* submitAuth of LexigoPremiumApp: the cookies of a new session, and the home
\* page.  (The view shows the learner by its own state; the page of the document
\* follows with the path.)
Login(t) ==
  /\ tab[t].page = Guest /\ tab[t].path = "profile" /\ Event
  /\ \E f \in Family :
       /\ server[f] = Unused
       /\ \A g \in Family : g < f => server[g] # Unused
       /\ server' = [server EXCEPT ![f] = Opened]
       /\ jar' = [family |-> f, number |-> 1]
       /\ Becomes(t, Preflight([tab[t] EXCEPT !.path = "home"], jar'))
  /\ UNCHANGED <<lock, losses>>

\* The account is deleted in this tab, or its new e-mail confirmed.
CloseAccount(t) ==
  /\ tab[t].path = "profile" /\ SignedIn(tab[t]) /\ jar # NoToken /\ Event
  /\ server' = [server EXCEPT ![jar.family].is = IF @ = "live" THEN "over" ELSE @]
  /\ jar' = NoToken
  /\ Becomes(t, Closed(tab[t]))
  /\ UNCHANGED <<lock, losses>>

\* The session is revoked from another device.
Revoke(f) ==
  /\ server[f].is = "live" /\ Event
  /\ server' = [server EXCEPT ![f].is = "over"]
  /\ UNCHANGED <<jar, lock, tab, losses>>

-----------------------------------------------------------------------------

Refresh(t) ==
  Locked(t) \/ Resend(t) \/ Serve(t) \/ Fail(t) \/ Lose(t) \/ Arrive(t) \/ Settle(t)

Next ==
  \/ \E t \in Tab :
       \/ Refresh(t) \/ TimerFires(t) \/ Sleep(t) \/ Wake(t) \/ Reload(t)
       \/ \E p \in {"home", "profile", "lesson"} : Navigate(t, p)
       \/ Unauthorized(t) \/ CallReturns(t) \/ QueueRefreshes(t) \/ PanelExpired(t)
       \/ Logout(t) \/ LoggedOut(t) \/ Finalize(t) \/ Login(t) \/ CloseAccount(t)
  \/ \E f \in Family : GraceEnds(f) \/ Revoke(f)

Spec == Init /\ [][Next]_vars

\* What the browser runs by itself.
Handler(t) ==
  Resend(t) \/ Arrive(t) \/ Settle(t) \/ TimerFires(t) \/ Wake(t) \/ Finalize(t)

\* The browser runs the handlers it has to run, a tab is not asleep for ever,
\* and requests sent again and again do not all fail.
Fairness ==
  /\ \A t \in Tab : WF_vars(Handler(t)) /\ SF_vars(Locked(t)) /\ SF_vars(Serve(t))
  /\ \A f \in Family : WF_vars(GraceEnds(f))

FairSpec == Spec /\ Fairness

-----------------------------------------------------------------------------
(* Properties                                                                *)

\* No race of two tabs, of a retry and the answer it did not wait for, or of a
\* refresh and a sign-in makes the server see a token used twice: that ends
\* the session of the learner, and takes the loss of an answer
\* (performRefreshAttempt reads the cookie anew for every attempt).
ReuseTakesALoss ==
  (\E f \in Family : server[f].is = "reused") => losses > 0

\* A tab that is restoring the session comes to show the learner or the guest,
\* however often its requests fail and whenever it is hidden.
RestoreSettles ==
  \A t \in Tab : tab[t].page = Booting ~> tab[t].page # Booting

\* A restore that fails for want of a connection or of an answer, or because
\* another tab was first, never presents the learner as a guest: that takes
\* the end of the session the tab asked for ("retry instead of presenting a
\* false logout").
NoFalseLogout ==
  [][\A t \in Tab :
       tab[t].page = Booting /\ tab'[t].page = Guest =>
         \/ jar' = NoToken \/ tab[t].leaving
         \/ LET k == tab[t].refresh.sent
            IN  k = NoToken \/ server[k.family].is # "live"]_vars

=============================================================================
