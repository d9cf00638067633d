-------------------------- MODULE AccountPanels --------------------------
(***************************************************************************)
(* The panels of an account on the profile page (src/frontend/components/    *)
(* account-security-panel.tsx, account-email-panel.tsx,                       *)
(* account-data-panel.tsx, src/frontend/lib/account-api.ts) and what the      *)
(* server makes of their requests (backend/internal/auth/                    *)
(* account_security_http.go, backend/internal/account/http.go). The requests  *)
(* carry the access token the panel was given and the refresh token the       *)
(* browser has when they are sent; nothing aborts them, and a panel that is    *)
(* gone still takes their answers to the document.                           *)
(*                                                                         *)
(* The refresh of the session is that of TabSessions in one step; a refresh   *)
(* whose answer is lost is left to that module.                              *)
(***************************************************************************)
EXTENDS Naturals

CONSTANTS
  Other,      \* the other devices of the learner
  Slot,       \* bound: requests under way
  MaxEvents   \* bound: what the learner, the net, other tabs and devices do

VARIABLES
  server,     \* the account, its credential version and its sessions
  cookie,     \* the refresh token of the browser, 0 when there is none
  page,       \* the session of the document, the version its access token has, and the path
  panels,     \* what each panel shows
  calls,      \* the requests under way
  crossed,    \* a request came with a refresh token that had just been replaced
  happened

vars == <<server, cookie, page, panels, calls, crossed, happened>>

Here == "this browser"
Device == Other \cup {Here}
Change == {"password", "sessions"}
Form == Change \cup {"email", "export", "delete"}
Panel == {"security", "email", "data"}
PanelOf(form) == IF form \in Change THEN "security" ELSE IF form = "email" THEN "email" ELSE "data"

Version == 0..(MaxEvents + 1)   \* 0 is that of an access token that has expired
NoCall == [kind |-> "none", version |-> 0, token |-> 0, at |-> "none", answer |-> "none",
           mine |-> FALSE, ends |-> FALSE, list |-> {}]

\* The panels of a document that has just been given a session.
Mounted == [busy |-> {}, notice |-> [p \in Panel |-> "none"], error |-> {}, list |-> {}, loading |-> FALSE]

TypeOK ==
  /\ server \in [open : BOOLEAN, live : SUBSET Device, since : SUBSET Other, version : Version, current : Nat]
  /\ cookie \in Nat
  /\ page \in [is : {"live", "restoring", "guest"}, version : Version, path : {"profile", "away"},
               wants : BOOLEAN]
  /\ panels \in [busy : SUBSET Panel, notice : [Panel -> Form \cup {"none"}], error : SUBSET Panel,
                 list : SUBSET Device, loading : BOOLEAN]
  /\ calls \in [Slot -> [kind : Form \cup {"load", "none"}, version : Version, token : Nat,
                         at : {"none", "sent", "admitted", "answered"},
                         answer : {"none", "ok", "unauthorized", "over", "refused", "failed"},
                         mine : BOOLEAN, ends : BOOLEAN, list : SUBSET Device]]
  /\ crossed \in BOOLEAN /\ happened \in 0..MaxEvents

Init ==
  /\ server = [open |-> TRUE, live |-> Device, since |-> {}, version |-> 1, current |-> 1]
  /\ cookie = 1
  /\ page = [is |-> "live", version |-> 1, path |-> "profile", wants |-> TRUE]
  /\ panels = Mounted
  /\ calls = [s \in Slot |-> NoCall]
  /\ crossed = FALSE /\ happened = 0

Event == happened < MaxEvents /\ happened' = happened + 1
Shown == page.is = "live" /\ page.path = "profile"

-----------------------------------------------------------------------------
(* The session of the document                                               *)

\* handleSessionUpdated: the panels are there from now on, or stay what they are,
\* and the effect of the list comes with the new session.
Adopted(p, version) == [p EXCEPT !.is = "live", !.version = version, !.wants = (p.path = "profile")]
PanelsOf(p, q) == IF p.is = "live" THEN q ELSE Mounted

\* The panels are gone, and with them whoever would show the answers.
Orphaned(c) == [s \in Slot |-> [c[s] EXCEPT !.mine = FALSE]]

Closes(is, path) ==
  /\ page' = [is |-> is, version |-> 0, path |-> path, wants |-> FALSE]
  /\ panels' = Mounted

\* The refresh of the session, as far as the cookie carries it.
Refreshed ==
  \/ /\ cookie = server.current /\ Here \in server.live
     /\ server' = [server EXCEPT !.current = @ + 1]
     /\ cookie' = server.current + 1
     /\ page' = Adopted(page, server.version)
     /\ panels' = PanelsOf(page, panels)
     /\ UNCHANGED calls
  \/ /\ ~(cookie = server.current /\ Here \in server.live)
     /\ cookie' = 0
     /\ Closes("guest", "profile")
     /\ calls' = Orphaned(calls)
     /\ UNCHANGED server

\* retryRestore of a panel that was told its session has expired.
Restored ==
  /\ page.is = "restoring"
  /\ Refreshed
  /\ UNCHANGED <<crossed, happened>>

\* A request of the page itself is answered 401.
PageRefreshes ==
  /\ page.is = "live" /\ page.version # server.version
  /\ Event
  /\ Refreshed
  /\ UNCHANGED crossed

AccessExpires ==
  /\ page.is = "live" /\ page.version # 0
  /\ Event
  /\ page' = [page EXCEPT !.version = 0]
  /\ UNCHANGED <<server, cookie, panels, calls, crossed>>

\* The panels of a path that is left keep what they have.
Navigate ==
  /\ page.is = "live"
  /\ Event
  /\ page' = [page EXCEPT !.path = IF @ = "profile" THEN "away" ELSE "profile",
                          !.wants = (page.path = "away")]
  /\ UNCHANGED <<server, cookie, panels, calls, crossed>>

-----------------------------------------------------------------------------
(* The requests                                                              *)

Request(kind, version) ==
  [NoCall EXCEPT !.kind = kind, !.version = version, !.token = cookie, !.at = "sent", !.mine = TRUE]

Sends(s, call) == calls[s] = NoCall /\ calls' = [calls EXCEPT ![s] = call]

\* loadSecurityData: the timer of the effect, or the button.
LoadSecurityData(s) ==
  /\ Shown
  /\ \/ page.wants /\ UNCHANGED happened
     \/ ~page.wants /\ ~panels.loading /\ Event
  /\ Sends(s, Request("load", page.version))
  /\ page' = [page EXCEPT !.wants = FALSE]
  /\ panels' = [panels EXCEPT !.loading = TRUE, !.error = @ \ {"security"}]
  /\ UNCHANGED <<server, cookie, crossed>>

Submit(s, form) ==
  LET p == PanelOf(form)
  IN  /\ Shown
      /\ p \notin panels.busy
      /\ Event
      /\ Sends(s, Request(form, page.version))
      /\ panels' = [panels EXCEPT !.busy = @ \cup {p}, !.notice[p] = "none", !.error = @ \ {p}]
      /\ UNCHANGED <<server, cookie, page, crossed>>

Answers(s, answer) == calls' = [calls EXCEPT ![s].at = "answered", ![s].answer = answer]

\* ValidateAccess, before the handler.
Admit(s) ==
  /\ calls[s].at = "sent"
  /\ \/ /\ server.open /\ calls[s].version = server.version
        /\ calls' = [calls EXCEPT ![s].at = "admitted"]
     \/ /\ ~(server.open /\ calls[s].version = server.version)
        /\ Answers(s, "unauthorized")
  /\ UNCHANGED <<server, cookie, page, panels, crossed, happened>>

\* Not the code: the session that asks is ended with the others.
EndsAll == [server EXCEPT !.live = {}, !.since = {}, !.version = @ + 1]

\* ChangePasswordAndRevokeOtherSessions, RevokeOtherSessions.
EndsOthers == [server EXCEPT !.live = {Here}, !.since = {}, !.version = @ + 1]

\* currentActiveFamily finds the session by the very token the request came with.
Current(call) == Here \in server.live /\ call.token = server.current

Serve(s) ==
  LET call == calls[s]
  IN  /\ call.at = "admitted"
      /\ crossed' = (crossed \/ (call.kind \in Change \cup {"load"} /\ Here \in server.live
                                   /\ call.token # server.current))
      /\ \/ /\ call.kind \in Change \cup {"load"} /\ server.open /\ ~Current(call)
            /\ Answers(s, "over")
            /\ UNCHANGED server
         \/ /\ call.kind = "load" /\ Current(call)
            /\ calls' = [calls EXCEPT ![s].at = "answered", ![s].answer = "ok", ![s].list = server.live]
            /\ UNCHANGED server
         \/ /\ call.kind = "load" /\ ~server.open
            /\ Answers(s, "over")
            /\ UNCHANGED server
         \/ /\ call.kind \in Change /\ Current(call)
            /\ server' = EndsOthers
            /\ calls' = [calls EXCEPT ![s].at = "answered", ![s].answer = "ok",
                                      ![s].version = server.version + 1]
         \/ /\ call.kind \in {"email", "export"} /\ server.open
            /\ Answers(s, "ok")
            /\ UNCHANGED server
         \/ /\ call.kind = "delete" /\ server.open
            /\ server' = [server EXCEPT !.open = FALSE, !.live = {}, !.since = {}]
            /\ Answers(s, "ok")
         \* The password is wrong, or there is no account any more.
         \/ /\ call.kind \in Form
            /\ Answers(s, "refused")
            /\ UNCHANGED server
      /\ UNCHANGED <<cookie, page, panels, happened>>

\* The answer, or the request, does not get through.
Lose(s) ==
  /\ calls[s].at # "none" /\ calls[s].answer # "failed"
  /\ Event
  /\ Answers(s, "failed")
  /\ UNCHANGED <<server, cookie, page, panels, crossed>>

-----------------------------------------------------------------------------
(* The answers                                                               *)

Ended(s) == calls' = [calls EXCEPT ![s] = NoCall]
Answered(s, answer) == calls[s].at = "answered" /\ calls[s].answer = answer

\* handleRequestError, whether the panel is still there or not.
Expire(s) ==
  /\ Answered(s, "unauthorized") \/ Answered(s, "over")
  /\ cookie' = IF calls[s].answer = "over" THEN 0 ELSE cookie
  /\ Closes("restoring", page.path)
  /\ calls' = [Orphaned(calls) EXCEPT ![s] = NoCall]
  /\ UNCHANGED <<server, crossed, happened>>

Listed(s) ==
  /\ calls[s].kind = "load" /\ Answered(s, "ok")
  /\ panels' = IF calls[s].mine
               THEN [panels EXCEPT !.list = calls[s].list, !.loading = FALSE,
                                   !.busy = IF calls[s].ends THEN @ \ {"security"} ELSE @]
               ELSE panels
  /\ Ended(s)
  /\ UNCHANGED <<server, cookie, page, crossed, happened>>

\* changePassword and revokeOtherSessions: the document has a new session, and
\* the list is loaded with it before the form is free again.
Changed(s) ==
  LET call == calls[s]
  IN  /\ call.kind \in Change /\ Answered(s, "ok")
      /\ page' = Adopted(page, call.version)
      /\ panels' = IF call.mine
                   THEN [panels EXCEPT !.notice["security"] = call.kind, !.loading = TRUE,
                                       !.error = @ \ {"security"}]
                   ELSE PanelsOf(page, panels)
      /\ calls' = [calls EXCEPT ![s] = [Request("load", call.version) EXCEPT !.mine = call.mine,
                                                                            !.ends = TRUE]]
      /\ UNCHANGED <<server, cookie, crossed, happened>>

\* requestEmailChange, exportData.
Done(s) ==
  LET p == PanelOf(calls[s].kind)
  IN  /\ calls[s].kind \in {"email", "export"} /\ Answered(s, "ok")
      /\ panels' = IF calls[s].mine
                   THEN [panels EXCEPT !.busy = @ \ {p}, !.notice[p] = calls[s].kind] ELSE panels
      /\ Ended(s)
      /\ UNCHANGED <<server, cookie, page, crossed, happened>>

\* handleAccountDeleted.
Deleted(s) ==
  /\ calls[s].kind = "delete" /\ Answered(s, "ok")
  /\ cookie' = 0
  /\ Closes("guest", "profile")
  /\ calls' = [Orphaned(calls) EXCEPT ![s] = NoCall]
  /\ UNCHANGED <<server, crossed, happened>>

\* A wrong password, or no answer: the form says so.
Fails(s) ==
  LET call == calls[s]
      p == IF call.kind = "load" THEN "security" ELSE PanelOf(call.kind)
  IN  /\ Answered(s, "refused") \/ Answered(s, "failed")
      /\ panels' = IF ~call.mine THEN panels
                   ELSE [panels EXCEPT !.error = @ \cup {p},
                                       !.loading = IF call.kind = "load" THEN FALSE ELSE @,
                                       !.busy = IF call.kind # "load" \/ call.ends THEN @ \ {p} ELSE @]
      /\ Ended(s)
      /\ UNCHANGED <<server, cookie, page, crossed, happened>>

-----------------------------------------------------------------------------
(* Other tabs and devices                                                    *)

\* Another tab refreshes the session they share.
RefreshElsewhere ==
  /\ cookie = server.current /\ Here \in server.live
  /\ Event
  /\ server' = [server EXCEPT !.current = @ + 1]
  /\ cookie' = server.current + 1
  /\ UNCHANGED <<page, panels, calls, crossed>>

SignIn(d) ==
  /\ server.open /\ d \notin server.live
  /\ Event
  /\ server' = [server EXCEPT !.live = @ \cup {d}, !.since = @ \cup {d}]
  /\ UNCHANGED <<cookie, page, panels, calls, crossed>>

\* Another device ends the sessions of the others.
CutOff(d) ==
  /\ d \in server.live
  /\ Event
  /\ server' = [server EXCEPT !.live = {d}, !.since = @ \cap {d}, !.version = @ + 1]
  /\ UNCHANGED <<cookie, page, panels, calls, crossed>>

Handler ==
  \/ Restored
  \/ \E s \in Slot :
       \/ page.wants /\ LoadSecurityData(s)
       \/ Admit(s) \/ Serve(s)
       \/ Expire(s) \/ Listed(s) \/ Changed(s) \/ Done(s) \/ Deleted(s) \/ Fails(s)

Next ==
  \/ Handler
  \/ PageRefreshes \/ AccessExpires \/ Navigate \/ RefreshElsewhere
  \/ \E s \in Slot :
       \/ ~page.wants /\ LoadSecurityData(s)
       \/ Lose(s)
       \/ \E form \in Form : Submit(s, form)
  \/ \E d \in Other : SignIn(d) \/ CutOff(d)

-----------------------------------------------------------------------------

\* What the learner does here never costs the session of this browser: the
\* document ends as a guest's only when the account is gone or another device,
\* signed in itself, ended the session, whichever answers are lost, late or of a token that was
\* valid when it was sent - or when a refresh replaced the refresh token a request
\* was under way with, which clears the cookies of a session that lives on
\* (AccountSessions, ChangePassword, RevokeOtherSessions). And a form that says the
\* other sessions are over is right: whoever has one has signed in since.
ChangesKeepThisSession ==
  /\ page.is = "guest" /\ ~crossed =>
       Here \notin server.live /\ (server.open => \E d \in Other : d \in server.live)
  /\ panels.notice["security"] # "none" => server.live \subseteq server.since \cup {Here}

=============================================================================
