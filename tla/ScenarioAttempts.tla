-------------------------- MODULE ScenarioAttempts --------------------------
(***************************************************************************)
(* Working scenarios: the attempts of one learner at one scenario in the     *)
(* tables of the server (internal/scenarios/repository.go) and the pages      *)
(* that work on them (components/lexigo-scenario-app.tsx, lib/scenarios.ts), *)
(* one in each tab, with the drafts each keeps in its sessionStorage.         *)
(***************************************************************************)
EXTENDS Naturals, Sequences

CONSTANTS
  Tab,          \* tabs of the browser
  Text,         \* answers that the learner may type, all long enough
  Empty,        \* the empty answer
  None,         \* no attempt, no request, nothing
  Steps,        \* number of steps of the scenario
  MaxAttempts,  \* bound on the attempts
  MaxEvents     \* bound on what the learner does and on failures: see Event

VARIABLES
  attempts, \* the rows of scenario_attempts with their accepted steps
  page,     \* what each tab shows
  saved,    \* the drafts in the sessionStorage of each tab
  typed,    \* the last answer typed in each tab for a step (a history variable)
  call,     \* the request a tab waits for
  late,     \* requests that nobody waits for any more and that may still arrive
  ids,      \* number of submission ids made so far
  happened  \* number of events so far

vars == <<attempts, page, saved, typed, call, late, ids, happened>>

\* A step of an attempt: what a draft belongs to (attemptDraftOwner).
Place == (1..MaxAttempts) \X (0..Steps - 1)
Draft == Text \cup {Empty}

\* An attempt as an answer shows it.
Snapshot(n) ==
  [n |-> n, status |-> attempts[n].status, position |-> attempts[n].position, version |-> attempts[n].version]

HasStep(a) == a # None /\ a.status # "completed"
PlaceOf(a) == <<a.n, a.position>>

Closed == [at |-> "closed", attempt |-> None, draft |-> Empty, owner |-> None,
           identity |-> None, feedback |-> None, dialog |-> FALSE]

Init ==
  /\ attempts = <<>>
  /\ page = [t \in Tab |-> Closed]
  /\ saved = [t \in Tab |-> [p \in Place |-> Empty]]
  /\ typed = [t \in Tab |-> [p \in Place |-> Empty]]
  /\ call = [t \in Tab |-> None]
  /\ late = {}
  /\ ids = 0
  /\ happened = 0

Event == happened < MaxEvents /\ happened' = happened + 1

-----------------------------------------------------------------------------
(* The page                                                                  *)

\* The effect that keeps the draft on the device.
Kept(p, drafts) ==
  IF HasStep(p.attempt) /\ p.feedback = None /\ p.owner = PlaceOf(p.attempt)
  THEN [drafts EXCEPT ![p.owner] = p.draft] ELSE drafts

\* The page of tab t becomes p.
Shows(t, p) ==
  /\ page' = [page EXCEPT ![t] = p]
  /\ saved' = [saved EXCEPT ![t] = Kept(p, @)]

\* adoptAttempt: the page of tab t with attempt a.
Adopted(t, a, preserve) ==
  LET p == page[t] IN
  IF ~HasStep(a) THEN [p EXCEPT !.attempt = a, !.draft = Empty, !.owner = None, !.identity = None]
  ELSE IF preserve /\ p.owner = PlaceOf(a) THEN [p EXCEPT !.attempt = a]
  ELSE [p EXCEPT !.attempt = a, !.draft = saved[t][PlaceOf(a)], !.owner = PlaceOf(a), !.identity = None]

Is(t, status) == page[t].attempt # None /\ page[t].attempt.status = status
Usable(t) == page[t].at = "shown"
Idle(t) == Usable(t) /\ call[t] = None
Editing(t) == Idle(t) /\ Is(t, "active") /\ page[t].feedback = None /\ ~page[t].dialog

\* The page is gone; its request may still reach the server.
Gone(t) ==
  /\ late' = late \cup (IF call[t] # None /\ call[t].answer = "sent" THEN {call[t]} ELSE {})
  /\ call' = [call EXCEPT ![t] = None]

\* The scenario is opened, or the tab is loaded again: all that the page held
\* is gone, the sessionStorage stays.
Open(t) ==
  /\ page[t].at # "closed" => Event
  /\ page[t].at = "closed" => UNCHANGED happened
  /\ page' = [page EXCEPT ![t] = [Closed EXCEPT !.at = "loading"]]
  /\ Gone(t)
  /\ UNCHANGED <<attempts, saved, typed, ids>>

\* loadScenario.
DetailLoads(t) ==
  /\ page[t].at = "loading"
  /\ page' = [page EXCEPT ![t].at = "shown"]
  /\ UNCHANGED <<attempts, saved, typed, call, late, ids, happened>>

DetailFails(t) ==
  /\ Event
  /\ page[t].at = "loading"
  /\ page' = [page EXCEPT ![t].at = "failed"]
  /\ UNCHANGED <<attempts, saved, typed, call, late, ids>>

\* The button of the failed page; or the session of the page changed, and the
\* effect loads the scenario again under the attempt the page works on.
DetailAgain(t) ==
  /\ Event
  /\ page[t].at \in {"failed", "shown"}
  /\ page' = [page EXCEPT ![t].at = "loading"]
  /\ UNCHANGED <<attempts, saved, typed, call, late, ids>>

Edit(t, text) ==
  /\ Event
  /\ Editing(t)
  /\ text # page[t].draft
  /\ Shows(t, [page[t] EXCEPT !.draft = text])
  /\ typed' = [typed EXCEPT ![t][page[t].owner] = text]
  /\ UNCHANGED <<attempts, call, late, ids>>

Request(is, a) == [is |-> is, n |-> a.n, position |-> a.position, version |-> a.version,
                   id |-> 0, draft |-> Empty, leaves |-> FALSE, answer |-> "sent"]
Sends(t, r) == call' = [call EXCEPT ![t] = r]

StartAttempt(t) ==
  /\ Idle(t)
  /\ page[t].attempt = None
  /\ Sends(t, Request("start", [n |-> 0, position |-> 0, version |-> 0]))
  /\ UNCHANGED <<attempts, page, saved, typed, late, ids, happened>>

ResumeAttempt(t) ==
  /\ Event
  /\ Idle(t)
  /\ Is(t, "paused")
  /\ page[t].feedback = None
  /\ ~page[t].dialog
  /\ Sends(t, Request("resume", page[t].attempt))
  /\ UNCHANGED <<attempts, page, saved, typed, late, ids>>

\* pauseAttempt(false), and pauseAttempt(true) from the dialog, which the
\* feedback of the last step does not prevent: the draft is written first.
PauseAttempt(t) ==
  /\ Event
  /\ Idle(t)
  /\ Is(t, "active")
  /\ page[t].feedback # None => page[t].dialog
  /\ saved' = [saved EXCEPT ![t][PlaceOf(page[t].attempt)] = page[t].draft]
  /\ Sends(t, [Request("pause", page[t].attempt) EXCEPT !.leaves = page[t].dialog])
  /\ UNCHANGED <<attempts, page, typed, late, ids>>

\* pauseAttempt(true) of an attempt that is not active, and leaveCompleted.
Leave(t) ==
  /\ Usable(t)
  /\ Is(t, "paused") \/ Is(t, "completed")
  /\ page[t].dialog => call[t] = None
  /\ page' = [page EXCEPT ![t] = Closed]
  /\ saved' = IF page[t].dialog /\ HasStep(page[t].attempt)
              THEN [saved EXCEPT ![t][PlaceOf(page[t].attempt)] = page[t].draft] ELSE saved
  /\ Gone(t)
  /\ UNCHANGED <<attempts, typed, ids, happened>>

\* The dialog opens while a request is under way, and over the feedback too.
OpenDialog(t) ==
  /\ Event
  /\ Usable(t)
  /\ Is(t, "active")
  /\ ~page[t].dialog
  /\ page' = [page EXCEPT ![t].dialog = TRUE]
  /\ UNCHANGED <<attempts, saved, typed, call, late, ids>>

CloseDialog(t) ==
  /\ Idle(t)
  /\ page[t].dialog
  /\ page' = [page EXCEPT ![t].dialog = FALSE]
  /\ UNCHANGED <<attempts, saved, typed, call, late, ids, happened>>

\* resolveScenarioSubmissionIdentity: an answer that was not edited keeps its id.
Identity(t) ==
  LET i == page[t].identity IN
  IF i # None /\ i.draft = page[t].draft THEN i ELSE [draft |-> page[t].draft, id |-> ids + 1]

SubmitStep(t) ==
  /\ Editing(t)
  /\ page[t].draft # Empty
  /\ page' = [page EXCEPT ![t].identity = Identity(t)]
  /\ ids' = IF Identity(t).id > ids THEN Identity(t).id ELSE ids
  /\ saved' = [saved EXCEPT ![t][PlaceOf(page[t].attempt)] = page[t].draft]
  /\ Sends(t, [Request("submit", page[t].attempt) EXCEPT !.id = Identity(t).id, !.draft = page[t].draft])
  /\ UNCHANGED <<attempts, typed, late, happened>>

\* continueAfterFeedback.
Continue(t) ==
  /\ Idle(t)
  /\ page[t].feedback # None
  /\ ~page[t].dialog
  /\ Shows(t, [Adopted(t, page[t].attempt, FALSE) EXCEPT !.feedback = None])
  /\ UNCHANGED <<attempts, typed, call, late, ids, happened>>

-----------------------------------------------------------------------------
(* The server                                                                *)

IsOpen(n) == attempts[n].status # "completed"

\* Start: the attempt that is open, or a new one.
Started ==
  IF \E n \in DOMAIN attempts : IsOpen(n) THEN attempts
  ELSE Append(attempts, [status |-> "active", position |-> 0, version |-> 1, accepted |-> <<>>])

\* setStatus.
SetStatus(r, status) ==
  LET a == attempts[r.n] IN
  IF a.version # r.version \/ ~IsOpen(r.n) THEN [answer |-> "conflict", attempts |-> attempts]
  ELSE [answer |-> "done",
        attempts |-> IF a.status = status THEN attempts
                     ELSE [attempts EXCEPT ![r.n].status = status, ![r.n].version = @ + 1]]

\* hashSubmission.
Hash(r) == <<r.position, r.version, r.draft>>

Accepts(r) ==
  [attempts EXCEPT ![r.n] =
     [status |-> IF r.position + 1 >= Steps THEN "completed" ELSE "active",
      position |-> r.position + 1,
      version |-> @.version + 1,
      accepted |-> Append(@.accepted, [id |-> r.id, hash |-> Hash(r), draft |-> r.draft])]]

\* The step that has been accepted under the submission id of r.
Earlier(r) == {k \in DOMAIN attempts[r.n].accepted : attempts[r.n].accepted[k].id = r.id}

\* Not the code: a step that has been accepted is a replay, whatever its id is.
SubmittedByPosition(r) ==
  LET a == attempts[r.n] IN
  IF r.position + 1 \in DOMAIN a.accepted THEN [answer |-> "accepted", attempts |-> attempts]
  ELSE IF a.version # r.version \/ a.status # "active" \/ a.position # r.position
       THEN [answer |-> "conflict", attempts |-> attempts]
  ELSE [answer |-> "accepted", attempts |-> Accepts(r)]

\* SubmitStep.
Submitted(r) ==
  LET a == attempts[r.n] IN
  IF \E k \in Earlier(r) : a.accepted[k].hash = Hash(r) THEN [answer |-> "accepted", attempts |-> attempts]
  ELSE IF Earlier(r) # {} \/ a.version # r.version \/ a.status # "active" \/ a.position # r.position
       THEN [answer |-> "conflict", attempts |-> attempts]
  ELSE [answer |-> "accepted", attempts |-> Accepts(r)]

Served(r) ==
  CASE r.is = "start"  -> [answer |-> "done", attempts |-> Started]
    [] r.is = "pause"  -> SetStatus(r, "paused")
    [] r.is = "resume" -> SetStatus(r, "active")
    [] r.is = "submit" -> Submitted(r)
    [] r.is = "resync" -> [answer |-> "done", attempts |-> attempts]

\* The server commits what tab t has asked for; a start learns its attempt.
Serve(t) ==
  /\ call[t] # None
  /\ call[t].answer = "sent"
  /\ Len(Served(call[t]).attempts) <= MaxAttempts
  /\ attempts' = Served(call[t]).attempts
  /\ call' = [call EXCEPT ![t].answer = Served(call[t]).answer,
                         ![t].n = IF @ = 0 THEN Len(Started) ELSE @]
  /\ UNCHANGED <<page, saved, typed, late, ids, happened>>

\* A request arrives after its page has given it up.
ServeLate(r) ==
  /\ r \in late
  /\ late' = late \ {r}
  /\ Len(Served(r).attempts) <= MaxAttempts
  /\ attempts' = Served(r).attempts
  /\ UNCHANGED <<page, saved, typed, call, ids, happened>>

-----------------------------------------------------------------------------
(* The answers. Each shows the attempt as it is read after the commit.       *)

\* The attempt of a start, of a resume, of a pause and of a resync is adopted;
\* a pause from the dialog leaves the page.
Adopts(t) ==
  /\ call[t] # None
  /\ call[t].answer = "done"
  /\ LET p == Adopted(t, Snapshot(call[t].n), call[t].is # "start")
         q == CASE call[t].is = "start" -> [p EXCEPT !.feedback = None]
                [] call[t].is = "pause" -> [p EXCEPT !.dialog = FALSE]
                [] OTHER                -> p
     IN IF call[t].leaves
        THEN page' = [page EXCEPT ![t] = Closed] /\ UNCHANGED saved
        ELSE Shows(t, q)
  /\ Sends(t, None)
  /\ UNCHANGED <<attempts, typed, late, ids, happened>>

\* The step is accepted: its draft is dropped, its feedback is shown with the
\* attempt as it is by now.
StepAccepted(t) ==
  /\ call[t] # None
  /\ call[t].answer = "accepted"
  /\ page' = [page EXCEPT ![t].attempt = Snapshot(call[t].n),
                          ![t].feedback = [place |-> PlaceOf(call[t]), draft |-> call[t].draft]]
  /\ saved' = [saved EXCEPT ![t][PlaceOf(call[t])] = Empty]
  /\ Sends(t, None)
  /\ UNCHANGED <<attempts, typed, late, ids, happened>>

\* 409: the page reads the attempt again.
Conflict(t) ==
  /\ call[t] # None
  /\ call[t].answer = "conflict"
  /\ Sends(t, Request("resync", page[t].attempt))
  /\ UNCHANGED <<attempts, page, saved, typed, late, ids, happened>>

\* Any other failure, before or after the server has committed.
CallFails(t) ==
  /\ Event
  /\ call[t] # None
  /\ call[t].answer # "conflict"
  /\ Gone(t)
  /\ UNCHANGED <<attempts, page, saved, typed, ids>>

Next ==
  \/ \E t \in Tab :
       \/ Open(t) \/ DetailLoads(t) \/ DetailFails(t) \/ DetailAgain(t)
       \/ \E text \in Draft : Edit(t, text)
       \/ StartAttempt(t) \/ ResumeAttempt(t) \/ PauseAttempt(t) \/ Leave(t)
       \/ OpenDialog(t) \/ CloseDialog(t) \/ SubmitStep(t) \/ Continue(t)
       \/ Serve(t) \/ Adopts(t) \/ StepAccepted(t) \/ Conflict(t) \/ CallFails(t)
  \/ \E r \in late : ServeLate(r)

Spec == Init /\ [][Next]_vars

-----------------------------------------------------------------------------
(* Properties                                                                *)

Status == {"active", "paused", "completed"}

TypeOK ==
  /\ \A n \in DOMAIN attempts :
       /\ attempts[n].status \in Status
       /\ attempts[n].position \in 0..Steps
       /\ Len(attempts[n].accepted) = attempts[n].position
  /\ \A t \in Tab :
       /\ page[t].at \in {"closed", "loading", "failed", "shown"}
       /\ page[t].draft \in Draft
       /\ page[t].owner \in Place \cup {None}
       /\ saved[t] \in [Place -> Draft]
       /\ call[t] # None => call[t].answer \in {"sent", "done", "accepted", "conflict"}
  /\ ids \in Nat
  /\ happened \in 0..MaxEvents

Accepted(p) == p[1] \in DOMAIN attempts /\ p[2] < attempts[p[1]].position

\* What the learner typed for a step stays on the device, through reloads,
\* failures, pauses and the conflicts of other tabs, until the server has
\* accepted an answer to that step; and it is what the page shows there.
TypedIsKept ==
  \A t \in Tab : \A p \in Place :
    (typed[t][p] # Empty /\ ~Accepted(p)) =>
      /\ saved[t][p] = typed[t][p]
      /\ (page[t].owner = p /\ page[t].feedback = None) => page[t].draft = typed[t][p]

\* The page tells the truth about a submission, whatever was lost or overtaken:
\* feedback stands under the very answer the server holds for that step, and a
\* conflict is told only to a submission that has not been accepted before.
OutcomesAreTrue ==
  \A t \in Tab :
    /\ page[t].feedback # None =>
         LET f == page[t].feedback IN attempts[f.place[1]].accepted[f.place[2] + 1].draft = f.draft
    /\ (call[t] # None /\ call[t].is = "submit" /\ call[t].answer = "conflict") => Earlier(call[t]) = {}

\* Both: no answer to a step is lost, and none is told wrongly.
AnswersAreKept == TypedIsKept /\ OutcomesAreTrue
=============================================================================
