---------------------------- MODULE Onboarding ----------------------------
(***************************************************************************)
(* The diagnostic of a new learner: the handlers of                          *)
(* internal/learning/onboarding.go, each a transaction under one advisory    *)
(* lock, and the pages that drive them                                       *)
(* (components/lexigo-onboarding-app.tsx), in several tabs of one account.   *)
(***************************************************************************)
EXTENDS Naturals, FiniteSets, SequencesExt

CONSTANTS
  Tab,       \* tabs of the account
  Words,     \* the learner has the words 1..Words, in the order they are asked
  Nothing,   \* no word, no mark, no reveal, no error
  MaxCalls,  \* bound on the requests of a tab
  MaxEvents  \* bound on what happens elsewhere and on failures: see Event

VARIABLES
  state,    \* user_learning_preferences.onboarding_state
  items,    \* onboarding_diagnostic_items: word -> mark, in the order of the words
  schedule, \* user_words.status of each word, "gone" once it is deleted
  page,     \* what each tab holds
  calls,    \* the requests of each tab, in the order they were sent
  happened  \* number of events so far

vars == <<state, items, schedule, page, calls, happened>>
serverVars == <<state, items, schedule>>

Word == 1..Words
Mark == {"known", "unsure", "new"}

Call(kind, word, mark) == [kind |-> kind, at |-> "sent", word |-> word, mark |-> mark, answer |-> Nothing]

\* A page as it opens.
NewPage == [snapshot |-> Nothing, mark |-> Nothing, reveal |-> Nothing, confirm |-> FALSE, error |-> Nothing]

Init ==
  /\ state = "not_started"
  /\ items = <<>>
  /\ schedule = [w \in Word |-> "new"]
  /\ page = [t \in Tab |-> NewPage]
  /\ calls = [t \in Tab |-> <<Call("load", Nothing, Nothing)>>]
  /\ happened = 0

Event == happened < MaxEvents /\ happened' = happened + 1

-----------------------------------------------------------------------------
(* The server                                                                *)

Unmarked(its) == {w \in DOMAIN its : its[w] = Nothing}

\* order by item.position limit 1.
IsFirst(w, words) == w \in words /\ \A v \in words : w <= v

\* queryDiagnosticCandidates: the words that are left, all of them selected.
Candidates == {w \in Word : schedule[w] # "gone"}

Refusal(code) == [refused |-> code]

\* StartOnboarding; each operator leaves its refusal, or Nothing, in out'.
StartOnboarding(out) ==
  CASE state \in {"in_progress", "completed"} -> out = Nothing /\ UNCHANGED serverVars
    [] Candidates = {} /\ state \in {"not_started", "skipped"} ->
         out = Refusal("no_candidates") /\ UNCHANGED serverVars
    [] OTHER -> /\ out = Nothing
                /\ state' = "in_progress"
                /\ items' = [w \in Candidates |-> Nothing]
                /\ UNCHANGED schedule

\* Not the code: any item of the diagnostic is marked.
MarkableAny(w) == w \in DOMAIN items

\* The item that may be marked: the first that is not.
Markable(w) == IsFirst(w, Unmarked(items))

\* MarkOnboardingItem.
MarkOnboardingItem(w, m, out) ==
  IF state = "in_progress" /\ Markable(w)
  THEN /\ items' = [items EXCEPT ![w] = m]
       /\ out = [word |-> w, completeReady |-> Unmarked(items') = {}]
       /\ UNCHANGED <<state, schedule>>
  ELSE out = Refusal("conflict") /\ UNCHANGED serverVars

\* diagnosticInitializationForMark, applied to a word that is still new.
Initialized(w, m) ==
  IF schedule[w] # "new" THEN schedule[w]
  ELSE IF m = "known" THEN "review" ELSE IF m = "unsure" THEN "learning" ELSE "new"

\* CompleteOnboarding.
CompleteOnboarding(out) ==
  CASE state = "completed" -> out = Nothing /\ UNCHANGED serverVars
    [] state = "in_progress" /\ items # <<>> /\ Unmarked(items) = {} ->
         /\ out = Nothing
         /\ state' = "completed"
         /\ schedule' = [w \in Word |-> IF w \in DOMAIN items THEN Initialized(w, items[w]) ELSE schedule[w]]
         /\ UNCHANGED items
    [] OTHER -> out = Refusal("conflict") /\ UNCHANGED serverVars

\* SkipOnboarding.
SkipOnboarding(out) ==
  /\ out = Nothing
  /\ state' = IF state = "completed" THEN state ELSE "skipped"
  /\ UNCHANGED <<items, schedule>>

\* A review of a lesson: the scheduler owns the word from then on.
ReviewWord(w) ==
  /\ schedule[w] \notin {"gone", "reviewed"}
  /\ Event
  /\ schedule' = [schedule EXCEPT ![w] = "reviewed"]
  /\ UNCHANGED <<state, items, page, calls>>

\* The learner deletes a word of their own: its item goes with it.
DeleteCustomWord(w) ==
  /\ schedule[w] # "gone"
  /\ Event
  /\ schedule' = [schedule EXCEPT ![w] = "gone"]
  /\ items' = [v \in DOMAIN items \ {w} |-> items[v]]
  /\ UNCHANGED <<state, page, calls>>

-----------------------------------------------------------------------------
(* The requests                                                              *)

Loading(t) == \E i \in DOMAIN calls[t] : calls[t][i].kind = "load"
Busy(t) == \E i \in DOMAIN calls[t] : calls[t][i].kind # "load"

\* A request begins: clearError.
Sends(t, kind, word, mark) ==
  /\ Len(calls[t]) < MaxCalls
  /\ calls' = [calls EXCEPT ![t] = Append(@, Call(kind, word, mark))]
  /\ page' = [page EXCEPT ![t].error = Nothing]
  /\ UNCHANGED <<serverVars, happened>>

\* The transaction of request i of tab t; a load has none.
Commit(t, i) ==
  LET c == calls[t][i] IN
  /\ c.at = "sent"
  /\ \E out \in {Nothing, Refusal("conflict"), Refusal("no_candidates")}
                \cup [word : Word, completeReady : BOOLEAN] :
       /\ \/ c.kind = "start" /\ StartOnboarding(out)
          \/ c.kind = "mark" /\ MarkOnboardingItem(c.word, c.mark, out)
          \/ c.kind = "complete" /\ CompleteOnboarding(out)
          \/ c.kind = "skip" /\ SkipOnboarding(out)
       /\ calls' = [calls EXCEPT ![t][i].answer = out,
                                 ![t][i].at = IF out = Nothing THEN "committed" ELSE "answered"]
  /\ UNCHANGED <<page, happened>>

\* OnboardingStatus, which every other answer carries: three queries, each of
\* which sees what is committed by then.
ReadsState(c) == [c EXCEPT !.answer = [state |-> state], !.at = "state"]

ReadsProgress(c) ==
  [c EXCEPT !.answer = [state |-> @.state, total |-> Cardinality(DOMAIN items),
                        marked |-> Cardinality(DOMAIN items \ Unmarked(items)), current |-> Nothing],
            !.at = IF c.answer.state = "in_progress" THEN "progress" ELSE "answered"]

ReadsCurrent(c) ==
  [c EXCEPT !.answer.current = IF Unmarked(items) = {} THEN Nothing
                               ELSE CHOOSE w \in Unmarked(items) : IsFirst(w, Unmarked(items)),
            !.at = "answered"]

ReadStatus(t, i) ==
  LET c == calls[t][i] IN
  /\ calls' = [calls EXCEPT ![t][i] = CASE c.at = "state" -> ReadsProgress(c)
                                        [] c.at = "progress" -> ReadsCurrent(c)
                                        [] OTHER -> ReadsState(c)]
  /\ c.at \in {"committed", "state", "progress"} \/ (c.kind = "load" /\ c.at = "sent")
  /\ UNCHANGED <<serverVars, page, happened>>

\* presentFailure.
Presents(p, retry, code) == [p EXCEPT !.error = IF code = "no_candidates" THEN "final" ELSE retry]

\* What request c leaves of page p once it is answered.
Adopted(p, c) ==
  IF "refused" \in DOMAIN c.answer
  THEN Presents(IF c.kind = "mark" THEN [p EXCEPT !.reveal = Nothing] ELSE p, c.kind, c.answer.refused)
  ELSE IF c.kind = "mark"
  THEN [p EXCEPT !.reveal = [word |-> c.answer.word, mark |-> c.mark, completeReady |-> c.answer.completeReady]]
  ELSE [p EXCEPT !.snapshot = c.answer, !.mark = Nothing, !.reveal = Nothing,
                 !.confirm = IF c.kind \in {"load", "skip"} THEN FALSE ELSE @]

Answer(t, i) ==
  /\ calls[t][i].at = "answered"
  /\ page' = [page EXCEPT ![t] = Adopted(@, calls[t][i])]
  /\ calls' = [calls EXCEPT ![t] = RemoveAt(@, i)]
  /\ UNCHANGED <<serverVars, happened>>

\* Nothing comes back, whether or not the server has served it.
Fail(t, i) ==
  /\ Event
  /\ page' = [page EXCEPT ![t] = Presents(IF calls[t][i].kind = "mark" THEN [@ EXCEPT !.reveal = Nothing] ELSE @,
                                          calls[t][i].kind, Nothing)]
  /\ calls' = [calls EXCEPT ![t] = RemoveAt(@, i)]
  /\ UNCHANGED serverVars

\* The page is opened anew: nothing of it is kept.
Reload(t) ==
  /\ Event
  /\ page[t].snapshot # Nothing \/ page[t].error # Nothing
  /\ page' = [page EXCEPT ![t] = NewPage]
  /\ calls' = [calls EXCEPT ![t] = <<Call("load", Nothing, Nothing)>>]
  /\ UNCHANGED serverVars

-----------------------------------------------------------------------------
(* The pages                                                                 *)

\* What tab t shows, in the order the component decides.
Screen(t) ==
  LET p == page[t] IN
  IF Loading(t) /\ p.snapshot = Nothing THEN "loading"
  ELSE IF p.error # Nothing THEN "error"
  ELSE IF p.confirm THEN "confirm"
  ELSE IF p.snapshot.state \in {"completed", "skipped"} THEN "done"
  ELSE IF p.snapshot.state = "not_started" THEN "role"
  ELSE IF p.snapshot.current # Nothing THEN (IF p.reveal = Nothing THEN "item" ELSE "reveal")
  ELSE IF p.snapshot.total > 0 /\ p.snapshot.marked >= p.snapshot.total THEN "ready"
  ELSE "lost"

Sets(t, p) == page' = [page EXCEPT ![t] = p] /\ UNCHANGED <<serverVars, calls, happened>>

\* startDiagnostic.
StartDiagnostic(t) == Screen(t) = "role" /\ ~Busy(t) /\ Sends(t, "start", Nothing, Nothing)

SelectMark(t, m) ==
  /\ Screen(t) = "item" /\ ~Busy(t) /\ m # page[t].mark
  /\ Sets(t, [page[t] EXCEPT !.mark = m])

\* The guards of saveMark.
CanSaveMark(t) ==
  LET p == page[t] IN
  ~Busy(t) /\ p.snapshot # Nothing /\ p.snapshot.current # Nothing /\ p.mark # Nothing /\ p.reveal = Nothing

SaveMark(t) ==
  /\ Screen(t) = "item" /\ CanSaveMark(t)
  /\ Sends(t, "mark", page[t].snapshot.current, page[t].mark)

\* continueAfterReveal: the button waits for a request that changes something,
\* not for a load, so it may be pressed again.
ContinueAfterReveal(t) ==
  /\ Screen(t) = "reveal" /\ ~Busy(t)
  /\ Sends(t, IF page[t].reveal.completeReady THEN "complete" ELSE "load", Nothing, Nothing)

CompleteDiagnostic(t) == Screen(t) = "ready" /\ ~Busy(t) /\ Sends(t, "complete", Nothing, Nothing)

LoadStatus(t) == Screen(t) = "lost" /\ Sends(t, "load", Nothing, Nothing)

AskToSkip(t) ==
  /\ Screen(t) \in {"role", "item"} /\ ~Busy(t)
  /\ Sets(t, [page[t] EXCEPT !.confirm = TRUE])

KeepDiagnostic(t) ==
  /\ Screen(t) = "confirm" /\ ~Busy(t)
  /\ Sets(t, [page[t] EXCEPT !.confirm = FALSE])

SkipDiagnostic(t) == Screen(t) = "confirm" /\ ~Busy(t) /\ Sends(t, "skip", Nothing, Nothing)

\* retry: saveMark checks its guards again and else does nothing.
Retry(t) ==
  /\ Screen(t) = "error" /\ page[t].error # "final" /\ ~Busy(t)
  /\ page[t].error = "mark" => CanSaveMark(t)
  /\ LET mark == page[t].error = "mark"
     IN Sends(t, page[t].error, IF mark THEN page[t].snapshot.current ELSE Nothing,
                                IF mark THEN page[t].mark ELSE Nothing)

Next ==
  \/ \E w \in Word : ReviewWord(w) \/ DeleteCustomWord(w)
  \/ \E t \in Tab :
       \/ \E i \in 1 .. MaxCalls :
            i \in DOMAIN calls[t] /\ (Commit(t, i) \/ ReadStatus(t, i) \/ Answer(t, i) \/ Fail(t, i))
       \/ \E m \in Mark : SelectMark(t, m)
       \/ Reload(t) \/ StartDiagnostic(t) \/ SaveMark(t) \/ ContinueAfterReveal(t) \/ CompleteDiagnostic(t) \/ LoadStatus(t)
       \/ AskToSkip(t) \/ KeepDiagnostic(t) \/ SkipDiagnostic(t) \/ Retry(t)

Spec == Init /\ [][Next]_vars

-----------------------------------------------------------------------------
(* Properties                                                                *)

TypeOK ==
  /\ state \in {"not_started", "in_progress", "completed", "skipped"}
  /\ DOMAIN items \subseteq Word /\ Range(items) \subseteq Mark \cup {Nothing}
  /\ schedule \in [Word -> {"new", "review", "learning", "reviewed", "gone"}]
  /\ \A t \in Tab :
       /\ Screen(t) \in {"loading", "error", "confirm", "done", "role", "item", "reveal", "ready", "lost"}
       /\ page[t].snapshot # Nothing => page[t].snapshot.marked <= page[t].snapshot.total

\* MarkOnboardingItem: whatever tabs are open on the same term, the first mark
\* stands until the diagnostic is started anew, and a completed diagnostic has
\* one for each of its words.
Stands ==
  /\ state' = "completed" => Unmarked(items') = {}
  /\ \/ \A w \in DOMAIN items \ Unmarked(items) :
          (w \in DOMAIN items' /\ items'[w] = items[w]) \/ schedule'[w] = "gone"
     \/ state = "skipped" /\ state' = "in_progress"

MarksStand == [][Stands]_vars

\* TestDiagnosticInitializationSeparatesSelfMarkFromReviewTruth: what a learner
\* says of a word never takes the place of what reviews have shown.
Yields == \A w \in Word : schedule[w] = "reviewed" => schedule'[w] \in {"reviewed", "gone"}

MarksYieldToReviews == [][Yields]_vars
=============================================================================
