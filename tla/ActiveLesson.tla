---------------------------- MODULE ActiveLesson ----------------------------
(***************************************************************************)
(* The lesson page of one tab (components/lexigo-active-lesson-app.tsx,     *)
(* lib/lesson-flow.ts, lib/lesson-result.ts): what it shows of a lesson,    *)
(* and the requests it has in flight, each of which is answered by the      *)
(* server in one step and handled by the page in a later one.  The lessons  *)
(* of the server are those of LessonStore as a client can tell them: while  *)
(* a lesson is active its version is one more than its index, and the items *)
(* before the index are the reviewed ones.  The outbox below the page is    *)
(* that of ReviewOutbox: a review is on record before it is sent and, when  *)
(* no reply came, is delivered later, after which the tab is reloaded.      *)
(***************************************************************************)
EXTENDS Naturals, Sequences, FiniteSets, FiniteSetsExt, Functions

CONSTANTS
  Lesson,     \* the lessons there may be; they are created in this order
  Word,
  Items,      \* the words of each lesson
  Patient,    \* the learner asks for one thing at a time: see Idle
  MaxEvents   \* bound on what befalls the page: see Event

NoLesson == 0
NoWord == 0

ASSUME ActiveLessonAssumption ==
  /\ Lesson \subseteq Nat \ {NoLesson}
  /\ Word \subseteq Nat \ {NoWord}
  /\ Items \in [Lesson -> Seq(Word) \ {<<>>}]
  /\ \A l \in Lesson : IsInjective(Items[l])
  /\ Patient \in BOOLEAN
  /\ MaxEvents \in Nat

VARIABLES
  status,     \* server: the lessons, as in LessonStore
  index,      \* server: current_index of each
  pending,    \* outbox: records the loop will send
  settled,    \* outbox: records that are synced or failed
  stored,     \* server: the reviews whose key has a stored response
  page,       \* the state of LexigoActiveLessonApp
  gets,       \* its GET /lessons/active requests
  create,     \* its POST /lessons request
  reviews,    \* the calls of rateCurrent that have not returned
  saved,      \* sessionStorage: the lesson of the result snapshot
  reload,     \* a reload of the tab is scheduled (scheduleStateReload)
  happened    \* number of events so far

serverVars == <<status, index, stored>>
outboxVars == <<pending, settled, reload>>
vars == <<status, index, pending, settled, stored, page, gets, create, reviews,
          saved, reload, happened>>

Size(l) == Len(Items[l])
Completed(l) == l \in Lesson /\ status[l] = "completed"
Active == {l \in Lesson : status[l] = "active"}

\* The words of lesson l the server has a review of.
Reviewed(l) == {Items[l][p] : p \in 1 .. index[l]}

\* A review request names the lesson, the version and the word.
Review == [lesson : Lesson, version : Nat \ {0}, word : Word]

\* The lesson of a response, as the server had it; or what else came back.
Snapshot == [id : Lesson, index : Nat]
NotFound == [id |-> NoLesson, index |-> 0]
Failed   == [id |-> NoLesson, index |-> 1]
Refused  == [id |-> NoLesson, index |-> 2]
Nothing  == [id |-> NoLesson, index |-> 3]

\* held is activeLesson, next is serverNextIndex, done is
\* serverLessonCompleted; shown is the lesson the items on screen come from
\* and at is currentIndex; queued is queuedReviewWordId of the presentation.
\* adrift is no state of the code: it says that the lesson held was replaced
\* under the items on screen.
FreshPage ==
  [mounted |-> TRUE, phase |-> "loading", held |-> NotFound, shown |-> NoLesson,
   at |-> 0, rated |-> {}, started |-> FALSE, complete |-> FALSE, done |-> FALSE,
   next |-> 0, result |-> NoLesson, queued |-> NoWord, reviewing |-> FALSE,
   revealed |-> FALSE, leaving |-> FALSE, adrift |-> FALSE]

IdleCreate == [at |-> "idle", after |-> NoLesson, reply |-> Nothing]
LoadSent == [kind |-> "load", at |-> "sent", reply |-> Nothing]

Init ==
  /\ status = [l \in Lesson |-> IF l = Min(Lesson) THEN "active" ELSE "absent"]
  /\ index = [l \in Lesson |-> 0]
  /\ pending = {} /\ settled = {} /\ stored = {}
  /\ page = FreshPage
  /\ gets = {LoadSent}
  /\ create = IdleCreate
  /\ reviews = {}
  /\ saved = NoLesson
  /\ reload = FALSE
  /\ happened = 0

\* A lost reply, a refresh of the session, a reload, an exit
\* or an act of another device: none need happen, and only so many do.
Event == happened < MaxEvents /\ happened' = happened + 1

-----------------------------------------------------------------------------
(* The server                                                               *)

\* GET /lessons/active: ActiveLesson.
ActiveSnapshot ==
  IF Active = {} THEN NotFound
  ELSE LET l == CHOOSE k \in Active : TRUE IN [id |-> l, index |-> index[l]]

Commits(q) ==
  /\ status[q.lesson] = "active"
  /\ q.version = index[q.lesson] + 1
  /\ Items[q.lesson][q.version] = q.word

Commit(q) ==
  /\ Commits(q)
  /\ index' = [index EXCEPT ![q.lesson] = q.version]
  /\ status' = IF q.version = Size(q.lesson)
               THEN [status EXCEPT ![q.lesson] = "completed"] ELSE status

\* The last change of the lesson is an equivalent review of the same card.
Recovers(q) ==
  /\ status[q.lesson] \in {"active", "completed"}
  /\ q.version = index[q.lesson]
  /\ Items[q.lesson][q.version] = q.word

\* A review is taken: replayed, committed or recovered.
Take(q) ==
  /\ \/ (q \in stored \/ Recovers(q)) /\ UNCHANGED <<status, index>>
     \/ Commit(q)
  /\ stored' = stored \cup {q}

Refuse(q) ==
  /\ q \notin stored /\ ~ Commits(q)
  /\ UNCHANGED serverVars

\* A new lesson takes the place of the active one.
Insert(l) ==
  /\ status[l] = "absent"
  /\ \A k \in Lesson : k < l => status[k] # "absent"
  /\ status' = [k \in Lesson |-> IF k = l THEN "active"
                                ELSE IF k \in Active THEN "discarded"
                                ELSE status[k]]

\* Another device of the account answers the current item, starts a lesson or
\* discards the active one.
OtherDevice ==
  /\ Event
  /\ \/ \E l \in Active :
          Commit([lesson |-> l, version |-> index[l] + 1, word |-> Items[l][index[l] + 1]])
     \/ \E l \in Lesson : Insert(l) /\ UNCHANGED index
     \/ \E l \in Active : status' = [status EXCEPT ![l] = "discarded"] /\ UNCHANGED index
  /\ UNCHANGED <<stored, outboxVars, page, gets, create, reviews, saved>>

\* The loop of the outbox sends a review that is on record: an answer the
\* server takes reloads the tab, a refusal leaves the record as failed.
Deliver(q) ==
  /\ q \in pending
  /\ \A r \in reviews : r.review = q => r.at # "sent"
  /\ pending' = pending \ {q}
  /\ settled' = settled \cup {q}
  /\ \/ Take(q) /\ reload' = TRUE
     \/ Refuse(q) /\ UNCHANGED reload
  /\ UNCHANGED <<page, gets, create, reviews, saved, happened>>

-----------------------------------------------------------------------------
(* Loading the active lesson                                                *)

\* A card is on screen, and its word.
OnCard == page.mounted /\ page.started /\ ~ page.complete
Current == Items[page.shown][page.at + 1]

\* The server answers a GET, or the request fails.
GetAnswered(g) ==
  /\ g.at = "sent"
  /\ \/ /\ gets' = (gets \ {g}) \cup {[g EXCEPT !.at = "got", !.reply = ActiveSnapshot]}
        /\ UNCHANGED happened
     \/ /\ gets' = (gets \ {g}) \cup {[g EXCEPT !.at = "got", !.reply = Failed]}
        /\ Event
  /\ UNCHANGED <<serverVars, outboxVars, page, create, reviews, saved>>

\* loadActiveLesson, whatever is on screen by then: the items on screen stay,
\* whichever lesson they are of.
Loaded(g) ==
  /\ g.kind = "load" /\ g.at = "got"
  /\ page' = IF g.reply = Failed THEN [page EXCEPT !.phase = "error"]
             ELSE [page EXCEPT !.phase = "ready", !.held = g.reply,
                               !.adrift = @ \/ (OnCard /\ ~ page.done /\ g.reply.id # page.shown)]
  /\ gets' = gets \ {g}
  /\ UNCHANGED <<serverVars, outboxVars, create, reviews, saved, happened>>

\* The session was refreshed, by a request of the page or by another owner:
\* the effect drops its request and loads again.
SessionRefreshed ==
  /\ page.mounted
  /\ Event
  /\ gets' = {g \in gets : g.kind # "load"} \cup {LoadSent}
  /\ page' = [page EXCEPT !.phase = "loading"]
  /\ UNCHANGED <<serverVars, outboxVars, create, reviews, saved>>

\* The button of the failed load.
RetryLoad ==
  /\ page.mounted /\ ~ page.started
  /\ page.phase = "error"
  /\ page' = [page EXCEPT !.phase = "loading"]
  /\ gets' = gets \cup {LoadSent}
  /\ UNCHANGED <<serverVars, outboxVars, create, reviews, saved, happened>>

\* Faulty variant: the ratings of the items are not restored.
ShowUnrated(pg, s) ==
  [pg EXCEPT !.held = s, !.shown = s.id, !.at = s.index, !.rated = {},
             !.started = TRUE, !.complete = FALSE, !.done = FALSE, !.next = 0,
             !.result = NoLesson, !.revealed = FALSE, !.adrift = FALSE,
             !.queued = IF pg.started /\ ~ pg.complete THEN @ ELSE NoWord]

\* applyLesson, for a lesson the server serves (LessonsServable): its
\* current item exists and is not rated, so resolveActiveLessonIndex accepts.
Show(pg, s) ==
  [pg EXCEPT !.held = s, !.shown = s.id, !.at = s.index,
             !.rated = {Items[s.id][p] : p \in 1 .. s.index},
             !.started = TRUE, !.complete = FALSE, !.done = FALSE, !.next = 0,
             !.result = NoLesson, !.revealed = FALSE, !.adrift = FALSE,
             !.queued = IF pg.started /\ ~ pg.complete THEN @ ELSE NoWord]

\* clearLessonState.
Clear(pg) ==
  [pg EXCEPT !.shown = NoLesson, !.at = 0, !.rated = {}, !.started = FALSE,
             !.complete = FALSE, !.done = FALSE, !.next = 0, !.result = NoLesson,
             !.queued = NoWord, !.revealed = FALSE, !.adrift = FALSE]

\* Nothing the learner asked for is under way.  The page does not see to it:
\* its buttons stay enabled while a resume, a create or an exit is.
Idle == create.at = "idle" /\ (\A g \in gets : g.kind # "resume") /\ ~ page.leaving

\* "Continue the lesson".
Resume ==
  /\ page.mounted /\ ~ page.started
  /\ page.phase = "ready" /\ page.held # NotFound
  /\ Patient => Idle
  /\ gets' = gets \cup {[kind |-> "resume", at |-> "sent", reply |-> Nothing]}
  /\ UNCHANGED <<serverVars, outboxVars, page, create, reviews, saved, happened>>

Resumed(g) ==
  /\ g.kind = "resume" /\ g.at = "got"
  /\ gets' = gets \ {g}
  /\ \/ /\ g.reply \in Snapshot
        /\ page' = Show(page, g.reply)
        /\ saved' = NoLesson
     \/ /\ g.reply = NotFound
        /\ page' = [page EXCEPT !.held = NotFound, !.phase = "ready"]
        /\ UNCHANGED saved
     \/ /\ g.reply = Failed
        /\ UNCHANGED <<page, saved>>
  /\ UNCHANGED <<serverVars, outboxVars, create, reviews, happened>>

-----------------------------------------------------------------------------
(* Answering                                                                *)

\* Faulty variant: the save under way is not waited for.
DecisionWhileSaving ==
  LET rated == Current \in page.rated
      last == page.at + 1 >= Size(page.shown)
  IN
  CASE rated /\ last /\ page.done -> "results"
    [] rated /\ ~ last /\ page.next = page.at + 1 -> "next"
    [] OTHER -> "blocked"

\* decideLessonAdvance.
Decision ==
  LET rated == ~ page.reviewing /\ Current \in page.rated
      last == page.at + 1 >= Size(page.shown)
  IN
  CASE rated /\ last /\ page.done -> "results"
    [] rated /\ ~ last /\ page.next = page.at + 1 -> "next"
    [] OTHER -> "blocked"

\* The answer is shown: a choice was made, or the learner gives up or checks.
Reveal ==
  /\ OnCard
  /\ ~ page.revealed
  /\ Current # page.queued
  /\ page' = [page EXCEPT !.revealed = TRUE]
  /\ UNCHANGED <<serverVars, outboxVars, gets, create, reviews, saved, happened>>

\* The buttons of the confidence are enabled, and rateCurrent does not return
\* at once.
CanRate ==
  /\ OnCard
  /\ page.revealed
  /\ Current \notin page.rated
  /\ Current # page.queued
  /\ ~ page.reviewing
  /\ page.held # NotFound

\* rateCurrent is called: a request about the card on screen, for the lesson
\* the page holds.  The call keeps the ratings it was made with.
Rate ==
  LET q == [lesson |-> page.held.id, version |-> page.held.index + 1, word |-> Current] IN
  /\ CanRate
  /\ Patient => Idle
  /\ reviews' = reviews \cup {[review |-> q, rated |-> page.rated, own |-> TRUE,
                               again |-> q \in pending \cup settled,
                               at |-> "sent", reply |-> Nothing]}
  /\ pending' = IF q \in settled THEN pending ELSE pending \cup {q}
  /\ page' = [page EXCEPT !.reviewing = TRUE]
  /\ UNCHANGED <<serverVars, settled, reload, gets, create, saved, happened>>

\* The state of the lesson a reply to review q carries (LessonReviewResponse).
After(q) == [id |-> q.lesson, index |-> q.version]

Replied(r, reply) == reviews' = (reviews \ {r}) \cup {[r EXCEPT !.at = "got", !.reply = reply]}

\* What becomes of a review: it is taken; it is refused, by the server or, when
\* another answer is on record, by the outbox; or no reply comes, and the
\* outbox says that it is queued.
ReviewAnswered(r) ==
  LET q == r.review IN
  /\ r.at = "sent"
  /\ \/ /\ Take(q)
        /\ pending' = pending \ {q} /\ settled' = settled \cup {q}
        /\ Replied(r, After(q))
        /\ UNCHANGED happened
     \/ /\ Refuse(q)
        /\ pending' = pending \ {q} /\ settled' = settled \cup {q}
        /\ Replied(r, Refused)
        /\ UNCHANGED happened
     \/ /\ r.again
        /\ Replied(r, Refused)
        /\ UNCHANGED <<serverVars, pending, settled, happened>>
     \/ /\ Event
        /\ \/ UNCHANGED serverVars
           \/ Take(q)
           \/ Commit(q) /\ UNCHANGED stored
        /\ pending' = pending \cup {q} /\ settled' = settled \ {q}
        /\ Replied(r, Failed)
  /\ UNCHANGED <<page, gets, create, saved, reload>>

\* The state the page sets when a review is saved.
Record(pg, r) ==
  LET s == r.reply
      last == s.index = Size(s.id)
  IN
  [pg EXCEPT !.rated = r.rated \cup {r.review.word},
             !.done = last,
             !.next = IF last THEN 0 ELSE s.index,
             !.held = IF last \/ @ = NotFound THEN NotFound ELSE [@ EXCEPT !.index = s.index]]

\* The page handles the reply: a saved review is shown and the progress is
\* loaded; a refused one has the lesson read again; a queued one is left to
\* the outbox.  A page that is gone sets nothing.
ReviewHandled(r) ==
  /\ r.at = "got"
  /\ \/ /\ r.reply \in Snapshot
        /\ page' = IF r.own THEN Record(page, r) ELSE page
        /\ reviews' = (reviews \ {r}) \cup {[r EXCEPT !.at = "progress"]}
     \/ /\ r.reply = Refused
        /\ reviews' = (reviews \ {r}) \cup {[r EXCEPT !.at = "resync"]}
        /\ UNCHANGED page
     \/ /\ r.reply = Failed
        /\ page' = IF ~ r.own THEN page
                   ELSE [page EXCEPT !.reviewing = FALSE,
                                     !.queued = IF OnCard /\ Current = r.review.word
                                                THEN r.review.word ELSE @]
        /\ reviews' = reviews \ {r}
  /\ UNCHANGED <<serverVars, outboxVars, gets, create, saved, happened>>

\* buildLessonResultSnapshot, when the reply says that the lesson is completed.
ResultOf(r, otherwise) == IF r.reply.index = Size(r.reply.id) THEN r.reply.id ELSE otherwise

\* loadProgress has answered or failed: rateCurrent builds the result of a
\* completed lesson, in the page and in the storage, and returns.
ReviewEnds(r) ==
  /\ r.at = "progress"
  /\ saved' = ResultOf(r, saved)
  /\ page' = IF ~ r.own THEN page
             ELSE [page EXCEPT !.reviewing = FALSE, !.result = ResultOf(r, @)]
  /\ reviews' = reviews \ {r}
  /\ UNCHANGED <<serverVars, outboxVars, gets, create, happened>>

\* resynchronizeActiveLesson reads the lesson ...
ResyncAnswered(r) ==
  /\ r.at = "resync"
  /\ \/ /\ reviews' = (reviews \ {r}) \cup {[r EXCEPT !.at = "resynced", !.reply = ActiveSnapshot]}
        /\ UNCHANGED happened
     \/ /\ reviews' = (reviews \ {r}) \cup {[r EXCEPT !.at = "resynced", !.reply = Failed]}
        /\ Event
  /\ UNCHANGED <<serverVars, outboxVars, page, gets, create, saved>>

\* Faulty variant: the lesson read again only replaces the one held.
ResyncedHeld(r) ==
  /\ r.at = "resynced"
  /\ page' = IF ~ r.own THEN page
             ELSE [page EXCEPT !.reviewing = FALSE,
                               !.held = IF r.reply \in Snapshot THEN r.reply ELSE @]
  /\ reviews' = reviews \ {r}
  /\ UNCHANGED <<serverVars, outboxVars, gets, create, saved, happened>>

\* ... and shows it; without an active lesson the page goes to the composer.
Resynced(r) ==
  /\ r.at = "resynced"
  /\ \/ /\ r.reply \in Snapshot
        /\ page' = IF r.own THEN [Show(page, r.reply) EXCEPT !.reviewing = FALSE] ELSE page
        /\ saved' = NoLesson
     \/ /\ r.reply = NotFound
        /\ page' = IF r.own THEN [Clear(page) EXCEPT !.held = NotFound, !.leaving = TRUE,
                                                     !.reviewing = FALSE] ELSE page
        /\ UNCHANGED saved
     \/ /\ r.reply = Failed
        /\ page' = IF r.own THEN [page EXCEPT !.reviewing = FALSE] ELSE page
        /\ UNCHANGED saved
  /\ reviews' = reviews \ {r}
  /\ UNCHANGED <<serverVars, outboxVars, gets, create, happened>>

\* nextItem and moveToServerIndex.
Advance ==
  /\ OnCard
  /\ page.queued # Current
  /\ \/ Decision = "next" /\ page' = [page EXCEPT !.at = page.next, !.next = 0,
                                                     !.revealed = Items[page.shown][page.next + 1] \in page.rated]
     \/ Decision = "results" /\ page' = [page EXCEPT !.complete = TRUE, !.queued = NoWord]
  /\ UNCHANGED <<serverVars, outboxVars, gets, create, reviews, saved, happened>>

-----------------------------------------------------------------------------
(* Results, the next lesson, leaving and coming back                        *)

\* readLessonResultSnapshot finds a whole snapshot of this user: it reads only
\* what writeLessonResultSnapshot wrote.
Restorable == saved # NoLesson

\* A page without a lesson shows the result the storage has.
RestoreResult ==
  /\ page.mounted /\ ~ page.started
  /\ page.phase = "ready" /\ page.held = NotFound
  /\ Restorable
  /\ page' = [page EXCEPT !.result = saved, !.started = TRUE, !.complete = TRUE,
                          !.done = TRUE, !.next = 0]
  /\ UNCHANGED <<serverVars, outboxVars, gets, create, reviews, saved, happened>>

\* startLesson, from the result: the next lesson or the due reviews.
StartNext ==
  /\ page.mounted /\ page.started /\ page.complete /\ page.result # NoLesson
  /\ create.at = "idle"
  /\ Patient => Idle
  /\ create' = [create EXCEPT !.at = "sent", !.after = page.result]
  /\ UNCHANGED <<serverVars, outboxVars, page, gets, reviews, saved, happened>>

\* A lesson is created, or the one another request has just created returned.
CreateAnswered ==
  /\ create.at = "sent"
  /\ \/ \E l \in Lesson :
          /\ Insert(l) /\ UNCHANGED <<index, happened>>
          /\ create' = [create EXCEPT !.at = "got", !.reply = [id |-> l, index |-> 0]]
     \/ /\ ActiveSnapshot # NotFound
        /\ UNCHANGED <<status, index, happened>>
        /\ create' = [create EXCEPT !.at = "got", !.reply = ActiveSnapshot]
     \/ /\ \A l \in Lesson : status[l] # "absent"
        /\ UNCHANGED <<status, index, happened>>
        /\ create' = [create EXCEPT !.at = "got", !.reply = Failed]
     \/ /\ Event
        /\ (\E l \in Lesson : Insert(l)) \/ UNCHANGED status
        /\ UNCHANGED index
        /\ create' = [create EXCEPT !.at = "got", !.reply = Failed]
  /\ UNCHANGED <<stored, outboxVars, page, gets, reviews, saved>>

\* isDistinctLessonResultCandidate.
Distinct(l, k) == l # k /\ Range(Items[l]) # Range(Items[k])

Created ==
  /\ create.at = "got"
  /\ create' = IdleCreate
  /\ IF create.reply \in Snapshot /\ Distinct(create.reply.id, create.after)
     THEN page' = Show(page, create.reply) /\ saved' = NoLesson
     ELSE UNCHANGED <<page, saved>>
  /\ UNCHANGED <<serverVars, outboxVars, gets, reviews, happened>>

\* leaveLesson, from a card or a result: the route changes a while later.
Leave ==
  /\ page.mounted /\ page.started
  /\ Event
  /\ page' = [Clear(page) EXCEPT !.leaving = TRUE]
  /\ UNCHANGED <<serverVars, outboxVars, gets, create, reviews, saved>>

\* "Set up a lesson", from a page that found none.
GoCompose ==
  /\ page.mounted /\ ~ page.started
  /\ page.phase = "ready" /\ page.held = NotFound
  /\ page' = [page EXCEPT !.leaving = TRUE]
  /\ UNCHANGED <<serverVars, outboxVars, gets, create, reviews, saved, happened>>

\* The page is unmounted.  Its effects are dropped; its calls run on.
Unmount ==
  /\ page.mounted /\ page.leaving
  /\ page' = [FreshPage EXCEPT !.mounted = FALSE]
  /\ gets' = {} /\ create' = IdleCreate
  /\ reviews' = {[r EXCEPT !.own = FALSE] : r \in reviews}
  /\ UNCHANGED <<serverVars, outboxVars, saved, happened>>

Return ==
  /\ ~ page.mounted
  /\ page' = FreshPage
  /\ gets' = {LoadSent}
  /\ UNCHANGED <<serverVars, outboxVars, create, reviews, saved, happened>>

\* The tab is reloaded, as scheduled or by the learner: memory is gone, the
\* records of the outbox and the storage of the tab are not.
Reload ==
  /\ page.mounted
  /\ \/ (reload \/ page.queued # NoWord) /\ UNCHANGED happened
     \/ Event
  /\ page' = FreshPage
  /\ gets' = {LoadSent} /\ create' = IdleCreate /\ reviews' = {}
  /\ reload' = FALSE
  /\ UNCHANGED <<serverVars, pending, settled, saved>>

ReviewStep(r) ==
  \/ ReviewAnswered(r) \/ ReviewHandled(r) \/ ReviewEnds(r)
  \/ ResyncAnswered(r) \/ Resynced(r)

Next ==
  \/ OtherDevice
  \/ \E q \in pending : Deliver(q)
  \/ \E g \in gets : GetAnswered(g) \/ Loaded(g) \/ Resumed(g)
  \/ SessionRefreshed \/ RetryLoad \/ Resume
  \/ Reveal \/ Rate
  \/ \E r \in reviews : ReviewStep(r)
  \/ Advance \/ RestoreResult
  \/ StartNext \/ CreateAnswered \/ Created
  \/ Leave \/ GoCompose \/ Unmount \/ Return \/ Reload

\* Requests end, handlers run on, and a reload that is scheduled happens.  The
\* outbox loop is triggered again and again (tab shown, back online, a review
\* recorded), so a record does not miss its turn for ever to requests of the
\* page for the same review.
PageFairness ==
  /\ SF_vars(\E q \in pending : Deliver(q))
  /\ WF_vars(\E g \in gets : GetAnswered(g) \/ Loaded(g) \/ Resumed(g))
  /\ WF_vars(\E r \in reviews : r.own /\ ReviewStep(r))
  /\ WF_vars(\E r \in reviews : ~ r.own /\ ReviewStep(r))
  /\ WF_vars(Unmount)
  /\ WF_vars(Reload)

\* The learner goes on: tries again, comes back, resumes, answers and advances.
LearnerFairness ==
  /\ WF_vars(RetryLoad) /\ WF_vars(GoCompose) /\ WF_vars(Return)
  /\ WF_vars(Resume) /\ WF_vars(Reveal) /\ WF_vars(Rate) /\ WF_vars(Advance)

Spec == Init /\ [][Next]_vars
FairSpec == Spec /\ PageFairness /\ LearnerFairness

-----------------------------------------------------------------------------
(* Properties                                                               *)

\* A card is on screen, of the lesson the page holds.
Sound == OnCard /\ ~ page.adrift

\* The card on screen is never ahead of the server, and what it shows as rated
\* the server has recorded, though replies of loads, resumes, reviews and
\* resynchronisations arrive late and in any order and other devices answer; and a
\* card whose rating is saved can be left: no order of replies leaves it rated and
\* blocked.
CardFollowsServer ==
  Sound =>
    /\ page.at <= index[page.shown]
    /\ page.rated \subseteq Reviewed(page.shown)
    /\ \A p \in 1 .. page.at : Items[page.shown][p] \in page.rated
    /\ Current \in page.rated /\ ~ page.reviewing => Decision # "blocked"

\* A result is only shown, or kept for later, of a lesson the server has
\* completed, and the screen of the results always has one to show.
ResultIsOfCompletedLesson ==
  /\ saved # NoLesson => Completed(saved)
  /\ page.result # NoLesson => Completed(page.result)
  /\ page.started /\ page.complete => page.result # NoLesson

\* A learner who goes on answering brings the lesson to its end, through lost
\* replies, queued answers, reloads and exits, unless the page is adrift.
LessonEnds ==
  \/ <>page.adrift
  \/ \A l \in Lesson :
       status[l] = "active" ~> status[l] # "active" \/ (page.started /\ page.complete)

=============================================================================
