----------------------------- MODULE StudyPages -----------------------------
(***************************************************************************)
(* The pages from which lessons are started: home, learn, progress, profile  *)
(* and, as they hand over to it, the lesson page (components/lexigo-home-app,*)
(* lexigo-learn-app, lexigo-progress-app, lexigo-profile-app).  Each loads   *)
(* its resources by itself, and lib/request-failure.ts keeps two kinds of    *)
(* answer for a while, so that the next page need not ask again.             *)
(***************************************************************************)
EXTENDS Naturals

CONSTANTS
  MaxChanges,  \* bound on what the server is asked to change: see Change
  MaxEvents,   \* bound on what the learner and other devices do: see Event
  Nothing,     \* not loaded
  Failed,      \* no answer: no connection, a time-out or a server error
  NotFound, Conflict, InvalidSize  \* the refusals of a change

VARIABLES
  server,   \* the lesson and the progress
  session,  \* the access token of the session, by number
  cache,    \* clientResourceCache, for the token of the session
  page,     \* the page on screen
  loads,    \* the reads in flight: of the effect and of the retry button
  action,   \* the change in flight
  overlap,  \* a read and a change were in flight together, or another device acted
  happened, \* number of events so far
  changes   \* number of changes so far

vars == <<server, session, cache, page, loads, action, overlap, happened, changes>>

Resource == {"progress", "lesson", "preview"}
Asker == {"effect", "retry"}
Choice == {"mixed", "mixed in a topic", "noun"}

NoLesson == [id |-> 0, version |-> 0]

\* What a page loads when it opens.
Loads(route) ==
  CASE route = "home" -> {"progress", "lesson"}
    [] route = "learn" -> {"progress", "lesson", "preview"}
    [] route \in {"progress", "profile"} -> {"progress"}
    [] route = "lesson" -> {"lesson"}

\* What of a choice the preview is compared by (matchingLessonPreview).
Settings(c) == IF c = "mixed in a topic" THEN "mixed" ELSE c

NoLoad == [at |-> "idle", token |-> 0, answer |-> Nothing, choice |-> Nothing,
           stored |-> FALSE, wanted |-> FALSE]
NoAction == [kind |-> "none", at |-> "idle", on |-> NoLesson, answer |-> Nothing, wanted |-> FALSE]
NoCache == [progress |-> Nothing, noLesson |-> FALSE]

-----------------------------------------------------------------------------
(* The cache of answers                                                      *)

\* fetchWithTimeout with a GET: a stored answer is one that waits to be taken.
Get(w, k) ==
  LET sent == [NoLoad EXCEPT !.at = "sent", !.token = session, !.wanted = TRUE]
      held(a) == [sent EXCEPT !.at = "served", !.answer = a, !.stored = TRUE]
  IN  IF w = "progress" /\ k.progress # Nothing THEN held(k.progress)
      ELSE IF w = "lesson" /\ k.noLesson THEN held(NoLesson)
      ELSE sent

\* shouldCacheClientResource, cacheKey.
Stored(w, l, k) ==
  IF l.stored \/ l.token # session THEN k
  ELSE IF w = "progress" /\ l.answer # Failed THEN [k EXCEPT !.progress = l.answer]
  ELSE IF w = "lesson" /\ l.answer = NoLesson THEN [k EXCEPT !.noLesson = TRUE]
  ELSE k

\* A read of what a change in flight changes.
Reading == \E w \in {"progress", "lesson"}, b \in Asker : loads[w][b].at \in {"sent", "served"}

-----------------------------------------------------------------------------
(* A page opens                                                              *)

\* The reads that the effects of a page begin with session s; the preview
\* waits for its timer.
Begun(w) ==
  IF w = "preview" THEN [NoLoad EXCEPT !.at = "timer", !.wanted = TRUE] ELSE Get(w, cache)

\* The reads of an effect are aborted, those of the retry button go on.
Asked(route, kept) ==
  [w \in Resource |->
     [effect |-> IF w \in Loads(route) THEN Begun(w) ELSE NoLoad,
      retry |-> [loads[w]["retry"] EXCEPT !.wanted = @ /\ kept]]]

Opened(route) ==
  [route |-> route, choice |-> "mixed", busy |-> FALSE,
   is |-> [w \in Resource |->
             IF w \in Loads(route) \ {"preview"} \/ (w = "preview" /\ route = "home")
             THEN "loading" ELSE "ready"],
   got |-> [w \in Resource |-> Nothing]]

Init ==
  /\ server \in {[lesson |-> l, progress |-> 0] : l \in {NoLesson, [id |-> 1, version |-> 1]}}
  /\ session = 1
  /\ cache = NoCache
  /\ page \in {Opened(r) : r \in {"home", "learn", "progress", "profile"}}
  /\ loads = [w \in Resource |->
                [effect |-> IF w \notin Loads(page.route) THEN NoLoad
                            ELSE [NoLoad EXCEPT !.at = IF w = "preview" THEN "timer" ELSE "sent",
                                                !.token = IF w = "preview" THEN 0 ELSE 1,
                                                !.wanted = TRUE],
                 retry |-> NoLoad]]
  /\ action = NoAction
  /\ overlap = FALSE
  /\ happened = 0
  /\ changes = 0

Event == happened < MaxEvents /\ happened' = happened + 1

\* The page is left: what it asked for is no longer wanted.
Goes(route) ==
  /\ page' = Opened(route)
  /\ loads' = Asked(route, FALSE)

\* The learner goes to another page.
Open(route) ==
  /\ page.route # route /\ Event
  /\ Goes(route)
  /\ action' = [action EXCEPT !.wanted = FALSE]
  /\ overlap' = (overlap \/ action.at = "sent")
  /\ UNCHANGED <<server, session, cache, changes>>

\* The session is refreshed, and the effects that depend on it run again.
SessionRefreshed ==
  /\ Event
  /\ session' = session + 1
  /\ cache' = NoCache
  /\ page' = [page EXCEPT !.is = [w \in Resource |->
                 IF w \in Loads(page.route) \ {"preview"} THEN "loading" ELSE page.is[w]]]
  /\ loads' = [w \in Resource |->
                 [effect |-> IF w \notin Loads(page.route) THEN NoLoad
                             ELSE IF w = "preview" THEN Begun(w)
                             ELSE [NoLoad EXCEPT !.at = "sent", !.token = session', !.wanted = TRUE],
                  retry |-> loads[w]["retry"]]]
  /\ overlap' = (overlap \/ action.at = "sent")
  /\ UNCHANGED <<server, action, changes>>

\* Fifteen seconds have passed.
CacheExpires ==
  /\ cache # NoCache
  /\ \/ cache' = [cache EXCEPT !.progress = Nothing]
     \/ cache' = [cache EXCEPT !.noLesson = FALSE]
  /\ cache' # cache
  /\ UNCHANGED <<server, session, page, loads, action, overlap, happened, changes>>

-----------------------------------------------------------------------------
(* The resources of a page                                                   *)

Answer(w, l) ==
  CASE w = "progress" -> server.progress
    [] w = "lesson" -> server.lesson
    [] w = "preview" -> l.choice

\* The server answers a read.
Serve(w, b) ==
  /\ loads[w][b].at = "sent"
  /\ loads' = [loads EXCEPT ![w][b].at = "served", ![w][b].answer = Answer(w, loads[w][b])]
  /\ UNCHANGED <<server, session, cache, page, action, overlap, happened, changes>>

\* It does not: no connection, a time-out, a server error.
ReadFails(w, b) ==
  /\ loads[w][b].at = "sent" /\ Event
  /\ loads' = [loads EXCEPT ![w][b].at = "served", ![w][b].answer = Failed]
  /\ UNCHANGED <<server, session, cache, page, action, overlap, changes>>

\* What loadProgress, loadActiveLesson, loadProcessPreviews and the effect of
\* the preview make of the answer.
Shown(w, a) ==
  [page EXCEPT !.got[w] = IF a = Failed THEN Nothing ELSE a,
               !.is[w] = IF a = Failed THEN "error" ELSE "ready"]

\* Not the code: no preview is settled when the lesson is not known.
PlannedForNone(a) ==
  IF a = NoLesson THEN [Shown("lesson", a) EXCEPT !.is["preview"] = "loading"] ELSE Shown("lesson", a)

\* loadLessonPlan of the home page: previews are asked for once no lesson is
\* known to be active.
Planned(a) ==
  LET p == Shown("lesson", a)
  IN  IF a = NoLesson THEN [p EXCEPT !.is["preview"] = "loading"]
                      ELSE [p EXCEPT !.is["preview"] = "ready", !.got["preview"] = Nothing]

\* The answer is kept in the cache and shown, if the page that asked is there.
Deliver(w, b) ==
  LET l == loads[w][b]
      plan == w = "lesson" /\ page.route = "home" /\ l.wanted
      ask == plan /\ l.answer = NoLesson
  IN
  /\ l.at = "served"
  /\ cache' = IF ask THEN NoCache ELSE Stored(w, l, cache)
  /\ page' = IF plan THEN Planned(l.answer) ELSE IF l.wanted THEN Shown(w, l.answer) ELSE page
  /\ loads' = IF ask THEN [loads EXCEPT ![w][b] = NoLoad,
                             !["preview"][b] = [NoLoad EXCEPT !.at = "sent", !.choice = "home",
                                                              !.token = session, !.wanted = TRUE]]
              ELSE [loads EXCEPT ![w][b] = NoLoad]
  /\ UNCHANGED <<server, session, action, overlap, happened, changes>>

\* The button of a resource that failed.
Retry(w) ==
  /\ page.is[w] = "error" /\ ~ (w = "preview" /\ page.route = "learn")
  /\ loads[w]["retry"].at = "idle" /\ loads["preview"]["retry"].at = "idle"
  /\ page' = [page EXCEPT !.is[w] = "loading"]
  /\ loads' = [loads EXCEPT ![w]["retry"] =
                 IF w = "preview" THEN [NoLoad EXCEPT !.at = "sent", !.choice = "home",
                                                      !.token = session, !.wanted = TRUE]
                 ELSE Get(w, cache)]
  /\ cache' = IF w = "preview" THEN NoCache ELSE cache
  /\ overlap' = (overlap \/ action.at = "sent")
  /\ UNCHANGED <<server, session, action, happened, changes>>

\* The composer: another source, topic, mode or size.
Choose(c) ==
  /\ page.route = "learn" /\ page.choice # c /\ Event
  /\ page' = [page EXCEPT !.choice = c]
  /\ loads' = [loads EXCEPT !["preview"]["effect"] = Begun("preview")]
  /\ UNCHANGED <<server, session, cache, action, overlap, changes>>

\* Its preview is asked for when the choice has rested.
PreviewTimer ==
  /\ loads["preview"]["effect"].at = "timer"
  /\ loads' = [loads EXCEPT !["preview"]["effect"].at = "sent",
                            !["preview"]["effect"].choice = page.choice]
  /\ page' = [page EXCEPT !.is["preview"] = "loading"]
  /\ cache' = NoCache
  /\ UNCHANGED <<server, session, action, overlap, happened, changes>>

-----------------------------------------------------------------------------
(* What the learner has changed on the server                                *)

\* Not the code: the cache outlives the change.
ChangeCached(kind, on) ==
  /\ ~ page.busy /\ action.at = "idle" /\ changes < MaxChanges
  /\ changes' = changes + 1
  /\ action' = [kind |-> kind, at |-> "sent", on |-> on, answer |-> Nothing, wanted |-> TRUE]
  /\ page' = [page EXCEPT !.busy = TRUE]
  /\ overlap' = (overlap \/ Reading)
  /\ UNCHANGED <<server, session, cache, loads, happened>>

\* A request that is not a GET: the cache is cleared before it is sent.
Change(kind, on) ==
  /\ ~ page.busy /\ action.at = "idle" /\ changes < MaxChanges
  /\ changes' = changes + 1
  /\ action' = [kind |-> kind, at |-> "sent", on |-> on, answer |-> Nothing, wanted |-> TRUE]
  /\ page' = [page EXCEPT !.busy = TRUE]
  /\ cache' = NoCache
  /\ overlap' = (overlap \/ Reading)
  /\ UNCHANGED <<server, session, loads, happened>>

\* matchingLessonPreview.
Matching ==
  page.got["preview"] # Nothing /\ Settings(page.got["preview"]) = Settings(page.choice)

\* startLesson of the composer and of the home page.
StartComposed == page.route = "learn" /\ Matching /\ Change("create", NoLesson)

StartRecommended ==
  /\ page.route = "home"
  /\ page.got["lesson"] = NoLesson /\ page.is["lesson"] = "ready"
  /\ page.is["preview"] = "ready" /\ page.got["preview"] # Nothing
  /\ Change("create", NoLesson)

Lesson == page.got["lesson"] \notin {Nothing, NoLesson}

\* discardActiveLesson.
Discard == page.route = "learn" /\ Lesson /\ Change("discard", page.got["lesson"])

\* updateDailyGoal.
SetGoal == page.route = "profile" /\ Change("goal", NoLesson)

\* A rating on the lesson page.
Rate == page.route = "lesson" /\ Lesson /\ Change("review", page.got["lesson"])

\* startDueReview: what is due is read first.
StartDue ==
  /\ page.route = "progress" /\ page.got["progress"] # Nothing
  /\ ~ page.busy /\ action.at = "idle" /\ changes < MaxChanges
  /\ changes' = changes + 1
  /\ action' = [NoAction EXCEPT !.kind = "due", !.at = "reading", !.wanted = TRUE]
  /\ page' = [page EXCEPT !.busy = TRUE]
  /\ UNCHANGED <<server, session, cache, loads, overlap, happened>>

\* The lesson of the due items that the server tells, of a size bounded by
\* boundedLessonSize: some are too many for the sizes the server has.
DueRead ==
  /\ action.at = "reading"
  /\ \E k \in {"create", "oversized"} : action' = [action EXCEPT !.at = "sent", !.kind = k]
  /\ cache' = NoCache
  /\ overlap' = (overlap \/ Reading)
  /\ UNCHANGED <<server, session, page, loads, happened, changes>>

\* Nothing is due any more: the progress is loaded again.
NothingDue ==
  /\ action.at = "reading" /\ loads["progress"]["retry"].at = "idle"
  /\ action' = [action EXCEPT !.at = "reloading", !.answer = "progress"]
  /\ page' = IF action.wanted THEN [page EXCEPT !.is["progress"] = "loading"] ELSE page
  /\ loads' = [loads EXCEPT !["progress"]["retry"] =
                 [Get("progress", cache) EXCEPT !.wanted = action.wanted]]
  /\ UNCHANGED <<server, session, cache, overlap, happened, changes>>

\* The server carries the change out: s is what it then keeps, a its answer.
Carried(s, a) ==
  /\ server' = s
  /\ action' = [action EXCEPT !.at = "answered", !.answer = a]

NewLesson == [id |-> changes + 1, version |-> 1]

\* CreateLesson for a size that validLessonSize knows.
ServeCreate ==
  /\ action.kind = "create"
  /\ Carried([server EXCEPT !.lesson = NewLesson], NewLesson)

ServeOversized ==
  /\ action.kind = "oversized"
  /\ Carried(server, InvalidSize)

\* DiscardLesson: of another lesson, of an older version, of this one.
ServeDiscard ==
  /\ action.kind = "discard"
  /\ IF server.lesson = NoLesson \/ server.lesson.id # action.on.id THEN Carried(server, NotFound)
     ELSE IF server.lesson # action.on THEN Carried(server, Conflict)
     ELSE Carried([server EXCEPT !.lesson = NoLesson], "done")

ServeGoal ==
  /\ action.kind = "goal"
  /\ Carried([server EXCEPT !.progress = @ + 1], server.progress + 1)

\* ReviewLessonWord: the next item, or the end of the lesson.
ServeReview ==
  /\ action.kind = "review"
  /\ IF server.lesson # action.on THEN Carried(server, Conflict)
     ELSE \E l \in {NoLesson, [server.lesson EXCEPT !.version = @ + 1]} :
            Carried([server EXCEPT !.lesson = l, !.progress = @ + 1], l)

ServeAction ==
  /\ action.at = "sent"
  /\ ServeCreate \/ ServeOversized \/ ServeDiscard \/ ServeGoal \/ ServeReview
  /\ UNCHANGED <<session, cache, page, loads, overlap, happened, changes>>

\* The change is not carried out; or it is, and the answer is lost.
ActionFails ==
  /\ action.at \in {"sent", "answered"} /\ Event
  /\ action' = [action EXCEPT !.at = "answered", !.answer = Failed]
  /\ UNCHANGED <<server, session, cache, page, loads, overlap, changes>>

Refusal == {Failed, NotFound, Conflict, InvalidSize}

\* A lesson was created: the pages go to it, even one that was left meanwhile.
CreateReturns ==
  /\ action.kind \in {"create", "oversized"} /\ action.answer \notin Refusal
  /\ action' = NoAction
  /\ Goes("lesson")

\* A lesson that changed elsewhere is loaded again, by no signal.
ConflictReturns ==
  /\ action.kind = "discard" /\ action.answer = Conflict /\ loads["lesson"]["retry"].at = "idle"
  /\ action' = [action EXCEPT !.at = "reloading", !.answer = "lesson"]
  /\ page' = IF action.wanted THEN [page EXCEPT !.is["lesson"] = "loading"] ELSE page
  /\ loads' = [loads EXCEPT !["lesson"]["retry"] =
                 [Get("lesson", cache) EXCEPT !.wanted = action.wanted]]

\* What the other changes, and those that failed, leave on their page.
OtherReturns ==
  LET free == [page EXCEPT !.busy = FALSE]
      a == action.answer
  IN
  /\ \/ action.kind \in {"goal", "review"}
     \/ action.kind \in {"create", "oversized"} /\ a \in Refusal
     \/ action.kind = "discard" /\ a # Conflict
  /\ action' = NoAction
  /\ page' = IF ~ action.wanted THEN page
             ELSE IF a \in Refusal THEN free
             ELSE CASE action.kind = "goal" ->
                         [free EXCEPT !.got["progress"] = a, !.is["progress"] = "ready"]
                    [] action.kind = "review" -> [free EXCEPT !.got["lesson"] = a]
                    [] action.kind = "discard" ->
                         [free EXCEPT !.got["lesson"] = NoLesson, !.is["lesson"] = "ready"]
  /\ UNCHANGED loads

ActionReturns ==
  /\ action.at = "answered"
  /\ CreateReturns \/ ConflictReturns \/ OtherReturns
  /\ UNCHANGED <<server, session, cache, overlap, happened, changes>>

\* The page is free again when the resource is loaded.
Reloaded ==
  /\ action.at = "reloading" /\ loads[action.answer]["retry"].at = "idle"
  /\ action' = NoAction
  /\ page' = IF action.wanted THEN [page EXCEPT !.busy = FALSE] ELSE page
  /\ UNCHANGED <<server, session, cache, loads, overlap, happened, changes>>

\* Another device starts, answers or ends a lesson.
OtherDevice ==
  /\ Event
  /\ \E l \in {NoLesson, [id |-> server.lesson.id + 10, version |-> 1],
               [server.lesson EXCEPT !.version = @ + 1]} :
       /\ l = NoLesson \/ l.id # 0
       /\ server' = [server EXCEPT !.lesson = l, !.progress = @ + 1]
  /\ overlap' = TRUE
  /\ UNCHANGED <<session, cache, page, loads, action, changes>>

-----------------------------------------------------------------------------

Answers(w, b) == Serve(w, b) \/ ReadFails(w, b) \/ Deliver(w, b)

Next ==
  \/ \E r \in {"home", "learn", "progress", "profile", "lesson"} : Open(r)
  \/ SessionRefreshed \/ CacheExpires \/ PreviewTimer \/ OtherDevice
  \/ \E w \in Resource, b \in Asker : Answers(w, b)
  \/ \E w \in Resource : Retry(w)
  \/ \E c \in Choice : Choose(c)
  \/ StartComposed \/ StartRecommended \/ Discard \/ SetGoal \/ Rate \/ StartDue
  \/ DueRead \/ NothingDue \/ ServeAction \/ ActionFails \/ ActionReturns \/ Reloaded

Spec == Init /\ [][Next]_vars

\* What runs by itself: timers, and requests, which all end (fetchWithTimeout
\* aborts them if need be).
Handler ==
  \/ PreviewTimer \/ DueRead \/ NothingDue \/ ServeAction \/ ActionReturns \/ Reloaded
  \/ \E w \in Resource, b \in Asker : Answers(w, b)

Fairness == WF_vars(Handler)

FairSpec == Spec /\ Fairness

-----------------------------------------------------------------------------
(* Properties                                                                *)

\* What is kept for the next page is what the server would say: no change of
\* this device is hidden by an answer that is older, unless the change was under
\* way while that answer was (invalidateClientResources clears the cache when a
\* change is sent).
CacheIsCurrent ==
  ~ overlap =>
    /\ cache.noLesson => server.lesson = NoLesson
    /\ cache.progress # Nothing => cache.progress = server.progress

=============================================================================
