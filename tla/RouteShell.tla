---------------------------- MODULE RouteShell ----------------------------
(***************************************************************************)
(* The shell of the routes of a document (src/frontend/components/           *)
(* routed-lexigo-app.tsx, route-primary-navigation.tsx, src/frontend/lib/    *)
(* route-tab-snapshots.ts, navigation-scroll-restoration.ts): the history of *)
(* the tab, the guard that turns a Back in a lesson into a question, and the *)
(* place each section is returned to, frame by frame until its content is    *)
(* there or the learner scrolls.                                             *)
(***************************************************************************)
EXTENDS Naturals, SequencesExt

CONSTANTS
  None,
  Scroll,      \* scroll positions, with 0
  MaxHistory,  \* bound: entries of the history
  MaxMoves     \* bound: navigations

VARIABLES
  entries, current,   \* the history of the tab and the entry that is shown
  scroll,             \* the position of the window
  snapshots,          \* where each section was left
  persisted,          \* the view localStorage keeps for the next start
  lesson,             \* the lesson owner in the document
  guarded,            \* focusedLessonMountedRef
  request, stable,    \* focusedLessonExitRequested, and the lesson was there for a frame
  asked,              \* the lesson shows its exit dialog
  boundary,           \* the arrival that is being restored
  announced,          \* the view the last announcement named
  chosen,             \* where the learner scrolled since the arrival
  pressed,            \* the learner pressed Back since the lesson was opened
  moves

vars == <<entries, current, scroll, snapshots, persisted, lesson, guarded, request, stable, asked,
          boundary, announced, chosen, pressed, moves>>

Section == {"home", "learn"}
View == Section \cup {"profile", "lesson"}
Entry == [view : View, scroll : Scroll]
Arrival == [at : {"none", "discovering", "restoring"}, view : View, scroll : Scroll, interrupted : BOOLEAN]

Location == entries[current].view

Settled == [at |-> "none", view |-> "home", scroll |-> 0, interrupted |-> FALSE]

TypeOK ==
  /\ entries \in Seq(Entry) /\ current \in DOMAIN entries
  /\ scroll \in Scroll /\ snapshots \in [Section -> Scroll] /\ persisted \in Section \cup {None}
  /\ lesson \in {"none", "loading", "mounted"}
  /\ {guarded, request, stable, asked, pressed} \subseteq BOOLEAN
  /\ boundary \in Arrival /\ announced \in View \cup {None} /\ chosen \in Scroll \cup {None}
  /\ moves \in 0..MaxMoves

Init ==
  /\ \E v \in View \ {"lesson"} :
        /\ entries = <<[view |-> v, scroll |-> 0]>>
        /\ persisted = IF v \in Section THEN v ELSE None
  /\ current = 1 /\ scroll = 0 /\ snapshots = [v \in Section |-> 0]
  /\ lesson = "none" /\ guarded = FALSE /\ request = FALSE /\ stable = FALSE /\ asked = FALSE
  /\ boundary = Settled /\ announced = None /\ chosen = None /\ pressed = FALSE /\ moves = 0

-----------------------------------------------------------------------------
(* What every change of the path brings with it                              *)

Moves == moves < MaxMoves /\ moves' = moves + 1

\* routeBoundaryDestination: a section goes where it was left, by the snapshots
\* kept, another view where its entry says.
Destination(entry, kept) == IF entry.view \in Section THEN kept[entry.view] ELSE entry.scroll

\* The layout effects of the shell at entry, come to from view from. The focused
\* routes look after themselves; between two views that are no boundary nothing
\* is restored.
Arrives(from, entry, kept) ==
  /\ boundary' = IF entry.view = "lesson" \/ {from, entry.view} \cap Section = {}
                 THEN Settled
                 ELSE [at |-> "discovering", view |-> entry.view,
                       scroll |-> Destination(entry, kept), interrupted |-> FALSE]
  /\ persisted' = IF entry.view \in Section THEN entry.view ELSE None
  /\ chosen' = None
  /\ scroll' \in Scroll

\* The page of a lesson comes and goes with its path; the guard is up from the
\* path on, and comes down a frame after (GuardDrops).
Shows(v) ==
  /\ lesson' = IF v = "lesson" THEN (IF lesson = "none" THEN "loading" ELSE lesson) ELSE "none"
  /\ guarded' = (guarded \/ v = "lesson")
  /\ asked' = (asked /\ v = "lesson")

\* The entries up to the one that is shown, left at position left, and entry.
Pushed(left, entry) == Append([SubSeq(entries, 1, current) EXCEPT ![current].scroll = left], entry)

-----------------------------------------------------------------------------
(* Navigation                                                                *)

\* A link of the chrome, which focused routes do not have: the place is
\* remembered, in the snapshots and in the entry, and the view is opened where
\* it was left.
OpenLink(v) ==
  LET kept == IF Location \in Section THEN [snapshots EXCEPT ![Location] = scroll] ELSE snapshots
      entry == [view |-> v, scroll |-> IF v \in Section THEN kept[v] ELSE 0]
  IN  /\ Location # "lesson"
      /\ v \notin {Location, "lesson"}
      /\ current < MaxHistory
      /\ Moves
      /\ snapshots' = kept
      /\ entries' = Pushed(scroll, entry)
      /\ current' = current + 1
      /\ Arrives(Location, entry, kept)
      /\ Shows(v)
      /\ UNCHANGED <<request, stable, announced, pressed>>

\* Not the code: a request that is left over is kept.
OpenLessonKeeping ==
  LET entry == [view |-> "lesson", scroll |-> 0]
  IN  /\ Location # "lesson"
      /\ current < MaxHistory
      /\ Moves
      /\ entries' = Pushed(entries[current].scroll, entry)
      /\ current' = current + 1
      /\ Arrives(Location, entry, snapshots)
      /\ Shows("lesson")
      /\ pressed' = FALSE
      /\ UNCHANGED <<request, stable, snapshots, announced>>

\* A page hands over to a lesson, and tells the shell, which forgets a request to
\* leave that the lesson before has not answered.
OpenLesson ==
  LET entry == [view |-> "lesson", scroll |-> 0]
  IN  /\ Location # "lesson"
      /\ current < MaxHistory
      /\ Moves
      /\ entries' = Pushed(entries[current].scroll, entry)
      /\ current' = current + 1
      /\ Arrives(Location, entry, snapshots)
      /\ Shows("lesson")
      /\ request' = FALSE /\ stable' = FALSE
      /\ pressed' = FALSE
      /\ UNCHANGED <<snapshots, announced>>

LessonMounts ==
  /\ lesson = "loading"
  /\ lesson' = "mounted"
  /\ UNCHANGED <<entries, current, scroll, snapshots, persisted, guarded, request, stable, asked,
                 boundary, announced, chosen, pressed, moves>>

\* The lesson ends, or was left by its dialog: the page that follows takes its
\* entry, or one of its own.
LeaveLesson(v, replace) ==
  LET entry == [view |-> v, scroll |-> 0]
  IN  /\ Location = "lesson"
      /\ v # "lesson"
      /\ Moves
      /\ IF replace
         THEN entries' = [entries EXCEPT ![current] = entry] /\ UNCHANGED current
         ELSE /\ current < MaxHistory
              /\ entries' = Pushed(entries[current].scroll, entry)
              /\ current' = current + 1
      /\ Arrives("lesson", entry, snapshots)
      /\ Shows(v)
      /\ UNCHANGED <<request, stable, snapshots, announced, pressed>>

\* Back or forward, to entry i. While the guard is up the shell puts the lesson
\* back, over the entry when that is a lesson's and after it otherwise, and asks.
Traverse(i) ==
  /\ i \in DOMAIN entries \ {current}
  /\ Moves
  /\ \/ /\ guarded
        /\ IF entries[i].view = "lesson"
           THEN current' = i /\ UNCHANGED entries
           ELSE /\ i < MaxHistory
                /\ current' = i + 1
                /\ entries' = Append(SubSeq(entries, 1, i), [view |-> "lesson", scroll |-> 0])
        /\ request' = TRUE
        /\ pressed' = TRUE
        /\ IF Location = "lesson"
           THEN UNCHANGED <<scroll, persisted, lesson, guarded, asked, boundary, chosen>>
           ELSE Arrives(Location, [view |-> "lesson", scroll |-> 0], snapshots) /\ Shows("lesson")
        /\ UNCHANGED <<snapshots, stable>>
     \/ /\ ~guarded
        /\ current' = i
        /\ entries' = [entries EXCEPT ![i].scroll = 0]
        /\ Arrives(Location, entries[i], snapshots)
        /\ Shows(entries[i].view)
        /\ UNCHANGED <<snapshots, request, stable, pressed>>
  /\ UNCHANGED announced

\* The frame after the path of a lesson is left.
GuardDrops ==
  /\ guarded /\ Location # "lesson" /\ lesson = "none"
  /\ guarded' = FALSE
  /\ UNCHANGED <<entries, current, scroll, snapshots, persisted, lesson, request, stable, asked,
                 boundary, announced, chosen, pressed, moves>>

\* The application is started again from the home screen: the view that was kept
\* takes the place of the home page.
Relaunch ==
  LET v == IF persisted = None THEN "home" ELSE persisted
      entry == [view |-> v, scroll |-> 0]
  IN  /\ Moves
      /\ entries' = <<entry>> /\ current' = 1
      /\ snapshots' = [s \in Section |-> 0]
      /\ persisted' = v
      /\ boundary' = IF v = "home" THEN Settled
                     ELSE [at |-> "discovering", view |-> v, scroll |-> 0, interrupted |-> FALSE]
      /\ scroll' = 0 /\ lesson' = "none" /\ guarded' = FALSE /\ request' = FALSE /\ stable' = FALSE
      /\ asked' = FALSE /\ announced' = None /\ chosen' = None /\ pressed' = FALSE

-----------------------------------------------------------------------------
(* The question of the lesson                                                *)

\* deliverFocusedLessonExit, once a frame: the lesson has to be there for two.
DeliverExit ==
  /\ request
  /\ \/ /\ Location = "lesson" /\ lesson = "mounted" /\ stable
        /\ asked' = TRUE /\ request' = FALSE /\ stable' = FALSE
     \/ /\ Location = "lesson" /\ lesson = "mounted" /\ ~stable
        /\ stable' = TRUE
        /\ UNCHANGED <<asked, request>>
     \/ /\ ~(Location = "lesson" /\ lesson = "mounted")
        /\ stable' = FALSE
        /\ UNCHANGED <<asked, request>>
  /\ UNCHANGED <<entries, current, scroll, snapshots, persisted, lesson, guarded, boundary, announced,
                 chosen, pressed, moves>>

\* The learner stays.
CancelExit ==
  /\ asked
  /\ asked' = FALSE
  /\ UNCHANGED <<entries, current, scroll, snapshots, persisted, lesson, guarded, request, stable,
                 boundary, announced, chosen, pressed, moves>>

-----------------------------------------------------------------------------
(* The place that is returned to                                             *)

Announces ==
  /\ boundary' = Settled
  /\ announced' = boundary.view

\* restoreBoundary: the page of the view is there.
Discover ==
  /\ boundary.at = "discovering"
  /\ IF boundary.interrupted
     THEN Announces
     ELSE boundary' = [boundary EXCEPT !.at = "restoring"] /\ UNCHANGED announced
  /\ UNCHANGED <<entries, current, scroll, snapshots, persisted, lesson, guarded, request, stable, asked,
                 chosen, pressed, moves>>

\* restore of scheduleNavigationScrollRestoration: the position is reached, or
\* the frames are used up, or the page is still too short and the next frame
\* tries again.
Restore ==
  /\ boundary.at = "restoring"
  /\ \/ scroll' = boundary.scroll /\ Announces
     \/ scroll' \in Scroll /\ Announces
     \/ scroll' \in Scroll \ {boundary.scroll} /\ UNCHANGED <<boundary, announced>>
  /\ UNCHANGED <<entries, current, snapshots, persisted, lesson, guarded, request, stable, asked,
                 chosen, pressed, moves>>

\* The learner scrolls, which interrupts whatever restores.
Interrupt(to) ==
  /\ scroll' = to /\ chosen' = to
  /\ \/ /\ boundary.at = "discovering"
        /\ boundary' = [boundary EXCEPT !.interrupted = TRUE]
        /\ UNCHANGED announced
     \/ boundary.at = "restoring" /\ Announces
     \/ boundary.at = "none" /\ UNCHANGED <<boundary, announced>>
  /\ UNCHANGED <<entries, current, snapshots, persisted, lesson, guarded, request, stable, asked,
                 pressed, moves>>

Next ==
  \/ \E v \in View : OpenLink(v) \/ \E replace \in BOOLEAN : LeaveLesson(v, replace)
  \/ OpenLesson \/ LessonMounts \/ GuardDrops \/ Relaunch
  \/ \E i \in 1..MaxHistory : Traverse(i)
  \/ DeliverExit \/ CancelExit
  \/ Discover \/ Restore
  \/ \E to \in Scroll : Interrupt(to)

-----------------------------------------------------------------------------

\* No way through the history leaves a lesson behind the learner's back, and no
\* lesson asks to be left that the learner did not press Back in: a request that
\* outlives its lesson is not delivered to the next one that is opened
\* (preserveFocusedLesson, deliverFocusedLessonExit and
\* clearFocusedLessonExitForNewHandoff). Once the learner has scrolled in a view,
\* nothing scrolls it away until the view is left; and what is being restored is the
\* view that is shown (interruptRestoration and the clean-up of the effect).
RouteIsTheLearners ==
  /\ lesson # "none" <=> Location = "lesson"
  /\ Location = "lesson" => guarded
  /\ asked => Location = "lesson" /\ pressed
  /\ chosen # None => scroll = chosen
  /\ boundary.at # "none" => boundary.view = Location

=============================================================================
