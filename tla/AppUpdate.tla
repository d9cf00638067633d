----------------------------- MODULE AppUpdate -----------------------------
(***************************************************************************)
(* How the tabs of a browser get from one build of the application to the    *)
(* next: the guard that runs before a document (lib/build-version-guard), the *)
(* registration of the service worker and its update surface                 *)
(* (components/service-worker-registration, lib/service-worker-update), the   *)
(* recovery from missing chunks (components/application-error-boundary) and   *)
(* what the browser does with public/sw.js.                                  *)
(***************************************************************************)
EXTENDS Naturals, FiniteSets

CONSTANTS
  Tab,       \* tabs of the browser
  None,      \* no worker, no build, nothing
  MaxBuild,  \* bound on the builds that are deployed
  MaxEvents  \* bound on what the learner does and on failures: see Event

VARIABLES
  deployed, \* the build that the server has
  marker,   \* the build marker in localStorage
  reg,      \* the workers of the registration of the scope: active, waiting and
            \* installing, and whether the waiting one was told not to wait
  tab,      \* the document of each tab
  told,     \* tabs that are still to hear of their new controller
  hops,     \* navigations of the guard since one that was asked for (history)
  happened  \* number of events so far

vars == <<deployed, marker, reg, tab, told, hops, happened>>

Build == 1..MaxBuild

\* A worker: the build in the URL of its script, and the code it was fetched as.
Worker == [url : Build, code : Build]
NoWorkers == [active |-> None, waiting |-> None, installing |-> None, skip |-> FALSE]

\* A document as it is delivered: its build, the build that its URL asks for
\* and the worker that controls it. A tab keeps its sessionStorage: the update
\* it has deferred and the snapshot of a recovery.
Document(t, build, query, lesson, deferred, snapshot) ==
  [at |-> "guard", build |-> build, query |-> query, controller |-> reg'.active, lesson |-> lesson,
   phase |-> "idle", waiting |-> None, asked |-> None, timers |-> 0,
   deferred |-> deferred, snapshot |-> snapshot]

Init ==
  /\ deployed = 1
  /\ marker = None
  /\ reg = NoWorkers
  /\ tab = [t \in Tab |-> [at |-> "closed", build |-> None, query |-> None, controller |-> None,
                           lesson |-> FALSE, phase |-> "idle", waiting |-> None, asked |-> None,
                           timers |-> 0, deferred |-> None, snapshot |-> FALSE]]
  /\ told = {}
  /\ hops = [t \in Tab |-> 0]
  /\ happened = 0

Event == happened < MaxEvents /\ happened' = happened + 1

-----------------------------------------------------------------------------
(* Loading a document                                                        *)

\* Tab t navigates; while the server is being replaced, an older build answers.
Loads(t, query, lesson, deferred, snapshot) ==
  /\ \E b \in {deployed, deployed - 1} \cap Build :
       tab' = [tab EXCEPT ![t] = Document(t, b, query, lesson, deferred, snapshot)]
  /\ told' = told \ {t}

\* The learner opens, reloads or follows a link, from the offline page too.
Open(t) ==
  /\ Event
  /\ UNCHANGED reg
  /\ \E lesson \in BOOLEAN : Loads(t, None, lesson, tab[t].deferred, tab[t].snapshot)
  /\ hops' = [hops EXCEPT ![t] = 0]
  /\ UNCHANGED <<deployed, marker>>

Deploy ==
  /\ deployed < MaxBuild
  /\ deployed' = deployed + 1
  /\ UNCHANGED <<marker, reg, tab, told, hops, happened>>

Foreign(t) ==
  \/ marker \notin {None, tab[t].build}
  \/ tab[t].controller # None /\ tab[t].controller.url # tab[t].build

\* completeCurrentBuild.
GuardCompletes(t) ==
  /\ marker' = tab[t].build
  /\ tab' = [tab EXCEPT ![t].at = "starting"]

\* Not the code: the build that the URL asks for is not looked at.
GuardedByMarker(t) ==
  IF ~Foreign(t) THEN GuardCompletes(t)
  ELSE tab' = [tab EXCEPT ![t].at = "cleaning"] /\ UNCHANGED marker

\* The guard: a document that was asked for by its build starts, another build
\* in its place goes to the static page; one that does not fit what the
\* browser has from another build cleans that up first.
Guarded(t) ==
  IF tab[t].query # None
  THEN IF tab[t].query = tab[t].build THEN GuardCompletes(t)
       ELSE tab' = [tab EXCEPT ![t].at = "static"] /\ UNCHANGED marker
  ELSE IF ~Foreign(t) THEN GuardCompletes(t)
  ELSE tab' = [tab EXCEPT ![t].at = "cleaning"] /\ UNCHANGED marker

Guard(t) ==
  /\ tab[t].at = "guard"
  /\ Guarded(t)
  /\ UNCHANGED <<deployed, reg, told, hops, happened>>

\* cleanupRuntime, which gives up after a while, and the one navigation.
Cleaned(t) ==
  /\ tab[t].at = "cleaning"
  /\ reg' \in {reg, NoWorkers}
  /\ Loads(t, tab[t].build, tab[t].lesson, tab[t].deferred, tab[t].snapshot)
  /\ hops' = [hops EXCEPT ![t] = @ + 1]
  /\ UNCHANGED <<deployed, marker, happened>>

-----------------------------------------------------------------------------
(* The worker and its update surface                                         *)

Running(t) == tab[t].at = "running"

\* publishWaitingWorker: p with worker w, which waits.
Published(p, w) ==
  IF p.controller = None THEN p
  ELSE [p EXCEPT !.waiting = w, !.phase = IF p.deferred = w.url THEN "deferred" ELSE "available"]

\* The worker of build b is registered, or fetched again: a script that is
\* there already is not installed twice.
Fetched(b) ==
  LET w == [url |-> b, code |-> deployed] IN
  IF w \in {reg.active, reg.waiting, reg.installing} THEN reg ELSE [reg EXCEPT !.installing = w]

\* The effect of ServiceWorkerRegistration: the snapshot of a recovery is
\* consumed, the worker of this build is registered.
Start(t) ==
  /\ tab[t].at = "starting"
  /\ reg' = Fetched(tab[t].build)
  /\ LET p == [tab[t] EXCEPT !.at = "running", !.snapshot = FALSE,
                             !.phase = IF tab[t].snapshot THEN "updated" ELSE "idle"]
     IN tab' = [tab EXCEPT ![t] = IF reg.waiting # None THEN Published(p, reg.waiting) ELSE p]
  /\ UNCHANGED <<deployed, marker, told, hops, happened>>

StartUnregistered(t) ==
  /\ Event
  /\ tab[t].at = "starting"
  /\ tab' = [tab EXCEPT ![t].at = "running", ![t].snapshot = FALSE, ![t].phase = "error"]
  /\ UNCHANGED <<deployed, marker, reg, told, hops>>

\* checkForUpdate: the script of the registration is fetched again.
CheckForUpdate(t) ==
  /\ Running(t)
  /\ reg.active # None
  /\ reg' = Fetched(reg.active.url)
  /\ reg' # reg
  /\ UNCHANGED <<deployed, marker, tab, told, hops, happened>>

\* The worker is installed: the pages that have a controller publish it.
Installed ==
  /\ reg.installing # None
  /\ reg' = [reg EXCEPT !.waiting = reg.installing, !.installing = None, !.skip = FALSE]
  /\ tab' = [t \in Tab |-> IF Running(t) THEN Published(tab[t], reg.installing) ELSE tab[t]]
  /\ UNCHANGED <<deployed, marker, told, hops, happened>>

InstallFails ==
  /\ Event
  /\ reg.installing # None
  /\ reg' = [reg EXCEPT !.installing = None]
  /\ UNCHANGED <<deployed, marker, tab, told, hops>>

\* A worker that nobody is controlled by makes way for the next, which takes
\* over the documents that come.
ActivatesAlone ==
  /\ reg.waiting # None
  /\ ~reg.skip
  /\ reg.active = None \/ \A t \in Tab : tab[t].controller # reg.active
  /\ reg' = [reg EXCEPT !.active = reg.waiting, !.waiting = None]
  /\ UNCHANGED <<deployed, marker, tab, told, hops, happened>>

\* skipWaiting and clients.claim: every document is controlled by the new
\* worker, whose caches are the only ones left.
ActivatesAsked ==
  /\ reg.skip
  /\ reg' = [reg EXCEPT !.active = reg.waiting, !.waiting = None, !.skip = FALSE]
  /\ tab' = [t \in Tab |-> IF tab[t].at = "closed" THEN tab[t] ELSE [tab[t] EXCEPT !.controller = reg.waiting]]
  /\ told' = {t \in Tab : tab[t].at # "closed"}
  /\ UNCHANGED <<deployed, marker, hops, happened>>

\* applyWaitingUpdate with worker w.
Applied(t, w) == [tab EXCEPT ![t].phase = "applying", ![t].asked = w, ![t].timers = @ + 1,
                             ![t].deferred = None, ![t].snapshot = TRUE]

\* The worker that waits, or the one that was published: a message to a worker
\* that waits no more changes nothing.
Apply(t) ==
  /\ tab' = Applied(t, IF reg.waiting # None THEN reg.waiting ELSE tab[t].waiting)
  /\ reg' = [reg EXCEPT !.skip = reg.waiting # None]
  /\ UNCHANGED <<deployed, marker, told, hops>>

UpdateNow(t) ==
  /\ Event
  /\ Running(t)
  /\ tab[t].phase \in {"available", "deferred"}
  /\ Apply(t)

\* synchronizeRoute.
UpdateDeferred(t) ==
  /\ Running(t)
  /\ tab[t].phase = "deferred"
  /\ ~tab[t].lesson
  /\ Apply(t)
  /\ UNCHANGED happened

\* deferUntilLessonEnds.
Defer(t) ==
  /\ Event
  /\ Running(t)
  /\ tab[t].phase = "available"
  /\ tab[t].lesson
  /\ tab' = [tab EXCEPT ![t].phase = "deferred", ![t].deferred = tab[t].waiting.url]
  /\ UNCHANGED <<deployed, marker, reg, told, hops>>

\* The buttons that close the surface: a deferred update stays deferred.
Dismiss(t) ==
  /\ Running(t)
  /\ tab[t].phase \in {"available", "deferred", "updated", "error"}
  /\ tab' = [tab EXCEPT ![t].phase = "idle"]
  /\ UNCHANGED <<deployed, marker, reg, told, hops, happened>>

\* The page moves to a lesson or out of it.
Route(t) ==
  /\ Event
  /\ Running(t)
  /\ tab' = [tab EXCEPT ![t].lesson = ~@]
  /\ UNCHANGED <<deployed, marker, reg, told, hops>>

\* handleControllerChange: the tab that asked is loaded again.
ControllerChange(t) ==
  /\ t \in told
  /\ tab[t].at # "recovering"
  /\ UNCHANGED reg
  /\ IF Running(t) /\ tab[t].asked # None
     THEN Loads(t, None, tab[t].lesson, tab[t].deferred, tab[t].snapshot)
     ELSE told' = told \ {t} /\ UNCHANGED tab
  /\ hops' = IF Running(t) /\ tab[t].asked # None THEN [hops EXCEPT ![t] = 0] ELSE hops
  /\ UNCHANGED <<deployed, marker, happened>>

\* The activation was not confirmed in time: the timer of an earlier request
\* ends a later one too.
ActivationTimeout(t) ==
  /\ Running(t)
  /\ tab[t].timers > 0
  /\ tab' = [tab EXCEPT ![t].timers = @ - 1, ![t].asked = None,
                        ![t].phase = IF tab[t].asked # None THEN "error" ELSE @]
  /\ UNCHANGED <<deployed, marker, reg, told, hops, happened>>

-----------------------------------------------------------------------------
(* The error boundary                                                        *)

\* A chunk of the build is not on the server any more; the surface is gone.
ChunkMissing(t) ==
  /\ Event
  /\ Running(t)
  /\ tab[t].build # deployed
  /\ tab' = [tab EXCEPT ![t].at = "crashed", ![t].phase = "idle", ![t].asked = None, ![t].timers = 0]
  /\ UNCHANGED <<deployed, marker, reg, told, hops>>

\* recoverVersionMismatch, with a worker that waits.
RecoverByWorker(t) ==
  /\ tab[t].at = "crashed"
  /\ reg.waiting # None
  /\ reg' = [reg EXCEPT !.skip = TRUE]
  /\ tab' = [tab EXCEPT ![t].at = "recovering", ![t].snapshot = TRUE]
  /\ UNCHANGED <<deployed, marker, told, hops, happened>>

\* Without one, or as the worker does not take over in time, or as anything
\* fails: the workers and their caches are removed.
RecoverByCleaning(t) ==
  /\ \/ tab[t].at = "crashed" /\ reg.waiting = None
     \/ tab[t].at = "recovering"
  /\ reg' = NoWorkers
  /\ Loads(t, None, tab[t].lesson, tab[t].deferred, TRUE)
  /\ hops' = [hops EXCEPT ![t] = 0]
  /\ UNCHANGED <<deployed, marker, happened>>

RecoverControlled(t) ==
  /\ tab[t].at = "recovering"
  /\ t \in told
  /\ UNCHANGED reg
  /\ Loads(t, None, tab[t].lesson, tab[t].deferred, TRUE)
  /\ hops' = [hops EXCEPT ![t] = 0]
  /\ UNCHANGED <<deployed, marker, happened>>

Next ==
  \/ Deploy \/ Installed \/ InstallFails \/ ActivatesAlone \/ ActivatesAsked
  \/ \E t \in Tab :
       \/ Open(t) \/ Guard(t) \/ Cleaned(t) \/ Start(t) \/ StartUnregistered(t)
       \/ CheckForUpdate(t) \/ UpdateNow(t) \/ UpdateDeferred(t) \/ Defer(t) \/ Dismiss(t) \/ Route(t)
       \/ ControllerChange(t) \/ ActivationTimeout(t)
       \/ ChunkMissing(t) \/ RecoverByWorker(t) \/ RecoverByCleaning(t) \/ RecoverControlled(t)

Spec == Init /\ [][Next]_vars

-----------------------------------------------------------------------------
(* Properties                                                                *)

At == {"closed", "guard", "cleaning", "static", "starting", "running", "crashed", "recovering"}
Phase == {"idle", "available", "deferred", "applying", "error", "updated"}

TypeOK ==
  /\ deployed \in Build
  /\ marker \in Build \cup {None}
  /\ {reg.active, reg.waiting, reg.installing} \subseteq Worker \cup {None}
  /\ reg.skip => reg.waiting # None
  /\ \A t \in Tab :
       /\ tab[t].at \in At /\ tab[t].phase \in Phase
       /\ {tab[t].controller, tab[t].waiting, tab[t].asked} \subseteq Worker \cup {None}
       /\ tab[t].phase \in {"available", "deferred"} => tab[t].waiting # None
  /\ told \subseteq Tab
  /\ happened \in 0..MaxEvents

\* lib/build-version-guard.ts: "performs one cache-busted navigation": whatever
\* builds the server answers with, and whatever other tabs leave in the
\* storage, a document is never sent round more than once.
NoReloadLoop == \A t \in Tab : hops[t] <= 1
=============================================================================
