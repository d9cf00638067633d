---------------------------- MODULE FeaturesProofs ----------------------------
(***************************************************************************)
(* The parts of the application that MCFeatures checks one at a time, for     *)
(* every value of their constants.  A part that runs is the only one, so its  *)
(* invariant is proved under the assumption that it does (LEMMA PartSteps).    *)
(* FeatureListsProofs has the scenario, the notices and the suggestions.      *)
(***************************************************************************)
EXTENDS MCFeatures, Integers, Sequences, FiniteSetTheorems, WellFoundedInduction, TLAPS

\* Every step is one of the part that runs, or leaves it alone.
LEMMA PartSteps ==
  ASSUME [Next]_vars
  PROVE  /\ part' = part
         /\ part = "recorder" => [Recorder!Next]_(Recorder!vars)
         /\ part = "update" => [Update!Next]_(Update!vars)
         /\ part = "schedule" => [Schedule!Next]_(Schedule!vars)
         /\ part = "speech" => [Speech!Next]_(Speech!vars)
         /\ part = "theme" => [Theme!Next]_(Theme!vars)
         /\ part = "reminder" => [Reminder!Next]_(Reminder!vars)
         /\ part = "links" => [Links!Next]_(Links!vars)
         /\ part = "diagnostic" => [Diagnostic!Next]_(Diagnostic!vars)
         /\ part = "routes" => [Routes!Next]_(Routes!vars)
         /\ part = "measurements" => [Measurements!Next]_(Measurements!vars)
  BY DEF Next, vars, Recorder!vars, Update!vars, Schedule!vars, Speech!vars, Theme!vars,
     Reminder!vars, Links!vars, Diagnostic!vars, Routes!vars, Measurements!vars

-----------------------------------------------------------------------------
(* The recorder                                                            *)

\* The places of the recorder.
shown == s1
stream == s2
recorder == s3
url == s4
lifecycle == s5
prompt == s6
disposed == s7
wanted == s9
urls == s10
stopping == s11

USE DEF shown, stream, recorder, url, lifecycle, prompt, disposed, wanted, urls, stopping

\* What the owner knows: a permission is asked for while nothing is recorded,
\* and its token is the last one only as long as it is wanted.
PromptInv ==
  /\ prompt \in Nat \cup {Nothing}
  /\ lifecycle \in Nat
  /\ prompt # Nothing => recorder = Nothing /\ prompt <= lifecycle
  /\ prompt # Nothing /\ ~ Recorder!Stale => wanted

\* While there is a recorder the stream is its own and no clip is kept; a
\* disposed owner has none.
MicInv ==
  /\ stream \in BOOLEAN
  /\ stream <=> recorder # Nothing
  /\ recorder # Nothing =>
       /\ wanted
       /\ ~ disposed
       /\ url = Nothing
       /\ shown.state \in {"recording", "stopping"}
       /\ shown.recording = Nothing

RecorderInv == PromptInv /\ MicInv /\ Recorder!NoClipLeaks

\* A token is never mistaken for the absence of one.
LEMMA RecorderInit == ASSUME Nothing \notin Nat, Recorder!Init PROVE RecorderInv
  BY DEF Recorder!Init, RecorderInv, PromptInv, MicInv, Recorder!NoClipLeaks, Recorder!Stale

USE DEF Recorder!Publishes, Recorder!PublishesError, Recorder!Revokes, Recorder!LetsGo,
   Recorder!Cancels, Recorder!Call, Recorder!Stale

\* The next token is a token, and newer than the one a permission waits with.
LEMMA NextToken ==
  ASSUME Nothing \notin Nat, PromptInv
  PROVE  /\ lifecycle + 1 \in Nat /\ lifecycle + 1 # Nothing
         /\ prompt # lifecycle + 1
         /\ prompt # Nothing => prompt <= lifecycle + 1
<1>1. lifecycle \in Nat /\ lifecycle + 1 \in Nat
  BY DEF PromptInv
<1>2. CASE prompt = Nothing
  BY <1>1, <1>2
<1>3. CASE prompt # Nothing
  <2>1. prompt \in Nat /\ prompt <= lifecycle
    BY <1>3 DEF PromptInv
  <2> QED BY <1>1, <2>1
<1> QED BY <1>2, <1>3

\* The calls of the page keep the invariant: a start asks anew, a cancel or a
\* disposal makes every permission stale.
LEMMA CallsKeepRecorder ==
  ASSUME Nothing \notin Nat, RecorderInv,
         Recorder!StartRecording \/ Recorder!Stop \/ Recorder!Cancel \/ Recorder!Dispose \/ Recorder!ClearRecording
  PROVE  RecorderInv'
<1>1. CASE Recorder!StartRecording
  <2>1. CASE disposed
    BY <1>1, <2>1 DEF RecorderInv, PromptInv, MicInv, Recorder!NoClipLeaks, Recorder!StartRecording
  <2>2. CASE ~ disposed
    <3>1. /\ prompt' = lifecycle' /\ lifecycle' = lifecycle + 1 /\ wanted'
          /\ recorder = Nothing
          /\ UNCHANGED <<stream, recorder, url, disposed, urls>>
      BY <1>1, <2>2 DEF Recorder!StartRecording
    <3>2. PromptInv'
      <4>1. lifecycle' \in Nat /\ lifecycle' <= lifecycle'
        BY <3>1, NextToken DEF RecorderInv
      <4> QED BY <3>1, <4>1 DEF PromptInv
    <3> QED BY <3>1, <3>2 DEF RecorderInv, MicInv, Recorder!NoClipLeaks
  <2> QED BY <2>1, <2>2
<1>2. CASE Recorder!Stop
  BY <1>2 DEF RecorderInv, PromptInv, MicInv, Recorder!NoClipLeaks, Recorder!Stop,
     Recorder!StopRecording
<1>3. CASE Recorder!Cancel
  BY <1>3, NextToken DEF RecorderInv, PromptInv, MicInv, Recorder!NoClipLeaks, Recorder!Cancel
<1>4. CASE Recorder!Dispose
  BY <1>4, NextToken DEF RecorderInv, PromptInv, MicInv, Recorder!NoClipLeaks, Recorder!Dispose
<1>5. CASE Recorder!ClearRecording
  BY <1>5 DEF RecorderInv, PromptInv, MicInv, Recorder!NoClipLeaks, Recorder!ClearRecording
<1> QED BY <1>1, <1>2, <1>3, <1>4, <1>5

\* An answer to the prompt keeps it: only the last request opens the stream.
LEMMA PermissionsKeepRecorder ==
  ASSUME Nothing \notin Nat, RecorderInv,
         Recorder!PermissionRefused \/ Recorder!PermissionUnused \/ Recorder!PermissionGranted \/ Recorder!StartThrows
  PROVE  RecorderInv'
<1>1. CASE Recorder!PermissionRefused
  BY <1>1 DEF RecorderInv, PromptInv, MicInv, Recorder!NoClipLeaks, Recorder!PermissionRefused
<1>2. CASE Recorder!PermissionUnused
  BY <1>2 DEF RecorderInv, PromptInv, MicInv, Recorder!NoClipLeaks, Recorder!PermissionUnused
<1>3. CASE Recorder!PermissionGranted
  BY <1>3 DEF RecorderInv, PromptInv, MicInv, Recorder!NoClipLeaks, Recorder!PermissionGranted
<1>4. CASE Recorder!StartThrows
  BY <1>4 DEF RecorderInv, PromptInv, MicInv, Recorder!NoClipLeaks, Recorder!StartThrows
<1> QED BY <1>1, <1>2, <1>3, <1>4

\* The events of recorders and of the timer keep it: those of an earlier
\* recorder find nothing to end.
LEMMA EventsKeepRecorder ==
  ASSUME Nothing \notin Nat, RecorderInv,
         \/ \E r \in stopping : Recorder!Stopped(r)
         \/ Recorder!RecorderFails \/ Recorder!RecorderEnds \/ Recorder!Timeout
  PROVE  RecorderInv'
<1>1. ASSUME NEW r \in stopping, Recorder!Stopped(r) PROVE RecorderInv'
  BY <1>1 DEF RecorderInv, PromptInv, MicInv, Recorder!NoClipLeaks, Recorder!Stopped
<1>2. CASE Recorder!RecorderFails
  BY <1>2, NextToken DEF RecorderInv, PromptInv, MicInv, Recorder!NoClipLeaks, Recorder!RecorderFails
<1>3. CASE Recorder!RecorderEnds
  BY <1>3 DEF RecorderInv, PromptInv, MicInv, Recorder!NoClipLeaks, Recorder!RecorderEnds
<1>4. CASE Recorder!Timeout
  BY <1>4 DEF RecorderInv, PromptInv, MicInv, Recorder!NoClipLeaks, Recorder!Timeout,
     Recorder!StopRecording
<1> QED BY <1>1, <1>2, <1>3, <1>4

LEMMA RecorderKept == ASSUME Nothing \notin Nat, RecorderInv, [Recorder!Next]_(Recorder!vars) PROVE RecorderInv'
<1>1. CASE Recorder!Next
  BY <1>1, CallsKeepRecorder, PermissionsKeepRecorder, EventsKeepRecorder DEF Recorder!Next
<1>2. CASE UNCHANGED Recorder!vars
  BY <1>2 DEF Recorder!vars, RecorderInv, PromptInv, MicInv, Recorder!NoClipLeaks
<1> QED BY <1>1, <1>2

\* docs/pronunciation-recording-privacy.md: a permission that comes late, a
\* failure, a timeout and a disposal all leave the microphone closed, and the
\* browser holds no clip but the one its owner can still revoke.
THEOREM MicrophoneIsPrivate ==
  ASSUME Nothing \notin Nat
  PROVE  Spec => []RecordingIsPrivate
<1> DEFINE I == part = "recorder" => RecorderInv
<1>1. Init => I
  BY RecorderInit DEF Init
<1>2. I /\ [Next]_vars => I'
  BY PartSteps, RecorderKept
<1>3. I => RecordingIsPrivate
  BY DEF RecorderInv, MicInv, RecordingIsPrivate, Recorder!RecordingIsPrivate, Recorder!MicIsWanted
<1> QED BY <1>1, <1>2, <1>3, PTL DEF Spec

-----------------------------------------------------------------------------
(* The update                                                              *)

\* The places of the update.
deployed == s1
reg == s3
tab == s4
hops == s6

USE DEF deployed, reg, tab, hops

MaybeWorker == Update!Worker \cup {Nothing}
MaybeBuild == Update!Build \cup {Nothing}

Doc == [at : Update!At, build : MaybeBuild, query : MaybeBuild, controller : MaybeWorker, lesson : BOOLEAN,
        phase : Update!Phase, waiting : MaybeWorker, asked : MaybeWorker, timers : Nat, deferred : MaybeBuild,
        snapshot : BOOLEAN]

Registration == [active : MaybeWorker, waiting : MaybeWorker, installing : MaybeWorker, skip : BOOLEAN]

\* The shape of the state; an update that is shown is one of a worker.
UpdateType ==
  /\ deployed \in Update!Build
  /\ reg \in Registration
  /\ tab \in [Tab -> Doc]
  /\ hops \in [Tab -> Nat]
  /\ \A t \in Tab : tab[t].phase \in {"available", "deferred"} => tab[t].waiting # Nothing

\* A document whose URL asks for no build has not been sent round, and only
\* such a document is cleaned up after: the guard looks at the URL first.
HopInv ==
  \A t \in Tab :
    /\ tab[t].at # "closed" => tab[t].build \in Update!Build
    /\ tab[t].query = Nothing => hops[t] = 0
    /\ tab[t].at = "cleaning" => tab[t].query = Nothing
    /\ hops[t] <= 1

UpdateInv == UpdateType /\ HopInv

\* The builds are numbers, and the absence of one is none of them.
Numbered == MaxBuild \in Nat \ {0} /\ Nothing \notin Update!Build

LEMMA UpdateInit == ASSUME Numbered, Update!Init PROVE UpdateInv
<1>1. 1 \in Update!Build
  BY DEF Numbered, Update!Build
<1>2. UpdateType
  BY <1>1 DEF Update!Init, UpdateType, Registration, Doc, Update!NoWorkers, MaybeWorker, MaybeBuild,
     Update!At, Update!Phase
<1>3. HopInv
  <2> SUFFICES ASSUME NEW t \in Tab
               PROVE  /\ tab[t].at = "closed" /\ tab[t].query = Nothing
                      /\ hops[t] = 0 /\ hops[t] <= 1
    BY DEF HopInv
  <2>1. tab[t].at = "closed" /\ tab[t].query = Nothing /\ hops[t] = 0
    BY DEF Update!Init
  <2>2. hops[t] \in Nat
    BY <1>2 DEF UpdateType
  <2> QED BY <2>1, <2>2
<1> QED BY <1>2, <1>3 DEF UpdateInv

\* A step within documents keeps what the guard relies on.
LEMMA StayKeepsHops ==
  ASSUME UpdateInv, UNCHANGED hops,
         \A t \in Tab : /\ tab'[t].query = tab[t].query /\ tab'[t].build = tab[t].build
                        /\ tab'[t].at = "closed" <=> tab[t].at = "closed"
                        /\ tab'[t].at = "cleaning" => tab[t].at = "cleaning"
  PROVE  HopInv'
  BY DEF UpdateInv, HopInv

\* A document that is loaded is at its guard.
LEMMA LoadKeepsUpdate ==
  ASSUME UpdateInv, NEW t \in Tab, NEW query \in MaybeBuild, NEW lesson \in BOOLEAN, NEW deferred \in MaybeBuild,
         NEW snapshot \in BOOLEAN, Update!Loads(t, query, lesson, deferred, snapshot),
         reg' \in Registration, UNCHANGED deployed,
         NEW n \in {0, 1}, query = Nothing => n = 0, hops' = [hops EXCEPT ![t] = n]
  PROVE  UpdateInv'
<1>1. PICK b \in Update!Build : tab' = [tab EXCEPT ![t] = Update!Document(t, b, query, lesson, deferred, snapshot)]
  BY DEF Update!Loads
<1>2. Update!Document(t, b, query, lesson, deferred, snapshot) \in Doc
  BY DEF Update!Document, Doc, Registration, MaybeWorker, MaybeBuild, Update!At, Update!Phase
<1>3. UpdateType'
  BY <1>1, <1>2 DEF UpdateInv, UpdateType, Update!Document
<1>4. HopInv'
  BY <1>1 DEF UpdateInv, UpdateType, HopInv, Update!Document
<1> QED BY <1>3, <1>4 DEF UpdateInv

\* The documents that are loaded: asked for by the learner, by an update or by a
\* recovery without a build in the URL, by the guard with one.
LEMMA LoadsKeepUpdate ==
  ASSUME Numbered, UpdateInv, NEW t \in Tab,
         \/ Update!Open(t) \/ Update!Cleaned(t) \/ Update!RecoverByCleaning(t) \/ Update!RecoverControlled(t)
         \/ Update!ControllerChange(t) /\ Update!Running(t) /\ tab[t].asked # Nothing
  PROVE  UpdateInv'
<1> DEFINE p == tab[t]
<1>1. /\ Update!NoWorkers \in Registration /\ reg \in Registration /\ Nothing \in MaybeBuild
      /\ p.lesson \in BOOLEAN /\ p.deferred \in MaybeBuild /\ p.snapshot \in BOOLEAN
  BY DEF UpdateInv, UpdateType, Doc, Registration, Update!NoWorkers, MaybeWorker, MaybeBuild
<1>2. ASSUME NEW lesson \in BOOLEAN, NEW snapshot \in BOOLEAN,
             Update!Loads(t, Nothing, lesson, p.deferred, snapshot), reg' \in Registration, UNCHANGED deployed,
             hops' = [hops EXCEPT ![t] = 0]
      PROVE  UpdateInv'
  <2> HIDE DEF p
  <2> QED BY <1>1, <1>2, LoadKeepsUpdate
<1>3. CASE Update!Open(t)
  <2>1. PICK lesson \in BOOLEAN : Update!Loads(t, Nothing, lesson, p.deferred, p.snapshot)
    BY <1>3 DEF Update!Open
  <2>2. reg' \in Registration /\ UNCHANGED deployed /\ hops' = [hops EXCEPT ![t] = 0]
    BY <1>1, <1>3 DEF Update!Open
  <2> QED BY <1>1, <1>2, <2>1, <2>2
<1>4. CASE Update!Cleaned(t)
  <2>1. hops[t] = 0 /\ p.build \in Update!Build /\ p.build # Nothing /\ reg' \in Registration
    BY <1>1, <1>4 DEF Update!Cleaned, UpdateInv, HopInv, Numbered
  <2>2. hops' = [hops EXCEPT ![t] = 1]
    BY <1>4, <2>1 DEF Update!Cleaned, UpdateInv, UpdateType
  <2>3. p.build \in MaybeBuild
    BY <2>1 DEF MaybeBuild
  <2>4. Update!Loads(t, p.build, p.lesson, p.deferred, p.snapshot) /\ UNCHANGED deployed
    BY <1>4 DEF Update!Cleaned
  <2> HIDE DEF p
  <2>5. PICK build \in MaybeBuild, lesson \in BOOLEAN, deferred \in MaybeBuild, snapshot \in BOOLEAN :
          build # Nothing /\ Update!Loads(t, build, lesson, deferred, snapshot)
    BY <1>1, <2>1, <2>3, <2>4
  <2>6. reg' \in Registration /\ UNCHANGED deployed
    BY <2>1, <2>4
  <2> QED BY <2>2, <2>5, <2>6, LoadKeepsUpdate
<1>5. CASE Update!RecoverByCleaning(t) \/ Update!RecoverControlled(t)
  <2>1. /\ Update!Loads(t, Nothing, p.lesson, p.deferred, TRUE)
        /\ reg' \in Registration /\ UNCHANGED deployed /\ hops' = [hops EXCEPT ![t] = 0]
    BY <1>1, <1>5 DEF Update!RecoverByCleaning, Update!RecoverControlled
  <2> QED BY <1>1, <1>2, <2>1
<1>6. CASE Update!ControllerChange(t) /\ Update!Running(t) /\ tab[t].asked # Nothing
  <2>1. /\ Update!Loads(t, Nothing, p.lesson, p.deferred, p.snapshot)
        /\ reg' \in Registration /\ UNCHANGED deployed /\ hops' = [hops EXCEPT ![t] = 0]
    BY <1>1, <1>6 DEF Update!ControllerChange
  <2> QED BY <1>1, <1>2, <2>1
<1> QED BY <1>3, <1>4, <1>5, <1>6

\* A step of one document that is neither loaded nor sent to be cleaned up after.
LEMMA OneDocument ==
  ASSUME UpdateInv, NEW t \in Tab, NEW p \in Doc, tab' = [tab EXCEPT ![t] = p],
         p.query = tab[t].query, p.build = tab[t].build,
         p.at # "closed" /\ tab[t].at # "closed",
         p.at = "cleaning" => p.query = Nothing,
         p.phase \in {"available", "deferred"} => p.waiting # Nothing,
         reg' \in Registration, UNCHANGED <<deployed, hops>>
  PROVE  UpdateInv'
<1>1. UpdateType'
  BY DEF UpdateInv, UpdateType
<1>2. HopInv'
  BY DEF UpdateInv, UpdateType, HopInv
<1> QED BY <1>1, <1>2 DEF UpdateInv

\* A document that has asked worker w to take over.
LEMMA AppliedIsDoc ==
  ASSUME NEW p \in Doc, NEW w \in MaybeWorker
  PROVE  [p EXCEPT !.phase = "applying", !.asked = w, !.timers = @ + 1,
                   !.deferred = Nothing, !.snapshot = TRUE] \in Doc
<1> DEFINE q == [p EXCEPT !.phase = "applying", !.asked = w]
<1>1. q \in Doc
  BY DEF Doc, Update!Phase
<1> HIDE DEF q
<1>2. [q EXCEPT !.timers = @ + 1, !.deferred = Nothing, !.snapshot = TRUE] \in Doc
  <2>1. q.timers + 1 \in Nat /\ Nothing \in MaybeBuild
    BY <1>1 DEF Doc, MaybeBuild
  <2> QED BY <1>1, <2>1 DEF Doc
<1>3. [p EXCEPT !.phase = "applying", !.asked = w, !.timers = @ + 1,
                !.deferred = Nothing, !.snapshot = TRUE]
      = [q EXCEPT !.timers = @ + 1, !.deferred = Nothing, !.snapshot = TRUE]
  BY DEF q, Doc
<1> QED BY <1>2, <1>3

\* A document shows a worker that waits.
LEMMA PublishedIsDoc ==
  ASSUME NEW p \in Doc, NEW w \in Update!Worker, w # Nothing
  PROVE  /\ Update!Published(p, w) \in Doc
         /\ Update!Published(p, w).query = p.query /\ Update!Published(p, w).build = p.build
         /\ Update!Published(p, w).at = p.at
         /\ ~ (p.phase \in {"available", "deferred"} /\ p.waiting = Nothing)
              => ~ (Update!Published(p, w).phase \in {"available", "deferred"} /\ Update!Published(p, w).waiting = Nothing)
  BY DEF Update!Published, Doc, MaybeWorker, Update!Phase

\* A worker that is fetched is installed unless it is there.
LEMMA FetchedIsRegistration ==
  ASSUME UpdateInv, NEW b \in Update!Build PROVE Update!Fetched(b) \in Registration
  BY DEF UpdateInv, UpdateType, Registration, MaybeWorker, Update!Worker, Update!Fetched

\* The steps of one document.
LEMMA DocumentKeepsUpdate ==
  ASSUME Numbered, UpdateInv, NEW t \in Tab,
         \/ Update!Guard(t) \/ Update!Start(t) \/ Update!StartUnregistered(t) \/ Update!CheckForUpdate(t)
         \/ Update!UpdateNow(t) \/ Update!UpdateDeferred(t) \/ Update!Defer(t) \/ Update!Dismiss(t) \/ Update!Route(t)
         \/ Update!ActivationTimeout(t) \/ Update!ChunkMissing(t) \/ Update!RecoverByWorker(t)
         \/ Update!ControllerChange(t) /\ ~ (Update!Running(t) /\ tab[t].asked # Nothing)
  PROVE  UpdateInv'
<1> USE DEF Update!At, Update!Phase
<1>1. /\ tab[t] \in Doc /\ deployed \in Update!Build /\ reg \in Registration /\ hops \in [Tab -> Nat]
      /\ tab[t].at # "closed" => tab[t].build \in Update!Build
      /\ tab[t].phase \in {"available", "deferred"} => tab[t].waiting # Nothing
  BY DEF UpdateInv, UpdateType, HopInv
<1>2. CASE Update!Guard(t)
  <2>1. /\ tab[t].at = "guard" /\ UNCHANGED <<deployed, reg, hops>>
        /\ \E at \in {"starting", "static", "cleaning"} :
             /\ tab' = [tab EXCEPT ![t].at = at]
             /\ at = "cleaning" => tab[t].query = Nothing
    BY <1>2 DEF Update!Guard, Update!Guarded, Update!GuardCompletes
  <2>2. UpdateType'
    BY <2>1 DEF UpdateInv, UpdateType, Doc
  <2>3. HopInv'
    BY <1>1, <2>1 DEF UpdateInv, UpdateType, HopInv, Doc
  <2> QED BY <2>2, <2>3 DEF UpdateInv
<1>3. CASE Update!Start(t)
  <2> DEFINE p == [tab[t] EXCEPT !.at = "running", !.snapshot = FALSE,
                                 !.phase = IF tab[t].snapshot THEN "updated" ELSE "idle"]
             q == IF reg.waiting # Nothing THEN Update!Published(p, reg.waiting) ELSE p
  <2>1. tab' = [tab EXCEPT ![t] = q] /\ reg' = Update!Fetched(tab[t].build) /\ UNCHANGED <<deployed, hops>>
    BY <1>3 DEF Update!Start
  <2>2. /\ p \in Doc /\ p.query = tab[t].query /\ p.build = tab[t].build /\ p.at = "running"
        /\ p.phase \notin {"available", "deferred"}
    BY <1>1 DEF Doc
  <2>3. reg.waiting # Nothing => reg.waiting \in Update!Worker
    BY <1>1 DEF Registration, MaybeWorker
  <2> HIDE DEF p
  <2>4. /\ q \in Doc /\ q.query = tab[t].query /\ q.build = tab[t].build /\ q.at = "running"
        /\ q.phase \in {"available", "deferred"} => q.waiting # Nothing
    BY <2>2, <2>3, PublishedIsDoc
  <2> HIDE DEF q
  <2>5. reg' \in Registration
    BY <1>1, <1>3, <2>1, FetchedIsRegistration DEF Update!Start
  <2>6. UpdateType'
    BY <2>1, <2>4, <2>5 DEF UpdateInv, UpdateType
  <2>7. HopInv'
    BY <1>3, <2>1, <2>4 DEF UpdateInv, UpdateType, HopInv, Update!Start
  <2> QED BY <2>6, <2>7 DEF UpdateInv
<1>4. CASE Update!StartUnregistered(t)
  <2> DEFINE p == [tab[t] EXCEPT !.at = "running", !.snapshot = FALSE, !.phase = "error"]
  <2>1. p \in Doc /\ p.query = tab[t].query /\ p.build = tab[t].build
    BY <1>1, <1>4 DEF Doc, Update!StartUnregistered
  <2>2. /\ p.at \notin {"closed", "cleaning"} /\ tab[t].at # "closed"
        /\ p.phase \in {"available", "deferred"} => p.waiting # Nothing
    BY <1>1, <1>4 DEF Doc, Update!StartUnregistered
  <2>3. tab' = [tab EXCEPT ![t] = p] /\ reg' \in Registration /\ UNCHANGED <<deployed, hops>>
    BY <1>1, <1>4 DEF Registration, Update!StartUnregistered
  <2> HIDE DEF p
  <2> QED BY <2>1, <2>2, <2>3, OneDocument
<1>5. CASE Update!CheckForUpdate(t)
  <2>1. reg.active.url \in Update!Build
    BY <1>1, <1>5 DEF Update!CheckForUpdate, Registration, MaybeWorker, Update!Worker
  <2> QED BY <1>5, <2>1, FetchedIsRegistration DEF Update!CheckForUpdate, UpdateInv, UpdateType, HopInv
<1>6. CASE Update!UpdateNow(t) \/ Update!UpdateDeferred(t)
  <2>1. Update!Apply(t) /\ tab[t].at = "running" /\ tab[t].phase \in {"available", "deferred"}
    BY <1>6 DEF Update!UpdateNow, Update!UpdateDeferred, Update!Running
  <2>2. PICK w \in MaybeWorker : tab' = Update!Applied(t, w)
    BY <1>1, <2>1 DEF Update!Apply, Doc, Registration
  <2>3. reg' \in Registration /\ UNCHANGED <<deployed, hops>>
    BY <1>1, <2>1 DEF Update!Apply, Registration
  <2> DEFINE q == [tab[t] EXCEPT !.phase = "applying", !.asked = w, !.timers = @ + 1,
                                  !.deferred = Nothing, !.snapshot = TRUE]
  <2>4. q \in Doc
    BY <1>1, AppliedIsDoc
  <2>5. /\ q.query = tab[t].query /\ q.build = tab[t].build /\ q.at = tab[t].at
        /\ q.phase = "applying"
    BY <1>1 DEF Doc
  <2>6. tab' = [tab EXCEPT ![t] = q]
    BY <1>1, <2>2 DEF Update!Applied, UpdateInv, UpdateType
  <2> HIDE DEF q
  <2> QED BY <2>1, <2>3, <2>4, <2>5, <2>6, OneDocument
<1>7. CASE Update!Defer(t)
  <2> DEFINE p == [tab[t] EXCEPT !.phase = "deferred", !.deferred = tab[t].waiting.url]
  <2>1. p \in Doc /\ p.query = tab[t].query /\ p.build = tab[t].build
    BY <1>1, <1>7 DEF Doc, Update!Defer, Update!Running, MaybeWorker, Update!Worker, MaybeBuild
  <2>2. /\ p.at \notin {"closed", "cleaning"} /\ tab[t].at # "closed"
        /\ p.phase \in {"available", "deferred"} => p.waiting # Nothing
    BY <1>1, <1>7 DEF Doc, Update!Defer, Update!Running, MaybeWorker, Update!Worker, MaybeBuild
  <2>3. tab' = [tab EXCEPT ![t] = p] /\ reg' \in Registration /\ UNCHANGED <<deployed, hops>>
    BY <1>1, <1>7 DEF Registration, Update!Defer, Update!Running, MaybeWorker, Update!Worker, MaybeBuild
  <2> HIDE DEF p
  <2> QED BY <2>1, <2>2, <2>3, OneDocument
<1>8. CASE Update!Dismiss(t)
  <2> DEFINE p == [tab[t] EXCEPT !.phase = "idle"]
  <2>1. p \in Doc /\ p.query = tab[t].query /\ p.build = tab[t].build
    BY <1>1, <1>8 DEF Doc, Update!Dismiss, Update!Running
  <2>2. /\ p.at \notin {"closed", "cleaning"} /\ tab[t].at # "closed"
        /\ p.phase \in {"available", "deferred"} => p.waiting # Nothing
    BY <1>1, <1>8 DEF Doc, Update!Dismiss, Update!Running
  <2>3. tab' = [tab EXCEPT ![t] = p] /\ reg' \in Registration /\ UNCHANGED <<deployed, hops>>
    BY <1>1, <1>8 DEF Registration, Update!Dismiss, Update!Running
  <2> HIDE DEF p
  <2> QED BY <2>1, <2>2, <2>3, OneDocument
<1>9. CASE Update!Route(t)
  <2> DEFINE p == [tab[t] EXCEPT !.lesson = ~ tab[t].lesson]
  <2>1. p \in Doc /\ p.query = tab[t].query /\ p.build = tab[t].build
    BY <1>1, <1>9 DEF Doc, Update!Route, Update!Running
  <2>2. /\ p.at \notin {"closed", "cleaning"} /\ tab[t].at # "closed"
        /\ p.phase \in {"available", "deferred"} => p.waiting # Nothing
    BY <1>1, <1>9 DEF Doc, Update!Route, Update!Running
  <2>3. tab' = [tab EXCEPT ![t] = p] /\ reg' \in Registration /\ UNCHANGED <<deployed, hops>>
    BY <1>1, <1>9 DEF Registration, Update!Route, Update!Running
  <2> HIDE DEF p
  <2> QED BY <2>1, <2>2, <2>3, OneDocument
<1>10. CASE Update!ActivationTimeout(t)
  <2> DEFINE p == [tab[t] EXCEPT !.timers = tab[t].timers - 1, !.asked = Nothing,
                               !.phase = IF tab[t].asked # Nothing THEN "error" ELSE tab[t].phase]
  <2>0. PICK n \in Nat : n = tab[t].timers - 1
    BY <1>1, <1>10 DEF Doc, Update!ActivationTimeout
  <2>1. p \in Doc /\ p.query = tab[t].query /\ p.build = tab[t].build
    BY <1>1, <2>0 DEF Doc, MaybeWorker
  <2>2. /\ p.at \notin {"closed", "cleaning"} /\ tab[t].at # "closed"
        /\ p.phase \in {"available", "deferred"} => p.waiting # Nothing
    BY <1>1, <1>10 DEF Doc, Update!ActivationTimeout, Update!Running, MaybeWorker
  <2>3. tab' = [tab EXCEPT ![t] = p] /\ reg' \in Registration /\ UNCHANGED <<deployed, hops>>
    BY <1>1, <1>10 DEF Registration, Update!ActivationTimeout, Update!Running, MaybeWorker
  <2> HIDE DEF p
  <2> QED BY <2>1, <2>2, <2>3, OneDocument
<1>11. CASE Update!ChunkMissing(t)
  <2> DEFINE p == [tab[t] EXCEPT !.at = "crashed", !.phase = "idle", !.asked = Nothing, !.timers = 0]
  <2>1. p \in Doc /\ p.query = tab[t].query /\ p.build = tab[t].build
    BY <1>1, <1>11 DEF Doc, Update!ChunkMissing, Update!Running, MaybeWorker
  <2>2. /\ p.at \notin {"closed", "cleaning"} /\ tab[t].at # "closed"
        /\ p.phase \in {"available", "deferred"} => p.waiting # Nothing
    BY <1>1, <1>11 DEF Doc, Update!ChunkMissing, Update!Running, MaybeWorker
  <2>3. tab' = [tab EXCEPT ![t] = p] /\ reg' \in Registration /\ UNCHANGED <<deployed, hops>>
    BY <1>1, <1>11 DEF Registration, Update!ChunkMissing, Update!Running, MaybeWorker
  <2> HIDE DEF p
  <2> QED BY <2>1, <2>2, <2>3, OneDocument
<1>12. CASE Update!RecoverByWorker(t)
  <2> DEFINE p == [tab[t] EXCEPT !.at = "recovering", !.snapshot = TRUE]
  <2>1. p \in Doc /\ p.query = tab[t].query /\ p.build = tab[t].build
    BY <1>1, <1>12 DEF Doc, Update!RecoverByWorker
  <2>2. /\ p.at \notin {"closed", "cleaning"} /\ tab[t].at # "closed"
        /\ p.phase \in {"available", "deferred"} => p.waiting # Nothing
    BY <1>1, <1>12 DEF Doc, Update!RecoverByWorker
  <2>3. tab' = [tab EXCEPT ![t] = p] /\ reg' \in Registration /\ UNCHANGED <<deployed, hops>>
    BY <1>1, <1>12 DEF Registration, Update!RecoverByWorker
  <2> HIDE DEF p
  <2> QED BY <2>1, <2>2, <2>3, OneDocument
<1>13. CASE Update!ControllerChange(t) /\ ~ (Update!Running(t) /\ tab[t].asked # Nothing)
  BY <1>13 DEF Update!ControllerChange, UpdateInv, UpdateType, HopInv
<1> QED BY <1>2, <1>3, <1>4, <1>5, <1>6, <1>7, <1>8, <1>9, <1>10, <1>11, <1>12, <1>13

\* The steps of the server and of the registration.
LEMMA BrowserKeepsUpdate ==
  ASSUME Numbered, UpdateInv, Update!Deploy \/ Update!Installed \/ Update!InstallFails \/ Update!ActivatesAlone \/ Update!ActivatesAsked
  PROVE  UpdateInv'
<1>1. reg \in Registration /\ \A t \in Tab : tab[t] \in Doc
  BY DEF UpdateInv, UpdateType
<1>2. CASE Update!Deploy
  <2>1. deployed + 1 \in Update!Build
    BY <1>2 DEF Update!Deploy, UpdateInv, UpdateType, Update!Build, Numbered
  <2> QED BY <1>2, <2>1 DEF Update!Deploy, UpdateInv, UpdateType, HopInv
<1>3. CASE Update!Installed
  <2>1. reg.installing \in Update!Worker /\ reg.installing # Nothing
    BY <1>1, <1>3 DEF Update!Installed, Registration, MaybeWorker
  <2>2. /\ tab' = [t \in Tab |-> IF Update!Running(t) THEN Update!Published(tab[t], reg.installing) ELSE tab[t]]
        /\ UNCHANGED <<deployed, hops>>
    BY <1>3 DEF Update!Installed
  <2>3. reg' \in Registration
    BY <1>1, <1>3, <2>1 DEF Update!Installed, Registration, MaybeWorker
  <2>4. UpdateType'
    BY <1>1, <2>1, <2>2, <2>3, PublishedIsDoc DEF UpdateInv, UpdateType
  <2>5. HopInv'
    BY <1>1, <2>1, <2>2, PublishedIsDoc, StayKeepsHops
  <2> QED BY <2>4, <2>5 DEF UpdateInv
<1>4. CASE Update!InstallFails \/ Update!ActivatesAlone
  <2>1. reg' \in Registration
    BY <1>1, <1>4 DEF Update!InstallFails, Update!ActivatesAlone, Registration, MaybeWorker
  <2> QED BY <1>4, <2>1 DEF Update!InstallFails, Update!ActivatesAlone, UpdateInv, UpdateType, HopInv
<1>5. CASE Update!ActivatesAsked
  <2>1. reg' \in Registration /\ reg.waiting \in MaybeWorker /\ UNCHANGED <<deployed, hops>>
    BY <1>1, <1>5 DEF Update!ActivatesAsked, Registration, MaybeWorker
  <2>2. tab' = [t \in Tab |-> IF tab[t].at = "closed" THEN tab[t] ELSE [tab[t] EXCEPT !.controller = reg.waiting]]
    BY <1>5 DEF Update!ActivatesAsked
  <2>3. UpdateType'
    BY <1>1, <2>1, <2>2 DEF UpdateInv, UpdateType, Doc
  <2>4. HopInv'
    BY <1>1, <2>1, <2>2, StayKeepsHops DEF Doc
  <2> QED BY <2>3, <2>4 DEF UpdateInv
<1> QED BY <1>2, <1>3, <1>4, <1>5

LEMMA UpdateKept == ASSUME Numbered, UpdateInv, [Update!Next]_(Update!vars) PROVE UpdateInv'
<1>1. CASE Update!Next
  BY <1>1, LoadsKeepUpdate, DocumentKeepsUpdate, BrowserKeepsUpdate DEF Update!Next
<1>2. CASE UNCHANGED Update!vars
  BY <1>2 DEF Update!vars, UpdateInv, UpdateType, HopInv
<1> QED BY <1>1, <1>2

\* lib/build-version-guard.ts: the guard performs one navigation, for any number
\* of deployments while it does so, and whatever other tabs leave in the marker
\* and in the registration.
THEOREM GuardReloadsOnce ==
  ASSUME Numbered
  PROVE  Spec => []NoReloadLoop
<1> DEFINE I == part = "update" => UpdateInv
<1>1. Init => I
  BY UpdateInit DEF Init
<1>2. I /\ [Next]_vars => I'
  BY PartSteps, UpdateKept
<1>3. I => NoReloadLoop
  BY DEF UpdateInv, HopInv, NoReloadLoop, Update!NoReloadLoop
<1> QED BY <1>1, <1>2, <1>3, PTL DEF Spec

-----------------------------------------------------------------------------
(* The schedule                                                            *)

\* The place of the word.
word == s1

USE DEF word

ScheduledWord == [status : {"new", "learning", "review", "mastered"}, easiness : 130 .. 300,
          interval : Nat, repetitions : Nat, due : Int]

\* The first intervals: none or a day before the word is known once, a day or two
\* and the seven of the diagnostic after that, at least one later on; and a word
\* that is not new is due.
IntervalInv(w) ==
  /\ w \in ScheduledWord
  /\ w.repetitions = 0 => w.interval <= 1
  /\ w.repetitions = 1 => w.interval \in {1, 2, 7}
  /\ w.repetitions >= 2 => w.interval >= 1
  /\ w.status # "new" /\ w.interval * Schedule!Day <= Schedule!Longest => w.due > 0

ScheduleInv == IntervalInv(word)

\* A time that fits a time.Duration is not changed by it.
LEMMA DurationFits ==
  ASSUME NEW n \in Nat, n <= Schedule!Longest
  PROVE  Schedule!Duration(n) = n
  BY DEF Schedule!Duration, Schedule!Turn, Schedule!Longest

LEMMA DurationIsTime ==
  ASSUME NEW n \in Nat PROVE Schedule!Duration(n) \in Int
  BY DEF Schedule!Duration, Schedule!Turn, Schedule!Longest

\* An interval of at least a day is due in the future, if it fits.
LEMMA DueLater ==
  ASSUME NEW days \in Nat \ {0}
  PROVE  /\ Schedule!DueAfter(days) \in Int
         /\ days * Schedule!Day <= Schedule!Longest => Schedule!DueAfter(days) > 0
<1>1. days * Schedule!Day \in Nat /\ days * Schedule!Day > 0
  BY DEF Schedule!Day
<1> QED BY <1>1, DurationFits, DurationIsTime DEF Schedule!DueAfter

\* One and a half, rounded.
LEMMA AlmostIsLonger ==
  ASSUME NEW w \in ScheduledWord, w.repetitions = 0 => w.interval <= 1
  PROVE  /\ Schedule!AlmostInterval(w) \in Nat \ {0}
         /\ Schedule!AlmostInterval(w) >= w.interval
  BY DEF Schedule!AlmostInterval, Schedule!AtLeast, Schedule!Half, ScheduledWord

\* The easiness after "known".
LEMMA EasierWord ==
  ASSUME NEW w \in ScheduledWord
  PROVE  /\ Schedule!AtMost(300, w.easiness + 10) \in 130 .. 300
         /\ w.easiness > 140 => Schedule!AtMost(300, w.easiness + 10) > 150
  BY DEF Schedule!AtMost, ScheduledWord

LEMMA ProductGrows ==
  ASSUME NEW i \in Nat, NEW e \in Nat, e > 150
  PROVE  i * e \in Nat /\ i * e >= i * 151
<1>1. PICK k \in Nat : e = 151 + k
  <2>1. e - 151 \in Nat /\ e = 151 + (e - 151)
    OBVIOUS
  <2> QED BY <2>1
<1>2. i * k \in Nat /\ i * e = i * 151 + i * k
  BY <1>1
<1> QED BY <1>2

\* The interval after "known" is a number, longer than the one before and, for a
\* word that is not hard, at least that after "almost".
LEMMA KnownIsLonger ==
  ASSUME NEW w \in ScheduledWord, IntervalInv(w), NEW e \in 130 .. 300,
         NEW days \in Schedule!KnownInterval(w, e)
  PROVE  /\ days \in Nat \ {0}
         /\ days > w.interval \/ (w.interval = 7 /\ w.repetitions = 1)
         /\ e > 150 => days >= Schedule!AlmostInterval(w) \/ (w.interval = 7 /\ w.repetitions = 1)
         /\ w.repetitions = 0 => days = 2
<1>1. w.repetitions \in Nat /\ w.interval \in Nat
  BY DEF ScheduledWord
<1>2. CASE w.repetitions = 0
  BY <1>1, <1>2 DEF Schedule!KnownInterval, IntervalInv, Schedule!AlmostInterval
<1>3. CASE w.repetitions = 1
  BY <1>1, <1>3 DEF Schedule!KnownInterval, IntervalInv, Schedule!AlmostInterval, Schedule!AtLeast,
     Schedule!Half
<1>4. CASE w.repetitions >= 2
  <2> DEFINE i == w.interval
  <2>1. i >= 1 /\ Schedule!AtLeast(1, i) = i
    BY <1>1, <1>4 DEF IntervalInv, Schedule!AtLeast
  <2>2. PICK q \in Schedule!Hundredth(i * e) : days = Schedule!AtLeast(i + 1, q)
    BY <1>1, <1>4, <2>1 DEF Schedule!KnownInterval
  <2>3. i * e \in Nat
    BY <1>1
  <2>4. q \in Nat
    BY <2>2, <2>3 DEF Schedule!Hundredth
  <2>5. days \in Nat /\ days >= i + 1 /\ days >= q
    BY <1>1, <2>2, <2>4 DEF Schedule!AtLeast
  <2>6. ASSUME e > 150 PROVE days >= Schedule!AlmostInterval(w)
    <3>1. i * e >= i * 151
      BY <1>1, <2>6, ProductGrows
    <3>2. q >= (i * 151 + 49) \div 100
      BY <1>1, <2>2, <2>3, <3>1 DEF Schedule!Hundredth
    <3>3. (i * 151 + 49) \div 100 >= (i * 3 + 1) \div 2
      BY <1>1, <2>1
    <3>4. Schedule!AlmostInterval(w) = Schedule!AtLeast(1, (i * 3 + 1) \div 2)
      BY <1>4, <2>1 DEF Schedule!AlmostInterval, Schedule!Half
    <3> QED BY <1>1, <2>1, <2>4, <2>5, <3>2, <3>3, <3>4 DEF Schedule!AtLeast
  <2> QED BY <1>1, <1>4, <2>1, <2>5, <2>6
<1> QED BY <1>1, <1>2, <1>3, <1>4

\* A review keeps the invariant.
LEMMA ReviewKeepsSchedule ==
  ASSUME NEW w \in ScheduledWord, IntervalInv(w), NEW rating \in Schedule!Rating, NEW x \in Schedule!Scheduled(w, rating)
  PROVE  IntervalInv(x)
<1>1. /\ w.repetitions \in Nat /\ w.interval \in Nat /\ w.easiness \in 130 .. 300
      /\ w.repetitions + 1 \in Nat
  BY DEF ScheduledWord
<1>2. CASE rating = "again"
  BY <1>1, <1>2 DEF Schedule!Scheduled, IntervalInv, ScheduledWord, Schedule!AtLeast
<1>3. CASE rating = "almost"
  <2> DEFINE days == Schedule!AlmostInterval(w)
  <2>1. days \in Nat \ {0} /\ Schedule!DueAfter(days) \in Int /\ (days * Schedule!Day <= Schedule!Longest => Schedule!DueAfter(days) > 0)
    BY AlmostIsLonger, DueLater DEF IntervalInv
  <2>2. w.repetitions = 0 => days = 1
    BY DEF Schedule!AlmostInterval
  <2> HIDE DEF days
  <2>3. /\ x.interval = days /\ x.repetitions = w.repetitions + 1 /\ x.due = Schedule!DueAfter(days)
        /\ x \in ScheduledWord
    BY <1>1, <1>3, <2>1 DEF Schedule!Scheduled, ScheduledWord, Schedule!AtLeast, days
  <2> QED BY <1>1, <2>1, <2>2, <2>3 DEF IntervalInv
<1>4. CASE rating = "known"
  <2> DEFINE e == Schedule!AtMost(300, w.easiness + 10)
  <2>1. e \in 130 .. 300
    BY EasierWord
  <2>2. PICK days \in Schedule!KnownInterval(w, e) :
          x = [status |-> IF w.repetitions + 1 >= 5 /\ days >= 30 THEN "mastered" ELSE "review",
               easiness |-> e, interval |-> days, repetitions |-> w.repetitions + 1, due |-> Schedule!DueAfter(days)]
    BY <1>4 DEF Schedule!Scheduled
  <2> HIDE DEF e
  <2>3. /\ days \in Nat \ {0} /\ Schedule!DueAfter(days) \in Int /\ (days * Schedule!Day <= Schedule!Longest => Schedule!DueAfter(days) > 0)
        /\ w.repetitions = 0 => days = 2
    BY <2>1, <2>2, KnownIsLonger, DueLater
  <2> QED BY <1>1, <2>1, <2>2, <2>3 DEF IntervalInv, ScheduledWord
<1> QED BY <1>2, <1>3, <1>4 DEF Schedule!Rating

LEMMA ScheduleInit == ASSUME Schedule!Init PROVE ScheduleInv
  BY DEF Schedule!Init, ScheduleInv, IntervalInv, ScheduledWord, Schedule!Day, Schedule!Longest

LEMMA ScheduleKept == ASSUME ScheduleInv, [Schedule!Next]_(Schedule!vars) PROVE ScheduleInv'
<1>1. word \in ScheduledWord
  BY DEF ScheduleInv, IntervalInv
<1>2. CASE Schedule!Diagnosed
  BY <1>2 DEF Schedule!Diagnosed, ScheduleInv, IntervalInv, ScheduledWord, Schedule!Day,
     Schedule!Longest
<1>3. ASSUME NEW rating \in Schedule!Rating, NEW correct \in BOOLEAN, Schedule!Review(rating, correct) PROVE ScheduleInv'
  <2>1. Schedule!Effective(rating, correct) \in Schedule!Rating
    BY DEF Schedule!Effective, Schedule!Rating
  <2> QED BY <1>1, <1>3, <2>1, ReviewKeepsSchedule DEF Schedule!Review, ScheduleInv
<1>4. ASSUME NEW rating \in Schedule!Rating, Schedule!Study(rating) PROVE ScheduleInv'
  <2>1. CASE word.status # "new"
    BY <1>4, <2>1 DEF Schedule!Study, ScheduleInv
  <2>2. CASE word.status = "new"
    <3> DEFINE due == CASE rating = "again"  -> 10
                        [] rating = "almost" -> Schedule!Day \div 2
                        [] rating = "known"  -> Schedule!Day
    <3>1. word' = [word EXCEPT !.status = "learning", !.due = due]
      BY <1>4, <2>2 DEF Schedule!Study
    <3>2. due \in Int /\ due > 0
      BY DEF Schedule!Rating, Schedule!Day
    <3> HIDE DEF due
    <3>3. word' \in ScheduledWord
      BY <1>1, <3>1, <3>2 DEF ScheduledWord
    <3>4. /\ word'.repetitions = word.repetitions /\ word'.interval = word.interval
          /\ word'.due = due
      BY <1>1, <3>1 DEF ScheduledWord
    <3> QED BY <3>2, <3>3, <3>4 DEF ScheduleInv, IntervalInv
  <2> QED BY <2>1, <2>2
<1>5. CASE UNCHANGED Schedule!vars
  BY <1>5 DEF Schedule!vars, ScheduleInv
<1> QED BY <1>2, <1>3, <1>4, <1>5 DEF Schedule!Next

LEMMA ScheduleWaits == ASSUME ScheduleInv PROVE Schedule!KnownWaits
<1>1. word \in ScheduledWord /\ IntervalInv(word)
  BY DEF ScheduleInv, IntervalInv
<1>2. ASSUME NEW w \in Schedule!Scheduled(word, "known")
      PROVE  /\ w.interval > word.interval \/ Schedule!JustDiagnosed
             /\ w.interval >= Schedule!AlmostInterval(word) \/ Schedule!JustDiagnosed \/ word.easiness <= 140
  <2> DEFINE e == Schedule!AtMost(300, word.easiness + 10)
  <2>1. PICK days \in Schedule!KnownInterval(word, e) : w.interval = days
    BY <1>2 DEF Schedule!Scheduled
  <2>2. e \in 130 .. 300 /\ (word.easiness > 140 => e > 150) /\ word.easiness \in Int
    BY <1>1, EasierWord DEF ScheduledWord
  <2> HIDE DEF e
  <2>3. /\ days > word.interval \/ (word.interval = 7 /\ word.repetitions = 1)
        /\ e > 150 => days >= Schedule!AlmostInterval(word) \/ (word.interval = 7 /\ word.repetitions = 1)
    BY <1>1, <2>1, <2>2, KnownIsLonger
  <2>4. word.easiness <= 140 \/ e > 150
    BY <2>2
  <2> QED BY <2>1, <2>3, <2>4 DEF Schedule!JustDiagnosed
<1>3. Schedule!AlmostInterval(word) >= word.interval
  BY <1>1, AlmostIsLonger DEF IntervalInv
<1> QED BY <1>1, <1>2, <1>3 DEF Schedule!KnownWaits, IntervalInv

\* scheduler.go, ScheduleReview: with the one exception of a word that the
\* diagnostic has just started, "known" makes the interval longer, "almost" never
\* makes it shorter, and a review that fits a time.Duration is due in the future.
THEOREM KnownAlwaysWaits == Spec => []KnownWaits
<1> DEFINE I == part = "schedule" => ScheduleInv
<1>1. Init => I
  BY ScheduleInit DEF Init
<1>2. I /\ [Next]_vars => I'
  BY PartSteps, ScheduleKept
<1>3. I => KnownWaits
  BY ScheduleWaits DEF KnownWaits
<1> QED BY <1>1, <1>2, <1>3, PTL DEF Spec

-----------------------------------------------------------------------------
(* The control that reads aloud                                            *)

\* The places of the control.
mounted == s1
value == s2
playback == s3
sequence == s4
utterance == s5
synthesis == s6

USE DEF mounted, value, playback, sequence, utterance, synthesis

\* What can be heard is the utterance whose events the control hears, and the
\* control has published that it loads or plays the text that is shown.
SpeechInv ==
  /\ sequence \in Nat
  /\ synthesis \in [token : Nat \cup {Nothing}, text : Text \cup {Nothing},
                    is : {"pending", "speaking", "interrupted", "over"}]
  /\ Speech!Audible =>
       /\ mounted
       /\ synthesis.text = value
       /\ playback.text = value /\ playback.state \in {"loading", "playing"}
       /\ synthesis.token = sequence /\ utterance = sequence

LEMMA SpeechInit == ASSUME Nothing \notin Nat, Speech!Init PROVE SpeechInv
  BY DEF Speech!Init, Speech!Silent, Speech!Audible, SpeechInv

USE DEF Speech!Step, Speech!Publishes, Speech!Silences, Speech!Ends, Speech!Silent, Speech!Audible

\* What the learner does either silences the browser or begins a new utterance
\* under the token it has just taken.
LEMMA LearnerKeepsSpeech ==
  ASSUME Nothing \notin Nat, SpeechInv, value \in Text,
         \/ \E v \in Text : Speech!Mount(v) \/ Speech!ShowText(v)
         \/ Speech!Unmount \/ Speech!Stop \/ Speech!Speak \/ Speech!SpeakThrows
  PROVE  SpeechInv'
<1>1. ASSUME NEW v \in Text, Speech!Mount(v) PROVE SpeechInv'
  BY <1>1 DEF SpeechInv, Speech!Mount
<1>2. ASSUME NEW v \in Text, Speech!ShowText(v) PROVE SpeechInv'
  BY <1>2 DEF SpeechInv, Speech!ShowText
<1>3. CASE Speech!Unmount
  BY <1>3 DEF SpeechInv, Speech!Unmount
<1>4. CASE Speech!Stop
  BY <1>4 DEF SpeechInv, Speech!Stop
<1>5. CASE Speech!Speak
  <2>1. /\ mounted' /\ value' = value /\ sequence' = sequence + 1 /\ sequence' \in Nat
        /\ utterance' = sequence'
        /\ synthesis' = [token |-> sequence', text |-> value, is |-> "pending"]
        /\ playback' = [text |-> value, state |-> "loading"]
    BY <1>5 DEF SpeechInv, Speech!Speak
  <2> QED BY <2>1 DEF SpeechInv
<1>6. CASE Speech!SpeakThrows
  BY <1>6 DEF SpeechInv, Speech!SpeakThrows
<1> QED BY <1>1, <1>2, <1>3, <1>4, <1>5, <1>6

\* What the browser tells ends the utterance or goes on with the one that is
\* heard.
LEMMA BrowserKeepsSpeech ==
  ASSUME Nothing \notin Nat, SpeechInv,
         Speech!Interrupted \/ Speech!Starts \/ Speech!Finishes \/ Speech!CancelHeard \/ Speech!Fails
  PROVE  SpeechInv'
<1>1. CASE Speech!Interrupted
  BY <1>1 DEF SpeechInv, Speech!Interrupted
<1>2. CASE Speech!Starts
  <2>1. /\ synthesis.is = "pending" /\ Speech!IsCurrent
        /\ synthesis' = [synthesis EXCEPT !.is = "speaking"]
        /\ playback' = [text |-> value, state |-> "playing"]
        /\ UNCHANGED <<mounted, value, sequence, utterance>>
    BY <1>2 DEF SpeechInv, Speech!Starts, Speech!IsCurrent
  <2> QED BY <2>1 DEF SpeechInv
<1>3. CASE Speech!Finishes \/ Speech!CancelHeard \/ Speech!Fails
  BY <1>3 DEF SpeechInv, Speech!Finishes, Speech!CancelHeard, Speech!Fails, Speech!Over
<1> QED BY <1>1, <1>2, <1>3

\* docs/speech-playback-release-checklist.md: nothing is heard but the text that
\* is shown, and only while the button offers to stop it, however cards change
\* and in whatever order the events of the browser come.
THEOREM SpeechIsOfTheShownText ==
  ASSUME Nothing \notin Nat
  PROVE  Spec => []NoStaleAudio
<1> DEFINE I == part = "speech" => SpeechInv /\ value \in Text
<1>1. Init => I
  BY SpeechInit DEF Init, Speech!Init
<1>2. I /\ [Next]_vars => I'
  <2> SUFFICES ASSUME part = "speech", SpeechInv, value \in Text, [Speech!Next]_(Speech!vars)
               PROVE  SpeechInv' /\ value' \in Text
    BY PartSteps
  <2>1. CASE Speech!Next
    <3>1. SpeechInv'
      BY <2>1, LearnerKeepsSpeech, BrowserKeepsSpeech DEF Speech!Next
    <3>2. value' \in Text
      BY <2>1 DEF Speech!Next, Speech!Mount, Speech!ShowText, Speech!Unmount, Speech!Stop, Speech!Speak,
         Speech!SpeakThrows, Speech!Interrupted, Speech!Starts, Speech!Finishes, Speech!CancelHeard,
         Speech!Fails, Speech!Over
    <3> QED BY <3>1, <3>2
  <2>2. CASE UNCHANGED Speech!vars
    BY <2>2 DEF Speech!vars, SpeechInv
  <2> QED BY <2>1, <2>2
<1>3. I => NoStaleAudio
  BY DEF SpeechInv, NoStaleAudio, Speech!NoStaleAudio, Speech!Active, Speech!State
<1> QED BY <1>1, <1>2, <1>3, PTL DEF Spec

-----------------------------------------------------------------------------
(* The theme                                                               *)

\* The places of the theme.
preferred == s1
storage == s2
dark == s3
document == s4
toldOfTheme == s5

USE DEF preferred, storage, dark, document, toldOfTheme

Themed == [at : {"closed", "script", "live"}, applied : Theme!Preference, theme : {"light", "dark"},
           shown : Theme!Preference \cup {Nothing}]

\* The shape of the state, and what is current.
ThemeInv ==
  /\ preferred \in Theme!Preference \cup {Nothing}
  /\ dark \in BOOLEAN
  /\ document \in [Tab -> Themed]
  /\ \A t \in Tab : document[t].at # "live" => document[t].shown = Nothing
  /\ Theme!ThemeIsCurrent

\* A document that follows what is stored is current.
LEMMA FollowedIsCurrent ==
  ASSUME NEW d \in Themed, NEW kept \in Theme!Preference \cup {Nothing}, NEW system \in BOOLEAN
  PROVE  LET f == Theme!Followed(d, kept, system) IN
         /\ f \in Themed
         /\ f.at = d.at
         /\ f.theme = Theme!Resolved(Theme!Read(kept), system)
         /\ f.shown = IF d.shown = Nothing THEN Nothing ELSE Theme!Read(kept)
<1>1. /\ Theme!Read(kept) \in Theme!Preference
      /\ Theme!Resolved(Theme!Read(kept), system) \in {"light", "dark"}
  BY DEF Theme!Read, Theme!Resolved, Theme!Preference
<1> QED BY <1>1 DEF Theme!Followed, Theme!Applied, Themed

\* A step of one document.
LEMMA OneTheme ==
  ASSUME ThemeInv, NEW t \in Tab, NEW d \in Themed, document' = [document EXCEPT ![t] = d],
         UNCHANGED <<preferred, storage, dark>>,
         \A u \in Tab \ {t} : u \in toldOfTheme => u \in toldOfTheme',
         d.at # "live" => d.shown = Nothing,
         d.at = "live" =>
           /\ d.theme = Theme!Resolved(Theme!Read(preferred), dark)
           /\ storage = "works" /\ d.shown # Nothing => d.shown = Theme!Read(preferred)
  PROVE  ThemeInv'
<1>1. document' \in [Tab -> Themed] /\ document'[t] = d /\ \A u \in Tab \ {t} : document'[u] = document[u]
  BY DEF ThemeInv
<1>2. /\ Theme!Read(preferred)' = Theme!Read(preferred)
      /\ Theme!Resolved(Theme!Read(preferred), dark)' = Theme!Resolved(Theme!Read(preferred), dark)
  BY DEF Theme!Read, Theme!Resolved
<1> QED BY <1>1, <1>2 DEF ThemeInv, Theme!ThemeIsCurrent

LEMMA ThemeInit == ASSUME Theme!Init PROVE ThemeInv
  BY DEF Theme!Init, ThemeInv, Themed, Theme!Closed, Theme!Preference, Theme!ThemeIsCurrent

\* The steps that apply nothing or apply what is stored.
LEMMA DocumentKeepsTheme ==
  ASSUME ThemeInv, NEW t \in Tab,
         \/ Theme!Open(t) \/ Theme!Subscribe(t) \/ Theme!Close(t) \/ Theme!ShowProfile(t)
         \/ Theme!LeaveProfile(t) \/ Theme!Told(t)
  PROVE  ThemeInv'
<1> DEFINE d == document[t]
           f == Theme!Followed(d, preferred, dark)
<1>1. d \in Themed /\ preferred \in Theme!Preference \cup {Nothing} /\ dark \in BOOLEAN
  BY DEF ThemeInv
<1>2. /\ f \in Themed /\ f.at = d.at
      /\ f.theme = Theme!Resolved(Theme!Read(preferred), dark)
      /\ f.shown = IF d.shown = Nothing THEN Nothing ELSE Theme!Read(preferred)
  BY <1>1, FollowedIsCurrent
<1>3. Theme!Read(preferred) \in Theme!Preference
  BY <1>1 DEF Theme!Read, Theme!Preference
<1>4. d.at # "live" => d.shown = Nothing
  BY DEF ThemeInv
<1>5. CASE Theme!Open(t)
  <2> DEFINE o == Theme!Applied([Theme!Closed EXCEPT !.at = "script"], Theme!Read(preferred), dark)
  <2>1. o \in Themed /\ o.at = "script" /\ o.shown = Nothing
    BY <1>1, <1>3 DEF Theme!Applied, Theme!Closed, Theme!Resolved, Themed, Theme!Preference
  <2>2. document' = [document EXCEPT ![t] = o] /\ UNCHANGED <<preferred, storage, dark, toldOfTheme>>
    BY <1>5 DEF Theme!Open
  <2> HIDE DEF o
  <2> QED BY <2>1, <2>2, OneTheme
<1>6. CASE Theme!Subscribe(t)
  <2> DEFINE o == [f EXCEPT !.at = "live"]
  <2>1. /\ document' = [document EXCEPT ![t] = o] /\ UNCHANGED <<preferred, storage, dark, toldOfTheme>>
        /\ d.at = "script"
    BY <1>6 DEF Theme!Subscribe
  <2> HIDE DEF f
  <2>2. o \in Themed /\ o.theme = f.theme /\ o.shown = f.shown /\ o.at = "live"
    BY <1>2 DEF Themed
  <2> HIDE DEF o
  <2> QED BY <1>2, <2>1, <2>2, OneTheme
<1>7. CASE Theme!Close(t)
  <2>1. Theme!Closed \in Themed /\ Theme!Closed.at = "closed" /\ Theme!Closed.shown = Nothing
    BY DEF Theme!Closed, Themed, Theme!Preference
  <2>2. /\ document' = [document EXCEPT ![t] = Theme!Closed] /\ UNCHANGED <<preferred, storage, dark>>
        /\ toldOfTheme' = toldOfTheme \ {t}
    BY <1>7 DEF Theme!Close
  <2> QED BY <2>1, <2>2, OneTheme
<1>8. CASE Theme!ShowProfile(t)
  <2> DEFINE o == [f EXCEPT !.shown = Theme!Read(preferred)]
  <2>1. /\ document' = [document EXCEPT ![t] = o] /\ UNCHANGED <<preferred, storage, dark, toldOfTheme>>
        /\ d.at = "live"
    BY <1>8 DEF Theme!ShowProfile
  <2> HIDE DEF f
  <2>2. o \in Themed /\ o.theme = f.theme /\ o.shown = Theme!Read(preferred) /\ o.at = "live"
    BY <1>2, <1>3, <2>1 DEF Themed
  <2> HIDE DEF o
  <2> QED BY <1>2, <2>1, <2>2, OneTheme
<1>9. CASE Theme!LeaveProfile(t) /\ t \notin toldOfTheme
  <2> DEFINE o == [d EXCEPT !.shown = Nothing]
  <2>1. document' = [document EXCEPT ![t] = o] /\ UNCHANGED <<preferred, storage, dark, toldOfTheme>>
    BY <1>9 DEF Theme!LeaveProfile
  <2>2. o \in Themed /\ o.theme = d.theme /\ o.shown = Nothing /\ o.at = d.at
    BY <1>1 DEF Themed
  <2>3. d.at = "live" => d.theme = Theme!Resolved(Theme!Read(preferred), dark)
    BY <1>9 DEF ThemeInv, Theme!ThemeIsCurrent
  <2> HIDE DEF o, d
  <2> QED BY <2>1, <2>2, <2>3, OneTheme
<1>10. CASE Theme!LeaveProfile(t) /\ t \in toldOfTheme
  <2>1. /\ document' = [document EXCEPT ![t].shown = Nothing]
        /\ UNCHANGED <<preferred, storage, dark, toldOfTheme>>
    BY <1>10 DEF Theme!LeaveProfile
  <2>2. document' \in [Tab -> Themed] /\ \A u \in Tab \ {t} : document'[u] = document[u]
    BY <2>1 DEF ThemeInv, Themed
  <2>3. document'[t].shown = Nothing
    BY <1>1, <2>1 DEF ThemeInv, Themed
  <2>4. /\ Theme!Read(preferred)' = Theme!Read(preferred)
        /\ Theme!Resolved(Theme!Read(preferred), dark)' = Theme!Resolved(Theme!Read(preferred), dark)
    BY <2>1 DEF Theme!Read, Theme!Resolved
  <2> QED BY <1>10, <2>1, <2>2, <2>3, <2>4 DEF ThemeInv, Theme!ThemeIsCurrent
<1>11. CASE Theme!Told(t)
  <2>1. /\ toldOfTheme' = toldOfTheme \ {t} /\ UNCHANGED <<preferred, storage, dark>>
        /\ document' = IF d.at = "live" THEN [document EXCEPT ![t] = f] ELSE document
    BY <1>11 DEF Theme!Told
  <2>2. document = [document EXCEPT ![t] = d]
    BY DEF ThemeInv
  <2> HIDE DEF f
  <2>3. CASE d.at = "live"
    <3> HIDE DEF d
    <3> QED BY <1>2, <2>1, <2>3, OneTheme
  <2>4. CASE d.at # "live"
    <3> HIDE DEF d
    <3> QED BY <1>1, <1>4, <2>1, <2>2, <2>4, OneTheme
  <2> QED BY <2>3, <2>4
<1> QED BY <1>5, <1>6, <1>7, <1>8, <1>9, <1>10, <1>11

\* A preference that is stored is told to the other documents, so only its own
\* has to be current at once; a change of the system is taken by every document
\* that has no preference to keep.
LEMMA ChangesKeepTheme ==
  ASSUME Nothing \notin Theme!Preference, ThemeInv,
         \/ \E t \in Tab, preference \in Theme!Preference : Theme!SetAppearancePreference(t, preference)
         \/ Theme!SystemAppearance
  PROVE  ThemeInv'
<1>1. /\ \A t \in Tab : document[t] \in Themed
      /\ preferred \in Theme!Preference \cup {Nothing} /\ dark \in BOOLEAN
  BY DEF ThemeInv
<1>2. ASSUME NEW t \in Tab, NEW preference \in Theme!Preference,
             Theme!SetAppearancePreference(t, preference)
      PROVE  ThemeInv'
  <2> DEFINE kept == IF storage = "works" THEN preference ELSE preferred
             a == Theme!Applied(document[t], preference, dark)
             f == Theme!Followed(a, kept, dark)
             o == [f EXCEPT !.shown = preference]
  <2>1. /\ preferred' = kept /\ document[t].shown # Nothing
        /\ document' = [document EXCEPT ![t] = o] /\ UNCHANGED <<storage, dark>>
        /\ toldOfTheme' = IF kept # preferred
                          THEN toldOfTheme \cup {u \in Tab \ {t} : document[u].at # "closed"}
                          ELSE toldOfTheme
    BY <1>2 DEF Theme!SetAppearancePreference
  <2>2. kept \in Theme!Preference \cup {Nothing}
    BY <1>1
  <2>3. a \in Themed /\ a.at = document[t].at
    BY <1>1 DEF Theme!Applied, Theme!Resolved, Themed, Theme!Preference
  <2>4. document[t].at = "live"
    BY <2>1 DEF ThemeInv
  <2>5. storage = "works" => Theme!Read(kept) = preference
    BY DEF Theme!Read
  <2> HIDE DEF a, kept
  <2>6. f \in Themed /\ f.at = "live" /\ f.theme = Theme!Resolved(Theme!Read(kept), dark)
    BY <1>1, <2>2, <2>3, <2>4, FollowedIsCurrent
  <2> HIDE DEF f
  <2>7. o \in Themed /\ o.at = "live" /\ o.theme = f.theme /\ o.shown = preference
    BY <2>6 DEF Themed
  <2> HIDE DEF o
  <2>8. document' \in [Tab -> Themed] /\ document'[t] = o /\ \A u \in Tab \ {t} : document'[u] = document[u]
    BY <2>1, <2>7 DEF ThemeInv
  <2>9. Theme!Read(preferred)' = Theme!Read(kept) /\ (kept = preferred => Theme!Read(kept) = Theme!Read(preferred))
    BY <2>1 DEF Theme!Read
  <2>10. ASSUME NEW u \in Tab, document'[u].at = "live", u \notin toldOfTheme'
         PROVE  /\ document'[u].theme = Theme!Resolved(Theme!Read(preferred), dark)'
                /\ storage' = "works" /\ document'[u].shown # Nothing =>
                     document'[u].shown = Theme!Read(preferred)'
    <3>1. CASE u = t
      BY <2>1, <2>5, <2>6, <2>7, <2>8, <2>9, <3>1 DEF Theme!Resolved
    <3>2. CASE u # t
      <4>1. document'[u] = document[u] /\ kept = preferred /\ u \notin toldOfTheme
        BY <2>1, <2>8, <2>10, <3>2
      <4> QED BY <2>1, <2>9, <2>10, <4>1 DEF ThemeInv, Theme!ThemeIsCurrent, Theme!Resolved
    <3> QED BY <3>1, <3>2
  <2>11. \A u \in Tab : document'[u].at # "live" => document'[u].shown = Nothing
    BY <2>7, <2>8 DEF ThemeInv
  <2> QED BY <2>1, <2>2, <2>8, <2>10, <2>11, <1>1 DEF ThemeInv, Theme!ThemeIsCurrent
<1>3. CASE Theme!SystemAppearance
  <2> DEFINE follows(t) == document[t].at = "live" /\ Theme!Read(preferred) = "auto"
             f(t) == Theme!Followed(document[t], preferred, ~ dark)
  <2>1. /\ dark' = ~ dark /\ UNCHANGED <<preferred, storage, toldOfTheme>>
        /\ document' = [t \in Tab |-> IF follows(t) THEN f(t) ELSE document[t]]
    BY <1>3 DEF Theme!SystemAppearance
  <2>2. Theme!Read(preferred)' = Theme!Read(preferred)
    BY <2>1 DEF Theme!Read
  <2>3. ASSUME NEW t \in Tab
        PROVE  /\ f(t) \in Themed /\ f(t).at = document[t].at
               /\ f(t).theme = Theme!Resolved(Theme!Read(preferred), ~ dark)
               /\ f(t).shown = IF document[t].shown = Nothing THEN Nothing ELSE Theme!Read(preferred)
    BY <1>1, <2>3, FollowedIsCurrent
  <2>4. Theme!Resolved(Theme!Read(preferred), dark)' = Theme!Resolved(Theme!Read(preferred), ~ dark)
    BY <2>1, <2>2 DEF Theme!Resolved
  <2>5. Theme!Read(preferred) # "auto" =>
          Theme!Resolved(Theme!Read(preferred), ~ dark) = Theme!Resolved(Theme!Read(preferred), dark)
    BY DEF Theme!Resolved
  <2> HIDE DEF f
  <2>6. document' \in [Tab -> Themed] /\ dark' \in BOOLEAN
    BY <1>1, <2>1, <2>3
  <2>7. ASSUME NEW t \in Tab, document'[t].at = "live", t \notin toldOfTheme'
        PROVE  /\ document'[t].theme = Theme!Resolved(Theme!Read(preferred), dark)'
               /\ storage' = "works" /\ document'[t].shown # Nothing =>
                    document'[t].shown = Theme!Read(preferred)'
    <3>1. CASE follows(t)
      BY <2>1, <2>2, <2>3, <2>4, <3>1
    <3>2. CASE ~ follows(t)
      <4>1. document'[t] = document[t]
        BY <2>1, <3>2
      <4>2. Theme!Read(preferred) # "auto" /\ document[t].at = "live" /\ t \notin toldOfTheme
        BY <2>1, <2>7, <3>2, <4>1
      <4> QED BY <2>1, <2>2, <2>4, <2>5, <4>1, <4>2 DEF ThemeInv, Theme!ThemeIsCurrent
    <3> QED BY <3>1, <3>2
  <2>8. \A t \in Tab : document'[t].at # "live" => document'[t].shown = Nothing
    BY <2>1, <2>3 DEF ThemeInv
  <2> QED BY <2>1, <2>6, <2>7, <2>8, <1>1 DEF ThemeInv, Theme!ThemeIsCurrent
<1> QED BY <1>2, <1>3

LEMMA ThemeKept ==
  ASSUME Nothing \notin Theme!Preference, ThemeInv, [Theme!Next]_(Theme!vars)
  PROVE  ThemeInv'
<1>1. CASE Theme!Next
  BY <1>1, DocumentKeepsTheme, ChangesKeepTheme DEF Theme!Next
<1>2. CASE UNCHANGED Theme!vars
  BY <1>2 DEF Theme!vars, ThemeInv, Theme!ThemeIsCurrent, Theme!Resolved, Theme!Read
<1> QED BY <1>1, <1>2

-----------------------------------------------------------------------------
(* The reminder                                                            *)

\* The places of the reminder.
kept == s1
blocked == s2
copies == s3
edited == s4
toldOfSettings == s5
delivered == s7

USE DEF kept, blocked, copies, edited, toldOfSettings, delivered

\* The moments of a day are numbered, and so are the moments events are made.
Timed == TicksPerDay \in Nat \ {0} /\ Now \subseteq Nat

\* The least of a set of numbers, and how it is found.
LEMMA MinIsLeast ==
  ASSUME NEW S \in SUBSET Nat, S # {}
  PROVE  /\ Reminder!Min(S) \in S
         /\ \A n \in S : Reminder!Min(S) <= n
<1>1. IsWellFoundedOn(OpToRel(<, Nat), Nat)
  BY NatLessThanWellFounded
<1>2. PICK m \in S : \A n \in S : ~ (<<n, m>> \in OpToRel(<, Nat))
  BY <1>1, WFMin
<1>3. \A n \in S : m <= n
  <2> SUFFICES ASSUME NEW n \in S, n < m
               PROVE  FALSE
    BY SMT
  <2>1. <<n, m>> \in {ss \in Nat \X Nat : ss[1] < ss[2]}
    BY SMT
  <2>2. {ss \in Nat \X Nat : ss[1] < ss[2]} = OpToRel(<, Nat)
    BY Zenon DEF OpToRel
  <2> QED BY <1>2, <2>1, <2>2
<1> QED BY <1>3 DEF Reminder!Min

LEMMA LeastIsMin ==
  ASSUME NEW S \in SUBSET Nat, NEW n \in S, \A m \in S : n <= m
  PROVE  Reminder!Min(S) = n
<1>1. Reminder!Min(S) \in S /\ Reminder!Min(S) <= n
  BY MinIsLeast
<1>2. n <= Reminder!Min(S) /\ n \in Nat /\ Reminder!Min(S) \in Nat
  BY <1>1
<1> HIDE DEF Reminder!Min
<1> QED BY <1>1, <1>2

\* A moment is that of a day and a tick of the day, in one way.
LEMMA MomentOfDay ==
  ASSUME NEW T \in Nat \ {0}, NEW m \in Nat
  PROVE  /\ m \div T \in Nat /\ m % T \in 0 .. T - 1
         /\ m = (m \div T) * T + (m % T)
<1>1. m \div T \in Int /\ m % T \in Int
  OBVIOUS
<1>2. m \div T >= 0
  OBVIOUS
<1>3. 0 <= m % T /\ m % T < T
  OBVIOUS
<1>4. m = T * (m \div T) + (m % T)
  OBVIOUS
<1>5. T * (m \div T) = (m \div T) * T
  BY <1>1
<1> QED BY <1>1, <1>2, <1>3, <1>4, <1>5

LEMMA DayOfMoment ==
  ASSUME NEW T \in Nat \ {0}, NEW k \in Nat, NEW r \in 0 .. T - 1
  PROVE  (k * T + r) \div T = k /\ ((k * T + r) % T) = r /\ k * T + r \in Nat
<1> DEFINE m == k * T + r
           q == m \div T
           s == m % T
<1>1. m \in Nat
  OBVIOUS
<1>2. q \in Nat /\ s \in 0 .. T - 1 /\ m = q * T + s
  BY <1>1, MomentOfDay
<1> HIDE DEF q, s
<1>3. ~ (q >= k + 1)
  <2> SUFFICES ASSUME q >= k + 1 PROVE FALSE
    OBVIOUS
  <2>1. PICK d \in Nat : q = k + 1 + d
    <3>1. q - (k + 1) \in Nat
      BY <1>2
    <3> QED BY <1>2, <3>1
  <2>2. q * T = k * T + T + d * T /\ d * T \in Nat
    BY <2>1
  <2> QED BY <1>2, <2>2
<1>4. ~ (k >= q + 1)
  <2> SUFFICES ASSUME k >= q + 1 PROVE FALSE
    OBVIOUS
  <2>1. PICK d \in Nat : k = q + 1 + d
    <3>1. k - (q + 1) \in Nat
      BY <1>2
    <3> QED BY <1>2, <3>1
  <2>2. k * T = q * T + T + d * T /\ d * T \in Nat
    BY <1>2, <2>1
  <2> QED BY <1>2, <2>2
<1>5. q = k
  BY <1>2, <1>3, <1>4
<1> QED BY <1>1, <1>2, <1>5 DEF q, s

LEMMA ProductIsMonotonic ==
  ASSUME NEW T \in Nat, NEW x \in Nat, NEW y \in Nat, x <= y
  PROVE  x * T <= y * T /\ x * T \in Nat /\ y * T \in Nat
<1>1. PICK d \in Nat : y = x + d
  <2>1. y - x \in Nat /\ y = x + (y - x)
    OBVIOUS
  <2> QED BY <2>1
<1>2. y * T = x * T + d * T /\ d * T \in Nat /\ x * T \in Nat
  BY <1>1
<1> QED BY <1>2

\* The product a week on.
LEMMA ProductGrowsBySeven ==
  ASSUME NEW D \in Nat, NEW T \in Nat
  PROVE  (D + 7) * T = D * T + 7 * T /\ D * T \in Nat
OBVIOUS

\* Every day of the week comes within seven days.
LEMMA DayComes ==
  ASSUME NEW n \in Nat, NEW d \in 0 .. 6
  PROVE  \E o \in 1 .. 7 : (n + o) % 7 = d
<1>1. n % 7 \in 0 .. 6
  OBVIOUS
<1>2. CASE d > n % 7
  <2>1. (n + (d - (n % 7))) % 7 = d /\ d - (n % 7) \in 1 .. 7
    BY <1>1, <1>2
  <2> QED BY <2>1
<1>3. CASE d <= n % 7
  <2>1. (n + (7 + d - (n % 7))) % 7 = d /\ 7 + d - (n % 7) \in 1 .. 7
    BY <1>1, <1>3
  <2> QED BY <2>1
<1> QED BY <1>1, <1>2, <1>3

WholeSettings == {s \in Reminder!Settings : s.recurrence = "custom" => s.weekdays # {}}

\* The loop over fifteen days finds the first moment the rule names: it looks at
\* the moments of the rule in their order, and a week has one of them.
LEMMA NextIsFirst ==
  ASSUME Timed, NEW now \in Nat, NEW s \in WholeSettings
  PROVE  Reminder!NextOccurrence(s, now) =
           Reminder!Min({m \in (now + 1)..(now + 8 * TicksPerDay) :
                           m % TicksPerDay = s.time /\ Reminder!DayOf(m) \in Reminder!EffectiveWeekdays(s)})
<1> DEFINE T == TicksPerDay
           D == now \div T
           cand(o) == (D + o) * T + s.time
           days == Reminder!EffectiveWeekdays(s)
           allowed == {o \in 0..14 : cand(o) > now /\ Reminder!DayOf(cand(o)) \in days}
           named == {m \in (now + 1)..(now + 8 * T) : m % T = s.time /\ Reminder!DayOf(m) \in days}
           a == Reminder!Min(allowed)
<1>1. T \in Nat \ {0} /\ s.time \in 0 .. T - 1
  BY DEF Timed, WholeSettings, Reminder!Settings, Reminder!Tick
<1>2. /\ D \in Nat /\ now % T \in 0 .. T - 1
      /\ now = D * T + (now % T)
  BY <1>1, MomentOfDay
<1>3. days # {} /\ days \subseteq 0 .. 6
  BY DEF Reminder!EffectiveWeekdays, WholeSettings, Reminder!Settings, Reminder!Workdays, Reminder!Day
<1> HIDE DEF D, days
<1>4. ASSUME NEW o \in Nat
      PROVE  cand(o) \in Nat /\ cand(o) % T = s.time /\ Reminder!DayOf(cand(o)) = (D + o) % 7
  <2>1. D + o \in Nat
    BY <1>2
  <2>2. cand(o) \in Nat /\ cand(o) % T = s.time /\ cand(o) \div T = D + o
    BY <1>1, <2>1, DayOfMoment
  <2> HIDE DEF cand
  <2> QED BY <2>2 DEF Reminder!DayOf
<1>5. ASSUME NEW o \in Nat, NEW p \in Nat, o <= p
      PROVE  cand(o) <= cand(p)
  <2>1. (D + o) * T <= (D + p) * T /\ (D + o) * T \in Nat /\ (D + p) * T \in Nat
    BY <1>1, <1>2, <1>5, ProductIsMonotonic
  <2> QED BY <1>1, <2>1
<1>6. cand(1) > now
  <2>1. (D + 1) * T = D * T + T /\ D * T \in Nat
    BY <1>1, <1>2
  <2> QED BY <1>1, <1>2, <2>1
<1>7. cand(7) <= now + 8 * T
  <2>1. (D + 7) * T = D * T + 7 * T /\ D * T \in Nat
    BY <1>1, <1>2, ProductGrowsBySeven
  <2> QED BY <1>1, <1>2, <2>1
<1> HIDE DEF cand
<1>8. PICK o \in 1 .. 7 : o \in allowed
  <2>1. PICK d \in days : d \in 0 .. 6
    BY <1>3
  <2>2. PICK o \in 1 .. 7 : (D + o) % 7 = d
    BY <1>2, <2>1, DayComes
  <2>3. cand(o) > now
    <3>1. cand(1) <= cand(o) /\ cand(1) \in Nat /\ cand(o) \in Nat
      BY <1>4, <1>5
    <3> QED BY <1>6, <3>1
  <2> QED BY <1>4, <2>1, <2>2, <2>3
<1>9. allowed # {} /\ a \in allowed /\ \A p \in allowed : a <= p
  BY <1>8, MinIsLeast
<1>10. Reminder!NextOccurrence(s, now) = cand(a)
  BY <1>9 DEF Reminder!NextOccurrence, cand, D, days
<1> HIDE DEF a
<1>11. cand(a) \in named
  <2>1. a \in 0 .. 7
    BY <1>8, <1>9
  <2>2. cand(a) \in Nat /\ cand(7) \in Nat /\ cand(a) <= cand(7) /\ cand(a) % T = s.time
    BY <1>4, <1>5, <2>1
  <2>3. now + 8 * T \in Nat /\ cand(a) > now /\ Reminder!DayOf(cand(a)) \in days
    BY <1>1, <1>9
  <2> QED BY <1>7, <2>2, <2>3
<1>12. ASSUME NEW m \in named
       PROVE  cand(a) <= m
  <2> DEFINE k == m \div T
  <2>1. m \in Nat /\ m > now /\ m <= now + 8 * T /\ m % T = s.time /\ Reminder!DayOf(m) \in days
    BY <1>1
  <2>2. k \in Nat /\ m = k * T + s.time
    BY <1>1, <2>1, MomentOfDay
  <2> HIDE DEF k
  <2>3. k >= D
    <3> SUFFICES ASSUME k + 1 <= D PROVE FALSE
      BY <1>2, <2>2
    <3>1. (k + 1) * T <= D * T
      BY <1>1, <1>2, <2>2, ProductIsMonotonic
    <3>2. (k + 1) * T = k * T + T /\ k * T \in Nat /\ D * T \in Nat
      BY <1>1, <1>2, <2>2
    <3> QED BY <1>1, <1>2, <2>1, <2>2, <3>1, <3>2
  <2>4. k <= D + 8
    <3> SUFFICES ASSUME D + 9 <= k PROVE FALSE
      BY <1>2, <2>2
    <3>1. (D + 9) * T <= k * T
      BY <1>1, <1>2, <2>2, ProductIsMonotonic
    <3>2. (D + 9) * T = D * T + 9 * T /\ k * T \in Nat /\ D * T \in Nat
      BY <1>1, <1>2, <2>2
    <3> QED BY <1>1, <1>2, <2>1, <2>2, <3>1, <3>2
  <2>5. k - D \in 0 .. 14 /\ D + (k - D) = k
    BY <1>2, <2>2, <2>3, <2>4
  <2>6. cand(k - D) = m
    BY <2>2, <2>5 DEF cand
  <2>7. k - D \in allowed
    BY <2>1, <2>5, <2>6
  <2>8. a \in Nat /\ k - D \in Nat /\ a <= k - D
    BY <1>9, <2>5, <2>7
  <2> QED BY <1>5, <2>6, <2>8
<1>13. named \in SUBSET Nat
  BY <1>1
<1> HIDE DEF named
<1>14. Reminder!Min(named) = cand(a)
  BY <1>11, <1>12, <1>13, LeastIsMin
<1> QED BY <1>10, <1>14 DEF named, days

\* Normalizing gives settings that name a day, and changes none that do.
LEMMA NormalizedIsWhole ==
  ASSUME NEW s \in Reminder!Settings
  PROVE  /\ Reminder!Normalized(s) \in WholeSettings
         /\ s \in WholeSettings => Reminder!Normalized(s) = s
<1>1. Reminder!Workdays \in SUBSET Reminder!Day /\ Reminder!Workdays # {}
  BY DEF Reminder!Workdays, Reminder!Day
<1> QED BY <1>1 DEF Reminder!Normalized, WholeSettings, Reminder!Settings

\* Every copy names a day, an event was made of such a copy, and the copies agree.
ReminderInv ==
  /\ kept \in Reminder!Settings \cup {Nothing}
  /\ copies \in [Reminder!Copy -> WholeSettings \cup {Nothing}]
  /\ delivered # Nothing =>
       /\ delivered.settings \in WholeSettings /\ delivered.now \in Nat
       /\ delivered.start = Reminder!NextOccurrence(delivered.settings, delivered.now)
  /\ Reminder!CopiesAgree

LEMMA ReadIsWhole ==
  ASSUME Timed, kept \in Reminder!Settings \cup {Nothing}
  PROVE  Reminder!ReadSettings \in WholeSettings
<1>1. Reminder!Default \in WholeSettings
  BY DEF Timed, Reminder!Default, WholeSettings, Reminder!Settings, Reminder!Tick, Reminder!Day
<1> QED BY <1>1, NormalizedIsWhole DEF Reminder!ReadSettings

LEMMA ReminderInit == ASSUME Timed, Reminder!Init PROVE ReminderInv
<1>1. Reminder!Default \in Reminder!Settings
  BY DEF Timed, Reminder!Default, Reminder!Settings, Reminder!Tick, Reminder!Day
<1>2. [Reminder!Default EXCEPT !.weekdays = {}] \in Reminder!Settings
  BY <1>1 DEF Reminder!Settings
<1> QED BY <1>2 DEF Reminder!Init, ReminderInv, Reminder!CopiesAgree

\* What a copy reads or loses.
LEMMA MountsKeepReminder ==
  ASSUME Timed, Nothing \notin Reminder!Settings, ReminderInv, NEW c \in Reminder!Copy,
         Reminder!Mounted(c) \/ Reminder!Unmount(c) \/ Reminder!Shared(c)
  PROVE  ReminderInv'
<1>1. UNCHANGED <<kept, blocked, delivered, toldOfSettings>>
  BY DEF Reminder!Mounted, Reminder!Unmount, Reminder!Shared
<1>2. Reminder!ReadSettings' = Reminder!ReadSettings /\ Reminder!ReadSettings \in WholeSettings
  BY <1>1, ReadIsWhole DEF Reminder!ReadSettings, ReminderInv
<1>3. copies' \in [Reminder!Copy -> WholeSettings \cup {Nothing}]
  BY <1>2 DEF ReminderInv, Reminder!Mounted, Reminder!Unmount, Reminder!Shared
<1>4. \A d \in Reminder!Copy : \/ copies'[d] \in {Nothing, Reminder!ReadSettings}
                               \/ copies'[d] = copies[d] /\ (d \in edited => d \in edited')
  BY <1>2 DEF ReminderInv, Reminder!Mounted, Reminder!Unmount, Reminder!Shared
<1> QED BY <1>1, <1>2, <1>3, <1>4 DEF ReminderInv, Reminder!CopiesAgree

\* What the learner edits is normalized.
LEMMA EditsKeepReminder ==
  ASSUME Timed, ReminderInv, NEW c \in Reminder!Copy,
         \/ \E tick \in Reminder!Tick : Reminder!SetTime(c, tick)
         \/ \E recurrence \in {"daily", "weekdays", "custom"} : Reminder!SetRecurrence(c, recurrence)
         \/ \E day \in Toggled : Reminder!ToggleWeekday(c, day),
         Toggled \subseteq Reminder!Day
  PROVE  ReminderInv'
<1>1. PICK s \in Reminder!Settings : Reminder!Update(c, s)
  <2>1. copies[c] # Nothing /\ copies[c] \in WholeSettings
    BY DEF ReminderInv, Reminder!SetTime, Reminder!SetRecurrence, Reminder!ToggleWeekday
  <2>2. ASSUME NEW tick \in Reminder!Tick, Reminder!SetTime(c, tick)
        PROVE  \E s \in Reminder!Settings : Reminder!Update(c, s)
    <3>1. [copies[c] EXCEPT !.time = tick] \in Reminder!Settings
      BY <2>1 DEF WholeSettings, Reminder!Settings
    <3> QED BY <2>2, <3>1 DEF Reminder!SetTime
  <2>3. ASSUME NEW recurrence \in {"daily", "weekdays", "custom"}, Reminder!SetRecurrence(c, recurrence)
        PROVE  \E s \in Reminder!Settings : Reminder!Update(c, s)
    <3>1. [copies[c] EXCEPT !.recurrence = recurrence] \in Reminder!Settings
      BY <2>1 DEF WholeSettings, Reminder!Settings
    <3> QED BY <2>3, <3>1 DEF Reminder!SetRecurrence
  <2>4. ASSUME NEW day \in Toggled, Reminder!ToggleWeekday(c, day)
        PROVE  \E s \in Reminder!Settings : Reminder!Update(c, s)
    <3>1. [copies[c] EXCEPT !.weekdays = (@ \ {day}) \cup ({day} \ @)] \in Reminder!Settings
      BY <2>1 DEF WholeSettings, Reminder!Settings
    <3> QED BY <2>4, <3>1 DEF Reminder!ToggleWeekday
  <2> QED BY <2>2, <2>3, <2>4
<1>2. /\ copies' = [copies EXCEPT ![c] = Reminder!Normalized(s)]
      /\ edited' = edited \cup {c}
      /\ UNCHANGED <<kept, blocked, delivered, toldOfSettings>>
  BY <1>1 DEF Reminder!Update
<1>3. Reminder!Normalized(s) \in WholeSettings
  BY NormalizedIsWhole
<1>4. copies' \in [Reminder!Copy -> WholeSettings \cup {Nothing}]
      /\ \A d \in Reminder!Copy \ {c} : copies'[d] = copies[d]
  BY <1>2, <1>3 DEF ReminderInv
<1>5. Reminder!ReadSettings' = Reminder!ReadSettings
  BY <1>2 DEF Reminder!ReadSettings
<1> QED BY <1>2, <1>4, <1>5 DEF ReminderInv, Reminder!CopiesAgree

\* An event is made of the copy that is stored, and the copies of its document
\* take it at once.
LEMMA EventsKeepReminder ==
  ASSUME Timed, Nothing \notin Reminder!Settings, ReminderInv, NEW c \in Reminder!Copy, NEW now \in Now,
         Reminder!AddToGoogle(c, now) \/ Reminder!AddToApple(c, now)
  PROVE  ReminderInv'
<1>1. /\ copies[c] # Nothing /\ blocked' = blocked
      /\ Reminder!Persists(c)
      /\ delivered' = [settings |-> copies[c], now |-> now,
                       start |-> Reminder!NextOccurrence(copies[c], now)]
  BY DEF Reminder!AddToGoogle, Reminder!AddToApple, Reminder!Delivers
<1>2. copies[c] \in WholeSettings /\ copies[c] \in Reminder!Settings /\ now \in Nat
  BY <1>1 DEF ReminderInv, WholeSettings, Timed
<1>3. /\ delivered'.settings = copies[c] /\ delivered'.now = now
      /\ delivered'.start = Reminder!NextOccurrence(copies[c], now)
  BY <1>1
<1>4. /\ kept' = IF blocked THEN kept ELSE copies[c]
      /\ toldOfSettings' = IF blocked THEN toldOfSettings ELSE toldOfSettings \cup (Tab \ {c[1]})
      /\ copies' = [d \in Reminder!Copy |-> IF d[1] = c[1] /\ copies[d] # Nothing THEN copies[c] ELSE copies[d]]
  BY <1>1 DEF Reminder!Persists
<1>5. kept' \in Reminder!Settings \cup {Nothing}
      /\ copies' \in [Reminder!Copy -> WholeSettings \cup {Nothing}]
  BY <1>2, <1>4 DEF ReminderInv
<1>6. Reminder!CopiesAgree'
  <2> SUFFICES ASSUME ~ blocked', NEW d \in Reminder!Copy, copies'[d] # Nothing,
                      d[1] \notin toldOfSettings'
               PROVE  copies'[d] = Reminder!ReadSettings'
    BY DEF Reminder!CopiesAgree
  <2>1. d[1] \in Tab
    BY DEF Reminder!Copy
  <2>2. d[1] = c[1] /\ kept' = copies[c]
    BY <1>1, <1>4, <2>1
  <2>3. copies'[d] = copies[c]
    BY <1>4, <2>2
  <2>4. Reminder!ReadSettings' = Reminder!Normalized(kept')
    BY <1>1, <1>2, <2>2 DEF Reminder!ReadSettings, Reminder!Normalized
  <2> QED BY <1>2, <2>2, <2>3, <2>4, NormalizedIsWhole
<1>7. delivered' # Nothing =>
        /\ delivered'.settings \in WholeSettings /\ delivered'.now \in Nat
        /\ delivered'.start = Reminder!NextOccurrence(delivered'.settings, delivered'.now)
  BY <1>2, <1>3
<1> QED BY <1>5, <1>6, <1>7 DEF ReminderInv, Reminder!NextOccurrence, Reminder!DayOf, Reminder!Min,
     Reminder!EffectiveWeekdays

LEMMA ToldKeepsReminder ==
  ASSUME Timed, ReminderInv, NEW t \in Tab, Reminder!Told(t)
  PROVE  ReminderInv'
<1>1. /\ UNCHANGED <<kept, blocked, delivered>>
      /\ toldOfSettings' = toldOfSettings \ {t}
      /\ copies' = [d \in Reminder!Copy |-> IF d[1] = t /\ copies[d] # Nothing THEN Reminder!ReadSettings
                                           ELSE copies[d]]
      /\ edited' = {d \in edited : d[1] # t}
  BY DEF Reminder!Told
<1>2. Reminder!ReadSettings' = Reminder!ReadSettings /\ Reminder!ReadSettings \in WholeSettings
  BY <1>1, ReadIsWhole DEF Reminder!ReadSettings, ReminderInv
<1>3. copies' \in [Reminder!Copy -> WholeSettings \cup {Nothing}]
  BY <1>1, <1>2 DEF ReminderInv
<1>4. ASSUME ~ blocked', NEW d \in Reminder!Copy, copies'[d] # Nothing, d \notin edited',
             d[1] \notin toldOfSettings'
      PROVE  copies'[d] = Reminder!ReadSettings'
  <2>1. CASE d[1] = t
    BY <1>1, <1>2, <1>4, <2>1
  <2>2. CASE d[1] # t
    BY <1>1, <1>2, <1>4, <2>2 DEF ReminderInv, Reminder!CopiesAgree
  <2> QED BY <2>1, <2>2
<1> QED BY <1>1, <1>3, <1>4 DEF ReminderInv, Reminder!CopiesAgree

\* The absence of settings is none, and the days that are toggled are days.
Weekly == Nothing \notin Reminder!Settings /\ Toggled \subseteq Reminder!Day

LEMMA ReminderKept ==
  ASSUME Timed, Weekly, ReminderInv, [Reminder!Next]_(Reminder!vars)
  PROVE  ReminderInv'
<1>1. CASE Reminder!Next
  BY <1>1, MountsKeepReminder, EditsKeepReminder, EventsKeepReminder, ToldKeepsReminder
  DEF Reminder!Next, Weekly
<1>2. CASE UNCHANGED Reminder!vars
  BY <1>2 DEF Reminder!vars, ReminderInv, Reminder!CopiesAgree, Reminder!ReadSettings
<1> QED BY <1>1, <1>2

\* calendar-reminder.ts, nextCalendarOccurrence: an event begins at the first
\* moment to come that its rule names, for days of any number of moments, any
\* settings that edits lead to and any moment it is made at.
THEOREM EventsBeginAtTheNextMoment ==
  ASSUME Timed, Weekly
  PROVE  Spec => []ReminderIsNext
<1> DEFINE I == part = "reminder" => ReminderInv
<1>1. Init => I
  BY ReminderInit DEF Init
<1>2. I /\ [Next]_vars => I'
  BY PartSteps, ReminderKept
<1>3. I => ReminderIsNext
  <2> SUFFICES ASSUME part = "reminder", ReminderInv, delivered # Nothing
               PROVE  Reminder!ReminderIsNext
    BY DEF ReminderIsNext, Reminder!ReminderIsNext
  <2>1. /\ delivered.settings \in WholeSettings /\ delivered.now \in Nat
        /\ delivered.start = Reminder!NextOccurrence(delivered.settings, delivered.now)
    BY DEF ReminderInv
  <2> QED BY <2>1, NextIsFirst DEF Reminder!ReminderIsNext
<1> QED BY <1>1, <1>2, <1>3, PTL DEF Spec

\* calendar-reminder-storage.ts and appearance-preference.ts: every document shows
\* what is stored once it has been told, for any number of documents, of places
\* that hold a copy, and of changes.
THEOREM DocumentsShowWhatIsStored ==
  ASSUME Timed, Weekly, Nothing \notin Theme!Preference
  PROVE  Spec => []StoredIsShown
<1> DEFINE I == (part = "reminder" => ReminderInv) /\ (part = "theme" => ThemeInv)
<1>1. Init => I
  BY ReminderInit, ThemeInit DEF Init
<1>2. I /\ [Next]_vars => I'
  BY PartSteps, ReminderKept, ThemeKept
<1>3. I => StoredIsShown
  BY DEF StoredIsShown, ReminderInv, ThemeInv
<1> QED BY <1>1, <1>2, <1>3, PTL DEF Spec

-----------------------------------------------------------------------------
(* The mailed links                                                        *)

\* The places of the links.
address == s1
session == s2
restoring == s3
cookie == s4
form == s5
email == s6
reading == s7
requests == s8
tokens == s9
opened == s10

USE DEF address, session, restoring, cookie, form, email, reading, requests, tokens, opened

Address == [page : {"profile", "elsewhere"}, link : Links!Link \cup {Nothing}, expired : BOOLEAN]
SignIn == [mode : Links!Mode, token : BOOLEAN, says : {"nothing", "sent", "changed", "invalid", "failed"}]
Confirmation == [token : BOOLEAN, says : {"nothing", "invalid", "failed"}]

LinksType ==
  /\ address \in Address
  /\ form \in {Nothing} \cup SignIn
  /\ email \in {Nothing} \cup Confirmation
  /\ reading \subseteq Links!Link
  /\ requests \subseteq Links!Request
  /\ tokens \in [Links!Link -> {"usable", "used", "void"}]
  /\ opened \in Links!Link \cup {Nothing}

\* The link in the address is the one that was opened, if the learner has not left
\* that; it is only on the page of the profile, and the form that will take it from
\* there is up.
AddressInv ==
  /\ address.link # Nothing => opened \in {Nothing, address.link}
  /\ address.page = "elsewhere" => address.link = Nothing /\ opened = Nothing
  /\ "reset" \in reading => form # Nothing /\ (address.link = "reset" \/ opened = Nothing)
  /\ restoring /\ opened # Nothing => form = Nothing
  /\ "email" \in reading => email # Nothing

\* What an answer says of its token, and the form that hears it.
AnswersInv ==
  \A r \in requests :
    /\ r.heard = "form" => IF r.of = "email" THEN email # Nothing ELSE form # Nothing
    /\ r.of \in Links!Link /\ r.at = "refused" => tokens[r.of] # "usable"
    /\ r.of = "reset" /\ r.at = "done" => tokens["reset"] = "used"

LinksInv == LinksType /\ AddressInv /\ AnswersInv /\ Links!LinksAreKept

\* The absence of a link, of a form and of a confirmation is none.
NoForm == Nothing \notin Links!Link /\ Nothing \notin SignIn /\ Nothing \notin Confirmation

LEMMA LinksInit == ASSUME NoForm, Links!Init PROVE LinksInv
<1>1. LinksType
  BY DEF Links!Init, LinksType, Address, Links!Link
<1>2. form = Nothing /\ email = Nothing /\ reading = {} /\ requests = {} /\ opened = address.link
      /\ address.page = "profile"
  BY DEF Links!Init
<1> QED BY <1>1, <1>2 DEF LinksInv, AddressInv, AnswersInv, Links!LinksAreKept

\* What comes up on a page: the form and the confirmation it shows, each with its
\* timer, and what is left of those it does not.
LEMMA MountsKeepLinks ==
  ASSUME NoForm, LinksInv, NEW a \in Address, NEW s, NEW rs \in SUBSET requests,
         Links!Mounts(a, s, rs), address' = a, tokens' = tokens,
         a.page = "elsewhere" => a.link = Nothing,
         \/ opened' = Nothing /\ a.link = Nothing
         \/ opened' = opened /\ a = address /\ restoring /\ ~ restoring'
         \/ opened' = opened /\ a.link = Nothing /\ a.page = "profile" /\ restoring /\ ~ restoring' /\ a.expired
         \/ opened' = opened /\ a.link = Nothing /\ a.page = "profile" /\ opened = Nothing
  PROVE  LinksInv'
<1> DEFINE hasForm == a.page = "profile" /\ s \in {"guest", "suppressed"}
           comes == a.page = "profile" /\ (email = Nothing \/ address.page # "profile")
<1>1. /\ form' = IF ~ hasForm THEN Nothing ELSE IF form = Nothing THEN Links!Blank ELSE form
      /\ email' = IF email = Nothing THEN [token |-> FALSE, says |-> "nothing"] ELSE email
      /\ reading' = {l \in reading : IF l = "reset" THEN hasForm ELSE a.page = "profile"}
                      \cup (IF hasForm /\ form = Nothing /\ a.link = "reset" THEN {"reset"} ELSE {})
                      \cup (IF comes THEN {"email"} ELSE {})
      /\ requests' = {[r EXCEPT !.heard = IF @ = "form" /\ r.of # "email" /\ ~ hasForm THEN "page" ELSE @]
                        : r \in rs}
  BY DEF Links!Mounts
<1>2. /\ Links!Blank \in SignIn /\ Links!Blank.says = "nothing" /\ ~ Links!Blank.token
      /\ [token |-> FALSE, says |-> "nothing"] \in Confirmation
  BY DEF Links!Blank, SignIn, Confirmation, Links!Mode
<1>3. \A r \in requests' : \E q \in requests :
        /\ r.of = q.of /\ r.at = q.at
        /\ r \in Links!Request
        /\ r.heard = "form" => q.heard = "form" /\ (q.of # "email" => hasForm)
  BY <1>1 DEF LinksInv, LinksType, Links!Request
<1>4. email' # Nothing
  BY <1>1, <1>2 DEF NoForm
<1>5. hasForm => form' # Nothing
  BY <1>1, <1>2 DEF NoForm
<1> HIDE DEF hasForm, comes
<1>6. LinksType'
  <2>1. form' \in {Nothing} \cup SignIn /\ email' \in {Nothing} \cup Confirmation
    BY <1>1, <1>2 DEF LinksInv, LinksType
  <2>2. reading' \subseteq Links!Link /\ requests' \subseteq Links!Request
    BY <1>1, <1>3 DEF LinksInv, LinksType, Links!Link
  <2> QED BY <2>1, <2>2 DEF LinksInv, LinksType
<1>7. AnswersInv'
  BY <1>3, <1>4, <1>5 DEF LinksInv, AnswersInv
<1>8. AddressInv'
  <2>1. "reset" \in reading' =>
          form' # Nothing /\ ("reset" \in reading \/ (form = Nothing /\ a.link = "reset"))
    BY <1>1, <1>5
  <2>2. a.link # Nothing => opened' \in {Nothing, a.link}
    BY DEF LinksInv, AddressInv
  <2>3. a.page = "elsewhere" => a.link = Nothing /\ opened' = Nothing
    BY DEF LinksInv, AddressInv
  <2>4. "reset" \in reading' => a.link = "reset" \/ opened' = Nothing
    BY <2>1 DEF LinksInv, AddressInv, Links!LinksAreKept
  <2>5. restoring' => opened' = Nothing
    OBVIOUS
  <2> QED BY <1>4, <2>1, <2>2, <2>3, <2>4, <2>5 DEF AddressInv
<1>9. Links!LinksAreKept'
  <2>1. /\ form' # Nothing /\ form'.token => form' = form /\ form # Nothing
        /\ form' # Nothing /\ form'.says # "nothing" => form' = form /\ form # Nothing
        /\ form' # Nothing /\ form # Nothing => form' = form
    BY <1>1, <1>2
  <2>2. /\ email # Nothing => email' = email
        /\ email = Nothing => email'.says = "nothing" /\ (a.page = "profile" => "email" \in reading')
        /\ "email" \in reading /\ a.page = "profile" => "email" \in reading'
    BY <1>1, <1>2 DEF comes
  <2>3. opened' # Nothing /\ tokens'[opened'] = "usable" /\ ~ address'.expired =>
          \/ address'.link = opened'
          \/ opened' = "reset" /\ form' # Nothing /\ form'.mode = "reset" /\ form'.token
    BY DEF LinksInv, AddressInv, Links!LinksAreKept, NoForm
  <2>4. opened' = "email" /\ email' # Nothing /\ "email" \notin reading' /\ tokens'["email"] = "usable"
          /\ ~ address'.expired => email'.token
    <3> SUFFICES ASSUME opened' = "email", "email" \notin reading', tokens'["email"] = "usable",
                        ~ address'.expired
                 PROVE  email'.token
      OBVIOUS
    <3>1. opened = "email" /\ a = address
      BY DEF NoForm, Links!Link
    <3>2. a.page = "profile"
      BY <3>1 DEF LinksInv, AddressInv, NoForm, Links!Link, Address
    <3> QED BY <2>2, <3>1, <3>2 DEF LinksInv, Links!LinksAreKept
  <2>5. form' # Nothing /\ form'.token /\ form'.mode = "reset" => address'.link # "reset"
    BY <2>1 DEF LinksInv, Links!LinksAreKept, NoForm, Links!Link
  <2>6. /\ form' # Nothing /\ form'.says = "changed" => tokens'["reset"] = "used"
        /\ form' # Nothing /\ form'.says = "invalid" => tokens'["reset"] # "usable"
        /\ email' # Nothing /\ email'.says = "invalid" => tokens'["email"] # "usable"
    BY <2>1, <2>2 DEF LinksInv, Links!LinksAreKept
  <2> QED BY <2>3, <2>4, <2>5, <2>6 DEF Links!LinksAreKept
<1> QED BY <1>6, <1>7, <1>8, <1>9 DEF LinksInv

LEMMA RestoreKeepsLinks == ASSUME NoForm, LinksInv, Links!RestoreAnswers PROVE LinksInv'
<1> DEFINE stays == session = "learner" /\ cookie # "none"
           s == IF stays \/ cookie = "live" THEN "learner" ELSE "guest"
           expired == ~ stays /\ cookie = "ended"
           screen == [page |-> "profile", link |-> Nothing, expired |-> expired]
<1>1. /\ address' \in IF expired THEN {screen}
                     ELSE {address} \cup (IF s = "guest" /\ address.page # "profile" THEN {screen} ELSE {})
      /\ restoring' = (address'.page # address.page)
      /\ Links!Mounts(address', s, requests) /\ tokens' = tokens /\ opened' = opened /\ restoring
  BY DEF Links!RestoreAnswers
<1>2. expired \in BOOLEAN /\ screen \in Address /\ address \in Address
  BY DEF LinksInv, LinksType, Address
<1> HIDE DEF s, expired, screen
<1>3. address' = address \/ (address' = screen /\ (expired \/ address.page # "profile"))
  <2>1. CASE expired
    BY <1>1, <2>1
  <2>2. CASE ~ expired
    BY <1>1, <2>2
  <2> QED BY <2>1, <2>2
<1> USE DEF screen
<1>4. address' \in Address
  BY <1>2, <1>3
<1>5. address'.page = "elsewhere" => address'.link = Nothing
  BY <1>3 DEF LinksInv, AddressInv
<1>6. \/ opened' = opened /\ address' = address /\ restoring /\ ~ restoring'
      \/ opened' = opened /\ address'.link = Nothing /\ address'.page = "profile" /\ restoring /\ ~ restoring'
         /\ address'.expired
      \/ opened' = opened /\ address'.link = Nothing /\ address'.page = "profile" /\ opened = Nothing
  <2>1. CASE address' = address
    BY <1>1, <2>1
  <2>2. CASE address' = screen /\ address.page # "profile"
    <3>1. address.page = "elsewhere"
      BY <1>2, <2>2 DEF Address
    <3> QED BY <1>1, <2>2, <3>1 DEF LinksInv, AddressInv
  <2>3. CASE address' = screen /\ expired /\ address.page = "profile"
    BY <1>1, <2>3
  <2> QED BY <1>3, <2>1, <2>2, <2>3
<1> QED BY <1>1, <1>4, <1>5, <1>6, MountsKeepLinks

\* The three ways to another page with no link, of which the restore is the fourth.
LEMMA LeavesKeepLinks ==
  ASSUME NoForm, LinksInv,
         \/ \E page \in {"profile", "elsewhere"} : Links!Go(page)
         \/ Links!LogOut
         \/ \E r \in requests : Links!LoggedIn(r)
  PROVE  LinksInv'
<1>1. ASSUME NEW page \in {"profile", "elsewhere"}, NEW s, NEW rs \in SUBSET requests,
             address' = [page |-> page, link |-> Nothing, expired |-> FALSE],
             opened' = Nothing, tokens' = tokens, Links!Mounts(address', s, rs)
      PROVE  LinksInv'
  <2> DEFINE a == [page |-> page, link |-> Nothing, expired |-> FALSE]
  <2>1. a \in Address /\ a.link = Nothing
    BY DEF Address
  <2>2. Links!Mounts(a, s, rs)
    BY <1>1
  <2> HIDE DEF a
  <2> QED BY <1>1, <2>1, <2>2, MountsKeepLinks DEF a
<1>2. ASSUME NEW page \in {"profile", "elsewhere"}, Links!Go(page) PROVE LinksInv'
  <2>1. /\ address' = [page |-> page, link |-> Nothing, expired |-> FALSE]
        /\ opened' = Nothing /\ tokens' = tokens /\ Links!Mounts(address', session, requests)
    BY <1>2 DEF Links!Go
  <2> QED BY <1>1, <2>1
<1>3. CASE Links!LogOut
  <2>1. /\ address' = [page |-> "elsewhere", link |-> Nothing, expired |-> FALSE]
        /\ opened' = Nothing /\ tokens' = tokens /\ Links!Mounts(address', "suppressed", requests)
    BY <1>3 DEF Links!LogOut
  <2> QED BY <1>1, <2>1
<1>4. ASSUME NEW r \in requests, Links!LoggedIn(r) PROVE LinksInv'
  <2>1. /\ address' = [page |-> "elsewhere", link |-> Nothing, expired |-> FALSE]
        /\ opened' = Nothing /\ tokens' = tokens /\ Links!Mounts(address', session, requests \ {r})
    BY <1>4 DEF Links!LoggedIn
  <2> QED BY <1>1, <2>1
<1> QED BY <1>2, <1>3, <1>4

LEMMA TakesKeepLinks ==
  ASSUME NoForm, LinksInv, Links!ReadReset \/ Links!ReadEmail
  PROVE  LinksInv'
<1>1. CASE Links!ReadReset
  <2> DEFINE f == [mode |-> "reset", token |-> TRUE, says |-> "nothing"]
  <2>1. /\ "reset" \in reading /\ reading' = reading \ {"reset"} /\ form' = f
        /\ address' = [address EXCEPT !.link = Nothing]
        /\ restoring' = restoring /\ email' = email /\ requests' = requests
        /\ tokens' = tokens /\ opened' = opened
    BY <1>1 DEF Links!ReadReset
  <2>2. f \in SignIn /\ f # Nothing
    <3>1. f \in SignIn
      BY DEF SignIn, Links!Mode
    <3> QED BY <3>1 DEF NoForm
  <2>3. /\ address' \in Address /\ address'.link = Nothing /\ address'.page = address.page
        /\ address'.expired = address.expired
    BY <2>1 DEF LinksInv, LinksType, Address
  <2>4. LinksType'
    BY <2>1, <2>2, <2>3 DEF LinksInv, LinksType
  <2>5. AddressInv'
    BY <2>1, <2>3 DEF LinksInv, AddressInv
  <2>6. AnswersInv'
    BY <2>1, <2>2 DEF LinksInv, AnswersInv
  <2>7. form' # Nothing /\ form'.mode = "reset" /\ form'.token /\ form'.says = "nothing"
    BY <2>1, <2>2
  <2>8. Links!LinksAreKept'
    <3>1. opened # Nothing => opened = "reset"
      BY <2>1 DEF LinksInv, AddressInv, NoForm, Links!Link
    <3> QED BY <2>1, <2>3, <2>7, <3>1 DEF LinksInv, Links!LinksAreKept, NoForm, Links!Link
  <2> QED BY <2>4, <2>5, <2>6, <2>8 DEF LinksInv
<1>2. CASE Links!ReadEmail
  <2>1. /\ "email" \in reading /\ reading' = reading \ {"email"}
        /\ email' = [email EXCEPT !.token = address.link = "email"]
        /\ restoring' = restoring /\ address' = address /\ form' = form /\ requests' = requests
        /\ tokens' = tokens /\ opened' = opened
    BY <1>2 DEF Links!ReadEmail
  <2>2. /\ email # Nothing => /\ email' \in Confirmation /\ email' # Nothing
                              /\ email'.says = email.says /\ email'.token = (address.link = "email")
    BY <2>1 DEF LinksInv, LinksType, Confirmation, NoForm
  <2>3. email # Nothing
    BY <2>1 DEF LinksInv, AddressInv
  <2>4. LinksType'
    BY <2>1, <2>2, <2>3 DEF LinksInv, LinksType
  <2>5. AddressInv'
    BY <2>1 DEF LinksInv, AddressInv
  <2>6. AnswersInv'
    BY <2>1, <2>2, <2>3 DEF LinksInv, AnswersInv
  <2>7. Links!LinksAreKept'
    BY <2>1, <2>2, <2>3 DEF LinksInv, Links!LinksAreKept, NoForm, Links!Link
  <2> QED BY <2>4, <2>5, <2>6, <2>7 DEF LinksInv
<1> QED BY <1>1, <1>2

\* What a form of sign-in or a confirmation becomes when only what it says changes.
LEMMA SayingKeepsShape ==
  ASSUME NEW f \in SignIn \cup Confirmation, NEW what
  PROVE  LET g == [f EXCEPT !.says = what]
         IN  /\ g.token = f.token /\ g.says = what
             /\ f \in SignIn /\ what \in {"nothing", "sent", "changed", "invalid", "failed"} =>
                  g \in SignIn /\ g.mode = f.mode
             /\ f \in Confirmation /\ what \in {"nothing", "invalid", "failed"} => g \in Confirmation
BY DEF SignIn, Confirmation

LEMMA SendsKeepLinks ==
  ASSUME NoForm, LinksInv,
         Links!SubmitAuth \/ Links!ConfirmEmailChange \/ \E m \in Links!Mode : Links!SwitchAuthMode(m)
  PROVE  LinksInv'
<1>1. CASE Links!SubmitAuth
  <2>1. /\ form # Nothing /\ form \in SignIn /\ form' = [form EXCEPT !.says = "nothing"]
        /\ requests' = requests \cup {[of |-> form.mode, at |-> "sent", heard |-> "form"]}
        /\ restoring' = restoring /\ address' = address /\ email' = email /\ reading' = reading
        /\ tokens' = tokens /\ opened' = opened
    BY <1>1 DEF Links!SubmitAuth, Links!Sends, LinksInv, LinksType
  <2>2. /\ form' \in SignIn /\ form' # Nothing /\ form'.token = form.token /\ form'.mode = form.mode
        /\ form'.says = "nothing"
    BY <2>1, SayingKeepsShape DEF NoForm
  <2>3. /\ form.mode \in Links!Mode /\ form.mode # "email"
        /\ [of |-> form.mode, at |-> "sent", heard |-> "form"] \in Links!Request
    BY <2>1 DEF SignIn, Links!Mode, Links!Request
  <2>4. LinksType'
    BY <2>1, <2>2, <2>3 DEF LinksInv, LinksType
  <2>5. AddressInv'
    BY <2>1, <2>2 DEF LinksInv, AddressInv
  <2>6. AnswersInv'
    BY <2>1, <2>2, <2>3 DEF LinksInv, AnswersInv
  <2>7. Links!LinksAreKept'
    BY <2>1, <2>2 DEF LinksInv, Links!LinksAreKept
  <2> QED BY <2>4, <2>5, <2>6, <2>7 DEF LinksInv
<1>2. CASE Links!ConfirmEmailChange
  <2> DEFINE q == [of |-> "email", at |-> "sent", heard |-> "form"]
  <2>1. /\ email # Nothing /\ email \in Confirmation /\ email' = [email EXCEPT !.says = "nothing"]
        /\ requests' = requests \cup {q}
        /\ restoring' = restoring /\ address' = address /\ form' = form /\ reading' = reading
        /\ tokens' = tokens /\ opened' = opened
    BY <1>2 DEF Links!ConfirmEmailChange, Links!Sends, LinksInv, LinksType
  <2>2. email' \in Confirmation /\ email' # Nothing /\ email'.token = email.token /\ email'.says = "nothing"
    BY <2>1, SayingKeepsShape DEF NoForm
  <2>3. q \in Links!Request
    BY DEF Links!Request
  <2>4. LinksType'
    BY <2>1, <2>2, <2>3 DEF LinksInv, LinksType
  <2>5. AddressInv'
    BY <2>1, <2>2 DEF LinksInv, AddressInv
  <2>6. AnswersInv'
    BY <2>1, <2>2 DEF LinksInv, AnswersInv
  <2>7. Links!LinksAreKept'
    BY <2>1, <2>2 DEF LinksInv, Links!LinksAreKept
  <2> QED BY <2>4, <2>5, <2>6, <2>7 DEF LinksInv
<1>3. ASSUME NEW m \in Links!Mode, Links!SwitchAuthMode(m)
      PROVE  LinksInv'
  <2>1. /\ form # Nothing /\ form \in SignIn /\ form' = [form EXCEPT !.mode = m, !.says = "nothing"]
        /\ m # "reset" /\ opened' = IF form.mode = "reset" THEN Nothing ELSE opened
        /\ requests' = requests
        /\ restoring' = restoring /\ address' = address /\ email' = email /\ reading' = reading
        /\ tokens' = tokens
    BY <1>3 DEF Links!SwitchAuthMode, LinksInv, LinksType
  <2>2. form' \in SignIn /\ form' # Nothing /\ form'.mode = m /\ form'.says = "nothing"
    BY <2>1 DEF SignIn, NoForm
  <2>3. opened' # Nothing => opened' = opened /\ form.mode # "reset"
    BY <2>1
  <2>4. LinksType'
    BY <2>1, <2>2 DEF LinksInv, LinksType
  <2>5. AddressInv'
    BY <2>1, <2>2 DEF LinksInv, AddressInv
  <2>6. AnswersInv'
    BY <2>1, <2>2 DEF LinksInv, AnswersInv
  <2>7. Links!LinksAreKept'
    BY <2>1, <2>2, <2>3 DEF LinksInv, Links!LinksAreKept, NoForm, Links!Link
  <2> QED BY <2>4, <2>5, <2>6, <2>7 DEF LinksInv
<1> QED BY <1>1, <1>2, <1>3

LEMMA LoadKeepsLinks ==
  ASSUME NoForm, LinksInv, NEW link \in Links!Link \cup {Nothing}, Links!Load(link)
  PROVE  LinksInv'
<1>1. /\ address' = IF link = address.link THEN address
                    ELSE [page |-> "profile", link |-> link, expired |-> FALSE]
      /\ opened' = link /\ form' = Nothing /\ email' = Nothing /\ reading' = {} /\ tokens' = tokens
      /\ requests' = {[r EXCEPT !.heard = "nobody"] : r \in requests}
      /\ link \in {address.link} \cup Links!Link
  BY DEF Links!Load
<1>2. /\ address' \in Address /\ address'.link = link
      /\ address'.page = "elsewhere" => address' = address
  BY <1>1 DEF LinksInv, LinksType, Address
<1>3. requests' \subseteq Links!Request /\ \A r \in requests' : r.heard = "nobody"
  BY <1>1 DEF LinksInv, LinksType, Links!Request
<1>4. \A r \in requests' : \E q \in requests : r.of = q.of /\ r.at = q.at
  BY <1>1 DEF LinksInv, LinksType, Links!Request
<1>5. LinksType'
  BY <1>1, <1>2, <1>3 DEF LinksInv, LinksType
<1>6. AddressInv'
  BY <1>1, <1>2 DEF LinksInv, AddressInv
<1>7. AnswersInv'
  BY <1>1, <1>3, <1>4 DEF LinksInv, AnswersInv
<1>8. Links!LinksAreKept'
  BY <1>1, <1>2 DEF Links!LinksAreKept
<1> QED BY <1>5, <1>6, <1>7, <1>8 DEF LinksInv

\* The server spends and voids tokens, and no token is usable again; a lost answer
\* says nothing.
LEMMA ServerKeepsLinks ==
  ASSUME NoForm, LinksInv,
         \/ \E r \in requests : Links!Serve(r) \/ Links!Lose(r)
         \/ Links!Elsewhere
  PROVE  LinksInv'
<1>1. /\ address' = address /\ restoring' = restoring /\ form' = form /\ email' = email
      /\ reading' = reading /\ opened' = opened
  BY DEF Links!Serve, Links!Lose, Links!Elsewhere
<1>2. /\ tokens' \in [Links!Link -> {"usable", "used", "void"}]
      /\ \A l \in Links!Link : /\ tokens'[l] = "usable" => tokens[l] = "usable"
                               /\ tokens[l] = "used" => tokens'[l] = "used"
  BY DEF Links!Serve, Links!Lose, Links!Elsewhere, LinksInv, LinksType
<1>3. /\ requests' \subseteq Links!Request
      /\ \A q \in requests' :
           \/ q \in requests
           \/ \E r \in requests : /\ q.of = r.of /\ q.heard = r.heard
                                  /\ q.of \in Links!Link /\ q.at = "refused" => tokens'[q.of] # "usable"
                                  /\ q.of = "reset" /\ q.at = "done" => tokens'["reset"] = "used"
  <2>1. ASSUME NEW r \in requests, NEW to \in {"done", "refused", "lost"}, Links!Moves(r, to),
               r.of \in Links!Link /\ to = "refused" => tokens'[r.of] # "usable",
               r.of = "reset" /\ to = "done" => tokens'["reset"] = "used"
        PROVE  <1>3!1 /\ <1>3!2
    <3>1. requests' = (requests \ {r}) \cup {[r EXCEPT !.at = to]}
      BY <2>1 DEF Links!Moves
    <3> DEFINE n == [r EXCEPT !.at = to]
    <3>2. n \in Links!Request /\ n.of = r.of /\ n.heard = r.heard /\ n.at = to
      BY DEF LinksInv, LinksType, Links!Request
    <3>3. requests \subseteq Links!Request
      BY DEF LinksInv, LinksType
    <3> HIDE DEF n
    <3>4. \A q \in requests' : q \in requests \/ q = n
      BY <3>1 DEF n
    <3> QED BY <2>1, <3>2, <3>3, <3>4
  <2>2. ASSUME NEW r \in requests, Links!Serve(r) PROVE <1>3!1 /\ <1>3!2
    <3>1. r.of \in {"login", "register", "forgot"} => r.of \notin Links!Link
      BY DEF Links!Link
    <3>2. tokens \in [Links!Link -> {"usable", "used", "void"}]
      BY DEF LinksInv, LinksType
    <3>3. CASE r.of \notin Links!Link
      BY <2>1, <2>2, <3>3 DEF Links!Serve, Links!Link
    <3>4. CASE r.of \in Links!Link /\ tokens[r.of] = "usable"
      <4>1. tokens' = [tokens EXCEPT ![r.of] = "used"] /\ Links!Moves(r, "done")
        BY <2>2, <3>1, <3>4 DEF Links!Serve
      <4> QED BY <2>1, <3>2, <3>4, <4>1
    <3>5. CASE r.of \in Links!Link /\ tokens[r.of] # "usable"
      <4>1. tokens' = tokens /\ Links!Moves(r, "refused")
        BY <2>2, <3>1, <3>5 DEF Links!Serve
      <4> QED BY <2>1, <3>5, <4>1
    <3> QED BY <3>3, <3>4, <3>5
  <2>3. ASSUME NEW r \in requests, Links!Lose(r) PROVE <1>3!1 /\ <1>3!2
    BY <2>1, <2>3 DEF Links!Lose
  <2>4. ASSUME Links!Elsewhere PROVE <1>3!1 /\ <1>3!2
    BY <2>4 DEF Links!Elsewhere, LinksInv, LinksType
  <2> QED BY <2>2, <2>3, <2>4
<1>4. LinksType'
  BY <1>1, <1>2, <1>3 DEF LinksInv, LinksType
<1>5. AddressInv'
  BY <1>1 DEF LinksInv, AddressInv
<1>6. "reset" \in Links!Link /\ "email" \in Links!Link
  BY DEF Links!Link
<1>7. AnswersInv'
  <2> SUFFICES ASSUME NEW q \in requests'
               PROVE  /\ q.heard = "form" => IF q.of = "email" THEN email' # Nothing ELSE form' # Nothing
                      /\ q.of \in Links!Link /\ q.at = "refused" => tokens'[q.of] # "usable"
                      /\ q.of = "reset" /\ q.at = "done" => tokens'["reset"] = "used"
    BY DEF AnswersInv
  <2>1. CASE q \in requests
    BY <1>1, <1>2, <1>6, <2>1 DEF LinksInv, AnswersInv
  <2>2. CASE q \notin requests
    BY <1>1, <1>3, <2>2 DEF LinksInv, AnswersInv
  <2> QED BY <2>1, <2>2
<1>8. Links!LinksAreKept'
  BY <1>1, <1>2, <1>6 DEF LinksInv, LinksType, Links!LinksAreKept
<1> QED BY <1>4, <1>5, <1>7, <1>8 DEF LinksInv

\* An answer is heard by the form that asked, while that form is there, and it is told
\* the truth of its token.
LEMMA AnswersKeepLinks ==
  ASSUME NoForm, LinksInv, NEW r \in requests,
         \/ Links!Ignored(r) \/ Links!MailSent(r) \/ Links!PasswordChanged(r)
         \/ Links!EmailChanged(r) \/ Links!Refused(r)
  PROVE  LinksInv'
<1>1. requests' = requests \ {r} /\ tokens' = tokens /\ r \in Links!Request
  BY DEF Links!Ignored, Links!MailSent, Links!PasswordChanged, Links!EmailChanged, Links!Refused, Links!Ends,
         LinksInv, LinksType
<1>2. /\ r.heard = "form" => IF r.of = "email" THEN email # Nothing ELSE form # Nothing
      /\ r.of \in Links!Link /\ r.at = "refused" => tokens[r.of] # "usable"
      /\ r.of = "reset" /\ r.at = "done" => tokens["reset"] = "used"
  BY DEF LinksInv, AnswersInv
<1>3. ASSUME form' = Nothing => form = Nothing, email' = Nothing => email = Nothing
      PROVE  AnswersInv'
  BY <1>1, <1>3 DEF LinksInv, AnswersInv
<1>4. form # Nothing => form \in SignIn
  BY DEF LinksInv, LinksType
<1>5. email # Nothing => email \in Confirmation
  BY DEF LinksInv, LinksType
\* Only what a form says changes.
<1> DEFINE says(f, g, bad) ==
      \/ g = f
      \/ /\ f # Nothing
         /\ \/ g = [f EXCEPT !.says = "failed"]
            \/ g = [f EXCEPT !.says = "invalid"] /\ bad
<1>6. ASSUME address' = address, restoring' = restoring, reading' = reading, opened' = opened,
             \/ says(form, form', tokens["reset"] # "usable")
             \/ form # Nothing /\ form' = [form EXCEPT !.says = "sent"],
             says(email, email', tokens["email"] # "usable")
      PROVE  LinksInv'
  <2>1. \/ form' = form
        \/ /\ form # Nothing /\ form' \in SignIn /\ form' # Nothing
           /\ form'.says \in {"sent", "failed"} \/ (form'.says = "invalid" /\ tokens["reset"] # "usable")
           /\ form'.token = form.token /\ form'.mode = form.mode
    <3>1. ASSUME NEW what \in {"sent", "failed", "invalid"}, form # Nothing,
                 form' = [form EXCEPT !.says = what]
          PROVE  /\ form' \in SignIn /\ form' # Nothing /\ form'.says = what
                 /\ form'.token = form.token /\ form'.mode = form.mode
      BY <1>4, <3>1, SayingKeepsShape DEF NoForm
    <3> QED BY <1>6, <3>1
  <2>2. \/ email' = email
        \/ /\ email # Nothing /\ email' \in Confirmation /\ email' # Nothing
           /\ email'.says = "failed" \/ (email'.says = "invalid" /\ tokens["email"] # "usable")
           /\ email'.token = email.token
    <3>1. ASSUME NEW what \in {"failed", "invalid"}, email # Nothing,
                 email' = [email EXCEPT !.says = what]
          PROVE  /\ email' \in Confirmation /\ email' # Nothing /\ email'.says = what
                 /\ email'.token = email.token
      BY <1>5, <3>1, SayingKeepsShape DEF NoForm
    <3> QED BY <1>6, <3>1
  <2>3. LinksType'
    BY <1>1, <1>6, <2>1, <2>2 DEF LinksInv, LinksType
  <2>4. AddressInv'
    BY <1>6, <2>1, <2>2 DEF LinksInv, AddressInv
  <2>5. AnswersInv'
    BY <1>3, <2>1, <2>2
  <2>6. Links!LinksAreKept'
    <3>1. /\ form' # Nothing <=> form # Nothing
          /\ form' # Nothing => form'.token = form.token /\ form'.mode = form.mode
          /\ form' # Nothing /\ form'.says = "changed" => form.says = "changed"
          /\ form' # Nothing /\ form'.says = "invalid" => form.says = "invalid" \/ tokens["reset"] # "usable"
      BY <1>6, <2>1
    <3>2. /\ email' # Nothing <=> email # Nothing
          /\ email' # Nothing => email'.token = email.token
          /\ email' # Nothing /\ email'.says = "invalid" =>
               email.says = "invalid" \/ tokens["email"] # "usable"
      BY <1>6, <2>2
    <3> QED BY <1>1, <1>6, <3>1, <3>2 DEF LinksInv, Links!LinksAreKept
  <2> QED BY <2>3, <2>4, <2>5, <2>6 DEF LinksInv
<1>7. CASE Links!Ignored(r)
  <2>1. /\ address' = address /\ restoring' = restoring /\ reading' = reading /\ opened' = opened
        /\ form' = form /\ email' = email
    BY <1>7 DEF Links!Ignored
  <2> QED BY <1>6, <2>1
<1>8. CASE Links!MailSent(r)
  <2>1. /\ address' = address /\ restoring' = restoring /\ reading' = reading /\ opened' = opened
        /\ email' = email /\ r.of = "forgot"
        /\ form' = IF r.heard = "form" THEN [form EXCEPT !.says = "sent"] ELSE form
    BY <1>8 DEF Links!MailSent, Links!Says
  <2>2. form' = form \/ (form # Nothing /\ form' = [form EXCEPT !.says = "sent"])
    BY <1>2, <2>1
  <2> QED BY <1>6, <2>1, <2>2
<1>9. CASE Links!Refused(r)
  <2>1. /\ address' = address /\ restoring' = restoring /\ reading' = reading /\ opened' = opened
        /\ r.at \in {"refused", "lost"}
    BY <1>9 DEF Links!Refused
  <2>2. CASE r.heard = "form" /\ r.of = "email"
    <3>1. form' = form /\ email' = Links!Failed(email, r) /\ email # Nothing
      BY <1>2, <1>9, <2>2 DEF Links!Refused
    <3>2. says(email, email', tokens["email"] # "usable")
      BY <1>2, <2>2, <3>1 DEF Links!Failed, Links!Link
    <3> HIDE DEF says
    <3>3. says(form, form', tokens["reset"] # "usable")
      BY <3>1 DEF says
    <3> QED BY <1>6, <2>1, <3>2, <3>3
  <2>3. CASE r.heard = "form" /\ r.of = "reset"
    <3>1. email' = email /\ form' = Links!Failed(form, r) /\ form # Nothing
      BY <1>2, <1>9, <2>3 DEF Links!Refused
    <3>2. says(form, form', tokens["reset"] # "usable")
      BY <1>2, <2>3, <3>1 DEF Links!Failed, Links!Link
    <3>3. says(email, email', tokens["email"] # "usable")
      BY <3>1
    <3> HIDE DEF says
    <3> QED BY <1>6, <2>1, <3>2, <3>3
  <2>4. CASE r.heard = "form" /\ r.of \notin {"reset", "email"}
    <3>1. email' = email /\ form' = [form EXCEPT !.says = "failed"] /\ form # Nothing
      BY <1>2, <1>9, <2>4 DEF Links!Refused, Links!Says
    <3> QED BY <1>6, <2>1, <3>1
  <2>5. CASE r.heard # "form"
    BY <1>6, <1>9, <2>1, <2>5 DEF Links!Refused
  <2> QED BY <2>2, <2>3, <2>4, <2>5
<1>10. CASE Links!PasswordChanged(r)
  <2> DEFINE f == [mode |-> "login", token |-> FALSE, says |-> "changed"]
  <2>1. /\ form' = IF r.heard = "form" THEN f ELSE form
        /\ address' = [address EXCEPT !.link = Nothing]
        /\ opened' = IF r.heard = "form" \/ address.link = opened THEN Nothing ELSE opened
        /\ restoring' = restoring /\ email' = email /\ reading' = reading
    BY <1>10 DEF Links!PasswordChanged
  <2>2. f \in SignIn /\ f # Nothing /\ f.says = "changed" /\ ~ f.token
    <3>1. f \in SignIn /\ f.says = "changed" /\ ~ f.token
      BY DEF SignIn, Links!Mode
    <3> QED BY <3>1 DEF NoForm
  <2>3. /\ address' \in Address /\ address'.link = Nothing /\ address'.page = address.page
        /\ address'.expired = address.expired
    BY <2>1 DEF LinksInv, LinksType, Address
  <2>4. tokens["reset"] = "used"
    BY <1>2, <1>10 DEF Links!PasswordChanged, Links!Done
  <2>5. r.heard = "form" => form # Nothing
    BY <1>2, <1>10 DEF Links!PasswordChanged
  <2>6. opened' # Nothing => opened' = opened /\ form' = form /\ address.link # opened
    BY <2>1
  <2>7. LinksType'
    BY <1>1, <2>1, <2>2, <2>3 DEF LinksInv, LinksType
  <2>8. AddressInv'
    <3>1. "reset" \in reading => form' # Nothing /\ opened' = Nothing
      BY <2>1, <2>2, <2>6 DEF LinksInv, AddressInv, NoForm, Links!Link
    <3> QED BY <2>1, <2>3, <2>6, <3>1 DEF LinksInv, AddressInv
  <2>9. AnswersInv'
    BY <1>3, <2>1, <2>2
  <2>10. Links!LinksAreKept'
    <3>1. opened' # Nothing => opened' \in Links!Link
      BY <2>7 DEF LinksType
    <3> QED BY <1>1, <2>1, <2>2, <2>3, <2>4, <2>6, <3>1 DEF LinksInv, Links!LinksAreKept, Links!Link, NoForm
  <2> QED BY <2>7, <2>8, <2>9, <2>10 DEF LinksInv
<1>11. CASE Links!EmailChanged(r)
  <2> DEFINE c == [token |-> FALSE, says |-> "nothing"]
  <2>1. /\ address' = [page |-> "profile", link |-> Nothing, expired |-> FALSE]
        /\ restoring' = FALSE /\ opened' = Nothing
        /\ form' = IF form = Nothing THEN Links!Blank ELSE form
        /\ email' = c
        /\ reading' = IF address.page = "profile" THEN reading ELSE {"email"}
    BY <1>11 DEF Links!EmailChanged
  <2>2. /\ Links!Blank \in SignIn /\ Links!Blank.says = "nothing" /\ ~ Links!Blank.token
        /\ Links!Blank # Nothing /\ c \in Confirmation /\ c # Nothing /\ c.says = "nothing"
    <3>1. Links!Blank \in SignIn /\ Links!Blank.says = "nothing" /\ ~ Links!Blank.token
      BY DEF Links!Blank, SignIn, Links!Mode
    <3>2. c \in Confirmation /\ c.says = "nothing"
      BY DEF Confirmation
    <3> QED BY <3>1, <3>2 DEF NoForm
  <2>3. LinksType'
    BY <1>1, <2>1, <2>2 DEF LinksInv, LinksType, Address, Links!Link
  <2>4. AddressInv'
    BY <2>1, <2>2 DEF LinksInv, AddressInv
  <2>5. AnswersInv'
    BY <1>3, <2>1, <2>2
  <2>6. Links!LinksAreKept'
    BY <1>1, <2>1, <2>2 DEF LinksInv, Links!LinksAreKept, NoForm, Links!Link
  <2> QED BY <2>3, <2>4, <2>5, <2>6 DEF LinksInv
<1> QED BY <1>7, <1>8, <1>9, <1>10, <1>11

LEMMA LinksKept == ASSUME NoForm, LinksInv, [Links!Next]_(Links!vars) PROVE LinksInv'
<1>1. CASE Links!Next
  BY <1>1, RestoreKeepsLinks, LeavesKeepLinks, TakesKeepLinks, SendsKeepLinks, LoadKeepsLinks,
     ServerKeepsLinks, AnswersKeepLinks DEF Links!Next
<1>2. CASE UNCHANGED Links!vars
  <2>1. /\ address' = address /\ restoring' = restoring /\ form' = form /\ email' = email
        /\ reading' = reading /\ requests' = requests /\ tokens' = tokens /\ opened' = opened
    BY <1>2 DEF Links!vars
  <2> QED BY <2>1 DEF LinksInv, LinksType, AddressInv, AnswersInv, Links!LinksAreKept
<1> QED BY <1>1, <1>2

\* lexigo-premium-app.tsx and email-change-confirmation.tsx: a link that was opened and
\* still works is in the address or in its form until the learner leaves it, and the
\* forms say "changed" and "invalid" only of what has been changed or is invalid -
\* through any number of requests, lost answers and reloads.
THEOREM OpenedLinksAreKept == ASSUME NoForm PROVE Spec => []LinksAreKept
<1> DEFINE I == part = "links" => LinksInv
<1>1. Init => I
  BY LinksInit DEF Init
<1>2. I /\ [Next]_vars => I'
  BY PartSteps, LinksKept
<1>3. I => LinksAreKept
  BY DEF LinksAreKept, LinksInv
<1> QED BY <1>1, <1>2, <1>3, PTL DEF Spec

-----------------------------------------------------------------------------
(* The diagnostic of a new learner                                         *)

\* The places of the diagnostic.
state == s1
items == s2
schedule == s3

USE DEF state, items, schedule

\* A diagnostic that was not started has no items, one that is completed has a mark
\* for each of them, and every word has its place in the schedule.
DiagnosticInv ==
  /\ state \in {"not_started", "in_progress", "completed", "skipped"}
  /\ DOMAIN items \subseteq Diagnostic!Word /\ DOMAIN schedule = Diagnostic!Word
  /\ state = "not_started" => DOMAIN items = {}
  /\ state = "completed" => Diagnostic!Unmarked(items) = {}

\* What a step may do to the marks and to the schedule.
Respects == Diagnostic!Stands /\ Diagnostic!Yields

LEMMA NothingMoves ==
  ASSUME DiagnosticInv, UNCHANGED <<state, items, schedule>>
  PROVE  DiagnosticInv' /\ Respects
  BY DEF DiagnosticInv, Respects, Diagnostic!Stands, Diagnostic!Yields, Diagnostic!Unmarked,
     Diagnostic!Word

LEMMA StartRespects ==
  ASSUME DiagnosticInv, NEW out, Diagnostic!StartOnboarding(out)
  PROVE  DiagnosticInv' /\ Respects
<1>1. CASE UNCHANGED <<state, items, schedule>>
  BY <1>1, NothingMoves
<1>2. CASE /\ state \notin {"in_progress", "completed"}
           /\ state' = "in_progress" /\ UNCHANGED schedule
           /\ items' = [w \in Diagnostic!Candidates |-> Nothing]
  <2>1. DiagnosticInv'
    BY <1>2 DEF DiagnosticInv, Diagnostic!Candidates, Diagnostic!Word
  <2>2. state = "skipped" \/ DOMAIN items = {}
    BY <1>2 DEF DiagnosticInv
  <2> QED BY <1>2, <2>1, <2>2 DEF Respects, Diagnostic!Stands, Diagnostic!Yields
<1> QED BY <1>1, <1>2 DEF Diagnostic!StartOnboarding, Diagnostic!serverVars

\* Only an item without a mark gets one.
LEMMA MarkRespects ==
  ASSUME DiagnosticInv, NEW w, NEW m, NEW out, Diagnostic!MarkOnboardingItem(w, m, out)
  PROVE  DiagnosticInv' /\ Respects
<1>1. CASE UNCHANGED <<state, items, schedule>>
  BY <1>1, NothingMoves
<1>2. CASE /\ state = "in_progress" /\ Diagnostic!Markable(w)
           /\ items' = [items EXCEPT ![w] = m] /\ UNCHANGED <<state, schedule>>
  <2>1. w \in DOMAIN items /\ items[w] = Nothing
    BY <1>2 DEF Diagnostic!Markable, Diagnostic!IsFirst, Diagnostic!Unmarked
  <2>2. DOMAIN items' = DOMAIN items /\ \A v \in DOMAIN items \ {w} : items'[v] = items[v]
    BY <1>2
  <2> QED BY <1>2, <2>1, <2>2
          DEF DiagnosticInv, Respects, Diagnostic!Stands, Diagnostic!Yields, Diagnostic!Unmarked,
              Diagnostic!Word
<1> QED BY <1>1, <1>2 DEF Diagnostic!MarkOnboardingItem, Diagnostic!serverVars

\* A word that was reviewed is not new any more.
LEMMA CompleteRespects ==
  ASSUME DiagnosticInv, NEW out, Diagnostic!CompleteOnboarding(out)
  PROVE  DiagnosticInv' /\ Respects
<1>1. CASE UNCHANGED <<state, items, schedule>>
  BY <1>1, NothingMoves
<1>2. CASE /\ Diagnostic!Unmarked(items) = {} /\ state' = "completed" /\ UNCHANGED items
           /\ schedule' = [w \in Diagnostic!Word |->
                             IF w \in DOMAIN items THEN Diagnostic!Initialized(w, items[w]) ELSE schedule[w]]
  <2>1. DiagnosticInv'
    BY <1>2 DEF DiagnosticInv, Diagnostic!Unmarked, Diagnostic!Word
  <2>2. Diagnostic!Stands
    BY <1>2 DEF Diagnostic!Stands, Diagnostic!Unmarked
  <2>3. Diagnostic!Yields
    BY <1>2 DEF Diagnostic!Yields, Diagnostic!Initialized
  <2> QED BY <2>1, <2>2, <2>3 DEF Respects
<1> QED BY <1>1, <1>2 DEF Diagnostic!CompleteOnboarding, Diagnostic!serverVars

LEMMA SkipRespects ==
  ASSUME DiagnosticInv, NEW out, Diagnostic!SkipOnboarding(out)
  PROVE  DiagnosticInv' /\ Respects
  BY DEF Diagnostic!SkipOnboarding, DiagnosticInv, Respects, Diagnostic!Stands, Diagnostic!Yields,
     Diagnostic!Unmarked, Diagnostic!Word

LEMMA WordsRespect ==
  ASSUME DiagnosticInv, NEW w \in Diagnostic!Word,
         Diagnostic!ReviewWord(w) \/ Diagnostic!DeleteCustomWord(w)
  PROVE  DiagnosticInv' /\ Respects
<1>1. CASE Diagnostic!ReviewWord(w)
  BY <1>1 DEF Diagnostic!ReviewWord, DiagnosticInv, Respects, Diagnostic!Stands, Diagnostic!Yields,
     Diagnostic!Unmarked, Diagnostic!Word
<1>2. CASE Diagnostic!DeleteCustomWord(w)
  BY <1>2 DEF Diagnostic!DeleteCustomWord, DiagnosticInv, Respects, Diagnostic!Stands,
     Diagnostic!Yields, Diagnostic!Unmarked, Diagnostic!Word
<1> QED BY <1>1, <1>2

LEMMA DiagnosticRespects ==
  ASSUME DiagnosticInv, [Diagnostic!Next]_(Diagnostic!vars)
  PROVE  DiagnosticInv' /\ Respects
<1>1. CASE UNCHANGED <<state, items, schedule>>
  BY <1>1, NothingMoves
<1>2. ASSUME NEW t \in Tab, NEW i, Diagnostic!Commit(t, i)
      PROVE  DiagnosticInv' /\ Respects
  BY <1>2, StartRespects, MarkRespects, CompleteRespects, SkipRespects DEF Diagnostic!Commit
<1>3. ASSUME NEW t \in Tab, NEW i,
             Diagnostic!ReadStatus(t, i) \/ Diagnostic!Answer(t, i) \/ Diagnostic!Fail(t, i)
      PROVE  UNCHANGED <<state, items, schedule>>
  BY <1>3 DEF Diagnostic!ReadStatus, Diagnostic!Answer, Diagnostic!Fail, Diagnostic!serverVars
<1>4. ASSUME NEW t \in Tab,
             \/ \E m \in Diagnostic!Mark : Diagnostic!SelectMark(t, m)
             \/ Diagnostic!Reload(t) \/ Diagnostic!StartDiagnostic(t) \/ Diagnostic!SaveMark(t)
             \/ Diagnostic!ContinueAfterReveal(t) \/ Diagnostic!CompleteDiagnostic(t)
             \/ Diagnostic!LoadStatus(t) \/ Diagnostic!AskToSkip(t) \/ Diagnostic!KeepDiagnostic(t)
             \/ Diagnostic!SkipDiagnostic(t) \/ Diagnostic!Retry(t)
      PROVE  UNCHANGED <<state, items, schedule>>
  BY <1>4 DEF Diagnostic!SelectMark, Diagnostic!Reload, Diagnostic!StartDiagnostic, Diagnostic!SaveMark,
     Diagnostic!ContinueAfterReveal, Diagnostic!CompleteDiagnostic, Diagnostic!LoadStatus,
     Diagnostic!AskToSkip, Diagnostic!KeepDiagnostic, Diagnostic!SkipDiagnostic, Diagnostic!Retry,
     Diagnostic!Sends, Diagnostic!Sets, Diagnostic!serverVars
<1>5. CASE UNCHANGED Diagnostic!vars
  BY <1>1, <1>5 DEF Diagnostic!vars
<1> QED BY <1>1, <1>2, <1>3, <1>4, <1>5, WordsRespect DEF Diagnostic!Next

\* onboarding.go, MarkOnboardingItem and CompleteOnboarding: the first mark of a word
\* stands until the diagnostic is started anew, a completed one has a mark for each
\* of its words, and no mark takes the place of a review - for any number of words,
\* tabs, requests, lost answers and deletions.
THEOREM FirstMarksStand == Spec => MarksAreKept
<1> DEFINE I == part = "diagnostic" => DiagnosticInv
<1>1. Init => I
  <2>1. Diagnostic!Init => DiagnosticInv
    BY DEF Diagnostic!Init, DiagnosticInv
  <2> QED BY <2>1 DEF Init
<1>2. I /\ [Next]_vars => I'
  BY PartSteps, DiagnosticRespects
<1>3. I /\ [Next]_vars => [part = "diagnostic" => Diagnostic!Stands /\ Diagnostic!Yields]_vars
  BY PartSteps, DiagnosticRespects DEF Respects
<1> QED BY <1>1, <1>2, <1>3, PTL DEF Spec, MarksAreKept

-----------------------------------------------------------------------------
(* The routes                                                              *)

\* The places of the routes.
entries == s1
current == s2
scroll == s3
snapshots == s4
persisted == s5
lesson == s6
guarded == s7
request == s8
asked == s10
boundary == s11
chosen == s13
pressed == s14

USE DEF entries, current, scroll, snapshots, persisted, lesson, guarded, request, asked, boundary,
        chosen, pressed

RouteEntry == Routes!Entry

\* A history whose entry i is of view v.
HistoryAt(es, i, v) ==
  es \in Seq(RouteEntry) /\ i \in Nat /\ i \in DOMAIN es /\ v \in Routes!View /\ es[i].view = v

\* The return to a place goes on while the learner has not scrolled.
Returns(b, scrolled) ==
  /\ b \in Routes!Arrival
  /\ b.at = "restoring" => ~ b.interrupted
  /\ b.at # "none" /\ ~ b.interrupted => scrolled = Nothing

ReturnInv == Returns(boundary, chosen)

\* The shape of the state; a request to leave was made in this lesson.
RouteInv ==
  /\ HistoryAt(entries, current, Routes!Location)
  /\ scroll \in Scroll /\ snapshots \in [Routes!Section -> Scroll]
  /\ persisted \in Routes!Section \cup {Nothing}
  /\ guarded \in BOOLEAN /\ pressed \in BOOLEAN /\ asked \in BOOLEAN
  /\ request => pressed
  /\ ReturnInv
  /\ Routes!RouteIsTheLearners

\* A return begins, goes on while the learner does not scroll, and is over.
LEMMA ReturnSteps ==
  ASSUME 0 \in Scroll
  PROVE  /\ \A c : Returns(Routes!Settled, c) /\ Routes!Settled.at = "none"
         /\ \A v \in Routes!View, to \in Scroll :
              Returns([at |-> "discovering", view |-> v, scroll |-> to, interrupted |-> FALSE], Nothing)
         /\ \A b, c : Returns(b, c) /\ b.at = "discovering" =>
              /\ \A d : LET n == [b EXCEPT !.interrupted = TRUE]
                       IN  Returns(n, d) /\ n.view = b.view
              /\ ~ b.interrupted => LET n == [b EXCEPT !.at = "restoring"]
                                   IN  Returns(n, c) /\ n.view = b.view
<1>1. "home" \in Routes!View
  BY DEF Routes!View, Routes!Section
<1>2. \A c : Returns(Routes!Settled, c) /\ Routes!Settled.at = "none"
  BY <1>1 DEF Returns, Routes!Arrival, Routes!Settled
<1>3. \A v \in Routes!View, to \in Scroll :
        Returns([at |-> "discovering", view |-> v, scroll |-> to, interrupted |-> FALSE], Nothing)
  BY DEF Returns, Routes!Arrival
<1>4. ASSUME NEW b, NEW c, Returns(b, c), b.at = "discovering"
      PROVE  \A d : LET n == [b EXCEPT !.interrupted = TRUE] IN Returns(n, d) /\ n.view = b.view
  BY <1>4 DEF Returns, Routes!Arrival
<1>5. ASSUME NEW b, NEW c, Returns(b, c), b.at = "discovering", ~ b.interrupted
      PROVE  LET n == [b EXCEPT !.at = "restoring"] IN Returns(n, c) /\ n.view = b.view
  BY <1>5 DEF Returns, Routes!Arrival
<1> QED BY <1>2, <1>3, <1>4, <1>5

\* The history with its entry i replaced.
LEMMA ReplacedHistory ==
  ASSUME NEW es \in Seq(RouteEntry), NEW i \in DOMAIN es, NEW e \in RouteEntry
  PROVE  /\ [es EXCEPT ![i] = e] \in Seq(RouteEntry)
         /\ DOMAIN [es EXCEPT ![i] = e] = DOMAIN es
         /\ Len([es EXCEPT ![i] = e]) = Len(es)
         /\ \A j \in DOMAIN es : [es EXCEPT ![i] = e][j] = IF j = i THEN e ELSE es[j]
<1>1. PICK fs : fs = [es EXCEPT ![i] = e]
  OBVIOUS
<1>2. es \in [1 .. Len(es) -> RouteEntry] /\ Len(es) \in Nat /\ DOMAIN es = 1 .. Len(es)
  OBVIOUS
<1>3. fs \in [1 .. Len(es) -> RouteEntry]
  BY <1>1, <1>2
<1>4. fs \in Seq(RouteEntry) /\ Len(fs) = Len(es)
  BY <1>2, <1>3
<1> QED BY <1>1, <1>2, <1>3, <1>4

\* The history up to entry i, and one more.
LEMMA ExtendedHistory ==
  ASSUME NEW es \in Seq(RouteEntry), NEW i \in DOMAIN es, NEW e \in RouteEntry
  PROVE  HistoryAt(Append(SubSeq(es, 1, i), e), i + 1, e.view)
<1>1. i \in 1 .. Len(es) /\ Len(es) \in Nat
  OBVIOUS
<1>2. SubSeq(es, 1, i) \in Seq(RouteEntry) /\ Len(SubSeq(es, 1, i)) = i
  BY <1>1
<1>3. PICK b : b = SubSeq(es, 1, i)
  OBVIOUS
<1>4. Append(b, e) \in Seq(RouteEntry) /\ Len(Append(b, e)) = i + 1 /\ Append(b, e)[i + 1] = e
  BY <1>1, <1>2, <1>3
<1>5. e.view \in Routes!View
  BY DEF RouteEntry, Routes!Entry
<1> QED BY <1>1, <1>3, <1>4, <1>5 DEF HistoryAt

\* A navigation goes on from the entry that is shown.
LEMMA PushedHistory ==
  ASSUME RouteInv, NEW left \in Scroll, NEW e \in RouteEntry
  PROVE  HistoryAt(Routes!Pushed(left, e), current + 1, e.view)
<1>1. entries \in Seq(RouteEntry) /\ current \in 1 .. Len(entries) /\ Len(entries) \in Nat
  BY DEF RouteInv, HistoryAt
<1>2. PICK b : b = SubSeq(entries, 1, current)
  OBVIOUS
<1>3. b \in Seq(RouteEntry) /\ Len(b) = current /\ current \in DOMAIN b
  BY <1>1, <1>2
<1>4. PICK f : f = [b[current] EXCEPT !.scroll = left]
  OBVIOUS
<1>5. f \in RouteEntry
  <2>1. b[current] \in RouteEntry
    BY <1>3
  <2> QED BY <1>4, <2>1 DEF RouteEntry, Routes!Entry
<1>6. PICK fs : fs = [b EXCEPT ![current] = f]
  OBVIOUS
<1>7. fs = [b EXCEPT ![current].scroll = left]
  BY <1>4, <1>6
<1>8. fs \in Seq(RouteEntry) /\ Len(fs) = current
  BY <1>3, <1>5, <1>6, ReplacedHistory
<1>9. Append(fs, e) \in Seq(RouteEntry) /\ Len(Append(fs, e)) = current + 1 /\ Append(fs, e)[current + 1] = e
  BY <1>1, <1>8
<1>10. e.view \in Routes!View
  BY DEF RouteEntry, Routes!Entry
<1>11. Routes!Pushed(left, e) = Append(fs, e)
  BY <1>2, <1>7 DEF Routes!Pushed
<1>12. PICK g : g = Append(fs, e)
  OBVIOUS
<1>13. g \in Seq(RouteEntry) /\ current + 1 \in 1 .. Len(g) /\ DOMAIN g = 1 .. Len(g) /\ g[current + 1] = e
  BY <1>1, <1>9, <1>12
<1> QED BY <1>1, <1>10, <1>11, <1>12, <1>13 DEF HistoryAt

\* Wherever a path leads, what comes with it is of that path.
LEMMA ArrivalKeepsRoutes ==
  ASSUME 0 \in Scroll, RouteInv, NEW v \in Routes!View, HistoryAt(entries', current', v),
         NEW from, NEW e \in RouteEntry, e.view = v, NEW stays \in [Routes!Section -> Scroll],
         Routes!Arrives(from, e, stays), Routes!Shows(v),
         snapshots' \in [Routes!Section -> Scroll], request' => pressed', pressed' \in BOOLEAN,
         asked /\ v = "lesson" => pressed'
  PROVE  RouteInv'
<1>1. Routes!Location' = v
  BY DEF HistoryAt, Routes!Location
<1>2. chosen' = Nothing /\ (boundary'.at # "none" => boundary'.view = v) /\ scroll' \in Scroll
      /\ persisted' \in Routes!Section \cup {Nothing}
  BY DEF Routes!Arrives, Routes!Settled
<1>3. /\ lesson' # "none" <=> v = "lesson"
      /\ guarded' \in BOOLEAN /\ (v = "lesson" => guarded')
      /\ asked' = (asked /\ v = "lesson")
  BY DEF Routes!Shows, RouteInv
<1>4. ReturnInv'
  <2>1. Routes!Destination(e, stays) \in Scroll
    BY DEF Routes!Destination, RouteEntry, Routes!Entry
  <2>2. PICK place : place = Routes!Destination(e, stays)
    OBVIOUS
  <2>3. boundary' = Routes!Settled
        \/ boundary' = [at |-> "discovering", view |-> v, scroll |-> place, interrupted |-> FALSE]
    BY <2>2 DEF Routes!Arrives
  <2> QED BY <1>2, <2>1, <2>2, <2>3, ReturnSteps DEF ReturnInv
<1> QED BY <1>1, <1>2, <1>3, <1>4 DEF RouteInv, Routes!RouteIsTheLearners, HistoryAt

\* The path stays.
LEMMA PathKeepsRoutes ==
  ASSUME RouteInv, UNCHANGED <<entries, current, snapshots, persisted, guarded, pressed>>,
         request' => request, lesson' # "none" <=> lesson # "none",
         asked' \in BOOLEAN, asked' => asked \/ (request /\ Routes!Location = "lesson"),
         scroll' \in Scroll, chosen' # Nothing => scroll' = chosen', ReturnInv',
         boundary'.at # "none" => boundary.at # "none" /\ boundary'.view = boundary.view
  PROVE  RouteInv'
<1>1. Routes!Location' = Routes!Location
  BY DEF Routes!Location
<1> QED BY <1>1 DEF RouteInv, Routes!RouteIsTheLearners, HistoryAt

\* The navigations of the learner.
LEMMA OpeningKeepsRoutes ==
  ASSUME 0 \in Scroll, RouteInv,
         \/ \E v \in Routes!View : Routes!OpenLink(v) \/ \E replace \in BOOLEAN : Routes!LeaveLesson(v, replace)
         \/ Routes!OpenLesson
  PROVE  RouteInv'
<1>1. ASSUME NEW v \in Routes!View, Routes!OpenLink(v) PROVE RouteInv'
  <2> DEFINE stays == IF Routes!Location \in Routes!Section
                      THEN [snapshots EXCEPT ![Routes!Location] = scroll] ELSE snapshots
             e == [view |-> v, scroll |-> IF v \in Routes!Section THEN stays[v] ELSE 0]
  <2>1. stays \in [Routes!Section -> Scroll] /\ scroll \in Scroll
    BY DEF RouteInv
  <2>2. e \in RouteEntry /\ e.view = v
    BY <2>1 DEF RouteEntry, Routes!Entry
  <2>3. /\ v # "lesson"
        /\ snapshots' = stays /\ entries' = Routes!Pushed(scroll, e) /\ current' = current + 1
        /\ Routes!Arrives(Routes!Location, e, stays) /\ Routes!Shows(v)
        /\ request' = request /\ pressed' = pressed
    BY <1>1 DEF Routes!OpenLink
  <2>4. HistoryAt(entries', current', v)
    BY <2>1, <2>2, <2>3, PushedHistory
  <2> HIDE DEF stays, e
  <2> QED BY <2>1, <2>2, <2>3, <2>4, ArrivalKeepsRoutes DEF RouteInv
<1>2. ASSUME NEW v \in Routes!View, NEW replace \in BOOLEAN, Routes!LeaveLesson(v, replace) PROVE RouteInv'
  <2> DEFINE e == [view |-> v, scroll |-> 0]
  <2>1. e \in RouteEntry /\ e.view = v
    BY DEF RouteEntry, Routes!Entry
  <2>2. /\ v # "lesson"
        /\ \/ entries' = [entries EXCEPT ![current] = e] /\ current' = current
           \/ entries' = Routes!Pushed(entries[current].scroll, e) /\ current' = current + 1
        /\ Routes!Arrives("lesson", e, snapshots) /\ Routes!Shows(v)
        /\ request' = request /\ pressed' = pressed /\ snapshots' = snapshots
    BY <1>2 DEF Routes!LeaveLesson
  <2>3. entries \in Seq(RouteEntry) /\ current \in Nat /\ current \in DOMAIN entries
    BY DEF RouteInv, HistoryAt
  <2>4. entries[current].scroll \in Scroll
    <3>1. entries[current] \in RouteEntry
      BY <2>3
    <3> QED BY <3>1 DEF RouteEntry, Routes!Entry
  <2> HIDE DEF e
  <2>5. HistoryAt(entries', current', v)
    <3>1. CASE entries' = [entries EXCEPT ![current] = e] /\ current' = current
      BY <2>1, <2>3, <3>1, ReplacedHistory DEF HistoryAt
    <3>2. CASE entries' = Routes!Pushed(entries[current].scroll, e) /\ current' = current + 1
      BY <2>1, <2>4, <3>2, PushedHistory
    <3> QED BY <2>2, <3>1, <3>2
  <2> QED BY <2>1, <2>2, <2>5, ArrivalKeepsRoutes DEF RouteInv
<1>3. ASSUME Routes!OpenLesson PROVE RouteInv'
  <2> DEFINE e == [view |-> "lesson", scroll |-> 0]
  <2>1. e \in RouteEntry /\ e.view = "lesson" /\ "lesson" \in Routes!View
    BY DEF RouteEntry, Routes!Entry, Routes!View
  <2>2. /\ Routes!Location # "lesson"
        /\ entries' = Routes!Pushed(entries[current].scroll, e) /\ current' = current + 1
        /\ Routes!Arrives(Routes!Location, e, snapshots) /\ Routes!Shows("lesson")
        /\ request' = FALSE /\ pressed' = FALSE /\ snapshots' = snapshots
    BY <1>3 DEF Routes!OpenLesson
  <2>3. entries[current].scroll \in Scroll
    <3>1. entries \in Seq(RouteEntry) /\ current \in DOMAIN entries
      BY DEF RouteInv, HistoryAt
    <3>2. entries[current] \in RouteEntry
      BY <3>1
    <3> QED BY <3>2 DEF RouteEntry, Routes!Entry
  <2> HIDE DEF e
  <2>4. HistoryAt(entries', current', "lesson")
    BY <2>1, <2>2, <2>3, PushedHistory
  <2>5. ~ asked
    BY <2>2 DEF RouteInv, Routes!RouteIsTheLearners
  <2> QED BY <2>1, <2>2, <2>4, <2>5, ArrivalKeepsRoutes DEF RouteInv
<1> QED BY <1>1, <1>2, <1>3

\* Back and forward: while the guard is up the lesson is put back and asks.
LEMMA TraverseKeepsRoutes ==
  ASSUME 0 \in Scroll, RouteInv, NEW i \in Nat, Routes!Traverse(i)
  PROVE  RouteInv'
<1>1. /\ entries \in Seq(RouteEntry) /\ i \in DOMAIN entries /\ entries[i] \in RouteEntry
      /\ snapshots' = snapshots /\ "lesson" \in Routes!View
  <2>1. entries \in Seq(RouteEntry)
    BY DEF RouteInv, HistoryAt
  <2>2. i \in DOMAIN entries /\ snapshots' = snapshots
    BY DEF Routes!Traverse
  <2> QED BY <2>1, <2>2 DEF Routes!View
<1>2. CASE guarded
  <2> DEFINE e == [view |-> "lesson", scroll |-> 0]
  <2>1. e \in RouteEntry /\ e.view = "lesson"
    BY DEF RouteEntry, Routes!Entry, Routes!View
  <2>2. /\ \/ entries[i].view = "lesson" /\ current' = i /\ entries' = entries
           \/ current' = i + 1 /\ entries' = Append(SubSeq(entries, 1, i), e)
        /\ request' = TRUE /\ pressed' = TRUE
        /\ \/ /\ Routes!Location = "lesson"
              /\ UNCHANGED <<scroll, persisted, lesson, guarded, asked, boundary, chosen>>
           \/ Routes!Location # "lesson" /\ Routes!Arrives(Routes!Location, e, snapshots) /\ Routes!Shows("lesson")
    BY <1>2 DEF Routes!Traverse
  <2> HIDE DEF e
  <2>3. HistoryAt(entries', current', "lesson")
    <3>1. CASE entries[i].view = "lesson" /\ current' = i /\ entries' = entries
      BY <1>1, <3>1 DEF HistoryAt
    <3>2. CASE current' = i + 1 /\ entries' = Append(SubSeq(entries, 1, i), e)
      BY <1>1, <2>1, <3>2, ExtendedHistory
    <3> QED BY <2>2, <3>1, <3>2
  <2>4. CASE /\ Routes!Location = "lesson"
             /\ UNCHANGED <<scroll, persisted, lesson, guarded, asked, boundary, chosen>>
    <3>1. Routes!Location' = "lesson"
      BY <2>3 DEF HistoryAt, Routes!Location
    <3>2. ReturnInv'
      BY <2>4 DEF RouteInv, ReturnInv
    <3> QED BY <1>1, <2>2, <2>3, <2>4, <3>1, <3>2 DEF RouteInv, Routes!RouteIsTheLearners
  <2>5. CASE /\ Routes!Location # "lesson" /\ Routes!Arrives(Routes!Location, e, snapshots)
             /\ Routes!Shows("lesson")
    BY <1>1, <2>1, <2>2, <2>3, <2>5, ArrivalKeepsRoutes DEF RouteInv
  <2> QED BY <2>2, <2>4, <2>5
<1>3. CASE ~ guarded
  <2> DEFINE e == [entries[i] EXCEPT !.scroll = 0]
  <2>1. e \in RouteEntry /\ e.view = entries[i].view /\ entries[i].view \in Routes!View
    BY <1>1 DEF RouteEntry, Routes!Entry
  <2>2. /\ current' = i /\ entries' = [entries EXCEPT ![i] = e]
        /\ Routes!Arrives(Routes!Location, entries[i], snapshots) /\ Routes!Shows(entries[i].view)
        /\ request' = request /\ pressed' = pressed
    BY <1>3 DEF Routes!Traverse
  <2> HIDE DEF e
  <2>3. HistoryAt(entries', current', entries[i].view)
    BY <1>1, <2>1, <2>2, ReplacedHistory DEF HistoryAt
  <2>4. asked => pressed
    BY DEF RouteInv, Routes!RouteIsTheLearners
  <2> QED BY <1>1, <2>1, <2>2, <2>3, <2>4, ArrivalKeepsRoutes DEF RouteInv
<1> QED BY <1>2, <1>3 DEF RouteInv

LEMMA RelaunchKeepsRoutes == ASSUME 0 \in Scroll, RouteInv, Routes!Relaunch PROVE RouteInv'
<1>1. PICK v \in Routes!Section :
        /\ entries' = <<[view |-> v, scroll |-> 0]>> /\ current' = 1
        /\ persisted' = v
        /\ boundary'.at # "none" => boundary'.view = v
        /\ \/ boundary' = Routes!Settled
           \/ boundary' = [at |-> "discovering", view |-> v, scroll |-> 0, interrupted |-> FALSE]
  BY DEF Routes!Relaunch, RouteInv, Routes!Section, Routes!Settled
<1>2. /\ snapshots' = [s \in Routes!Section |-> 0]
      /\ scroll' = 0 /\ lesson' = "none" /\ guarded' = FALSE /\ request' = FALSE /\ asked' = FALSE
      /\ chosen' = Nothing /\ pressed' = FALSE
  BY DEF Routes!Relaunch
<1>3. HistoryAt(entries', current', v) /\ v # "lesson"
  <2>1. PICK e : e = [view |-> v, scroll |-> 0]
    OBVIOUS
  <2>2. e \in RouteEntry /\ e.view = v /\ v \in Routes!View /\ v # "lesson"
    BY <2>1 DEF RouteEntry, Routes!Entry, Routes!View, Routes!Section
  <2> QED BY <1>1, <2>1, <2>2 DEF HistoryAt
<1>4. Routes!Location' = v
  BY <1>3 DEF HistoryAt, Routes!Location
<1>5. ReturnInv'
  <2>1. v \in Routes!View
    BY DEF Routes!View
  <2>2. \/ boundary' = Routes!Settled
        \/ boundary' = [at |-> "discovering", view |-> v, scroll |-> 0, interrupted |-> FALSE]
    BY <1>1
  <2> QED BY <1>2, <2>1, <2>2, ReturnSteps DEF ReturnInv
<1> QED BY <1>1, <1>2, <1>3, <1>4, <1>5 DEF RouteInv, Routes!RouteIsTheLearners

\* What happens while the path stays.
LEMMA StayKeepsRoutes ==
  ASSUME 0 \in Scroll, RouteInv,
         \/ Routes!LessonMounts \/ Routes!GuardDrops \/ Routes!DeliverExit \/ Routes!CancelExit
         \/ Routes!Discover \/ Routes!Restore
         \/ \E to \in Scroll : Routes!Interrupt(to)
  PROVE  RouteInv'
<1>1. /\ scroll \in Scroll /\ asked \in BOOLEAN /\ ReturnInv
      /\ (chosen # Nothing => scroll = chosen)
      /\ boundary \in Routes!Arrival /\ boundary.scroll \in Scroll
      /\ (boundary.at = "restoring" => chosen = Nothing)
  <2>1. Returns(boundary, chosen)
    BY DEF RouteInv, ReturnInv
  <2>2. boundary \in Routes!Arrival /\ (boundary.at = "restoring" => chosen = Nothing)
    BY <2>1 DEF Returns
  <2>3. boundary.scroll \in Scroll
    BY <2>2 DEF Routes!Arrival
  <2> QED BY <2>1, <2>2, <2>3 DEF RouteInv, ReturnInv, Routes!RouteIsTheLearners
<1>2. UNCHANGED <<boundary, chosen>> => ReturnInv'
  BY <1>1 DEF ReturnInv
<1>3. CASE Routes!LessonMounts
  BY <1>1, <1>2, <1>3, PathKeepsRoutes DEF Routes!LessonMounts
<1>4. CASE Routes!GuardDrops
  <2>1. Routes!Location' = Routes!Location
    BY <1>4 DEF Routes!GuardDrops, Routes!Location
  <2> QED BY <1>2, <1>4, <2>1 DEF Routes!GuardDrops, RouteInv, Routes!RouteIsTheLearners, HistoryAt
<1>5. CASE Routes!DeliverExit
  <2>1. /\ UNCHANGED <<entries, current, scroll, snapshots, persisted, lesson, guarded, boundary, chosen,
                       pressed>>
        /\ request' => request
        /\ asked' \in BOOLEAN /\ (asked' => asked \/ (request /\ Routes!Location = "lesson"))
    <3>1. CASE UNCHANGED <<asked, request>>
      BY <1>1, <1>5, <3>1 DEF Routes!DeliverExit
    <3>2. CASE Routes!Location = "lesson" /\ asked' = TRUE /\ request' = FALSE
      BY <1>5, <3>2 DEF Routes!DeliverExit
    <3> QED BY <1>5, <3>1, <3>2 DEF Routes!DeliverExit
  <2> QED BY <1>1, <1>2, <2>1, PathKeepsRoutes
<1>6. CASE Routes!CancelExit
  BY <1>1, <1>2, <1>6, PathKeepsRoutes DEF Routes!CancelExit
<1>7. CASE Routes!Discover
  <2>1. UNCHANGED <<entries, current, scroll, snapshots, persisted, lesson, guarded, request, asked,
                    chosen, pressed>>
    BY <1>7 DEF Routes!Discover
  <2>2. /\ boundary.at = "discovering"
        /\ \/ boundary' = Routes!Settled
           \/ ~ boundary.interrupted /\ boundary' = [boundary EXCEPT !.at = "restoring"]
    BY <1>7 DEF Routes!Discover, Routes!Announces
  <2>3. ReturnInv' /\ (boundary'.at # "none" => boundary.at # "none" /\ boundary'.view = boundary.view)
    BY <1>1, <2>1, <2>2, ReturnSteps DEF ReturnInv
  <2> QED BY <1>1, <2>1, <2>3, PathKeepsRoutes
<1>8. CASE Routes!Restore
  <2>1. UNCHANGED <<entries, current, snapshots, persisted, lesson, guarded, request, asked,
                    chosen, pressed>>
    BY <1>8 DEF Routes!Restore
  <2>2. /\ boundary.at = "restoring" /\ scroll' \in Scroll
        /\ boundary' = Routes!Settled \/ boundary' = boundary
    BY <1>1, <1>8 DEF Routes!Restore, Routes!Announces, Routes!Arrival
  <2>3. chosen' = Nothing
    BY <1>1, <2>1, <2>2 DEF ReturnInv
  <2>4. ReturnInv' /\ (boundary'.at # "none" => boundary.at # "none" /\ boundary'.view = boundary.view)
    <3>1. CASE boundary' = boundary
      BY <1>2, <2>1, <3>1
    <3>2. CASE boundary' = Routes!Settled
      BY <3>2, ReturnSteps DEF ReturnInv
    <3> QED BY <2>2, <3>1, <3>2
  <2> QED BY <1>1, <2>1, <2>2, <2>3, <2>4, PathKeepsRoutes
<1>9. ASSUME NEW to \in Scroll, Routes!Interrupt(to) PROVE RouteInv'
  <2>1. /\ UNCHANGED <<entries, current, snapshots, persisted, lesson, guarded, request, asked, pressed>>
        /\ scroll' = to /\ chosen' = to
    BY <1>9 DEF Routes!Interrupt
  <2>2. \/ boundary.at = "discovering" /\ boundary' = [boundary EXCEPT !.interrupted = TRUE]
        \/ boundary' = Routes!Settled
        \/ boundary.at = "none" /\ boundary' = boundary
    BY <1>9 DEF Routes!Interrupt, Routes!Announces
  <2>3. ReturnInv' /\ (boundary'.at # "none" => boundary.at # "none" /\ boundary'.view = boundary.view)
    <3>1. Returns(boundary, chosen)
      BY <1>1 DEF ReturnInv
    <3>2. CASE boundary.at = "discovering" /\ boundary' = [boundary EXCEPT !.interrupted = TRUE]
      BY <3>1, <3>2, ReturnSteps DEF ReturnInv
    <3>3. CASE boundary' = Routes!Settled
      BY <3>3, ReturnSteps DEF ReturnInv
    <3>4. CASE boundary.at = "none" /\ boundary' = boundary
      BY <3>1, <3>4 DEF ReturnInv, Returns
    <3> QED BY <2>2, <3>2, <3>3, <3>4
  <2> QED BY <1>1, <2>1, <2>3, PathKeepsRoutes
<1> QED BY <1>3, <1>4, <1>5, <1>6, <1>7, <1>8, <1>9

LEMMA RoutesKept ==
  ASSUME 0 \in Scroll, RouteInv, [Routes!Next]_(Routes!vars)
  PROVE  RouteInv'
<1>1. ASSUME NEW i \in 1 .. MaxHistory, Routes!Traverse(i) PROVE RouteInv'
  <2>1. i \in Nat
    BY <1>1 DEF Routes!Traverse, RouteInv, HistoryAt
  <2> QED BY <1>1, <2>1, TraverseKeepsRoutes
<1>2. CASE UNCHANGED Routes!vars
  <2>1. Routes!Location' = Routes!Location
    BY <1>2 DEF Routes!vars, Routes!Location
  <2>2. ReturnInv'
    BY <1>2 DEF Routes!vars, RouteInv, ReturnInv
  <2> QED BY <1>2, <2>1, <2>2 DEF Routes!vars, RouteInv, Routes!RouteIsTheLearners, HistoryAt
<1> QED BY <1>1, <1>2, OpeningKeepsRoutes, RelaunchKeepsRoutes, StayKeepsRoutes DEF Routes!Next

LEMMA RoutesInit == ASSUME 0 \in Scroll, Routes!Init PROVE RouteInv
<1>1. PICK v \in Routes!View \ {"lesson"} :
        /\ entries = <<[view |-> v, scroll |-> 0]>>
        /\ persisted = IF v \in Routes!Section THEN v ELSE Nothing
  BY DEF Routes!Init
<1>2. PICK e : e = [view |-> v, scroll |-> 0]
  OBVIOUS
<1>3. e \in RouteEntry /\ e.view = v
  BY <1>2 DEF RouteEntry, Routes!Entry
<1>4. current = 1
  BY DEF Routes!Init
<1>5. HistoryAt(entries, current, v)
  BY <1>1, <1>2, <1>3, <1>4 DEF HistoryAt
<1>6. Routes!Location = v
  BY <1>5 DEF HistoryAt, Routes!Location
<1>7. ReturnInv /\ boundary.at = "none"
  <2>1. boundary = Routes!Settled
    BY DEF Routes!Init
  <2> QED BY <2>1, ReturnSteps DEF ReturnInv
<1> QED BY <1>1, <1>5, <1>6, <1>7 DEF Routes!Init, RouteInv, Routes!RouteIsTheLearners

\* routed-lexigo-app.tsx and navigation-scroll-restoration.ts: no way through a
\* history of any length leaves a lesson behind the learner's back, a lesson asks only
\* when Back was pressed in it, and nothing moves a view the learner has scrolled.
THEOREM NobodyIsMovedUnasked ==
  ASSUME 0 \in Scroll
  PROVE  Spec => []RouteIsTheLearners
<1> DEFINE I == part = "routes" => RouteInv
<1>1. Init => I
  BY RoutesInit DEF Init
<1>2. I /\ [Next]_vars => I'
  BY PartSteps, RoutesKept
<1>3. I => RouteIsTheLearners
  BY DEF RouteIsTheLearners, RouteInv
<1> QED BY <1>1, <1>2, <1>3, PTL DEF Spec

-----------------------------------------------------------------------------
(* The measurements                                                        *)

\* The least of a set of numbers.
LEMMA LeastOne ==
  ASSUME NEW S \in SUBSET Nat, S # {}
  PROVE  \E m \in S : \A n \in S : m <= n
<1>1. IsWellFoundedOn(OpToRel(<, Nat), Nat)
  BY NatLessThanWellFounded
<1>2. PICK m \in S : \A n \in S : ~ (<<n, m>> \in OpToRel(<, Nat))
  BY <1>1, WFMin
<1>3. \A n \in S : m <= n
  <2> SUFFICES ASSUME NEW n \in S, n < m
               PROVE  FALSE
    BY SMT
  <2>1. <<n, m>> \in {ss \in Nat \X Nat : ss[1] < ss[2]}
    BY SMT
  <2> QED BY <1>2, <2>1 DEF OpToRel
<1> QED BY <1>3

\* A function is there that begins with base and goes on with step.
LEMMA Iteration ==
  ASSUME NEW T, NEW base \in T, NEW n \in Nat, NEW step \in [1 .. n -> [T -> T]]
  PROVE  \E F \in [0 .. n -> T] : F[0] = base /\ \A k \in 1 .. n : F[k] = step[k][F[k - 1]]
<1> DEFINE Goes(F, k) == F[0] = base /\ \A j \in 1 .. k : F[j] = step[j][F[j - 1]]
           lacking == {k \in 0 .. n : ~ \E F \in [0 .. k -> T] : Goes(F, k)}
<1>1. ASSUME lacking # {} PROVE FALSE
  <2>1. lacking \in SUBSET Nat
    OBVIOUS
  <2>2. PICK k \in lacking : \A j \in lacking : k <= j
    <3> HIDE DEF lacking
    <3> QED BY <1>1, <2>1, LeastOne
  <2>3. k \in 0 .. n /\ ~ \E F \in [0 .. k -> T] : Goes(F, k)
    BY <2>2
  <2>4. CASE k = 0
    <3>1. PICK F : F = [i \in 0 .. 0 |-> base]
      OBVIOUS
    <3>2. F \in [0 .. k -> T] /\ Goes(F, k)
      BY <2>4, <3>1
    <3> QED BY <2>3, <3>2
  <2>5. CASE k # 0
    <3>1. k - 1 \in 0 .. n /\ k - 1 \notin lacking
      BY <2>2, <2>3, <2>5
    <3>2. PICK F \in [0 .. k - 1 -> T] : Goes(F, k - 1)
      BY <3>1
    <3>3. step[k][F[k - 1]] \in T
      <4>1. k \in 1 .. n /\ F[k - 1] \in T
        BY <2>3, <2>5, <3>2
      <4> QED BY <4>1
    <3>4. PICK G : G = [i \in 0 .. k |-> IF i = k THEN step[k][F[k - 1]] ELSE F[i]]
      OBVIOUS
    <3>5. G \in [0 .. k -> T]
      BY <2>3, <3>3, <3>4
    <3>6. ASSUME NEW j \in 1 .. k PROVE G[j] = step[j][G[j - 1]]
      <4>1. j - 1 \in 0 .. k /\ j - 1 # k /\ G[j - 1] = F[j - 1]
        BY <2>3, <3>4
      <4>2. CASE j = k
        BY <3>4, <4>1, <4>2
      <4>3. CASE j # k
        BY <2>3, <3>2, <3>4, <4>1, <4>3
      <4> QED BY <4>2, <4>3
    <3>7. G[0] = base
      BY <2>3, <2>5, <3>2, <3>4
    <3> QED BY <2>3, <3>5, <3>6, <3>7
  <2> QED BY <2>4, <2>5
<1>2. n \in 0 .. n /\ n \notin lacking
  BY <1>1
<1> QED BY <1>2

\* The places of the measurements.
gathered == s3
decided == s4
remembered == s5
monitor == s7
counted == s10

USE DEF gathered, decided, remembered, monitor, counted

\* A sample, a report, and what a tab has gathered.
TakenSample == [id : Nat, of : MeasuredRoute \cup {Nothing}]
TabReport == [route : MeasuredRoute, samples : Seq(TakenSample)]
Gathered == [report : TabReport \cup {Nothing}, timer : BOOLEAN, sent : Seq(TabReport)]

\* The reports of what was gathered, the one that waits at last.
ReportsOf(q) == q.sent \o (IF q.report = Nothing THEN <<>> ELSE <<q.report>>)

\* A report that is not too long, of samples that were measured on its route.
Truly(report) ==
  /\ Len(report.samples) \in 1 .. MaxBatchSize
  /\ \A k \in 1 .. Len(report.samples) : report.samples[k].of \in {report.route, Nothing}

\* Each of the samples up to top is in the reports, once.
InReports(all, top) ==
  /\ all \in Seq(TabReport)
  /\ \A i \in 1 .. Len(all) : Truly(all[i])
  /\ \A i \in 1 .. Len(all) : \A k \in 1 .. Len(all[i].samples) : all[i].samples[k].id <= top
  /\ \A i, j \in 1 .. Len(all) : \A k \in 1 .. Len(all[i].samples), l \in 1 .. Len(all[j].samples) :
       all[i].samples[k].id = all[j].samples[l].id => i = j /\ k = l
  /\ \A n \in 1 .. top : \E i \in 1 .. Len(all) : \E k \in 1 .. Len(all[i].samples) : all[i].samples[k].id = n

\* The report that waits has room, and the timer runs while there is one.
GatheredInv(q, top) ==
  /\ q \in Gathered
  /\ InReports(ReportsOf(q), top)
  /\ q.report # Nothing => Len(q.report.samples) < MaxBatchSize
  /\ q.timer <=> q.report # Nothing

\* A tab that is out of the sample, or has not been asked, has reported nothing and
\* watches no tasks.
DecidedInv ==
  /\ remembered \in {"", "1", "0", "blocked"}
  /\ decided \in {"", "1", "0"}
  /\ remembered \in {"1", "0"} /\ decided # "" => decided = remembered
  /\ remembered \in {"", "0"} => ReportsOf(gathered) = <<>> /\ monitor.route = Nothing
  /\ remembered = "" => decided = ""

MonitorInv ==
  /\ monitor \in [route : MeasuredRoute \cup {Nothing}, tasks : BOOLEAN]
  /\ monitor.tasks => monitor.route # Nothing

MeasuredInv ==
  /\ s1 \in MeasuredRoute /\ s2 \in MeasuredRoute
  /\ counted \in Nat
  /\ GatheredInv(gathered, counted)
  /\ DecidedInv /\ MonitorInv

\* A report takes one sample at least, and is never mistaken for the absence of one.
Batched == MaxBatchSize \in Nat \ {0} /\ TaskSamples \in Nat /\ Nothing \notin TabReport

\* What was sent goes on with the report that waits.
LEMMA ReportsOfGathered ==
  ASSUME Batched, NEW q \in Gathered
  PROVE  /\ ReportsOf(q) \in Seq(TabReport) /\ q.sent \in Seq(TabReport)
         /\ q.report = Nothing => ReportsOf(q) = q.sent
         /\ q.report # Nothing => q.report \in TabReport /\ ReportsOf(q) = Append(q.sent, q.report)
<1>1. q.sent \in Seq(TabReport) /\ q.report \in TabReport \cup {Nothing}
  BY DEF Gathered
<1>2. CASE q.report = Nothing
  <2>1. ReportsOf(q) = q.sent \o <<>>
    BY <1>2 DEF ReportsOf
  <2>2. q.sent \o <<>> = q.sent
    BY <1>1
  <2> QED BY <1>1, <1>2, <2>1, <2>2
<1>3. CASE q.report # Nothing
  <2>1. PICK last \in TabReport : last = q.report
    BY <1>1, <1>3
  <2>2. ReportsOf(q) = q.sent \o <<last>>
    BY <1>3, <2>1 DEF ReportsOf
  <2>3. q.sent \o <<last>> = Append(q.sent, last) /\ Append(q.sent, last) \in Seq(TabReport)
    BY <1>1
  <2> QED BY <1>1, <1>3, <2>1, <2>2, <2>3
<1> QED BY <1>2, <1>3

LEMMA FlushSends ==
  ASSUME Batched, NEW q \in Gathered
  PROVE  /\ Measurements!Flush(q) \in Gathered
         /\ Measurements!Flush(q).report = Nothing /\ Measurements!Flush(q).timer = FALSE
         /\ Measurements!Flush(q).sent = ReportsOf(q)
         /\ ReportsOf(Measurements!Flush(q)) = ReportsOf(q)
<1>1. PICK all : all = ReportsOf(q)
  OBVIOUS
<1>2. PICK no \in BOOLEAN : no = FALSE
  OBVIOUS
<1>3. PICK p : p = [report |-> Nothing, timer |-> no, sent |-> all]
  OBVIOUS
<1>4. Measurements!Flush(q) = p
  <2>1. PICK none : none = [report |-> Nothing, timer |-> no, sent |-> <<>>]
    OBVIOUS
  <2>2. Measurements!EmptyQueue = none
    BY <1>2, <2>1, Zenon DEF Measurements!EmptyQueue
  <2>3. Measurements!Flush(q) = [none EXCEPT !.sent = all]
    BY <1>1, <2>2, Zenon DEF Measurements!Flush, ReportsOf
  <2>4. [none EXCEPT !.sent = all] = p
    BY <1>3, <2>1
  <2> QED BY <2>3, <2>4
<1>5. all \in Seq(TabReport)
  BY <1>1, ReportsOfGathered
<1>6. p \in Gathered
  BY <1>3, <1>5 DEF Gathered
<1>7. p.timer = FALSE
  BY <1>2, <1>3
<1>8. ReportsOf(p) = p.sent
  BY <1>3, <1>6, ReportsOfGathered
<1> QED BY <1>1, <1>3, <1>4, <1>6, <1>7, <1>8

\* The queue p is q with the sample in the report of the route that waits, or in a
\* new one.
Puts(p, q, s, r) ==
  \E past \in Seq(TabReport), before \in Seq(TakenSample), e \in TabReport :
    /\ \/ ReportsOf(q) = past /\ before = <<>>
       \/ /\ q.report = [route |-> r, samples |-> before]
          /\ ReportsOf(q) = Append(past, q.report)
    /\ e = [route |-> r, samples |-> Append(before, s)]
    /\ ReportsOf(p) = Append(past, e)
    /\ p.timer <=> p.report # Nothing
    /\ p.report # Nothing => p.report = e /\ Len(e.samples) < MaxBatchSize

LEMMA EnqueuePuts ==
  ASSUME Batched, NEW q \in Gathered, NEW s \in TakenSample, NEW r \in MeasuredRoute,
         NEW p, p = Measurements!Enqueue(q, s, r)
  PROVE  p \in Gathered /\ Puts(p, q, s, r)
<1>1. PICK other : other = IF q.report # Nothing /\ q.report.route # r THEN Measurements!Flush(q) ELSE q
  OBVIOUS
<1>2. other \in Gathered
  BY <1>1, FlushSends
<1>3. PICK waiting : waiting = IF other.report = Nothing THEN [route |-> r, samples |-> <<>>] ELSE other.report
  OBVIOUS
<1>4. PICK past \in Seq(TabReport), before \in Seq(TakenSample) :
        /\ \/ ReportsOf(q) = past /\ before = <<>>
           \/ /\ q.report = [route |-> r, samples |-> before]
              /\ ReportsOf(q) = Append(past, q.report)
        /\ waiting = [route |-> r, samples |-> before]
        /\ other.sent = past
  <2>1. CASE other.report = Nothing
    <3>1. other.sent = ReportsOf(q) /\ other.sent \in Seq(TabReport)
      BY <1>1, <1>2, <2>1, FlushSends, ReportsOfGathered
    <3>2. <<>> \in Seq(TakenSample)
      OBVIOUS
    <3>3. waiting = [route |-> r, samples |-> <<>>]
      BY <1>3, <2>1
    <3> QED BY <3>1, <3>2, <3>3
  <2>2. CASE other.report # Nothing
    <3>1. other = q /\ q.report.route = r
      BY <1>1, <2>2, FlushSends
    <3>2. /\ q.report \in TabReport /\ q.sent \in Seq(TabReport)
          /\ ReportsOf(q) = Append(q.sent, q.report)
      BY <2>2, <3>1, ReportsOfGathered
    <3>3. PICK before \in Seq(TakenSample) : before = q.report.samples
      BY <3>2 DEF TabReport
    <3>4. q.report = [route |-> r, samples |-> before]
      BY <3>1, <3>2, <3>3 DEF TabReport
    <3>5. waiting = q.report
      BY <1>3, <2>2, <3>1
    <3> QED BY <3>1, <3>2, <3>4, <3>5
  <2> QED BY <2>1, <2>2
<1>5. PICK e : e = [route |-> r, samples |-> Append(before, s)]
  OBVIOUS
<1>6. e \in TabReport /\ e # Nothing
  <2>1. Append(before, s) \in Seq(TakenSample)
    BY <1>4
  <2>2. e \in TabReport
    BY <1>5, <2>1 DEF TabReport
  <2> QED BY <2>2 DEF Batched
<1>7. [waiting EXCEPT !.samples = Append(@, s)] = e
  <2>1. PICK more : more = Append(before, s)
    OBVIOUS
  <2>2. waiting.samples = before /\ waiting = [route |-> r, samples |-> before]
    BY <1>4
  <2>3. [waiting EXCEPT !.samples = Append(@, s)] = [waiting EXCEPT !.samples = more]
    BY <2>1, <2>2
  <2>4. e = [route |-> r, samples |-> more]
    BY <1>5, <2>1
  <2> QED BY <2>2, <2>3, <2>4
<1>8. PICK yes, pushed : yes \in BOOLEAN /\ yes = TRUE /\ pushed = [report |-> e, timer |-> yes, sent |-> past]
  <2>1. PICK yes \in BOOLEAN : yes = TRUE
    OBVIOUS
  <2>2. PICK pushed : pushed = [report |-> e, timer |-> yes, sent |-> past]
    OBVIOUS
  <2> QED BY <2>1, <2>2, Zenon
<1>9. [other EXCEPT !.report = e, !.timer = TRUE] = pushed
  <2>1. other = [report |-> other.report, timer |-> other.timer, sent |-> other.sent]
    BY <1>2 DEF Gathered
  <2>2. other.sent = past
    BY <1>4
  <2>3. other = [report |-> other.report, timer |-> other.timer, sent |-> past]
    BY <2>1, <2>2
  <2>4. PICK mid : mid = [other EXCEPT !.report = e]
    OBVIOUS
  <2>5. mid = [report |-> e, timer |-> other.timer, sent |-> past]
    BY <2>3, <2>4
  <2>6. PICK y : y = other.timer
    OBVIOUS
  <2>7. mid = [report |-> e, timer |-> y, sent |-> past]
    BY <2>5, <2>6
  <2>8. [mid EXCEPT !.timer = yes] = [report |-> e, timer |-> yes, sent |-> past]
    BY <2>7
  <2>9. [other EXCEPT !.report = e, !.timer = TRUE] = [mid EXCEPT !.timer = yes]
    BY <1>8, <2>4, Zenon
  <2> QED BY <1>8, <2>8, <2>9, Zenon
<1>10. pushed \in Gathered
  BY <1>4, <1>6, <1>8 DEF Gathered
<1>11. ReportsOf(pushed) = Append(past, e)
  BY <1>6, <1>8, <1>10, ReportsOfGathered
<1>12. p = IF Len(e.samples) >= MaxBatchSize THEN Measurements!Flush(pushed) ELSE pushed
  BY <1>1, <1>3, <1>7, <1>9 DEF Measurements!Enqueue
<1>13. /\ p \in Gathered /\ ReportsOf(p) = Append(past, e)
       /\ p.timer <=> p.report # Nothing
       /\ p.report # Nothing => p.report = e /\ Len(e.samples) < MaxBatchSize
  <2>1. CASE Len(e.samples) >= MaxBatchSize
    <3>1. p = Measurements!Flush(pushed)
      BY <1>12, <2>1
    <3> QED BY <1>10, <1>11, <3>1, FlushSends
  <2>2. CASE ~ (Len(e.samples) >= MaxBatchSize)
    <3>1. p = pushed
      BY <1>12, <2>2
    <3>2. Len(e.samples) \in Nat /\ MaxBatchSize \in Nat
      BY <1>6 DEF TabReport, Batched
    <3>3. Len(e.samples) < MaxBatchSize
      BY <2>2, <3>2
    <3>4. p.timer = TRUE /\ p.report = e
      BY <1>8, <3>1
    <3> QED BY <1>6, <1>10, <1>11, <3>1, <3>3, <3>4
  <2> QED BY <2>1, <2>2
<1> QED BY <1>4, <1>5, <1>6, <1>13 DEF Puts

\* One more sample, in the last report or in a new one, leaves all the others where
\* they are.
LEMMA OneMoreSample ==
  ASSUME Batched, NEW top \in Nat, NEW past \in Seq(TabReport), NEW before \in Seq(TakenSample),
         NEW r \in MeasuredRoute, NEW s \in TakenSample, s.id = top + 1, s.of \in {r, Nothing},
         Len(before) < MaxBatchSize, NEW all, InReports(all, top),
         \/ all = past /\ before = <<>>
         \/ all = Append(past, [route |-> r, samples |-> before]),
         NEW e \in TabReport, e = [route |-> r, samples |-> Append(before, s)]
  PROVE  InReports(Append(past, e), top + 1)
<1>1. PICK next : next = Append(past, e)
  OBVIOUS
<1>2. PICK last \in Nat : last = Len(past) + 1
  OBVIOUS
<1>3. PICK new \in Nat : new = Len(before) + 1
  OBVIOUS
<1>4. /\ next \in Seq(TabReport) /\ Len(next) = last /\ next[last] = e
      /\ \A i \in 1 .. Len(past) : next[i] = past[i]
      /\ last \in 1 .. Len(next) /\ Len(past) \in Nat
  BY <1>1, <1>2
<1>5. /\ e.route = r /\ Len(e.samples) = new /\ e.samples[new] = s /\ Len(before) \in Nat
      /\ \A k \in 1 .. Len(before) : e.samples[k] = before[k]
  BY <1>3
<1>6. all \in Seq(TabReport) /\ \A i \in 1 .. Len(past) : i \in 1 .. Len(all) /\ all[i] = past[i]
  BY DEF InReports
<1>7. ASSUME NEW k \in 1 .. Len(before)
      PROVE  last \in 1 .. Len(all) /\ all[last].route = r /\ all[last].samples = before
  <2>1. before # <<>>
    BY <1>7
  <2>2. PICK old : old = [route |-> r, samples |-> before]
    OBVIOUS
  <2>3. all = Append(past, old)
    BY <2>1, <2>2
  <2>4. Len(all) = last /\ all[last] = old
    BY <1>2, <2>3
  <2> QED BY <1>4, <2>2, <2>4
<1>8. ASSUME NEW i \in 1 .. Len(all), i \notin 1 .. Len(past)
      PROVE  i = last /\ all[i].samples = before
  <2>1. PICK old : old = [route |-> r, samples |-> before]
    OBVIOUS
  <2>2. all = Append(past, old)
    BY <1>8, <2>1
  <2>3. Len(all) = last /\ all[last] = old
    BY <1>2, <2>2
  <2>4. i = last
    BY <1>2, <1>4, <1>8, <2>3
  <2> QED BY <2>1, <2>3, <2>4
<1> DEFINE In(list, i, k) == i \in 1 .. Len(list) /\ k \in 1 .. Len(list[i].samples)
<1>9. ASSUME NEW i, NEW k, In(next, i, k)
      PROVE  \/ In(all, i, k) /\ next[i].samples[k] = all[i].samples[k]
             \/ i = last /\ k = new /\ next[i].samples[k] = s
  <2>1. CASE i \in 1 .. Len(past)
    BY <1>4, <1>6, <1>9, <2>1
  <2>2. CASE i \notin 1 .. Len(past)
    <3>1. i = last /\ next[i] = e /\ k \in 1 .. new
      BY <1>2, <1>4, <1>5, <1>9, <2>2
    <3>2. CASE k = new
      BY <1>5, <3>1, <3>2
    <3>3. CASE k # new
      <4>1. k \in 1 .. Len(before)
        BY <1>3, <1>5, <3>1, <3>3
      <4> QED BY <1>5, <1>7, <3>1, <4>1
    <3> QED BY <3>2, <3>3
  <2> QED BY <2>1, <2>2
<1>10. ASSUME NEW i, NEW k, In(all, i, k)
       PROVE  In(next, i, k) /\ next[i].samples[k] = all[i].samples[k]
  <2>1. CASE i \in 1 .. Len(past)
    <3>1. i \in 1 .. Len(next) /\ next[i] = past[i] /\ all[i] = past[i]
      BY <1>2, <1>4, <1>6, <2>1
    <3> QED BY <1>10, <3>1
  <2>2. CASE i \notin 1 .. Len(past)
    <3>1. i = last /\ all[i].samples = before /\ k \in 1 .. Len(before)
      BY <1>8, <1>10, <2>2
    <3>2. k \in 1 .. new
      BY <1>3, <1>5, <3>1
    <3> QED BY <1>4, <1>5, <3>1, <3>2
  <2> QED BY <2>1, <2>2
<1>11. In(next, last, new) /\ next[last].samples[new] = s
  BY <1>3, <1>4, <1>5
<1>12. ASSUME NEW i, NEW k, In(all, i, k)
       PROVE  all[i].samples[k].id <= top /\ all[i].samples[k].id \in Nat
  <2>1. all[i].samples[k] \in TakenSample
    <3>1. all[i] \in TabReport
      BY <1>6, <1>12
    <3>2. all[i].samples \in Seq(TakenSample)
      BY <3>1 DEF TabReport
    <3> QED BY <1>12, <3>2
  <2> QED BY <1>12, <2>1 DEF InReports, TakenSample
<1>13. ASSUME NEW i \in 1 .. Len(next) PROVE Truly(next[i])
  <2>1. CASE i \in 1 .. Len(past)
    BY <1>4, <1>6, <2>1 DEF InReports
  <2>2. CASE i \notin 1 .. Len(past)
    <3>1. next[i] = e
      BY <1>2, <1>4, <2>2
    <3>2. Len(e.samples) \in 1 .. MaxBatchSize
      BY <1>3, <1>5 DEF Batched
    <3>3. ASSUME NEW k \in 1 .. Len(e.samples) PROVE e.samples[k].of \in {e.route, Nothing}
      <4>1. CASE k = new
        BY <1>5, <4>1
      <4>2. CASE k # new
        <5>1. k \in 1 .. Len(before)
          BY <1>3, <1>5, <4>2
        <5>2. Truly(all[last]) /\ all[last].route = r /\ all[last].samples = before
          BY <1>7, <5>1 DEF InReports
        <5> QED BY <1>5, <5>1, <5>2 DEF Truly
      <4> QED BY <4>1, <4>2
    <3> QED BY <3>1, <3>2, <3>3 DEF Truly
  <2> QED BY <2>1, <2>2
<1>14. ASSUME NEW i \in 1 .. Len(next), NEW k \in 1 .. Len(next[i].samples)
       PROVE  next[i].samples[k].id <= top + 1
  <2>1. In(next, i, k)
    OBVIOUS
  <2> HIDE DEF In
  <2>2. CASE In(all, i, k) /\ next[i].samples[k] = all[i].samples[k]
    <3>1. all[i].samples[k].id <= top /\ all[i].samples[k].id \in Nat
      BY <1>12, <2>2
    <3> QED BY <2>2, <3>1
  <2>3. CASE next[i].samples[k] = s
    BY <2>3
  <2> QED BY <1>9, <2>1, <2>2, <2>3
<1>15. ASSUME NEW i \in 1 .. Len(next), NEW j \in 1 .. Len(next),
              NEW k \in 1 .. Len(next[i].samples), NEW l \in 1 .. Len(next[j].samples),
              next[i].samples[k].id = next[j].samples[l].id
       PROVE  i = j /\ k = l
  <2>1. In(next, i, k) /\ In(next, j, l)
    OBVIOUS
  <2>2. ASSUME In(all, i, k), In(all, j, l), all[i].samples[k].id = all[j].samples[l].id
        PROVE  i = j /\ k = l
    BY <2>2, SMTT(30) DEF InReports
  <2> HIDE DEF In
  <2>3. CASE In(all, i, k) /\ next[i].samples[k] = all[i].samples[k]
    <3>1. In(all, j, l) /\ next[j].samples[l] = all[j].samples[l]
      <4>1. next[j].samples[l] # s
        <5>1. all[i].samples[k].id <= top /\ all[i].samples[k].id \in Nat
          BY <1>12, <2>3
        <5>2. next[j].samples[l].id # top + 1
          BY <1>15, <2>3, <5>1
        <5> QED BY <5>2
      <4> QED BY <1>9, <2>1, <4>1
    <3> QED BY <1>15, <2>2, <2>3, <3>1
  <2>4. CASE i = last /\ k = new /\ next[i].samples[k] = s
    <3>1. ~ (In(all, j, l) /\ next[j].samples[l] = all[j].samples[l])
      <4>1. ASSUME In(all, j, l), next[j].samples[l] = all[j].samples[l] PROVE FALSE
        <5>1. all[j].samples[l].id <= top /\ all[j].samples[l].id \in Nat
          BY <1>12, <4>1
        <5> QED BY <1>15, <2>4, <4>1, <5>1
      <4> QED BY <4>1
    <3> QED BY <1>9, <2>1, <2>4, <3>1
  <2> QED BY <1>9, <2>1, <2>3, <2>4
<1>16. ASSUME NEW n \in 1 .. top + 1
       PROVE  \E i \in 1 .. Len(next) : \E k \in 1 .. Len(next[i].samples) : next[i].samples[k].id = n
  <2>1. CASE n = top + 1
    BY <1>11, <2>1
  <2>2. CASE n # top + 1
    <3>1. n \in 1 .. top
      BY <2>2
    <3>2. PICK i \in 1 .. Len(all) : \E k \in 1 .. Len(all[i].samples) : all[i].samples[k].id = n
      BY <3>1 DEF InReports
    <3>3. PICK k \in 1 .. Len(all[i].samples) : all[i].samples[k].id = n
      BY <3>2
    <3>4. In(next, i, k) /\ next[i].samples[k] = all[i].samples[k]
      BY <1>10, <3>2, <3>3
    <3> QED BY <3>3, <3>4
  <2> QED BY <2>1, <2>2
<1>17. InReports(next, top + 1)
  BY <1>4, <1>13, <1>14, <1>15, <1>16 DEF InReports
<1> QED BY <1>1, <1>17

\* The queue with one more sample.
LEMMA EnqueueKeepsGathered ==
  ASSUME Batched, NEW top \in Nat, NEW q, GatheredInv(q, top), NEW s \in TakenSample, s.id = top + 1,
         NEW r \in MeasuredRoute, s.of \in {r, Nothing}, NEW p, p = Measurements!Enqueue(q, s, r)
  PROVE  GatheredInv(p, top + 1)
<1>1. q \in Gathered /\ InReports(ReportsOf(q), top) /\ (q.report # Nothing => Len(q.report.samples) < MaxBatchSize)
  BY DEF GatheredInv
<1>2. p \in Gathered /\ Puts(p, q, s, r)
  <2>1. q \in Gathered
    BY <1>1
  <2> QED BY <2>1, EnqueuePuts
<1>3. PICK past \in Seq(TabReport), before \in Seq(TakenSample), e \in TabReport :
        /\ \/ ReportsOf(q) = past /\ before = <<>>
           \/ /\ q.report = [route |-> r, samples |-> before]
              /\ ReportsOf(q) = Append(past, q.report)
        /\ e = [route |-> r, samples |-> Append(before, s)]
        /\ ReportsOf(p) = Append(past, e)
        /\ p.timer <=> p.report # Nothing
        /\ p.report # Nothing => p.report = e /\ Len(e.samples) < MaxBatchSize
  BY <1>2 DEF Puts
<1>4. p \in Gathered
  BY <1>2
<1>5. Len(before) < MaxBatchSize
  <2>1. CASE before = <<>>
    BY <2>1 DEF Batched
  <2>2. CASE q.report = [route |-> r, samples |-> before]
    <3>1. q.report \in TabReport
      BY <2>2, <1>3 DEF TabReport
    <3>2. q.report # Nothing /\ q.report.samples = before
      BY <2>2, <3>1 DEF Batched
    <3> QED BY <1>1, <3>2
  <2> QED BY <1>3, <2>1, <2>2
<1>6. InReports(Append(past, e), top + 1)
  <2>1. \/ ReportsOf(q) = past /\ before = <<>>
        \/ ReportsOf(q) = Append(past, [route |-> r, samples |-> before])
    BY <1>3
  <2>2. e = [route |-> r, samples |-> Append(before, s)]
    BY <1>3
  <2> QED BY <1>1, <1>5, <2>1, <2>2, OneMoreSample
<1>7. GatheredInv(p, top + 1)
  BY <1>3, <1>4, <1>6 DEF GatheredInv
<1> QED BY <1>7

\* The queue with a number of samples, one after the other.
LEMMA AllEnqueued ==
  ASSUME Batched, counted \in Nat, GatheredInv(gathered, counted), NEW count \in Nat,
         NEW r \in MeasuredRoute, NEW of \in {r, Nothing}
  PROVE  GatheredInv(Measurements!EnqueueAll(gathered, count, of, r), counted + count)
<1> DEFINE S(k) == [id |-> counted + k, of |-> of]
           Put(k, z) == Measurements!Enqueue(z, S(k), r)
           Rec(f) == [k \in 0 .. count |-> IF k = 0 THEN gathered ELSE Put(k, f[k - 1])]
<1>1. \A k \in 0 .. count : S(k) \in TakenSample /\ S(k).id = counted + k /\ S(k).of = of
  <2>1. of \in MeasuredRoute \cup {Nothing}
    OBVIOUS
  <2> QED BY <2>1 DEF TakenSample
<1> HIDE DEF S
<1>2. gathered \in Gathered
  BY DEF GatheredInv
<1>3. ASSUME NEW k \in 0 .. count, NEW z \in Gathered PROVE Put(k, z) \in Gathered
  BY <1>1, EnqueuePuts
<1>4. PICK step : step = [k \in 1 .. count |-> [z \in Gathered |-> Put(k, z)]]
  OBVIOUS
<1> HIDE DEF Put
<1>5. step \in [1 .. count -> [Gathered -> Gathered]]
  BY <1>3, <1>4
<1>6. PICK F0 \in [0 .. count -> Gathered] :
        F0[0] = gathered /\ \A k \in 1 .. count : F0[k] = step[k][F0[k - 1]]
  <2> HIDE DEF Rec
  <2> QED BY <1>2, <1>5, Iteration, SMTT(60)
<1>7. F0 = Rec(F0)
  <2>1. ASSUME NEW k \in 0 .. count PROVE F0[k] = IF k = 0 THEN gathered ELSE Put(k, F0[k - 1])
    <3>1. CASE k = 0
      BY <1>6, <3>1
    <3>2. CASE k # 0
      <4>1. k \in 1 .. count /\ k - 1 \in 0 .. count
        BY <3>2
      <4>2. PICK z \in Gathered : z = F0[k - 1]
        BY <1>6, <4>1
      <4>3. F0[k] = step[k][z]
        BY <1>6, <4>1, <4>2
      <4>4. step[k][z] = Put(k, z)
        BY <1>4, <4>1, <4>2
      <4> QED BY <3>2, <4>2, <4>3, <4>4
    <3> QED BY <3>1, <3>2
  <2>2. Rec(F0) = [k \in 0 .. count |-> F0[k]]
    BY <2>1
  <2>3. F0 = [k \in 0 .. count |-> F0[k]]
    BY <1>6
  <2> QED BY <2>2, <2>3
<1>8. PICK F : F = CHOOSE f : f = Rec(f)
  OBVIOUS
<1>9. F = Rec(F)
  <2> HIDE DEF Rec
  <2> QED BY <1>7, <1>8
<1>10. Measurements!EnqueueAll(gathered, count, of, r) = F[count]
  BY <1>8, Zenon DEF Measurements!EnqueueAll, S, Put
<1>11. \A g : \A k \in 0 .. count : Rec(g)[k] = IF k = 0 THEN gathered ELSE Put(k, g[k - 1])
  OBVIOUS
<1> HIDE DEF Rec
<1>12. \A k \in 0 .. count : F[k] = IF k = 0 THEN gathered ELSE Put(k, F[k - 1])
  BY <1>9, <1>11
<1> DEFINE wrong == {k \in 0 .. count : ~ GatheredInv(F[k], counted + k)}
<1>13. ASSUME wrong # {} PROVE FALSE
  <2>1. wrong \in SUBSET Nat
    OBVIOUS
  <2>2. PICK k \in wrong : \A j \in wrong : k <= j
    <3> HIDE DEF wrong
    <3> QED BY <1>13, <2>1, LeastOne
  <2>3. k \in 0 .. count /\ ~ GatheredInv(F[k], counted + k)
    BY <2>2
  <2>4. CASE k = 0
    <3>1. F[k] = gathered /\ counted + k = counted
      BY <1>12, <2>3, <2>4
    <3> QED BY <2>3, <3>1
  <2>5. CASE k # 0
    <3>1. PICK p \in 0 .. count : p = k - 1
      BY <2>3, <2>5
    <3>2. ~ (k <= p) /\ (counted + p) + 1 = counted + k /\ counted + p \in Nat
      BY <2>3, <3>1
    <3>3. p \notin wrong
      <4> HIDE DEF wrong
      <4> QED BY <2>2, <3>2
    <3>4. GatheredInv(F[p], counted + p)
      BY <3>3
    <3>5. F[k] = Put(k, F[p])
      BY <1>12, <2>3, <2>5, <3>1
    <3>6. PICK s \in TakenSample : s = S(k) /\ s.id = (counted + p) + 1 /\ s.of = of
      BY <1>1, <2>3, <3>2
    <3>7. PICK z : z = Measurements!Enqueue(F[p], s, r)
      OBVIOUS
    <3>8. GatheredInv(z, (counted + p) + 1)
      BY <3>2, <3>4, <3>6, <3>7, EnqueueKeepsGathered
    <3>9. z = F[k]
      BY <3>5, <3>6, <3>7 DEF Put
    <3> QED BY <2>3, <3>2, <3>8, <3>9
  <2> QED BY <2>4, <2>5
<1>14. count \in 0 .. count /\ count \notin wrong
  <2> HIDE DEF wrong
  <2> QED BY <1>13
<1>15. GatheredInv(F[count], counted + count)
  BY <1>14
<1> QED BY <1>10, <1>15

\* What was gathered is sent.
LEMMA FlushKeepsGathered ==
  ASSUME Batched, NEW q, NEW top, GatheredInv(q, top)
  PROVE  /\ GatheredInv(Measurements!Flush(q), top)
         /\ ReportsOf(Measurements!Flush(q)) = ReportsOf(q)
<1>1. q \in Gathered /\ InReports(ReportsOf(q), top)
  BY DEF GatheredInv
<1>2. PICK p : p = Measurements!Flush(q)
  OBVIOUS
<1>3. p \in Gathered /\ p.report = Nothing /\ p.timer = FALSE /\ ReportsOf(p) = ReportsOf(q)
  BY <1>1, <1>2, FlushSends
<1>4. GatheredInv(p, top)
  BY <1>1, <1>3 DEF GatheredInv
<1> QED BY <1>2, <1>3, <1>4

LEMMA MeasurementsInit == ASSUME Batched, Measurements!Init PROVE MeasuredInv
<1>1. PICK no \in BOOLEAN : no = FALSE
  OBVIOUS
<1>2. gathered = [report |-> Nothing, timer |-> no, sent |-> <<>>]
  BY <1>1, Zenon DEF Measurements!Init, Measurements!EmptyQueue
<1>3. gathered \in Gathered /\ gathered.report = Nothing /\ gathered.sent = <<>>
  <2>1. <<>> \in Seq(TabReport)
    OBVIOUS
  <2> QED BY <1>2, <2>1 DEF Gathered
<1>4. gathered.timer = FALSE
  BY <1>1, <1>2
<1>5. ReportsOf(gathered) = <<>>
  BY <1>3, ReportsOfGathered
<1>6. counted = 0 /\ counted \in Nat
  BY DEF Measurements!Init
<1>7. InReports(<<>>, 0)
  <2>1. <<>> \in Seq(TabReport) /\ Len(<<>>) = 0
    OBVIOUS
  <2> QED BY <2>1 DEF InReports
<1>8. GatheredInv(gathered, counted)
  BY <1>3, <1>4, <1>5, <1>6, <1>7 DEF GatheredInv
<1>9. DecidedInv
  <2>1. /\ decided \in {"", "1", "0"} /\ remembered \in {decided, "blocked"}
        /\ monitor.route = IF decided = "1" THEN s1 ELSE Nothing
    BY DEF Measurements!Init, Measurements!Watch
  <2> QED BY <1>5, <2>1 DEF DecidedInv
<1>10. MonitorInv
  <2>1. /\ s1 \in MeasuredRoute
        /\ monitor = [route |-> IF decided = "1" THEN s1 ELSE Nothing, tasks |-> FALSE]
    BY DEF Measurements!Init, Measurements!Watch
  <2> QED BY <2>1 DEF MonitorInv
<1> QED BY <1>6, <1>8, <1>9, <1>10 DEF MeasuredInv, Measurements!Init

\* What the tab answers when it is asked whether it is in the sample.
LEMMA AskedOnce ==
  ASSUME DecidedInv, NEW answer, Measurements!Asks(answer)
  PROVE  /\ answer \in {"1", "0"}
         /\ decided' \in {"", "1", "0"} /\ remembered' \in {"", "1", "0", "blocked"}
         /\ remembered' \in {"1", "0"} /\ decided' # "" => decided' = remembered'
         /\ remembered' = "" => decided' = ""
         /\ answer = "1" => remembered' \in {"1", "blocked"}
         /\ remembered' \in {"", "0"} => remembered \in {"", "0"}
  BY DEF DecidedInv, Measurements!Asks, Measurements!Answers

LEMMA WatchesWhenAsked ==
  ASSUME NEW r \in MeasuredRoute, NEW answer \in {"1", "0"}, monitor' = Measurements!Watch(r, answer)
  PROVE  MonitorInv' /\ (answer # "1" => monitor'.route = Nothing)
  BY DEF Measurements!Watch, MonitorInv

\* A sample is taken, or the tab is out of the sample.
LEMMA TakesKeepMeasured ==
  ASSUME Batched, MeasuredInv, NEW r \in MeasuredRoute, NEW of \in {r, Nothing}, Measurements!Takes(of, r),
         UNCHANGED <<s1, s2, monitor>>
  PROVE  MeasuredInv'
<1>1. counted \in Nat /\ GatheredInv(gathered, counted) /\ DecidedInv /\ MonitorInv
  BY DEF MeasuredInv
<1>2. PICK answer : /\ Measurements!Asks(answer)
                    /\ \/ /\ answer = "1" /\ counted' = counted + 1
                          /\ gathered' = Measurements!EnqueueAll(gathered, 1, of, r)
                       \/ answer = "0" /\ UNCHANGED <<gathered, counted>>
  BY DEF Measurements!Takes
<1>3. /\ decided' \in {"", "1", "0"} /\ remembered' \in {"", "1", "0", "blocked"}
      /\ remembered' \in {"1", "0"} /\ decided' # "" => decided' = remembered'
      /\ remembered' = "" => decided' = ""
      /\ answer = "1" => remembered' \in {"1", "blocked"}
      /\ remembered' \in {"", "0"} => remembered \in {"", "0"}
  BY <1>1, <1>2, AskedOnce
<1>4. CASE answer = "1" /\ counted' = counted + 1 /\ gathered' = Measurements!EnqueueAll(gathered, 1, of, r)
  <2>1. GatheredInv(gathered', counted') /\ counted' \in Nat
    BY <1>1, <1>4, AllEnqueued
  <2>2. DecidedInv'
    BY <1>3, <1>4 DEF DecidedInv
  <2> QED BY <2>1, <2>2 DEF MeasuredInv, MonitorInv
<1>5. CASE answer = "0" /\ UNCHANGED <<gathered, counted>>
  <2>1. DecidedInv'
    BY <1>1, <1>3, <1>5 DEF DecidedInv
  <2> QED BY <1>5, <2>1 DEF MeasuredInv, MonitorInv
<1> QED BY <1>2, <1>4, <1>5

LEMMA NavigateKeepsMeasured ==
  ASSUME Batched, MeasuredInv, NEW r \in MeasuredRoute, Measurements!Navigate(r)
  PROVE  MeasuredInv'
<1>1. counted \in Nat /\ GatheredInv(gathered, counted) /\ DecidedInv /\ MonitorInv /\ TaskSamples \in Nat
  BY DEF MeasuredInv, Batched
<1>2. PICK answer : Measurements!Asks(answer) /\ monitor' = Measurements!Watch(r, answer)
  BY DEF Measurements!Navigate
<1>3. /\ answer \in {"1", "0"}
      /\ decided' \in {"", "1", "0"} /\ remembered' \in {"", "1", "0", "blocked"}
      /\ remembered' \in {"1", "0"} /\ decided' # "" => decided' = remembered'
      /\ remembered' = "" => decided' = ""
      /\ answer = "1" => remembered' \in {"1", "blocked"}
      /\ remembered' \in {"", "0"} => remembered \in {"", "0"}
  BY <1>1, <1>2, AskedOnce
<1>4. MonitorInv' /\ (answer # "1" => monitor'.route = Nothing)
  BY <1>2, <1>3, WatchesWhenAsked
<1>5. /\ GatheredInv(gathered', counted') /\ counted' \in Nat
      /\ ReportsOf(gathered') = ReportsOf(gathered) \/ remembered \notin {"", "0"}
  <2>1. CASE /\ monitor.tasks /\ counted' = counted + TaskSamples
             /\ gathered' = Measurements!Flush(Measurements!EnqueueAll(gathered, TaskSamples, monitor.route, monitor.route))
    <3>1. monitor.route \in MeasuredRoute /\ monitor.route # Nothing
      BY <1>1, <2>1 DEF MonitorInv
    <3>2. PICK p : p = Measurements!EnqueueAll(gathered, TaskSamples, monitor.route, monitor.route)
      OBVIOUS
    <3>3. GatheredInv(p, counted + TaskSamples)
      BY <1>1, <3>1, <3>2, AllEnqueued
    <3>4. GatheredInv(Measurements!Flush(p), counted + TaskSamples)
      BY <3>3, FlushKeepsGathered
    <3>5. remembered \notin {"", "0"}
      BY <1>1, <3>1 DEF DecidedInv
    <3>6. counted' = counted + TaskSamples /\ counted' \in Nat
      BY <1>1, <2>1
    <3>7. gathered' = Measurements!Flush(p)
      BY <2>1, <3>2
    <3> QED BY <3>4, <3>5, <3>6, <3>7
  <2>2. CASE gathered' = Measurements!Flush(gathered) /\ UNCHANGED counted
    BY <1>1, <2>2, FlushKeepsGathered
  <2>3. CASE UNCHANGED <<gathered, counted>>
    BY <1>1, <2>3
  <2> QED BY <2>1, <2>2, <2>3 DEF Measurements!Navigate
<1>6. DecidedInv'
  BY <1>1, <1>3, <1>4, <1>5 DEF DecidedInv
<1>7. s1' \in MeasuredRoute /\ s2' \in MeasuredRoute
  BY DEF Measurements!Navigate, MeasuredInv
<1> QED BY <1>4, <1>5, <1>6, <1>7 DEF MeasuredInv

LEMMA ReloadKeepsMeasured == ASSUME Batched, MeasuredInv, Measurements!Reload PROVE MeasuredInv'
<1>1. counted \in Nat /\ GatheredInv(gathered, counted) /\ DecidedInv /\ MonitorInv /\ s1 \in MeasuredRoute
  BY DEF MeasuredInv
<1>2. /\ gathered' = Measurements!Flush(gathered) /\ counted' = counted /\ s1' = s1 /\ s2' = s1
  BY DEF Measurements!Reload
<1>3. GatheredInv(gathered', counted') /\ ReportsOf(gathered') = ReportsOf(gathered)
  BY <1>1, <1>2, FlushKeepsGathered
<1>4. PICK answer \in {"1", "0"} :
        /\ decided' = IF s6 THEN "" ELSE answer
        /\ remembered' = IF s6 \/ remembered = "blocked" THEN remembered ELSE answer
        /\ s6 => answer = "0"
        /\ ~ s6 /\ remembered \in {"1", "0"} => answer = remembered
        /\ monitor' = Measurements!Watch(s1, answer)
  BY DEF Measurements!Reload
<1>5. MonitorInv' /\ (answer # "1" => monitor'.route = Nothing)
  BY <1>1, <1>4, WatchesWhenAsked
<1>6. DecidedInv'
  BY <1>1, <1>3, <1>4, <1>5 DEF DecidedInv
<1> QED BY <1>1, <1>2, <1>3, <1>5, <1>6 DEF MeasuredInv

LEMMA MeasuredKept ==
  ASSUME Batched, MeasuredInv, [Measurements!Next]_(Measurements!vars)
  PROVE  MeasuredInv'
<1>1. ASSUME NEW r \in MeasuredRoute, Measurements!WebVital(r) PROVE MeasuredInv'
  BY <1>1, TakesKeepMeasured DEF Measurements!WebVital
<1>2. CASE Measurements!Painted
  BY <1>2, TakesKeepMeasured DEF Measurements!Painted, MeasuredInv
<1>3. CASE Measurements!LongTask
  <2>1. MonitorInv' /\ monitor'.route = monitor.route
    BY <1>3 DEF Measurements!LongTask, MeasuredInv, MonitorInv
  <2> QED BY <1>3, <2>1 DEF Measurements!LongTask, MeasuredInv, DecidedInv
<1>4. CASE gathered' = Measurements!Flush(gathered) /\ UNCHANGED <<s1, s2, decided, remembered, monitor, counted>>
  <2>1. GatheredInv(gathered', counted') /\ ReportsOf(gathered') = ReportsOf(gathered)
    BY <1>4, FlushKeepsGathered DEF MeasuredInv
  <2> QED BY <1>4, <2>1 DEF MeasuredInv, DecidedInv, MonitorInv
<1>5. CASE UNCHANGED <<gathered, s1, s2, decided, remembered, monitor, counted>>
  BY <1>5 DEF MeasuredInv, DecidedInv, MonitorInv
<1> QED BY <1>1, <1>2, <1>3, <1>4, <1>5, NavigateKeepsMeasured, ReloadKeepsMeasured
        DEF Measurements!Next, Measurements!vars, Measurements!Click, Measurements!FlushTimer,
            Measurements!Hide, Measurements!Object

\* performance-rum.ts: in reports of any size and over any number of routes, every
\* sample is in one report once, no report is too long or of another route than the
\* samples it sums up, and a tab that is out of the sample reports nothing.
THEOREM SamplesAreReportedOnce ==
  ASSUME Batched
  PROVE  Spec => []ReportsAreTrue
<1> DEFINE I == part = "measurements" => MeasuredInv
<1>1. Init => I
  BY MeasurementsInit DEF Init
<1>2. I /\ [Next]_vars => I'
  BY PartSteps, MeasuredKept
<1>3. I => ReportsAreTrue
  <2>1. SUFFICES ASSUME MeasuredInv PROVE Measurements!ReportsAreTrue
    BY DEF ReportsAreTrue
  <2>2. PICK all : all = ReportsOf(gathered)
    OBVIOUS
  <2>3. Measurements!Reports = all
    BY <2>2 DEF Measurements!Reports, ReportsOf
  <2>4. /\ InReports(all, counted) /\ all \in Seq(TabReport) /\ DOMAIN all = 1 .. Len(all)
        /\ \A i \in 1 .. Len(all) : Truly(all[i])
        /\ gathered.timer <=> gathered.report # Nothing
        /\ remembered = "0" => all = <<>>
    <3>1. GatheredInv(gathered, counted) /\ DecidedInv
      BY <2>1 DEF MeasuredInv
    <3>2. InReports(all, counted) /\ (gathered.timer <=> gathered.report # Nothing)
      BY <2>2, <3>1 DEF GatheredInv
    <3>3. remembered = "0" => all = <<>>
      BY <2>2, <3>1 DEF DecidedInv
    <3>4. all \in Seq(TabReport) /\ \A i \in 1 .. Len(all) : Truly(all[i])
      BY <3>2 DEF InReports
    <3>5. DOMAIN all = 1 .. Len(all)
      BY <3>4
    <3> QED BY <3>2, <3>3, <3>4, <3>5
  <2>5. ASSUME NEW i \in 1 .. Len(all)
        PROVE  /\ all[i].samples \in Seq(TakenSample) /\ DOMAIN all[i].samples = 1 .. Len(all[i].samples)
               /\ Len(all[i].samples) \in 1 .. MaxBatchSize
    <3>1. all[i].samples \in Seq(TakenSample)
      <4>1. all[i] \in TabReport
        BY <2>4
      <4> QED BY <4>1 DEF TabReport
    <3> QED BY <2>4, <3>1 DEF Truly
  <2>6. ASSUME NEW n \in 1 .. counted
        PROVE  Cardinality({at \in (1 .. Len(all)) \X (1 .. MaxBatchSize) :
                              /\ at[2] <= Len(all[at[1]].samples)
                              /\ all[at[1]].samples[at[2]].id = n}) = 1
    <3>1. PICK i \in 1 .. Len(all) : \E k \in 1 .. Len(all[i].samples) : all[i].samples[k].id = n
      BY <2>4 DEF InReports
    <3>2. PICK k \in 1 .. Len(all[i].samples) : all[i].samples[k].id = n
      BY <3>1
    <3>3. PICK places : places = {at \in (1 .. Len(all)) \X (1 .. MaxBatchSize) :
                                    /\ at[2] <= Len(all[at[1]].samples)
                                    /\ all[at[1]].samples[at[2]].id = n}
      OBVIOUS
    <3>4. <<i, k>> \in places
      <4>1. k \in 1 .. MaxBatchSize /\ k <= Len(all[i].samples)
        BY <2>5, <3>2 DEF Batched
      <4> QED BY <3>2, <3>3, <4>1
    <3>5. ASSUME NEW at \in places PROVE at = <<i, k>>
      <4>1. PICK j \in 1 .. Len(all), l \in 1 .. MaxBatchSize : at = <<j, l>>
        BY <3>3
      <4>2. l \in 1 .. Len(all[j].samples) /\ all[j].samples[l].id = n
        <5>1. l <= Len(all[j].samples) /\ all[j].samples[l].id = n
          BY <3>3, <4>1
        <5> QED BY <2>5, <5>1
      <4>3. j = i /\ l = k
        BY <2>4, <3>2, <4>2 DEF InReports
      <4> QED BY <4>1, <4>3
    <3>6. places = {<<i, k>>}
      BY <3>4, <3>5
    <3> QED BY <3>3, <3>6, FS_Singleton
  <2>7. ASSUME NEW report \in Measurements!Range(all)
        PROVE  /\ Len(report.samples) \in 1 .. MaxBatchSize
               /\ \A sample \in Measurements!Range(report.samples) : sample.of \in {report.route, Nothing}
    <3>1. PICK i \in 1 .. Len(all) : report = all[i]
      BY <2>4 DEF Measurements!Range
    <3>2. Truly(report) /\ DOMAIN report.samples = 1 .. Len(report.samples)
      BY <2>4, <2>5, <3>1
    <3> QED BY <3>2 DEF Truly, Measurements!Range
  <2>8. \A S : Measurements!Cardinality(S) = Cardinality(S)
    BY DEF Measurements!Cardinality, Cardinality
  <2> QED BY <2>3, <2>4, <2>6, <2>7, <2>8 DEF Measurements!ReportsAreTrue
<1> QED BY <1>1, <1>2, <1>3, PTL DEF Spec

=============================================================================
