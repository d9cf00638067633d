----------------------- MODULE PronunciationRecorder -----------------------
(***************************************************************************)
(* The owner of the microphone (lib/pronunciation-recorder.ts): one          *)
(* PronunciationRecorder, the calls made to it, and the permission prompt,    *)
(* MediaRecorder, object URLs and timer of the browser that answer later.     *)
(***************************************************************************)
EXTENDS Naturals, FiniteSets

CONSTANTS
  Nothing,  \* no recording, no URL, no time
  MaxCalls  \* bound on the calls to the owner: see Call

VARIABLES
  snapshot, \* what the owner publishes: its state and the recording it offers
  stream,   \* the media stream the owner holds is live
  recorder, \* the MediaRecorder of the owner, named by its start, or Nothing
  url,      \* the object URL the owner holds, named by its start, or Nothing
  lifecycle,\* the lifecycle token
  prompt,   \* the permission request that is pending: the token it was made with
  disposed,
  timer,    \* the timeout of the longest recording: the start that set it
  wanted,   \* the last of the calls to start, cancel and dispose was a start
            \* (a history variable)
  urls,     \* object URLs that are not revoked (of the browser)
  stopping, \* MediaRecorders told to stop, whose events are still to come
  calls     \* number of calls so far

vars == <<snapshot, stream, recorder, url, lifecycle, prompt, disposed, timer, wanted, urls, stopping, calls>>

Init ==
  /\ snapshot = [state |-> "idle", recording |-> Nothing]
  /\ stream = FALSE
  /\ recorder = Nothing
  /\ url = Nothing
  /\ lifecycle = 0
  /\ prompt = Nothing
  /\ disposed = FALSE
  /\ timer = Nothing
  /\ wanted = FALSE
  /\ urls = {}
  /\ stopping = {}
  /\ calls = 0

Call == calls < MaxCalls /\ calls' = calls + 1

Publishes(state, recording) == snapshot' = [state |-> state, recording |-> recording]
PublishesError == Publishes("error", snapshot.recording)

\* revokeRecordingURL.
Revokes == url' = Nothing /\ urls' = urls \ {url}

\* The recorder, its stream and its timer are let go (detachRecorder,
\* stopMediaStream, cancelTimeout): its events find no handler any more.
LetsGo ==
  /\ recorder' = Nothing
  /\ stream' = FALSE
  /\ timer' = Nothing

-----------------------------------------------------------------------------
(* The calls                                                                 *)

\* startRecording, up to the answer of the browser.
StartRecording ==
  /\ Call
  /\ IF disposed THEN PublishesError /\ UNCHANGED <<lifecycle, prompt>>
     ELSE /\ prompt = Nothing /\ recorder = Nothing
          /\ lifecycle' = lifecycle + 1
          /\ prompt' = lifecycle'
          /\ Publishes("requesting", snapshot.recording)
  /\ wanted' = ~disposed
  /\ UNCHANGED <<stream, recorder, url, disposed, timer, urls, stopping>>

\* stopRecording; a second call while it stops gets the same promise.
StopRecording ==
  /\ recorder # Nothing
  /\ snapshot.state = "recording"
  /\ Publishes("stopping", Nothing)
  /\ stopping' = stopping \cup {recorder}

Stop ==
  /\ Call
  /\ StopRecording
  /\ UNCHANGED <<stream, recorder, url, lifecycle, prompt, disposed, timer, wanted, urls>>

\* Not the code: the pending permission request stays current.
CancelsKeepingToken ==
  /\ UNCHANGED lifecycle
  /\ LetsGo
  /\ Revokes
  /\ Publishes("idle", Nothing)

Cancels ==
  /\ lifecycle' = lifecycle + 1
  /\ LetsGo
  /\ Revokes
  /\ Publishes("idle", Nothing)

Cancel ==
  /\ Call
  /\ Cancels
  /\ wanted' = FALSE
  /\ UNCHANGED <<prompt, disposed, stopping>>

Dispose ==
  /\ Call
  /\ ~disposed
  /\ Cancels
  /\ disposed' = TRUE
  /\ wanted' = FALSE
  /\ UNCHANGED <<prompt, stopping>>

ClearRecording ==
  /\ Call
  /\ Revokes
  /\ IF snapshot.recording # Nothing THEN Publishes("idle", Nothing) ELSE UNCHANGED snapshot
  /\ UNCHANGED <<stream, recorder, lifecycle, prompt, disposed, timer, wanted, stopping>>

-----------------------------------------------------------------------------
(* The browser                                                               *)

Stale == prompt # lifecycle \/ disposed

\* The learner refuses the microphone, or there is none.
PermissionRefused ==
  /\ prompt # Nothing
  /\ prompt' = Nothing
  /\ IF Stale THEN UNCHANGED snapshot
     ELSE \/ Publishes("denied", snapshot.recording)
          \/ PublishesError
  /\ UNCHANGED <<stream, recorder, url, lifecycle, disposed, timer, wanted, urls, stopping, calls>>

\* A stream that nobody waits for is stopped at once, and so is one for which
\* no MediaRecorder can be made.
PermissionUnused ==
  /\ prompt # Nothing
  /\ prompt' = Nothing
  /\ IF Stale THEN UNCHANGED snapshot ELSE PublishesError
  /\ UNCHANGED <<stream, recorder, url, lifecycle, disposed, timer, wanted, urls, stopping, calls>>

\* The recording starts: the clip before it is given up.
PermissionGranted ==
  /\ prompt # Nothing
  /\ ~Stale
  /\ prompt' = Nothing
  /\ Revokes
  /\ stream' = TRUE
  /\ recorder' = lifecycle
  /\ timer' = lifecycle
  /\ Publishes("recording", Nothing)
  /\ UNCHANGED <<lifecycle, disposed, wanted, stopping, calls>>

\* recorder.start throws: failActiveRecording, after the clip was given up.
StartThrows ==
  /\ prompt # Nothing
  /\ ~Stale
  /\ prompt' = Nothing
  /\ Revokes
  /\ lifecycle' = lifecycle + 1
  /\ PublishesError
  /\ UNCHANGED <<stream, recorder, disposed, timer, wanted, stopping, calls>>

\* The event of a MediaRecorder that has stopped: finishRecording, for one
\* that is still the recorder of the owner. Its clip may be empty.
Stopped(r) ==
  /\ r \in stopping
  /\ stopping' = stopping \ {r}
  /\ IF r # lifecycle \/ recorder # r
     THEN UNCHANGED <<snapshot, stream, recorder, url, timer, urls>>
     ELSE /\ LetsGo
          /\ \/ /\ url' = r
                /\ urls' = urls \cup {r}
                /\ Publishes("recorded", r)
             \/ /\ PublishesError
                /\ UNCHANGED <<url, urls>>
  /\ UNCHANGED <<lifecycle, prompt, disposed, wanted, calls>>

\* The MediaRecorder fails, or stops by itself as its tracks end.
RecorderFails ==
  /\ recorder # Nothing
  /\ lifecycle' = lifecycle + 1
  /\ LetsGo
  /\ PublishesError
  /\ UNCHANGED <<url, prompt, disposed, wanted, urls, stopping, calls>>

RecorderEnds ==
  /\ recorder # Nothing
  /\ recorder \notin stopping
  /\ stopping' = stopping \cup {recorder}
  /\ UNCHANGED <<snapshot, stream, recorder, url, lifecycle, prompt, disposed, timer, wanted, urls, calls>>

\* The longest recording is over.
Timeout ==
  /\ timer # Nothing
  /\ timer' = Nothing
  /\ IF recorder # Nothing /\ snapshot.state = "recording" THEN StopRecording
     ELSE UNCHANGED <<snapshot, stopping>>
  /\ UNCHANGED <<stream, recorder, url, lifecycle, prompt, disposed, wanted, urls, calls>>

Next ==
  \/ StartRecording \/ Stop \/ Cancel \/ Dispose \/ ClearRecording
  \/ PermissionRefused \/ PermissionUnused \/ PermissionGranted \/ StartThrows
  \/ \E r \in stopping : Stopped(r)
  \/ RecorderFails \/ RecorderEnds \/ Timeout

Spec == Init /\ [][Next]_vars

-----------------------------------------------------------------------------
(* Properties                                                                *)

State == {"idle", "requesting", "recording", "stopping", "recorded", "denied", "error"}
Start == 1..(2 * MaxCalls)

TypeOK ==
  /\ snapshot.state \in State
  /\ {snapshot.recording, recorder, url, prompt, timer} \subseteq Start \cup {Nothing}
  /\ {stream, wanted, disposed} \subseteq BOOLEAN
  /\ urls \subseteq Start /\ stopping \subseteq Start
  /\ lifecycle \in Nat
  /\ calls \in 0..MaxCalls

\* docs/pronunciation-recording-privacy.md, Cleanup boundary: the microphone is
\* open only for a recording that is shown and that was asked for after the
\* last cancel; a permission that comes late, a failure, a timeout and a
\* disposal all leave it closed.
MicIsWanted == stream => (wanted /\ snapshot.state \in {"recording", "stopping"})

\* The browser holds no clip but the one of the owner, so that none outlives
\* its replacement, its clearing or the disposal.
NoClipLeaks == urls = {url} \ {Nothing}

RecordingIsPrivate == MicIsWanted /\ NoClipLeaks
=============================================================================
