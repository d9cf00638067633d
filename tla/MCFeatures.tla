---------------------------- MODULE MCFeatures ----------------------------
(***************************************************************************)
(* The parts of the application that hardly meet, one at a time: a scenario, *)
(* the diagnostic of a new learner, the update of the application, the       *)
(* recorder, the control that reads aloud, the notices, the measurements, the *)
(* routes, the reminder, the theme, the mailed links, the schedule of a word    *)
(* and the moderation of answers. Their variables share the places s1, s2, ...  *)
(***************************************************************************)
EXTENDS Naturals

CONSTANTS
  Tab, Text, Nothing,
  Empty, ScenarioSteps, MaxAttempts, MaxScenarioEvents,
  DiagnosticWords, MaxOnboardingCalls, MaxOnboardingEvents,
  MaxBuild, MaxUpdateEvents,
  MaxRecorderCalls, MaxSpeechSteps,
  Key, Dialog, MaxItems,
  MeasuredRoute, MaxBatchSize, TaskSamples, MaxSamples,
  Scroll, MaxHistory, MaxMoves,
  ReminderPlace, TicksPerDay, Toggled, Now, MaxEdits,
  MaxChanges,
  MaxReviews, MaxInterval,
  Learner, Moderator, Form, Style, MaxSuggestions,
  MaxRequests, MaxLinkEvents

VARIABLES part, s1, s2, s3, s4, s5, s6, s7, s8, s9, s10, s11, s12,
  s13, s14, s15

vars == <<part, s1, s2, s3, s4, s5, s6, s7, s8, s9, s10, s11, s12, s13, s14, s15>>

Scenario == INSTANCE ScenarioAttempts WITH
              None <- Nothing, Steps <- ScenarioSteps, MaxEvents <- MaxScenarioEvents,
              attempts <- s1, page <- s2, saved <- s3, typed <- s4, call <- s5, late <- s6, ids <- s7,
              happened <- s8

Diagnostic == INSTANCE Onboarding WITH
                Words <- DiagnosticWords, MaxCalls <- MaxOnboardingCalls, MaxEvents <- MaxOnboardingEvents,
                state <- s1, items <- s2, schedule <- s3, page <- s4, calls <- s5, happened <- s6

Update == INSTANCE AppUpdate WITH
            None <- Nothing, MaxEvents <- MaxUpdateEvents,
            deployed <- s1, marker <- s2, reg <- s3, tab <- s4, told <- s5, hops <- s6, happened <- s7

Recorder == INSTANCE PronunciationRecorder WITH
              MaxCalls <- MaxRecorderCalls,
              snapshot <- s1, stream <- s2, recorder <- s3, url <- s4, lifecycle <- s5, prompt <- s6,
              disposed <- s7, timer <- s8, wanted <- s9, urls <- s10, stopping <- s11, calls <- s12

Speech == INSTANCE SpeechPlayer WITH
            MaxSteps <- MaxSpeechSteps,
            mounted <- s1, value <- s2, playback <- s3, sequence <- s4, utterance <- s5, synthesis <- s6,
            steps <- s7

Notices == INSTANCE FeedbackCenter WITH
             None <- Nothing,
             banners <- s1, toast <- s2, queue <- s3, paused <- s4, held <- s5, hosts <- s6, sequence <- s7

Measurements == INSTANCE PerformanceRum WITH
                  None <- Nothing, Route <- MeasuredRoute,
                  route <- s1, initial <- s2, queue <- s3, decision <- s4, stored <- s5, objects <- s6,
                  monitor <- s7, observing <- s8, painting <- s9, taken <- s10

Routes == INSTANCE RouteShell WITH
            None <- Nothing,
            entries <- s1, current <- s2, scroll <- s3, snapshots <- s4, persisted <- s5, lesson <- s6,
            guarded <- s7, request <- s8, stable <- s9, asked <- s10, boundary <- s11, announced <- s12,
            chosen <- s13, pressed <- s14, moves <- s15

Reminder == INSTANCE CalendarReminder WITH
              None <- Nothing, Place <- ReminderPlace,
              stored <- s1, blocked <- s2, copies <- s3, edited <- s4, told <- s5, sharing <- s6,
              delivered <- s7, edits <- s8

Theme == INSTANCE AppearancePreference WITH
           None <- Nothing,
           stored <- s1, storage <- s2, dark <- s3, document <- s4, told <- s5, changes <- s6

Links == INSTANCE AccountLinks WITH
           None <- Nothing,
           address <- s1, session <- s2, restoring <- s3, cookie <- s4, form <- s5, email <- s6,
           reading <- s7, requests <- s8, tokens <- s9, opened <- s10, happened <- s11

Schedule == INSTANCE Scheduler WITH word <- s1, reviews <- s2

Answers == INSTANCE Moderation WITH
             accepted <- s1, rejected <- s2, suggestions <- s3, audit <- s4, moderator <- s5,
             promised <- s6

\* The places a part does not use.
From3 == <<s3, s4, s5, s6, s7, s8, s9, s10, s11, s12, s13, s14, s15>>
From7 == <<s7, s8, s9, s10, s11, s12, s13, s14, s15>>
From8 == <<s8, s9, s10, s11, s12, s13, s14, s15>>
From9 == <<s9, s10, s11, s12, s13, s14, s15>>
From11 == <<s11, s12, s13, s14, s15>>
From12 == <<s12, s13, s14, s15>>
From13 == <<s13, s14, s15>>

Init ==
  \/ part = "scenario" /\ Scenario!Init
     /\ s9 = Nothing /\ s10 = Nothing /\ s11 = Nothing /\ s12 = Nothing /\ s13 = Nothing
     /\ s14 = Nothing /\ s15 = Nothing
  \/ part = "diagnostic" /\ Diagnostic!Init
     /\ s7 = Nothing /\ s8 = Nothing /\ s9 = Nothing /\ s10 = Nothing /\ s11 = Nothing
     /\ s12 = Nothing /\ s13 = Nothing /\ s14 = Nothing /\ s15 = Nothing
  \/ part = "update" /\ Update!Init
     /\ s8 = Nothing /\ s9 = Nothing /\ s10 = Nothing /\ s11 = Nothing /\ s12 = Nothing
     /\ s13 = Nothing /\ s14 = Nothing /\ s15 = Nothing
  \/ part = "recorder" /\ Recorder!Init
     /\ s13 = Nothing /\ s14 = Nothing /\ s15 = Nothing
  \/ part = "speech" /\ Speech!Init
     /\ s8 = Nothing /\ s9 = Nothing /\ s10 = Nothing /\ s11 = Nothing /\ s12 = Nothing
     /\ s13 = Nothing /\ s14 = Nothing /\ s15 = Nothing
  \/ part = "notices" /\ Notices!Init
     /\ s8 = Nothing /\ s9 = Nothing /\ s10 = Nothing /\ s11 = Nothing /\ s12 = Nothing
     /\ s13 = Nothing /\ s14 = Nothing /\ s15 = Nothing
  \/ part = "measurements" /\ Measurements!Init
     /\ s11 = Nothing /\ s12 = Nothing /\ s13 = Nothing /\ s14 = Nothing /\ s15 = Nothing
  \/ part = "routes" /\ Routes!Init
  \/ part = "reminder" /\ Reminder!Init
     /\ s9 = Nothing /\ s10 = Nothing /\ s11 = Nothing /\ s12 = Nothing /\ s13 = Nothing
     /\ s14 = Nothing /\ s15 = Nothing
  \/ part = "theme" /\ Theme!Init
     /\ s7 = Nothing /\ s8 = Nothing /\ s9 = Nothing /\ s10 = Nothing /\ s11 = Nothing
     /\ s12 = Nothing /\ s13 = Nothing /\ s14 = Nothing /\ s15 = Nothing
  \/ part = "links" /\ Links!Init
     /\ s12 = Nothing /\ s13 = Nothing /\ s14 = Nothing /\ s15 = Nothing
  \/ part = "schedule" /\ Schedule!Init
     /\ s3 = Nothing /\ s4 = Nothing /\ s5 = Nothing /\ s6 = Nothing /\ s7 = Nothing
     /\ s8 = Nothing /\ s9 = Nothing /\ s10 = Nothing /\ s11 = Nothing /\ s12 = Nothing
     /\ s13 = Nothing /\ s14 = Nothing /\ s15 = Nothing
  \/ part = "moderation" /\ Answers!Init
     /\ s7 = Nothing /\ s8 = Nothing /\ s9 = Nothing /\ s10 = Nothing /\ s11 = Nothing
     /\ s12 = Nothing /\ s13 = Nothing /\ s14 = Nothing /\ s15 = Nothing

Next ==
  \/ part = "scenario" /\ Scenario!Next /\ UNCHANGED <<part, From9>>
  \/ part = "diagnostic" /\ Diagnostic!Next /\ UNCHANGED <<part, From7>>
  \/ part = "update" /\ Update!Next /\ UNCHANGED <<part, From8>>
  \/ part = "recorder" /\ Recorder!Next /\ UNCHANGED <<part, From13>>
  \/ part = "speech" /\ Speech!Next /\ UNCHANGED <<part, From8>>
  \/ part = "notices" /\ Notices!Next /\ UNCHANGED <<part, From8>>
  \/ part = "measurements" /\ Measurements!Next /\ UNCHANGED <<part, From11>>
  \/ part = "routes" /\ Routes!Next /\ UNCHANGED part
  \/ part = "reminder" /\ Reminder!Next /\ UNCHANGED <<part, From9>>
  \/ part = "theme" /\ Theme!Next /\ UNCHANGED <<part, From7>>
  \/ part = "links" /\ Links!Next /\ UNCHANGED <<part, From12>>
  \/ part = "schedule" /\ Schedule!Next /\ UNCHANGED <<part, From3>>
  \/ part = "moderation" /\ Answers!Next /\ UNCHANGED <<part, From7>>

Spec == Init /\ [][Next]_vars

-----------------------------------------------------------------------------

\* ScenarioAttempts: what the learner typed stays until it is accepted, and what
\* the page says of a submission is what became of it.
AnswersAreKept == part = "scenario" => Scenario!AnswersAreKept

\* Onboarding: the first mark of a word stands, and marks never take the place
\* of what reviews have shown.
MarksAreKept == [][part = "diagnostic" => Diagnostic!Stands /\ Diagnostic!Yields]_vars

\* AppUpdate: the guard sends a document round once.
NoReloadLoop == part = "update" => Update!NoReloadLoop

\* PronunciationRecorder: the microphone is open only while it is wanted, and no
\* clip is left behind.
RecordingIsPrivate == part = "recorder" => Recorder!RecordingIsPrivate

\* SpeechPlayer: nothing is heard but the text that is shown.
NoStaleAudio == part = "speech" => Speech!NoStaleAudio

\* FeedbackCenter: no notice waits for nothing.
ToastsTakeTurns == part = "notices" => Notices!ToastsTakeTurns

\* PerformanceRum: every sample is sent once, with the route it was measured on.
ReportsAreTrue == part = "measurements" => Measurements!ReportsAreTrue

\* RouteShell: a lesson is left by its dialog or its end, and asks when it was
\* asked; nothing scrolls what the learner has scrolled.
RouteIsTheLearners == part = "routes" => Routes!RouteIsTheLearners

\* CalendarReminder: an event begins at the first moment its rule names.
ReminderIsNext == part = "reminder" => Reminder!ReminderIsNext

\* CalendarReminder, AppearancePreference: every document shows what is stored
\* once it has been told.
StoredIsShown ==
  /\ part = "reminder" => Reminder!CopiesAgree
  /\ part = "theme" => Theme!ThemeIsCurrent

\* AccountLinks: a mailed link stays where it can be used until it is used.
LinksAreKept == part = "links" => Links!LinksAreKept

\* Scheduler: who knows a word waits longer for it.
KnownWaits == part = "schedule" => Schedule!KnownWaits

\* Moderation: a decision is taken once and loses no other.
DecisionsStand == part = "moderation" => Answers!DecisionsStand
=============================================================================
