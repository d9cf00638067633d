---------------------------- MODULE SpeechPlayer ----------------------------
(***************************************************************************)
(* The control that reads a word or a phrase aloud                           *)
(* (components/speech-player-button.tsx): it is shown for one text after      *)
(* another and shares the speech synthesis of the browser with the others.   *)
(***************************************************************************)
EXTENDS Naturals

CONSTANTS
  Text,     \* texts the control may be shown for
  Nothing,  \* no utterance
  MaxSteps  \* bound on what the learner does: see Step

VARIABLES
  mounted,
  value,     \* the text the control is shown for
  playback,  \* what it has published: a state, and the text it was for
  sequence,  \* sequenceRef
  utterance, \* utteranceRef: the token of the utterance whose events are heard
  synthesis, \* what the browser has of the last utterance of this control
  steps      \* number of steps so far

vars == <<mounted, value, playback, sequence, utterance, synthesis, steps>>

Silent == [token |-> Nothing, text |-> Nothing, is |-> "over"]
Audible == synthesis.is \in {"pending", "speaking"}

\* What the control shows: nothing of a text that it is no longer shown for.
State == IF playback.text = value THEN playback.state ELSE "idle"
Active == State \in {"loading", "playing"}

Init ==
  /\ mounted = FALSE
  /\ value \in Text
  /\ playback = [text |-> value, state |-> "idle"]
  /\ sequence = 0
  /\ utterance = Nothing
  /\ synthesis = Silent
  /\ steps = 0

Step == steps < MaxSteps /\ steps' = steps + 1

Publishes(state) == playback' = [text |-> value, state |-> state]

\* The utterance is detached and the browser told to be silent.
Silences ==
  /\ utterance' = Nothing
  /\ synthesis' = Silent

Mount(v) ==
  /\ Step
  /\ ~mounted
  /\ mounted' = TRUE
  /\ value' = v
  /\ playback' = [text |-> v, state |-> "idle"]
  /\ sequence' = sequence + 1
  /\ UNCHANGED <<utterance, synthesis>>

\* Not the code: the effect only forgets its utterance.
EndsDetached ==
  /\ utterance' = Nothing
  /\ UNCHANGED synthesis

\* The cleanup of the effect.
Ends == Silences

Unmount ==
  /\ Step
  /\ mounted
  /\ mounted' = FALSE
  /\ sequence' = sequence + 1
  /\ Ends
  /\ UNCHANGED <<value, playback>>

\* The next card: the effect ends and runs again for the other text.
ShowText(v) ==
  /\ Step
  /\ mounted
  /\ v # value
  /\ value' = v
  /\ sequence' = sequence + 2
  /\ Ends
  /\ UNCHANGED <<mounted, playback>>

\* toggle of a control that is active.
Stop ==
  /\ Step
  /\ mounted
  /\ Active
  /\ sequence' = sequence + 1
  /\ Silences
  /\ Publishes("idle")
  /\ UNCHANGED <<mounted, value>>

\* toggle of any other: the queue of the browser is cleared, whoever filled it.
Speak ==
  /\ Step
  /\ mounted
  /\ ~Active
  /\ sequence' = sequence + 1
  /\ utterance' = sequence'
  /\ synthesis' = [token |-> sequence', text |-> value, is |-> "pending"]
  /\ Publishes("loading")
  /\ UNCHANGED <<mounted, value>>

SpeakThrows ==
  /\ Step
  /\ mounted
  /\ ~Active
  /\ sequence' = sequence + 1
  /\ Silences
  /\ Publishes("error")
  /\ UNCHANGED <<mounted, value>>

\* Another control of the page speaks, or the browser drops the queue.
Interrupted ==
  /\ Audible
  /\ synthesis' = [synthesis EXCEPT !.is = "interrupted"]
  /\ UNCHANGED <<mounted, value, playback, sequence, utterance, steps>>

IsCurrent == mounted /\ utterance # Nothing /\ sequence = synthesis.token /\ utterance = synthesis.token

\* onstart.
Starts ==
  /\ synthesis.is = "pending"
  /\ synthesis' = [synthesis EXCEPT !.is = "speaking"]
  /\ IF IsCurrent THEN Publishes("playing") ELSE UNCHANGED playback
  /\ UNCHANGED <<mounted, value, sequence, utterance, steps>>

\* onend, and onerror of an utterance that was cancelled or that failed.
Over(state) ==
  /\ IF IsCurrent THEN utterance' = Nothing /\ Publishes(state) ELSE UNCHANGED <<utterance, playback>>
  /\ synthesis' = Silent
  /\ UNCHANGED <<mounted, value, sequence, steps>>

Finishes == synthesis.is = "speaking" /\ Over("idle")
CancelHeard == synthesis.is = "interrupted" /\ Over("idle")
Fails == Audible /\ Over("error")

Next ==
  \/ \E v \in Text : Mount(v) \/ ShowText(v)
  \/ Unmount \/ Stop \/ Speak \/ SpeakThrows
  \/ Interrupted \/ Starts \/ Finishes \/ CancelHeard \/ Fails

Spec == Init /\ [][Next]_vars

-----------------------------------------------------------------------------
(* Properties                                                                *)

TypeOK ==
  /\ {mounted} \subseteq BOOLEAN
  /\ value \in Text
  /\ playback \in [text : Text, state : {"idle", "loading", "playing", "error"}]
  /\ synthesis.is \in {"pending", "speaking", "interrupted", "over"}
  /\ sequence \in Nat
  /\ steps \in 0..MaxSteps

\* docs/speech-playback-release-checklist.md, item 10: nothing is heard but the
\* text that is shown, and only while the button offers to stop it.
NoStaleAudio == Audible => (mounted /\ synthesis.text = value /\ Active)
=============================================================================
