---------------------------- MODULE LinearLesson ----------------------------
(***************************************************************************)
(* What the lesson service promises its user (docs/lesson-concurrency.md): *)
(* a lesson is a linear state machine owned by the server.  One lesson is  *)
(* open at a time; an accepted answer moves it forward by exactly one item *)
(* and leaves exactly one record; it is finished with its last item and    *)
(* not before; a finished or dropped lesson never changes again.           *)
(***************************************************************************)
EXTENDS Naturals

CONSTANTS Lesson, LessonSize

VARIABLES
  phase,     \* "none", "open", "finished" or "dropped"
  size,      \* the number of items
  done,      \* the number of items answered
  recorded   \* the number of answers on record

linearVars == <<phase, size, done, recorded>>

Init ==
  /\ phase = [l \in Lesson |-> "none"]
  /\ size = [l \in Lesson |-> 0]
  /\ done = [l \in Lesson |-> 0]
  /\ recorded = [l \in Lesson |-> 0]

\* Opening a lesson drops the one that was open.
Open(l, n) ==
  /\ phase[l] = "none"
  /\ phase' = [k \in Lesson |-> IF k = l THEN "open"
                               ELSE IF phase[k] = "open" THEN "dropped"
                               ELSE phase[k]]
  /\ size' = [size EXCEPT ![l] = n]
  /\ UNCHANGED <<done, recorded>>

Accept(l) ==
  /\ phase[l] = "open"
  /\ done' = [done EXCEPT ![l] = @ + 1]
  /\ recorded' = [recorded EXCEPT ![l] = @ + 1]
  /\ phase' = [phase EXCEPT ![l] = IF done'[l] = size[l] THEN "finished" ELSE "open"]
  /\ UNCHANGED size

Drop(l) ==
  /\ phase[l] = "open"
  /\ phase' = [phase EXCEPT ![l] = "dropped"]
  /\ UNCHANGED <<size, done, recorded>>

Next ==
  \/ \E l \in Lesson, n \in 1 .. LessonSize : Open(l, n)
  \/ \E l \in Lesson : Accept(l) \/ Drop(l)

Spec == Init /\ [][Next]_linearVars
=============================================================================
