----------------------------- MODULE Scheduler -----------------------------
(***************************************************************************)
(* The schedule of one word of one learner, from review to review            *)
(* (backend/internal/learning/scheduler.go, the judgement of                 *)
(* answer_judgement.go that chooses the effective rating, and the state that *)
(* the diagnostic of onboarding.go starts a word with). Easiness is in       *)
(* hundredths, as the column numeric(4,2) keeps it; a time is in minutes     *)
(* from the review. A product that ends in one half may be rounded either    *)
(* way: the code multiplies binary fractions.                               *)
(***************************************************************************)
EXTENDS Integers

CONSTANTS
  MaxReviews,   \* bound: the reviews of the word
  MaxInterval   \* bound: the interval beyond which it is not reviewed, in days

VARIABLES word, reviews

vars == <<word, reviews>>

Day == 24 * 60
Rating == {"again", "almost", "known"}

AtLeast(bound, n) == IF n < bound THEN bound ELSE n
AtMost(bound, n) == IF n > bound THEN bound ELSE n

TypeOK ==
  /\ word \in [status : {"new", "learning", "review", "mastered"}, easiness : 130..300,
               interval : Nat, repetitions : Nat, due : Int]
  /\ reviews \in 0..MaxReviews

Init ==
  /\ word = [status |-> "new", easiness |-> 250, interval |-> 0, repetitions |-> 0, due |-> 0]
  /\ reviews = 0

\* diagnosticInitializationForMark, for a word that is new (CompleteOnboarding).
Diagnosed ==
  /\ word.status = "new"
  /\ word' \in {[status |-> "review", easiness |-> 260, interval |-> 7, repetitions |-> 1, due |-> 7 * Day],
                [status |-> "learning", easiness |-> 240, interval |-> 1, repetitions |-> 0, due |-> Day]}
  /\ UNCHANGED reviews

-----------------------------------------------------------------------------
(* Arithmetic                                                                *)

\* A time.Duration counts nanoseconds in 64 bits: in minutes, rounded, it turns
\* over at Turn and ends at Longest.
Turn == 307445735
Longest == 153722867
Duration(minutes) == ((minutes + Longest) % Turn) - Longest

Half(n) == (n + 1) \div 2                              \* math.Round of n / 2
Hundredth(n) == {(n + 50) \div 100, (n + 49) \div 100}  \* math.Round of n / 100

\* DueAfter of an interval in days.
DueAfter(days) == Duration(days * Day)

-----------------------------------------------------------------------------
(* The reviews                                                               *)

\* AssessReview: an answer judged wrong counts as forgotten, whatever the
\* learner says of it.
Effective(rating, correct) == IF correct THEN rating ELSE "again"

\* Not the code: an interval that is cut instead of rounded, and may stay.
KnownCut(w, easiness) ==
  CASE w.repetitions = 0 -> {2}
    [] w.repetitions = 1 -> {6}
    [] OTHER             -> {(AtLeast(1, w.interval) * easiness) \div 100}

\* ScheduleReview, the interval after RatingKnown.
KnownInterval(w, easiness) ==
  CASE w.repetitions = 0 -> {2}
    [] w.repetitions = 1 -> {6}
    [] OTHER             -> {AtLeast(w.interval + 1, q) : q \in Hundredth(AtLeast(1, w.interval) * easiness)}

AlmostInterval(w) ==
  IF w.repetitions = 0 THEN 1 ELSE AtLeast(1, Half(AtLeast(1, w.interval) * 3))

\* What ScheduleReview makes of a word.
Scheduled(w, rating) ==
  CASE rating = "again" ->
         {[status |-> "learning", easiness |-> AtLeast(130, w.easiness - 20), interval |-> 0,
           repetitions |-> 0, due |-> 10]}
    [] rating = "almost" ->
         LET days == AlmostInterval(w)
         IN  {[status |-> IF w.repetitions + 1 >= 2 THEN "review" ELSE "learning",
               easiness |-> AtLeast(130, w.easiness - 5), interval |-> days,
               repetitions |-> w.repetitions + 1, due |-> DueAfter(days)]}
    [] rating = "known" ->
         LET easiness == AtMost(300, w.easiness + 10)
         IN  {[status |-> IF w.repetitions + 1 >= 5 /\ days >= 30 THEN "mastered" ELSE "review",
               easiness |-> easiness, interval |-> days,
               repetitions |-> w.repetitions + 1, due |-> DueAfter(days)] :
                days \in KnownInterval(w, easiness)}

Once == reviews < MaxReviews /\ word.interval <= MaxInterval /\ reviews' = reviews + 1

\* A review in a mode that asks: recall, choice, listening.
Review(rating, correct) ==
  /\ Once
  /\ word' \in Scheduled(word, Effective(rating, correct))

\* scheduleStudy: a card that is only shown moves a new word, and no other.
Study(rating) ==
  /\ Once
  /\ word' = IF word.status # "new" THEN word
             ELSE [word EXCEPT !.status = "learning",
                               !.due = CASE rating = "again"  -> 10
                                         [] rating = "almost" -> Day \div 2
                                         [] rating = "known"  -> Day]

Next ==
  \/ Diagnosed
  \/ \E rating \in Rating, correct \in BOOLEAN : Review(rating, correct)
  \/ \E rating \in Rating : Study(rating)

Spec == Init /\ [][Next]_vars

-----------------------------------------------------------------------------

\* The word that CompleteOnboarding has marked as known, before any review.
JustDiagnosed == word.interval = 7 /\ word.repetitions = 1

\* "Known" makes the interval longer (TestScheduleReviewKnownExpandsInterval) and
\* "almost" never makes it shorter, whatever reviews, exposures and failures came
\* before - except for a word the diagnostic has just started, whose second
\* interval of 6 days is shorter than the 7 it has; and who knows a word waits at
\* least as long as who almost does, unless the word is so hard that one and a half
\* is more than its easiness. A review is due in the future, as long as the interval
\* fits a time.Duration.
KnownWaits ==
  /\ \A w \in Scheduled(word, "known") :
       /\ w.interval > word.interval \/ JustDiagnosed
       /\ w.interval >= AlmostInterval(word) \/ JustDiagnosed \/ word.easiness <= 140
  /\ AlmostInterval(word) >= word.interval
  /\ word.status # "new" /\ word.interval * Day <= Longest => word.due > 0

=============================================================================
