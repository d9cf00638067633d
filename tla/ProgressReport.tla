--------------------------- MODULE ProgressReport ---------------------------
(***************************************************************************)
(* The progress of a learner: a dozen queries of the service, one after the   *)
(* other and each with a snapshot of its own                                 *)
(* (backend/internal/learning/repository.go, listening_progress.go,          *)
(* weekly_part_of_speech.go, scenario_progress.go), while the learner goes on *)
(* in another tab and the day may end; and what the client takes of them      *)
(* (frontend/lib/account-resources.ts, lib/progress.ts,                      *)
(* components/progress-evidence-dashboard.tsx). A day is a day of the         *)
(* learner's time zone. Left out are the queue, which module Scheduler fills, *)
(* the daily goal and the lessons, which are numbers read alone, and the      *)
(* events of the schema before the modes.                                    *)
(***************************************************************************)
EXTENDS Totals, FiniteSetsExt, SequencesExt

CONSTANTS
  Kind,          \* the reviews that happen: [word, mode, correct, known, session]
  Noun,          \* the words whose part of speech a lesson can be composed of
  Scene,         \* the scenarios of the catalogue
  DaysOfWeek,    \* seven in the code
  StreakLimit,   \* the days the streaks are read from: 730 in the code
  None,
  MaxDay,        \* bound: the last day
  MaxHappened    \* bound: the reviews, the deletions and the scenarios

VARIABLES
  day,           \* the day it is
  reviews,       \* day -> kind -> how many (review_events)
  scenarios,     \* scenario -> its attempts (scenario_attempts)
  step,          \* the query the request is at
  report,        \* what its queries have answered
  held,          \* no midnight and no deletion since it began
  shown,         \* what the page made of it
  happened

vars == <<day, reviews, scenarios, step, report, held, shown, happened>>

Days == 0..MaxDay
Words == {k.word : k \in Kind}
Steps == <<"processes", "today", "retained", "weekly", "trend", "topics", "days",
           "listening", "parts", "completed", "recommendation", "answered">>

TypeOK ==
  /\ day \in Days
  /\ reviews \in [Days -> [Kind -> 0..MaxHappened]]
  /\ scenarios \in [Scene -> [done : [Days -> 0..MaxHappened], open : BOOLEAN]]
  /\ step \in ToSet(Steps) \union {"idle"}
  /\ shown \in {"nothing", "loading", "report", "empty", "error"}
  /\ happened \in 0..MaxHappened

Init ==
  /\ day = 0
  /\ reviews = [d \in Days |-> [k \in Kind |-> 0]]
  /\ scenarios = [s \in Scene |-> [done |-> [d \in Days |-> 0], open |-> FALSE]]
  /\ step = "idle"
  /\ report = [began |-> None]
  /\ held = TRUE
  /\ shown = "nothing"
  /\ happened = 0

-----------------------------------------------------------------------------
(* Counting                                                                  *)

\* count(*) filter (...): the reviews of the kinds on the days.
Count(days, kinds) ==
  SumOf([e \in days \X kinds |-> reviews[e[1]][e[2]]])

In(modes) == {k \in Kind : k.mode \in modes}
Correct(kinds) == {k \in kinds : k.correct}
OfReview(kinds) == {k \in kinds : k.session = "review"}

\* dateOnly and startOfWeek; the days of the week that is n weeks before.
WeekOf(d, n) == {e \in Days : e \div DaysOfWeek = d \div DaysOfWeek - n}

\* percentage.
Percentage(successful, attempts) ==
  IF attempts <= 0 THEN 0 ELSE (successful * 100 + attempts \div 2) \div attempts

\* Attempts, those that were right, and their share.
Evidence(days, kinds) ==
  LET attempts == Count(days, kinds)
      successful == Count(days, Correct(kinds))
  IN  [attempts |-> attempts, successful |-> successful, rate |-> Percentage(successful, attempts)]

ReviewDays == {d \in Days : Count({d}, Kind) > 0}

\* order by review_day desc limit 730.
Newest(days) == {d \in days : Cardinality({e \in days : e > d}) < StreakLimit}

\* calculateStreaks: the longest run of days, and the one that ends today or
\* yesterday - unless a newer day is known than the clock of the request.
Run(days, last) == Max({0} \union {n \in 1..(MaxDay + 1) : (last - n + 1)..last \subseteq days})
Longest(days) == Max({0} \union {Run(days, d) : d \in days})
Current(days, today) ==
  CASE days = {}                -> 0
    [] Max(days) = today - 1    -> Run(days, today - 1)
    [] Max(days) = today        -> Run(days, today)
    [] OTHER                    -> 0

-----------------------------------------------------------------------------
(* The request                                                               *)

\* GET of the progress, or PUT of the daily goal, which answers with it. Progress
\* reads its clock once: the week of most queries is the one of that moment.
Load ==
  /\ step = "idle"
  /\ step' = "processes"
  /\ report' = [began |-> day]
  /\ held' = TRUE
  /\ shown' = "loading"
  /\ UNCHANGED <<day, reviews, scenarios, happened>>

\* The fields of a record with those of another behind them.
Joined(fields, others) ==
  [x \in DOMAIN fields \union DOMAIN others |-> IF x \in DOMAIN fields THEN fields[x] ELSE others[x]]

\* The answer of a query is added to the report.
Query(name, fields) ==
  /\ step = name
  /\ report' = Joined(fields, report)
  /\ step' = Steps[CHOOSE i \in DOMAIN Steps : i > 1 /\ Steps[i - 1] = name]
  /\ UNCHANGED <<day, reviews, scenarios, held, shown, happened>>

ReadProcesses ==
  LET week == WeekOf(report.began, 0)
  IN  Query("processes",
            [retention |-> Evidence(week, OfReview(In({"recall", "listening"})))])

\* The query over all events: today is the day of the database.
ReadToday ==
  Query("today",
        [reviewsToday |-> Count({day}, Kind),
         objective    |-> Count({day}, In({"recall", "choice"})),
         successful   |-> Count({day}, Correct(In({"recall", "choice"}))),
         reviewsTotal |-> Count(Days, Kind)])

\* The words recalled this week, by the clock of the database, and in an earlier.
ReadRetained ==
  LET recalled(days) == {w \in Words : Count(days, {k \in Correct(In({"recall"})) :
                                      k.word = w /\ k.known /\ k.session \in {"review", None}}) > 0}
      week == WeekOf(day, 0)
  IN  Query("retained",
            [retained |-> Cardinality(recalled(week) \intersect
                                      recalled({d \in Days : d < Min(week)}))])

ReadWeekly ==
  LET week == WeekOf(report.began, 0)
  IN  Query("weekly",
            [recall   |-> Evidence(week, In({"recall"})),
             previous |-> Evidence(WeekOf(report.began, 1), In({"recall"})),
             choice   |-> Evidence(week, In({"choice"})),
             reviews  |-> Count(week, Kind)])

ReadTrend ==
  LET week == WeekOf(report.began, 0)
  IN  Query("trend", [trend |-> [i \in 1..DaysOfWeek |->
                                   LET d == DaysOfWeek * (report.began \div DaysOfWeek) + i - 1
                                   IN  Evidence({d} \intersect week, In({"recall"}))]])

\* Topics with errors, and the best of those that were asked twice (all that are as
\* good); each word is a topic of its own.
ReadTopics ==
  LET week == WeekOf(report.began, 0)
      of(w) == Evidence(week, {k \in In({"recall"}) : k.word = w})
  IN  Query("topics",
            [weak   |-> {Joined([topic |-> w], of(w)) : w \in {w \in Words : of(w).attempts > of(w).successful}},
             strong |-> {Joined([topic |-> w], of(w)) :
                           w \in {w \in Words : /\ of(w).attempts >= 2
                                                /\ \A v \in Words : of(v).attempts >= 2 => of(v).rate <= of(w).rate}}])

ReadDays ==
  LET days == Newest(ReviewDays)
  IN  Query("days", [current |-> Current(days, report.began), longest |-> Longest(days)])

\* Not the code: the attempts are left to the query over all events.
SuccessesOnly ==
  LET asked == Evidence({day}, In({"listening"}))
  IN  Query("listening",
            [listening  |-> asked,
             successful |-> report.successful + asked.successful])

\* populateListeningProgress: a mode the query over all events has not counted as
\* an answer; today may be another day by now.
ReadListening ==
  LET asked == Evidence({day}, In({"listening"}))
  IN  Query("listening",
            [listening  |-> asked,
             objective  |-> report.objective + asked.attempts,
             successful |-> report.successful + asked.successful])

\* populateWeakPartOfSpeechEvidence reads the clock again.
ReadParts ==
  LET asked == Evidence(WeekOf(day, 0), {k \in In({"recall"}) : k.word \in Noun})
  IN  Query("parts", [weakParts |-> IF asked.attempts > asked.successful
                                    THEN {Joined([part |-> "noun"], asked)} ELSE {}])

\* populateScenarioProgress; it reads the clock again, too.
Completed(s, days) == SumOf([d \in days |-> scenarios[s].done[d]])
LastCompleted(s) ==
  IF Completed(s, Days) = 0 THEN None ELSE Max({d \in Days : scenarios[s].done[d] > 0})

ReadCompleted ==
  Query("completed",
        [completedTotal |-> SumOf([s \in Scene |-> Completed(s, Days)]),
         completedWeek  |-> SumOf([s \in Scene |-> Completed(s, WeekOf(day, 0))])])

\* One that is open, else one that was never completed, else the one completed
\* longest ago. The order within the first two is left open.
ReadRecommendation ==
  LET open == {s \in Scene : scenarios[s].open}
      fresh == {s \in Scene : Completed(s, Days) = 0}
      first == IF open # {} THEN [of |-> open, reason |-> "resume_in_progress"]
               ELSE IF fresh # {} THEN [of |-> fresh, reason |-> "first_uncompleted"]
               ELSE [of |-> {s \in Scene : \A r \in Scene : LastCompleted(s) <= LastCompleted(r)},
                     reason |-> "least_recently_completed"]
  IN  \E s \in first.of :
        Query("recommendation",
              [recommended |-> [reason    |-> first.reason,
                                action    |-> IF open # {} THEN "resume" ELSE "start",
                                completed |-> Completed(s, Days),
                                last      |-> LastCompleted(s)]])

-----------------------------------------------------------------------------
(* The client                                                                *)

IsPercentage(n) == n \in 0..100
IsEvidence(e) == e.attempts >= 0 /\ e.successful >= 0 /\ IsPercentage(e.rate)

\* isScenarioRecommendation: the reason tells the action and the history.
IsRecommendation(r) ==
  CASE r.reason = "resume_in_progress" -> r.action = "resume"
    [] r.reason = "first_uncompleted"  -> r.action = "start" /\ r.completed = 0 /\ r.last = None
    [] OTHER                           -> r.action = "start" /\ r.completed > 0 /\ r.last # None

\* isProgressSummaryPayload.
Accepted ==
  /\ IsEvidence(report.recall) /\ IsEvidence(report.previous) /\ IsEvidence(report.choice)
  /\ Len(report.trend) = DaysOfWeek /\ \A i \in 1..DaysOfWeek : IsEvidence(report.trend[i])
  /\ \A e \in report.weak \union report.strong \union report.weakParts : IsEvidence(e)
  /\ IsEvidence(report.retention) /\ report.retention.successful <= report.retention.attempts
  /\ report.completedWeek <= report.completedTotal
  /\ IsRecommendation(report.recommended)

\* objectiveSuccessRate.
SuccessRate == Percentage(report.successful, report.objective)

\* authorizedJSON refuses an answer that is not accepted; the dashboard is empty
\* before the first review.
Show ==
  /\ step = "answered" /\ shown = "loading"
  /\ shown' = IF ~Accepted THEN "error"
              ELSE IF report.reviewsTotal = 0 THEN "empty" ELSE "report"
  /\ UNCHANGED <<day, reviews, scenarios, step, report, held, happened>>

-----------------------------------------------------------------------------
(* What happens meanwhile                                                    *)

\* A behaviour ends with its report: the next request starts from the tables alone.
Open == shown \in {"nothing", "loading"}

Happens == Open /\ happened < MaxHappened /\ happened' = happened + 1

Review(k) ==
  /\ Happens
  /\ reviews' = [reviews EXCEPT ![day][k] = @ + 1]
  /\ UNCHANGED <<day, scenarios, step, report, held, shown>>

\* DeleteCustomWord: its reviews go with it.
DeleteWord(w) ==
  /\ Happens
  /\ reviews' = [d \in Days |-> [k \in Kind |-> IF k.word = w THEN 0 ELSE reviews[d][k]]]
  /\ held' = FALSE
  /\ UNCHANGED <<day, scenarios, step, report, shown>>

StartScenario(s) ==
  /\ Happens
  /\ ~scenarios[s].open
  /\ scenarios' = [scenarios EXCEPT ![s].open = TRUE]
  /\ UNCHANGED <<day, reviews, step, report, held, shown>>

CompleteScenario(s) ==
  /\ Open /\ scenarios[s].open
  /\ scenarios' = [scenarios EXCEPT ![s].open = FALSE, ![s].done[day] = @ + 1]
  /\ UNCHANGED <<day, reviews, step, report, held, shown, happened>>

Midnight ==
  /\ Open /\ day < MaxDay
  /\ day' = day + 1
  /\ held' = FALSE
  /\ UNCHANGED <<reviews, scenarios, step, report, shown, happened>>

Next ==
  \/ Load
  \/ ReadProcesses \/ ReadToday \/ ReadRetained \/ ReadWeekly \/ ReadTrend \/ ReadTopics
  \/ ReadDays \/ ReadListening \/ ReadParts \/ ReadCompleted \/ ReadRecommendation
  \/ Show
  \/ \E k \in Kind : Review(k)
  \/ \E w \in Words : DeleteWord(w)
  \/ \E s \in Scene : StartScenario(s) \/ CompleteScenario(s)
  \/ Midnight

Spec == Init /\ [][Next]_vars

-----------------------------------------------------------------------------

\* The client takes every report of the service, torn as it may be by reviews,
\* deletions and midnight between its queries, and no share of it is more than all.
\* Without a midnight or a deletion its parts agree: an answer of today has its day
\* in the streak, what is retained this week was recalled this week, and the trend
\* and the weak topics, which are read later, leave out nothing the totals count
\* (repository.go, the order of the queries of Progress).
ReportHoldsTogether ==
  /\ shown # "error"
  /\ shown \in {"report", "empty"} =>
       /\ IsPercentage(SuccessRate)
       /\ report.current <= report.longest
       /\ held => /\ report.reviewsToday > 0 => report.current > 0
                  /\ report.retained <= report.recall.successful
                  /\ report.recall.attempts <= SumOf([i \in DOMAIN report.trend |-> report.trend[i].attempts])
                  /\ report.recall.successful < report.recall.attempts => report.weak # {}
                  /\ report.reviewsToday <= report.reviews
=============================================================================
