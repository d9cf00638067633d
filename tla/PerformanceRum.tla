-------------------------- MODULE PerformanceRum --------------------------
(***************************************************************************)
(* The measurements of a tab (src/frontend/lib/performance-rum.ts,           *)
(* src/frontend/components/web-vitals-reporter.tsx): samples are gathered     *)
(* into a report of one route and sent when the report is full, when a        *)
(* sample of another route comes, after five seconds, and when the page is    *)
(* hidden or left. A tab is in the sample or out of it, and a visitor who      *)
(* objects adds nothing from then on.                                        *)
(***************************************************************************)
EXTENDS SequencesExt

CONSTANTS
  None, Route,
  MaxBatchSize,   \* MAX_BATCH_SIZE, and MaxSamplesPerReport of the server
  TaskSamples,    \* samples that sum up the long tasks of a route
  MaxSamples      \* bound: samples taken

VARIABLES
  route, initial,       \* the route that is shown and the one the document began with
  queue,                \* activeReport, flushTimer and the reports that were sent
  decision, stored,     \* samplingDecision and what sessionStorage keeps of it
  objects,              \* the visitor's browser asks not to be tracked
  monitor,              \* the route whose long tasks are watched, and whether there were any
  observing, painting,  \* the clicks are watched; clicks whose frames are not painted yet
  taken                 \* ids of the samples taken

vars == <<route, initial, queue, decision, stored, objects, monitor, observing, painting, taken>>

\* of: the route the sample was measured on; the report of a click names none.
Sample == [id : 1..MaxSamples, of : Route \cup {None}]
Report == [route : Route, samples : Seq(Sample)]
EmptyQueue == [report |-> None, timer |-> FALSE, sent |-> <<>>]

TypeOK ==
  /\ route \in Route /\ initial \in Route
  /\ queue.report \in Report \cup {None} /\ queue.timer \in BOOLEAN /\ queue.sent \in Seq(Report)
  /\ decision \in {"", "1", "0"} /\ stored \in {"", "1", "0", "blocked"} /\ objects \in BOOLEAN
  /\ monitor \in [route : Route \cup {None}, tasks : BOOLEAN]
  /\ observing \in BOOLEAN /\ painting \in 0..MaxSamples /\ taken \in 0..MaxSamples

-----------------------------------------------------------------------------

\* What isCollectionEnabled can answer, and what the answer leaves behind.
Answers ==
  IF objects THEN {"0"}
  ELSE IF decision # "" THEN {decision}
  ELSE IF stored \in {"1", "0"} THEN {stored} ELSE {"1", "0"}

Asks(answer) ==
  /\ answer \in Answers
  /\ decision' = IF objects THEN decision ELSE answer
  /\ stored' = IF objects \/ stored = "blocked" \/ decision # "" THEN stored ELSE answer

Watch(r, answer) == [route |-> IF answer = "1" THEN r ELSE None, tasks |-> FALSE]

Flush(q) ==
  [EmptyQueue EXCEPT !.sent = q.sent \o (IF q.report = None THEN <<>> ELSE <<q.report>>)]

\* Not the code: the report that waits takes samples of every route.
EnqueueAny(q, sample, r) ==
  LET held == IF q.report = None THEN [route |-> r, samples |-> <<>>] ELSE q.report
      report == [held EXCEPT !.samples = Append(@, sample)]
      pushed == [q EXCEPT !.report = report, !.timer = TRUE]
  IN  IF Len(report.samples) >= MaxBatchSize THEN Flush(pushed) ELSE pushed

\* q once sample is in it, in a report of r.
Enqueue(q, sample, r) ==
  LET other == IF q.report # None /\ q.report.route # r THEN Flush(q) ELSE q
      held == IF other.report = None THEN [route |-> r, samples |-> <<>>] ELSE other.report
      report == [held EXCEPT !.samples = Append(@, sample)]
      pushed == [other EXCEPT !.report = report, !.timer = TRUE]
  IN  IF Len(report.samples) >= MaxBatchSize THEN Flush(pushed) ELSE pushed

\* q once count samples measured on of are in it, in reports of r.
EnqueueAll(q, count, of, r) ==
  LET after[n \in 0..count] ==
        IF n = 0 THEN q ELSE Enqueue(after[n - 1], [id |-> taken + n, of |-> of], r)
  IN  after[count]

Takes(of, r) ==
  \E answer \in Answers :
     /\ Asks(answer)
     /\ \/ /\ answer = "1"
           /\ taken < MaxSamples
           /\ taken' = taken + 1
           /\ queue' = EnqueueAll(queue, 1, of, r)
        \/ /\ answer = "0"
           /\ UNCHANGED <<queue, taken>>

Init ==
  /\ route \in Route /\ initial = route
  /\ objects \in BOOLEAN
  /\ decision \in IF objects THEN {""} ELSE {"1", "0"}
  /\ stored \in {decision, "blocked"}
  /\ monitor = Watch(route, decision)
  /\ observing = (decision = "1")
  /\ queue = EmptyQueue /\ painting = 0 /\ taken = 0

-----------------------------------------------------------------------------

\* A measurement of the document, or of the route that is shown.
WebVital(r) ==
  /\ r \in {initial, route}
  /\ Takes(r, r)
  /\ UNCHANGED <<route, initial, objects, monitor, observing, painting>>

LongTask ==
  /\ monitor.route # None
  /\ monitor' = [monitor EXCEPT !.tasks = TRUE]
  /\ UNCHANGED <<route, initial, queue, decision, stored, objects, observing, painting, taken>>

\* A click that starts a lesson or answers a card.
Click ==
  /\ observing
  /\ painting + taken < MaxSamples
  /\ painting' = painting + 1
  /\ UNCHANGED <<route, initial, queue, decision, stored, objects, monitor, observing, taken>>

\* Two frames later, on whatever route is shown by then.
Painted ==
  /\ painting > 0
  /\ painting' = painting - 1
  /\ Takes(None, route)
  /\ UNCHANGED <<route, initial, objects, monitor, observing>>

\* The long tasks of the route that is left are summed up, unless the visitor
\* objects by now, and the queue is sent with them.
Navigate(r) ==
  /\ r # route
  /\ route' = r
  /\ \/ /\ monitor.tasks /\ ~objects
        /\ taken + TaskSamples <= MaxSamples
        /\ taken' = taken + TaskSamples
        /\ queue' = Flush(EnqueueAll(queue, TaskSamples, monitor.route, monitor.route))
     \/ /\ monitor.tasks /\ objects
        /\ queue' = Flush(queue)
        /\ UNCHANGED taken
     \/ /\ ~monitor.tasks
        /\ UNCHANGED <<queue, taken>>
  /\ \E answer \in Answers : Asks(answer) /\ monitor' = Watch(r, answer)
  /\ UNCHANGED <<initial, objects, observing, painting>>

\* The five seconds are over.
FlushTimer ==
  /\ queue.timer
  /\ queue' = Flush(queue)
  /\ UNCHANGED <<route, initial, decision, stored, objects, monitor, observing, painting, taken>>

\* The page is hidden, which a report does not wait for.
Hide ==
  /\ queue' = Flush(queue)
  /\ UNCHANGED <<route, initial, decision, stored, objects, monitor, observing, painting, taken>>

\* The page is left with what it measured, and the tab loads another document.
Reload ==
  /\ queue' = Flush(queue)
  /\ initial' = route
  /\ \E answer \in IF objects THEN {"0"} ELSE IF stored \in {"1", "0"} THEN {stored} ELSE {"1", "0"} :
        /\ decision' = IF objects THEN "" ELSE answer
        /\ stored' = IF objects \/ stored = "blocked" THEN stored ELSE answer
        /\ monitor' = Watch(route, answer)
        /\ observing' = (answer = "1")
  /\ painting' = 0
  /\ UNCHANGED <<route, objects, taken>>

\* The visitor changes their mind in the settings of the browser.
Object ==
  /\ objects' = ~objects
  /\ UNCHANGED <<route, initial, queue, decision, stored, monitor, observing, painting, taken>>

Next ==
  \/ \E r \in Route : WebVital(r) \/ Navigate(r)
  \/ LongTask \/ Click \/ Painted
  \/ FlushTimer \/ Hide \/ Reload \/ Object

-----------------------------------------------------------------------------

Reports == queue.sent \o (IF queue.report = None THEN <<>> ELSE <<queue.report>>)

\* Every sample is in one report, once: the one that waits, which is sent within
\* five seconds, or one that was sent; no report is longer than the server takes
\* it, and but for clicks each sample is in a report of the route it was measured
\* on, however late it comes (enqueueSample, flushPerformanceQueue and the
\* captured route of startLongTaskMonitoring). A tab that is out of the sample
\* sends nothing.
ReportsAreTrue ==
  /\ \A n \in 1..taken :
        Cardinality({at \in (1..Len(Reports)) \X (1..MaxBatchSize) :
                       /\ at[2] <= Len(Reports[at[1]].samples)
                       /\ Reports[at[1]].samples[at[2]].id = n}) = 1
  /\ \A report \in Range(Reports) :
        /\ Len(report.samples) \in 1..MaxBatchSize
        /\ \A sample \in Range(report.samples) : sample.of \in {report.route, None}
  /\ queue.timer <=> queue.report # None
  /\ stored = "0" => Reports = <<>>

=============================================================================
