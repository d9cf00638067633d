------------------------------ MODULE MCPages ------------------------------
(***************************************************************************)
(* The pages of the application, one family of them at a time: home, learn,  *)
(* progress, profile and the lesson (StudyPages), the dictionary and the      *)
(* phrases (CatalogPages), the panels of the account (AccountPanels), or the   *)
(* report that the progress page shows (ProgressReport).                      *)
(* Their variables share the places s1, s2, ...                              *)
(***************************************************************************)
EXTENDS Naturals

CONSTANTS
  MaxChanges, MaxStudyEvents, Nothing, Failed, NotFound, Conflict, InvalidSize,
  Word, Elsewhere, MaxCatalogEvents, MaxEntries,
  Other, Slot, MaxAccountEvents,
  ReviewKind, Noun, Scene, DaysOfWeek, StreakLimit, MaxDay, MaxHappened

VARIABLES part, s1, s2, s3, s4, s5, s6, s7, s8, s9, s10, s11, s12

vars == <<part, s1, s2, s3, s4, s5, s6, s7, s8, s9, s10, s11, s12>>

S == INSTANCE StudyPages WITH
       MaxEvents <- MaxStudyEvents,
       server <- s1, session <- s2, cache <- s3, page <- s4, loads <- s5, action <- s6, overlap <- s7,
       happened <- s8, changes <- s9

C == INSTANCE CatalogPages WITH
       MaxEvents <- MaxCatalogEvents,
       route <- s1, guest <- s2, entries <- s3, at <- s4, shown <- s5, snapshot <- s6, view <- s7,
       load <- s8, late <- s9, crossed <- s10, practice <- s11, happened <- s12

A == INSTANCE AccountPanels WITH
       MaxEvents <- MaxAccountEvents,
       server <- s1, cookie <- s2, page <- s3, panels <- s4, calls <- s5, crossed <- s6, happened <- s7

Progress == INSTANCE ProgressReport WITH
              None <- Nothing, Kind <- ReviewKind,
              day <- s1, reviews <- s2, scenarios <- s3, step <- s4, report <- s5, held <- s6,
              shown <- s7, happened <- s8

\* A word that is asked both ways, right and wrong, and one of each other mode.
Review(word, mode, correct, session) ==
  [word |-> word, mode |-> mode, correct |-> correct, known |-> correct, session |-> session]
MCReviewKind == {Review(1, "recall", TRUE, "review"), Review(1, "recall", FALSE, "review"),
                 Review(2, "choice", TRUE, "study"), Review(2, "listening", TRUE, "review")}

Study == part = "study"
Catalog == part = "catalog"
Account == part = "account"
Report == part = "report"

Init ==
  \/ /\ part = "study"
     /\ S!Init
     /\ s10 = Nothing /\ s11 = Nothing /\ s12 = Nothing
  \/ part = "catalog" /\ C!Init
  \/ /\ part = "account"
     /\ A!Init
     /\ s8 = Nothing /\ s9 = Nothing /\ s10 = Nothing /\ s11 = Nothing /\ s12 = Nothing
  \/ /\ part = "report"
     /\ Progress!Init
     /\ s9 = Nothing /\ s10 = Nothing /\ s11 = Nothing /\ s12 = Nothing

Next ==
  \/ Study /\ S!Next /\ UNCHANGED <<part, s10, s11, s12>>
  \/ Catalog /\ C!Next /\ UNCHANGED part
  \/ Account /\ A!Next /\ UNCHANGED <<part, s8, s9, s10, s11, s12>>
  \/ Report /\ Progress!Next /\ UNCHANGED <<part, s9, s10, s11, s12>>

\* The fairness of the family that is on screen.
Fairness ==
  /\ WF_vars(Study /\ S!Handler /\ UNCHANGED <<part, s10, s11, s12>>)
  /\ WF_vars(Catalog /\ C!Handler /\ UNCHANGED part)
  /\ WF_vars(Account /\ A!Handler /\ UNCHANGED <<part, s8, s9, s10, s11, s12>>)

Spec == Init /\ [][Next]_vars

FairSpec == Spec /\ Fairness

-----------------------------------------------------------------------------

\* StudyPages: what is kept for the next page is what the server would say.
CacheIsCurrent == Study => S!CacheIsCurrent

\* CatalogPages: the page shows the place of the URL, and a list or a card at
\* rest is of that place.
ResultsAreOfPlace == Catalog => C!ResultsAreOfPlace

\* AccountPanels: changing the password costs no session but the others'.
ChangesKeepThisSession == Account => A!ChangesKeepThisSession

\* ProgressReport: what the queries of a report say, one after the other, agrees.
ReportHoldsTogether == Report => Progress!ReportHoldsTogether

\* A panel, a list or a card that loads comes to show what it has or its error
\* (docs/frontend-async-states.md), whatever is aborted, retried or left; and so
\* does a panel of the account, or the session it has ended is restored.
PagesSettle ==
  /\ \A w \in S!Resource : []<>~(Study /\ s4.is[w] = "loading")
  /\ \A w \in C!Resource : []<>~(Catalog /\ s7[w].is = "loading" /\ C!Wanted(w, s5) # Nothing)
  /\ []<>~(Account /\ s3.is = "restoring")
  /\ []<>~(Account /\ s3.is = "live" /\ (s4.loading \/ "security" \in s4.busy))
=============================================================================
