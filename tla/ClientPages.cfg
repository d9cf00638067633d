SPECIFICATION FairSpec
CONSTANTS
  MaxChanges = 2
  MaxStudyEvents = 2
  Nothing = Nothing
  Failed = Failed
  NotFound = NotFound
  Conflict = Conflict
  InvalidSize = InvalidSize
  Word = {w1, w2}
  Elsewhere = Elsewhere
  MaxCatalogEvents = 6
  MaxEntries = 3
  Other = {d}
  Slot = {c1, c2}
  MaxAccountEvents = 3
  ReviewKind <- MCReviewKind
  Noun = {1}
  Scene = {s, t}
  DaysOfWeek = 2
  StreakLimit = 2
  MaxDay = 2
  MaxHappened = 2
INVARIANTS  ResultsAreOfPlace ChangesKeepThisSession ReportHoldsTogether
 
CHECK_DEADLOCK FALSE
