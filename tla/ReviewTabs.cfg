SPECIFICATION Spec
CONSTANTS
  Tab = {t1, t2}
  LessonTab = {t1, t2}
  Item = {o1, o2}
  Answer = {x, y}
  Refused = {}
  NoAnswer = NoAnswer
  MaxKey = 2
  MaxEvents = 1
SYMMETRY Symmetry
CHECK_DEADLOCK FALSE
INVARIANTS
  SyncedMeansRecorded
  FailedMeansRefused
  KeysNameOneAnswer
  QueueStaysWithItsAccount
