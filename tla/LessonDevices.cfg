SPECIFICATION Spec
CONSTANTS
  Lesson = {l1, l2}
  NoLesson = NoLesson
  Word = {a, b}
  CustomWord = {}
  Config = {c}
  Answer = {x}
  LessonSize = 2
  MaxPractice = 0
  Key = {k}
  NoKey = NoKey
  Request = {r1}
  Reader = {d}
  NoRequest = NoRequest
  NoResult = NoResult
  NoRow = NoRow
SYMMETRY Symmetry
CHECK_DEADLOCK FALSE
INVARIANTS LessonsServable
PROPERTIES DiscardHasSeenEveryReview ImplementsLinearLesson
