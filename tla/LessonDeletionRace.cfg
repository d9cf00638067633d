SPECIFICATION Spec
CONSTANTS
  Lesson = {l1}
  NoLesson = NoLesson
  Word = {a, b}
  CustomWord = {b}
  Config = {c}
  Answer = {x}
  LessonSize = 2
  MaxPractice = 1
  Key = {k}
  NoKey = NoKey
  Request = {r1}
  Reader = {d}
  NoRequest = NoRequest
  NoResult = NoResult
  NoRow = NoRow
SYMMETRY Symmetry
CHECK_DEADLOCK FALSE
INVARIANT NoActiveLessonLosesItems
