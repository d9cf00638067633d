SPECIFICATION FairSpec
CONSTANTS
  Lesson = {1, 2}
  Word = {1, 2, 3}
  Items <- MCItems
  Patient = TRUE
  MaxEvents = 3
CHECK_DEADLOCK FALSE
INVARIANTS
  CardFollowsServer
  ResultIsOfCompletedLesson
PROPERTY LessonEnds
