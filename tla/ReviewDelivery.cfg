SPECIFICATION FairSpec
CONSTANTS
  Tab = {t1}
  LessonTab = {t1}
  Item = {o1, o2}
  Answer = {x, y}
  Refused = {y}
  NoAnswer = NoAnswer
  MaxKey = 2
  MaxEvents = 2
CHECK_DEADLOCK FALSE
PROPERTY AnswersSettle
