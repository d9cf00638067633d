SPECIFICATION Spec
CONSTANTS
  Tab = {t1, t2}
  Text = {a, b}
  Nothing = Nothing
  Empty = Empty
  ScenarioSteps = 2
  MaxAttempts = 2
  MaxScenarioEvents = 4
  DiagnosticWords = 2
  MaxOnboardingCalls = 1
  MaxOnboardingEvents = 1
  MaxBuild = 2
  MaxUpdateEvents = 4
  MaxRecorderCalls = 6
  MaxSpeechSteps = 7
  Key = {k, l}
  Dialog = {d}
  MaxItems = 3
  MeasuredRoute = {r1, r2}
  MaxBatchSize = 3
  TaskSamples = 2
  MaxSamples = 4
  Scroll = {0, 1}
  MaxHistory = 3
  MaxMoves = 4
  ReminderPlace = {p, q}
  TicksPerDay = 2
  Toggled = {0, 6}
  Now = {0, 9, 13}
  MaxEdits = 3
  MaxChanges = 4
  MaxReviews = 11
  MaxInterval = 120000
  Learner = {u, v}
  Moderator = {m, n}
  Form = {f, g}
  Style = {x, y}
  MaxSuggestions = 2
  MaxRequests = 2
  MaxLinkEvents = 4
INVARIANTS  NoReloadLoop RecordingIsPrivate NoStaleAudio
           ToastsTakeTurns ReportsAreTrue RouteIsTheLearners ReminderIsNext StoredIsShown
           LinksAreKept KnownWaits DecisionsStand
PROPERTIES MarksAreKept
CHECK_DEADLOCK FALSE
