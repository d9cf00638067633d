SPECIFICATION FairSpec
CONSTANTS
  Tab = {t1, t2}
  ConflictRetries = 1
  RestoreRetries = 1
  MaxLogins = 2
  MaxLosses = 1
  MaxEvents = 1
CHECK_DEADLOCK FALSE
INVARIANTS
  ReuseTakesALoss
PROPERTIES
  NoFalseLogout
  RestoreSettles
