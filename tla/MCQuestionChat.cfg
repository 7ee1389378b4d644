CONSTANTS
  s1 = s1  s2 = s2  c1 = c1
  Questions = {1}
  Sessions = {s1}
  Nobody = nobody
  Source <- AllFromOne
  CommandIds = {c1}
  NoCommandId = noCommand
  RecoveryMayFail = FALSE
  MaxCalls = 3
  MaxConnections = 2
  MaxUpsets = 1
SPECIFICATION Spec
INVARIANTS RecoveryConcludes  ExecutedOnce
PROPERTIES SuccessIsTrue
CHECK_DEADLOCK FALSE
