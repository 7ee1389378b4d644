CONSTANTS
  s1 = s1  s2 = s2  c1 = c1
  Questions = {1, 2}
  Sessions = {s1}
  Nobody = nobody
  Source <- AllFromOne
  CommandIds = {}
  NoCommandId = noCommand
  RecoveryMayFail = FALSE
  MaxCalls = 2
  MaxConnections = 3
  MaxUpsets = 0
SPECIFICATION Spec
INVARIANTS RecoveryConcludes
CHECK_DEADLOCK FALSE
