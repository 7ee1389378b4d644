SPECIFICATION Spec
CONSTANTS
  production = production
  dev = dev
  ask1 = ask1
  ask2 = ask2
  none = none
  Targets = {production, dev}
  Asks = {ask1}
  None = none
  MaxCuts = 0
  MaxSwitches = 1
  MaxQueries = 0
CHECK_DEADLOCK FALSE
SYMMETRY AnyServer
INVARIANTS HeartbeatWhileConnected
