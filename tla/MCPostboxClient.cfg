SPECIFICATION Spec
CONSTANTS
  production = production
  dev = dev
  ask1 = ask1
  ask2 = ask2
  none = none
  Targets = {production, dev}
  Asks = {ask1}
  None = none
  MaxCuts = 1
  MaxSwitches = 1
  MaxQueries = 1
CHECK_DEADLOCK FALSE
SYMMETRY AnyServer
INVARIANTS ReportsMatchServer LocalOutcomeReachesOrigin CallersHearBack
