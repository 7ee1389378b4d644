CONSTANTS
  k1 = k1  k2 = k2  k3 = k3  a1 = a1  a2 = a2
  Answers = {a1, a2}
  Connections = {k1, k2}
  NoConnection = noConnection
  ManyClients = FALSE
  MaxWaits = 1
  InboxMayFail = TRUE
SPECIFICATION Spec
SYMMETRY Symmetry
INVARIANTS NoSilentDelivery DisplacedWaitSettled
PROPERTIES QuietWhileWaiting
CHECK_DEADLOCK FALSE
