CONSTANTS
  o1 = o1  o2 = o2  q1 = q1  q2 = q2  a = a  b = b
  k1 = k1  k2 = k2  k3 = k3  a1 = a1  a2 = a2
  Owners = {o1}
  Questions = {q1, q2}
  Multi = {}
  OptionValues = {a, b}
  Other = other
  Nobody = nobody
  NoQuestion = noQuestion
  AnyRevision = anyRevision
  MaxOptions = 2
  MaxRevision = 2
  MaxOwnerRevision = 1
  Connections = {k1, k2}
  NoConnection = noConnection
  ManyClients = FALSE
  MaxWaits = 1
  InboxMayFail = FALSE
SPECIFICATION LivenessSpec
PROPERTIES OverdueEnds NotificationArrives
CHECK_DEADLOCK FALSE
