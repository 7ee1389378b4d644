CONSTANTS
  o1 = o1  o2 = o2  q1 = q1  a = a  b = b
  Owners = {o1, o2}
  Questions = {q1}
  Multi = {}
  OptionValues = {a, b}
  Other = other
  Nobody = nobody
  NoQuestion = noQuestion
  AnyRevision = anyRevision
  Unseen = unseen
  MaxOptions = 2
  MaxRevision = 3
  MaxOwnerRevision = 3
SPECIFICATION DeskSpec
SYMMETRY Symmetry
INVARIANTS HistoryAgrees
PROPERTIES NoLostUpdate AnswerMatchesForm
