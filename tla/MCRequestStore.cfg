CONSTANTS
  o1 = o1  o2 = o2  q1 = q1  q2 = q2  a = a  b = b
  Owners = {o1, o2}
  Questions = {q1, q2}
  Multi = {q2}
  OptionValues = {a, b}
  Other = other
  Nobody = nobody
  NoQuestion = noQuestion
  AnyRevision = anyRevision
  MaxOptions = 2
  MaxRevision = 2
  MaxOwnerRevision = 2
SPECIFICATION Spec
CONSTRAINT FewOptions
SYMMETRY Symmetry
INVARIANTS TypeOK WaitIsActionable ResolutionRecorded
PROPERTIES TerminalIsFinal WakeIsJustified ImplementsHandoff
