CONSTANTS
  o1 = o1  o2 = o2  q1 = q1  q2 = q2  q3 = q3  q4 = q4
  Owners = {o1, o2}
  Questions = {q1, q2, q3, q4}
  NoParent = noParent
  MaxDepth = 3
  MaxChildren = 2
  MaxBatch = 1
SPECIFICATION HierarchySpec
SYMMETRY Symmetry
INVARIANTS Forest LeafWaitsForAncestors LimitsKept
