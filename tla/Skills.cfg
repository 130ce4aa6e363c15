SPECIFICATION Spec
CONSTANTS
  a1 = a1
  a2 = a2
  p1 = p1
  b1 = b1
  b2 = b2
  Agents = {a1, a2}
  Projects = {p1}
  Global = Global
  Bodies = {b1, b2}
  PromoteThreshold = 2
  None = None
  MaxRows <- FileBound
  MaxTorn = 1
SYMMETRY Symmetry
INVARIANTS
  ActiveWasEarned
PROPERTIES
  DeletedStaysDeleted
CHECK_DEADLOCK FALSE
