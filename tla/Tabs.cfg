SPECIFICATION Spec
CONSTANTS
  r1 = r1
  r2 = r2
  a1 = a1
  Requests = {r1, r2}
  Agents = {a1}
  Root = Root
  None = None
  MaxTab = 6
  MaxBegun = 3
  MaxClosed = 2
SYMMETRY Symmetry
INVARIANTS
  OwnerOpenedIt
  ActiveOpen
  Undone
CHECK_DEADLOCK FALSE
