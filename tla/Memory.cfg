SPECIFICATION Spec
CONSTANTS
  f1 = f1
  s1 = s1
  s2 = s2
  p1 = p1
  p2 = p2
  p3 = p3
  Files = {f1}
  Syncs = {s1, s2}
  Passes = {p1, p2}
  None = None
  Gone = Gone
  Torn = Torn
  HashLimit = 3
  PageLimit = 2
  MaxText = 4
  MaxTime = 3
SYMMETRY Symmetry
INVARIANTS
  UnchangedIsIngested
  OneAtATime
PROPERTIES
  PagesDoNotGoBack
CHECK_DEADLOCK FALSE
