SPECIFICATION Spec
CONSTANTS
  c1 = c1
  c2 = c2
  c3 = c3
  t1 = t1
  t2 = t2
  Calls = {c1, c2, c3}
  Tabs = {t1, t2}
  None = None
INVARIANTS
  Exclusive
  FirstComeFirstServed
  OverlapOnlyWhenLate
PROPERTIES
  ChainOpens
CHECK_DEADLOCK FALSE
