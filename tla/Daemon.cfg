SPECIFICATION Spec
CONSTANTS
  c1 = c1
  c2 = c2
  c3 = c3
  Clis = {c1, c2}
  MaxServer = 6
  None = None
  Past = Past
  MaxFaults = 1
  MaxReused = 1
INVARIANTS
  OneStarter
  OneServer
PROPERTIES
  CliEnds
CHECK_DEADLOCK FALSE
