SPECIFICATION Spec
CONSTANTS
  s1 = s1
  s2 = s2
  s3 = s3
  t1 = t1
  r1 = r1
  r2 = r2
  r3 = r3
  r4 = r4
  Servers = {s1, s2, s3}
  Tools = {}
  Runs = {r1, r2, r3, r4}
  PidOf <- ContainerPid
  MaxRecovery = 1
  TornWrites = TRUE
  LongRuns = TRUE
  None = None
  Torn = Torn
SYMMETRY ContainerSymmetry
INVARIANTS
  SingleActiveRun
  RunFitsStatus
  DiskMatchesMemory
  VerdictHasReview
  RecoveryBounded
  RecoveryHoldsLock
PROPERTIES
  ApprovedIsFinal
  KeepsLifecycle
CHECK_DEADLOCK FALSE
