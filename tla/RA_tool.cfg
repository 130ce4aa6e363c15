SPECIFICATION FairSpec
CONSTANTS
  s1 = s1
  s2 = s2
  s3 = s3
  t1 = t1
  r1 = r1
  r2 = r2
  r3 = r3
  r4 = r4
  Servers = {s1, s2}
  Tools = {t1}
  Runs = {r1, r2}
  PidOf <- OwnPid
  MaxRecovery = 1
  TornWrites = TRUE
  LongRuns = FALSE
  None = None
  Torn = Torn
PROPERTY StartSettles
CHECK_DEADLOCK FALSE
