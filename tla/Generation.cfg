SPECIFICATION Spec
CONSTANTS
  p1 = p1
  p2 = p2
  r1 = r1
  r2 = r2
  Points = {p1, p2}
  Batches = {{p1}, {p2}}
  Requests = {r1, r2}
  MaxConcurrency = 2
  MaxCases = 2
  MaxText = 2
  MaxCrashes = 1
SYMMETRY Symmetry
INVARIANTS
  EveryPointHasCase
  CompletedIsReviewed
  LastReviewCompletes
  NoFalseRun
  ScriptFitsText
CHECK_DEADLOCK FALSE
