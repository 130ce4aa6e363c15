SPECIFICATION LockSpec
CONSTANTS
  p1 = p1
  p2 = p2
  p3 = p3
  Lockers = {p1, p2, p3}
  LongHold = FALSE
  NoFile = NoFile
SYMMETRY Symmetry
INVARIANTS
  ExclusiveUnlessReaped
  ReleasesOwnLock
