SPECIFICATION FairSession
CONSTANTS
  c1 = c1
  c2 = c2
  c3 = c3
  c4 = c4
  member = member
  guest = guest
  comic = comic
  default = default
  player = player
  mine = mine
  Cases = {c1, c2, c3, c4}
  LoginOf <- MCLoginOf
  EntryOf <- MCEntryOf
  ModuleOf <- MCModuleOf
  ModeOf <- MCModeOf
  Anchored = {mine}
  LoggedOut = guest
  ModuleDefault = default
  NoModule = NoModule
  Nothing = Nothing
  Budget = 2
  SelfHeal = TRUE
INVARIANTS
  LoginAsAsked
  ModulePageInPlace
  DefectPerFailure
PROPERTIES
  EveryStepCounts
  Finishes
CHECK_DEADLOCK FALSE
