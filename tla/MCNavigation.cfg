SPECIFICATION FairSpec
CONSTANTS
  Width = 3
  Worlds <- MCWorlds
  Goals = {3}
  Sites = {2}
  CantBreak = {"hard"}
  Scaffold = {1}
  Reach = 1
  MaxRetries = 1
  MaxPauses = 1
  Ticks = 1
  Drives = 1
  TeleportKinds <- MCTeleports
  MaxTeleports = 2
  MaxChanges = 1
  MaxCalls = 2
  MaxQueue = 2
INVARIANTS
  PositionsAgree
  TellingIsBelieved
  NothingLeftBehind
PROPERTIES
  FailsElsewhere
  EveryCallReturns
CHECK_DEADLOCK FALSE
