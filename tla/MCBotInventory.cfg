SPECIFICATION FairSpec
CONSTANTS
  stone = stone
  plain = plain
  named = named
  None = None
  NoWindow = NoWindow
  InvSize = 2
  Identity <- MCIdentity
  StackSize <- MCStackSize
  Contents <- MCContents
  Stocks <- MCStocks
  Ops <- MCOps
  MaxCalls = 2
  MaxChanges = 1
  MaxWindows = 1
CONSTRAINT FewSwaps
INVARIANTS
  SlotsAgree
PROPERTIES
  OpenedIsReal
  EveryCallReturns
CHECK_DEADLOCK FALSE
