SPECIFICATION WindowSpec
CONSTANTS
  stone = stone
  sword = sword
  plain = plain
  named = named
  None = None
  Layouts <- MCLayouts
  HotbarSize = 2
  Identity <- MCIdentity
  StackSize <- MCStackSize
  MaxSupply <- MCMaxSupply
INVARIANTS
  WindowTypeOK
  ItemsConserved
PROPERTIES
  MouseClicksKeepComponents
  ShiftClickCrosses
CHECK_DEADLOCK FALSE
