SPECIFICATION Spec
CONSTANTS
  FreeFall = 8
  Place <- MCPlace
  Searches <- MCSearches
INVARIANTS
  HeapOrdered
  PathIsReal
  FindsCheapest
  PathIsWalkable
  DigsHoldBack
PROPERTY
  ImplementsBestFirst
CHECK_DEADLOCK FALSE
