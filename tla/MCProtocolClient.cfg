SPECIFICATION FairSpec
CONSTANTS
  Thresholds <- MCThresholds
  Legacy = FALSE
  MaxOther = 2
INVARIANTS
  DecodesAsSent
  KeepsBoundaries
  ServerUnderstands
  KeepAlivesEchoed
PROPERTY
  EveryPacketTaken
CHECK_DEADLOCK FALSE
