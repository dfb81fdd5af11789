SPECIFICATION Spec
CONSTANTS
  Chunk = {c1, c2}
  Entity = {e1}
  Section <- MCSections
  Levels <- MCLevels
  Home = "overworld"
  MaxHealth = 1
  MaxChanges = 3
  MaxPackets = 2
  MaxBatches = 1
INVARIANTS
  ShowsWhatIsThere
  KeepsOnlyWhatItLeft
  EveryDeathTold
PROPERTY
  EveryChunkComes
CHECK_DEADLOCK FALSE
