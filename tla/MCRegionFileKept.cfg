SPECIFICATION Spec
CONSTANTS
  c1 = c1
  c2 = c2
  v1 = v1
  v2 = v2
  NoChunk = NoChunk
  Chunk <- MCChunk
  Version <- MCVersion
  Sizes <- MCSizes
  MaxCount = 2
  MaxSectors = 6
PROPERTY
  SavesLast
