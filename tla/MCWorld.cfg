SPECIFICATION Spec
CONSTANTS
  c1 = c1
  c2 = c2
  v1 = v1
  v2 = v2
  NoColumn = NoColumn
  Unknown = Unknown
  NoWrite = NoWrite
  Chunk <- MCChunk
  Version <- MCVersion
  Generator <- MCGenerator
  MaxEvents = 2
INVARIANTS
  NoEditLost
  EventsTellLoaded
PROPERTY
  SaveAllSaves
