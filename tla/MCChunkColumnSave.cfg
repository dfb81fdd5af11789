SPECIFICATION Spec
CONSTANTS
  LongBits = 4
  MinY <- MCMinY
  NumSections = 2
  SectionHeight = 2
  Layer = 3
  BiomeHeight = 2
  BiomeLayer = 3
  Coarse <- MCCoarse
  BlockBits <- MCBlockBits
  BiomeBits <- MCBiomeBits
  StoredBlockGlobal = 3
  LightBits = 2
  KnownBlocks = {0, 1, 2, 3, 4}
  KnownBiomes = {0, 1, 2}
  BlockEdits <- MCBlockEdits
  BiomeEdits <- MCBiomeEdits
  LightEdits <- MCLightEdits
  Received = {}
  ReceivedLight <- MCReceivedLight
  SavesDirect = TRUE
INVARIANT
  SaveKeeps
