----------------------------- MODULE ChunkColumn -----------------------------
(***************************************************************************)
(* chunk/chunk_column.rs with its sections: blocks, biomes and one kind of *)
(* light (the other is handled by the same code) of a column of the world, *)
(* edited, sent and stored.  A place in a column is a height y and a cell  *)
(* of the layer; biomes and light have fewer and more places than blocks.  *)
(***************************************************************************)
EXTENDS PaletteContainer, FiniteSetsExt

CONSTANTS
  MinY, NumSections, SectionHeight,
  Layer,                   \* cells of a layer of a section
  BiomeHeight, BiomeLayer, \* a biome is as high as some blocks, and as wide
  Coarse,                  \* the biome cell of each cell
  BlockBits, BiomeBits,    \* [bits, max, global]: widths of the palettes
  StoredBlockGlobal,       \* the global width for sections read from storage
  LightBits,
  KnownBlocks, KnownBiomes,   \* the ids the registry has a name for
  BlockEdits, BiomeEdits, LightEdits,   \* what is edited
  Received, ReceivedLight,   \* columns and light as a server sends them
  SavesDirect              \* whether columns are saved whatever they hold

ASSUME GeometryAssumption ==
  /\ SectionHeight \in Nat \ {0} /\ NumSections \in Nat \ {0} /\ Layer \in Nat \ {0}
  /\ BiomeHeight \in 1 .. SectionHeight /\ SectionHeight % BiomeHeight = 0
  /\ Coarse \in [0 .. Layer - 1 -> 0 .. BiomeLayer - 1]

VARIABLES
  sections,     \* [data, solid]: the blocks and how many are not air
  biomes,
  light,        \* for each light section an array, or None
  light_mask, empty_light_mask,
  panicked,
  from_storage  \* history: what the column holds was read from storage, and
                \* has not since been sent without the lengths of its arrays

vars == <<sections, biomes, light, light_mask, empty_light_mask, panicked, from_storage>>

None == [none |-> TRUE]
Air == 0
Volume == Layer * SectionHeight
BiomeVolume == BiomeLayer * (SectionHeight \div BiomeHeight)
LightSections == NumSections + 2

BlockConfig == [bits |-> BlockBits.bits, max |-> BlockBits.max, global |-> BlockBits.global, capacity |-> Volume]
StoredBlockConfig == [BlockConfig EXCEPT !.global = StoredBlockGlobal]
BiomeConfig == [bits |-> BiomeBits.bits, max |-> BiomeBits.max, global |-> BiomeBits.global,
                capacity |-> BiomeVolume]

-----------------------------------------------------------------------------
(* Where a place is: the section (from 1) and the index in it.             *)

\* Shifting right rounds down, and a negative index is outside.
SectionOf(y) == (y - MinY) \div SectionHeight + 1
LightSectionOf(y) == SectionOf(y) + 1
Inside(y) == y >= MinY /\ SectionOf(y) <= NumSections
BlockIndex(y, cell) == ((y - MinY) % SectionHeight) * Layer + cell
BiomeIndex(y, cell) == (((y - MinY) % SectionHeight) \div BiomeHeight) * BiomeLayer + Coarse[cell]

Block(ss, y, cell) == IF Inside(y) THEN Value(ss[SectionOf(y)].data, BlockIndex(y, cell)) ELSE Air
Biome(bs, y, cell) == IF Inside(y) THEN Value(bs[SectionOf(y)], BiomeIndex(y, cell)) ELSE 0
LightAt(ls, y, cell) ==
  IF ls[LightSectionOf(y)] = None THEN 0 ELSE Get(ls[LightSectionOf(y)], BlockIndex(y, cell))

CountSolid(data) == Cardinality({i \in 0 .. Volume - 1 : Value(data, i) # Air})

NewSections == [k \in 1 .. NumSections |-> [data |-> Single(Air, BlockConfig), solid |-> 0]]
NewBiomes == [k \in 1 .. NumSections |-> Single(0, BiomeConfig)]
NewLight == [k \in 1 .. LightSections |-> None]
NewMask == NewArray(1, LightSections)

-----------------------------------------------------------------------------
(* Edits.                                                                  *)

\* Mutant of SolidAfter: any block that is not air counts as one more.
SolidAfterAny(solid, old, new) ==
  IF new = Air /\ old # Air THEN solid - 1 ELSE IF new # Air THEN solid + 1 ELSE solid

SolidAfter(solid, old, new) ==
  IF new = Air /\ old # Air THEN solid - 1
  ELSE IF new # Air /\ old = Air THEN solid + 1 ELSE solid

\* A place outside of the column is not set.
BlockSet(ss, y, cell, id) ==
  IF ~Inside(y) THEN ss
  ELSE [ss EXCEPT ![SectionOf(y)] =
          [data |-> SetValue(@.data, BlockIndex(y, cell), id),
           solid |-> SolidAfter(@.solid, Value(@.data, BlockIndex(y, cell)), id)]]

BiomeSet(bs, y, cell, id) ==
  IF ~Inside(y) THEN bs ELSE [bs EXCEPT ![SectionOf(y)] = SetValue(@, BiomeIndex(y, cell), id)]

SetBlock(y, cell, id) ==
  /\ ~panicked
  /\ sections' = BlockSet(sections, y, cell, id)
  /\ UNCHANGED <<biomes, light, light_mask, empty_light_mask, panicked, from_storage>>

SetBiome(y, cell, id) ==
  /\ ~panicked
  /\ biomes' = BiomeSet(biomes, y, cell, id)
  /\ UNCHANGED <<sections, light, light_mask, empty_light_mask, panicked, from_storage>>

\* A height far outside of the light sections is a panic.
SetLight(y, cell, value) ==
  LET s == LightSectionOf(y)
      array == IF light[s] = None THEN NewArray(LightBits, Volume) ELSE light[s]
      none == light[s] = None
  IN  /\ ~panicked
      /\ s \in 1 .. LightSections
      /\ IF none /\ value = 0 THEN UNCHANGED <<light, light_mask>>
         ELSE /\ light' = [light EXCEPT ![s] = Put(array, BlockIndex(y, cell), value)]
              /\ light_mask' = IF none THEN Put(light_mask, s - 1, 1) ELSE light_mask
      /\ UNCHANGED <<sections, biomes, empty_light_mask, panicked, from_storage>>

-----------------------------------------------------------------------------
(* The network: dump and load, the latter into a new column.               *)

WriteSection(s, noLength) == <<s.solid>> \o WriteContainer(s.data, noLength)

Dump(noLength) ==
  FlattenSeq([k \in 1 .. NumSections |->
                WriteSection(sections[k], noLength) \o WriteContainer(biomes[k], noLength)])

\* What a load of the first sections of the buffer gives, and where it ends.
LoadSection(acc, buffer, noLength) ==
  LET blocks == ReadContainer(buffer, acc.at + 1, BlockConfig, noLength)
      biome == ReadContainer(buffer, blocks.next, BiomeConfig, noLength)
  IN  [sections |-> Append(acc.sections, [data |-> blocks.container, solid |-> buffer[acc.at]]),
       biomes |-> Append(acc.biomes, biome.container), at |-> biome.next]

Load(buffer, noLength) ==
  FoldLeft(LAMBDA acc, k : LoadSection(acc, buffer, noLength),
           [sections |-> <<>>, biomes |-> <<>>, at |-> 1], [k \in 1 .. NumSections |-> k])

\* Mutant of DumpLight: every array is sent, whatever the mask says.
DumpLightAll ==
  LET shown == SelectSeq([k \in 1 .. LightSections |-> k], LAMBDA k : light[k] # None)
  IN  [data |-> [k \in DOMAIN shown |-> light[shown[k]].longs],
       mask |-> light_mask.longs, empty |-> empty_light_mask.longs]

\* The arrays of the light sections that are in the mask, in their order.
DumpLight ==
  LET shown == SelectSeq([k \in 1 .. LightSections |-> k],
                         LAMBDA k : light[k] # None /\ Get(light_mask, k - 1) # 0)
  IN  [data |-> [k \in DOMAIN shown |-> light[shown[k]].longs],
       mask |-> light_mask.longs, empty |-> empty_light_mask.longs]

\* One light section of a packet; acc.at is the next array of its data.
LoadLightSection(acc, packet, s) ==
  LET shown == Get(FromLongs(packet.mask, 1), s - 1) # 0
      empty == Get(FromLongs(packet.empty, 1), s - 1)
  IN  IF ~shown /\ empty = 0 THEN acc
      ELSE [light |-> [acc.light EXCEPT ![s] =
                         IF empty = 0 THEN [NewArray(LightBits, Volume) EXCEPT !.longs = packet.data[acc.at]]
                         ELSE NewArray(LightBits, Volume)],
            mask |-> Put(acc.mask, s - 1, 1 - empty), empty |-> Put(acc.empty, s - 1, empty),
            at |-> acc.at + 1 - empty]

LoadLight(ls, mask, empty, packet) ==
  FoldLeft(LAMBDA acc, s : LoadLightSection(acc, packet, s),
           [light |-> ls, mask |-> mask, empty |-> empty, at |-> 1], [k \in 1 .. LightSections |-> k])

\* from_long_array counts the spare places of the last long as values, so
\* that an array that is widened after it may have more longs than a reader
\* takes who is not told how many there are.
Excess(c, config) ==
  LET written == WriteContainer(c, TRUE)
  IN  ReadContainer(written, 1, config, TRUE).next # Len(written) + 1

Misread ==
  \E k \in 1 .. NumSections : Excess(sections[k].data, BlockConfig) \/ Excess(biomes[k], BiomeConfig)

\* The column is sent, and what arrives is looked at from then on, unless
\* the reader takes a long for the next container (it then reads anything,
\* or panics).
Transfer(noLength) ==
  LET loaded == Load(Dump(noLength), noLength)
      lit == LoadLight(NewLight, NewMask, NewMask, DumpLight)
  IN  /\ ~panicked
      /\ noLength => ~Misread
      /\ sections' = loaded.sections
      /\ biomes' = loaded.biomes
      /\ light' = lit.light
      /\ light_mask' = lit.mask
      /\ empty_light_mask' = lit.empty
      /\ from_storage' = (from_storage /\ ~noLength)
      /\ UNCHANGED panicked

ReceiveLight(packet) ==
  LET lit == LoadLight(light, light_mask, empty_light_mask, packet)
  IN  /\ ~panicked
      /\ light' = lit.light
      /\ light_mask' = lit.mask
      /\ empty_light_mask' = lit.empty
      /\ UNCHANGED <<sections, biomes, panicked, from_storage>>

-----------------------------------------------------------------------------
(* Storage: to NBT and back into a new column.                             *)

\* An id without a name is stored as air, or as the first biome.
Named(id, known) == IF id \in known THEN id ELSE 0

\* The values of a direct container, each once, in the order they are met.
Distinct(c) ==
  FoldLeft(LAMBDA seen, k : IF \E j \in DOMAIN seen : seen[j] = Value(c, k - 1) THEN seen
                            ELSE Append(seen, Value(c, k - 1)),
           <<>>, [k \in 1 .. c.data.capacity |-> k])

\* Mutant of PaletteOf: values that are no longer in use are left out.
PaletteInUse(c) ==
  CASE c.kind = "single" -> <<c.value>>
    [] c.kind = "indirect" ->
         SelectSeq(c.palette, LAMBDA v : \E i \in 0 .. c.config.capacity - 1 : Value(c, i) = v)
    [] c.kind = "direct" -> Distinct(c)

PaletteOf(c) ==
  CASE c.kind = "single" -> <<c.value>> [] c.kind = "indirect" -> c.palette [] c.kind = "direct" -> Distinct(c)

\* The width that a reader takes the stored indices to have.
StoredWidth(c, config) == Max({NeededBits(Len(PaletteOf(c)) - 1), config.bits})

\* The longs are stored as they are.
Restored(c, config, known) ==
  LET palette == [k \in DOMAIN PaletteOf(c) |-> Named(PaletteOf(c)[k], known)]
  IN  IF Len(palette) = 1 THEN Single(palette[1], config)
      ELSE Indirect(palette, FromLongs(c.data.longs, StoredWidth(c, config)), config)

RestoredBlocks(k) == Restored(sections[k].data, StoredBlockConfig, KnownBlocks)
RestoredBiomes(k) == Restored(biomes[k], BiomeConfig, KnownBiomes)

\* The light below and above the world is not stored.
RestoredLight ==
  [s \in 1 .. LightSections |-> IF s \in {1, LightSections} THEN None ELSE light[s]]

HoldsDirect == \E k \in 1 .. NumSections : sections[k].data.kind = "direct" \/ biomes[k].kind = "direct"

\* Counting the blocks of a section reads them all.
SaveAndLoad ==
  /\ ~panicked
  /\ SavesDirect \/ ~HoldsDirect
  /\ IF \E k \in 1 .. NumSections, i \in 0 .. Volume - 1 : Value(RestoredBlocks(k), i) = Panic
     THEN /\ panicked' = TRUE
          /\ UNCHANGED <<sections, biomes, light, light_mask, empty_light_mask, from_storage>>
     ELSE /\ sections' = [k \in 1 .. NumSections |->
                            [data |-> RestoredBlocks(k), solid |-> CountSolid(RestoredBlocks(k))]]
          /\ biomes' = [k \in 1 .. NumSections |-> RestoredBiomes(k)]
          /\ light' = RestoredLight
          /\ light_mask' = Packed(1, LightSections, LAMBDA s : IF RestoredLight[s + 1] = None THEN 0 ELSE 1)
          /\ empty_light_mask' = NewMask
          /\ from_storage' = TRUE
          /\ UNCHANGED panicked

-----------------------------------------------------------------------------
Init ==
  /\ \/ sections = NewSections /\ biomes = NewBiomes
     \/ \E buffer \in Received :
          sections = Load(buffer, TRUE).sections /\ biomes = Load(buffer, TRUE).biomes
  /\ light = NewLight
  /\ light_mask = NewMask
  /\ empty_light_mask = NewMask
  /\ panicked = FALSE
  /\ from_storage = FALSE

Next ==
  \/ \E e \in BlockEdits : SetBlock(e.y, e.cell, e.id)
  \/ \E e \in BiomeEdits : SetBiome(e.y, e.cell, e.id)
  \/ \E e \in LightEdits : SetLight(e.y, e.cell, e.value)
  \/ \E packet \in ReceivedLight : ReceiveLight(packet)
  \/ \E noLength \in BOOLEAN : Transfer(noLength)
  \/ SaveAndLoad

Spec == Init /\ [][Next]_vars

-----------------------------------------------------------------------------
\* Of the column and one more on either side.
Heights == MinY - 1 .. MinY + NumSections * SectionHeight
LitHeights == MinY - SectionHeight .. MinY + (NumSections + 1) * SectionHeight - 1
Cells == 0 .. Layer - 1
Indices == 0 .. Volume - 1
BiomeIndices == 0 .. BiomeVolume - 1

WellFormed(c, indices) ==
  c.kind = "indirect" =>
    /\ Cardinality({c.palette[k] : k \in DOMAIN c.palette}) = Len(c.palette)
    /\ \A i \in indices : Value(c, i) # Panic

\* chunk_section.rs 49-58: in particular the number of blocks that are not
\* air is kept through every edit, transfer and save.
TypeOK ==
  /\ \A k \in 1 .. NumSections : sections[k].solid = CountSolid(sections[k].data)
  /\ \A k \in 1 .. NumSections : WellFormed(sections[k].data, Indices) /\ WellFormed(biomes[k], BiomeIndices)
  /\ \A s \in 1 .. LightSections : Get(light_mask, s - 1) + Get(empty_light_mask, s - 1) <= 1
  /\ panicked = FALSE

\* palette_container.rs 78-135, chunk_column.rs 89-105, 157-175: whatever was
\* done to a column before, setting one block changes what is read there and
\* nowhere else, through every change of width and of kind; setting a biome
\* changes the places that share it.
SetIsExact ==
  /\ \A e \in BlockEdits :
       LET set == BlockSet(sections, e.y, e.cell, e.id)
       IN  \A y \in Heights, c \in Cells :
             Block(set, y, c) = IF y = e.y /\ c = e.cell /\ Inside(y) THEN e.id ELSE Block(sections, y, c)
  /\ \A e \in BiomeEdits :
       LET set == BiomeSet(biomes, e.y, e.cell, e.id)
       IN  \A y \in Heights, c \in Cells :
             LET same == /\ (y - MinY) \div BiomeHeight = (e.y - MinY) \div BiomeHeight
                         /\ Coarse[c] = Coarse[e.cell]
             IN  Biome(set, y, c) = IF same /\ Inside(y) THEN e.id ELSE Biome(biomes, y, c)

SameContents(ss, bs) ==
  \A k \in 1 .. NumSections :
    /\ \A i \in Indices : Value(ss[k].data, i) = Value(sections[k].data, i)
    /\ \A i \in BiomeIndices : Value(bs[k], i) = Value(biomes[k], i)

\* chunk_column.rs 222-245, 272-330: a column arrives as it was sent, in
\* either format; so does its light, as far as it is in the mask.  The one
\* exception is a column that was read from storage, has been widened by
\* edits to more longs than its places need, and is sent without the number
\* of longs: chunk_column.rs 223-245 dumps it for nobody to load.
TransferKeeps ==
  /\ \A noLength \in BOOLEAN :
       (noLength /\ from_storage => ~Misread) =>
         LET loaded == Load(Dump(noLength), noLength) IN SameContents(loaded.sections, loaded.biomes)
  /\ LET arrived == LoadLight(NewLight, NewMask, NewMask, DumpLight)
     IN  \A y \in LitHeights, c \in Cells :
           LightAt(arrived.light, y, c) =
             IF Get(light_mask, LightSectionOf(y) - 1) = 0 THEN 0 ELSE LightAt(light, y, c)

\* anvil/chunk_nbt.rs 31, 152: a column is read back as it was saved,
\* unless a section of it is stored directly.
StoredKeeps ==
  ~HoldsDirect => SameContents([k \in 1 .. NumSections |-> [data |-> RestoredBlocks(k)]],
                               [k \in 1 .. NumSections |-> RestoredBiomes(k)])

\* anvil/chunk_nbt.rs 326-330 has the walk over the container identical for
\* all three kinds, direct ones with their values each once: so that every
\* column is read back as it was saved.
SaveKeeps ==
  SameContents([k \in 1 .. NumSections |-> [data |-> RestoredBlocks(k)]],
               [k \in 1 .. NumSections |-> RestoredBiomes(k)])
=============================================================================
