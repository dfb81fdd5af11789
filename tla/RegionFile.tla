------------------------------ MODULE RegionFile ------------------------------
(***************************************************************************)
(* anvil/region.rs: chunks stored in runs of sectors of one file, found    *)
(* through a table of offsets that is kept on disk and in memory, with a   *)
(* free map kept in memory only.  Every write to the file is a step of its *)
(* own: the process may be killed before it, or it may fail.               *)
(*                                                                         *)
(* A sector holds one part of a chunk as write_chunk_data laid it out:     *)
(* whose chunk, which of its versions, which part of how many.  zlib and   *)
(* the length field are modelled by what they do: parts that do not belong *)
(* together cannot be read.  A file length that is not a whole number of   *)
(* sectors is padded up by open, so lengths are counted in sectors.        *)
(*                                                                         *)
(* A write_chunk that fails leaves the handle as it is, and its user,      *)
(* AnvilWorld, keeps it in its cache and goes on writing through it.  The  *)
(* history variable trust says from where on that does harm.               *)
(***************************************************************************)
EXTENDS Integers, FiniteSets

CONSTANTS
  Chunk,          \* the 1024 chunk positions of a region
  NoChunk,
  Version,        \* what may be written to a chunk
  Sizes,          \* the number of sectors a version may need
  MaxCount,       \* 255 in the code: the largest run an offset can name
  MaxSectors      \* bound on the length of the file

ASSUME ChunkAssumption == NoChunk \notin Chunk
ASSUME SizesAssumption == MaxCount \in Nat /\ Sizes \subseteq 1 .. MaxCount
ASSUME MaxSectorsAssumption == MaxSectors \in Nat /\ MaxSectors >= 2

VARIABLES
  \* the process
  phase,      \* what it does next
  op,         \* the write_chunk call it is in
  at, part,   \* sector_number, and how many parts have been written to the run
  offsets,    \* RegionFile.offsets
  free,       \* the indices for which RegionFile.sector_free is true
  sectors,    \* sector_free.len()
  \* the file
  size,       \* its length in sectors
  dOffsets,   \* the table in its first sector
  data,       \* what each sector holds
  \* history
  torn,       \* the chunks whose last write has not completed
  trust       \* "hurt": since the file was opened a write_chunk has failed
              \* between giving back its chunk's run and naming the new one on
              \* disk; "lost": write_chunk was called on a handle that was hurt

memory == <<offsets, free, sectors>>
file == <<size, dOffsets, data>>
history == <<torn, trust>>
vars == <<phase, op, at, part, memory, file, history>>

Sector == 0 .. MaxSectors - 1
Header == {0, 1}
Entry(s, n) == [start |-> s, count |-> n]
NoEntry == Entry(0, 0)
Run(s, n) == s .. s + n - 1
RunOf(e) == Run(e.start, e.count)

NoOp == [chunk |-> NoChunk]
Op == [chunk : Chunk, n : Sizes, ver : Version]
Content == [chunk : Chunk, ver : Version, part : Nat, n : Sizes]
Zero == [chunk |-> NoChunk]

\* The phases in which the next thing write_chunk does is a write to the file.
Writing == {"offset", "data", "grow", "fill", "link", "stamp"}
Phase == {"closed", "creating", "panicked", "idle"} \cup Writing

Empty == [c \in Chunk |-> NoEntry]

Init ==
  /\ phase = "closed"
  /\ op = NoOp
  /\ at = 0
  /\ part = 0
  /\ offsets = Empty
  /\ free = {}
  /\ sectors = 0
  /\ size = 0
  /\ dOffsets = Empty
  /\ data = [s \in Sector |-> Zero]
  /\ torn = {}
  /\ trust = "sound"

-----------------------------------------------------------------------------
(* RegionFile::open.                                                       *)

InFile(e, length) == e.start + e.count <= length

\* Mutant of Load: sectors behind the first of a run are left free.
LoadFirstOnly ==
  /\ phase' = "idle"
  /\ offsets' = dOffsets'
  /\ sectors' = size'
  /\ free' = {s \in 0 .. size' - 1 :
                s \notin Header /\ \A c \in Chunk : s # dOffsets'[c].start}

\* The offset table is read and the free map built from it.
Load ==
  /\ phase' = "idle"
  /\ offsets' = dOffsets'
  /\ sectors' = size'
  /\ free' = {s \in 0 .. size' - 1 :
                /\ s \notin Header
                /\ \A c \in Chunk : InFile(dOffsets'[c], size') => s \notin RunOf(dOffsets'[c])}

\* A file shorter than one sector gets an empty header, in two writes.
CreateHeader ==
  /\ phase = "closed"
  /\ size = 0
  /\ size' = 1
  /\ dOffsets' = Empty
  /\ phase' = "creating"
  /\ UNCHANGED <<op, at, part, memory, data, history>>

CreateRest ==
  /\ phase = "creating"
  /\ size' = 2
  /\ UNCHANGED dOffsets
  /\ Load
  /\ UNCHANGED <<op, at, part, data, history>>

\* sector_free[1] of a file of one sector is out of bounds.
OpenExisting ==
  /\ phase = "closed"
  /\ size > 0
  /\ UNCHANGED <<op, at, part, file, history>>
  /\ IF size = 1 THEN phase' = "panicked" /\ UNCHANGED memory
     ELSE Load

-----------------------------------------------------------------------------
(* RegionFile::write_chunk.  A chunk too large for MaxCount sectors is     *)
(* refused before anything changes.                                        *)

\* find_free_run: the lowest run of n sectors that are all free.
FirstFit(map, n, s) ==
  /\ Run(s, n) \subseteq map
  /\ \A t \in 0 .. s - 1 : ~(Run(t, n) \subseteq map)

BeginWrite(c, n, v) ==
  /\ phase = "idle"
  /\ op' = [chunk |-> c, n |-> n, ver |-> v]
  /\ part' = 0
  /\ torn' = torn \cup {c}
  /\ trust' = IF trust = "sound" THEN "sound" ELSE "lost"
  /\ UNCHANGED <<sectors, file>>

\* Mutant of FitsInPlace: a run that has become too short is kept.
FitsInPlaceOrShorter(c, n) == offsets[c].start # 0 /\ offsets[c].count <= n
FitsInPlace(c, n) == offsets[c].start # 0 /\ offsets[c].count = n

WriteInPlace(c, n, v) ==
  /\ BeginWrite(c, n, v)
  /\ FitsInPlace(c, n)
  /\ phase' = "data"
  /\ at' = offsets[c].start
  /\ UNCHANGED <<offsets, free>>

\* Mutant of Freed: the old run is not given back.
FreedNothing(c) == free

\* The free map once the old run has been given back.
Freed(c) == free \cup RunOf(offsets[c])

\* The new run's offset is set in memory; it is marked as used only after
\* it has been set on disk.
WriteRelocated(c, n, v) ==
  /\ BeginWrite(c, n, v)
  /\ ~FitsInPlace(c, n)
  /\ free' = Freed(c)
  /\ \E s \in Freed(c) :
       /\ FirstFit(Freed(c), n, s)
       /\ at' = s
       /\ offsets' = [offsets EXCEPT ![c] = Entry(s, n)]
  /\ phase' = "offset"

WriteGrown(c, n, v) ==
  /\ BeginWrite(c, n, v)
  /\ ~FitsInPlace(c, n)
  /\ free' = Freed(c)
  /\ ~ \E s \in Freed(c) : FirstFit(Freed(c), n, s)
  /\ size + n <= MaxSectors
  /\ at' = sectors
  /\ UNCHANGED offsets
  /\ phase' = "grow"

\* Mutant of PutOffset: the run is not marked as used.
PutOffsetUnmarked ==
  /\ phase = "offset"
  /\ dOffsets' = [dOffsets EXCEPT ![op.chunk] = Entry(at, op.n)]
  /\ phase' = "data"
  /\ UNCHANGED <<op, at, part, offsets, free, sectors, size, data, history>>

PutOffset ==
  /\ phase = "offset"
  /\ dOffsets' = [dOffsets EXCEPT ![op.chunk] = Entry(at, op.n)]
  /\ free' = free \ Run(at, op.n)
  /\ phase' = "data"
  /\ UNCHANGED <<op, at, part, offsets, sectors, size, data, history>>

\* Zeroes are appended to the file, wherever it ends.
Grow ==
  /\ phase = "grow"
  /\ size' = size + op.n
  /\ data' = [s \in Sector |-> IF s \in Run(size, op.n) THEN Zero ELSE data[s]]
  /\ sectors' = sectors + op.n
  /\ phase' = "fill"
  /\ UNCHANGED <<op, at, part, offsets, free, dOffsets, history>>

\* write_chunk_data, sector by sector.
PutData ==
  /\ phase \in {"data", "fill"}
  /\ part' = part + 1
  /\ data' = [data EXCEPT ![at + part] =
                [chunk |-> op.chunk, ver |-> op.ver, part |-> part', n |-> op.n]]
  /\ phase' = IF part' < op.n THEN phase ELSE IF phase = "data" THEN "stamp" ELSE "link"
  /\ UNCHANGED <<op, at, memory, size, dOffsets, history>>

\* The offset of a run at the end of the file is set last.
Link ==
  /\ phase = "link"
  /\ offsets' = [offsets EXCEPT ![op.chunk] = Entry(at, op.n)]
  /\ dOffsets' = [dOffsets EXCEPT ![op.chunk] = Entry(at, op.n)]
  /\ phase' = "stamp"
  /\ UNCHANGED <<op, at, part, free, sectors, size, data, history>>

\* set_timestamp (nothing reads the timestamps), and write_chunk returns.
Stamp ==
  /\ phase = "stamp"
  /\ phase' = "idle"
  /\ op' = NoOp
  /\ torn' = torn \ {op.chunk}
  /\ UNCHANGED <<at, part, memory, file, trust>>

\* A write that is cut off while the file grows may have grown it in part.
CutOffSizes == IF phase = "grow" THEN size .. size + op.n ELSE {size}

\* The failures that leave the handle with a free map or an offset that is
\* not the file's: the old run is given back, the new one not yet on disk.
Relocating == {"offset", "grow", "fill", "link"}

\* The write that comes next returns an error, and so does write_chunk:
\* what was changed in memory before it stays changed, and the handle is
\* ready for the next call.
Fail ==
  /\ phase \in Writing
  /\ phase' = "idle"
  /\ offsets' = IF phase = "link" THEN [offsets EXCEPT ![op.chunk] = Entry(at, op.n)]
                ELSE offsets
  /\ size' \in CutOffSizes
  /\ op' = NoOp
  /\ trust' = IF trust = "sound" /\ phase \in Relocating THEN "hurt" ELSE trust
  /\ UNCHANGED <<at, part, free, sectors, dOffsets, data, torn>>

\* The file is closed or the process killed, at whatever point it was.
Stop ==
  /\ phase # "closed"
  /\ phase' = "closed"
  /\ size' \in CutOffSizes
  /\ op' = NoOp
  /\ at' = 0
  /\ part' = 0
  /\ offsets' = Empty
  /\ free' = {}
  /\ sectors' = 0
  /\ trust' = IF trust = "hurt" THEN "sound" ELSE trust
  /\ UNCHANGED <<dOffsets, data, torn>>

WriteChunk ==
  \E c \in Chunk, n \in Sizes, v \in Version :
    WriteInPlace(c, n, v) \/ WriteRelocated(c, n, v) \/ WriteGrown(c, n, v)

Next ==
  \/ CreateHeader \/ CreateRest \/ OpenExisting
  \/ WriteChunk
  \/ PutOffset \/ Grow \/ PutData \/ Link \/ Stamp
  \/ Fail \/ Stop

Spec == Init /\ [][Next]_vars

-----------------------------------------------------------------------------
(* RegionFile::read_chunk.                                                 *)

Absent == [kind |-> "absent"]
Unknown == [kind |-> "unknown"]
Unreadable == [kind |-> "unreadable"]
NBT(c, n, v) == [kind |-> "nbt", chunk |-> c, n |-> n, ver |-> v]

\* What a run of sectors reads as, through an offset e of a file of the
\* given length: a length field that claims more than the run, parts that
\* do not fit together, or anything but a chunk's beginning are unreadable.
ReadThrough(e, length) ==
  IF e = NoEntry THEN Absent
  ELSE IF ~InFile(e, length) THEN Unreadable
  ELSE LET first == data[e.start]
       IN  IF /\ first # Zero
              /\ first.part = 1
              /\ first.n <= e.count
              /\ \A i \in 1 .. first.n : data[e.start + i - 1] = [first EXCEPT !.part = i]
           THEN NBT(first.chunk, first.n, first.ver)
           ELSE Unreadable

\* What a process that opened the file now would read.
Durable(c) == ReadThrough(dOffsets[c], size)

-----------------------------------------------------------------------------
TypeOK ==
  /\ phase \in Phase
  /\ op \in Op \cup {NoOp}
  /\ phase \in Writing <=> op # NoOp
  /\ at \in Nat
  /\ part \in Nat
  /\ offsets \in [Chunk -> [start : Nat, count : 0 .. MaxCount]]
  /\ sectors \in Nat
  /\ free \subseteq 0 .. sectors - 1
  /\ size \in 0 .. MaxSectors
  /\ dOffsets \in [Chunk -> [start : Nat, count : 0 .. MaxCount]]
  /\ data \in [Sector -> Content \cup {Zero}]
  /\ torn \subseteq Chunk
  /\ trust \in {"sound", "hurt", "lost"}

\* A chunk's run lies behind the header and inside the file, both for the
\* offsets in memory and for those a later open would find, after whatever
\* failed.  And no sector belongs to two chunks, through any sequence of
\* allocations, relocations, growths, crashes, failed writes and reopenings
\* -- as long as nobody calls write_chunk on a handle that an error has
\* hurt.
NoSharedSectors ==
  \A table \in {offsets, dOffsets} : \A c \in Chunk :
    /\ RunOf(table[c]) \cap Header = {}
    /\ InFile(table[c], size)
    /\ \/ trust = "lost"
       \/ \A d \in Chunk \ {c} : RunOf(table[c]) \cap RunOf(table[d]) = {}

\* Between calls the free map is exact: nothing that belongs to a chunk is
\* free, and no sector is lost for ever to a chunk that moved away.  Only
\* an error in the middle of a relocation ends that; an error in the data
\* or in the timestamp does not.
FreeMapExact ==
  (phase = "idle" /\ trust = "sound") =>
    \A s \in 0 .. sectors - 1 :
      s \in free <=> s \notin Header /\ \A c \in Chunk : s \notin RunOf(offsets[c])

\* What the region file is to its user.
Store == INSTANCE ChunkStore WITH
  Value <- {NBT(c, n, v) : c \in Chunk, n \in Sizes, v \in Version},
  NoWrite <- NoOp,
  stored <- [c \in Chunk |-> IF c \in torn THEN Unknown ELSE Durable(c)],
  writing <- IF op = NoOp THEN NoOp
             ELSE [chunk |-> op.chunk, value |-> NBT(op.chunk, op.n, op.ver)]

\* A completed write survives whatever happens to the file after it -- other
\* chunks written over freed runs, crashes in the middle of their writes,
\* writes that fail, reopening -- until the same chunk is written again, or
\* until someone writes through a handle that is hurt.
ImplementsChunkStore == Store!StoreSpec

\* What the users of AnvilWorld count on: the chunk of a save that returned
\* Ok reads the same until it is saved again.  AnvilWorld goes on saving
\* through the handle on which a save has failed, so this does not hold.
SavesLast ==
  [][\A c \in Chunk : c \notin torn \cup torn' => Durable(c)' = Durable(c)]_vars
=============================================================================
