--------------------------- MODULE RegionFileProofs ---------------------------
(***************************************************************************)
(* Proofs about RegionFile.  The argument has two layers.  Whatever fails  *)
(* and whoever goes on writing, every run named in memory lies behind the  *)
(* header and inside the free map, and every run named on disk inside the  *)
(* file: Framed.  And as long as nobody writes through a handle that an    *)
(* error has hurt: outside the call the two tables agree, the free map     *)
(* is the complement of the runs they name, and the run the call writes to *)
(* belongs to nobody else, so what the call does cannot be seen through    *)
(* any other chunk's offset: Sound.                                        *)
(***************************************************************************)
EXTENDS RegionFile, TLAPS

Opened == {"idle"} \cup Writing
Placed == {"data", "fill", "link", "stamp"}

GoodEntry(e) == e = NoEntry \/ (e.start >= 2 /\ e.count \in Sizes)

GoodTable(t) ==
  /\ \A c \in Chunk : GoodEntry(t[c]) /\ InFile(t[c], size)
  /\ \A c, d \in Chunk : c # d => RunOf(t[c]) \cap RunOf(t[d]) = {}

Tables == GoodTable(offsets) /\ GoodTable(dOffsets)

\* The length of the file, and that of the free map.
Lengths ==
  /\ phase = "creating" => size = 1
  /\ phase \in Opened => size >= 2
  /\ phase \in Opened /\ trust = "sound" => sectors = size
  /\ phase \notin Opened => offsets = Empty /\ free = {} /\ sectors = 0
  /\ trust # "lost" /\ (trust = "hurt" => phase = "idle")

\* Memory and disk name the same runs, but for the chunk being written.
Agree ==
  /\ phase \in Opened /\ trust = "sound" => \A c \in Chunk : c # op.chunk => offsets[c] = dOffsets[c]
  /\ phase \in {"offset", "data", "stamp"} => offsets[op.chunk] = Entry(at, op.n)
  /\ phase \in {"data", "stamp"} => dOffsets[op.chunk] = Entry(at, op.n)

\* The run being written belongs to no other chunk.
Placement ==
  phase \in Writing =>
    /\ at >= 2
    /\ IF phase = "grow" THEN at = size /\ size + op.n <= MaxSectors
       ELSE at + op.n <= size
    /\ \A c \in Chunk : c # op.chunk => RunOf(offsets[c]) \cap Run(at, op.n) = {}
    /\ op.chunk \in torn

\* The free map is the complement of the runs in use.
ExactAt(s) ==
  s \in free <=> /\ s \notin Header
                 /\ \A c \in Chunk : c # op.chunk => s \notin RunOf(offsets[c])
                 /\ phase \in Placed => s \notin Run(at, op.n)
FreeExact == phase \in Opened /\ trust = "sound" => \A s \in 0 .. sectors - 1 : ExactAt(s)

\* The parts already written are those of the version being written.
PartOf(i) == [chunk |-> op.chunk, ver |-> op.ver, part |-> i, n |-> op.n]
Progress ==
  /\ phase \in {"offset", "grow"} => part = 0
  /\ phase \in {"data", "fill"} => part < op.n
  /\ phase \in {"link", "stamp"} => part = op.n
  /\ phase \in Writing => \A i \in 1 .. part : data[at + i - 1] = PartOf(i)

Sound == TypeOK /\ Tables /\ Lengths /\ Agree /\ Placement /\ FreeExact /\ Progress

\* What holds whatever has failed: every run, and the one being written,
\* lies behind the header, and ends in the free map or in the file.
RunsFramed ==
  /\ \A c \in Chunk : GoodEntry(offsets[c]) /\ InFile(offsets[c], sectors)
  /\ \A c \in Chunk : GoodEntry(dOffsets[c]) /\ InFile(dOffsets[c], size)
  /\ free \subseteq 2 .. sectors - 1
  /\ sectors <= size
  /\ IF phase \in Opened THEN sectors >= 2 ELSE sectors = 0
  /\ phase = "creating" => size = 1
WriteFramed ==
  phase \in Writing =>
    /\ at >= 2
    /\ IF phase = "grow" THEN at = sectors /\ size + op.n <= MaxSectors
       ELSE at + op.n <= sectors
    /\ phase \in {"data", "fill"} => part < op.n
    /\ phase \in {"offset", "grow"} => part = 0
Framed == TypeOK /\ RunsFramed /\ WriteFramed

\* The inductive invariant.
IInv == Framed /\ (trust = "lost" \/ Sound)

-----------------------------------------------------------------------------
(* Facts about types and runs.                                             *)

LEMMA SizesType == \A n \in Sizes : n \in Nat /\ n >= 1 /\ n <= MaxCount /\ n \in 0 .. MaxCount
  BY SizesAssumption

LEMMA OpType ==
  ASSUME TypeOK, phase \in Writing
  PROVE  op \in Op /\ op.chunk \in Chunk /\ op.n \in Sizes /\ op.ver \in Version
  BY DEF TypeOK, Op

LEMMA IdleOp ==
  ASSUME TypeOK, phase \notin Writing
  PROVE  op = NoOp /\ \A c \in Chunk : c # op.chunk
  BY ChunkAssumption DEF TypeOK, NoOp

LEMMA EntryFields ==
  \A s, n : Entry(s, n).start = s /\ Entry(s, n).count = n /\ RunOf(Entry(s, n)) = Run(s, n)
  BY DEF Entry, RunOf

LEMMA NewOp ==
  ASSUME NEW c \in Chunk, NEW n \in Sizes, NEW v \in Version,
         op' = [chunk |-> c, n |-> n, ver |-> v]
  PROVE  op' \in Op /\ op' # NoOp /\ op'.chunk = c /\ op'.n = n /\ op'.ver = v
  BY ChunkAssumption DEF Op, NoOp

LEMMA EmptyTable ==
  /\ Empty \in [Chunk -> [start : Nat, count : 0 .. MaxCount]]
  /\ \A c \in Chunk : Empty[c] = NoEntry
  BY SizesAssumption DEF Empty, NoEntry, Entry

LEMMA EmptyRun == RunOf(NoEntry) = {}
  BY DEF RunOf, NoEntry, Entry, Run

LEMMA RunWithin ==
  ASSUME NEW s \in Nat, NEW n \in Nat, NEW length \in Nat, n >= 1,
         Run(s, n) \subseteq 2 .. length - 1
  PROVE  s + n <= length
  <1>1. s + n - 1 \in Run(s, n)
    BY DEF Run
  <1>2. s + n - 1 \in 2 .. length - 1
    BY <1>1
  <1>3. QED
    BY <1>2

\* A run named by a table begins behind the header and ends in the file.
LEMMA TableRuns ==
  ASSUME NEW t \in [Chunk -> [start : Nat, count : 0 .. MaxCount]], GoodTable(t),
         size \in Nat, NEW c \in Chunk
  PROVE  RunOf(t[c]) \subseteq 2 .. size - 1
  <1>1. CASE t[c] = NoEntry
    BY <1>1, EmptyRun
  <1>2. CASE t[c].start >= 2 /\ t[c].count \in Sizes
    BY <1>2, SizesType DEF GoodTable, InFile, RunOf, Run
  <1>3. QED
    BY <1>1, <1>2 DEF GoodTable, GoodEntry

\* One entry is replaced by a run that belongs to nobody else.
LEMMA TableUpdate ==
  ASSUME NEW t \in [Chunk -> [start : Nat, count : 0 .. MaxCount]], GoodTable(t),
         NEW c \in Chunk, NEW n \in Sizes, NEW s \in Nat, s >= 2, s + n <= size,
         \A d \in Chunk : d # c => RunOf(t[d]) \cap Run(s, n) = {}
  PROVE  /\ [t EXCEPT ![c] = Entry(s, n)] \in [Chunk -> [start : Nat, count : 0 .. MaxCount]]
         /\ GoodTable([t EXCEPT ![c] = Entry(s, n)])
  <1> DEFINE u == [t EXCEPT ![c] = Entry(s, n)]
  <1>1. Entry(s, n) \in [start : Nat, count : 0 .. MaxCount]
    BY SizesType DEF Entry
  <1>2. u[c] = Entry(s, n) /\ \A d \in Chunk : d # c => u[d] = t[d]
    OBVIOUS
  <1>3. ASSUME NEW d \in Chunk
        PROVE  GoodEntry(u[d]) /\ InFile(u[d], size)
    BY <1>2, EntryFields DEF GoodTable, GoodEntry, InFile
  <1>4. ASSUME NEW d \in Chunk, NEW e \in Chunk, d # e
        PROVE  RunOf(u[d]) \cap RunOf(u[e]) = {}
    <2>1. CASE d # c /\ e # c
      BY <1>2, <1>4, <2>1 DEF GoodTable
    <2>2. CASE d = c \/ e = c
      BY <1>2, <1>4, <2>2, EntryFields
    <2>3. QED
      BY <2>1, <2>2
  <1>5. QED
    BY <1>1, <1>3, <1>4 DEF GoodTable

\* What write_chunk may allocate from once it has freed the old run.
LEMMA FreedFacts ==
  ASSUME Sound, phase = "idle", trust = "sound", NEW c \in Chunk
  PROVE  /\ Freed(c) \subseteq 2 .. size - 1
         /\ \A t \in 0 .. size - 1 :
              t \in Freed(c) <=> /\ t \notin Header
                                /\ \A d \in Chunk : d # c => t \notin RunOf(offsets[d])
  <1>1. /\ offsets \in [Chunk -> [start : Nat, count : 0 .. MaxCount]]
        /\ GoodTable(offsets) /\ size \in Nat /\ sectors = size /\ size >= 2
    BY DEF Sound, TypeOK, Tables, Lengths, Opened
  <1>2. RunOf(offsets[c]) \subseteq 2 .. size - 1
    BY <1>1, TableRuns
  <1>3. \A d \in Chunk : d # op.chunk
    BY IdleOp DEF Sound, Writing
  <1>4. \A t \in 0 .. size - 1 :
          t \in free <=> t \notin Header /\ \A d \in Chunk : t \notin RunOf(offsets[d])
    BY <1>1, <1>3 DEF Sound, FreeExact, ExactAt, Opened, Placed
  <1>5. \A d \in Chunk : d # c => RunOf(offsets[c]) \cap RunOf(offsets[d]) = {}
    BY <1>1 DEF GoodTable
  <1>6. free \subseteq 0 .. size - 1
    BY <1>1 DEF Sound, TypeOK
  <1>7. \A t \in 0 .. size - 1 : t \notin Header <=> t >= 2
    BY <1>1 DEF Header
  <1>8. ASSUME NEW t \in 0 .. size - 1
        PROVE  t \in Freed(c) <=> /\ t \notin Header
                                 /\ \A d \in Chunk : d # c => t \notin RunOf(offsets[d])
    <2>1. CASE t \in RunOf(offsets[c])
      BY <1>2, <1>5, <1>7, <2>1 DEF Freed
    <2>2. CASE t \notin RunOf(offsets[c])
      BY <1>4, <2>2 DEF Freed
    <2>3. QED
      BY <2>1, <2>2
  <1>9. Freed(c) \subseteq 2 .. size - 1
    <2>1. ASSUME NEW t \in free PROVE t \in 2 .. size - 1
      <3>1. t \in 0 .. size - 1 /\ t \notin Header
        BY <1>4, <1>6
      <3>2. QED
        BY <1>1, <1>7, <3>1
    <2>2. QED
      BY <1>2, <2>1 DEF Freed
  <1>10. QED
    BY <1>8, <1>9

-----------------------------------------------------------------------------
(* write_chunk, up to its first write to the file.                         *)

LEMMA InPlaceStep ==
  ASSUME Sound, trust = "sound", NEW c \in Chunk, NEW n \in Sizes, NEW v \in Version,
         WriteInPlace(c, n, v)
  PROVE  Sound'
  <1>a. /\ phase = "idle" /\ phase' = "data" /\ at' = offsets[c].start /\ part' = 0
        /\ torn' = torn \cup {c} /\ offsets[c].start # 0 /\ offsets[c].count = n
        /\ UNCHANGED <<offsets, free, sectors, size, dOffsets, data, trust>>
        /\ op' = [chunk |-> c, n |-> n, ver |-> v]
    BY DEF WriteInPlace, BeginWrite, FitsInPlace, file
  <1>b. op' \in Op /\ op' # NoOp /\ op'.chunk = c /\ op'.n = n /\ op'.ver = v
    BY <1>a, NewOp
  <1>c. \A d \in Chunk : d # op.chunk
    BY <1>a, IdleOp DEF Sound, Writing
  <1>d. offsets[c] \in [start : Nat, count : 0 .. MaxCount]
    BY DEF Sound, TypeOK
  <1>e. offsets[c] = Entry(at', n) /\ RunOf(offsets[c]) = Run(at', n)
    BY <1>a, <1>d DEF Entry, RunOf
  <1>f. at' \in Nat /\ at' >= 2 /\ at' + n <= size
    BY <1>a, <1>d DEF Sound, Tables, GoodTable, GoodEntry, NoEntry, Entry, InFile
  <1>1. TypeOK'
    BY <1>a, <1>b, <1>f DEF Sound, TypeOK, Phase, Writing
  <1>2. Tables'
    BY <1>a DEF Sound, Tables, GoodTable
  <1>3. Lengths'
    BY <1>a DEF Sound, Lengths, Opened, Writing
  <1>4. Agree'
    BY <1>a, <1>b, <1>c, <1>e DEF Sound, Agree, Opened
  <1>5. Placement'
    BY <1>a, <1>b, <1>e, <1>f DEF Placement, Sound, Tables, GoodTable
  <1>6. FreeExact'
    BY <1>a, <1>b, <1>c, <1>e DEF Sound, FreeExact, ExactAt, Opened, Placed
  <1>7. Progress'
    BY <1>a, <1>b, SizesType DEF Progress
  <1>8. QED
    BY <1>1, <1>2, <1>3, <1>4, <1>5, <1>6, <1>7 DEF Sound

LEMMA RelocatedStep ==
  ASSUME Sound, trust = "sound", NEW c \in Chunk, NEW n \in Sizes, NEW v \in Version,
         WriteRelocated(c, n, v)
  PROVE  Sound'
  <1>a. /\ phase = "idle" /\ phase' = "offset" /\ part' = 0 /\ free' = Freed(c)
        /\ torn' = torn \cup {c} /\ offsets' = [offsets EXCEPT ![c] = Entry(at', n)]
        /\ at' \in Freed(c) /\ Run(at', n) \subseteq Freed(c)
        /\ UNCHANGED <<sectors, size, dOffsets, data, trust>>
        /\ op' = [chunk |-> c, n |-> n, ver |-> v]
    BY DEF WriteRelocated, BeginWrite, FirstFit, file
  <1>b. op' \in Op /\ op' # NoOp /\ op'.chunk = c /\ op'.n = n /\ op'.ver = v
    BY <1>a, NewOp
  <1>c. \A d \in Chunk : d # op.chunk
    BY <1>a, IdleOp DEF Sound, Writing
  <1>d. /\ offsets \in [Chunk -> [start : Nat, count : 0 .. MaxCount]]
        /\ GoodTable(offsets) /\ size \in Nat /\ sectors = size /\ size >= 2
    BY <1>a DEF Sound, TypeOK, Tables, Lengths, Opened
  <1>e. /\ Freed(c) \subseteq 2 .. size - 1
        /\ \A t \in 0 .. size - 1 :
             t \in Freed(c) <=> /\ t \notin Header
                               /\ \A d \in Chunk : d # c => t \notin RunOf(offsets[d])
    BY <1>a, FreedFacts
  <1>f. at' \in Nat /\ at' >= 2 /\ at' + n <= size
    <2>1. at' \in 2 .. size - 1
      BY <1>a, <1>e
    <2>a. n \in Nat /\ n >= 1
      BY SizesType
    <2>b. at' \in Nat /\ at' >= 2
      BY <1>d, <2>1
    <2>2. Run(at', n) \subseteq 2 .. size - 1
      BY <1>a, <1>e
    <2>3. QED
      BY <1>d, <2>a, <2>b, <2>2, RunWithin
  <1>g. \A d \in Chunk : d # c => RunOf(offsets[d]) \cap Run(at', n) = {}
    BY <1>a, <1>d, <1>e
  <1>h. /\ offsets' \in [Chunk -> [start : Nat, count : 0 .. MaxCount]]
        /\ GoodTable(offsets')
    BY <1>a, <1>d, <1>f, <1>g, TableUpdate
  <1>i. offsets'[c] = Entry(at', n) /\ \A d \in Chunk : d # c => offsets'[d] = offsets[d]
    BY <1>a, <1>d
  <1>1. TypeOK'
    BY <1>a, <1>b, <1>d, <1>e, <1>f, <1>h DEF Sound, TypeOK, Phase, Writing
  <1>2. Tables'
    BY <1>a, <1>h DEF Sound, Tables, GoodTable
  <1>3. Lengths'
    BY <1>a DEF Sound, Lengths, Opened, Writing
  <1>4. Agree'
    BY <1>a, <1>b, <1>c, <1>i DEF Sound, Agree, Opened
  <1>5. Placement'
    BY <1>a, <1>b, <1>f, <1>g, <1>i DEF Placement
  <1>6. FreeExact'
    BY <1>a, <1>b, <1>d, <1>e, <1>i DEF FreeExact, ExactAt, Placed
  <1>7. Progress'
    BY <1>a, <1>b DEF Progress
  <1>8. QED
    BY <1>1, <1>2, <1>3, <1>4, <1>5, <1>6, <1>7 DEF Sound

LEMMA GrownStep ==
  ASSUME Sound, trust = "sound", NEW c \in Chunk, NEW n \in Sizes, NEW v \in Version,
         WriteGrown(c, n, v)
  PROVE  Sound'
  <1>a. /\ phase = "idle" /\ phase' = "grow" /\ part' = 0 /\ free' = Freed(c)
        /\ torn' = torn \cup {c} /\ at' = sectors /\ size + n <= MaxSectors
        /\ UNCHANGED <<offsets, sectors, size, dOffsets, data, trust>>
        /\ op' = [chunk |-> c, n |-> n, ver |-> v]
    BY DEF WriteGrown, BeginWrite, file
  <1>b. op' \in Op /\ op' # NoOp /\ op'.chunk = c /\ op'.n = n /\ op'.ver = v
    BY <1>a, NewOp
  <1>c. \A d \in Chunk : d # op.chunk
    BY <1>a, IdleOp DEF Sound, Writing
  <1>d. /\ offsets \in [Chunk -> [start : Nat, count : 0 .. MaxCount]]
        /\ GoodTable(offsets) /\ size \in Nat /\ sectors = size /\ size >= 2
    BY <1>a DEF Sound, TypeOK, Tables, Lengths, Opened
  <1>e. /\ Freed(c) \subseteq 2 .. size - 1
        /\ \A t \in 0 .. size - 1 :
             t \in Freed(c) <=> /\ t \notin Header
                               /\ \A d \in Chunk : d # c => t \notin RunOf(offsets[d])
    BY <1>a, FreedFacts
  <1>g. ASSUME NEW d \in Chunk
        PROVE  RunOf(offsets[d]) \cap Run(at', n) = {}
    <2>1. RunOf(offsets[d]) \subseteq 2 .. size - 1
      BY <1>d, TableRuns
    <2>2. QED
      BY <1>a, <1>d, <2>1, SizesType DEF Run
  <1>1. TypeOK'
    BY <1>a, <1>b, <1>d, <1>e DEF Sound, TypeOK, Phase, Writing
  <1>2. Tables'
    BY <1>a DEF Sound, Tables, GoodTable
  <1>3. Lengths'
    BY <1>a DEF Sound, Lengths, Opened, Writing
  <1>4. Agree'
    BY <1>a, <1>b, <1>c DEF Sound, Agree, Opened
  <1>5. Placement'
    BY <1>a, <1>b, <1>d, <1>g DEF Placement
  <1>6. FreeExact'
    BY <1>a, <1>b, <1>d, <1>e DEF FreeExact, ExactAt, Placed
  <1>7. Progress'
    BY <1>a, <1>b DEF Progress
  <1>8. QED
    BY <1>1, <1>2, <1>3, <1>4, <1>5, <1>6, <1>7 DEF Sound

-----------------------------------------------------------------------------
(* write_chunk, from its first write to the file.                          *)

\* What the invariant says while write_chunk is about to write.
LEMMA WritingFacts ==
  ASSUME Sound, phase \in Writing
  PROVE  /\ op \in Op /\ op.chunk \in Chunk /\ op.n \in Sizes /\ op.ver \in Version
         /\ op.n \in Nat /\ op.n >= 1 /\ op # NoOp
         /\ at \in Nat /\ at >= 2 /\ part \in Nat
         /\ size \in Nat /\ sectors = size /\ size >= 2 /\ size <= MaxSectors
         /\ offsets \in [Chunk -> [start : Nat, count : 0 .. MaxCount]] /\ GoodTable(offsets)
         /\ dOffsets \in [Chunk -> [start : Nat, count : 0 .. MaxCount]] /\ GoodTable(dOffsets)
         /\ \A c \in Chunk : c # op.chunk => offsets[c] = dOffsets[c]
         /\ \A c \in Chunk : c # op.chunk => RunOf(offsets[c]) \cap Run(at, op.n) = {}
         /\ op.chunk \in torn /\ trust = "sound"
  <1>1. /\ op \in Op /\ op.chunk \in Chunk /\ op.n \in Sizes /\ op.ver \in Version
        /\ op # NoOp
    BY OpType DEF Sound, TypeOK
  <1>2. op.n \in Nat /\ op.n >= 1
    BY <1>1, SizesType
  <1>3. trust = "sound" /\ sectors = size /\ size >= 2
    BY DEF Sound, TypeOK, Lengths, Opened, Writing
  <1>4. size \in Nat /\ size <= MaxSectors
    BY MaxSectorsAssumption DEF Sound, TypeOK
  <1>5. at \in Nat /\ part \in Nat
    BY DEF Sound, TypeOK
  <1>6. /\ offsets \in [Chunk -> [start : Nat, count : 0 .. MaxCount]] /\ GoodTable(offsets)
        /\ dOffsets \in [Chunk -> [start : Nat, count : 0 .. MaxCount]] /\ GoodTable(dOffsets)
    BY DEF Sound, TypeOK, Tables
  <1>7. \A c \in Chunk : c # op.chunk => offsets[c] = dOffsets[c]
    BY <1>3 DEF Sound, Agree, Opened
  <1>8. /\ at >= 2 /\ op.chunk \in torn
        /\ \A c \in Chunk : c # op.chunk => RunOf(offsets[c]) \cap Run(at, op.n) = {}
    BY DEF Sound, Placement
  <1>9. QED
    BY <1>1, <1>2, <1>3, <1>4, <1>5, <1>6, <1>7, <1>8

LEMMA PutOffsetStep ==
  ASSUME Sound, PutOffset
  PROVE  Sound'
  <1>a. /\ phase = "offset" /\ phase' = "data"
        /\ dOffsets' = [dOffsets EXCEPT ![op.chunk] = Entry(at, op.n)]
        /\ free' = free \ Run(at, op.n)
        /\ UNCHANGED <<op, at, part, offsets, sectors, size, data, torn, trust>>
    BY DEF PutOffset, history
  <1>b. /\ op.chunk \in Chunk /\ op.n \in Sizes /\ op.n \in Nat /\ op.n >= 1 /\ op # NoOp
        /\ at \in Nat /\ at >= 2
        /\ dOffsets \in [Chunk -> [start : Nat, count : 0 .. MaxCount]] /\ GoodTable(dOffsets)
        /\ \A c \in Chunk : c # op.chunk => offsets[c] = dOffsets[c]
        /\ \A c \in Chunk : c # op.chunk => RunOf(offsets[c]) \cap Run(at, op.n) = {}
    BY <1>a, WritingFacts DEF Writing
  <1>c. at + op.n <= size /\ part = 0 /\ offsets[op.chunk] = Entry(at, op.n)
    BY <1>a DEF Sound, Placement, Progress, Agree, Writing
  <1>d. /\ dOffsets' \in [Chunk -> [start : Nat, count : 0 .. MaxCount]] /\ GoodTable(dOffsets')
        /\ dOffsets'[op.chunk] = Entry(at, op.n)
        /\ \A c \in Chunk : c # op.chunk => dOffsets'[c] = dOffsets[c]
    <2>1. \A c \in Chunk : c # op.chunk => RunOf(dOffsets[c]) \cap Run(at, op.n) = {}
      BY <1>b
    <2>2. /\ dOffsets' \in [Chunk -> [start : Nat, count : 0 .. MaxCount]]
          /\ GoodTable(dOffsets')
      BY <1>a, <1>b, <1>c, <2>1, TableUpdate
    <2>3. /\ dOffsets'[op.chunk] = Entry(at, op.n)
          /\ \A c \in Chunk : c # op.chunk => dOffsets'[c] = dOffsets[c]
      BY <1>a, <1>b
    <2>4. QED
      BY <2>2, <2>3
  <1>1. TypeOK'
    BY <1>a, <1>b, <1>d DEF Sound, TypeOK, Phase, Writing
  <1>2. Tables'
    BY <1>a, <1>d DEF Sound, Tables, GoodTable
  <1>3. Lengths'
    BY <1>a DEF Sound, Lengths, Opened, Writing
  <1>4. Agree'
    BY <1>a, <1>b, <1>c, <1>d DEF Agree
  <1>5. Placement'
    BY <1>a, <1>b, <1>c DEF Sound, Placement, Writing
  <1>6. FreeExact'
    BY <1>a DEF Sound, FreeExact, ExactAt, Opened, Placed, Writing
  <1>7. Progress'
    BY <1>a, <1>b, <1>c DEF Progress
  <1>8. QED
    BY <1>1, <1>2, <1>3, <1>4, <1>5, <1>6, <1>7 DEF Sound

\* A table stays good when the file grows.
LEMMA TableGrows ==
  ASSUME NEW t \in [Chunk -> [start : Nat, count : 0 .. MaxCount]], GoodTable(t),
         size \in Nat, size' \in Nat, size' >= size
  PROVE  \A c \in Chunk : InFile(t[c], size')
  <1> TAKE c \in Chunk
  <1>1. t[c].start \in Nat /\ t[c].count \in Nat
    OBVIOUS
  <1>2. QED
    BY <1>1 DEF GoodTable, InFile

LEMMA GrowStep ==
  ASSUME Sound, Grow
  PROVE  Sound'
  <1>a. /\ phase = "grow" /\ phase' = "fill" /\ size' = size + op.n /\ sectors' = sectors + op.n
        /\ data' = [s \in Sector |-> IF s \in Run(size, op.n) THEN Zero ELSE data[s]]
        /\ UNCHANGED <<op, at, part, offsets, free, dOffsets, torn, trust>>
    BY DEF Grow, history
  <1>b. /\ op.chunk \in Chunk /\ op.n \in Sizes /\ op.n \in Nat /\ op.n >= 1 /\ op # NoOp
        /\ at \in Nat /\ at >= 2 /\ size \in Nat /\ sectors = size /\ size >= 2
        /\ trust = "sound"
        /\ offsets \in [Chunk -> [start : Nat, count : 0 .. MaxCount]] /\ GoodTable(offsets)
        /\ dOffsets \in [Chunk -> [start : Nat, count : 0 .. MaxCount]] /\ GoodTable(dOffsets)
    BY <1>a, WritingFacts DEF Writing
  <1>c. at = size /\ size + op.n <= MaxSectors /\ part = 0
    BY <1>a DEF Sound, Placement, Progress, Writing
  <1>d. data' \in [Sector -> Content \cup {Zero}]
    BY <1>a DEF Sound, TypeOK
  <1>1. TypeOK'
    BY <1>a, <1>b, <1>c, <1>d, MaxSectorsAssumption DEF Sound, TypeOK, Phase, Writing
  <1>2. Tables'
    BY <1>a, <1>b, TableGrows DEF Tables, GoodTable
  <1>3. Lengths'
    BY <1>a, <1>b DEF Sound, Lengths, Opened, Writing
  <1>4. Agree'
    BY <1>a DEF Sound, Agree, Opened, Writing
  <1>5. Placement'
    BY <1>a, <1>b, <1>c DEF Sound, Placement, Writing
  <1>6. FreeExact'
    <2>1. ASSUME NEW s \in 0 .. sectors' - 1, s < size
          PROVE  ExactAt(s)'
      <3>1. s \in 0 .. sectors - 1 /\ s \notin Run(at, op.n)
        BY <1>a, <1>b, <1>c, <2>1 DEF Run
      <3>2. ExactAt(s)
        BY <1>a, <1>b, <3>1 DEF Sound, FreeExact, Opened, Writing
      <3>3. QED
        BY <1>a, <3>1, <3>2 DEF ExactAt, Placed
    <2>2. ASSUME NEW s \in 0 .. sectors' - 1, s >= size
          PROVE  s \notin free /\ s \in Run(at, op.n)
      <3>1. s \in Run(at, op.n)
        BY <1>a, <1>b, <1>c, <2>2 DEF Run
      <3>2. s \notin free
        BY <1>b, <2>2 DEF Sound, TypeOK
      <3>3. QED
        BY <3>1, <3>2
    <2>3. ASSUME NEW s \in 0 .. sectors' - 1
          PROVE  ExactAt(s)'
      <3>1. CASE s < size
        BY <2>1, <3>1
      <3>2. CASE s >= size
        BY <1>a, <2>2, <3>2 DEF ExactAt, Placed
      <3>3. QED
        BY <1>a, <1>b, <3>1, <3>2
    <2>4. QED
      BY <2>3 DEF FreeExact
  <1>7. Progress'
    BY <1>a, <1>b, <1>c DEF Progress
  <1>8. QED
    BY <1>1, <1>2, <1>3, <1>4, <1>5, <1>6, <1>7 DEF Sound

LEMMA PutDataStep ==
  ASSUME Sound, PutData
  PROVE  Sound'
  <1>a. /\ phase \in {"data", "fill"} /\ part' = part + 1
        /\ data' = [data EXCEPT ![at + part] = PartOf(part')]
        /\ phase' = IF part' < op.n THEN phase ELSE IF phase = "data" THEN "stamp" ELSE "link"
        /\ UNCHANGED <<op, at, offsets, free, sectors, size, dOffsets, torn, trust>>
    BY DEF PutData, PartOf, memory, history
  <1>b. /\ op.chunk \in Chunk /\ op.n \in Sizes /\ op.ver \in Version /\ op.n \in Nat
        /\ op # NoOp /\ at \in Nat /\ part \in Nat /\ size \in Nat /\ size <= MaxSectors
    BY <1>a, WritingFacts DEF Writing
  <1>c. part < op.n /\ at + op.n <= size
    BY <1>a DEF Sound, Placement, Progress, Writing
  <1>d. at + part \in Sector
    BY <1>b, <1>c, MaxSectorsAssumption DEF Sector
  <1>e. phase' \in {"data", "fill", "stamp", "link"}
        /\ (phase' \in {"data", "stamp"} <=> phase = "data")
    BY <1>a
  <1>f. data' \in [Sector -> Content \cup {Zero}]
    <2>1. PartOf(part') \in Content
      BY <1>a, <1>b DEF PartOf, Content
    <2>2. QED
      BY <1>a, <2>1 DEF Sound, TypeOK
  <1>1. TypeOK'
    BY <1>a, <1>b, <1>e, <1>f DEF Sound, TypeOK, Phase, Writing
  <1>2. Tables'
    BY <1>a DEF Sound, Tables, GoodTable
  <1>3. Lengths'
    BY <1>a, <1>e DEF Sound, Lengths, Opened, Writing
  <1>4. Agree'
    BY <1>a, <1>e DEF Sound, Agree, Opened, Writing
  <1>5. Placement'
    BY <1>a, <1>e DEF Sound, Placement, Writing
  <1>6. FreeExact'
    BY <1>a, <1>e DEF Sound, FreeExact, ExactAt, Opened, Placed, Writing
  <1>7. Progress'
    <2>1. phase' \in {"data", "fill"} => part' < op.n
      BY <1>a
    <2>2. phase' \in {"link", "stamp"} => part' = op.n
      BY <1>a, <1>b, <1>c
    <2>3. ASSUME NEW i \in 1 .. part'
          PROVE  data'[at + i - 1] = PartOf(i)
      <3>1. at + i - 1 \in Sector
        BY <1>a, <1>b, <1>c, MaxSectorsAssumption DEF Sector
      <3>2. CASE i = part'
        BY <1>a, <1>b, <1>d, <3>2 DEF Sound, TypeOK
      <3>3. CASE i # part'
        <4>1. i \in 1 .. part /\ at + i - 1 # at + part
          BY <1>a, <1>b, <3>3
        <4>2. data[at + i - 1] = PartOf(i)
          BY <1>a, <4>1 DEF Sound, Progress, Writing
        <4>3. QED
          BY <1>a, <3>1, <4>1, <4>2 DEF Sound, TypeOK
      <3>4. QED
        BY <3>2, <3>3
    <2>4. QED
      BY <1>a, <1>e, <2>1, <2>2, <2>3 DEF Progress, PartOf
  <1>8. QED
    BY <1>1, <1>2, <1>3, <1>4, <1>5, <1>6, <1>7 DEF Sound

LEMMA LinkStep ==
  ASSUME Sound, Link
  PROVE  Sound'
  <1>a. /\ phase = "link" /\ phase' = "stamp"
        /\ offsets' = [offsets EXCEPT ![op.chunk] = Entry(at, op.n)]
        /\ dOffsets' = [dOffsets EXCEPT ![op.chunk] = Entry(at, op.n)]
        /\ UNCHANGED <<op, at, part, free, sectors, size, data, torn, trust>>
    BY DEF Link, history
  <1>b. /\ op.chunk \in Chunk /\ op.n \in Sizes /\ op.n \in Nat /\ op # NoOp
        /\ at \in Nat /\ at >= 2
        /\ offsets \in [Chunk -> [start : Nat, count : 0 .. MaxCount]] /\ GoodTable(offsets)
        /\ dOffsets \in [Chunk -> [start : Nat, count : 0 .. MaxCount]] /\ GoodTable(dOffsets)
        /\ \A c \in Chunk : c # op.chunk => offsets[c] = dOffsets[c]
        /\ \A c \in Chunk : c # op.chunk => RunOf(offsets[c]) \cap Run(at, op.n) = {}
    BY <1>a, WritingFacts DEF Writing
  <1>c. at + op.n <= size
    BY <1>a DEF Sound, Placement, Writing
  <1>d. \A c \in Chunk : c # op.chunk => RunOf(dOffsets[c]) \cap Run(at, op.n) = {}
    BY <1>b
  <1>e. /\ offsets' \in [Chunk -> [start : Nat, count : 0 .. MaxCount]] /\ GoodTable(offsets')
        /\ dOffsets' \in [Chunk -> [start : Nat, count : 0 .. MaxCount]] /\ GoodTable(dOffsets')
    <2>1. offsets' \in [Chunk -> [start : Nat, count : 0 .. MaxCount]] /\ GoodTable(offsets')
      BY <1>a, <1>b, <1>c, TableUpdate
    <2>2. dOffsets' \in [Chunk -> [start : Nat, count : 0 .. MaxCount]] /\ GoodTable(dOffsets')
      BY <1>a, <1>b, <1>c, <1>d, TableUpdate
    <2>3. QED
      BY <2>1, <2>2
  <1>f. /\ offsets'[op.chunk] = Entry(at, op.n) /\ dOffsets'[op.chunk] = Entry(at, op.n)
        /\ \A c \in Chunk : c # op.chunk => offsets'[c] = offsets[c] /\ dOffsets'[c] = dOffsets[c]
    BY <1>a, <1>b
  <1>1. TypeOK'
    BY <1>a, <1>b, <1>e DEF Sound, TypeOK, Phase, Writing
  <1>2. Tables'
    BY <1>a, <1>e DEF Tables, GoodTable
  <1>3. Lengths'
    BY <1>a DEF Sound, Lengths, Opened, Writing
  <1>4. Agree'
    BY <1>a, <1>b, <1>f DEF Agree
  <1>5. Placement'
    BY <1>a, <1>f DEF Sound, Placement, Writing
  <1>6. FreeExact'
    BY <1>a, <1>f DEF Sound, FreeExact, ExactAt, Opened, Placed, Writing
  <1>7. Progress'
    BY <1>a DEF Sound, Progress, PartOf, Writing
  <1>8. QED
    BY <1>1, <1>2, <1>3, <1>4, <1>5, <1>6, <1>7 DEF Sound

LEMMA StampStep ==
  ASSUME Sound, Stamp
  PROVE  Sound'
  <1>a. /\ phase = "stamp" /\ phase' = "idle" /\ op' = NoOp /\ torn' = torn \ {op.chunk}
        /\ UNCHANGED <<at, part, offsets, free, sectors, size, dOffsets, data, trust>>
    BY DEF Stamp, memory, file
  <1>b. \A c \in Chunk : c # op'.chunk
    BY <1>a, ChunkAssumption DEF NoOp
  <1>c. op.chunk \in Chunk /\ trust = "sound" /\ offsets[op.chunk] = dOffsets[op.chunk]
        /\ RunOf(offsets[op.chunk]) = Run(at, op.n)
        /\ \A c \in Chunk : c # op.chunk => offsets[c] = dOffsets[c]
    BY <1>a, WritingFacts, EntryFields DEF Sound, Agree, Writing
  <1>1. TypeOK'
    BY <1>a DEF Sound, TypeOK, Phase, Writing
  <1>2. Tables'
    BY <1>a DEF Sound, Tables, GoodTable
  <1>3. Lengths'
    BY <1>a DEF Sound, Lengths, Opened, Writing
  <1>4. Agree'
    BY <1>a, <1>c DEF Agree
  <1>5. Placement'
    BY <1>a DEF Placement, Writing
  <1>6. FreeExact'
    <2>1. ASSUME NEW s \in 0 .. sectors - 1 PROVE ExactAt(s)'
      <3>1. ExactAt(s)
        BY <1>a, <1>c DEF Sound, FreeExact, Opened, Writing
      <3>2. QED
        BY <1>a, <1>b, <1>c, <3>1 DEF ExactAt, Placed
    <2>2. QED
      BY <1>a, <2>1 DEF FreeExact
  <1>7. Progress'
    BY <1>a DEF Progress, Writing
  <1>8. QED
    BY <1>1, <1>2, <1>3, <1>4, <1>5, <1>6, <1>7 DEF Sound

LEMMA CutOff ==
  ASSUME Sound, size' \in CutOffSizes
  PROVE  size' \in Nat /\ size' >= size /\ size' <= MaxSectors
  <1>1. size \in Nat /\ size <= MaxSectors
    BY MaxSectorsAssumption DEF Sound, TypeOK
  <1>2. CASE phase = "grow"
    <2>1. op.n \in Nat /\ size + op.n <= MaxSectors
      BY <1>2, WritingFacts DEF Sound, Placement, Writing
    <2>2. QED
      BY <1>1, <1>2, <2>1, MaxSectorsAssumption DEF CutOffSizes
  <1>3. CASE phase # "grow"
    BY <1>1, <1>3 DEF CutOffSizes
  <1>4. QED
    BY <1>2, <1>3

LEMMA FailStep ==
  ASSUME Sound, Fail
  PROVE  Sound'
  <1>a. /\ phase \in Writing /\ phase' = "idle" /\ op' = NoOp /\ size' \in CutOffSizes
        /\ offsets' = IF phase = "link" THEN [offsets EXCEPT ![op.chunk] = Entry(at, op.n)]
                      ELSE offsets
        /\ trust' = IF trust = "sound" /\ phase \in Relocating THEN "hurt" ELSE trust
        /\ UNCHANGED <<at, part, free, sectors, dOffsets, data, torn>>
    BY DEF Fail
  <1>b. /\ op.chunk \in Chunk /\ op.n \in Sizes /\ at \in Nat /\ at >= 2
        /\ size \in Nat /\ sectors = size /\ size >= 2
        /\ offsets \in [Chunk -> [start : Nat, count : 0 .. MaxCount]] /\ GoodTable(offsets)
        /\ dOffsets \in [Chunk -> [start : Nat, count : 0 .. MaxCount]] /\ GoodTable(dOffsets)
        /\ \A c \in Chunk : c # op.chunk => RunOf(offsets[c]) \cap Run(at, op.n) = {}
    BY <1>a, WritingFacts
  <1>c. size' \in Nat /\ size' >= size /\ size' <= MaxSectors
    BY <1>a, CutOff
  <1>d. offsets' \in [Chunk -> [start : Nat, count : 0 .. MaxCount]] /\ GoodTable(offsets')
    <2>1. CASE phase = "link"
      <3>1. at + op.n <= size
        BY <2>1 DEF Sound, Placement, Writing
      <3>2. QED
        BY <1>a, <1>b, <2>1, <3>1, TableUpdate
    <2>2. CASE phase # "link"
      BY <1>a, <1>b, <2>2
    <2>3. QED
      BY <2>1, <2>2
  <1>1. TypeOK'
    BY <1>a, <1>b, <1>c, <1>d, MaxSectorsAssumption DEF Sound, TypeOK, Phase, Writing
  <1>2. Tables'
    BY <1>a, <1>b, <1>c, <1>d, TableGrows DEF Tables, GoodTable
  <1>3. CASE phase \in Relocating
    <2>1. Lengths'
      BY <1>a, <1>b, <1>c, <1>3, WritingFacts DEF Lengths, Opened, Writing
    <2>2. Agree' /\ Placement' /\ FreeExact' /\ Progress'
      BY <1>a, <1>3 DEF Agree, Placement, FreeExact, Progress, Opened, Writing
    <2>3. QED
      BY <1>1, <1>2, <2>1, <2>2 DEF Sound
  <1>4. CASE phase \in {"data", "stamp"}
    <2>a. trust = "sound" /\ trust' = "sound"
      BY <1>a, <1>4, WritingFacts DEF Relocating
    <2>b. size' = size /\ offsets' = offsets
      BY <1>a, <1>4 DEF CutOffSizes
    <2>c. /\ offsets[op.chunk] = dOffsets[op.chunk]
          /\ RunOf(offsets[op.chunk]) = Run(at, op.n)
          /\ \A c \in Chunk : c # op.chunk => offsets[c] = dOffsets[c]
      BY <1>a, <1>4, WritingFacts, EntryFields DEF Sound, Agree
    <2>d. \A c \in Chunk : c # op'.chunk
      BY <1>a, ChunkAssumption DEF NoOp
    <2>1. Lengths'
      BY <1>a, <1>b, <2>a, <2>b DEF Lengths, Opened, Writing
    <2>2. Agree'
      BY <1>a, <2>b, <2>c DEF Agree
    <2>3. Placement' /\ Progress'
      BY <1>a DEF Placement, Progress, Writing
    <2>4. FreeExact'
      <3>1. ASSUME NEW s \in 0 .. sectors - 1 PROVE ExactAt(s)'
        <4>1. ExactAt(s)
          BY <1>a, <2>a DEF Sound, FreeExact, Opened
        <4>2. QED
          BY <1>a, <1>b, <1>4, <2>b, <2>c, <2>d, <4>1 DEF ExactAt, Placed
      <3>2. QED
        BY <1>a, <3>1 DEF FreeExact
    <2>5. QED
      BY <1>1, <1>2, <2>1, <2>2, <2>3, <2>4 DEF Sound
  <1>5. QED
    BY <1>a, <1>3, <1>4 DEF Relocating, Writing

LEMMA EmptyGood == ASSUME size \in Nat PROVE GoodTable(Empty)
  <1>1. InFile(NoEntry, size) /\ GoodEntry(NoEntry)
    BY DEF InFile, NoEntry, Entry, GoodEntry
  <1>2. QED
    BY <1>1, EmptyTable, EmptyRun DEF GoodTable

LEMMA StopStep ==
  ASSUME Sound, Stop
  PROVE  Sound'
  <1>a. /\ phase' = "closed" /\ op' = NoOp /\ size' \in CutOffSizes /\ at' = 0 /\ part' = 0
        /\ offsets' = Empty /\ free' = {} /\ sectors' = 0
        /\ trust' = IF trust = "hurt" THEN "sound" ELSE trust
        /\ UNCHANGED <<dOffsets, data, torn>>
    BY DEF Stop
  <1>b. size' \in Nat /\ size' >= size /\ size' <= MaxSectors /\ size \in Nat
    BY <1>a, CutOff, MaxSectorsAssumption DEF Sound, TypeOK
  <1>c. dOffsets \in [Chunk -> [start : Nat, count : 0 .. MaxCount]] /\ GoodTable(dOffsets)
    BY DEF Sound, TypeOK, Tables
  <1>1. TypeOK'
    BY <1>a, <1>b, EmptyTable, MaxSectorsAssumption DEF Sound, TypeOK, Phase, Writing
  <1>2. Tables'
    <2>1. GoodTable(dOffsets)'
      BY <1>a, <1>b, <1>c, TableGrows DEF GoodTable
    <2>2. GoodTable(Empty)'
      <3>1. InFile(NoEntry, size') /\ GoodEntry(NoEntry)
        BY <1>b DEF InFile, NoEntry, Entry, GoodEntry
      <3>2. QED
        BY <3>1, EmptyTable, EmptyRun DEF GoodTable
    <2>3. QED
      BY <1>a, <2>1, <2>2 DEF Tables, GoodTable
  <1>3. Lengths'
    BY <1>a DEF Sound, TypeOK, Lengths, Opened, Writing
  <1>4. Agree' /\ Placement' /\ FreeExact' /\ Progress'
    BY <1>a DEF Agree, Placement, FreeExact, Progress, Opened, Writing
  <1>5. QED
    BY <1>1, <1>2, <1>3, <1>4 DEF Sound

-----------------------------------------------------------------------------
(* RegionFile::open.                                                       *)

LEMMA CreateHeaderStep ==
  ASSUME Sound, CreateHeader
  PROVE  Sound'
  <1>a. /\ phase = "closed" /\ phase' = "creating" /\ size' = 1 /\ dOffsets' = Empty
        /\ UNCHANGED <<op, at, part, offsets, free, sectors, data, torn, trust>>
    BY DEF CreateHeader, memory, history
  <1>b. offsets = Empty /\ free = {} /\ sectors = 0
    BY <1>a DEF Sound, Lengths, Opened, Writing
  <1>1. TypeOK'
    BY <1>a, EmptyTable, MaxSectorsAssumption DEF Sound, TypeOK, Phase, Writing
  <1>2. Tables'
    <2>1. InFile(NoEntry, size') /\ GoodEntry(NoEntry)
      BY <1>a DEF InFile, NoEntry, Entry, GoodEntry
    <2>2. QED
      BY <1>a, <1>b, <2>1, EmptyTable, EmptyRun DEF Tables, GoodTable
  <1>3. Lengths'
    BY <1>a, <1>b DEF Sound, Lengths, Opened, Writing
  <1>4. Agree' /\ Placement' /\ FreeExact' /\ Progress'
    BY <1>a DEF Agree, Placement, FreeExact, Progress, Opened, Writing
  <1>5. QED
    BY <1>1, <1>2, <1>3, <1>4 DEF Sound

LEMMA LoadStep ==
  ASSUME Sound, phase \in {"closed", "creating"}, Load,
         size' \in Nat, size' >= size, size' >= 2, size' <= MaxSectors,
         UNCHANGED <<op, at, part, dOffsets, data, torn, trust>>
  PROVE  Sound'
  <1>a. /\ phase' = "idle" /\ offsets' = dOffsets /\ sectors' = size'
        /\ free' = {s \in 0 .. size' - 1 :
                      /\ s \notin Header
                      /\ \A c \in Chunk : InFile(dOffsets[c], size') => s \notin RunOf(dOffsets[c])}
    BY DEF Load
  <1>b. /\ op = NoOp /\ op' = NoOp /\ size \in Nat
        /\ dOffsets \in [Chunk -> [start : Nat, count : 0 .. MaxCount]] /\ GoodTable(dOffsets)
    BY MaxSectorsAssumption, IdleOp DEF Sound, TypeOK, Tables, Writing
  <1>c. \A c \in Chunk : c # op'.chunk
    BY <1>b, ChunkAssumption DEF NoOp
  <1>d. \A c \in Chunk : InFile(dOffsets[c], size')
    BY <1>b, TableGrows
  <1>1. TypeOK'
    BY <1>a, <1>b, MaxSectorsAssumption DEF Sound, TypeOK, Phase, Writing
  <1>2. Tables'
    BY <1>a, <1>b, <1>d DEF Tables, GoodTable
  <1>3. Lengths'
    BY <1>a DEF Sound, Lengths, Opened, Writing
  <1>4. Agree' /\ Placement' /\ Progress'
    BY <1>a DEF Agree, Placement, Progress, Opened, Writing
  <1>5. FreeExact'
    <2>1. ASSUME NEW s \in 0 .. size' - 1 PROVE ExactAt(s)'
      BY <1>a, <1>c, <1>d DEF ExactAt, Placed
    <2>2. QED
      BY <1>a, <2>1 DEF FreeExact
  <1>6. QED
    BY <1>1, <1>2, <1>3, <1>4, <1>5 DEF Sound

LEMMA OpenStep ==
  ASSUME Sound, CreateRest \/ OpenExisting
  PROVE  Sound'
  <1>0. size \in Nat /\ size <= MaxSectors
    BY MaxSectorsAssumption DEF Sound, TypeOK
  <1>1. CASE CreateRest
    <2>1. size = 1
      BY <1>1 DEF CreateRest, Sound, Lengths
    <2>2. QED
      BY <1>1, <2>1, LoadStep, MaxSectorsAssumption DEF CreateRest, history
  <1>2. CASE OpenExisting /\ size # 1
    BY <1>0, <1>2, LoadStep DEF OpenExisting, file, history
  <1>3. CASE OpenExisting /\ size = 1
    <2>1. /\ phase = "closed" /\ phase' = "panicked"
          /\ UNCHANGED <<op, at, part, offsets, free, sectors, size, dOffsets, data, torn, trust>>
      BY <1>3 DEF OpenExisting, memory, file, history
    <2>2. TypeOK' BY <2>1 DEF Sound, TypeOK, Phase, Writing
    <2>3. Tables' BY <2>1 DEF Sound, Tables, GoodTable
    <2>4. Lengths' BY <2>1 DEF Sound, Lengths, Opened, Writing
    <2>5. Agree' /\ Placement' /\ FreeExact' /\ Progress'
      BY <2>1 DEF Agree, Placement, FreeExact, Progress, Opened, Writing
    <2>6. QED
      BY <2>2, <2>3, <2>4, <2>5 DEF Sound
  <1>4. QED
    BY <1>1, <1>2, <1>3

-----------------------------------------------------------------------------
(* Every step on a handle that is not hurt keeps the file sound.           *)

LEMMA InitSound == Init => Sound
  <1> SUFFICES ASSUME Init PROVE Sound
    OBVIOUS
  <1>1. /\ phase = "closed" /\ op = NoOp /\ at = 0 /\ part = 0 /\ offsets = Empty
        /\ free = {} /\ sectors = 0 /\ size = 0 /\ dOffsets = Empty /\ torn = {}
        /\ trust = "sound" /\ data = [s \in Sector |-> Zero]
    BY DEF Init
  <1>2. TypeOK
    BY <1>1, EmptyTable, MaxSectorsAssumption DEF TypeOK, Phase, Writing
  <1>3. Tables
    BY <1>1, EmptyGood DEF Tables
  <1>4. Lengths /\ Agree /\ Placement /\ FreeExact /\ Progress
    BY <1>1 DEF Lengths, Agree, Placement, FreeExact, Progress, Opened, Writing
  <1>5. QED
    BY <1>2, <1>3, <1>4 DEF Sound

LEMMA StutterStep ==
  ASSUME Sound, UNCHANGED vars
  PROVE  Sound'
  <1>1. UNCHANGED <<phase, op, at, part, offsets, free, sectors, size, dOffsets, data, torn, trust>>
    BY DEF vars, memory, file, history
  <1>2. TypeOK' BY <1>1 DEF Sound, TypeOK
  <1>3. Tables' BY <1>1 DEF Sound, Tables, GoodTable
  <1>4. Lengths' /\ Agree' /\ Placement' BY <1>1 DEF Sound, Lengths, Agree, Placement
  <1>5. FreeExact' BY <1>1 DEF Sound, FreeExact, ExactAt
  <1>6. Progress' BY <1>1 DEF Sound, Progress, PartOf
  <1>7. QED
    BY <1>2, <1>3, <1>4, <1>5, <1>6 DEF Sound

LEMMA SoundStep ==
  ASSUME Sound, trust = "sound" \/ ~WriteChunk, [Next]_vars
  PROVE  Sound'
  <1>1. CASE WriteChunk
    BY <1>1, InPlaceStep, RelocatedStep, GrownStep DEF WriteChunk
  <1>2. QED
    BY <1>1, CreateHeaderStep, OpenStep, PutOffsetStep, GrowStep, PutDataStep, LinkStep,
       StampStep, FailStep, StopStep, StutterStep DEF Next

-----------------------------------------------------------------------------
(* Every step, on whatever handle, keeps the runs in their frame.          *)

LEMMA EntryFramed ==
  ASSUME NEW t \in [Chunk -> [start : Nat, count : 0 .. MaxCount]], NEW length \in Nat,
         \A c \in Chunk : GoodEntry(t[c]) /\ InFile(t[c], length),
         NEW d \in Chunk, NEW s \in Nat, NEW n \in Sizes, s >= 2, s + n <= length
  PROVE  /\ [t EXCEPT ![d] = Entry(s, n)] \in [Chunk -> [start : Nat, count : 0 .. MaxCount]]
         /\ \A c \in Chunk : /\ GoodEntry([t EXCEPT ![d] = Entry(s, n)][c])
                             /\ InFile([t EXCEPT ![d] = Entry(s, n)][c], length)
  <1>1. Entry(s, n) \in [start : Nat, count : 0 .. MaxCount]
    BY SizesType DEF Entry
  <1>2. GoodEntry(Entry(s, n)) /\ InFile(Entry(s, n), length)
    BY EntryFields DEF GoodEntry, InFile
  <1>3. QED
    BY <1>1, <1>2

LEMMA InFileGrows ==
  ASSUME NEW t \in [Chunk -> [start : Nat, count : 0 .. MaxCount]],
         NEW length \in Nat, NEW longer \in Nat, longer >= length,
         \A c \in Chunk : InFile(t[c], length)
  PROVE  \A c \in Chunk : InFile(t[c], longer)
  <1>1. \A c \in Chunk : t[c].start \in Nat /\ t[c].count \in Nat
    OBVIOUS
  <1>2. QED
    BY <1>1 DEF InFile

\* A run that is given back lies behind the header and in the free map.
LEMMA FreedFramed ==
  ASSUME Framed, NEW c \in Chunk
  PROVE  Freed(c) \subseteq 2 .. sectors - 1
  <1>1. offsets[c].start \in Nat /\ offsets[c].count \in Nat /\ sectors \in Nat
    BY DEF Framed, TypeOK
  <1>2. CASE offsets[c] = NoEntry
    BY <1>2, EmptyRun DEF Framed, RunsFramed, Freed
  <1>3. CASE offsets[c].start >= 2
    <2>1. offsets[c].start + offsets[c].count <= sectors /\ free \subseteq 2 .. sectors - 1
      BY DEF Framed, RunsFramed, InFile
    <2>2. Run(offsets[c].start, offsets[c].count) \subseteq 2 .. sectors - 1
      BY <1>1, <1>3, <2>1 DEF Run
    <2>3. QED
      BY <2>1, <2>2 DEF Freed, RunOf
  <1>4. QED
    BY <1>2, <1>3 DEF Framed, RunsFramed, GoodEntry

LEMMA FramedTypes ==
  ASSUME Framed
  PROVE  /\ offsets \in [Chunk -> [start : Nat, count : 0 .. MaxCount]]
         /\ dOffsets \in [Chunk -> [start : Nat, count : 0 .. MaxCount]]
         /\ size \in Nat /\ size <= MaxSectors /\ sectors \in Nat /\ sectors <= size
         /\ at \in Nat /\ part \in Nat /\ MaxSectors \in Nat
         /\ phase \in Writing => /\ op \in Op /\ op # NoOp /\ op.chunk \in Chunk
                                 /\ op.n \in Sizes /\ op.n \in Nat /\ op.n >= 1
                                 /\ op.ver \in Version /\ at >= 2
  <1>1. phase \in Writing => /\ op \in Op /\ op # NoOp /\ op.chunk \in Chunk
                             /\ op.n \in Sizes /\ op.ver \in Version
    BY OpType DEF Framed, TypeOK
  <1>2. QED
    BY <1>1, SizesType, MaxSectorsAssumption DEF Framed, TypeOK, RunsFramed, WriteFramed

LEMMA BeginFramed ==
  ASSUME Framed, NEW c \in Chunk, NEW n \in Sizes, NEW v \in Version,
         WriteInPlace(c, n, v) \/ WriteRelocated(c, n, v) \/ WriteGrown(c, n, v)
  PROVE  Framed'
  <1>a. /\ phase = "idle" /\ op' = [chunk |-> c, n |-> n, ver |-> v] /\ part' = 0
        /\ torn' = torn \cup {c} /\ trust' \in {"sound", "lost"}
        /\ UNCHANGED <<sectors, size, dOffsets, data>>
    BY DEF WriteInPlace, WriteRelocated, WriteGrown, BeginWrite, file
  <1>b. op' \in Op /\ op' # NoOp /\ op'.chunk = c /\ op'.n = n /\ op'.ver = v
    BY <1>a, NewOp
  <1>c. n \in Nat /\ n >= 1
    BY SizesType
  <1>d. Freed(c) \subseteq 2 .. sectors - 1
    BY FreedFramed
  <1>e. /\ offsets \in [Chunk -> [start : Nat, count : 0 .. MaxCount]]
        /\ sectors \in Nat /\ sectors <= size /\ size \in Nat
    BY FramedTypes
  <1>1. CASE WriteInPlace(c, n, v)
    <2>a. /\ phase' = "data" /\ at' = offsets[c].start /\ offsets[c].start # 0
          /\ offsets[c].count = n /\ UNCHANGED <<offsets, free>>
      BY <1>1 DEF WriteInPlace, FitsInPlace
    <2>b. at' \in Nat /\ at' >= 2 /\ at' + n <= sectors
      BY <1>e, <2>a DEF Framed, RunsFramed, GoodEntry, NoEntry, Entry, InFile
    <2>1. TypeOK'
      BY <1>a, <1>b, <2>a, <2>b DEF Framed, TypeOK, Phase, Writing
    <2>2. RunsFramed'
      BY <1>a, <2>a DEF Framed, RunsFramed, Opened, Writing
    <2>3. WriteFramed'
      BY <1>a, <1>b, <1>c, <2>a, <2>b DEF WriteFramed
    <2>4. QED
      BY <2>1, <2>2, <2>3 DEF Framed
  <1>2. CASE WriteRelocated(c, n, v)
    <2>a. /\ phase' = "offset" /\ free' = Freed(c) /\ at' \in Freed(c)
          /\ Run(at', n) \subseteq Freed(c)
          /\ offsets' = [offsets EXCEPT ![c] = Entry(at', n)]
      BY <1>2 DEF WriteRelocated, FirstFit
    <2>b. at' \in Nat /\ at' >= 2 /\ at' + n <= sectors
      <3>1. at' \in 2 .. sectors - 1 /\ Run(at', n) \subseteq 2 .. sectors - 1
        BY <1>d, <2>a
      <3>2. at' \in Nat /\ at' >= 2
        BY <1>e, <3>1
      <3>3. QED
        BY <1>c, <1>e, <3>1, <3>2, RunWithin
    <2>c. /\ offsets' \in [Chunk -> [start : Nat, count : 0 .. MaxCount]]
          /\ \A d \in Chunk : GoodEntry(offsets'[d]) /\ InFile(offsets'[d], sectors)
      <3>1. \A d \in Chunk : GoodEntry(offsets[d]) /\ InFile(offsets[d], sectors)
        BY DEF Framed, RunsFramed
      <3>2. QED
        BY <1>e, <2>a, <2>b, <3>1, EntryFramed
    <2>1. TypeOK'
      BY <1>a, <1>b, <1>d, <2>a, <2>b, <2>c DEF Framed, TypeOK, Phase, Writing
    <2>2. RunsFramed'
      BY <1>a, <1>d, <2>a, <2>c DEF Framed, RunsFramed, Opened, Writing
    <2>3. WriteFramed'
      BY <1>a, <1>b, <2>a, <2>b DEF WriteFramed
    <2>4. QED
      BY <2>1, <2>2, <2>3 DEF Framed
  <1>3. CASE WriteGrown(c, n, v)
    <2>a. /\ phase' = "grow" /\ free' = Freed(c) /\ at' = sectors
          /\ size + n <= MaxSectors /\ UNCHANGED offsets
      BY <1>3 DEF WriteGrown
    <2>b. sectors >= 2
      BY <1>a DEF Framed, RunsFramed, Opened
    <2>1. TypeOK'
      BY <1>a, <1>b, <1>d, <1>e, <2>a DEF Framed, TypeOK, Phase, Writing
    <2>2. RunsFramed'
      BY <1>a, <1>d, <2>a DEF Framed, RunsFramed, Opened, Writing
    <2>3. WriteFramed'
      BY <1>a, <1>b, <2>a, <2>b DEF WriteFramed
    <2>4. QED
      BY <2>1, <2>2, <2>3 DEF Framed
  <1>4. QED
    BY <1>1, <1>2, <1>3

LEMMA PutOffsetFramed ==
  ASSUME Framed, PutOffset
  PROVE  Framed'
  <1>a. /\ phase = "offset" /\ phase' = "data"
        /\ dOffsets' = [dOffsets EXCEPT ![op.chunk] = Entry(at, op.n)]
        /\ free' = free \ Run(at, op.n)
        /\ UNCHANGED <<op, at, part, offsets, sectors, size, data, torn, trust>>
    BY DEF PutOffset, history
  <1>b. at + op.n <= sectors /\ at >= 2 /\ part = 0
    BY <1>a DEF Framed, WriteFramed, Writing
  <1>c. /\ dOffsets' \in [Chunk -> [start : Nat, count : 0 .. MaxCount]]
        /\ \A c \in Chunk : GoodEntry(dOffsets'[c]) /\ InFile(dOffsets'[c], size)
    <2>1. \A c \in Chunk : GoodEntry(dOffsets[c]) /\ InFile(dOffsets[c], size)
      BY DEF Framed, RunsFramed
    <2>2. /\ at + op.n <= size /\ size \in Nat /\ at \in Nat /\ op.chunk \in Chunk /\ op.n \in Sizes
          /\ dOffsets \in [Chunk -> [start : Nat, count : 0 .. MaxCount]]
      BY <1>a, <1>b, FramedTypes DEF Writing
    <2>3. QED
      BY <1>a, <1>b, <2>1, <2>2, EntryFramed
  <1>1. TypeOK'
    BY <1>a, <1>c DEF Framed, TypeOK, Phase, Writing
  <1>2. RunsFramed'
    BY <1>a, <1>c DEF Framed, RunsFramed, Opened, Writing
  <1>3. WriteFramed'
    BY <1>a, <1>b, FramedTypes DEF WriteFramed, Writing
  <1>4. QED
    BY <1>1, <1>2, <1>3 DEF Framed

LEMMA GrowFramed ==
  ASSUME Framed, Grow
  PROVE  Framed'
  <1>a. /\ phase = "grow" /\ phase' = "fill" /\ size' = size + op.n /\ sectors' = sectors + op.n
        /\ data' = [s \in Sector |-> IF s \in Run(size, op.n) THEN Zero ELSE data[s]]
        /\ UNCHANGED <<op, at, part, offsets, free, dOffsets, torn, trust>>
    BY DEF Grow, history
  <1>b. at = sectors /\ size + op.n <= MaxSectors /\ part = 0
    BY <1>a DEF Framed, WriteFramed, Writing
  <1>c. /\ sectors' \in Nat /\ sectors' >= sectors /\ size' \in Nat /\ size' >= size
        /\ sectors' <= size' /\ size' <= MaxSectors
    BY <1>a, <1>b, FramedTypes DEF Writing
  <1>d. data' \in [Sector -> Content \cup {Zero}]
    BY <1>a DEF Framed, TypeOK
  <1>e. free \subseteq 2 .. sectors' - 1
    <2>1. free \subseteq 2 .. sectors - 1
      BY DEF Framed, RunsFramed
    <2>2. sectors \in Nat
      BY FramedTypes
    <2>a. sectors' \in Nat /\ sectors' >= sectors
      BY <1>c
    <2>b. \A i, j \in Nat : j >= i => 2 .. i - 1 \subseteq 2 .. j - 1
      OBVIOUS
    <2>3. 2 .. sectors - 1 \subseteq 2 .. sectors' - 1
      BY <2>2, <2>a, <2>b
    <2>4. QED
      BY <2>1, <2>3
  <1>1. TypeOK'
    BY <1>a, <1>c, <1>d, <1>e, MaxSectorsAssumption DEF Framed, TypeOK, Phase, Writing
  <1>2. RunsFramed'
    <2>1. \A c \in Chunk : InFile(offsets[c], sectors') /\ InFile(dOffsets[c], size')
      BY <1>c, FramedTypes, InFileGrows DEF Framed, RunsFramed
    <2>2. sectors' >= 2
      BY <1>a, <1>c, FramedTypes DEF Framed, RunsFramed, Opened, Writing
    <2>3. QED
      BY <1>a, <1>c, <1>e, <2>1, <2>2 DEF Framed, RunsFramed, Opened, Writing
  <1>3. WriteFramed'
    BY <1>a, <1>b, FramedTypes DEF WriteFramed, Writing
  <1>4. QED
    BY <1>1, <1>2, <1>3 DEF Framed

LEMMA PutDataFramed ==
  ASSUME Framed, PutData
  PROVE  Framed'
  <1>a. /\ phase \in {"data", "fill"} /\ part' = part + 1
        /\ data' = [data EXCEPT ![at + part] = PartOf(part')]
        /\ phase' = IF part' < op.n THEN phase ELSE IF phase = "data" THEN "stamp" ELSE "link"
        /\ UNCHANGED <<op, at, offsets, free, sectors, size, dOffsets, torn, trust>>
    BY DEF PutData, PartOf, memory, history
  <1>b. phase' \in {"data", "fill"} => part' < op.n
    BY <1>a
  <1>c. phase' \in {"data", "fill", "stamp", "link"}
    BY <1>a
  <1>d. data' \in [Sector -> Content \cup {Zero}]
    <2>1. PartOf(part') \in Content
      BY <1>a, FramedTypes DEF PartOf, Content, Writing
    <2>2. QED
      BY <1>a, <2>1 DEF Framed, TypeOK
  <1>1. TypeOK'
    BY <1>a, <1>c, <1>d, FramedTypes DEF Framed, TypeOK, Phase, Writing
  <1>2. RunsFramed'
    BY <1>a, <1>c DEF Framed, RunsFramed, Opened, Writing
  <1>3. WriteFramed'
    BY <1>a, <1>b, <1>c DEF Framed, WriteFramed, Writing
  <1>4. QED
    BY <1>1, <1>2, <1>3 DEF Framed

LEMMA LinkFramed ==
  ASSUME Framed, Link
  PROVE  Framed'
  <1>a. /\ phase = "link" /\ phase' = "stamp"
        /\ offsets' = [offsets EXCEPT ![op.chunk] = Entry(at, op.n)]
        /\ dOffsets' = [dOffsets EXCEPT ![op.chunk] = Entry(at, op.n)]
        /\ UNCHANGED <<op, at, part, free, sectors, size, data, torn, trust>>
    BY DEF Link, history
  <1>b. at + op.n <= sectors /\ at + op.n <= size /\ at >= 2
    BY <1>a, FramedTypes DEF Framed, WriteFramed, Writing
  <1>c. /\ offsets' \in [Chunk -> [start : Nat, count : 0 .. MaxCount]]
        /\ \A c \in Chunk : GoodEntry(offsets'[c]) /\ InFile(offsets'[c], sectors)
    <2>1. \A c \in Chunk : GoodEntry(offsets[c]) /\ InFile(offsets[c], sectors)
      BY DEF Framed, RunsFramed
    <2>2. /\ sectors \in Nat /\ at \in Nat /\ op.chunk \in Chunk /\ op.n \in Sizes
          /\ offsets \in [Chunk -> [start : Nat, count : 0 .. MaxCount]]
      BY <1>a, FramedTypes DEF Writing
    <2>3. QED
      BY <1>a, <1>b, <2>1, <2>2, EntryFramed
  <1>d. /\ dOffsets' \in [Chunk -> [start : Nat, count : 0 .. MaxCount]]
        /\ \A c \in Chunk : GoodEntry(dOffsets'[c]) /\ InFile(dOffsets'[c], size)
    <2>1. \A c \in Chunk : GoodEntry(dOffsets[c]) /\ InFile(dOffsets[c], size)
      BY DEF Framed, RunsFramed
    <2>2. /\ size \in Nat /\ at \in Nat /\ op.chunk \in Chunk /\ op.n \in Sizes
          /\ dOffsets \in [Chunk -> [start : Nat, count : 0 .. MaxCount]]
      BY <1>a, FramedTypes DEF Writing
    <2>3. QED
      BY <1>a, <1>b, <2>1, <2>2, EntryFramed
  <1>1. TypeOK'
    BY <1>a, <1>c, <1>d DEF Framed, TypeOK, Phase, Writing
  <1>2. RunsFramed'
    BY <1>a, <1>c, <1>d DEF Framed, RunsFramed, Opened, Writing
  <1>3. WriteFramed'
    BY <1>a, <1>b DEF WriteFramed
  <1>4. QED
    BY <1>1, <1>2, <1>3 DEF Framed

LEMMA CutOffFramed ==
  ASSUME Framed, size' \in CutOffSizes
  PROVE  size' \in Nat /\ size' >= size /\ size' <= MaxSectors
  <1>1. CASE phase = "grow"
    BY <1>1, FramedTypes DEF CutOffSizes, Framed, WriteFramed, Writing
  <1>2. CASE phase # "grow"
    BY <1>2, FramedTypes DEF CutOffSizes
  <1>3. QED
    BY <1>1, <1>2

LEMMA FailFramed ==
  ASSUME Framed, Fail
  PROVE  Framed'
  <1>a. /\ phase \in Writing /\ phase' = "idle" /\ op' = NoOp /\ size' \in CutOffSizes
        /\ offsets' = IF phase = "link" THEN [offsets EXCEPT ![op.chunk] = Entry(at, op.n)]
                      ELSE offsets
        /\ UNCHANGED <<at, part, free, sectors, dOffsets, data, torn>>
        /\ trust' \in {"hurt", trust}
    BY DEF Fail
  <1>b. size' \in Nat /\ size' >= size /\ size' <= MaxSectors
    BY <1>a, CutOffFramed
  <1>c. /\ offsets' \in [Chunk -> [start : Nat, count : 0 .. MaxCount]]
        /\ \A c \in Chunk : GoodEntry(offsets'[c]) /\ InFile(offsets'[c], sectors)
    <2>1. \A c \in Chunk : GoodEntry(offsets[c]) /\ InFile(offsets[c], sectors)
      BY DEF Framed, RunsFramed
    <2>2. CASE phase = "link"
      <3>1. at + op.n <= sectors
        BY <2>2 DEF Framed, WriteFramed, Writing
      <3>2. QED
        BY <1>a, <2>1, <2>2, <3>1, FramedTypes, EntryFramed
    <2>3. CASE phase # "link"
      BY <1>a, <2>1, <2>3, FramedTypes
    <2>4. QED
      BY <2>2, <2>3
  <1>1. TypeOK'
    BY <1>a, <1>b, <1>c, MaxSectorsAssumption DEF Framed, TypeOK, Phase, Writing
  <1>2. RunsFramed'
    <2>1. \A c \in Chunk : InFile(dOffsets[c], size')
      BY <1>b, FramedTypes, InFileGrows DEF Framed, RunsFramed
    <2>2. QED
      BY <1>a, <1>b, <1>c, <2>1, FramedTypes DEF Framed, RunsFramed, Opened, Writing
  <1>3. WriteFramed'
    BY <1>a DEF WriteFramed, Writing
  <1>4. QED
    BY <1>1, <1>2, <1>3 DEF Framed

LEMMA StopFramed ==
  ASSUME Framed, Stop
  PROVE  Framed'
  <1>a. /\ phase' = "closed" /\ op' = NoOp /\ size' \in CutOffSizes /\ at' = 0 /\ part' = 0
        /\ offsets' = Empty /\ free' = {} /\ sectors' = 0
        /\ UNCHANGED <<dOffsets, data, torn>>
        /\ trust' \in {"sound", trust}
    BY DEF Stop
  <1>b. size' \in Nat /\ size' >= size /\ size' <= MaxSectors
    BY <1>a, CutOffFramed
  <1>1. TypeOK'
    BY <1>a, <1>b, EmptyTable, MaxSectorsAssumption DEF Framed, TypeOK, Phase, Writing
  <1>2. RunsFramed'
    <2>1. \A c \in Chunk : InFile(dOffsets[c], size')
      BY <1>b, FramedTypes, InFileGrows DEF Framed, RunsFramed
    <2>2. InFile(NoEntry, 0) /\ GoodEntry(NoEntry)
      BY DEF InFile, NoEntry, Entry, GoodEntry
    <2>3. QED
      BY <1>a, <1>b, <2>1, <2>2, EmptyTable DEF Framed, RunsFramed, Opened, Writing
  <1>3. WriteFramed'
    BY <1>a DEF WriteFramed, Writing
  <1>4. QED
    BY <1>1, <1>2, <1>3 DEF Framed

LEMMA LoadFramed ==
  ASSUME Framed, phase \in {"closed", "creating"}, Load,
         size' \in Nat, size' >= size, size' >= 2, size' <= MaxSectors,
         UNCHANGED <<op, at, part, dOffsets, data, torn, trust>>
  PROVE  Framed'
  <1>a. /\ phase' = "idle" /\ offsets' = dOffsets /\ sectors' = size'
        /\ free' = {s \in 0 .. size' - 1 :
                      /\ s \notin Header
                      /\ \A c \in Chunk : InFile(dOffsets[c], size') => s \notin RunOf(dOffsets[c])}
    BY DEF Load
  <1>b. op = NoOp
    BY IdleOp DEF Framed, TypeOK, Writing
  <1>c. \A c \in Chunk : InFile(dOffsets[c], size')
    BY FramedTypes, InFileGrows DEF Framed, RunsFramed
  <1>d. free' \subseteq 2 .. size' - 1
    BY <1>a DEF Header
  <1>1. TypeOK'
    BY <1>a, <1>b, <1>d, MaxSectorsAssumption DEF Framed, TypeOK, Phase, Writing
  <1>2. RunsFramed'
    BY <1>a, <1>c, <1>d DEF Framed, RunsFramed, Opened
  <1>3. WriteFramed'
    BY <1>a DEF WriteFramed, Writing
  <1>4. QED
    BY <1>1, <1>2, <1>3 DEF Framed

LEMMA CreateFramed ==
  ASSUME Framed, CreateHeader
  PROVE  Framed'
  <1>a. /\ phase = "closed" /\ phase' = "creating" /\ size' = 1 /\ dOffsets' = Empty
        /\ UNCHANGED <<op, at, part, offsets, free, sectors, data, torn, trust>>
    BY DEF CreateHeader, memory, history
  <1>b. InFile(NoEntry, 1) /\ GoodEntry(NoEntry)
    BY DEF InFile, NoEntry, Entry, GoodEntry
  <1>c. sectors = 0
    BY <1>a DEF Framed, RunsFramed, Opened, Writing
  <1>1. TypeOK'
    BY <1>a, EmptyTable, MaxSectorsAssumption DEF Framed, TypeOK, Phase, Writing
  <1>2. RunsFramed'
    BY <1>a, <1>b, <1>c, EmptyTable DEF Framed, RunsFramed, Opened, Writing
  <1>3. WriteFramed'
    BY <1>a DEF WriteFramed, Writing
  <1>4. QED
    BY <1>1, <1>2, <1>3 DEF Framed

LEMMA OpenFramed ==
  ASSUME Framed, CreateRest \/ OpenExisting
  PROVE  Framed'
  <1>1. CASE CreateRest
    <2>1. size = 1
      BY <1>1 DEF CreateRest, Framed, RunsFramed
    <2>2. QED
      BY <1>1, <2>1, LoadFramed, MaxSectorsAssumption DEF CreateRest, history
  <1>2. CASE OpenExisting /\ size # 1
    BY <1>2, FramedTypes, LoadFramed DEF OpenExisting, file, history
  <1>3. CASE OpenExisting /\ size = 1
    <2>1. /\ phase = "closed" /\ phase' = "panicked"
          /\ UNCHANGED <<op, at, part, offsets, free, sectors, size, dOffsets, data, torn, trust>>
      BY <1>3 DEF OpenExisting, memory, file, history
    <2>2. TypeOK' BY <2>1 DEF Framed, TypeOK, Phase, Writing
    <2>3. RunsFramed' BY <2>1 DEF Framed, RunsFramed, Opened, Writing
    <2>4. WriteFramed' BY <2>1 DEF WriteFramed, Writing
    <2>5. QED
      BY <2>2, <2>3, <2>4 DEF Framed
  <1>4. QED
    BY <1>1, <1>2, <1>3

LEMMA FramedStep ==
  ASSUME Framed, [Next]_vars
  PROVE  Framed'
  <1>1. CASE WriteChunk
    BY <1>1, BeginFramed DEF WriteChunk
  <1>2. CASE Stamp
    <2>1. /\ phase = "stamp" /\ phase' = "idle" /\ op' = NoOp /\ torn' = torn \ {op.chunk}
          /\ UNCHANGED <<at, part, offsets, free, sectors, size, dOffsets, data, trust>>
      BY <1>2 DEF Stamp, memory, file
    <2>2. TypeOK' BY <2>1 DEF Framed, TypeOK, Phase, Writing
    <2>3. RunsFramed' BY <2>1 DEF Framed, RunsFramed, Opened, Writing
    <2>4. WriteFramed' BY <2>1 DEF WriteFramed, Writing
    <2>5. QED
      BY <2>2, <2>3, <2>4 DEF Framed
  <1>3. CASE UNCHANGED vars
    <2>1. UNCHANGED <<phase, op, at, part, offsets, free, sectors, size, dOffsets, data, torn, trust>>
      BY <1>3 DEF vars, memory, file, history
    <2>2. TypeOK' BY <2>1 DEF Framed, TypeOK
    <2>3. RunsFramed' BY <2>1 DEF Framed, RunsFramed
    <2>4. WriteFramed' BY <2>1 DEF Framed, WriteFramed
    <2>5. QED
      BY <2>2, <2>3, <2>4 DEF Framed
  <1>4. QED
    BY <1>1, <1>2, <1>3, CreateFramed, OpenFramed, PutOffsetFramed, GrowFramed, PutDataFramed,
       LinkFramed, FailFramed, StopFramed DEF Next

LEMMA InitFramed == Init => Framed
  <1> SUFFICES ASSUME Init PROVE Framed
    OBVIOUS
  <1>1. TypeOK
    BY InitSound DEF Sound
  <1>2. /\ phase = "closed" /\ offsets = Empty /\ free = {} /\ sectors = 0 /\ size = 0
        /\ dOffsets = Empty
    BY DEF Init
  <1>3. InFile(NoEntry, 0) /\ GoodEntry(NoEntry)
    BY DEF InFile, NoEntry, Entry, GoodEntry
  <1>4. RunsFramed
    BY <1>2, <1>3, EmptyTable DEF RunsFramed, Opened, Writing
  <1>5. QED
    BY <1>1, <1>2, <1>4 DEF Framed, WriteFramed, Writing

-----------------------------------------------------------------------------
(* Both layers together.                                                   *)

\* Once lost, trust does not come back.
LEMMA LostForEver ==
  ASSUME trust = "lost", [Next]_vars
  PROVE  trust' = "lost"
  BY DEF Next, WriteChunk, WriteInPlace, WriteRelocated, WriteGrown, BeginWrite,
     CreateHeader, CreateRest, OpenExisting, PutOffset, Grow, PutData, Link, Stamp,
     Fail, Stop, vars, history

LEMMA InvStep ==
  ASSUME IInv, [Next]_vars
  PROVE  IInv'
  <1>1. Framed'
    BY FramedStep DEF IInv
  <1>2. CASE trust = "lost"
    BY <1>1, <1>2, LostForEver DEF IInv
  <1>3. CASE trust # "lost" /\ (trust = "sound" \/ ~WriteChunk)
    BY <1>1, <1>3, SoundStep DEF IInv
  <1>4. CASE trust = "hurt" /\ WriteChunk
    <2>1. trust' = "lost"
      BY <1>4 DEF WriteChunk, WriteInPlace, WriteRelocated, WriteGrown, BeginWrite
    <2>2. QED
      BY <1>1, <2>1 DEF IInv
  <1>5. QED
    BY <1>2, <1>3, <1>4 DEF IInv, Framed, TypeOK

-----------------------------------------------------------------------------
(* The store that can be read from the file.                               *)

Stored == [c \in Chunk |-> IF c \in torn THEN Unknown ELSE Durable(c)]
WriteOf == IF op = NoOp THEN NoOp
           ELSE [chunk |-> op.chunk, value |-> NBT(op.chunk, op.n, op.ver)]

\* What is read through an entry depends on nothing outside its run.
LEMMA ReadSame ==
  ASSUME TypeOK, NEW c \in Chunk,
         dOffsets'[c] = dOffsets[c], GoodEntry(dOffsets[c]),
         InFile(dOffsets[c], size), InFile(dOffsets[c], size'),
         \A s \in RunOf(dOffsets[c]) : data'[s] = data[s]
  PROVE  Durable(c)' = Durable(c)
  <1> DEFINE e == dOffsets[c]
             Reads(d) == IF /\ d[e.start] # Zero
                            /\ d[e.start].part = 1
                            /\ d[e.start].n <= e.count
                            /\ \A i \in 1 .. d[e.start].n :
                                 d[e.start + i - 1] = [d[e.start] EXCEPT !.part = i]
                         THEN NBT(d[e.start].chunk, d[e.start].n, d[e.start].ver)
                         ELSE Unreadable
  <1>1. CASE e = NoEntry
    BY <1>1 DEF Durable, ReadThrough
  <1>2. CASE e # NoEntry
    <2>1. Durable(c) = Reads(data) /\ Durable(c)' = Reads(data')
      BY <1>2 DEF Durable, ReadThrough
    <2>2. e.start \in Nat /\ e.count \in Nat /\ e.count >= 1
      BY <1>2, SizesType DEF GoodEntry, TypeOK
    <2>7. data[e.start] = Zero \/ data[e.start].n \in Nat
      <3>1. e.start \in Sector
        BY <2>2, MaxSectorsAssumption DEF InFile, Sector, TypeOK
      <3>2. QED
        BY <3>1, SizesType DEF TypeOK, Content
    <2>3. data'[e.start] = data[e.start]
      BY <2>2 DEF RunOf, Run
    <2>4. \A i \in Int : 1 <= i /\ i <= e.count => data'[e.start + i - 1] = data[e.start + i - 1]
      BY <2>2 DEF RunOf, Run
    <2>5. Reads(data') = Reads(data)
      <3>1. CASE data[e.start] = Zero \/ ~(data[e.start].n <= e.count)
        BY <2>3, <3>1
      <3>2. CASE data[e.start].n \in Nat /\ data[e.start].n <= e.count
        <4>1. \A i \in 1 .. data[e.start].n :
                data'[e.start + i - 1] = data[e.start + i - 1]
          BY <2>2, <2>4, <3>2
        <4>2. QED
          BY <2>3, <4>1
      <3> HIDE DEF Reads
      <3>3. QED
        BY <2>7, <3>1, <3>2
    <2> HIDE DEF Reads
    <2>6. QED
      BY <2>1, <2>5
  <1>3. QED
    BY <1>1, <1>2

\* A step that keeps the table, or what lies in the runs it names, and
\* does not shorten the file, is not seen in the store.
LEMMA StoreKept ==
  ASSUME Sound, op' = op \/ (op = NoOp /\ op' = NoOp), torn' = torn,
         size' \in Nat, size' >= size,
         \A c \in Chunk : c \notin torn =>
           /\ dOffsets'[c] = dOffsets[c]
           /\ \A s \in RunOf(dOffsets[c]) : data'[s] = data[s]
  PROVE  Stored' = Stored /\ WriteOf' = WriteOf
  <1>1. /\ dOffsets \in [Chunk -> [start : Nat, count : 0 .. MaxCount]] /\ GoodTable(dOffsets)
        /\ size \in Nat /\ TypeOK
    BY MaxSectorsAssumption DEF Sound, TypeOK, Tables
  <1>2. ASSUME NEW c \in Chunk, c \notin torn
        PROVE  Durable(c)' = Durable(c)
    <2>1. InFile(dOffsets[c], size) /\ InFile(dOffsets[c], size') /\ GoodEntry(dOffsets[c])
      BY <1>1, TableGrows DEF GoodTable
    <2>2. QED
      BY <1>1, <1>2, <2>1, ReadSame
  <1>3. Stored' = Stored
    BY <1>2 DEF Stored
  <1>4. QED
    BY <1>3 DEF WriteOf

LEMMA BeginRefines ==
  ASSUME Sound, NEW c \in Chunk, NEW n \in Sizes, NEW v \in Version, BeginWrite(c, n, v)
  PROVE  Store!Begin(c, NBT(c, n, v))
  <1>1. /\ op = NoOp
        /\ op' = [chunk |-> c, n |-> n, ver |-> v] /\ torn' = torn \cup {c}
        /\ trust' = IF trust = "sound" THEN "sound" ELSE "lost"
        /\ UNCHANGED <<size, dOffsets, data>>
    BY IdleOp DEF BeginWrite, file, Sound, Writing
  <1>2. op' # NoOp /\ op'.chunk = c /\ op'.n = n /\ op'.ver = v
    BY <1>1, NewOp
  <1>3. WriteOf = NoOp /\ WriteOf' = [chunk |-> c, value |-> NBT(c, n, v)]
    BY <1>1, <1>2 DEF WriteOf
  <1>4. \A d \in Chunk : Durable(d)' = Durable(d)
    BY <1>1 DEF Durable, ReadThrough
  <1>5. Stored' = [Stored EXCEPT ![c] = Unknown]
    BY <1>1, <1>4 DEF Stored
  <1>6. QED
    BY <1>1, <1>3, <1>5 DEF Store!Begin, Stored, WriteOf

LEMMA StampRefines ==
  ASSUME Sound, Stamp
  PROVE  Store!Finish
  <1>1. /\ phase = "stamp" /\ op' = NoOp /\ torn' = torn \ {op.chunk}
        /\ UNCHANGED <<size, dOffsets, data, trust>>
    BY DEF Stamp, file
  <1>2. /\ op.chunk \in Chunk /\ op.n \in Sizes /\ op.n \in Nat /\ op.n >= 1 /\ op # NoOp
        /\ at \in Nat /\ at >= 2 /\ trust = "sound"
    BY <1>1, WritingFacts DEF Writing
  <1>3. /\ dOffsets[op.chunk] = Entry(at, op.n) /\ at + op.n <= size
        /\ \A i \in 1 .. op.n : data[at + i - 1] = PartOf(i)
    BY <1>1 DEF Sound, Agree, Placement, Progress, Writing
  <1>4. data[at] = PartOf(1)
    <2>1. data[at + 1 - 1] = PartOf(1)
      BY <1>2, <1>3
    <2>2. at + 1 - 1 = at
      BY <1>2
    <2>3. QED
      BY <2>1, <2>2
  <1>5. /\ data[at] # Zero /\ data[at].part = 1 /\ data[at].n = op.n
        /\ data[at].chunk = op.chunk /\ data[at].ver = op.ver
        /\ \A i \in 1 .. op.n : [data[at] EXCEPT !.part = i] = PartOf(i)
    BY <1>2, <1>4, ChunkAssumption DEF PartOf, Zero
  <1>6. Durable(op.chunk) = NBT(op.chunk, op.n, op.ver)
    <2>1. Entry(at, op.n) # NoEntry /\ InFile(Entry(at, op.n), size)
      BY <1>2, <1>3 DEF Entry, NoEntry, InFile
    <2>2. QED
      BY <1>2, <1>3, <1>5, <2>1, EntryFields DEF Durable, ReadThrough
  <1>7. \A d \in Chunk : Durable(d)' = Durable(d)
    BY <1>1 DEF Durable, ReadThrough
  <1>8. Stored' = [Stored EXCEPT ![op.chunk] = NBT(op.chunk, op.n, op.ver)]
    BY <1>1, <1>2, <1>6, <1>7 DEF Stored
  <1>9. /\ WriteOf = [chunk |-> op.chunk, value |-> NBT(op.chunk, op.n, op.ver)]
        /\ WriteOf # NoOp /\ WriteOf' = NoOp
    BY <1>1, <1>2, ChunkAssumption DEF WriteOf, NoOp
  <1>10. QED
    BY <1>1, <1>2, <1>8, <1>9 DEF Store!Finish, Stored, WriteOf

\* The writes to the file in the middle of a call.
LEMMA MiddleRefines ==
  ASSUME Sound, PutOffset \/ Grow \/ PutData \/ Link
  PROVE  Stored' = Stored /\ WriteOf' = WriteOf /\ trust' = trust
  <1>1. phase \in Writing /\ op' = op /\ torn' = torn /\ trust' = trust
    BY DEF PutOffset, Grow, PutData, Link, Writing, history
  <1>2. /\ op.chunk \in Chunk /\ op.chunk \in torn /\ op.n \in Nat /\ at \in Nat /\ part \in Nat
        /\ size \in Nat
        /\ dOffsets \in [Chunk -> [start : Nat, count : 0 .. MaxCount]] /\ GoodTable(dOffsets)
        /\ \A c \in Chunk : c # op.chunk => RunOf(dOffsets[c]) \cap Run(at, op.n) = {}
    BY <1>1, WritingFacts
  <1>3. size' \in Nat /\ size' >= size
    BY <1>2 DEF PutOffset, Grow, PutData, Link
  <1>4. ASSUME NEW c \in Chunk, c \notin torn
        PROVE  dOffsets'[c] = dOffsets[c]
    BY <1>2, <1>4 DEF PutOffset, Grow, PutData, Link
  <1>5. ASSUME NEW c \in Chunk, c \notin torn, NEW s \in RunOf(dOffsets[c])
        PROVE  data'[s] = data[s]
    <2>1. RunOf(dOffsets[c]) \subseteq 2 .. size - 1
      BY <1>2, TableRuns
    <2>2. s \in 0 .. size - 1 /\ s \in Sector
      BY <1>2, <1>5, <2>1, MaxSectorsAssumption DEF Sector, Sound, TypeOK
    <2>3. CASE PutOffset \/ Link
      BY <2>3 DEF PutOffset, Link
    <2>4. CASE Grow
      <3>1. s \notin Run(size, op.n)
        BY <1>2, <2>2 DEF Run
      <3>2. QED
        BY <2>2, <2>4, <3>1 DEF Grow
    <2>5. CASE PutData
      <3>1. at + part \in Run(at, op.n)
        <4>1. part < op.n
          BY <2>5 DEF PutData, Sound, Progress
        <4>2. QED
          BY <1>2, <4>1 DEF Run
      <3>2. s # at + part
        BY <1>2, <1>5, <3>1
      <3>3. QED
        BY <2>2, <2>5, <3>2 DEF PutData, Sound, TypeOK
    <2>6. QED
      BY <2>3, <2>4, <2>5
  <1>6. QED
    BY <1>1, <1>3, <1>4, <1>5, StoreKept

\* A call that ends badly, a process that ends, a file that is opened.
LEMMA OtherRefines ==
  ASSUME Sound, Fail \/ Stop \/ CreateHeader \/ CreateRest \/ OpenExisting
  PROVE  \/ Store!GiveUp \/ Store!Reopen
         \/ Stored' = Stored /\ WriteOf' = WriteOf /\ trust' = trust
  <1>0. size \in Nat /\ size <= MaxSectors
    BY MaxSectorsAssumption DEF Sound, TypeOK
  <1>1. torn' = torn /\ data' = data
    BY DEF Fail, Stop, CreateHeader, CreateRest, OpenExisting, file, history
  <1>2. size' \in Nat /\ size' >= size
    <2>1. CASE Fail \/ Stop
      BY <2>1, CutOff DEF Fail, Stop
    <2>2. CASE CreateRest
      BY <2>2 DEF CreateRest, Sound, Lengths
    <2>3. CASE CreateHeader \/ OpenExisting
      BY <1>0, <2>3 DEF CreateHeader, OpenExisting, file
    <2>4. QED
      BY <2>1, <2>2, <2>3
  <1>3. ASSUME NEW c \in Chunk
        PROVE  dOffsets'[c] = dOffsets[c]
    <2>1. CASE CreateHeader
      <3>1. size = 0
        BY <2>1 DEF CreateHeader
      <3>2. dOffsets[c] = NoEntry
        BY <3>1, SizesType DEF Sound, TypeOK, Tables, GoodTable, GoodEntry, InFile
      <3>3. QED
        BY <2>1, <3>2, EmptyTable DEF CreateHeader
    <2>2. CASE Fail \/ Stop \/ CreateRest \/ OpenExisting
      BY <2>2 DEF Fail, Stop, CreateRest, OpenExisting, file
    <2>3. QED
      BY <2>1, <2>2
  <1>4. ASSUME op' = op \/ (op = NoOp /\ op' = NoOp)
        PROVE  Stored' = Stored /\ WriteOf' = WriteOf
    BY <1>1, <1>2, <1>3, <1>4, StoreKept
  <1>5. ASSUME op # NoOp, op' = NoOp
        PROVE  Store!GiveUp
    <2>1. phase \in Writing
      BY <1>5 DEF Sound, TypeOK
    <2>2. WriteOf # NoOp /\ WriteOf' = NoOp
      BY <1>5, <2>1, WritingFacts, ChunkAssumption DEF WriteOf, NoOp
    <2>3. Stored' = Stored
      <3>1. ASSUME NEW c \in Chunk
            PROVE  Durable(c)' = Durable(c)
        <4>1. InFile(dOffsets[c], size) /\ InFile(dOffsets[c], size') /\ GoodEntry(dOffsets[c])
          BY <1>0, <1>2, TableGrows DEF Sound, TypeOK, Tables, GoodTable
        <4>2. QED
          BY <1>1, <1>3, <4>1, ReadSame DEF Sound
      <3>2. QED
        BY <1>1, <3>1 DEF Stored
    <2>4. trust = "sound" /\ trust' \in {"sound", "hurt"}
      <3>1. trust = "sound"
        BY <2>1, WritingFacts
      <3>2. QED
        BY <3>1 DEF Fail, Stop, CreateHeader, CreateRest, OpenExisting, history
    <2>5. QED
      BY <2>2, <2>3, <2>4 DEF Store!GiveUp, Stored, WriteOf
  <1>6. op' = op \/ op' = NoOp
    BY DEF Fail, Stop, CreateHeader, CreateRest, OpenExisting
  <1>7. ASSUME op = NoOp
        PROVE  trust' = trust \/ (trust = "hurt" /\ trust' = "sound")
    <2>1. phase \notin Writing
      BY <1>7 DEF Sound, TypeOK
    <2>2. QED
      BY <2>1 DEF Fail, Stop, CreateHeader, CreateRest, OpenExisting, history
  <1>8. CASE op = NoOp
    BY <1>4, <1>6, <1>7, <1>8 DEF Store!Reopen, Stored, WriteOf
  <1>9. CASE op # NoOp /\ op' = NoOp
    BY <1>5, <1>9
  <1>10. CASE op # NoOp /\ op' = op
    <2>1. ~Fail /\ ~Stop
      <3>1. op' # NoOp
        BY <1>10
      <3>2. QED
        BY <3>1 DEF Fail, Stop
    <2>2. trust' = trust
      BY <2>1 DEF CreateHeader, CreateRest, OpenExisting, history
    <2>3. QED
      BY <1>4, <1>10, <2>2
  <1>11. QED
    BY <1>6, <1>8, <1>9, <1>10

LEMMA InitRefines == Init => Store!StoreInit
  <1> SUFFICES ASSUME Init PROVE Store!StoreInit
    OBVIOUS
  <1>1. op = NoOp /\ torn = {} /\ dOffsets = Empty /\ trust = "sound"
    BY DEF Init
  <1>2. \A c \in Chunk : Durable(c) = Absent
    BY <1>1, EmptyTable DEF Durable, ReadThrough
  <1>3. Stored = [c \in Chunk |-> Absent] /\ WriteOf = NoOp
    BY <1>1, <1>2 DEF Stored, WriteOf
  <1>4. QED
    BY <1>1, <1>3 DEF Store!StoreInit, Stored, WriteOf

\* A step of the program is a step of the store, or is not seen in it.
LEMMA NextRefines ==
  ASSUME IInv, [Next]_vars
  PROVE  [Store!StoreNext]_(Store!storeVars)
  <1>0. CASE trust = "lost"
    BY <1>0, LostForEver DEF Store!StoreNext, Store!Lost
  <1> SUFFICES ASSUME Sound PROVE [Store!StoreNext]_(Store!storeVars)
    BY <1>0 DEF IInv
  <1>1. CASE WriteChunk
    <2>1. PICK c \in Chunk, n \in Sizes, v \in Version : BeginWrite(c, n, v)
      BY <1>1 DEF WriteChunk, WriteInPlace, WriteRelocated, WriteGrown
    <2>2. Store!Begin(c, NBT(c, n, v))
      BY <2>1, BeginRefines
    <2>3. QED
      BY <2>2 DEF Store!StoreNext
  <1>2. CASE Stamp
    BY <1>2, StampRefines DEF Store!StoreNext
  <1>3. CASE PutOffset \/ Grow \/ PutData \/ Link
    BY <1>3, MiddleRefines DEF Store!storeVars, Stored, WriteOf
  <1>4. CASE Fail \/ Stop \/ CreateHeader \/ CreateRest \/ OpenExisting
    BY <1>4, OtherRefines DEF Store!StoreNext, Store!storeVars, Stored, WriteOf
  <1>5. CASE UNCHANGED vars
    <2>1. UNCHANGED <<op, torn, size, dOffsets, data, trust>>
      BY <1>5 DEF vars, file, history
    <2>2. \A c \in Chunk : Durable(c)' = Durable(c)
      BY <2>1 DEF Durable, ReadThrough
    <2>3. Stored' = Stored /\ WriteOf' = WriteOf
      BY <2>1, <2>2 DEF Stored, WriteOf
    <2>4. QED
      BY <2>1, <2>3 DEF Store!storeVars, Stored, WriteOf
  <1>6. QED
    BY <1>1, <1>2, <1>3, <1>4, <1>5 DEF Next


-----------------------------------------------------------------------------
(* The theorems.                                                           *)

\* The inductive invariant, for a handle that is kept after whatever error
\* and written through again.
THEOREM Invariance == Spec => []IInv
  <1>1. Init => IInv
    BY InitFramed, InitSound DEF IInv
  <1>2. IInv /\ [Next]_vars => IInv'
    BY InvStep
  <1>3. QED
    BY <1>1, <1>2, PTL DEF Spec

\* Memory, file and the call in progress stay in their types, and every run
\* lies in the free map, whatever has failed: sector_free is never indexed
\* beyond its end, and the header is never written over.
THEOREM TypeCorrect == Spec => [](TypeOK /\ RunsFramed)
  <1>1. IInv => TypeOK /\ RunsFramed
    BY DEF IInv, Framed
  <1>2. QED
    BY <1>1, Invariance, PTL

LEMMA BehindHeader ==
  ASSUME NEW e, e.start \in Nat, e.count \in Nat, GoodEntry(e)
  PROVE  RunOf(e) \cap Header = {}
  <1>1. CASE e = NoEntry
    BY <1>1, EmptyRun
  <1>2. CASE e.start >= 2
    BY <1>2 DEF RunOf, Run, Header
  <1>3. QED
    BY <1>1, <1>2 DEF GoodEntry

\* find_free_run, relocation, growth and open never give a sector to two
\* chunks, for any number of chunks, sizes, crashes, failed writes and
\* reopenings, until somebody writes through a handle that is hurt; and not
\* even then to a chunk and the header, or beyond the end of the file.
THEOREM SectorsNeverShared == Spec => []NoSharedSectors
  <1>1. ASSUME IInv PROVE NoSharedSectors
    <2>1. ASSUME NEW c \in Chunk
          PROVE  /\ RunOf(offsets[c]) \cap Header = {} /\ InFile(offsets[c], size)
                 /\ RunOf(dOffsets[c]) \cap Header = {} /\ InFile(dOffsets[c], size)
      <3>1. /\ offsets[c].start \in Nat /\ offsets[c].count \in Nat
            /\ dOffsets[c].start \in Nat /\ dOffsets[c].count \in Nat
        BY <1>1, FramedTypes DEF IInv
      <3>2. /\ GoodEntry(offsets[c]) /\ GoodEntry(dOffsets[c])
            /\ InFile(offsets[c], sectors) /\ InFile(dOffsets[c], size)
        BY <1>1 DEF IInv, Framed, RunsFramed
      <3>3. InFile(offsets[c], size)
        BY <1>1, <3>1, <3>2, FramedTypes DEF IInv, InFile
      <3>4. QED
        BY <3>1, <3>2, <3>3, BehindHeader
    <2>2. ASSUME trust # "lost", NEW t \in {offsets, dOffsets}, NEW c \in Chunk,
                 NEW d \in Chunk \ {c}
          PROVE  RunOf(t[c]) \cap RunOf(t[d]) = {}
      BY <1>1, <2>2 DEF IInv, Sound, Tables, GoodTable
    <2>3. QED
      BY <2>1, <2>2 DEF NoSharedSectors
  <1>2. QED
    BY <1>1, Invariance, PTL

\* Between two calls of write_chunk sector_free is the exact complement of
\* the runs in use, on every handle on which no relocation has failed: no
\* sector leaks, none is free that is not.
THEOREM FreeMapAlwaysExact == Spec => []FreeMapExact
  <1>1. ASSUME IInv PROVE FreeMapExact
    <2>1. ASSUME phase = "idle", trust = "sound", NEW s \in 0 .. sectors - 1
          PROVE  s \in free <=> s \notin Header /\ \A c \in Chunk : s \notin RunOf(offsets[c])
      <3>1. ExactAt(s)
        BY <1>1, <2>1 DEF IInv, Sound, FreeExact, Opened
      <3>2. \A c \in Chunk : c # op.chunk
        BY <1>1, <2>1, IdleOp DEF IInv, Framed, Writing
      <3>3. QED
        BY <2>1, <3>1, <3>2 DEF ExactAt, Placed
    <2>2. QED
      BY <2>1 DEF FreeMapExact
  <1>2. QED
    BY <1>1, Invariance, PTL

\* The region file implements the chunk store: a write that has completed
\* is what every later open finds, whatever was written, relocated, cut
\* off, failed or reopened since, until the same chunk is written again or
\* a handle that is hurt is written through.
THEOREM RegionFileIsChunkStore == Spec => ImplementsChunkStore
  <1>1. IInv /\ [Next]_vars => [Store!StoreNext]_(Store!storeVars)
    BY NextRefines
  <1>2. QED
    BY <1>1, InitRefines, Invariance, PTL DEF Spec, ImplementsChunkStore, Store!StoreSpec
=============================================================================
