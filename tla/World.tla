--------------------------------- MODULE World ---------------------------------
(***************************************************************************)
(* world/world.rs: the columns of a world in memory, edited there, with a  *)
(* queue of those to be saved to the chunk provider and a queue of events  *)
(* the caller drains.  A call of World runs alone (it borrows the World),  *)
(* but a save of the provider may fail, and the process may die during it. *)
(*                                                                         *)
(* The provider is any ChunkStore, and what is promised of a RegionFile is *)
(* one; World, like AnvilWorld, goes on saving after a save has failed,    *)
(* which may end the provider's promise.  A column's blocks, light and     *)
(* biomes are one version.  A World without a provider saves nothing and   *)
(* is not modelled.                                                        *)
(***************************************************************************)
EXTENDS Integers, Sequences

CONSTANTS
  Chunk,
  Version,     \* the contents a column may have
  NoColumn,
  Unknown,     \* what is stored after a save that did not complete
  NoWrite,
  Generator,   \* the generated content of a chunk, NoColumn without generator
  MaxEvents    \* bound on the events not yet drained

ASSUME VersionAssumption == NoColumn \notin Version /\ Unknown \notin Version
ASSUME NoWriteAssumption == \A c \in Chunk, v \in Version : [chunk |-> c, value |-> v] # NoWrite
ASSUME GeneratorAssumption == Generator \in [Chunk -> Version \cup {NoColumn}]
ASSUME MaxEventsAssumption == MaxEvents \in Nat

VARIABLES
  columns, saving_queue, events,   \* struct World
  call,                            \* the call of World that is waiting for a save
  stored, writing, trust,          \* the provider
  latest,                          \* history: what the last edit of a chunk made of it
  known                            \* history: the columns the drained events tell of

provider == <<stored, writing, trust>>
vars == <<columns, saving_queue, events, call, provider, latest, known>>

Store == INSTANCE ChunkStore WITH Value <- Version, Absent <- NoColumn

Idle == [op |-> "idle"]
Unloading(c) == [op |-> "unload", chunk |-> c]
SavingAll(rest) == [op |-> "save_all", rest |-> rest]
Calls == {Idle} \cup {Unloading(c) : c \in Chunk} \cup {SavingAll(rest) : rest \in SUBSET Chunk}

Loaded == {c \in Chunk : columns[c] # NoColumn}
Event == [kind : {"load", "unload", "block_update"}, chunk : Chunk]

Init ==
  /\ columns = [c \in Chunk |-> NoColumn]
  /\ saving_queue = {}
  /\ events = <<>>
  /\ call = Idle
  /\ Store!StoreInit
  /\ latest = [c \in Chunk |-> NoColumn]
  /\ known = {}

Push(kind, c) ==
  /\ Len(events) < MaxEvents
  /\ events' = Append(events, [kind |-> kind, chunk |-> c])

-----------------------------------------------------------------------------
(* Loading and setting columns.                                            *)

\* What the provider may answer for a chunk, other than an error: anything
\* after a save that did not complete, or when it promises nothing any more.
Vague(c) == stored[c] = Unknown \/ trust = "lost"
Loadable(c) == IF Vague(c) THEN Version \cup {NoColumn} ELSE {stored[c]}

Insert(c, v) ==
  /\ columns' = [columns EXCEPT ![c] = v]
  /\ Push("load", c)
  /\ UNCHANGED <<saving_queue, call, provider, known>>

\* get_column of a column that is not in memory: the provider, then the
\* generator; an error of the provider changes nothing.
GetColumn(c) ==
  /\ call = Idle
  /\ columns[c] = NoColumn
  /\ \E found \in Loadable(c) :
       LET v == IF found = NoColumn THEN Generator[c] ELSE found
       IN  v # NoColumn /\ Insert(c, v)
  /\ latest' = IF Vague(c) THEN [latest EXCEPT ![c] = NoColumn] ELSE latest

\* set_column replaces what was there and queues no save.
SetColumn(c, v) ==
  /\ call = Idle
  /\ Insert(c, v)
  /\ latest' = [latest EXCEPT ![c] = NoColumn]

-----------------------------------------------------------------------------
(* Editing.                                                                *)

\* set_block and set_block_state_id: nothing happens to an absent column.
SetBlock(c, v) ==
  /\ call = Idle
  /\ c \in Loaded
  /\ columns' = [columns EXCEPT ![c] = v]
  /\ latest' = [latest EXCEPT ![c] = v]
  /\ saving_queue' = saving_queue \cup {c}
  /\ Push("block_update", c)
  /\ UNCHANGED <<call, provider, known>>

\* The light and biome setters tell nobody, and queue absent columns too.
SetLight(c, v) ==
  /\ call = Idle
  /\ IF c \in Loaded
     THEN /\ columns' = [columns EXCEPT ![c] = v]
          /\ latest' = [latest EXCEPT ![c] = v]
     ELSE UNCHANGED <<columns, latest>>
  /\ saving_queue' = saving_queue \cup {c}
  /\ UNCHANGED <<events, call, provider, known>>

\* Whether c is loaded, as the drained events and then the pending ones tell.
Told(c) ==
  LET about == {i \in 1 .. Len(events) : events[i].chunk = c /\ events[i].kind # "block_update"}
  IN  IF about = {} THEN c \in known
      ELSE \E i \in about : events[i].kind = "load" /\ \A j \in about : j <= i

TakeEvents ==
  /\ call = Idle
  /\ events # <<>>
  /\ events' = <<>>
  /\ known' = {c \in Chunk : Told(c)}
  /\ UNCHANGED <<columns, saving_queue, call, provider, latest>>

-----------------------------------------------------------------------------
(* Saving.                                                                 *)

\* Mutant of Remove: nobody is told.
RemoveSilently(c) ==
  /\ columns' = [columns EXCEPT ![c] = NoColumn]
  /\ UNCHANGED events

Remove(c) ==
  /\ columns' = [columns EXCEPT ![c] = NoColumn]
  /\ Push("unload", c)

\* Mutant of UnloadUnqueued: the queue is not looked at.
UnloadUnsaved(c) ==
  /\ call = Idle
  /\ c \in Loaded
  /\ Remove(c)
  /\ UNCHANGED <<saving_queue, call, provider, latest, known>>

UnloadUnqueued(c) ==
  /\ call = Idle
  /\ c \in Loaded \ saving_queue
  /\ Remove(c)
  /\ UNCHANGED <<saving_queue, call, provider, latest, known>>

\* unload_column of a queued column waits for its save.
BeginUnload(c) ==
  /\ call = Idle
  /\ c \in Loaded \cap saving_queue
  /\ Len(events) < MaxEvents
  /\ Store!Begin(c, columns[c])
  /\ call' = Unloading(c)
  /\ UNCHANGED <<columns, saving_queue, events, latest, known>>

BeginSaveAll ==
  /\ call = Idle
  /\ saving_queue # {}
  /\ call' = SavingAll(saving_queue)
  /\ UNCHANGED <<columns, saving_queue, events, provider, latest, known>>

\* The queue is a HashSet: its order is arbitrary.
SaveNext(c) ==
  /\ call.op = "save_all"
  /\ writing = NoWrite
  /\ c \in call.rest
  /\ call' = SavingAll(call.rest \ {c})
  /\ IF c \in Loaded THEN Store!Begin(c, columns[c]) ELSE UNCHANGED provider
  /\ UNCHANGED <<columns, saving_queue, events, latest, known>>

SaveAllDone ==
  /\ call = SavingAll({})
  /\ writing = NoWrite
  /\ saving_queue' = {}
  /\ call' = Idle
  /\ UNCHANGED <<columns, events, provider, latest, known>>

\* The provider returns, with a promise that it no longer keeps.
ReturnsLost ==
  /\ Store!Lost
  /\ writing # NoWrite
  /\ writing' = NoWrite
  /\ UNCHANGED stored

SaveSucceeds ==
  /\ Store!Finish \/ ReturnsLost
  /\ IF call.op = "unload"
     THEN /\ saving_queue' = saving_queue \ {call.chunk}
          /\ Remove(call.chunk)
          /\ call' = Idle
     ELSE UNCHANGED <<columns, saving_queue, events, call>>
  /\ UNCHANGED <<latest, known>>

\* Mutant of SaveFails: an error of the provider ends the save of one
\* column only, and is forgotten.
SaveFailsSilently ==
  /\ Store!GiveUp \/ ReturnsLost
  /\ call' = IF call.op = "unload" THEN Idle ELSE call
  /\ UNCHANGED <<columns, saving_queue, events, latest, known>>

\* The error is returned: the column stays, and so does the whole queue.
SaveFails ==
  /\ Store!GiveUp \/ ReturnsLost
  /\ call' = Idle
  /\ UNCHANGED <<columns, saving_queue, events, latest, known>>

\* The process dies, between two calls or during a save, and the provider
\* is opened again.
Restart ==
  /\ writing' = NoWrite
  /\ trust' = IF trust = "hurt" THEN "sound" ELSE trust
  /\ UNCHANGED stored

Crash ==
  /\ columns' = [c \in Chunk |-> NoColumn]
  /\ saving_queue' = {}
  /\ events' = <<>>
  /\ call' = Idle
  /\ Restart
  /\ latest' = [c \in Chunk |-> IF stored[c] = latest[c] THEN latest[c] ELSE NoColumn]
  /\ known' = {}

Next ==
  \/ \E c \in Chunk : GetColumn(c)
  \/ \E c \in Chunk, v \in Version : SetColumn(c, v)
  \/ \E c \in Chunk, v \in Version : SetBlock(c, v)
  \/ \E c \in Chunk, v \in Version : SetLight(c, v)
  \/ TakeEvents
  \/ \E c \in Chunk : UnloadUnqueued(c)
  \/ \E c \in Chunk : BeginUnload(c)
  \/ BeginSaveAll
  \/ \E c \in Chunk : SaveNext(c)
  \/ SaveAllDone
  \/ SaveSucceeds
  \/ SaveFails
  \/ Crash

Spec == Init /\ [][Next]_vars

-----------------------------------------------------------------------------
TypeOK ==
  /\ columns \in [Chunk -> Version \cup {NoColumn}]
  /\ saving_queue \subseteq Chunk
  /\ events \in Seq(Event)
  /\ call \in Calls
  /\ call.op = "unload" => call.chunk \in Loaded \cap saving_queue
  /\ call.op = "save_all" => call.rest \subseteq saving_queue
  /\ stored \in [Chunk -> Version \cup {NoColumn, Unknown}]
  /\ writing \in [chunk : Chunk, value : Version] \cup {NoWrite}
  /\ trust \in {"sound", "hurt", "lost"}
  /\ latest \in [Chunk -> Version \cup {NoColumn}]
  /\ known \subseteq Chunk

\* An edit is in memory and queued, or it is what the provider has: no
\* order of edits, unloads, reloads, saves and failed saves loses one
\* (unless set_column replaces the column or the process dies).  A provider
\* whose promise has ended -- a save was tried after one that hurt it --
\* may lose what it took, but what waits in the queue stays in memory.
NoEditLost ==
  \A c \in Chunk :
    latest[c] # NoColumn =>
      \/ columns[c] = latest[c] /\ c \in saving_queue
      \/ /\ columns[c] \in {latest[c], NoColumn}
         /\ stored[c] = latest[c] \/ trust = "lost"

\* When save_all returns Ok, every column edited since it was loaded is
\* stored as it is in memory, so the queue may be forgotten (again as long
\* as the provider's promise stands).
SaveAllSaves ==
  [][SaveAllDone =>
       \/ trust = "lost"
       \/ \A c \in Loaded \cap saving_queue : stored[c] = columns[c]]_vars

\* Whoever drains the events and replays them knows which columns are in
\* memory, however calls, failures and drains alternate.
EventsTellLoaded == \A c \in Chunk : Told(c) <=> c \in Loaded
=============================================================================
