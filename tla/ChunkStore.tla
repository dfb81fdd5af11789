------------------------------ MODULE ChunkStore ------------------------------
(***************************************************************************)
(* What a region file promises its user: a store of one value per chunk,   *)
(* written one chunk at a time.  While a chunk is being written, and after *)
(* a write that did not end well, nothing is known about that chunk; a     *)
(* completed write is what every later read finds, and no write ever       *)
(* disturbs another chunk.                                                 *)
(*                                                                         *)
(* A write that fails may hurt the handle.  What is stored is still all    *)
(* there, and opening the file again heals it; but the next write through  *)
(* a handle that is hurt ends the promise, for every chunk.                *)
(***************************************************************************)
CONSTANTS
  Chunk, Value,
  Absent,    \* what a chunk that was never written reads as
  Unknown,   \* a chunk whose last write has not completed
  NoWrite    \* no write is going on

VARIABLES
  stored, writing,
  trust      \* "sound", "hurt", or "lost" for good

storeVars == <<stored, writing, trust>>

StoreInit ==
  /\ stored = [c \in Chunk |-> Absent]
  /\ writing = NoWrite
  /\ trust = "sound"

Begin(c, v) ==
  /\ writing = NoWrite
  /\ writing' = [chunk |-> c, value |-> v]
  /\ stored' = [stored EXCEPT ![c] = Unknown]
  /\ trust' = IF trust = "sound" THEN "sound" ELSE "lost"

Finish ==
  /\ trust = "sound"
  /\ writing # NoWrite
  /\ stored' = [stored EXCEPT ![writing.chunk] = writing.value]
  /\ writing' = NoWrite
  /\ UNCHANGED trust

\* An error is returned, which may hurt the handle, or the process dies.
GiveUp ==
  /\ trust = "sound"
  /\ writing # NoWrite
  /\ writing' = NoWrite
  /\ trust' \in {"sound", "hurt"}
  /\ UNCHANGED stored

Reopen ==
  /\ trust = "hurt"
  /\ trust' = "sound"
  /\ UNCHANGED <<stored, writing>>

\* Nothing is promised any more.
Lost == trust = "lost" /\ trust' = "lost"

StoreNext ==
  \/ \E c \in Chunk, v \in Value : Begin(c, v)
  \/ Finish \/ GiveUp \/ Reopen \/ Lost

StoreSpec == StoreInit /\ [][StoreNext]_storeVars
=============================================================================
