------------------------------ MODULE BotSession ------------------------------
(***************************************************************************)
(* bot/mod.rs: what a bot learns of the game from the packets of a         *)
(* session.  The server side is external: it tells its client of the       *)
(* chunks, entities and changes in view, sends chunks in batches that have *)
(* to be acknowledged, and forgets what its client has seen when the       *)
(* player enters another dimension.  The packets of the two directions     *)
(* arrive in order, any time later.  Positions, windows and keep-alives    *)
(* are in Navigation, BotInventory and ProtocolClient.                     *)
(*                                                                         *)
(* A section is a pair of blocks; a column has one section for each level  *)
(* of its dimension.                                                       *)
(***************************************************************************)
EXTENDS Integers, SequencesExt, FiniteSetsExt

CONSTANTS
  Chunk, Entity,
  Section,       \* what the two blocks of a section may be
  Levels,        \* by dimension, its levels: a set of consecutive numbers
  Home,          \* the dimension whose levels the bot takes for granted
  MaxHealth, MaxChanges, MaxPackets, MaxBatches

Dimensions == DOMAIN Levels
ASSUME LevelsAssumption ==
  /\ Home \in Dimensions
  /\ \A d \in Dimensions : \E low, high \in Levels[d] : low \in Int /\ high \in Int /\ Levels[d] = low .. high
ASSUME SectionAssumption ==
  /\ Section # {}
  /\ \A section \in Section : section = [i \in 1 .. 2 |-> section[i]]
ASSUME BoundsAssumption == MaxHealth \in Nat \ {0} /\ MaxBatches \in Nat

VARIABLES
  dimension, world, health, entities,   \* the player and what is around
  view, tracked,    \* the chunks and entities the client was told of
  batches,          \* not acknowledged yet
  lives, left, changes,   \* of the model: how often the player lived and died, what it left, how much has happened
  toBot, toServer,
  bot               \* struct Bot

server == <<dimension, world, health, entities, view, tracked, batches, lives, left, changes>>
vars == <<server, toBot, toServer, bot>>

-----------------------------------------------------------------------------
(* handle_packet, on the bot.                                              *)

\* col.load reads as many sections as the bot's height has, one after the
\* other, and panics where there are no more.
ChunkLoads(data) == Len(data) >= Cardinality(Levels[Home])
LoadedColumn(data) == [l \in Levels[Home] |-> data[l - Min(Levels[Home]) + 1]]

HandleChunk(b, p) ==
  IF ~ChunkLoads(p.data) THEN b
  ELSE [b EXCEPT !.columns = [c \in DOMAIN @ \cup {p.chunk} |->
                                IF c = p.chunk THEN LoadedColumn(p.data) ELSE @[c]]]

\* Mutant of ForgetChunk: a chunk once loaded stays.
ForgetNothing(b, p) == b

ForgetChunk(b, p) == [b EXCEPT !.columns = [c \in DOMAIN @ \ {p.chunk} |-> @[c]]]

\* What the records of a packet make of the blocks of a section: what the
\* last one about a block says.
About(i, records) == {k \in DOMAIN records : records[k][1] = i}
Recorded(section, records) ==
  [i \in DOMAIN section |-> IF About(i, records) = {} THEN section[i] ELSE records[Max(About(i, records))][2]]

\* Mutant of HandleRecords: only the last record is applied.
HandleLastRecord(b, p) ==
  IF p.chunk \notin DOMAIN b.columns \/ p.level \notin DOMAIN b.columns[p.chunk] THEN b
  ELSE [b EXCEPT !.columns[p.chunk][p.level] = Recorded(@, <<Last(p.records)>>)]

\* section_blocks_update and block_update; set_block_state_id leaves alone
\* what is not loaded.
HandleRecords(b, p) ==
  IF p.chunk \notin DOMAIN b.columns \/ p.level \notin DOMAIN b.columns[p.chunk] THEN b
  ELSE [b EXCEPT !.columns[p.chunk][p.level] = Recorded(@, p.records)]

\* Mutant of HandleHealth: a bot that has spawned is not asked whether it is
\* alive.
HandleHealthAgain(b, p) ==
  IF p.health > 0
  THEN IF b.spawned /\ b.alive THEN [b EXCEPT !.health = p.health]
       ELSE [b EXCEPT !.health = p.health, !.spawned = TRUE, !.alive = TRUE, !.spawns = @ + 1]
  ELSE [b EXCEPT !.health = p.health, !.alive = FALSE, !.deaths = @ + 1]

\* Spawn is told for the first sign of life and after each death, Death once.
HandleHealth(b, p) ==
  IF p.health > 0
  THEN IF b.spawned /\ b.alive THEN [b EXCEPT !.health = p.health]
       ELSE [b EXCEPT !.health = p.health, !.spawned = TRUE, !.alive = TRUE, !.spawns = @ + 1]
  ELSE IF b.alive THEN [b EXCEPT !.health = p.health, !.alive = FALSE, !.deaths = @ + 1]
  ELSE [b EXCEPT !.health = p.health]

AddEntity(b, p) ==
  [b EXCEPT !.entities = [e \in DOMAIN @ \cup {p.entity} |-> IF e = p.entity THEN p.position ELSE @[e]]]
MoveEntity(b, p) ==
  IF p.entity \in DOMAIN b.entities THEN [b EXCEPT !.entities[p.entity] = @ + p.by] ELSE b
TeleportEntity(b, p) ==
  IF p.entity \in DOMAIN b.entities THEN [b EXCEPT !.entities[p.entity] = p.position] ELSE b
RemoveEntities(b, p) == [b EXCEPT !.entities = [e \in DOMAIN @ \ p.entities |-> @[e]]]

\* login and respawn: of the world, the name changes.
EnterDimension(b, p) == [b EXCEPT !.dimension = p.dimension]

Handle(b, p) ==
  CASE p.name \in {"login", "respawn"} -> EnterDimension(b, p)
    [] p.name = "set_health" -> HandleHealth(b, p)
    [] p.name = "level_chunk_with_light" -> HandleChunk(b, p)
    [] p.name = "forget_level_chunk" -> ForgetChunk(b, p)
    [] p.name \in {"block_update", "section_blocks_update"} -> HandleRecords(b, p)
    [] p.name = "add_entity" -> AddEntity(b, p)
    [] p.name = "move_entity_pos" -> MoveEntity(b, p)
    [] p.name = "teleport_entity" -> TeleportEntity(b, p)
    [] p.name = "remove_entities" -> RemoveEntities(b, p)
    [] p.name = "chunk_batch_finished" -> b

\* Mutant of Answers: batches are not acknowledged.
AnswersToLogin(p) == IF p.name = "login" THEN <<"settings">> ELSE <<>>

\* The brand, the settings and player_loaded are one message here.
Answers(p) ==
  IF p.name = "login" THEN <<"settings">>
  ELSE IF p.name = "chunk_batch_finished" THEN <<"chunk_batch_received">>
  ELSE <<>>

HandlePacket ==
  /\ toBot # <<>>
  /\ bot' = Handle(bot, Head(toBot))
  /\ toServer' = toServer \o Answers(Head(toBot))
  /\ toBot' = Tail(toBot)
  /\ UNCHANGED server

\* Called by the bot's program, which is told of its death.
Respawn ==
  /\ ~bot.alive
  /\ "client_command" \notin Range(toServer)
  /\ toServer' = Append(toServer, "client_command")
  /\ UNCHANGED <<server, toBot, bot>>

-----------------------------------------------------------------------------
(* The server.                                                             *)

Data(d, c) == [k \in 1 .. Cardinality(Levels[d]) |-> world[d][c][Min(Levels[d]) + k - 1]]

Tell(packets) == toBot' = toBot \o packets
Changes == changes < MaxChanges /\ Len(toBot) < MaxPackets /\ changes' = changes + 1

\* The chunks of a batch, and its end.
SendChunk(c) ==
  /\ c \notin view
  /\ batches < MaxBatches
  /\ Len(toBot) < MaxPackets
  /\ Tell(<<[name |-> "level_chunk_with_light", chunk |-> c, data |-> Data(dimension, c)],
            [name |-> "chunk_batch_finished"]>>)
  /\ view' = view \cup {c}
  /\ batches' = batches + 1
  /\ UNCHANGED <<dimension, world, health, entities, tracked, lives, left, changes, toServer, bot>>

Forget(c) ==
  /\ c \in view
  /\ Changes
  /\ Tell(<<[name |-> "forget_level_chunk", chunk |-> c]>>)
  /\ view' = view \ {c}
  /\ left' = [left EXCEPT !.chunks = @ \ {c}]
  /\ UNCHANGED <<dimension, world, health, entities, tracked, batches, lives, toServer, bot>>

\* One block or several of a section change, and are told of in any order.
Edit(c, l, section) ==
  LET changed == {i \in 1 .. 2 : world[dimension][c][l][i] # section[i]}
      news == {<<i, section[i]>> : i \in changed}
  IN  /\ changed # {}
      /\ Changes
      /\ world' = [world EXCEPT ![dimension][c][l] = section]
      /\ \E records \in [1 .. Cardinality(changed) -> news] :
           /\ Range(records) = news
           /\ Tell(IF c \notin view THEN <<>>
                   ELSE <<[name |-> IF Len(records) = 1 THEN "block_update" ELSE "section_blocks_update",
                           chunk |-> c, level |-> l, records |-> records]>>)
      /\ UNCHANGED <<dimension, health, entities, view, tracked, batches, lives, left, toServer, bot>>

\* An entity comes into view, moves, or leaves.
Track(e) ==
  /\ e \notin tracked
  /\ Changes
  /\ Tell(<<[name |-> "add_entity", entity |-> e, position |-> entities[e]]>>)
  /\ tracked' = tracked \cup {e}
  /\ UNCHANGED <<dimension, world, health, entities, view, batches, lives, left, toServer, bot>>

Move(e, by) ==
  /\ e \in tracked
  /\ Changes
  /\ entities' = [entities EXCEPT ![e] = @ + by]
  /\ Tell(IF by = 1 THEN <<[name |-> "move_entity_pos", entity |-> e, by |-> by]>>
          ELSE <<[name |-> "teleport_entity", entity |-> e, position |-> entities[e] + by]>>)
  /\ UNCHANGED <<dimension, world, health, view, tracked, batches, lives, left, toServer, bot>>

Untrack(gone) ==
  /\ gone # {} /\ gone \subseteq tracked
  /\ Changes
  /\ Tell(<<[name |-> "remove_entities", entities |-> gone]>>)
  /\ tracked' = tracked \ gone
  /\ UNCHANGED <<dimension, world, health, entities, view, batches, lives, left, toServer, bot>>

\* Health is told again when only the food has changed.
Hurt(h) ==
  /\ health > 0 \/ h = health
  /\ Changes
  /\ health' = h
  /\ lives' = IF h = 0 /\ health > 0 THEN [lives EXCEPT !.deaths = @ + 1] ELSE lives
  /\ Tell(<<[name |-> "set_health", health |-> h]>>)
  /\ UNCHANGED <<dimension, world, entities, view, tracked, batches, left, toServer, bot>>

\* What the client was told of before a respawn, it is told of again.
Leave(d) ==
  /\ dimension' = d
  /\ view' = {}
  /\ tracked' = {}
  /\ left' = [chunks |-> left.chunks \cup view, entities |-> left.entities \cup tracked]

ChangeDimension(d) ==
  /\ d # dimension /\ health > 0
  /\ Changes
  /\ Leave(d)
  /\ Tell(<<[name |-> "respawn", dimension |-> d]>>)
  /\ UNCHANGED <<world, health, entities, batches, lives, toServer, bot>>

TakePacket ==
  /\ toServer # <<>>
  /\ toServer' = Tail(toServer)
  /\ batches' = IF Head(toServer) = "chunk_batch_received" THEN batches - 1 ELSE batches
  /\ IF Head(toServer) = "client_command" /\ health = 0
     THEN /\ Leave(Home)
          /\ health' = MaxHealth
          /\ lives' = [lives EXCEPT !.spawns = @ + 1]
          /\ Tell(<<[name |-> "respawn", dimension |-> Home], [name |-> "set_health", health |-> MaxHealth]>>)
     ELSE UNCHANGED <<dimension, view, tracked, left, health, lives, toBot>>
  /\ UNCHANGED <<world, entities, changes, bot>>

-----------------------------------------------------------------------------
\* connect, and a player that may be dead when it joins.
Init ==
  /\ dimension = Home
  /\ health \in {0, MaxHealth}
  /\ lives = IF health = 0 THEN [spawns |-> 0, deaths |-> 1] ELSE [spawns |-> 1, deaths |-> 0]
  /\ world = [d \in Dimensions |-> [c \in Chunk |-> [l \in Levels[d] |-> CHOOSE section \in Section : TRUE]]]
  /\ entities = [e \in Entity |-> 0]
  /\ view = {} /\ tracked = {} /\ left = [chunks |-> {}, entities |-> {}]
  /\ batches = 0 /\ changes = 0
  /\ toBot = <<[name |-> "login", dimension |-> dimension], [name |-> "set_health", health |-> health]>>
  /\ toServer = <<>>
  /\ bot = [dimension |-> Home, columns |-> [c \in {} |-> <<>>], entities |-> [e \in {} |-> 0],
            health |-> MaxHealth, alive |-> TRUE, spawned |-> FALSE, spawns |-> 0, deaths |-> 0]

SendsChunk == \E c \in Chunk : SendChunk(c)

Next ==
  \/ HandlePacket \/ Respawn \/ TakePacket \/ SendsChunk
  \/ \E c \in Chunk : Forget(c)
  \/ \E c \in Chunk : \E l \in Levels[dimension] : \E section \in Section : Edit(c, l, section)
  \/ \E e \in Entity : Track(e) \/ \E by \in {1, 2} : Move(e, by)
  \/ \E gone \in SUBSET Entity : Untrack(gone)
  \/ \E h \in 0 .. MaxHealth : Hurt(h)
  \/ \E d \in Dimensions : ChangeDimension(d)

\* The bot's program keeps calling drive_tick, and a server keeps sending
\* what is in view and taking what it is sent.
Spec == Init /\ [][Next]_vars /\ WF_vars(HandlePacket) /\ WF_vars(TakePacket) /\ WF_vars(SendsChunk)

-----------------------------------------------------------------------------
\* What the bot will know when it has handled all that was sent to it.
Learned(b, packets) ==
  LET after[k \in 0 .. Len(packets)] == IF k = 0 THEN b ELSE Handle(after[k - 1], packets[k])
  IN  after[Len(packets)]
Caught == Learned(bot, toBot)

TypeOK ==
  /\ dimension \in Dimensions /\ bot.dimension \in Dimensions
  /\ view \subseteq Chunk /\ tracked \subseteq Entity
  /\ batches \in 0 .. MaxBatches
  /\ health \in 0 .. MaxHealth /\ bot.health \in 0 .. MaxHealth
  /\ bot.alive \in BOOLEAN /\ bot.spawned \in BOOLEAN

\* bot/mod.rs 429-502, 532-562: once it has caught up, whatever was sent
\* before and between, the bot shows every chunk in view (of a dimension
\* with as many levels as it expects) and every entity in view as they are.
ShowsWhatIsThere ==
  /\ \A c \in view : Levels[dimension] = Levels[Home] =>
       c \in DOMAIN Caught.columns /\ Caught.columns[c] = world[dimension][c]
  /\ \A e \in tracked : e \in DOMAIN Caught.entities /\ Caught.entities[e] = entities[e]
  /\ Caught.dimension = dimension

\* bot/mod.rs 390-399, 452-456, 563-571: what it shows beyond that was in
\* view before a respawn, which clears nothing; chunks and entities that the
\* server takes back are gone.
KeepsOnlyWhatItLeft ==
  /\ TypeOK
  /\ DOMAIN Caught.columns \subseteq view \cup left.chunks
  /\ DOMAIN Caught.entities \subseteq tracked \cup left.entities

\* bot/mod.rs 673-692: the program is told of every death, and of a spawn
\* after each, once: whatever repeats and changes of health lie between.
EveryDeathTold ==
  /\ Caught.deaths = lives.deaths /\ Caught.spawns = lives.spawns
  /\ Caught.alive <=> health > 0

\* bot/mod.rs 444-451: the server waits for its batches to be acknowledged;
\* in the end all chunks are sent, and taken.
EveryChunkComes == <>[](view = Chunk /\ toBot = <<>>)
=============================================================================
