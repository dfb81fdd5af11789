-------------------------- MODULE BotSessionProofs --------------------------
(***************************************************************************)
(* What is proved of BotSession, for all constants that its assumptions    *)
(* allow: the bot that has handled whatever is on its way to it shows what *)
(* is in view, keeps what was left behind and nothing else, and has told   *)
(* its program of every death and every spawn.                             *)
(*                                                                         *)
(* The invariant speaks of Caught, the bot after the packets in toBot.     *)
(* Handling a packet leaves Caught as it is; a step of the server appends  *)
(* a packet, and Caught becomes what the packet's handler makes of it.     *)
(***************************************************************************)
EXTENDS BotSession, FiniteSetTheorems, SequenceTheorems, WellFoundedInduction, TLAPS

\* Sets of naturals have a least element.
LEMMA LeastNatural ==
  ASSUME NEW T, T \subseteq Nat, T # {}
  PROVE  \E x \in T : \A y \in T : x <= y
<1>1. PICK x \in T : \A y \in T : ~(<<y, x>> \in OpToRel(<, Nat))
  BY NatLessThanWellFounded, WFMin
<1>2. ASSUME NEW y \in T PROVE x <= y
  <2>1. <<y, x>> \notin OpToRel(<, Nat) BY <1>1
  <2>2. <<y, x>> \in Nat \X Nat BY DEF OpToRel
  <2>3. ~(y < x) BY <2>1, <2>2 DEF OpToRel
  <2> QED BY <2>3
<1> QED BY <1>2

-----------------------------------------------------------------------------
(* What a bot has learned after each of the packets.                       *)

\* The function that Learned is defined with, on the first n packets.
IsLearning(g, b, q, n) ==
  g = [k \in 0 .. n |-> IF k = 0 THEN b ELSE Handle(g[k - 1], q[k])]

\* There is such a function, however many packets there are.
LEMMA LearningExists ==
  ASSUME NEW b, NEW q, NEW m \in Nat
  PROVE  \E g : IsLearning(g, b, q, m)
<1> DEFINE T == {n \in Nat : ~\E g : IsLearning(g, b, q, n)}
<1> SUFFICES ASSUME T # {} PROVE FALSE OBVIOUS
<1>1. PICK n \in T : \A y \in T : n <= y BY LeastNatural
<1>2. n # 0
  <2>1. ASSUME n = 0 PROVE FALSE
    <3> DEFINE g == [k \in 0 .. 0 |-> b]
    <3>1. IsLearning(g, b, q, 0) BY DEF IsLearning
    <3> QED BY <2>1, <3>1
  <2> QED BY <2>1
<1>3. n - 1 \in Nat /\ n - 1 \notin T BY <1>1, <1>2
<1>4. PICK g : IsLearning(g, b, q, n - 1) BY <1>3
<1> DEFINE h == [k \in 0 .. n |-> IF k = n THEN Handle(g[n - 1], q[n]) ELSE g[k]]
<1>5. \A k \in 0 .. n : h[k] = IF k = 0 THEN b ELSE Handle(h[k - 1], q[k])
  <2> TAKE k \in 0 .. n
  <2>0. n \in Nat OBVIOUS
  <2>1. CASE k = n
    <3>1. h[k] = Handle(g[n - 1], q[n]) BY <2>1
    <3>2. h[k - 1] = g[n - 1] BY <2>1, <2>0, <1>2
    <3> QED BY <3>1, <3>2, <2>1, <1>2
  <2>2. CASE k # n
    <3>1. k \in 0 .. n - 1 /\ h[k] = g[k] BY <2>2, <2>0
    <3>2. g[k] = IF k = 0 THEN b ELSE Handle(g[k - 1], q[k]) BY <3>1, <1>4 DEF IsLearning
    <3>3. k # 0 => h[k - 1] = g[k - 1] BY <3>1, <2>0
    <3> QED BY <3>1, <3>2, <3>3
  <2> QED BY <2>1, <2>2
<1>6. IsLearning(h, b, q, n)
  <2> HIDE DEF h
  <2>1. DOMAIN h = 0 .. n /\ h = [k \in 0 .. n |-> h[k]] BY DEF h
  <2>2. [k \in 0 .. n |-> h[k]] = [k \in 0 .. n |-> IF k = 0 THEN b ELSE Handle(h[k - 1], q[k])]
    BY <1>5
  <2> QED BY <2>1, <2>2 DEF IsLearning
<1> QED BY <1>6

\* Its values are those its definition names, one from the other.
LEMMA LearningUnfolds ==
  ASSUME NEW b, NEW q, NEW n \in Nat, NEW g, IsLearning(g, b, q, n)
  PROVE  g[0] = b /\ \A k \in 1 .. n : g[k] = Handle(g[k - 1], q[k])
<1>1. \A k \in 0 .. n : g[k] = IF k = 0 THEN b ELSE Handle(g[k - 1], q[k]) BY DEF IsLearning
<1> QED BY <1>1

\* What is learned from m packets does not depend on those that follow.
LEMMA LearningAgrees ==
  ASSUME NEW b, NEW q, NEW r, NEW n \in Nat, NEW m \in Nat, NEW g, NEW h, NEW i \in 0 .. n, n <= m,
         IsLearning(g, b, q, n), IsLearning(h, b, r, m), \A k \in 1 .. n : q[k] = r[k]
  PROVE  g[i] = h[i]
<1> DEFINE T == {k \in 0 .. n : g[k] # h[k]}
<1> SUFFICES ASSUME T # {} PROVE FALSE OBVIOUS
<1>0. T \subseteq Nat OBVIOUS
<1>u. g[0] = b /\ \A k \in 1 .. n : g[k] = Handle(g[k - 1], q[k]) BY LearningUnfolds
<1>v. h[0] = b /\ \A k \in 1 .. m : h[k] = Handle(h[k - 1], r[k]) BY LearningUnfolds
<1>t. \A k : k \in T <=> k \in 0 .. n /\ g[k] # h[k] OBVIOUS
<1> HIDE DEF T
<1>1. PICK k \in T : \A y \in T : k <= y BY <1>0, LeastNatural
<1>2. k \in 0 .. n /\ g[k] # h[k] BY <1>t
<1>3. k # 0 BY <1>2, <1>u, <1>v
<1>4. k - 1 \in 0 .. n /\ k \in 1 .. n /\ k \in 1 .. m /\ ~(k <= k - 1) BY <1>2, <1>3
<1>5. g[k - 1] = h[k - 1] BY <1>1, <1>4, <1>t
<1>6. g[k] = Handle(g[k - 1], q[k]) /\ h[k] = Handle(h[k - 1], r[k]) BY <1>4, <1>u, <1>v
<1> QED BY <1>2, <1>4, <1>5, <1>6

\* Learned is its last value.
LEMMA LearnedIs ==
  ASSUME NEW b, NEW q, NEW n \in Nat, Len(q) = n
  PROVE  \E g : IsLearning(g, b, q, n) /\ Learned(b, q) = g[n]
<1> DEFINE g == CHOOSE f : IsLearning(f, b, q, n)
<1>1. IsLearning(g, b, q, n) BY LearningExists
<1>2. Learned(b, q) = g[n] BY DEF Learned, IsLearning
<1> QED BY <1>1, <1>2

\* Without packets, nothing is learned.
LEMMA LearnedNothing ==
  ASSUME NEW b, NEW q, Len(q) = 0
  PROVE  Learned(b, q) = b
<1>1. PICK g : IsLearning(g, b, q, 0) /\ Learned(b, q) = g[0] BY LearnedIs
<1>2. g[0] = b BY <1>1 DEF IsLearning
<1> QED BY <1>1, <1>2

\* One packet more: it is handled last.
LEMMA LearnedMore ==
  ASSUME NEW b, NEW S, NEW q \in Seq(S), NEW p \in S
  PROVE  Learned(b, Append(q, p)) = Handle(Learned(b, q), p)
<1> PICK n \in Nat : n = Len(q) BY LenProperties
<1> PICK m \in Nat : m = n + 1 OBVIOUS
<1> DEFINE r == Append(q, p)
<1>1. Len(r) = m /\ r[m] = p /\ \A k \in 1 .. n : q[k] = r[k]
  BY AppendProperties, LenProperties
<1>2. PICK g : IsLearning(g, b, q, n) /\ Learned(b, q) = g[n] BY LearnedIs
<1> HIDE DEF r
<1>3. PICK h : IsLearning(h, b, r, m) /\ Learned(b, r) = h[m] BY <1>1, LearnedIs
<1>4. g[n] = h[n]
  <2>1. n \in 0 .. n /\ n <= m OBVIOUS
  <2> QED BY <1>1, <1>2, <1>3, <2>1, LearningAgrees
<1>5. h[m] = Handle(h[n], p)
  <2>1. \A k \in 1 .. m : h[k] = Handle(h[k - 1], r[k]) BY <1>3, LearningUnfolds
  <2>2. m \in 1 .. m /\ m - 1 = n OBVIOUS
  <2> QED BY <2>1, <2>2, <1>1
<1> QED BY <1>2, <1>3, <1>4, <1>5 DEF r

\* The first packet: it is handled before the others.
LEMMA LearnedFirst ==
  ASSUME NEW b, NEW S, NEW q \in Seq(S), q # <<>>
  PROVE  Learned(b, q) = Learned(Handle(b, Head(q)), Tail(q))
<1> DEFINE n == Len(q) - 1
           r == Tail(q)
           c == Handle(b, Head(q))
<1>1. n \in Nat /\ Len(q) = n + 1 /\ Len(r) = n /\ Head(q) = q[1] /\ \A k \in 1 .. n : r[k] = q[k + 1]
  BY HeadTailProperties, LenProperties, EmptySeq
<1> HIDE DEF n, r, c
<1>a. n + 1 \in Nat BY <1>1
<1>2. PICK h : IsLearning(h, b, q, n + 1) /\ Learned(b, q) = h[n + 1] BY <1>1, <1>a, LearnedIs
<1> DEFINE g == [k \in 0 .. n |-> h[k + 1]]
<1>3. h[0] = b /\ \A k \in 1 .. n + 1 : h[k] = Handle(h[k - 1], q[k]) BY <1>1, <1>2, LearningUnfolds
<1>4. \A k \in 0 .. n : g[k] = IF k = 0 THEN c ELSE Handle(g[k - 1], r[k])
  <2> TAKE k \in 0 .. n
  <2>1. k + 1 \in 1 .. n + 1 /\ k + 1 - 1 = k BY <1>1
  <2>2. h[k + 1] = Handle(h[k], q[k + 1]) BY <1>3, <2>1
  <2>3. CASE k = 0
    <3>1. h[1] = Handle(b, q[1]) BY <2>2, <2>3, <1>3
    <3> QED BY <2>3, <3>1, <1>1 DEF c
  <2>4. CASE k # 0
    <3>1. k \in 1 .. n /\ k - 1 \in 0 .. n /\ k - 1 + 1 = k BY <2>4, <1>1
    <3>2. g[k - 1] = h[k] BY <3>1
    <3>3. r[k] = q[k + 1] BY <1>1, <3>1
    <3> QED BY <2>2, <2>4, <3>2, <3>3
  <2> QED BY <2>3, <2>4
<1>5. IsLearning(g, c, r, n)
  <2>1. g = [k \in 0 .. n |-> g[k]] OBVIOUS
  <2> HIDE DEF g
  <2>2. [k \in 0 .. n |-> g[k]] = [k \in 0 .. n |-> IF k = 0 THEN c ELSE Handle(g[k - 1], r[k])]
    BY <1>4
  <2> QED BY <2>1, <2>2 DEF IsLearning
<1>6. PICK f : IsLearning(f, c, r, n) /\ Learned(c, r) = f[n] BY <1>1, LearnedIs
<1>7. f[n] = g[n]
  <2> HIDE DEF g
  <2>1. n \in 0 .. n /\ n <= n BY <1>1
  <2> QED BY <1>1, <1>5, <1>6, <2>1, LearningAgrees
<1>8. g[n] = h[n + 1] BY <1>1
<1> QED BY <1>2, <1>6, <1>7, <1>8 DEF r, c

-----------------------------------------------------------------------------
(* The invariant.                                                          *)

ToBot ==
  [name : {"login", "respawn"}, dimension : Dimensions]
  \cup [name : {"set_health"}, health : 0 .. MaxHealth]
  \cup [name : {"level_chunk_with_light"}, chunk : Chunk, data : Seq(Section)]
  \cup [name : {"chunk_batch_finished"}]
  \cup [name : {"forget_level_chunk"}, chunk : Chunk]
  \cup [name : {"block_update", "section_blocks_update"}, chunk : Chunk, level : Int,
        records : Seq((1 .. 2) \X {section[i] : section \in Section, i \in 1 .. 2})]
  \cup [name : {"add_entity", "teleport_entity"}, entity : Entity, position : Int]
  \cup [name : {"move_entity_pos"}, entity : Entity, by : Int]
  \cup [name : {"remove_entities"}, entities : SUBSET Entity]
ToServer == {"settings", "chunk_batch_received", "client_command"}

Types ==
  /\ dimension \in Dimensions
  /\ view \subseteq Chunk /\ tracked \subseteq Entity
  /\ health \in 0 .. MaxHealth
  /\ DOMAIN world = Dimensions
  /\ \A d \in Dimensions : world[d] \in [Chunk -> [Levels[d] -> Section]]
  /\ entities \in [Entity -> Int]
  /\ lives \in [spawns : Nat, deaths : Nat]
  /\ left \in [chunks : SUBSET Chunk, entities : SUBSET Entity]
  /\ toBot \in Seq(ToBot) /\ toServer \in Seq(ToServer)

BotFields == {"dimension", "columns", "entities", "health", "alive", "spawned", "spawns", "deaths"}
Sound(b) ==
  /\ DOMAIN b = BotFields
  /\ b.dimension \in Dimensions /\ b.health \in 0 .. MaxHealth
  /\ b.alive \in BOOLEAN /\ b.spawned \in BOOLEAN

\* What the three properties say of the bot that has caught up, of any bot.
ShowsChunks(b) ==
  \A c \in view : Levels[dimension] = Levels[Home] =>
    c \in DOMAIN b.columns /\ b.columns[c] = world[dimension][c]
ShowsEntities(b) ==
  \A e \in tracked : e \in DOMAIN b.entities /\ b.entities[e] = entities[e]
Keeps(b) ==
  /\ DOMAIN b.columns \subseteq view \cup left.chunks
  /\ DOMAIN b.entities \subseteq tracked \cup left.entities
\* A bot that lives has spawned: without that it would be told twice.
Told(b) ==
  /\ b.deaths = lives.deaths /\ b.spawns = lives.spawns
  /\ b.alive <=> health > 0
  /\ b.alive => b.spawned
Knows(b) ==
  /\ b.dimension = dimension
  /\ ShowsChunks(b) /\ ShowsEntities(b) /\ Keeps(b) /\ Told(b)

-----------------------------------------------------------------------------
(* What the handlers do.                                                   *)

\* Which handler takes a packet.
LEMMA HandledAs ==
  ASSUME NEW b, NEW p
  PROVE  /\ p.name \in {"login", "respawn"} => Handle(b, p) = EnterDimension(b, p)
         /\ p.name = "set_health" => Handle(b, p) = HandleHealth(b, p)
         /\ p.name = "level_chunk_with_light" => Handle(b, p) = HandleChunk(b, p)
         /\ p.name = "forget_level_chunk" => Handle(b, p) = ForgetChunk(b, p)
         /\ p.name \in {"block_update", "section_blocks_update"} => Handle(b, p) = HandleRecords(b, p)
         /\ p.name = "add_entity" => Handle(b, p) = AddEntity(b, p)
         /\ p.name = "move_entity_pos" => Handle(b, p) = MoveEntity(b, p)
         /\ p.name = "teleport_entity" => Handle(b, p) = TeleportEntity(b, p)
         /\ p.name = "remove_entities" => Handle(b, p) = RemoveEntities(b, p)
         /\ p.name = "chunk_batch_finished" => Handle(b, p) = b
BY DEF Handle

\* The handlers of chunks and entities change what is shown, and no more.
Same(b, n) ==
  /\ DOMAIN n = DOMAIN b
  /\ n.dimension = b.dimension /\ n.health = b.health /\ n.alive = b.alive /\ n.spawned = b.spawned
  /\ n.spawns = b.spawns /\ n.deaths = b.deaths

\* A new set of columns, and all else as it was.
LEMMA ColumnsOnly ==
  ASSUME NEW b, DOMAIN b = BotFields, NEW columns
  PROVE  LET n == [b EXCEPT !.columns = columns]
         IN  Same(b, n) /\ n.columns = columns /\ n.entities = b.entities
BY DEF Same, BotFields

\* New entities, and all else as it was.
LEMMA EntitiesOnly ==
  ASSUME NEW b, DOMAIN b = BotFields, NEW known
  PROVE  LET n == [b EXCEPT !.entities = known]
         IN  Same(b, n) /\ n.columns = b.columns /\ n.entities = known
BY DEF Same, BotFields

\* login and respawn change the name of the dimension, and clear nothing.
LEMMA EnterEffect ==
  ASSUME NEW b, DOMAIN b = BotFields, NEW p
  PROVE  LET n == EnterDimension(b, p)
         IN  /\ DOMAIN n = BotFields /\ n.dimension = p.dimension
             /\ n.columns = b.columns /\ n.entities = b.entities
             /\ n.health = b.health /\ n.alive = b.alive /\ n.spawned = b.spawned
             /\ n.spawns = b.spawns /\ n.deaths = b.deaths
BY DEF EnterDimension, BotFields

\* set_health, as one case: when Spawn and Death are told.
LEMMA HealthEffect ==
  ASSUME NEW b, Sound(b), NEW p, p.health \in 0 .. MaxHealth
  PROVE  LET n == HandleHealth(b, p)
         IN  /\ DOMAIN n = BotFields /\ n.dimension = b.dimension
             /\ n.columns = b.columns /\ n.entities = b.entities
             /\ n.health = p.health
             /\ n.alive <=> p.health > 0
             /\ n.alive \in BOOLEAN /\ n.spawned \in BOOLEAN
             /\ n.spawned <=> b.spawned \/ p.health > 0
             /\ n.spawns = IF p.health > 0 /\ ~(b.spawned /\ b.alive) THEN b.spawns + 1 ELSE b.spawns
             /\ n.deaths = IF b.alive /\ p.health = 0 THEN b.deaths + 1 ELSE b.deaths
<1>0. p.health \in Int /\ (p.health = 0 <=> ~(p.health > 0)) BY BoundsAssumption
<1>1. CASE p.health > 0 /\ b.spawned /\ b.alive
  BY <1>0, <1>1 DEF HandleHealth, Sound, BotFields
<1>2. CASE p.health > 0 /\ ~(b.spawned /\ b.alive)
  BY <1>0, <1>2 DEF HandleHealth, Sound, BotFields
<1>3. CASE p.health = 0 /\ b.alive
  BY <1>0, <1>3 DEF HandleHealth, Sound, BotFields
<1>4. CASE p.health = 0 /\ ~b.alive
  BY <1>0, <1>4 DEF HandleHealth, Sound, BotFields
<1> QED BY <1>0, <1>1, <1>2, <1>3, <1>4

\* The levels of a dimension are an interval.
LEMMA LevelsInterval ==
  ASSUME NEW d \in Dimensions
  PROVE  /\ Min(Levels[d]) \in Int /\ Cardinality(Levels[d]) \in Nat
         /\ Levels[d] = Min(Levels[d]) .. Min(Levels[d]) + Cardinality(Levels[d]) - 1
<1>1. PICK low, high \in Levels[d] : low \in Int /\ high \in Int /\ Levels[d] = low .. high
  BY LevelsAssumption
<1>2. low <= high BY <1>1
<1>3. Cardinality(low .. high) = high - low + 1
  BY <1>1, <1>2, FS_Interval
<1>4. Min(low .. high) = low
  <2>1. low \in low .. high /\ \A x \in low .. high : low <= x BY <1>1, <1>2
  <2>2. \A y : y \in low .. high /\ (\A x \in low .. high : y <= x) => y = low BY <2>1, <1>1
  <2> DEFINE S == low .. high
  <2> HIDE DEF S
  <2>3. low \in S /\ \A x \in S : low <= x BY <2>1 DEF S
  <2>4. \A y : y \in S /\ (\A x \in S : y <= x) => y = low BY <2>2 DEF S
  <2>5. Min(S) = low BY <2>3, <2>4 DEF Min
  <2> QED BY <2>5 DEF S
<1>5. high - low + 1 \in Nat /\ low + (high - low + 1) - 1 = high BY <1>1, <1>2
<1> QED BY <1>1, <1>3, <1>4, <1>5

\* A chunk as it is sent, and what is loaded from it by a bot that expects
\* as many levels.
LEMMA DataType ==
  ASSUME Types, NEW d \in Dimensions, NEW c \in Chunk
  PROVE  Data(d, c) \in Seq(Section)
<1> DEFINE low == Min(Levels[d])
           n == Cardinality(Levels[d])
<1>1. low \in Int /\ n \in Nat /\ Levels[d] = low .. low + n - 1 BY LevelsInterval
<1>2. world[d][c] \in [Levels[d] -> Section] BY DEF Types
<1>3. ASSUME NEW k \in 1 .. n PROVE world[d][c][low + k - 1] \in Section
  <2> HIDE DEF low, n
  <2>1. low + k - 1 \in Levels[d] BY <1>1
  <2> QED BY <2>1, <1>2
<1>4. [k \in 1 .. n |-> world[d][c][low + k - 1]] \in [1 .. n -> Section]
  <2> HIDE DEF low, n
  <2> QED BY <1>3
<1>5. \A S : \A m \in Nat : [1 .. m -> S] \subseteq Seq(S) BY SeqDef
<1>6. Data(d, c) = [k \in 1 .. n |-> world[d][c][low + k - 1]] BY DEF Data
<1> HIDE DEF low, n
<1> QED BY <1>1, <1>4, <1>5, <1>6

\* What the server sends of a chunk of a dimension with as many levels as
\* Home has, the bot loads as it is.
LEMMA DataLoads ==
  ASSUME Types, NEW d \in Dimensions, NEW c \in Chunk, Levels[d] = Levels[Home]
  PROVE  ChunkLoads(Data(d, c)) /\ LoadedColumn(Data(d, c)) = world[d][c]
<1> DEFINE low == Min(Levels[d])
           n == Cardinality(Levels[d])
<1>1. low \in Int /\ n \in Nat /\ Levels[d] = low .. low + n - 1 BY LevelsInterval
<1>2. world[d][c] \in [Levels[d] -> Section] BY DEF Types
<1>3. Data(d, c) = [k \in 1 .. n |-> world[d][c][low + k - 1]] BY DEF Data
<1>4. Len(Data(d, c)) = n
  <2>1. DOMAIN Data(d, c) = 1 .. n BY <1>3
  <2>2. Data(d, c) \in Seq(Section) BY DataType
  <2> HIDE DEF n
  <2> QED BY <1>1, <2>1, <2>2, LenProperties
<1>5. ChunkLoads(Data(d, c))
  <2>1. Cardinality(Levels[Home]) = n OBVIOUS
  <2> HIDE DEF n
  <2> QED BY <1>1, <1>4, <2>1 DEF ChunkLoads
<1>6. LoadedColumn(Data(d, c)) = [l \in Levels[d] |-> Data(d, c)[l - low + 1]] BY DEF LoadedColumn
<1>7. ASSUME NEW l \in Levels[d] PROVE Data(d, c)[l - low + 1] = world[d][c][l]
  <2> HIDE DEF low, n
  <2>1. l - low + 1 \in 1 .. n /\ low + (l - low + 1) - 1 = l BY <1>1
  <2> QED BY <1>3, <2>1
<1> HIDE DEF low, n
<1> QED BY <1>2, <1>5, <1>6, <1>7

\* A chunk that cannot be loaded changes nothing.
LEMMA ChunkEffect ==
  ASSUME NEW b, DOMAIN b = BotFields, NEW p
  PROVE  LET n == HandleChunk(b, p)
         IN  /\ Same(b, n) /\ n.entities = b.entities
             /\ DOMAIN n.columns \subseteq DOMAIN b.columns \cup {p.chunk}
             /\ \A c \in DOMAIN b.columns \ {p.chunk} : c \in DOMAIN n.columns /\ n.columns[c] = b.columns[c]
             /\ ChunkLoads(p.data) => p.chunk \in DOMAIN n.columns /\ n.columns[p.chunk] = LoadedColumn(p.data)
<1> DEFINE new == [c \in DOMAIN b.columns \cup {p.chunk} |->
                     IF c = p.chunk THEN LoadedColumn(p.data) ELSE b.columns[c]]
           n == HandleChunk(b, p)
<1>1. CASE ~ChunkLoads(p.data)
  <2>1. n = b BY <1>1 DEF HandleChunk
  <2> QED BY <1>1, <2>1 DEF Same
<1>2. CASE ChunkLoads(p.data)
  <2>1. n = [b EXCEPT !.columns = new] BY <1>2 DEF HandleChunk
  <2> HIDE DEF new
  <2>2. Same(b, n) /\ n.columns = new /\ n.entities = b.entities BY <2>1, ColumnsOnly
  <2> USE DEF new
  <2> QED BY <2>2
<1> QED BY <1>1, <1>2

\* forget_level_chunk takes one column away.
LEMMA ForgetEffect ==
  ASSUME NEW b, DOMAIN b = BotFields, NEW p
  PROVE  LET n == ForgetChunk(b, p)
         IN  /\ Same(b, n) /\ n.entities = b.entities
             /\ DOMAIN n.columns = DOMAIN b.columns \ {p.chunk}
             /\ \A c \in DOMAIN n.columns : n.columns[c] = b.columns[c]
<1> DEFINE new == [c \in DOMAIN b.columns \ {p.chunk} |-> b.columns[c]]
           n == ForgetChunk(b, p)
<1>1. n = [b EXCEPT !.columns = new] BY DEF ForgetChunk
<1> HIDE DEF new
<1>2. Same(b, n) /\ n.columns = new /\ n.entities = b.entities BY <1>1, ColumnsOnly
<1> USE DEF new
<1> QED BY <1>2

\* A change of blocks changes one section of one column, if it is loaded.
LEMMA RecordsEffect ==
  ASSUME NEW b, DOMAIN b = BotFields, NEW p
  PROVE  LET n == HandleRecords(b, p)
         IN  /\ Same(b, n) /\ n.entities = b.entities
             /\ DOMAIN n.columns = DOMAIN b.columns
             /\ \A c \in DOMAIN b.columns \ {p.chunk} : n.columns[c] = b.columns[c]
             /\ p.chunk \in DOMAIN b.columns /\ p.level \in DOMAIN b.columns[p.chunk] =>
                  n.columns[p.chunk] = [b.columns[p.chunk] EXCEPT ![p.level] = Recorded(@, p.records)]
<1> DEFINE column == [b.columns[p.chunk] EXCEPT ![p.level] = Recorded(@, p.records)]
           new == [b.columns EXCEPT ![p.chunk] = column]
           n == HandleRecords(b, p)
<1>1. CASE p.chunk \notin DOMAIN b.columns \/ p.level \notin DOMAIN b.columns[p.chunk]
  <2>1. n = b BY <1>1 DEF HandleRecords
  <2> QED BY <1>1, <2>1 DEF Same
<1>2. CASE p.chunk \in DOMAIN b.columns /\ p.level \in DOMAIN b.columns[p.chunk]
  <2>1. n = [b EXCEPT !.columns = new] BY <1>2 DEF HandleRecords
  <2>2. Same(b, n) /\ n.columns = new /\ n.entities = b.entities
    <3> HIDE DEF new
    <3> QED BY <2>1, ColumnsOnly
  <2> HIDE DEF column
  <2>3. DOMAIN new = DOMAIN b.columns /\ new[p.chunk] = column
        /\ \A c \in DOMAIN b.columns \ {p.chunk} : new[c] = b.columns[c]
    BY <1>2
  <2> HIDE DEF new
  <2> QED BY <2>2, <2>3 DEF column
<1> QED BY <1>1, <1>2

\* A bounded set of naturals has a largest element.
LEMMA MaxIsIn ==
  ASSUME NEW n \in Nat, NEW T, T \subseteq 0 .. n, T # {}
  PROVE  Max(T) \in T
<1> DEFINE short == {n - k : k \in T}
<1>0. \A k \in T : k \in 0 .. n /\ n - k \in Nat OBVIOUS
<1>1. short \subseteq Nat /\ short # {}
  <2>1. short \subseteq Nat BY <1>0
  <2>2. PICK k \in T : TRUE OBVIOUS
  <2>3. n - k \in short BY <2>2
  <2> QED BY <2>1, <2>3
<1>2. PICK x \in short : \A y \in short : x <= y
  <2> HIDE DEF short
  <2> QED BY <1>1, LeastNatural
<1>3. PICK k \in T : x = n - k BY <1>2
<1>4. \A j \in T : k >= j
  <2> TAKE j \in T
  <2>1. n - k <= n - j BY <1>2, <1>3
  <2> QED BY <1>0, <2>1
<1> QED BY <1>4 DEF Max

\* Records of all the blocks that change make one section of the other.
LEMMA RecordedIs ==
  ASSUME NEW old \in Section, NEW section \in Section,
         NEW changed, changed = {i \in 1 .. 2 : old[i] # section[i]},
         NEW news, news = {<<i, section[i]>> : i \in changed},
         NEW n \in Nat, NEW records \in [1 .. n -> news], Range(records) = news
  PROVE  Recorded(old, records) = section
<1>1. DOMAIN old = 1 .. 2 /\ section = [i \in 1 .. 2 |-> section[i]]
  BY SectionAssumption
<1>2. \A k \in 1 .. n : records[k][1] \in changed /\ records[k][2] = section[records[k][1]]
  OBVIOUS
<1>3. ASSUME NEW i \in 1 .. 2
      PROVE  (IF About(i, records) = {} THEN old[i] ELSE records[Max(About(i, records))][2]) = section[i]
  <2>1. About(i, records) = {k \in 1 .. n : records[k][1] = i} BY DEF About
  <2>2. CASE i \in changed
    <3>1. <<i, section[i]>> \in Range(records) BY <2>2
    <3>2. PICK k \in 1 .. n : records[k] = <<i, section[i]>> BY <3>1 DEF Range
    <3>3. k \in About(i, records) BY <3>2, <2>1
    <3>4. About(i, records) \subseteq 0 .. n BY <2>1
    <3>5. Max(About(i, records)) \in About(i, records) BY <3>3, <3>4, MaxIsIn
    <3>6. records[Max(About(i, records))][2] = section[i] BY <3>5, <2>1, <1>2
    <3> QED BY <3>3, <3>6
  <2>3. CASE i \notin changed
    <3>1. About(i, records) = {} BY <2>1, <2>3, <1>2
    <3> QED BY <2>3, <3>1
  <2> QED BY <2>2, <2>3
<1>4. Recorded(old, records)
        = [i \in 1 .. 2 |-> IF About(i, records) = {} THEN old[i] ELSE records[Max(About(i, records))][2]]
  BY <1>1 DEF Recorded
<1> QED BY <1>1, <1>3, <1>4

\* add_entity puts one entity where the packet says.
LEMMA AddEffect ==
  ASSUME NEW b, DOMAIN b = BotFields, NEW p
  PROVE  LET n == AddEntity(b, p)
         IN  /\ Same(b, n) /\ n.columns = b.columns
             /\ DOMAIN n.entities = DOMAIN b.entities \cup {p.entity}
             /\ n.entities[p.entity] = p.position
             /\ \A e \in DOMAIN b.entities \ {p.entity} : n.entities[e] = b.entities[e]
<1> DEFINE new == [e \in DOMAIN b.entities \cup {p.entity} |->
                     IF e = p.entity THEN p.position ELSE b.entities[e]]
           n == AddEntity(b, p)
<1>1. n = [b EXCEPT !.entities = new] BY DEF AddEntity
<1> HIDE DEF new
<1>2. Same(b, n) /\ n.entities = new /\ n.columns = b.columns BY <1>1, EntitiesOnly
<1> USE DEF new
<1> QED BY <1>2

\* move_entity_pos moves an entity that is known from where it is shown.
LEMMA MoveEffect ==
  ASSUME NEW b, DOMAIN b = BotFields, NEW p
  PROVE  LET n == MoveEntity(b, p)
         IN  /\ Same(b, n) /\ n.columns = b.columns
             /\ DOMAIN n.entities = DOMAIN b.entities
             /\ p.entity \in DOMAIN b.entities => n.entities[p.entity] = b.entities[p.entity] + p.by
             /\ \A e \in DOMAIN b.entities \ {p.entity} : n.entities[e] = b.entities[e]
<1> DEFINE new == [b.entities EXCEPT ![p.entity] = @ + p.by]
           n == MoveEntity(b, p)
<1>1. CASE p.entity \notin DOMAIN b.entities
  <2>1. n = b BY <1>1 DEF MoveEntity
  <2> QED BY <1>1, <2>1 DEF Same
<1>2. CASE p.entity \in DOMAIN b.entities
  <2>1. n = [b EXCEPT !.entities = new] BY <1>2 DEF MoveEntity
  <2>2. Same(b, n) /\ n.entities = new /\ n.columns = b.columns
    <3> HIDE DEF new
    <3> QED BY <2>1, EntitiesOnly
  <2>3. DOMAIN new = DOMAIN b.entities /\ new[p.entity] = b.entities[p.entity] + p.by
        /\ \A e \in DOMAIN b.entities \ {p.entity} : new[e] = b.entities[e]
    BY <1>2
  <2> HIDE DEF new
  <2> QED BY <2>2, <2>3
<1> QED BY <1>1, <1>2

\* teleport_entity puts an entity that is known where the packet says.
LEMMA TeleportEffect ==
  ASSUME NEW b, DOMAIN b = BotFields, NEW p
  PROVE  LET n == TeleportEntity(b, p)
         IN  /\ Same(b, n) /\ n.columns = b.columns
             /\ DOMAIN n.entities = DOMAIN b.entities
             /\ p.entity \in DOMAIN b.entities => n.entities[p.entity] = p.position
             /\ \A e \in DOMAIN b.entities \ {p.entity} : n.entities[e] = b.entities[e]
<1> DEFINE new == [b.entities EXCEPT ![p.entity] = p.position]
           n == TeleportEntity(b, p)
<1>1. CASE p.entity \notin DOMAIN b.entities
  <2>1. n = b BY <1>1 DEF TeleportEntity
  <2> QED BY <1>1, <2>1 DEF Same
<1>2. CASE p.entity \in DOMAIN b.entities
  <2>1. n = [b EXCEPT !.entities = new] BY <1>2 DEF TeleportEntity
  <2>2. Same(b, n) /\ n.entities = new /\ n.columns = b.columns
    <3> HIDE DEF new
    <3> QED BY <2>1, EntitiesOnly
  <2>3. DOMAIN new = DOMAIN b.entities /\ new[p.entity] = p.position
        /\ \A e \in DOMAIN b.entities \ {p.entity} : new[e] = b.entities[e]
    BY <1>2
  <2> HIDE DEF new
  <2> QED BY <2>2, <2>3
<1> QED BY <1>1, <1>2

\* remove_entities takes all its entities away.
LEMMA RemoveEffect ==
  ASSUME NEW b, DOMAIN b = BotFields, NEW p
  PROVE  LET n == RemoveEntities(b, p)
         IN  /\ Same(b, n) /\ n.columns = b.columns
             /\ DOMAIN n.entities = DOMAIN b.entities \ p.entities
             /\ \A e \in DOMAIN n.entities : n.entities[e] = b.entities[e]
<1> DEFINE new == [e \in DOMAIN b.entities \ p.entities |-> b.entities[e]]
           n == RemoveEntities(b, p)
<1>1. n = [b EXCEPT !.entities = new] BY DEF RemoveEntities
<1> HIDE DEF new
<1>2. Same(b, n) /\ n.entities = new /\ n.columns = b.columns BY <1>1, EntitiesOnly
<1> USE DEF new
<1> QED BY <1>2

\* What changes no more than what is shown keeps the bot sound.
LEMMA SameSound ==
  ASSUME NEW b, Sound(b), NEW n, Same(b, n)
  PROVE  Sound(n)
BY DEF Sound, Same

\* Whatever packet it handles, a bot stays sound.
LEMMA HandledSound ==
  ASSUME NEW b, Sound(b), NEW p \in ToBot
  PROVE  Sound(Handle(b, p))
<1>0. DOMAIN b = BotFields BY DEF Sound
<1>1. CASE p \in [name : {"login", "respawn"}, dimension : Dimensions]
  <2>1. Handle(b, p) = EnterDimension(b, p) /\ p.dimension \in Dimensions BY <1>1, HandledAs
  <2> QED BY <1>0, <2>1, EnterEffect DEF Sound
<1>2. CASE p \in [name : {"set_health"}, health : 0 .. MaxHealth]
  <2>1. Handle(b, p) = HandleHealth(b, p) /\ p.health \in 0 .. MaxHealth BY <1>2, HandledAs
  <2>2. LET n == HandleHealth(b, p)
        IN  /\ DOMAIN n = BotFields /\ n.dimension = b.dimension /\ n.health = p.health
            /\ n.alive \in BOOLEAN /\ n.spawned \in BOOLEAN
    BY <2>1, HealthEffect
  <2> QED BY <2>1, <2>2 DEF Sound
<1>3. CASE p.name = "level_chunk_with_light"
  BY <1>0, <1>3, HandledAs, ChunkEffect, SameSound
<1>4. CASE p.name = "chunk_batch_finished"
  BY <1>4, HandledAs
<1>5. CASE p.name = "forget_level_chunk"
  BY <1>0, <1>5, HandledAs, ForgetEffect, SameSound
<1>6. CASE p.name \in {"block_update", "section_blocks_update"}
  <2>1. Handle(b, p) = HandleRecords(b, p) BY <1>6, HandledAs
  <2>2. Same(b, HandleRecords(b, p)) BY <1>0, RecordsEffect
  <2> QED BY <2>1, <2>2, SameSound
<1>7. CASE p.name = "add_entity"
  BY <1>0, <1>7, HandledAs, AddEffect, SameSound
<1>8. CASE p.name = "teleport_entity"
  BY <1>0, <1>8, HandledAs, TeleportEffect, SameSound
<1>9. CASE p.name = "move_entity_pos"
  BY <1>0, <1>9, HandledAs, MoveEffect, SameSound
<1>10. CASE p.name = "remove_entities"
  BY <1>0, <1>10, HandledAs, RemoveEffect, SameSound
<1>11. \/ p \in [name : {"login", "respawn"}, dimension : Dimensions]
       \/ p \in [name : {"set_health"}, health : 0 .. MaxHealth]
       \/ p.name \in {"level_chunk_with_light", "chunk_batch_finished", "forget_level_chunk", "block_update",
                      "section_blocks_update", "add_entity", "teleport_entity", "move_entity_pos", "remove_entities"}
  BY DEF ToBot
<1> QED BY <1>1, <1>2, <1>3, <1>4, <1>5, <1>6, <1>7, <1>8, <1>9, <1>10, <1>11

Inv == Types /\ Sound(bot) /\ Sound(Caught) /\ Knows(Caught)

-----------------------------------------------------------------------------
(* What is told to the bot is handled last.                                *)

\* An empty list of packets tells nothing.
LEMMA TellNothing ==
  ASSUME Types, Tell(<<>>)
  PROVE  toBot' = toBot
BY DEF Types, Tell

\* After one packet more, the bot will be what its handler makes of it.
LEMMA TellOne ==
  ASSUME Types, bot' = bot, NEW p \in ToBot, Tell(<<p>>)
  PROVE  /\ toBot' \in Seq(ToBot)
         /\ Caught' = Handle(Caught, p)
<1>1. toBot \in Seq(ToBot) BY DEF Types
<1>2. toBot' = Append(toBot, p) BY <1>1 DEF Tell
<1>3. Learned(bot, Append(toBot, p)) = Handle(Learned(bot, toBot), p) BY <1>1, LearnedMore
<1>4. Caught' = Learned(bot', toBot') BY DEF Caught
<1>5. Append(toBot, p) \in Seq(ToBot) BY <1>1
<1> QED BY <1>2, <1>3, <1>4, <1>5 DEF Caught

\* The same of two packets.
LEMMA TellTwo ==
  ASSUME Types, bot' = bot, NEW p \in ToBot, NEW q \in ToBot, Tell(<<p, q>>)
  PROVE  /\ toBot' \in Seq(ToBot)
         /\ Caught' = Handle(Handle(Caught, p), q)
<1>1. toBot \in Seq(ToBot) BY DEF Types
<1>2. Append(toBot, p) \in Seq(ToBot) BY <1>1
<1>3. toBot' = Append(Append(toBot, p), q)
  <2>1. toBot \o <<p, q>> = Append(Append(toBot, p), q) BY <1>1
  <2> QED BY <2>1 DEF Tell
<1>4. Learned(bot, Append(toBot, p)) = Handle(Learned(bot, toBot), p) BY <1>1, LearnedMore
<1>5. Learned(bot, Append(Append(toBot, p), q)) = Handle(Learned(bot, Append(toBot, p)), q)
  BY <1>2, LearnedMore
<1>6. Caught' = Learned(bot', toBot') BY DEF Caught
<1>7. Append(Append(toBot, p), q) \in Seq(ToBot) BY <1>2
<1> QED BY <1>3, <1>4, <1>5, <1>6, <1>7 DEF Caught

\* The new invariant, from what the bot will know then.
LEMMA KnowsThen ==
  ASSUME NEW n, Caught' = n, n.dimension = dimension',
         \A c \in view' : Levels[dimension'] = Levels[Home] =>
           c \in DOMAIN n.columns /\ n.columns[c] = world'[dimension'][c],
         \A e \in tracked' : e \in DOMAIN n.entities /\ n.entities[e] = entities'[e],
         DOMAIN n.columns \subseteq view' \cup left'.chunks,
         DOMAIN n.entities \subseteq tracked' \cup left'.entities,
         n.deaths = lives'.deaths, n.spawns = lives'.spawns,
         n.alive <=> health' > 0, n.alive => n.spawned
  PROVE  Knows(Caught)'
<1>1. ShowsChunks(Caught)' BY DEF ShowsChunks
<1>2. ShowsEntities(Caught)' BY DEF ShowsEntities
<1>3. Keeps(Caught)' BY DEF Keeps
<1>4. Told(Caught)' BY DEF Told
<1> QED BY <1>1, <1>2, <1>3, <1>4 DEF Knows

\* A packet that is handled was counted already.
LEMMA CatchingUp ==
  ASSUME Inv, HandlePacket
  PROVE  Inv'
<1> USE DEF server
<1>1. toBot \in Seq(ToBot) /\ toBot # <<>> BY DEF Inv, Types, HandlePacket
<1>2. Head(toBot) \in ToBot /\ Tail(toBot) \in Seq(ToBot) BY <1>1, HeadTailProperties
<1>3. Caught' = Caught
  <2>1. Learned(bot, toBot) = Learned(Handle(bot, Head(toBot)), Tail(toBot)) BY <1>1, LearnedFirst
  <2>2. Caught' = Learned(bot', toBot') BY DEF Caught
  <2> QED BY <2>1, <2>2 DEF Caught, HandlePacket
<1>4. Types'
  <2>0. <<>> \in Seq(ToServer) /\ <<"settings">> \in Seq(ToServer) /\ <<"chunk_batch_received">> \in Seq(ToServer)
    BY DEF ToServer
  <2>1. Answers(Head(toBot)) \in Seq(ToServer) BY <2>0 DEF Answers
  <2>2. toServer' \in Seq(ToServer) BY <2>1 DEF Inv, Types, HandlePacket
  <2> QED BY <1>2, <2>2 DEF Inv, Types, HandlePacket
<1>5. Sound(bot)'
  <2>1. Sound(Handle(bot, Head(toBot))) BY <1>2, HandledSound DEF Inv
  <2>2. bot' = Handle(bot, Head(toBot)) BY DEF HandlePacket
  <2> HIDE DEF server
  <2> QED BY <2>1, <2>2 DEF Sound
<1>6. Sound(Caught)'
  <2>1. Sound(Caught) BY DEF Inv
  <2> QED BY <1>3, <2>1 DEF Sound
<1>7. Knows(Caught)'
  <2> PICK b : b = Caught OBVIOUS
  <2>0. Caught' = b BY <1>3
  <2>1. Knows(b) BY DEF Inv
  <2>2. server' = server BY DEF HandlePacket
  <2> QED BY <2>0, <2>1, <2>2, KnowsThen DEF Knows, ShowsChunks, ShowsEntities, Keeps, Told
<1> QED BY <1>4, <1>5, <1>6, <1>7 DEF Inv

-----------------------------------------------------------------------------
(* The server's steps.                                                     *)

\* A step of the server leaves the bot sound now, and when it has caught up.
LEMMA SoundAfter ==
  ASSUME Inv, NEW n, Sound(n), Caught' = n, UNCHANGED bot
  PROVE  Sound(bot)' /\ Sound(Caught)'
<1>1. Sound(bot) BY DEF Inv
<1> QED BY <1>1 DEF Sound

\* What Inv says of the bot that has caught up, named.
LEMMA CaughtKnows ==
  ASSUME Inv, NEW b, b = Caught
  PROVE  /\ Sound(b) /\ DOMAIN b = BotFields
         /\ b.dimension = dimension /\ ShowsChunks(b) /\ ShowsEntities(b) /\ Keeps(b) /\ Told(b)
BY DEF Inv, Sound, Knows

\* A chunk sent is shown, and the end of its batch changes nothing.
LEMMA SendingChunk ==
  ASSUME Inv, NEW c \in Chunk, SendChunk(c)
  PROVE  Inv'
<1> DEFINE data == Data(dimension, c)
           p == [name |-> "level_chunk_with_light", chunk |-> c, data |-> data]
           q == [name |-> "chunk_batch_finished"]
<1> PICK b : b = Caught OBVIOUS
<1> PICK n : n = HandleChunk(b, p) OBVIOUS
<1>0. Types BY DEF Inv
<1>1. data \in Seq(Section) BY <1>0, DataType DEF Types
<1>2. p \in ToBot /\ q \in ToBot
  <2> HIDE DEF data
  <2> QED BY <1>1 DEF ToBot
<1>3. Tell(<<p, q>>) /\ bot' = bot BY DEF SendChunk
<1>4. p.name = "level_chunk_with_light" /\ q.name = "chunk_batch_finished" /\ p.chunk = c /\ p.data = data OBVIOUS
<1> HIDE DEF p, q
<1>5. Caught' = n /\ toBot' \in Seq(ToBot)
  <2>1. Handle(b, p) = n /\ Handle(n, q) = n BY <1>4, HandledAs
  <2> QED BY <1>0, <1>2, <1>3, <2>1, TellTwo
<1>6. Sound(b) /\ DOMAIN b = BotFields BY CaughtKnows
<1>7. Sound(n)
  <2>1. n = Handle(b, p) BY <1>4, HandledAs
  <2> QED BY <1>2, <1>6, <2>1, HandledSound
<1>8. Types' BY <1>0, <1>5 DEF SendChunk, Types
<1>9. /\ Same(b, n) /\ n.entities = b.entities
      /\ DOMAIN n.columns \subseteq DOMAIN b.columns \cup {c}
      /\ \A e \in DOMAIN b.columns \ {c} : e \in DOMAIN n.columns /\ n.columns[e] = b.columns[e]
      /\ ChunkLoads(data) => c \in DOMAIN n.columns /\ n.columns[c] = LoadedColumn(data)
  BY <1>4, <1>6, ChunkEffect
<1>10. ASSUME NEW e \in view', Levels[dimension'] = Levels[Home]
       PROVE  e \in DOMAIN n.columns /\ n.columns[e] = world'[dimension'][e]
  <2>1. dimension' = dimension /\ world' = world /\ view' = view \cup {c} BY DEF SendChunk
  <2>2. CASE e = c
    <3>1. ChunkLoads(data) /\ LoadedColumn(data) = world[dimension][c]
      BY <1>0, <1>10, <2>1, DataLoads DEF Types
    <3> QED BY <1>9, <2>1, <2>2, <3>1
  <2>3. CASE e # c
    <3>1. e \in view BY <2>1, <2>3
    <3>2. e \in DOMAIN b.columns /\ b.columns[e] = world[dimension][e]
      BY <1>10, <2>1, <3>1, CaughtKnows DEF ShowsChunks
    <3> QED BY <1>9, <2>1, <2>3, <3>2
  <2> QED BY <2>2, <2>3
<1>11. Knows(Caught)'
  <2>1. \A e \in tracked' : e \in DOMAIN n.entities /\ n.entities[e] = entities'[e]
    BY <1>9, CaughtKnows DEF ShowsEntities, SendChunk
  <2>2. DOMAIN n.columns \subseteq view' \cup left'.chunks /\ DOMAIN n.entities \subseteq tracked' \cup left'.entities
    BY <1>9, CaughtKnows DEF Keeps, SendChunk
  <2>3. n.dimension = dimension' /\ n.deaths = lives'.deaths /\ n.spawns = lives'.spawns
        /\ (n.alive <=> health' > 0) /\ (n.alive => n.spawned)
    BY <1>9, CaughtKnows DEF Told, Same, SendChunk
  <2> QED BY <1>5, <1>10, <2>1, <2>2, <2>3, KnowsThen
<1> QED BY <1>3, <1>5, <1>7, <1>8, <1>11, SoundAfter DEF Inv

\* A chunk that is out of view is shown no longer.
LEMMA Forgetting ==
  ASSUME Inv, NEW c \in Chunk, Forget(c)
  PROVE  Inv'
<1> DEFINE p == [name |-> "forget_level_chunk", chunk |-> c]
<1> PICK b : b = Caught OBVIOUS
<1> PICK n : n = Handle(b, p) OBVIOUS
<1>0. Types BY DEF Inv
<1>1. p \in ToBot BY DEF ToBot
<1>2. Tell(<<p>>) /\ bot' = bot BY DEF Forget
<1>3. p.name = "forget_level_chunk" /\ p.chunk = c OBVIOUS
<1> HIDE DEF p
<1>4. Caught' = n /\ toBot' \in Seq(ToBot) BY <1>0, <1>1, <1>2, TellOne
<1>5. Sound(b) /\ DOMAIN b = BotFields BY CaughtKnows
<1>6. Sound(n) BY <1>1, <1>5, HandledSound
<1>7. /\ Same(b, n) /\ n.entities = b.entities
      /\ DOMAIN n.columns = DOMAIN b.columns \ {c}
      /\ \A e \in DOMAIN n.columns : n.columns[e] = b.columns[e]
  <2>1. n = ForgetChunk(b, p) BY <1>3, HandledAs
  <2> QED BY <1>3, <1>5, <2>1, ForgetEffect
<1>8. left' \in [chunks : SUBSET Chunk, entities : SUBSET Entity]
      /\ left'.chunks = left.chunks \ {c} /\ left'.entities = left.entities
  <2>1. left \in [chunks : SUBSET Chunk, entities : SUBSET Entity] BY <1>0 DEF Types
  <2>2. left' = [left EXCEPT !.chunks = @ \ {c}] BY DEF Forget
  <2> QED BY <2>1, <2>2
<1>9. Types' BY <1>0, <1>4, <1>8 DEF Forget, Types
<1>10. Knows(Caught)'
  <2>0. dimension' = dimension /\ world' = world /\ view' = view \ {c} BY DEF Forget
  <2>1. \A e \in view' : Levels[dimension'] = Levels[Home] =>
           e \in DOMAIN n.columns /\ n.columns[e] = world'[dimension'][e]
    BY <1>7, <2>0, CaughtKnows DEF ShowsChunks
  <2>2. \A e \in tracked' : e \in DOMAIN n.entities /\ n.entities[e] = entities'[e]
    BY <1>7, CaughtKnows DEF ShowsEntities, Forget
  <2>3. DOMAIN n.columns \subseteq view' \cup left'.chunks /\ DOMAIN n.entities \subseteq tracked' \cup left'.entities
    BY <1>7, <1>8, <2>0, CaughtKnows DEF Keeps, Forget
  <2>4. n.dimension = dimension' /\ n.deaths = lives'.deaths /\ n.spawns = lives'.spawns
        /\ (n.alive <=> health' > 0) /\ (n.alive => n.spawned)
    BY <1>7, CaughtKnows DEF Told, Same, Forget
  <2> QED BY <1>4, <2>1, <2>2, <2>3, <2>4, KnowsThen
<1> QED BY <1>2, <1>4, <1>6, <1>9, <1>10, SoundAfter DEF Inv

\* An entity that comes into view is shown where it is.
LEMMA Tracking ==
  ASSUME Inv, NEW e \in Entity, Track(e)
  PROVE  Inv'
<1> DEFINE p == [name |-> "add_entity", entity |-> e, position |-> entities[e]]
<1> PICK b : b = Caught OBVIOUS
<1> PICK n : n = Handle(b, p) OBVIOUS
<1>0. Types BY DEF Inv
<1>1. p \in ToBot
  <2>1. entities[e] \in Int BY <1>0 DEF Types
  <2> QED BY <2>1 DEF ToBot
<1>2. Tell(<<p>>) /\ bot' = bot BY DEF Track
<1>3. p.name = "add_entity" /\ p.entity = e /\ p.position = entities[e] OBVIOUS
<1> HIDE DEF p
<1>4. Caught' = n /\ toBot' \in Seq(ToBot) BY <1>0, <1>1, <1>2, TellOne
<1>5. Sound(b) /\ DOMAIN b = BotFields BY CaughtKnows
<1>6. Sound(n) BY <1>1, <1>5, HandledSound
<1>7. /\ Same(b, n) /\ n.columns = b.columns
      /\ DOMAIN n.entities = DOMAIN b.entities \cup {e}
      /\ n.entities[e] = entities[e]
      /\ \A f \in DOMAIN b.entities \ {e} : n.entities[f] = b.entities[f]
  <2>1. n = AddEntity(b, p) BY <1>3, HandledAs
  <2> QED BY <1>3, <1>5, <2>1, AddEffect
<1>8. Types' BY <1>0, <1>4 DEF Track, Types
<1>9. Knows(Caught)'
  <2>0. tracked' = tracked \cup {e} /\ entities' = entities BY DEF Track
  <2>1. \A c \in view' : Levels[dimension'] = Levels[Home] =>
           c \in DOMAIN n.columns /\ n.columns[c] = world'[dimension'][c]
    BY <1>7, CaughtKnows DEF ShowsChunks, Track
  <2>2. \A f \in tracked' : f \in DOMAIN n.entities /\ n.entities[f] = entities'[f]
    BY <1>7, <2>0, CaughtKnows DEF ShowsEntities
  <2>3. DOMAIN n.columns \subseteq view' \cup left'.chunks /\ DOMAIN n.entities \subseteq tracked' \cup left'.entities
    BY <1>7, CaughtKnows DEF Keeps, Track
  <2>4. n.dimension = dimension' /\ n.deaths = lives'.deaths /\ n.spawns = lives'.spawns
        /\ (n.alive <=> health' > 0) /\ (n.alive => n.spawned)
    BY <1>7, CaughtKnows DEF Told, Same, Track
  <2> QED BY <1>4, <2>1, <2>2, <2>3, <2>4, KnowsThen
<1> QED BY <1>2, <1>4, <1>6, <1>8, <1>9, SoundAfter DEF Inv

\* An entity in view is shown, so that it moves with the packet, by a
\* distance or to a place.
LEMMA Moving ==
  ASSUME Inv, NEW e \in Entity, NEW by \in {1, 2}, Move(e, by)
  PROVE  Inv'
<1> DEFINE p == IF by = 1 THEN [name |-> "move_entity_pos", entity |-> e, by |-> by]
                ELSE [name |-> "teleport_entity", entity |-> e, position |-> entities[e] + by]
<1> PICK b : b = Caught OBVIOUS
<1> PICK n : n = Handle(b, p) OBVIOUS
<1>0. Types /\ entities \in [Entity -> Int] /\ entities[e] \in Int BY DEF Inv, Types
<1>1. p \in ToBot
  <2>1. PICK at \in Int : at = entities[e] + by BY <1>0
  <2>2. by \in Int OBVIOUS
  <2>3. [name |-> "move_entity_pos", entity |-> e, by |-> by] \in ToBot BY <2>2 DEF ToBot
  <2>4. [name |-> "teleport_entity", entity |-> e, position |-> at] \in ToBot BY DEF ToBot
  <2> QED BY <2>1, <2>3, <2>4
<1>2. Tell(<<p>>) /\ bot' = bot BY DEF Move
<1>3. /\ p.entity = e
      /\ \/ p.name = "move_entity_pos" /\ p.by = by
         \/ p.name = "teleport_entity" /\ p.position = entities[e] + by
  OBVIOUS
<1> HIDE DEF p
<1>4. Caught' = n /\ toBot' \in Seq(ToBot) BY <1>0, <1>1, <1>2, TellOne
<1>5. Sound(b) /\ DOMAIN b = BotFields /\ ShowsEntities(b) BY CaughtKnows
<1>6. Sound(n) BY <1>1, <1>5, HandledSound
<1>7. e \in tracked /\ e \in DOMAIN b.entities /\ b.entities[e] = entities[e]
  BY <1>5 DEF ShowsEntities, Move
<1>8. /\ Same(b, n) /\ n.columns = b.columns
      /\ DOMAIN n.entities = DOMAIN b.entities
      /\ n.entities[e] = entities[e] + by
      /\ \A f \in DOMAIN b.entities \ {e} : n.entities[f] = b.entities[f]
  <2>1. CASE p.name = "move_entity_pos" /\ p.by = by
    <3>1. n = MoveEntity(b, p) BY <2>1, HandledAs
    <3>2. /\ Same(b, n) /\ n.columns = b.columns
          /\ DOMAIN n.entities = DOMAIN b.entities
          /\ p.entity \in DOMAIN b.entities => n.entities[p.entity] = b.entities[p.entity] + p.by
          /\ \A f \in DOMAIN b.entities \ {p.entity} : n.entities[f] = b.entities[f]
      BY <1>5, <3>1, MoveEffect
    <3>3. b.entities[p.entity] + p.by = entities[e] + by BY <1>3, <1>7, <2>1
    <3>4. p.entity = e BY <1>3
    <3>5. n.entities[e] = entities[e] + by BY <1>7, <3>2, <3>3, <3>4, Zenon
    <3> QED BY <3>2, <3>4, <3>5
  <2>2. CASE p.name = "teleport_entity" /\ p.position = entities[e] + by
    <3>1. n = TeleportEntity(b, p) BY <2>2, HandledAs
    <3>2. /\ Same(b, n) /\ n.columns = b.columns
          /\ DOMAIN n.entities = DOMAIN b.entities
          /\ p.entity \in DOMAIN b.entities => n.entities[p.entity] = p.position
          /\ \A f \in DOMAIN b.entities \ {p.entity} : n.entities[f] = b.entities[f]
      BY <1>5, <3>1, TeleportEffect
    <3>3. p.entity = e BY <1>3
    <3>4. n.entities[e] = entities[e] + by BY <1>7, <2>2, <3>2, <3>3, Zenon
    <3> QED BY <3>2, <3>3, <3>4
  <2> QED BY <1>3, <2>1, <2>2
<1>9. entities' = [entities EXCEPT ![e] = entities[e] + by] /\ tracked' = tracked BY DEF Move
<1>10. Types'
  <2>1. entities[e] + by \in Int BY <1>0
  <2>2. entities' \in [Entity -> Int] BY <1>0, <1>9, <2>1
  <2> QED BY <1>0, <1>4, <2>2 DEF Move, Types
<1>11. Knows(Caught)'
  <2>1. \A c \in view' : Levels[dimension'] = Levels[Home] =>
           c \in DOMAIN n.columns /\ n.columns[c] = world'[dimension'][c]
    BY <1>8, CaughtKnows DEF ShowsChunks, Move
  <2>2. \A f \in tracked' : f \in DOMAIN n.entities /\ n.entities[f] = entities'[f]
    <3>1. tracked \subseteq Entity BY <1>0 DEF Types
    <3> QED BY <1>0, <1>5, <1>8, <1>9, <3>1 DEF ShowsEntities
  <2>3. DOMAIN n.columns \subseteq view' \cup left'.chunks /\ DOMAIN n.entities \subseteq tracked' \cup left'.entities
    BY <1>8, CaughtKnows DEF Keeps, Move
  <2>4. n.dimension = dimension' /\ n.deaths = lives'.deaths /\ n.spawns = lives'.spawns
        /\ (n.alive <=> health' > 0) /\ (n.alive => n.spawned)
    BY <1>8, CaughtKnows DEF Told, Same, Move
  <2> QED BY <1>4, <2>1, <2>2, <2>3, <2>4, KnowsThen
<1> QED BY <1>2, <1>4, <1>6, <1>10, <1>11, SoundAfter DEF Inv

\* Entities out of view are shown no longer.
LEMMA Untracking ==
  ASSUME Inv, NEW gone \in SUBSET Entity, Untrack(gone)
  PROVE  Inv'
<1> DEFINE p == [name |-> "remove_entities", entities |-> gone]
<1> PICK b : b = Caught OBVIOUS
<1> PICK n : n = Handle(b, p) OBVIOUS
<1>0. Types BY DEF Inv
<1>1. p \in ToBot BY DEF ToBot
<1>2. Tell(<<p>>) /\ bot' = bot BY DEF Untrack
<1>3. p.name = "remove_entities" /\ p.entities = gone OBVIOUS
<1> HIDE DEF p
<1>4. Caught' = n /\ toBot' \in Seq(ToBot) BY <1>0, <1>1, <1>2, TellOne
<1>5. Sound(b) /\ DOMAIN b = BotFields BY CaughtKnows
<1>6. Sound(n) BY <1>1, <1>5, HandledSound
<1>7. /\ Same(b, n) /\ n.columns = b.columns
      /\ DOMAIN n.entities = DOMAIN b.entities \ gone
      /\ \A f \in DOMAIN n.entities : n.entities[f] = b.entities[f]
  <2>1. n = RemoveEntities(b, p) BY <1>3, HandledAs
  <2> QED BY <1>3, <1>5, <2>1, RemoveEffect
<1>8. Types' BY <1>0, <1>4 DEF Untrack, Types
<1>9. Knows(Caught)'
  <2>0. tracked' = tracked \ gone /\ entities' = entities /\ left' = left BY DEF Untrack
  <2>1. \A c \in view' : Levels[dimension'] = Levels[Home] =>
           c \in DOMAIN n.columns /\ n.columns[c] = world'[dimension'][c]
    BY <1>7, CaughtKnows DEF ShowsChunks, Untrack
  <2>2. \A f \in tracked' : f \in DOMAIN n.entities /\ n.entities[f] = entities'[f]
    BY <1>7, <2>0, CaughtKnows DEF ShowsEntities
  <2>3. DOMAIN n.columns \subseteq view' \cup left'.chunks /\ DOMAIN n.entities \subseteq tracked' \cup left'.entities
    BY <1>7, CaughtKnows DEF Keeps, Untrack
  <2>4. n.dimension = dimension' /\ n.deaths = lives'.deaths /\ n.spawns = lives'.spawns
        /\ (n.alive <=> health' > 0) /\ (n.alive => n.spawned)
    BY <1>7, CaughtKnows DEF Told, Same, Untrack
  <2> QED BY <1>4, <2>1, <2>2, <2>3, <2>4, KnowsThen
<1> QED BY <1>2, <1>4, <1>6, <1>8, <1>9, SoundAfter DEF Inv

\* A change of health tells of a death when the player dies, and of no
\* other; only the dead are told that they spawn.
LEMMA Hurting ==
  ASSUME Inv, NEW h \in 0 .. MaxHealth, Hurt(h)
  PROVE  Inv'
<1> DEFINE p == [name |-> "set_health", health |-> h]
<1> PICK b : b = Caught OBVIOUS
<1> PICK n : n = HandleHealth(b, p) OBVIOUS
<1>0. Types /\ health \in Int /\ health >= 0 /\ h \in Int /\ h >= 0 BY BoundsAssumption DEF Inv, Types
<1>1. p \in ToBot BY DEF ToBot
<1>2. Tell(<<p>>) /\ bot' = bot BY DEF Hurt
<1>3. p.name = "set_health" /\ p.health = h OBVIOUS
<1> HIDE DEF p
<1>4. Caught' = n /\ toBot' \in Seq(ToBot)
  <2>1. n = Handle(b, p) BY <1>3, HandledAs
  <2> QED BY <1>0, <1>1, <1>2, <2>1, TellOne
<1>5. Sound(b) /\ DOMAIN b = BotFields /\ Told(b) BY CaughtKnows
<1>6. Sound(n)
  <2>1. n = Handle(b, p) BY <1>3, HandledAs
  <2> QED BY <1>1, <1>5, <2>1, HandledSound
<1>7. /\ n.dimension = b.dimension /\ n.columns = b.columns /\ n.entities = b.entities
      /\ n.alive <=> h > 0
      /\ n.spawned <=> b.spawned \/ h > 0
      /\ n.spawns = IF h > 0 /\ ~(b.spawned /\ b.alive) THEN b.spawns + 1 ELSE b.spawns
      /\ n.deaths = IF b.alive /\ h = 0 THEN b.deaths + 1 ELSE b.deaths
  BY <1>3, <1>5, HealthEffect
<1>8. lives \in [spawns : Nat, deaths : Nat] /\ health' = h /\ (health > 0 \/ h = health)
      /\ lives' = IF h = 0 /\ health > 0 THEN [lives EXCEPT !.deaths = lives.deaths + 1] ELSE lives
  BY <1>0 DEF Hurt, Types
<1>9. lives' \in [spawns : Nat, deaths : Nat]
  <2>1. lives.deaths + 1 \in Nat BY <1>8
  <2> QED BY <1>8, <2>1
<1>10. Types'
  <2>1. health' \in 0 .. MaxHealth BY <1>8
  <2> QED BY <1>0, <1>4, <1>9, <2>1 DEF Hurt, Types
<1>11. n.deaths = lives'.deaths /\ n.spawns = lives'.spawns
  <2>0. b.deaths = lives.deaths /\ b.spawns = lives.spawns /\ (b.alive <=> health > 0) /\ (b.alive => b.spawned)
    BY <1>5 DEF Told
  <2>1. CASE h = 0 /\ health > 0
    <3>1. lives'.deaths = lives.deaths + 1 /\ lives'.spawns = lives.spawns BY <1>8, <2>1
    <3> QED BY <1>0, <1>7, <2>0, <2>1, <3>1
  <2>2. CASE ~(h = 0 /\ health > 0)
    <3>1. lives' = lives BY <1>8, <2>2
    <3>2. h = 0 => health = 0 BY <1>0, <2>2
    <3>3. h > 0 => health > 0 BY <1>0, <1>8
    <3> QED BY <1>0, <1>7, <2>0, <3>1, <3>2, <3>3
  <2> QED BY <2>1, <2>2
<1>12. Knows(Caught)'
  <2>1. \A c \in view' : Levels[dimension'] = Levels[Home] =>
           c \in DOMAIN n.columns /\ n.columns[c] = world'[dimension'][c]
    BY <1>7, CaughtKnows DEF ShowsChunks, Hurt
  <2>2. \A f \in tracked' : f \in DOMAIN n.entities /\ n.entities[f] = entities'[f]
    BY <1>7, CaughtKnows DEF ShowsEntities, Hurt
  <2>3. DOMAIN n.columns \subseteq view' \cup left'.chunks /\ DOMAIN n.entities \subseteq tracked' \cup left'.entities
    BY <1>7, CaughtKnows DEF Keeps, Hurt
  <2>4. n.dimension = dimension' /\ (n.alive <=> health' > 0) /\ (n.alive => n.spawned)
    BY <1>7, <1>8, CaughtKnows DEF Hurt
  <2> QED BY <1>4, <1>11, <2>1, <2>2, <2>3, <2>4, KnowsThen
<1> QED BY <1>2, <1>4, <1>6, <1>10, <1>12, SoundAfter DEF Inv

\* One section of the world is another; the rest of it is as it was.
LEMMA WorldAfter ==
  ASSUME Types, NEW c \in Chunk, NEW l \in Levels[dimension], NEW section \in Section
  PROVE  LET w == [world EXCEPT ![dimension][c][l] = section] IN
         /\ DOMAIN w = Dimensions
         /\ \A d \in Dimensions : w[d] \in [Chunk -> [Levels[d] -> Section]]
         /\ w[dimension][c] = [world[dimension][c] EXCEPT ![l] = section]
         /\ \A e \in Chunk \ {c} : w[dimension][e] = world[dimension][e]
<1> DEFINE w == [world EXCEPT ![dimension][c][l] = section]
           column == [world[dimension][c] EXCEPT ![l] = section]
           chunks == [world[dimension] EXCEPT ![c] = column]
<1>0. /\ DOMAIN world = Dimensions /\ dimension \in Dimensions
      /\ \A d \in Dimensions : world[d] \in [Chunk -> [Levels[d] -> Section]]
  BY DEF Types
<1>1. world[dimension] \in [Chunk -> [Levels[dimension] -> Section]] BY <1>0
<1>2. world[dimension][c] \in [Levels[dimension] -> Section] BY <1>1
<1>3. column \in [Levels[dimension] -> Section] BY <1>2
<1>4. w = [world EXCEPT ![dimension] = chunks] OBVIOUS
<1> HIDE DEF w, column
<1>5. chunks \in [Chunk -> [Levels[dimension] -> Section]] BY <1>1, <1>3
<1>6. chunks[c] = column /\ \A e \in Chunk \ {c} : chunks[e] = world[dimension][e] BY <1>1
<1> HIDE DEF chunks
<1>7. DOMAIN w = Dimensions /\ w[dimension] = chunks
      /\ \A d \in Dimensions \ {dimension} : w[d] = world[d]
  BY <1>0, <1>4
<1>8. \A d \in Dimensions : w[d] \in [Chunk -> [Levels[d] -> Section]] BY <1>0, <1>5, <1>7
<1> QED BY <1>6, <1>7, <1>8 DEF column, w

\* The blocks that change are shown in chunks in view; the others are not
\* told of.
LEMMA Editing ==
  ASSUME Inv, NEW c \in Chunk, NEW l \in Levels[dimension], NEW section \in Section, Edit(c, l, section)
  PROVE  Inv'
<1> DEFINE old == world[dimension][c][l]
           changed == {i \in 1 .. 2 : old[i] # section[i]}
           news == {<<i, section[i]>> : i \in changed}
<1> PICK b : b = Caught OBVIOUS
<1>0. Types BY DEF Inv
<1>1. /\ dimension' = dimension /\ entities' = entities /\ view' = view /\ tracked' = tracked
      /\ left' = left /\ lives' = lives /\ health' = health /\ toServer' = toServer /\ bot' = bot
  BY DEF Edit
<1>2. PICK records \in [1 .. Cardinality(changed) -> news] :
        /\ Range(records) = news
        /\ Tell(IF c \notin view THEN <<>>
                ELSE <<[name |-> IF Len(records) = 1 THEN "block_update" ELSE "section_blocks_update",
                        chunk |-> c, level |-> l, records |-> records]>>)
  BY Zenon DEF Edit
<1>3. PICK w : w = world' OBVIOUS
<1>4. /\ DOMAIN w = Dimensions
      /\ \A d \in Dimensions : w[d] \in [Chunk -> [Levels[d] -> Section]]
      /\ w[dimension][c] = [world[dimension][c] EXCEPT ![l] = section]
      /\ \A e \in Chunk \ {c} : w[dimension][e] = world[dimension][e]
  <2>1. w = [world EXCEPT ![dimension][c][l] = section] BY <1>3 DEF Edit
  <2> QED BY <1>0, <2>1, WorldAfter
<1>5. old \in Section /\ l \in Int /\ dimension \in Dimensions /\ view \subseteq Chunk
  <2>1. dimension \in Dimensions /\ world[dimension] \in [Chunk -> [Levels[dimension] -> Section]]
    BY <1>0 DEF Types
  <2> QED BY <2>1, <1>0, LevelsAssumption DEF Types
<1>6. Sound(b) /\ DOMAIN b = BotFields BY CaughtKnows
<1>7. PICK n : /\ Caught' = n /\ toBot' \in Seq(ToBot) /\ Sound(n)
               /\ Same(b, n) /\ n.entities = b.entities /\ DOMAIN n.columns = DOMAIN b.columns
               /\ \A e \in DOMAIN b.columns \ {c} : n.columns[e] = b.columns[e]
               /\ c \in view /\ Levels[dimension] = Levels[Home] => n.columns[c] = w[dimension][c]
  <2>1. CASE c \notin view
    <3>1. toBot' = toBot BY <1>0, <1>2, <2>1, TellNothing
    <3>2. Caught' = b BY <1>1, <3>1 DEF Caught
    <3>3. toBot' \in Seq(ToBot) BY <1>0, <3>1 DEF Types
    <3> QED BY <1>6, <2>1, <3>2, <3>3 DEF Same
  <2>2. CASE c \in view
    <3> DEFINE name == IF Len(records) = 1 THEN "block_update" ELSE "section_blocks_update"
               p == [name |-> name, chunk |-> c, level |-> l, records |-> records]
    <3> PICK n : n = Handle(b, p) OBVIOUS
    <3>1. Cardinality(changed) \in Nat
      <4>0. PICK i \in Int, j \in Int : i = 1 /\ j = 2 OBVIOUS
      <4>1. IsFiniteSet(1 .. 2) BY <4>0, FS_Interval
      <4>2. IsFiniteSet(changed) BY <4>1, FS_Subset
      <4> HIDE DEF changed
      <4> QED BY <4>2, FS_CardinalityType
    <3>2. records \in Seq((1 .. 2) \X {s[i] : s \in Section, i \in 1 .. 2})
      <4> DEFINE Block == {s[i] : s \in Section, i \in 1 .. 2}
      <4>1. \A i \in 1 .. 2 : section[i] \in Block OBVIOUS
      <4> HIDE DEF Block
      <4>2. news \subseteq (1 .. 2) \X Block BY <4>1
      <4> HIDE DEF news
      <4>3. records \in [1 .. Cardinality(changed) -> (1 .. 2) \X Block] BY <4>2
      <4> HIDE DEF changed
      <4>4. records \in Seq((1 .. 2) \X Block) BY <3>1, <4>3
      <4> QED BY <4>4 DEF Block
    <3>3. p \in ToBot
      <4> HIDE DEF changed, news
      <4> QED BY <1>5, <3>2 DEF ToBot
    <3>4. Tell(<<p>>) BY <1>2, <2>2
    <3>5. p.name \in {"block_update", "section_blocks_update"} /\ p.chunk = c /\ p.level = l /\ p.records = records
      OBVIOUS
    <3> HIDE DEF p
    <3>6. Caught' = n /\ toBot' \in Seq(ToBot) BY <1>0, <1>1, <3>3, <3>4, TellOne
    <3>7. Sound(n) BY <1>6, <3>3, HandledSound
    <3>8. /\ Same(b, n) /\ n.entities = b.entities
          /\ DOMAIN n.columns = DOMAIN b.columns
          /\ \A e \in DOMAIN b.columns \ {c} : n.columns[e] = b.columns[e]
          /\ c \in DOMAIN b.columns /\ l \in DOMAIN b.columns[c] =>
               n.columns[c] = [b.columns[c] EXCEPT ![l] = Recorded(@, records)]
      <4>1. n = HandleRecords(b, p) BY <3>5, HandledAs
      <4> QED BY <3>5, <1>6, <4>1, RecordsEffect
    <3>9. ASSUME Levels[dimension] = Levels[Home] PROVE n.columns[c] = w[dimension][c]
      <4>1. c \in DOMAIN b.columns /\ b.columns[c] = world[dimension][c]
        BY <2>2, <3>9, CaughtKnows DEF ShowsChunks
      <4>2. world[dimension][c] \in [Levels[dimension] -> Section] BY <1>0, <1>5 DEF Types
      <4>3. n.columns[c] = [world[dimension][c] EXCEPT ![l] = Recorded(old, records)]
        BY <3>8, <4>1, <4>2
      <4>4. Recorded(old, records) = section
        <5> PICK m \in Nat : m = Cardinality(changed) BY <3>1
        <5> PICK moved : moved = changed OBVIOUS
        <5>1. PICK told : told = news OBVIOUS
        <5>2. records \in [1 .. m -> told] /\ Range(records) = told BY <1>2, <5>1
        <5>3. moved = {i \in 1 .. 2 : old[i] # section[i]} /\ told = {<<i, section[i]>> : i \in moved} BY <5>1
        <5> HIDE DEF old, changed, news
        <5> QED BY <1>5, <5>2, <5>3, RecordedIs
      <4> QED BY <1>4, <4>3, <4>4
    <3> QED BY <3>6, <3>7, <3>8, <3>9
  <2> QED BY <2>1, <2>2
<1>8. Types' BY <1>0, <1>1, <1>3, <1>4, <1>7 DEF Types
<1>9. Knows(Caught)'
  <2>1. ASSUME NEW e \in view', Levels[dimension'] = Levels[Home]
        PROVE  e \in DOMAIN n.columns /\ n.columns[e] = world'[dimension'][e]
    <3>1. e \in DOMAIN b.columns /\ b.columns[e] = world[dimension][e]
      BY <1>1, <2>1, CaughtKnows DEF ShowsChunks
    <3>2. CASE e = c BY <1>1, <1>3, <1>7, <2>1, <3>1, <3>2
    <3>3. CASE e # c
      <4>1. n.columns[e] = b.columns[e] BY <1>7, <3>1, <3>3
      <4>2. w[dimension][e] = world[dimension][e] BY <1>1, <1>4, <1>5, <3>3
      <4> QED BY <1>1, <1>3, <1>7, <3>1, <4>1, <4>2
    <3> QED BY <3>2, <3>3
  <2>2. \A f \in tracked' : f \in DOMAIN n.entities /\ n.entities[f] = entities'[f]
    BY <1>1, <1>7, CaughtKnows DEF ShowsEntities
  <2>3. DOMAIN n.columns \subseteq view' \cup left'.chunks /\ DOMAIN n.entities \subseteq tracked' \cup left'.entities
    BY <1>1, <1>7, CaughtKnows DEF Keeps
  <2>4. n.dimension = dimension' /\ n.deaths = lives'.deaths /\ n.spawns = lives'.spawns
        /\ (n.alive <=> health' > 0) /\ (n.alive => n.spawned)
    BY <1>1, <1>7, CaughtKnows DEF Told, Same
  <2> QED BY <1>7, <2>1, <2>2, <2>3, <2>4, KnowsThen
<1> QED BY <1>1, <1>7, <1>8, <1>9, SoundAfter DEF Inv

\* What is in view when the player leaves is what it has left.
LEMMA Leaving ==
  ASSUME Inv, NEW d \in Dimensions, Leave(d)
  PROVE  /\ dimension' = d /\ view' = {} /\ tracked' = {}
         /\ left' \in [chunks : SUBSET Chunk, entities : SUBSET Entity]
         /\ left'.chunks = left.chunks \cup view /\ left'.entities = left.entities \cup tracked
<1>1. left \in [chunks : SUBSET Chunk, entities : SUBSET Entity] /\ view \subseteq Chunk /\ tracked \subseteq Entity
  BY DEF Inv, Types
<1>2. left' = [chunks |-> left.chunks \cup view, entities |-> left.entities \cup tracked] BY DEF Leave
<1>3. left.chunks \cup view \in SUBSET Chunk /\ left.entities \cup tracked \in SUBSET Entity BY <1>1
<1> QED BY <1>2, <1>3 DEF Leave

\* What was in view is left: the bot goes on showing it.
LEMMA ChangingDimension ==
  ASSUME Inv, NEW d \in Dimensions, ChangeDimension(d)
  PROVE  Inv'
<1> DEFINE p == [name |-> "respawn", dimension |-> d]
<1> PICK b : b = Caught OBVIOUS
<1> PICK n : n = EnterDimension(b, p) OBVIOUS
<1>0. Types BY DEF Inv
<1>1. p \in ToBot BY DEF ToBot
<1>2. Tell(<<p>>) /\ bot' = bot BY DEF ChangeDimension
<1>3. p.name = "respawn" /\ p.dimension = d OBVIOUS
<1> HIDE DEF p
<1>4. Handle(b, p) = n BY <1>3, HandledAs
<1>5. Caught' = n /\ toBot' \in Seq(ToBot) BY <1>0, <1>1, <1>2, <1>4, TellOne
<1>6. Sound(b) /\ DOMAIN b = BotFields BY CaughtKnows
<1>7. Sound(n) BY <1>1, <1>4, <1>6, HandledSound
<1>8. /\ n.dimension = d /\ n.columns = b.columns /\ n.entities = b.entities
      /\ n.alive = b.alive /\ n.spawned = b.spawned /\ n.spawns = b.spawns /\ n.deaths = b.deaths
  BY <1>3, <1>6, EnterEffect
<1>9. /\ dimension' = d /\ view' = {} /\ tracked' = {}
      /\ left' \in [chunks : SUBSET Chunk, entities : SUBSET Entity]
      /\ left'.chunks = left.chunks \cup view /\ left'.entities = left.entities \cup tracked
  BY Leaving DEF ChangeDimension
<1>10. Types' BY <1>0, <1>5, <1>9 DEF ChangeDimension, Types
<1>11. Knows(Caught)'
  <2>1. DOMAIN n.columns \subseteq view' \cup left'.chunks /\ DOMAIN n.entities \subseteq tracked' \cup left'.entities
    BY <1>8, <1>9, CaughtKnows DEF Keeps
  <2>2. n.deaths = lives'.deaths /\ n.spawns = lives'.spawns
        /\ (n.alive <=> health' > 0) /\ (n.alive => n.spawned)
    BY <1>8, CaughtKnows DEF Told, ChangeDimension
  <2> QED BY <1>5, <1>8, <1>9, <2>1, <2>2, KnowsThen
<1> QED BY <1>2, <1>5, <1>7, <1>10, <1>11, SoundAfter DEF Inv

\* The dead player is put into its home dimension, alive.
LEMMA ComingBack ==
  ASSUME Inv, TakePacket, Head(toServer) = "client_command", health = 0
  PROVE  Inv'
<1> DEFINE p == [name |-> "respawn", dimension |-> Home]
           q == [name |-> "set_health", health |-> MaxHealth]
<1> PICK b : b = Caught OBVIOUS
<1> PICK m : m = EnterDimension(b, p) OBVIOUS
<1> PICK n : n = HandleHealth(m, q) OBVIOUS
<1>0. Types /\ Home \in Dimensions /\ MaxHealth \in Nat \ {0} /\ MaxHealth \in 0 .. MaxHealth
  BY LevelsAssumption, BoundsAssumption DEF Inv
<1>1. p \in ToBot /\ q \in ToBot BY <1>0 DEF ToBot
<1>2. /\ Leave(Home) /\ Tell(<<p, q>>) /\ bot' = bot /\ health' = MaxHealth
      /\ lives' = [lives EXCEPT !.spawns = @ + 1]
      /\ world' = world /\ entities' = entities /\ toServer' = Tail(toServer)
  BY DEF TakePacket
<1>3. p.name = "respawn" /\ p.dimension = Home /\ q.name = "set_health" /\ q.health = MaxHealth OBVIOUS
<1> HIDE DEF p, q
<1>4. Handle(b, p) = m /\ Handle(m, q) = n BY <1>3, HandledAs
<1>5. Caught' = n /\ toBot' \in Seq(ToBot) BY <1>0, <1>1, <1>2, <1>4, TellTwo
<1>6. Sound(b) /\ DOMAIN b = BotFields /\ Told(b) BY CaughtKnows
<1>7. Sound(m) /\ Sound(n)
  <2>1. Sound(m) BY <1>1, <1>4, <1>6, HandledSound
  <2> QED BY <2>1, <1>1, <1>4, HandledSound
<1>8. /\ m.dimension = Home /\ m.columns = b.columns /\ m.entities = b.entities
      /\ m.alive = b.alive /\ m.spawned = b.spawned /\ m.spawns = b.spawns /\ m.deaths = b.deaths
  BY <1>3, <1>6, EnterEffect
<1>9. /\ n.dimension = m.dimension /\ n.columns = m.columns /\ n.entities = m.entities
      /\ n.alive <=> MaxHealth > 0
      /\ n.spawned <=> m.spawned \/ MaxHealth > 0
      /\ n.spawns = IF MaxHealth > 0 /\ ~(m.spawned /\ m.alive) THEN m.spawns + 1 ELSE m.spawns
      /\ n.deaths = IF m.alive /\ MaxHealth = 0 THEN m.deaths + 1 ELSE m.deaths
  BY <1>0, <1>3, <1>7, HealthEffect
<1>10. MaxHealth > 0 /\ MaxHealth # 0 /\ ~(health > 0) BY <1>0
<1>11. b.deaths = lives.deaths /\ b.spawns = lives.spawns /\ ~b.alive
  <2>1. b.deaths = lives.deaths /\ b.spawns = lives.spawns /\ (b.alive <=> health > 0) BY <1>6 DEF Told
  <2> QED BY <1>10, <2>1
<1>12. lives' \in [spawns : Nat, deaths : Nat] /\ lives'.spawns = lives.spawns + 1 /\ lives'.deaths = lives.deaths
  <2>1. lives \in [spawns : Nat, deaths : Nat] BY <1>0 DEF Types
  <2>2. lives.spawns + 1 \in Nat BY <2>1
  <2> QED BY <1>2, <2>1, <2>2
<1>13. /\ dimension' = Home /\ view' = {} /\ tracked' = {}
       /\ left' \in [chunks : SUBSET Chunk, entities : SUBSET Entity]
       /\ left'.chunks = left.chunks \cup view /\ left'.entities = left.entities \cup tracked
  BY <1>0, <1>2, Leaving
<1>14. Types'
  <2>1. toServer' \in Seq(ToServer)
    <3>1. toServer \in Seq(ToServer) /\ toServer # <<>> BY <1>0 DEF Types, TakePacket
    <3> QED BY <1>2, <3>1
  <2>2. health' \in 0 .. MaxHealth BY <1>0, <1>2
  <2> QED BY <1>0, <1>2, <1>5, <1>12, <1>13, <2>1, <2>2 DEF Types
<1>15. Knows(Caught)'
  <2>1. DOMAIN n.columns \subseteq view' \cup left'.chunks /\ DOMAIN n.entities \subseteq tracked' \cup left'.entities
    BY <1>8, <1>9, <1>13, CaughtKnows DEF Keeps
  <2>2. n.deaths = lives'.deaths BY <1>8, <1>9, <1>10, <1>11, <1>12
  <2>3. n.spawns = lives'.spawns BY <1>8, <1>9, <1>10, <1>11, <1>12
  <2>4. (n.alive <=> health' > 0) /\ (n.alive => n.spawned)
    BY <1>2, <1>9, <1>10
  <2> QED BY <1>5, <1>8, <1>9, <1>13, <2>1, <2>2, <2>3, <2>4, KnowsThen
<1> QED BY <1>2, <1>5, <1>7, <1>14, <1>15, SoundAfter DEF Inv

\* Where neither the game nor what the bot is told of it changes.
LEMMA NothingTold ==
  ASSUME Inv, UNCHANGED <<dimension, world, health, entities, view, tracked, lives, left, toBot, bot>>,
         toServer' \in Seq(ToServer)
  PROVE  Inv'
<1>0. Types /\ Sound(bot) /\ Sound(Caught) /\ Knows(Caught) BY DEF Inv
<1>1. Types' BY <1>0 DEF Types
<1>2. Caught' = Caught BY DEF Caught
<1>3. Sound(bot)' /\ Sound(Caught)' BY <1>0, <1>2 DEF Sound
<1>4. Knows(Caught)' BY <1>0, <1>2 DEF Knows, ShowsChunks, ShowsEntities, Keeps, Told
<1> QED BY <1>1, <1>3, <1>4 DEF Inv

\* What the server does with a message of the bot.
LEMMA Taking ==
  ASSUME Inv, TakePacket
  PROVE  Inv'
<1>1. CASE Head(toServer) = "client_command" /\ health = 0
  BY <1>1, ComingBack
<1>2. CASE ~(Head(toServer) = "client_command" /\ health = 0)
  <2>1. toServer \in Seq(ToServer) /\ toServer # <<>> /\ toServer' = Tail(toServer) BY DEF Inv, Types, TakePacket
  <2>2. toServer' \in Seq(ToServer) BY <2>1
  <2> QED BY <1>2, <2>2, NothingTold DEF TakePacket
<1> QED BY <1>1, <1>2

\* The bot asks for a respawn: nothing that it shows changes.
LEMMA Responding ==
  ASSUME Inv, Respawn
  PROVE  Inv'
<1>1. toServer \in Seq(ToServer) BY DEF Inv, Types
<1>2. "client_command" \in ToServer BY DEF ToServer
<1>3. toServer' \in Seq(ToServer) BY <1>1, <1>2 DEF Respawn
<1> QED BY <1>3, NothingTold DEF Respawn, server

\* The player that joins: as alive as the bot will find it.
LEMMA Joining ==
  ASSUME Init
  PROVE  Inv
<1> DEFINE p == [name |-> "login", dimension |-> Home]
           q == [name |-> "set_health", health |-> health]
<1> PICK b : b = bot OBVIOUS
<1> PICK m : m = EnterDimension(b, p) OBVIOUS
<1> PICK n : n = HandleHealth(m, q) OBVIOUS
<1>0. /\ Home \in Dimensions /\ MaxHealth \in Nat \ {0} /\ dimension = Home
      /\ health \in {0, MaxHealth} /\ health \in 0 .. MaxHealth
  BY LevelsAssumption, BoundsAssumption DEF Init
<1>1. p \in ToBot /\ q \in ToBot BY <1>0 DEF ToBot
<1>2. toBot = <<p, q>> /\ <<>> \in Seq(ToBot) /\ toBot = Append(Append(<<>>, p), q) BY <1>0 DEF Init
<1>3. p.name = "login" /\ p.dimension = Home /\ q.name = "set_health" /\ q.health = health OBVIOUS
<1> HIDE DEF p, q
<1>4. toBot \in Seq(ToBot) /\ Append(<<>>, p) \in Seq(ToBot) BY <1>1, <1>2
<1>5. Caught = n
  <2>1. PICK none \in Seq(ToBot) : none = <<>> BY <1>2
  <2>2. PICK one \in Seq(ToBot) : one = Append(none, p) BY <1>4, <2>1
  <2>3. Learned(b, none) = b
    <3>1. Len(none) = 0 BY <2>1
    <3> QED BY <3>1, LearnedNothing
  <2>4. Learned(b, Append(none, p)) = Handle(b, p) BY <1>1, <2>3, LearnedMore
  <2>5. Learned(b, Append(one, q)) = Handle(Learned(b, one), q) BY <1>1, LearnedMore
  <2>6. Learned(b, toBot) = Handle(Handle(b, p), q) BY <1>2, <2>1, <2>2, <2>4, <2>5
  <2>7. Handle(b, p) = m /\ Handle(m, q) = n BY <1>3, HandledAs
  <2> QED BY <2>6, <2>7 DEF Caught
<1>6. /\ DOMAIN b = BotFields /\ b.dimension = Home /\ DOMAIN b.columns = {} /\ DOMAIN b.entities = {}
      /\ b.health = MaxHealth /\ b.alive = TRUE /\ b.spawned = FALSE /\ b.spawns = 0 /\ b.deaths = 0
  BY DEF Init, BotFields
<1>7. Sound(b)
  <2>1. MaxHealth \in 0 .. MaxHealth BY <1>0
  <2> QED BY <1>0, <1>6, <2>1 DEF Sound
<1>8. Sound(m) /\ Sound(n)
  <2>1. Sound(m)
    <3>1. Handle(b, p) = m BY <1>3, HandledAs
    <3> QED BY <1>1, <1>7, <3>1, HandledSound
  <2>2. Handle(m, q) = n BY <1>3, HandledAs
  <2> QED BY <2>1, <2>2, <1>1, HandledSound
<1>9. /\ m.dimension = Home /\ m.columns = b.columns /\ m.entities = b.entities
      /\ m.alive = b.alive /\ m.spawned = b.spawned /\ m.spawns = b.spawns /\ m.deaths = b.deaths
  BY <1>3, <1>6, EnterEffect
<1>10. /\ n.dimension = m.dimension /\ n.columns = m.columns /\ n.entities = m.entities
       /\ n.alive <=> health > 0
       /\ n.spawned <=> m.spawned \/ health > 0
       /\ n.spawns = IF health > 0 /\ ~(m.spawned /\ m.alive) THEN m.spawns + 1 ELSE m.spawns
       /\ n.deaths = IF m.alive /\ health = 0 THEN m.deaths + 1 ELSE m.deaths
  BY <1>0, <1>3, <1>8, HealthEffect
<1>11. /\ view = {} /\ tracked = {} /\ left = [chunks |-> {}, entities |-> {}]
       /\ lives = IF health = 0 THEN [spawns |-> 0, deaths |-> 1] ELSE [spawns |-> 1, deaths |-> 0]
  BY DEF Init
<1>12. Types
  <2>1. (CHOOSE section \in Section : TRUE) \in Section BY SectionAssumption
  <2>2. DOMAIN world = Dimensions /\ \A d \in Dimensions : world[d] \in [Chunk -> [Levels[d] -> Section]]
    BY <2>1 DEF Init
  <2>3. entities \in [Entity -> Int] /\ toServer \in Seq(ToServer) BY DEF Init
  <2>4. lives \in [spawns : Nat, deaths : Nat] BY <1>11
  <2>5. left \in [chunks : SUBSET Chunk, entities : SUBSET Entity] BY <1>11
  <2> QED BY <1>0, <1>4, <1>11, <2>2, <2>3, <2>4, <2>5 DEF Types
<1>13. Told(n)
  <2>1. CASE health = 0
    <3>1. ~(health > 0) BY <2>1
    <3>2. lives.spawns = 0 /\ lives.deaths = 1 BY <1>11, <2>1
    <3>3. n.deaths = 1 BY <1>6, <1>9, <1>10, <2>1
    <3> QED BY <1>6, <1>9, <1>10, <3>1, <3>2, <3>3 DEF Told
  <2>2. CASE health # 0
    <3>1. health > 0 BY <1>0, <2>2
    <3>2. lives.spawns = 1 /\ lives.deaths = 0 BY <1>11, <2>2
    <3>3. n.spawns = 1 BY <1>6, <1>9, <1>10, <3>1
    <3> QED BY <1>6, <1>9, <1>10, <2>2, <3>1, <3>2, <3>3 DEF Told
  <2> QED BY <2>1, <2>2
<1>14. Knows(n)
  BY <1>0, <1>6, <1>9, <1>10, <1>11, <1>13 DEF Knows, ShowsChunks, ShowsEntities, Keeps
<1> QED BY <1>5, <1>7, <1>8, <1>12, <1>14 DEF Inv

-----------------------------------------------------------------------------
(* The batches that are not acknowledged: each is on its way to the bot,   *)
(* or its acknowledgement is on its way back.                              *)

\* Where a sequence has one of S.
Places(q, S) == {k \in 1 .. Len(q) : q[k] \in S}
Count(q, S) == Cardinality(Places(q, S))

BatchEnds == [name : {"chunk_batch_finished"}]
Received == {"chunk_batch_received"}
Counted ==
  /\ batches \in 0 .. MaxBatches
  /\ batches = Count(toBot, BatchEnds) + Count(toServer, Received)

\* Counts are natural numbers.
LEMMA CountType ==
  ASSUME NEW T, NEW q \in Seq(T), NEW S
  PROVE  IsFiniteSet(Places(q, S)) /\ Count(q, S) \in Nat
<1>1. PICK i \in Int, n \in Int : i = 1 /\ n = Len(q) BY LenProperties
<1>2. IsFiniteSet(1 .. Len(q)) BY <1>1, FS_Interval
<1>3. IsFiniteSet(Places(q, S)) BY <1>2, FS_Subset DEF Places
<1> QED BY <1>3, FS_CardinalityType DEF Count

\* Nothing is counted in an empty sequence.
LEMMA CountNothing ==
  ASSUME NEW S
  PROVE  Count(<<>>, S) = 0
<1>1. Places(<<>>, S) = {} BY DEF Places
<1> QED BY <1>1, FS_EmptySet DEF Count

\* A count grows with the element that is appended.
LEMMA CountAppend ==
  ASSUME NEW T, NEW q \in Seq(T), NEW p, NEW S
  PROVE  Count(Append(q, p), S) = Count(q, S) + (IF p \in S THEN 1 ELSE 0)
<1>1. PICK n \in Nat : n = Len(q) BY LenProperties
<1>2. Len(Append(q, p)) = n + 1 /\ Append(q, p)[n + 1] = p /\ \A k \in 1 .. n : Append(q, p)[k] = q[k]
  <2>1. q \in Seq(T \cup {p}) /\ p \in T \cup {p} OBVIOUS
  <2> QED BY <1>1, <2>1, AppendProperties
<1>3. PICK more : more = Append(q, p) OBVIOUS
<1>4. Places(more, S) = IF p \in S THEN Places(q, S) \cup {n + 1} ELSE Places(q, S)
  <2>1. 1 .. n + 1 = (1 .. n) \cup {n + 1} OBVIOUS
  <2> QED BY <1>1, <1>2, <1>3, <2>1 DEF Places
<1>5. n + 1 \notin Places(q, S) BY <1>1 DEF Places
<1>6. IsFiniteSet(Places(q, S)) /\ Count(q, S) \in Nat BY CountType
<1>7. PICK m : m = n + 1 OBVIOUS
<1>8. Cardinality(Places(q, S) \cup {m}) = Count(q, S) + 1
  BY <1>5, <1>6, <1>7, FS_AddElement DEF Count
<1> QED BY <1>3, <1>4, <1>6, <1>7, <1>8 DEF Count

\* A count shrinks with the element that is taken.
LEMMA CountTail ==
  ASSUME NEW T, NEW q \in Seq(T), q # <<>>, NEW S
  PROVE  Count(q, S) = Count(Tail(q), S) + (IF Head(q) \in S THEN 1 ELSE 0)
<1>1. PICK n \in Nat : n + 1 = Len(q)
  <2>1. Len(q) \in Nat /\ Len(q) # 0 BY EmptySeq, LenProperties
  <2> QED BY <2>1
<1>2. PICK rest : rest = Tail(q) OBVIOUS
<1>3. Len(rest) = n /\ \A k \in 1 .. n : rest[k] = q[k + 1]
  BY <1>1, <1>2, HeadTailProperties
<1>4. Head(q) = q[1] OBVIOUS
<1> DEFINE later == {k \in 2 .. n + 1 : q[k] \in S}
           f == [k \in Places(rest, S) |-> k + 1]
<1>5. f \in Bijection(Places(rest, S), later)
  <2>1. \A k \in Places(rest, S) : k + 1 \in later /\ k \in 1 .. n BY <1>3 DEF Places
  <2>2. f \in [Places(rest, S) -> later]
    <3> HIDE DEF later
    <3> QED BY <2>1
  <2>3. \A j, k \in Places(rest, S) : f[j] = f[k] => j = k BY <2>1
  <2>4. \A m \in later : \E k \in Places(rest, S) : f[k] = m
    <3> TAKE m \in later
    <3>1. m - 1 \in 1 .. n /\ (m - 1) + 1 = m OBVIOUS
    <3>2. m - 1 \in Places(rest, S) BY <1>3, <3>1 DEF Places
    <3> QED BY <3>1, <3>2
  <2> HIDE DEF later, f
  <2> QED BY <2>2, <2>3, <2>4 DEF Bijection, Injection, IsInjective, Surjection
<1>6. rest \in Seq(T) BY <1>2, HeadTailProperties
<1>7. IsFiniteSet(Places(rest, S)) /\ Count(rest, S) \in Nat BY <1>6, CountType
<1>8. IsFiniteSet(later) /\ Cardinality(later) = Count(rest, S)
  <2> HIDE DEF later, f
  <2>1. ExistsBijection(Places(rest, S), later) BY <1>5 DEF ExistsBijection
  <2> QED BY <1>7, <2>1, FS_Bijection DEF Count
<1>9. Places(q, S) = IF q[1] \in S THEN later \cup {1} ELSE later
  <2>1. 1 .. n + 1 = {1} \cup (2 .. n + 1) OBVIOUS
  <2> QED BY <1>1, <2>1 DEF Places
<1>10. 1 \notin later OBVIOUS
<1>11. PICK i : i = 1 OBVIOUS
<1>12. Cardinality(later \cup {i}) = Cardinality(later) + 1
  <2>1. i \notin later BY <1>10, <1>11
  <2> HIDE DEF later
  <2> QED BY <1>8, <2>1, FS_AddElement
<1> HIDE DEF later
<1> QED BY <1>2, <1>4, <1>7, <1>8, <1>9, <1>11, <1>12 DEF Count

\* What is told, one packet or two, is counted.
LEMMA CountsOne ==
  ASSUME Types, NEW p, Tell(<<p>>)
  PROVE  Count(toBot', BatchEnds) = Count(toBot, BatchEnds) + (IF p \in BatchEnds THEN 1 ELSE 0)
<1>1. toBot \in Seq(ToBot) BY DEF Types
<1>2. toBot' = Append(toBot, p) BY <1>1 DEF Tell
<1> QED BY <1>1, <1>2, CountAppend

\* Of two packets, the second may end a batch.
LEMMA CountsTwo ==
  ASSUME Types, NEW p \in ToBot, NEW q \in ToBot, Tell(<<p, q>>), p \notin BatchEnds
  PROVE  Count(toBot', BatchEnds) = Count(toBot, BatchEnds) + (IF q \in BatchEnds THEN 1 ELSE 0)
<1>1. toBot \in Seq(ToBot) BY DEF Types
<1>2. PICK told \in Seq(ToBot) : told = Append(toBot, p)
  <2>1. Append(toBot, p) \in Seq(ToBot) BY <1>1
  <2> QED BY <2>1
<1>3. toBot' = Append(told, q)
  <2>1. toBot \o <<p, q>> = Append(Append(toBot, p), q) BY <1>1
  <2> QED BY <1>2, <2>1 DEF Tell
<1>4. Count(toBot, BatchEnds) \in Nat BY <1>1, CountType
<1>5. Count(Append(toBot, p), BatchEnds) = Count(toBot, BatchEnds) + (IF p \in BatchEnds THEN 1 ELSE 0)
  BY <1>1, CountAppend
<1>6. Count(told, BatchEnds) = Count(toBot, BatchEnds) BY <1>2, <1>4, <1>5
<1>7. Count(Append(told, q), BatchEnds) = Count(told, BatchEnds) + (IF q \in BatchEnds THEN 1 ELSE 0)
  BY <1>2, CountAppend
<1> QED BY <1>3, <1>6, <1>7

\* No batch is on its way at first.
LEMMA CountedAtFirst ==
  ASSUME Init
  PROVE  Counted
<1> DEFINE p == [name |-> "login", dimension |-> Home]
           q == [name |-> "set_health", health |-> health]
<1>1. Types BY Joining DEF Inv
<1>2. toBot = <<p, q>> /\ toServer = <<>> /\ batches = 0 BY DEF Init
<1>3. Places(toBot, BatchEnds) = {}
  <2>1. p.name # "chunk_batch_finished" /\ q.name # "chunk_batch_finished" OBVIOUS
  <2>2. Len(toBot) = 2 /\ toBot[1] = p /\ toBot[2] = q BY <1>2
  <2> HIDE DEF p, q
  <2>3. toBot[1] \notin BatchEnds /\ toBot[2] \notin BatchEnds BY <2>1, <2>2 DEF BatchEnds
  <2> QED BY <2>2, <2>3 DEF Places
<1>4. Count(toBot, BatchEnds) = 0 BY <1>3, FS_EmptySet DEF Count
<1>5. Count(toServer, Received) = 0 BY <1>2, CountNothing
<1> QED BY <1>2, <1>4, <1>5, BoundsAssumption DEF Counted

\* A step that tells one packet, and not the end of a batch.
LEMMA CountedTelling ==
  ASSUME Inv, Counted, NEW p, p.name # "chunk_batch_finished", Tell(<<p>>),
         UNCHANGED <<batches, toServer>>
  PROVE  Counted'
<1>1. Types /\ p \notin BatchEnds BY DEF Inv, BatchEnds
<1>2. toBot \in Seq(ToBot) BY <1>1 DEF Types
<1>3. Count(toBot, BatchEnds) \in Nat BY <1>2, CountType
<1>4. Count(toBot', BatchEnds) = Count(toBot, BatchEnds) BY <1>1, <1>3, CountsOne
<1>5. Count(toBot, BatchEnds)' = Count(toBot, BatchEnds) BY <1>4 DEF Count, Places, BatchEnds
<1>6. Count(toServer, Received)' = Count(toServer, Received) BY DEF Count, Places
<1> QED BY <1>5, <1>6 DEF Counted

\* A batch sent is a batch not acknowledged.
LEMMA CountedSending ==
  ASSUME Inv, Counted, NEW c \in Chunk, SendChunk(c)
  PROVE  Counted'
<1> DEFINE data == Data(dimension, c)
           p == [name |-> "level_chunk_with_light", chunk |-> c, data |-> data]
           q == [name |-> "chunk_batch_finished"]
<1>0. Types BY DEF Inv
<1>1. data \in Seq(Section) BY <1>0, DataType DEF Types
<1>2. p \in ToBot /\ q \in ToBot
  <2> HIDE DEF data
  <2> QED BY <1>1 DEF ToBot
<1>3. Tell(<<p, q>>) BY DEF SendChunk
<1>4. p.name # "chunk_batch_finished" /\ q.name = "chunk_batch_finished" OBVIOUS
<1> HIDE DEF p, q
<1>5. p \notin BatchEnds /\ q \in BatchEnds BY <1>4 DEF BatchEnds, q
<1>6. Count(toBot', BatchEnds) = Count(toBot, BatchEnds) + 1
  <2>1. Count(toBot', BatchEnds) = Count(toBot, BatchEnds) + (IF q \in BatchEnds THEN 1 ELSE 0)
    BY <1>0, <1>2, <1>3, <1>5, CountsTwo
  <2> QED BY <1>5, <2>1
<1>7. Count(toBot, BatchEnds)' = Count(toBot', BatchEnds) BY DEF Count, Places, BatchEnds
<1>8. Count(toServer, Received)' = Count(toServer, Received) BY DEF Count, Places, SendChunk
<1>9. Count(toBot, BatchEnds) \in Nat /\ Count(toServer, Received) \in Nat BY <1>0, CountType DEF Types
<1>10. batches' = batches + 1 /\ batches < MaxBatches /\ MaxBatches \in Nat BY BoundsAssumption DEF SendChunk
<1> QED BY <1>6, <1>7, <1>8, <1>9, <1>10 DEF Counted

\* The bot acknowledges the end of a batch when it handles it.
LEMMA CountedHandling ==
  ASSUME Inv, Counted, HandlePacket
  PROVE  Counted'
<1>1. toBot \in Seq(ToBot) /\ toBot # <<>> /\ toServer \in Seq(ToServer) BY DEF Inv, Types, HandlePacket
<1>2. PICK p \in ToBot : p = Head(toBot) BY <1>1, HeadTailProperties
<1>3. Tail(toBot) \in Seq(ToBot) BY <1>1, HeadTailProperties
<1>4. /\ Count(toBot, BatchEnds) \in Nat /\ Count(Tail(toBot), BatchEnds) \in Nat
      /\ Count(toServer, Received) \in Nat
  BY <1>1, <1>3, CountType
<1>5. Count(toBot, BatchEnds) = Count(Tail(toBot), BatchEnds) + (IF p \in BatchEnds THEN 1 ELSE 0)
  BY <1>1, <1>2, CountTail
<1>6. Count(toBot, BatchEnds)' = Count(Tail(toBot), BatchEnds) BY DEF Count, Places, BatchEnds, HandlePacket
<1>7. p \in BatchEnds <=> p.name = "chunk_batch_finished" BY DEF ToBot, BatchEnds
<1>8. toServer' = toServer \o Answers(p) /\ batches' = batches BY <1>2 DEF HandlePacket, server
<1>9. Count(toServer', Received) = Count(toServer, Received) + (IF p.name = "chunk_batch_finished" THEN 1 ELSE 0)
  <2>0. "chunk_batch_received" \in ToServer /\ "settings" \in ToServer
        /\ "chunk_batch_received" \in Received /\ "settings" \notin Received
    BY DEF ToServer, Received
  <2>1. CASE p.name = "chunk_batch_finished"
    <3>1. toServer' = Append(toServer, "chunk_batch_received") BY <1>1, <1>8, <2>1 DEF Answers
    <3>2. Count(Append(toServer, "chunk_batch_received"), Received)
            = Count(toServer, Received) + (IF "chunk_batch_received" \in Received THEN 1 ELSE 0)
      BY <1>1, <2>0, CountAppend
    <3> QED BY <2>0, <2>1, <3>1, <3>2
  <2>2. CASE p.name = "login"
    <3>1. toServer' = Append(toServer, "settings") BY <1>1, <1>8, <2>2 DEF Answers
    <3>2. Count(Append(toServer, "settings"), Received)
            = Count(toServer, Received) + (IF "settings" \in Received THEN 1 ELSE 0)
      BY <1>1, <2>0, CountAppend
    <3> QED BY <1>4, <2>0, <2>2, <3>1, <3>2
  <2>3. CASE p.name # "login" /\ p.name # "chunk_batch_finished"
    <3>1. toServer' = toServer BY <1>1, <1>8, <2>3 DEF Answers
    <3> QED BY <1>4, <2>3, <3>1
  <2> QED BY <2>1, <2>2, <2>3
<1>10. Count(toServer, Received)' = Count(toServer', Received) BY DEF Count, Places, Received
<1> QED BY <1>4, <1>5, <1>6, <1>7, <1>8, <1>9, <1>10 DEF Counted

\* The server counts the acknowledgement that it takes.
LEMMA CountedTaking ==
  ASSUME Inv, Counted, TakePacket
  PROVE  Counted'
<1>1. Types /\ toServer \in Seq(ToServer) /\ toServer # <<>> /\ toBot \in Seq(ToBot)
  BY DEF Inv, Types, TakePacket
<1>2. /\ Count(toServer, Received) = Count(Tail(toServer), Received) + (IF Head(toServer) \in Received THEN 1 ELSE 0)
  BY <1>1, CountTail
<1>3. Count(toServer, Received)' = Count(Tail(toServer), Received) BY DEF Count, Places, Received, TakePacket
<1>4. Tail(toServer) \in Seq(ToServer) BY <1>1
<1>5. /\ Count(Tail(toServer), Received) \in Nat /\ Count(toBot, BatchEnds) \in Nat
  BY <1>1, <1>4, CountType
<1>6. batches' = IF Head(toServer) \in Received THEN batches - 1 ELSE batches BY DEF TakePacket, Received
<1>7. Count(toBot, BatchEnds)' = Count(toBot, BatchEnds)
  <2>1. CASE Head(toServer) = "client_command" /\ health = 0
    <3> DEFINE p == [name |-> "respawn", dimension |-> Home]
               q == [name |-> "set_health", health |-> MaxHealth]
    <3>1. p \in ToBot /\ q \in ToBot
      <4>1. Home \in Dimensions /\ MaxHealth \in 0 .. MaxHealth BY LevelsAssumption, BoundsAssumption
      <4> QED BY <4>1 DEF ToBot
    <3>2. Tell(<<p, q>>) BY <2>1 DEF TakePacket
    <3>3. p.name # "chunk_batch_finished" /\ q.name # "chunk_batch_finished" OBVIOUS
    <3> HIDE DEF p, q
    <3>4. p \notin BatchEnds /\ q \notin BatchEnds BY <3>3 DEF BatchEnds
    <3>5. Count(toBot', BatchEnds) = Count(toBot, BatchEnds) + (IF q \in BatchEnds THEN 1 ELSE 0)
      BY <1>1, <3>1, <3>2, <3>4, CountsTwo
    <3>6. Count(toBot, BatchEnds)' = Count(toBot', BatchEnds) BY DEF Count, Places, BatchEnds
    <3> QED BY <1>5, <3>4, <3>5, <3>6
  <2>2. CASE ~(Head(toServer) = "client_command" /\ health = 0)
    <3>1. toBot' = toBot BY <2>2 DEF TakePacket
    <3> QED BY <3>1 DEF Count, Places, BatchEnds
  <2> QED BY <2>1, <2>2
<1> QED BY <1>2, <1>3, <1>5, <1>6, <1>7, BoundsAssumption DEF Counted

\* A request to respawn is no acknowledgement.
LEMMA CountedResponding ==
  ASSUME Inv, Counted, Respawn
  PROVE  Counted'
<1>1. toServer \in Seq(ToServer) BY DEF Inv, Types
<1>2. "client_command" \in ToServer /\ "client_command" \notin Received BY DEF ToServer, Received
<1>3. Count(Append(toServer, "client_command"), Received)
        = Count(toServer, Received) + (IF "client_command" \in Received THEN 1 ELSE 0)
  BY <1>1, <1>2, CountAppend
<1>4. Count(toServer, Received) \in Nat BY <1>1, CountType
<1>5. Count(toServer, Received)' = Count(toServer, Received)
  <2>1. Count(toServer, Received)' = Count(toServer', Received) BY DEF Count, Places, Received
  <2>2. toServer' = Append(toServer, "client_command") BY DEF Respawn
  <2> QED BY <1>2, <1>3, <1>4, <2>1, <2>2
<1>6. Count(toBot, BatchEnds)' = Count(toBot, BatchEnds) /\ batches' = batches
  BY DEF Count, Places, BatchEnds, Respawn, server
<1> QED BY <1>5, <1>6 DEF Counted

\* The other steps of the server end no batch.
LEMMA CountedForgetting ==
  ASSUME Inv, Counted, NEW c \in Chunk, Forget(c)
  PROVE  Counted'
<1>1. PICK p : p = [name |-> "forget_level_chunk", chunk |-> c] OBVIOUS
<1>2. p.name # "chunk_batch_finished" BY <1>1
<1>3. Tell(<<p>>) /\ UNCHANGED <<batches, toServer>> BY <1>1 DEF Forget
<1> QED BY <1>2, <1>3, CountedTelling

\* Nor do changes of blocks, told or not.
LEMMA CountedEditing ==
  ASSUME Inv, Counted, NEW c \in Chunk, NEW l \in Levels[dimension], NEW section \in Section, Edit(c, l, section)
  PROVE  Counted'
<1>1. PICK records : Tell(IF c \notin view THEN <<>>
                          ELSE <<[name |-> IF Len(records) = 1 THEN "block_update" ELSE "section_blocks_update",
                                  chunk |-> c, level |-> l, records |-> records]>>)
  BY Zenon DEF Edit
<1>2. UNCHANGED <<batches, toServer>> BY DEF Edit
<1>3. CASE c \in view
  <2>1. PICK p : p = [name |-> IF Len(records) = 1 THEN "block_update" ELSE "section_blocks_update",
                      chunk |-> c, level |-> l, records |-> records]
    OBVIOUS
  <2>2. p.name # "chunk_batch_finished" BY <2>1
  <2>3. Tell(<<p>>) BY <1>1, <1>3, <2>1
  <2> QED BY <1>2, <2>2, <2>3, CountedTelling
<1>4. CASE c \notin view
  <2>1. Tell(<<>>) BY <1>1, <1>4
  <2>2. toBot' = toBot BY <2>1, TellNothing DEF Inv
  <2> QED BY <1>2, <2>2 DEF Counted, Count, Places, BatchEnds
<1> QED BY <1>3, <1>4

\* Nor do entities that come into view,
LEMMA CountedTracking ==
  ASSUME Inv, Counted, NEW e \in Entity, Track(e)
  PROVE  Counted'
<1>1. PICK p : p = [name |-> "add_entity", entity |-> e, position |-> entities[e]] OBVIOUS
<1>2. p.name # "chunk_batch_finished" BY <1>1
<1>3. Tell(<<p>>) /\ UNCHANGED <<batches, toServer>> BY <1>1 DEF Track
<1> QED BY <1>2, <1>3, CountedTelling

\* that move,
LEMMA CountedMoving ==
  ASSUME Inv, Counted, NEW e \in Entity, NEW by \in {1, 2}, Move(e, by)
  PROVE  Counted'
<1>1. PICK p : p = IF by = 1 THEN [name |-> "move_entity_pos", entity |-> e, by |-> by]
                   ELSE [name |-> "teleport_entity", entity |-> e, position |-> entities[e] + by]
  OBVIOUS
<1>2. p.name # "chunk_batch_finished" BY <1>1
<1>3. Tell(<<p>>) /\ UNCHANGED <<batches, toServer>> BY <1>1 DEF Move
<1> QED BY <1>2, <1>3, CountedTelling

\* or that leave.
LEMMA CountedUntracking ==
  ASSUME Inv, Counted, NEW gone \in SUBSET Entity, Untrack(gone)
  PROVE  Counted'
<1>1. PICK p : p = [name |-> "remove_entities", entities |-> gone] OBVIOUS
<1>2. p.name # "chunk_batch_finished" BY <1>1
<1>3. Tell(<<p>>) /\ UNCHANGED <<batches, toServer>> BY <1>1 DEF Untrack
<1> QED BY <1>2, <1>3, CountedTelling

\* Nor does a change of health,
LEMMA CountedHurting ==
  ASSUME Inv, Counted, NEW h \in 0 .. MaxHealth, Hurt(h)
  PROVE  Counted'
<1>1. PICK p : p = [name |-> "set_health", health |-> h] OBVIOUS
<1>2. p.name # "chunk_batch_finished" BY <1>1
<1>3. Tell(<<p>>) /\ UNCHANGED <<batches, toServer>> BY <1>1 DEF Hurt
<1> QED BY <1>2, <1>3, CountedTelling

\* or of the dimension.
LEMMA CountedChangingDimension ==
  ASSUME Inv, Counted, NEW d \in Dimensions, ChangeDimension(d)
  PROVE  Counted'
<1>1. PICK p : p = [name |-> "respawn", dimension |-> d] OBVIOUS
<1>2. p.name # "chunk_batch_finished" BY <1>1
<1>3. Tell(<<p>>) /\ UNCHANGED <<batches, toServer>> BY <1>1 DEF ChangeDimension
<1> QED BY <1>2, <1>3, CountedTelling

-----------------------------------------------------------------------------
(* The properties.                                                         *)

\* Both hold in every state.
LEMMA Invariance == Spec => [](Inv /\ Counted)
<1>1. Init => Inv /\ Counted BY Joining, CountedAtFirst
<1>2. Inv /\ Counted /\ [Next]_vars => (Inv /\ Counted)'
  <2> SUFFICES ASSUME Inv, Counted, [Next]_vars PROVE Inv' /\ Counted' OBVIOUS
  <2>1. CASE HandlePacket BY <2>1, CatchingUp, CountedHandling
  <2>2. CASE Respawn BY <2>2, Responding, CountedResponding
  <2>3. CASE TakePacket BY <2>3, Taking, CountedTaking
  <2>4. CASE SendsChunk BY <2>4, SendingChunk, CountedSending DEF SendsChunk
  <2>5. ASSUME NEW c \in Chunk, Forget(c) PROVE Inv' /\ Counted'
    BY <2>5, Forgetting, CountedForgetting
  <2>6. ASSUME NEW c \in Chunk, NEW l \in Levels[dimension], NEW section \in Section, Edit(c, l, section)
        PROVE  Inv' /\ Counted'
    BY <2>6, Editing, CountedEditing
  <2>7. ASSUME NEW e \in Entity, Track(e) PROVE Inv' /\ Counted'
    BY <2>7, Tracking, CountedTracking
  <2>8. ASSUME NEW e \in Entity, NEW by \in {1, 2}, Move(e, by) PROVE Inv' /\ Counted'
    BY <2>8, Moving, CountedMoving
  <2>9. ASSUME NEW gone \in SUBSET Entity, Untrack(gone) PROVE Inv' /\ Counted'
    BY <2>9, Untracking, CountedUntracking
  <2>10. ASSUME NEW h \in 0 .. MaxHealth, Hurt(h) PROVE Inv' /\ Counted'
    BY <2>10, Hurting, CountedHurting
  <2>11. ASSUME NEW d \in Dimensions, ChangeDimension(d) PROVE Inv' /\ Counted'
    BY <2>11, ChangingDimension, CountedChangingDimension
  <2>12. CASE UNCHANGED vars
    <3>1. toServer' \in Seq(ToServer) BY <2>12 DEF vars, Inv, Types
    <3>2. Inv' BY <2>12, <3>1, NothingTold DEF vars, server
    <3>3. Counted' BY <2>12 DEF vars, server, Counted, Count, Places, BatchEnds, Received
    <3> QED BY <3>2, <3>3
  <2> QED BY <2>1, <2>2, <2>3, <2>4, <2>5, <2>6, <2>7, <2>8, <2>9, <2>10, <2>11, <2>12 DEF Next
<1> QED BY <1>1, <1>2, PTL DEF Spec

\* bot/mod.rs 429-502, 532-562: whatever order the packets of the server
\* come in, and however late, a bot that has caught up shows every chunk
\* and every entity in view as it is.
THEOREM BotShowsWhatIsThere == Spec => []ShowsWhatIsThere
<1>1. Inv => ShowsWhatIsThere
  BY DEF Inv, Knows, ShowsChunks, ShowsEntities, ShowsWhatIsThere
<1> QED BY <1>1, Invariance, PTL

\* bot/mod.rs 390-399, 452-456, 563-571: what it shows beyond that was in
\* view before a respawn; and a server that waits for its batches never has
\* more of them out than it allows.
THEOREM BotKeepsOnlyWhatItLeft == Spec => []KeepsOnlyWhatItLeft
<1>1. Inv /\ Counted => KeepsOnlyWhatItLeft
  BY DEF Inv, Counted, Types, Sound, Knows, Keeps, KeepsOnlyWhatItLeft, TypeOK
<1> QED BY <1>1, Invariance, PTL

\* bot/mod.rs 673-692: every death and every spawn is told, once.
THEOREM BotTellsEveryDeath == Spec => []EveryDeathTold
<1>1. Inv => EveryDeathTold
  BY DEF Inv, Knows, Told, EveryDeathTold
<1> QED BY <1>1, Invariance, PTL
=============================================================================
