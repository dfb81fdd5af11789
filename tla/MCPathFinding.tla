----------------------------- MODULE MCPathFinding -----------------------------
(* Searches over maps of six places, and through worlds of a few columns    *)
(* of blocks.                                                              *)
EXTENDS GoalSearch

(* From 0 to each of 1 .. 4, between some of them, and to the end 5, at     *)
(* costs that make detours worth it or not.                                *)
N(n) == <<n, 0, 0>>
Arcs == {<<1, 2>>, <<2, 1>>, <<3, 4>>, <<4, 2>>}
Ways == [first : {f \in [1 .. 4 -> 1 .. 3] : f[1] = 3 /\ f[2] < 3 /\ f[3] > 1},
         arcs : SUBSET Arcs, last : [{2, 4} -> {0, 4}]]

\* Moves in the order of the places they lead to, and back to the start.
MovesOf(way, n) ==
  IF n = 0 THEN [m \in 1 .. 4 |-> [to |-> N(m), cost |-> way.first[m]]]
  ELSE IF n = 5 THEN <<>>
  ELSE SetToSeq({[to |-> N(m), cost |-> IF n < 3 THEN 1 ELSE 2] : m \in {k \in 1 .. 4 : <<n, k>> \in way.arcs}})
       \o (IF n \in DOMAIN way.last /\ way.last[n] > 0
           THEN <<[to |-> N(5), cost |-> way.last[n]], [to |-> N(0), cost |-> 1]>>
           ELSE <<[to |-> N(0), cost |-> 1]>>)

MCFlat == {N(n) : n \in 0 .. 5}
MCCells == (0 .. 4) \X (0 .. 7) \X (0 .. 1)
MCPlace == MCFlat \cup MCCells

\* No estimate; one that every map agrees with; one that some maps exceed.
Guess(n) == CASE n \in {0, 3} -> 2 [] n = 5 -> 0 [] OTHER -> 1
MCEstimates == {[p \in MCPlace |-> 0], [p \in MCPlace |-> Guess(p[1])], [p \in MCPlace |-> 5 - p[1]]}

Graphs == {[start |-> N(0), ends |-> {N(5)}, estimate |-> e, limit |-> l,
            moves |-> [p \in MCPlace |-> IF p \in MCFlat THEN MovesOf(way, p[1]) ELSE <<>>]] :
           way \in Ways, e \in MCEstimates, l \in {0, 5}}

(* Columns: dirt up to level 3, so that feet are at 4, but for what is said.
   In a sump the bot swims up until its head is in the ceiling.  Up on two
   columns of earth it comes back over what it has dug.  From a trap, past a
   gate, it comes back to below the tower it has left by. *)
Kinds == {"floor", "step", "wall", "earth", "pit", "shaft", "hole", "water", "pool", "lava", "magma",
          "lintel", "sand", "fence", "web", "stile", "snare", "ladder", "flooded", "tank"}
Except ==
  [floor |-> <<>>, step |-> (4 :> "dirt"), wall |-> [y \in 4 .. 7 |-> "stone"], earth |-> [y \in 4 .. 6 |-> "dirt"],
   pit |-> [y \in 2 .. 3 |-> "air"], shaft |-> [y \in 1 .. 3 |-> "air"], hole |-> [y \in 0 .. 3 |-> "air"],
   water |-> (3 :> "water"), pool |-> (3 :> "air") @@ (2 :> "water"),
   lava |-> (3 :> "lava"), magma |-> (3 :> "air") @@ [y \in 1 .. 2 |-> "lava"],
   lintel |-> (5 :> "dirt"), sand |-> (4 :> "dirt") @@ (5 :> "sand"), fence |-> (4 :> "fence"),
   web |-> (4 :> "web"), stile |-> (3 :> "fence"), snare |-> (3 :> "web") @@ (4 :> "vine"),
   ladder |-> [y \in 3 .. 5 |-> "ladder"], flooded |-> [y \in 4 .. 5 |-> "water"], tank |-> (5 :> "dirt") @@ (6 :> "water"),
   trap |-> (3 :> "web"), gate |-> (3 :> "air") @@ (4 :> "fence"), sump |-> [y \in 4 .. 5 |-> "water"] @@ (6 :> "dirt")]
Level(kind, y) == IF y \in DOMAIN Except[kind] THEN Except[kind][y] ELSE IF y < 4 THEN "dirt" ELSE "air"

\* A world from the kinds of its columns.
World(columns, config) ==
  [config |-> config,
   block |-> [c \in DOMAIN columns |-> [y \in 0 .. 7 |-> Level(columns[c], y)]]]

Corridor(a, b, c) == (<<0, 0>> :> "floor") @@ (<<1, 0>> :> a) @@ (<<2, 0>> :> b) @@ (<<3, 0>> :> c)
Square(a, b, c) == (<<0, 0>> :> "floor") @@ (<<1, 0>> :> a) @@ (<<0, 1>> :> b) @@ (<<1, 1>> :> c)
Gap(a, b, c, d) == Corridor(a, b, c) @@ (<<4, 0>> :> d)

\* The bot's configuration, and one with towers, bare drops and no sprint.
Bots == [can_dig |-> TRUE, dig_cost |-> 100, place_cost |-> 100, liquid_cost |-> 10000, dont_create_flow |-> TRUE,
         dont_mine_under |-> TRUE, allow_towers |-> TRUE, allow_parkour |-> TRUE, allow_sprinting |-> TRUE,
         max_drop_down |-> 1, infinite_drop |-> TRUE, cant_break |-> {"stone"}, scaffolding |-> FALSE]
Others == [Bots EXCEPT !.liquid_cost = 100, !.cant_break = {}, !.allow_sprinting = FALSE, !.max_drop_down = 4,
                       !.infinite_drop = FALSE, !.scaffolding = TRUE]

\* Worlds of a corridor, of a square and of a gap to jump over.
Worlds ==
  {World(Corridor(a, b, "floor"), Bots) : a \in Kinds, b \in {"floor", "shaft", "magma", "sand"}} \cup
  {World(Square("floor", b, c), config) : b \in {"wall", "lava"}, c \in Kinds, config \in {Bots, Others}} \cup
  {World(Gap(a, "hole", c, d), Bots) : a \in {"hole", "lava"}, c \in {"hole", "floor"}, d \in {"floor", "step", "pit"}}

\* To the far end, and of one world to every kind of goal.
Far(w) == IF <<1, 1>> \in DOMAIN w.block THEN <<1, 4, 1>> ELSE <<Cardinality(DOMAIN w.block) - 1, 4, 0>>
Goal(kind, at) == [kind |-> kind, at |-> at]
Ranged(kind, at, range) == [kind |-> kind, at |-> at, range |-> range]
MixedGoals ==
  {Goal("y", <<0, 2, 0>>), Goal("get_to_block", <<2, 3, 0>>),
   Ranged("near", <<3, 3, 0>>, 1), Ranged("near_xz", <<3, 0, 0>>, 1),
   [kind |-> "any", goals |-> {Goal("xz", <<9, 0, 9>>), Goal("block", <<2, 2, 0>>)}],
   [kind |-> "all", goals |-> {Goal("y", <<0, 4, 0>>), Ranged("near_xz", <<2, 0, 0>>, 1)}],
   [kind |-> "invert", goal |-> Ranged("near", <<0, 4, 0>>, 2)]}

SearchesOf(w, goals, radius) ==
  LET moves == MovesIn(w) IN {PathSearch(w, moves, <<0, 4, 0>>, g, radius) : g \in goals}

MCSearches ==
  Graphs \cup
  UNION {SearchesOf(w, {Goal("xz", Far(w)), Goal("block", Far(w))}, -1) : w \in Worlds} \cup
  SearchesOf(World(Corridor("earth", "pit", "sand"), Others), MixedGoals, 150) \cup
  SearchesOf(World(Corridor("earth", "earth", "floor"), Bots), {Goal("block", <<1, 6, 0>>)}, -1) \cup
  SearchesOf(World((<<0, 0>> :> "trap") @@ (<<1, 0>> :> "gate"), Others), {Goal("block", <<0, 3, 0>>)}, -1) \cup
  SearchesOf(World(Square("sump", "floor", "floor"), Others), {Goal("block", <<1, 6, 0>>)}, -1)
=============================================================================
