----------------------------- MODULE PathFinding -----------------------------
(***************************************************************************)
(* path/mod.rs: a search through a world of blocks, by the moves of        *)
(* Movements, and what becomes of its path when it is walked.  The         *)
(* world is looked at as it is when the search begins: query remembers     *)
(* what it has seen, and neither the moves' own digging nor anything else  *)
(* changes it.                                                             *)
(***************************************************************************)
EXTENDS AStar, Movements

MovesIn(w) ==
  [p \in Place |->
    IF Loaded(w, p) THEN LET moves == Neighbors(w, p) IN Sifted(moves, {move \in Range(moves) : Loaded(w, move.to)})
    ELSE <<>>]

\* Of the searches, those through a world use its moves.
ASSUME WorldsAssumption ==
  \A s \in Searches : "world" \in DOMAIN s =>
    /\ Place \subseteq Int \X Int \X Int
    /\ s.moves = MovesIn(s.world)
    /\ s.world = [config |-> s.world.config, block |-> s.world.block]
    /\ s.world.config.max_drop_down \in Int

InWorld == "world" \in DOMAIN map

-----------------------------------------------------------------------------
\* The world after a move's blocks were broken and placed.
After(w, move) ==
  [w EXCEPT !.block = [c \in DOMAIN @ |-> [y \in DOMAIN @[c] |->
     IF <<c[1], y, c[2]>> \in Range(move.place) THEN "dirt"
     ELSE IF <<c[1], y, c[2]>> \in Range(move.break) THEN "air" ELSE @[c][y]]]]

Path == [k \in 1 .. Len(Reconstruct(status.node)) - 1 |-> nodes[Reconstruct(status.node)[k + 1]].data]
\* The world when k moves of the path were made.
WorldAfter(k) ==
  LET path == Path
      after[j \in 0 .. Len(path)] == IF j = 0 THEN map.world ELSE After(after[j - 1], path[j])
  IN  after[k]

Water(w, p) == Liquid(w, p) /\ ~Lava(w, p)
Supported(w, p) == Physical(w, Up(p, -1)) \/ Water(w, Up(p, -1)) \/ Water(w, p)

\* From p, a move to a lower place of a column beside it.
Ledge(p, to) == <<to[1], p[2], to[3]>>
Falls(p, to) ==
  /\ to[2] < p[2]
  /\ \E d \in (-1 .. 1) \X (-1 .. 1) : d # <<0, 0>> /\ Ledge(p, to) = Beside(p, d)

\* move_diagonal alone falls into a liquid without asking what it is.
FallsInLava(w, p, to) ==
  Falls(p, to) /\ to[1] # p[1] /\ to[3] # p[3] /\ Lava(w, to)

\* The cells that a move from p does not look at: those the bot is in
\* already; the one above its head, when it swims up; the one below the
\* ledge it falls from, but that no block is there to stand on.
Overlooked(w, p, move) ==
  {p, Up(p, 1)}
  \cup (IF move.to = Up(p, 1) /\ move.place = <<>> THEN {Up(p, 2)} ELSE {})
  \cup (IF Falls(p, move.to) THEN {q \in {Up(Ledge(p, move.to), -1)} : ~Physical(w, q)} ELSE {})
  \cup (IF FallsInLava(w, p, move.to) THEN {move.to} ELSE {})

From(k) == IF k = 1 THEN map.start ELSE Path[k - 1].to
DugBefore(k) == UNION {Range(Path[j].break) : j \in 1 .. k - 1}
BuiltBefore(k) == UNION {Range(Path[j].place) : j \in 1 .. k - 1}

\* movements.rs 153-165, 213-542: the search sees the world as it was, the
\* walk changes it; still a path can be walked.  After each move, with what
\* the moves so far have broken and placed, the cells of the bot's feet and
\* head are free of blocks and of lava, and it stands on something or is in
\* water.  What may be different is said by name: the cells its move does
\* not look at (Overlooked, which let a diagonal fall end in lava), and what the
\* path itself has dug from under the place or built where the head is.
PathIsWalkable ==
  InWorld /\ status # Computing =>
    \A k \in DOMAIN Path :
      LET w == WorldAfter(k)
          p == Path[k].to
      IN  /\ \A c \in {p, Up(p, 1)} :
               Loaded(w, c) => Safe(w, c) \/ c \in Overlooked(map.world, From(k), Path[k]) \cup BuiltBefore(k)
          /\ Supported(w, p) \/ FallsInLava(map.world, From(k), p) \/ Up(p, -1) \in DugBefore(k)

\* movements.rs 173-188: breaking the blocks of a path lets no water or
\* lava flow and no sand fall, and breaks nothing that is not to be broken.
DigsHoldBack ==
  InWorld /\ status # Computing =>
    \A k \in DOMAIN Path : \A p \in Range(Path[k].break) :
      LET w == WorldAfter(k)
      IN  /\ map.world.config.dont_create_flow => \A q \in Sides(p) \cup {Up(p, 1)} : ~Liquid(w, q)
          /\ map.world.config.dont_mine_under => ~CanFall(w, Up(p, 1))
          /\ Query(map.world, p) \notin map.world.config.cant_break
=============================================================================
