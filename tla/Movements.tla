------------------------------ MODULE Movements ------------------------------
(***************************************************************************)
(* path/movements.rs: the moves that a place of the world offers.          *)
(*                                                                         *)
(* A place is <<x, y, z>>, where the feet are.  A world is a record: the   *)
(* kinds of its loaded blocks, by column <<x, z>> and height, and the      *)
(* configuration.  Kinds are                                               *)
(* what query tells apart: "air", "vine" (climbable), "ladder" (climbable, *)
(* and a block to stand on), "web" (to be avoided), "fence" (taller than a *)
(* block), "dirt", "sand" (falls), "stone" (hard to break), "water" and    *)
(* "lava"; "void" is what is not loaded.  Costs are in hundredths.         *)
(***************************************************************************)
EXTENDS Integers, SequencesExt, FiniteSetsExt

CONSTANT FreeFall   \* how deep a fall is looked into: 256 in the code

ASSUME FreeFallAssumption == FreeFall \in Nat

One == 100
Half == 50
Sqrt2 == 141

Beside(p, d) == <<p[1] + d[1], p[2], p[3] + d[2]>>
Times(d, n) == <<d[1] * n, d[2] * n>>
Up(p, n) == <<p[1], p[2] + n, p[3]>>

Sides(p) == {Beside(p, <<-1, 0>>), Beside(p, <<1, 0>>), Beside(p, <<0, -1>>), Beside(p, <<0, 1>>)}

-----------------------------------------------------------------------------
Loaded(w, p) == <<p[1], p[3]>> \in DOMAIN w.block /\ p[2] \in DOMAIN w.block[<<p[1], p[3]>>]
Query(w, p) == IF Loaded(w, p) THEN w.block[<<p[1], p[3]>>][p[2]] ELSE "void"

Safe(w, p) == Query(w, p) \in {"air", "vine", "ladder", "water"}
Physical(w, p) == Query(w, p) \in {"ladder", "dirt", "sand", "stone"}
Liquid(w, p) == Query(w, p) \in {"water", "lava"}
Lava(w, p) == Query(w, p) = "lava"
Replaceable(w, p) == Query(w, p) \in {"air", "web"}
CanFall(w, p) == Query(w, p) = "sand"

NearLava(w, p) == \E q \in Sides(p) \cup {p, Up(p, -1)} : Lava(w, q)

\* Mutant of Breakable: what lies on a block or flows by it does not count.
BreakableAnyway(w, p) == w.config.can_dig /\ Query(w, p) \notin w.config.cant_break

Breakable(w, p) ==
  /\ w.config.can_dig
  /\ Query(w, p) \notin w.config.cant_break
  /\ w.config.dont_create_flow => \A q \in Sides(p) \cup {Up(p, 1)} : ~Liquid(w, q)
  /\ w.config.dont_mine_under => ~CanFall(w, Up(p, 1))

\* The elements of seq that are in S, in their order.
Sifted(seq, S) ==
  LET sifted[n \in 0 .. Len(seq)] ==
        IF n = 0 THEN <<>> ELSE IF seq[n] \in S THEN Append(sifted[n - 1], seq[n]) ELSE sifted[n - 1]
  IN  sifted[Len(seq)]

\* safe_or_break: what lets the bot in, and what must be broken for that.
Open(w, p) == Safe(w, p) \/ Liquid(w, p)
Enterable(w, cells) == \A i \in DOMAIN cells : ~NearLava(w, cells[i]) /\ (Open(w, cells[i]) \/ Breakable(w, cells[i]))
ToBreak(w, cells) == Sifted(cells, {p \in Range(cells) : ~Open(w, p)})

Digging(w, to, cost, cells) ==
  LET digs == ToBreak(w, cells)
  IN  [to |-> to, cost |-> cost + Len(digs) * w.config.dig_cost, break |-> digs, place |-> <<>>]
Walking(to, cost) == [to |-> to, cost |-> cost, break |-> <<>>, place |-> <<>>]

If(possible, move) == IF possible THEN <<move>> ELSE <<>>

-----------------------------------------------------------------------------
MoveForward(w, p, d) ==
  LET to == Beside(p, d)
      floor == Up(to, -1)
      cells == <<to, Up(to, 1)>>
  IN  If((Physical(w, floor) \/ Liquid(w, floor)) /\ Enterable(w, cells),
         Digging(w, to, IF Liquid(w, floor) THEN w.config.liquid_cost ELSE One, cells))

MoveJumpUp(w, p, d) ==
  LET block == Beside(p, d)
      cells == <<Up(p, 2), Up(block, 1), Up(block, 2)>>
  IN  If((Physical(w, block) \/ Liquid(w, block)) /\ Enterable(w, cells), Digging(w, Up(block, 1), 2 * One, cells))

\* The depth below p where a fall that is looked at from that depth ends, 0
\* if it does not.
Depth(w, p, from, most) ==
  LET ends == {k \in from .. most : ~Safe(w, Up(p, -k)) \/ Physical(w, Up(p, -k)) \/ Liquid(w, Up(p, -k))}
  IN  IF ends = {} THEN 0 ELSE Min(ends)

\* Mutant of Landing: the bot lands in the block it should land on.
LandingInside(w, p, k, cost) ==
  IF k = 0 THEN <<>> ELSE <<Walking(Up(p, -k), cost + (k - 1) * Half)>>

\* On solid ground, or in a liquid.
Landing(w, p, k, cost) ==
  IF k = 0 THEN <<>>
  ELSE IF Physical(w, Up(p, -k)) THEN <<Walking(Up(p, 1 - k), cost + (k - 1) * Half)>>
  ELSE If(Liquid(w, Up(p, -k)), Walking(Up(p, -k), cost + k * 30))

MaxDrop(w) == IF w.config.infinite_drop THEN FreeFall ELSE w.config.max_drop_down + 1

\* Cells are looked at from two below the place the bot steps to.
MoveDropDown(w, p, d) ==
  LET n == Beside(p, d)
      k == Depth(w, n, 2, MaxDrop(w))
  IN  IF /\ Safe(w, Up(n, 1)) /\ Safe(w, n) /\ ~Physical(w, Up(n, -1))
         /\ ~Lava(w, Up(n, -k))
         /\ Physical(w, Up(n, -k)) => Safe(w, Up(n, 1 - k))
      THEN Landing(w, n, k, One) ELSE <<>>

MoveDiagonal(w, p, d) ==
  LET n == Beside(p, d)
      corner(e) == Safe(w, Beside(p, e)) /\ Safe(w, Up(Beside(p, e), 1))
  IN  IF Physical(w, Up(n, -1))
      THEN If(Safe(w, n) /\ Safe(w, Up(n, 1)) /\ (corner(<<0, d[2]>>) \/ corner(<<d[1], 0>>)), Walking(n, Sqrt2))
      ELSE If(Physical(w, n) /\ Safe(w, Up(n, 1)) /\ Safe(w, Up(n, 2)) /\ Safe(w, Up(p, 2)),
              Walking(Up(n, 1), Sqrt2 + One))
           \o (IF Safe(w, n) THEN Landing(w, n, Depth(w, n, 2, w.config.max_drop_down + 1), Sqrt2) ELSE <<>>)

ParkourLandings(w, p, d, n) ==
  LET to == Beside(p, Times(d, n))
  IN  If(Physical(w, Up(to, -1)) /\ Safe(w, to) /\ Safe(w, Up(to, 1)), Walking(to, (n + 1) * One))
      \o If(n <= 2 /\ Physical(w, to) /\ Safe(w, Up(to, 1)) /\ Safe(w, Up(to, 2)), Walking(Up(to, 1), (n + 2) * One))
      \o If(Physical(w, Up(to, -2)) /\ Safe(w, Up(to, -1)) /\ Safe(w, to), Walking(Up(to, -1), n * One + Half))

\* Farther jumps are looked at as long as there is room at the top.
MoveParkour(w, p, d) ==
  LET clear(n) == \A m \in 1 .. n - 1 : Safe(w, Up(Beside(p, Times(d, m)), 2))
      jump(n) == IF clear(n) THEN ParkourLandings(w, p, d, n) ELSE <<>>
  IN  IF /\ w.config.allow_parkour
         /\ Physical(w, Up(p, -1)) /\ ~Physical(w, Up(Beside(p, d), -1)) /\ Safe(w, Up(p, 2))
      THEN jump(2) \o (IF w.config.allow_sprinting THEN jump(3) \o jump(4) ELSE <<>>) ELSE <<>>

MoveUp(w, p) ==
  If(/\ w.config.allow_towers /\ w.config.scaffolding
     /\ Safe(w, Up(p, 2)) /\ (Safe(w, p) \/ Replaceable(w, p)),
     [to |-> Up(p, 1), cost |-> One + w.config.place_cost, break |-> <<>>, place |-> <<p>>])

MoveDown(w, p) ==
  LET k == Depth(w, p, 1, MaxDrop(w))
  IN  IF Physical(w, Up(p, -1)) \/ Lava(w, Up(p, -k)) THEN <<>> ELSE Landing(w, p, k, One)

MoveSwimUp(w, p) ==
  If(Liquid(w, p) /\ ~Lava(w, p) /\ Open(w, Up(p, 1)) /\ ~Lava(w, Up(p, 1)), Walking(Up(p, 1), One))

Neighbors(w, p) ==
  LET ahead(d) == MoveForward(w, p, d) \o MoveJumpUp(w, p, d) \o MoveDropDown(w, p, d) \o MoveParkour(w, p, d)
  IN  ahead(<<-1, 0>>) \o ahead(<<1, 0>>) \o ahead(<<0, -1>>) \o ahead(<<0, 1>>)
      \o MoveDiagonal(w, p, <<-1, -1>>) \o MoveDiagonal(w, p, <<-1, 1>>)
      \o MoveDiagonal(w, p, <<1, -1>>) \o MoveDiagonal(w, p, <<1, 1>>)
      \o MoveUp(w, p) \o MoveDown(w, p) \o MoveSwimUp(w, p)
=============================================================================
