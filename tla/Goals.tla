-------------------------------- MODULE Goals --------------------------------
(***************************************************************************)
(* path/goals.rs: what a search is for.  A goal is a record with its kind, *)
(* the place it is about and, for some, a range; or with the goals it is   *)
(* made of.  Estimates are in hundredths, as costs are.                    *)
(***************************************************************************)
EXTENDS Integers, SequencesExt, FiniteSetsExt

LOCAL Abs(n) == IF n < 0 THEN -n ELSE n

Octile(dx, dy, dz) ==
  LET x == Abs(dx)
      z == Abs(dz)
  IN  Abs(x - z) * 100 + Min({x, z}) * 141 + Abs(dy) * 100

Away(g, p, i) == g.at[i] - p[i]

RECURSIVE Heuristic(_, _), IsEnd(_, _)

Heuristic(g, p) ==
  CASE g.kind \in {"block", "near"} -> Octile(Away(g, p, 1), Away(g, p, 2), Away(g, p, 3))
    [] g.kind \in {"xz", "near_xz"} -> Octile(Away(g, p, 1), 0, Away(g, p, 3))
    [] g.kind = "y" -> Abs(Away(g, p, 2)) * 100
    [] g.kind = "get_to_block" -> Octile(Away(g, p, 1), Away(g, p, 2), Away(g, p, 3)) - 100
    [] g.kind = "any" -> Min({Heuristic(h, p) : h \in g.goals})
    [] g.kind = "all" -> Max({Heuristic(h, p) : h \in g.goals})
    [] g.kind = "invert" -> -Heuristic(g.goal, p)

SumOfSquares(g, p, axes) == FoldSet(LAMBDA i, sum : sum + Away(g, p, i) * Away(g, p, i), 0, axes)

IsEnd(g, p) ==
  CASE g.kind = "block" -> p = g.at
    [] g.kind = "near" -> SumOfSquares(g, p, {1, 2, 3}) <= g.range * g.range
    [] g.kind = "xz" -> p[1] = g.at[1] /\ p[3] = g.at[3]
    [] g.kind = "near_xz" -> SumOfSquares(g, p, {1, 3}) <= g.range * g.range
    [] g.kind = "y" -> p[2] = g.at[2]
    [] g.kind = "get_to_block" -> Abs(Away(g, p, 1)) + Abs(Away(g, p, 2)) + Abs(Away(g, p, 3)) = 1
    [] g.kind = "any" -> \E h \in g.goals : IsEnd(h, p)
    [] g.kind = "all" -> \A h \in g.goals : IsEnd(h, p)
    [] g.kind = "invert" -> ~IsEnd(g.goal, p)
=============================================================================
