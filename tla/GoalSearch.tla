------------------------------ MODULE GoalSearch ------------------------------
(***************************************************************************)
(* path/mod.rs: get_path_to, which puts a search together from a world,    *)
(* its moves, a goal and a radius.                                         *)
(***************************************************************************)
EXTENDS PathFinding, Goals

\* AStar::new: a radius below 0 is no limit, and neither is one that leaves
\* nothing of the estimate.
Limit(h, radius) == IF radius < 0 \/ h + radius <= 0 THEN 0 ELSE h + radius

PathSearch(w, moves, start, goal, radius) ==
  [start |-> start, goal |-> goal, world |-> w,
   ends |-> {p \in Place : IsEnd(goal, p)},
   estimate |-> [p \in Place |-> Heuristic(goal, p)],
   limit |-> Limit(Heuristic(goal, start), radius),
   moves |-> moves]
=============================================================================
