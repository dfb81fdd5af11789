----------------------------- MODULE MCNavigation -----------------------------
(* Three cells, a block on the way: a soft one, to be dug, or a hard one,  *)
(* which paths do not lead through but which the program itself may dig.   *)
EXTENDS Navigation

MCWorlds ==
  {[c \in 1 .. 3 |-> IF c = 2 THEN "soft" ELSE "air"],
   [c \in 1 .. 3 |-> IF c = 2 THEN "hard" ELSE "air"]}
MCTeleports == {[v |-> 1, rel |-> FALSE], [v |-> 1, rel |-> TRUE]}
=============================================================================
