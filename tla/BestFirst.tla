------------------------------ MODULE BestFirst ------------------------------
(***************************************************************************)
(* What path/astar.rs computes, without its heap and its arena: a search   *)
(* that always looks at an open place whose cost so far and estimated rest *)
(* are least, and never looks at a place twice.  Costs are integers here   *)
(* and floating point numbers in the code.                                 *)
(***************************************************************************)
EXTENDS Integers

CONSTANTS Place, Maps   \* Maps: the worlds and goals to search for

\* A move is a place it leads to and a cost; a limit of 0 is no limit.
MapsOK ==
  Maps \subseteq [start : Place, ends : SUBSET Place,
                  moves : [Place -> SUBSET [to : Place, cost : Nat]],
                  estimate : [Place -> Int], limit : Nat]

VARIABLES
  map,
  cost,      \* of the best way found to a place; 0 as long as there is none
  open, closed,
  outcome,   \* "searching", or how the search has ended
  found      \* the set of the end that was found

searchVars == <<map, cost, open, closed, outcome, found>>

SearchInit ==
  /\ map \in Maps
  /\ cost = [n \in Place |-> 0]
  /\ open = {map.start}
  /\ closed = {}
  /\ outcome = "searching"
  /\ found = {}

Estimated(n) == cost[n] + map.estimate[n]

Least(n) ==
  /\ outcome = "searching"
  /\ n \in open
  /\ \A m \in open : Estimated(n) <= Estimated(m)

WithinLimit(n, c) == map.limit > 0 => c + map.estimate[n] <= map.limit

\* The costs at which m can be reached: over n, and as it is known already.
Offers(n, m) ==
  {cost[n] + move.cost : move \in {k \in map.moves[n] : k.to = m /\ WithinLimit(m, cost[n] + k.cost)}}
Known(m) == IF m \in open THEN {cost[m]} ELSE {}

Reached(n) == {m \in Place \ (closed \cup {n}) : Offers(n, m) # {}}

Expand(n) ==
  /\ Least(n)
  /\ n \notin map.ends
  /\ closed' = closed \cup {n}
  /\ open' = (open \ {n}) \cup Reached(n)
  /\ cost' \in [Place -> Nat]
  /\ \A m \in Place :
       IF m \in Reached(n)
       THEN /\ cost'[m] \in Offers(n, m) \cup Known(m)
            /\ \A c \in Offers(n, m) \cup Known(m) : cost'[m] <= c
       ELSE cost'[m] = cost[m]
  /\ UNCHANGED <<map, outcome, found>>

Find(n) ==
  /\ Least(n)
  /\ n \in map.ends
  /\ open' = open \ {n}
  /\ outcome' = "success"
  /\ found' = {n}
  /\ UNCHANGED <<map, cost, closed>>

Exhausted ==
  /\ outcome = "searching"
  /\ open = {}
  /\ outcome' = "no_path"
  /\ UNCHANGED <<map, cost, open, closed, found>>

RunOutOfTime ==
  /\ outcome = "searching"
  /\ outcome' = "timeout"
  /\ UNCHANGED <<map, cost, open, closed, found>>

SearchNext == (\E n \in Place : Expand(n) \/ Find(n)) \/ Exhausted \/ RunOutOfTime

SearchSpec == SearchInit /\ [][SearchNext]_searchVars

-----------------------------------------------------------------------------
\* A way of k moves through the places p from the start, which costs w[i]
\* up to p[i].
Walk(k, p, w) ==
  /\ p[0] = map.start
  /\ w[0] = 0
  /\ \A i \in 0 .. k - 1 : [to |-> p[i + 1], cost |-> w[i + 1] - w[i]] \in map.moves[p[i]]

\* No move brings the goal nearer by more than it costs.
Consistent ==
  \A n \in Place : \A move \in map.moves[n] : map.estimate[n] <= move.cost + map.estimate[move.to]

\* No walk to an end is cheaper than the one found, estimates at the ends
\* included (they are not 0 for every goal of the code).
CheapestFound ==
  Consistent =>
    \A n \in found, k \in Nat : \A p \in [0 .. k -> Place], w \in [0 .. k -> Nat] :
      Walk(k, p, w) /\ p[k] \in map.ends => Estimated(n) <= w[k] + map.estimate[p[k]]

\* And if the search was exhausted, no walk within the limit leads to one;
\* without a limit that does not depend on the estimates.
NoneMissed ==
  outcome = "no_path" /\ (Consistent \/ map.limit = 0) =>
    \A k \in Nat : \A p \in [0 .. k -> Place], w \in [0 .. k -> Nat] :
      Walk(k, p, w) /\ p[k] \in map.ends
        => map.limit > 0 /\ map.limit < w[k] + map.estimate[p[k]]
=============================================================================
