-------------------------------- MODULE AStar --------------------------------
(***************************************************************************)
(* path/astar.rs: an incremental A* search.  Nodes live in an arena and    *)
(* are named by their index; a binary heap holds the indices of the open   *)
(* ones, ordered by f, and each node knows its place in the heap, so that  *)
(* a node can move up when a cheaper way to it is found.  open_map and     *)
(* closed are keyed by place: pos_hash tells the places of one search      *)
(* apart.  Arena indices start at 1 here, and the heap has no sentinel.    *)
(*                                                                         *)
(* compute is a loop; each round is an action.  A call returns when the    *)
(* tick's budget is spent and may be repeated then.  map is the world,     *)
(* the goal and the radius of the search; it does not change during one.   *)
(***************************************************************************)
EXTENDS Integers, SequencesExt, FiniteSetsExt

CONSTANTS
  Place,
  Searches   \* the searches to run: start, ends, moves (in the order they
             \* are generated), estimate and limit

ASSUME SearchesAssumption ==
  \A s \in Searches :
    /\ s.start \in Place /\ s.ends \subseteq Place /\ s.limit \in Nat
    /\ s.estimate \in [Place -> Int]
    /\ \A n \in Place :
         /\ s.moves[n] = [i \in 1 .. Len(s.moves[n]) |-> s.moves[n][i]] /\ Len(s.moves[n]) \in Nat
         /\ \A i \in 1 .. Len(s.moves[n]) : s.moves[n][i].to \in Place /\ s.moves[n][i].cost \in Nat

VARIABLES
  map,
  nodes, heap, open_map, closed, best,   \* struct AStar
  status     \* "computing", or what compute has returned and about which node

vars == <<map, nodes, heap, open_map, closed, best, status>>

None == 0
Computing == [kind |-> "computing"]
Returned(kind, i) == [kind |-> kind, node |-> i]

Node(move, g, parent, at) ==
  [data |-> move, g |-> g, h |-> map.estimate[move.to], parent |-> parent, heap_index |-> at]

Start == [to |-> map.start, cost |-> 0]
PlaceOf(node) == node.data.to

-----------------------------------------------------------------------------
(* The heap, on w = [nodes, heap].                                         *)

F(w, k) == LET node == w.nodes[w.heap[k]] IN node.g + node.h

Swap(w, i, j) ==
  LET swapped == [w.heap EXCEPT ![i] = w.heap[j], ![j] = w.heap[i]]
  IN  [heap |-> swapped,
       nodes |-> [w.nodes EXCEPT ![swapped[i]].heap_index = i, ![swapped[j]].heap_index = j]]

\* Mutant of BubbleUp: no node moves into the root.
ClimbBelowRoot(c) ==
  IF c.at \div 2 > 1 /\ F(c.w, c.at \div 2) > F(c.w, c.at)
  THEN [w |-> Swap(c.w, c.at, c.at \div 2), at |-> c.at \div 2] ELSE c
BubbleUpBelowRoot(w, i) ==
  LET climbed[round \in 0 .. i] == IF round = 0 THEN [w |-> w, at |-> i] ELSE ClimbBelowRoot(climbed[round - 1])
  IN  climbed[i].w

\* A round of bubble_up moves up or stays; there are no more than i.
Climb(c) ==
  IF c.at > 1 /\ F(c.w, c.at \div 2) > F(c.w, c.at)
  THEN [w |-> Swap(c.w, c.at, c.at \div 2), at |-> c.at \div 2] ELSE c

BubbleUp(w, i) ==
  LET climbed[round \in 0 .. i] == IF round = 0 THEN [w |-> w, at |-> i] ELSE Climb(climbed[round - 1])
  IN  climbed[i].w

\* Of a position and its children, the first with the least f.
Smallest(w, i) ==
  LET family == {k \in {i, 2 * i, 2 * i + 1} : k <= Len(w.heap)}
      least == {k \in family : \A l \in family : F(w, k) <= F(w, l)}
  IN  Min(least)

\* A round of sift_down moves down or stays; a heap is no deeper than it is
\* long.
Sink(c) ==
  LET down == Smallest(c.w, c.at)
  IN  IF down = c.at THEN c ELSE [w |-> Swap(c.w, c.at, down), at |-> down]

SiftDown(w, i) ==
  LET sunk[round \in 0 .. Len(w.heap)] == IF round = 0 THEN [w |-> w, at |-> i] ELSE Sink(sunk[round - 1])
  IN  sunk[Len(w.heap)].w

HeapPush(w, i) ==
  BubbleUp([nodes |-> [w.nodes EXCEPT ![i].heap_index = Len(w.heap) + 1],
            heap |-> Append(w.heap, i)], Len(w.heap) + 1)

\* The heap without its first node.
HeapPop(w) ==
  LET last == Last(w.heap)
      out == [w.nodes EXCEPT ![Head(w.heap)].heap_index = None]
  IN  IF Len(w.heap) = 1 THEN [nodes |-> out, heap |-> <<>>]
      ELSE SiftDown([nodes |-> [out EXCEPT ![last].heap_index = 1],
                     heap |-> [Front(w.heap) EXCEPT ![1] = last]], 1)

-----------------------------------------------------------------------------
(* compute, on s = [nodes, heap, open_map, best].                          *)

Heaped(s, w) == [s EXCEPT !.nodes = w.nodes, !.heap = w.heap]
W(s) == [nodes |-> s.nodes, heap |-> s.heap]

Closer(s, n, g, i) == IF map.estimate[n] < s.nodes[s.best].h THEN [s EXCEPT !.best = i] ELSE s

Discover(s, move, g, parent) ==
  LET i == Len(s.nodes) + 1
      n == move.to
      added == [s EXCEPT !.nodes = Append(@, Node(move, g, parent, None)),
                         !.open_map = [m \in DOMAIN @ \cup {n} |-> IF m = n THEN i ELSE @[m]]]
      seen == Closer(added, n, g, i)
  IN  Heaped(seen, HeapPush(W(seen), i))

\* Mutant of Improve: the cheaper cost is kept, the way there is not.
ImproveCost(s, move, g, parent) ==
  LET n == move.to
      i == s.open_map[n]
      seen == Closer([s EXCEPT !.nodes[i].g = g], n, g, i)
      at == s.nodes[i].heap_index
  IN  IF at = None THEN seen ELSE Heaped(seen, BubbleUp(W(seen), at))

Improve(s, move, g, parent) ==
  LET n == move.to
      i == s.open_map[n]
      at == s.nodes[i].heap_index
      seen == Closer([s EXCEPT !.nodes[i] = Node(move, g, parent, at)], n, g, i)
  IN  IF at = None THEN seen ELSE Heaped(seen, BubbleUp(W(seen), at))

\* Mutant of Better: the latest way to a place counts.
BetterLatest(s, n, g) == TRUE

Better(s, n, g) == g < s.nodes[s.open_map[n]].g

\* One neighbour of the node parent, after parent's place was closed.
Relax(s, move, parent) ==
  LET n == move.to
      g == s.nodes[parent].g + move.cost
  IN  IF \/ n \in closed \cup {PlaceOf(s.nodes[parent])}
         \/ map.limit > 0 /\ g + map.estimate[n] > map.limit
      THEN s
      ELSE IF n \notin DOMAIN s.open_map THEN Discover(s, move, g, parent)
      ELSE IF Better(s, n, g) THEN Improve(s, move, g, parent)
      ELSE s

\* All of them, one after the other.
RelaxAll(s, moves, parent) ==
  LET relaxed[k \in 0 .. Len(moves)] == IF k = 0 THEN s ELSE Relax(relaxed[k - 1], moves[k], parent)
  IN  relaxed[Len(moves)]

Init ==
  /\ map \in Searches
  /\ nodes = <<Node(Start, 0, None, 1)>>
  /\ heap = <<1>>
  /\ open_map = [n \in {map.start} |-> 1]
  /\ closed = {}
  /\ best = 1
  /\ status = Computing

Popped == HeapPop([nodes |-> nodes, heap |-> heap])

\* The round that reaches the goal: the node stays in open_map.
FindGoal ==
  /\ status = Computing
  /\ heap # <<>>
  /\ PlaceOf(nodes[Head(heap)]) \in map.ends
  /\ nodes' = Popped.nodes
  /\ heap' = Popped.heap
  /\ status' = Returned("success", Head(heap))
  /\ UNCHANGED <<map, open_map, closed, best>>

ExpandNode ==
  /\ status = Computing
  /\ heap # <<>>
  /\ PlaceOf(nodes[Head(heap)]) \notin map.ends
  /\ LET i == Head(heap)
         n == PlaceOf(nodes[i])
         s == RelaxAll([nodes |-> Popped.nodes, heap |-> Popped.heap, best |-> best,
                        open_map |-> [m \in DOMAIN open_map \ {n} |-> open_map[m]]],
                       map.moves[n], i)
     IN  /\ nodes' = s.nodes
         /\ heap' = s.heap
         /\ open_map' = s.open_map
         /\ best' = s.best
         /\ closed' = closed \cup {n}
  /\ UNCHANGED <<map, status>>

NoPath ==
  /\ status = Computing
  /\ heap = <<>>
  /\ status' = Returned("no_path", best)
  /\ UNCHANGED <<map, nodes, heap, open_map, closed, best>>

\* A budget is spent: the tick's, after which compute may be called again,
\* or the whole search's.
SliceEnds(kind) ==
  /\ status = Computing
  /\ heap # <<>>
  /\ status' = Returned(kind, best)
  /\ UNCHANGED <<map, nodes, heap, open_map, closed, best>>

Compute ==
  /\ status.kind = "partial"
  /\ status' = Computing
  /\ UNCHANGED <<map, nodes, heap, open_map, closed, best>>

Next ==
  \/ FindGoal \/ ExpandNode \/ NoPath \/ Compute
  \/ SliceEnds("partial") \/ SliceEnds("timeout")

Spec == Init /\ [][Next]_vars

-----------------------------------------------------------------------------
\* The path from the start to a node: reconstruct.
Reconstruct(i) ==
  LET to[j \in DOMAIN nodes] ==
        IF nodes[j].parent = None THEN <<j>> ELSE Append(to[nodes[j].parent], j)
  IN  to[i]

TypeOK ==
  /\ \A i \in DOMAIN nodes :
       /\ PlaceOf(nodes[i]) \in Place
       /\ nodes[i].g \in Nat
       /\ nodes[i].h = map.estimate[PlaceOf(nodes[i])]
       /\ nodes[i].parent \in {None} \cup DOMAIN nodes
  /\ closed \subseteq Place
  /\ best \in DOMAIN nodes
  /\ status = Computing \/ status.kind \in {"success", "no_path", "partial", "timeout"}

\* astar.rs 68-122: between two rounds the heap is ordered, every node
\* knows where in it it is, and it holds exactly the nodes of open_map --
\* without the one that was found.
HeapOrdered ==
  /\ TypeOK
  /\ \A k \in 2 .. Len(heap) :
       F([nodes |-> nodes, heap |-> heap], k \div 2) <= F([nodes |-> nodes, heap |-> heap], k)
  /\ \A i \in DOMAIN nodes :
       IF nodes[i].heap_index = None THEN i \notin Range(heap)
       ELSE heap[nodes[i].heap_index] = i
  /\ Range(heap) = Range(open_map) \ (IF status.kind = "success" THEN {status.node} ELSE {})
  /\ \A n \in DOMAIN open_map : PlaceOf(nodes[open_map[n]]) = n /\ n \notin closed

\* astar.rs 124-144, 190, 208: whatever compute returns, its path leads from
\* the start to the node it is about, by moves of the map that cost what it
\* says; and if that is not the goal, to a place as close as any it has seen.
PathIsReal ==
  status # Computing =>
    LET path == Reconstruct(status.node)
    IN  /\ nodes[path[1]].data = Start /\ nodes[path[1]].g = 0
        /\ \A k \in 1 .. Len(path) - 1 :
             LET a == nodes[path[k]]
                 b == nodes[path[k + 1]]
             IN  b.data \in Range(map.moves[PlaceOf(a)]) /\ b.g = a.g + b.data.cost
        /\ status.kind # "success" => \A i \in DOMAIN nodes : nodes[status.node].h <= nodes[i].h

\* goals.rs 8, which calls its estimates admissible, is about this: the
\* path found is a cheapest one, for an estimate that never falls by more
\* than a move costs; and none is found only if there is none (within the
\* radius).
Consistent ==
  \A n \in Place : \A k \in DOMAIN map.moves[n] :
    LET move == map.moves[n][k] IN map.estimate[n] <= move.cost + map.estimate[move.to]

\* The reference: the least cost of a walk to each place that can be
\* reached, as pairs, by walks lengthened as long as that makes one cheaper
\* (best: of the walks up to that length; new: those that are cheaper now).
\* The estimates at the ends count too: they are not 0 for every goal.
Lengthened(costs) ==
  UNION {{<<move.to, c[2] + move.cost>> : move \in Range(map.moves[c[1]])} : c \in costs.new}
Lengthen(costs) ==
  LET offers == Lengthened(costs)
      better == {o \in offers : /\ \A q \in offers : q[1] = o[1] => o[2] <= q[2]
                                /\ \A q \in costs.best : q[1] = o[1] => o[2] < q[2]}
  IN  [best |-> {q \in costs.best : \A o \in better : o[1] # q[1]} \cup better, new |-> better]

Standing == [best |-> {<<map.start, 0>>}, new |-> {<<map.start, 0>>}]
WalkCosts ==
  LET costs[k \in 0 .. Cardinality(Place)] == IF k = 0 THEN Standing ELSE Lengthen(costs[k - 1])
  IN  {c[2] + map.estimate[c[1]] : c \in {q \in costs[Cardinality(Place)].best : q[1] \in map.ends}}

FindsCheapest ==
  /\ status.kind = "success" /\ Consistent => nodes[status.node].g + nodes[status.node].h = Min(WalkCosts)
  /\ status.kind = "no_path" /\ map.limit = 0 => WalkCosts = {}

\* The search implements BestFirst: its open places are those in the heap,
\* the cost of a place is that of its node.
OpenPlaces == {PlaceOf(nodes[i]) : i \in Range(heap)}
CostSoFar == [n \in Place |-> IF \E i \in DOMAIN nodes : PlaceOf(nodes[i]) = n
                              THEN nodes[CHOOSE i \in DOMAIN nodes : PlaceOf(nodes[i]) = n].g ELSE 0]
Outcome == IF status.kind \in {"computing", "partial"} THEN "searching" ELSE status.kind
FoundPlaces == IF status.kind = "success" THEN {PlaceOf(nodes[status.node])} ELSE {}

Unordered(s) ==
  [start |-> s.start, ends |-> s.ends, estimate |-> s.estimate, limit |-> s.limit,
   moves |-> [n \in Place |-> {[to |-> move.to, cost |-> move.cost] : move \in Range(s.moves[n])}]]
UnorderedSearches == {Unordered(s) : s \in Searches}
UnorderedMap == Unordered(map)
Search == INSTANCE BestFirst WITH
  Maps <- UnorderedSearches, map <- UnorderedMap, cost <- CostSoFar, open <- OpenPlaces,
  outcome <- Outcome, found <- FoundPlaces
ImplementsBestFirst == Search!SearchSpec
=============================================================================
