----------------------------- MODULE AStarProofs -----------------------------
(***************************************************************************)
(* What is proved of AStar, for all searches that its assumption allows:   *)
(* its heap stays ordered, the paths it returns are real, it implements    *)
(* BestFirst, and so the ways it finds are the cheapest, as the reference  *)
(* of AStar computes them; and of PathFinding, for all worlds: what its    *)
(* paths dig and that they can be walked.                                  *)
(*                                                                         *)
(* From the bottom up: what bubble_up and sift_down make of a heap; what a *)
(* push and a pop do; what one neighbour does to the arena; what all of    *)
(* them do; the invariant; what follows from it; the reference and what it *)
(* says of the search; and, from the moves of a world one by one, what     *)
(* walking a path makes of the world.                                      *)
(***************************************************************************)
EXTENDS PathFinding, SequenceTheorems, FiniteSetTheorems, WellFoundedInduction, TLAPS

-----------------------------------------------------------------------------
(* Numbers.                                                                *)

\* Sets of naturals have a least element.
LEMMA LeastNatural ==
  ASSUME NEW T, T \subseteq Nat, T # {}
  PROVE  \E x \in T : \A y \in T : x <= y
<1>1. PICK x \in T : \A y \in T : ~(<<y, x>> \in OpToRel(<, Nat))
  BY NatLessThanWellFounded, WFMin
<1>2. ASSUME NEW y \in T PROVE x <= y
  <2>1. <<y, x>> \notin OpToRel(<, Nat) BY <1>1
  <2>2. <<y, x>> \in Nat \X Nat BY DEF OpToRel
  <2>3. ~(y < x) BY <2>1, <2>2 DEF OpToRel
  <2> QED BY <2>3
<1> QED BY <1>2

\* Parents and children in a binary heap.
LEMMA Halving ==
  ASSUME NEW k \in Nat, k > 1
  PROVE  /\ k \div 2 \in Nat /\ k \div 2 >= 1 /\ k \div 2 < k
         /\ \A m \in Nat : k \div 2 = m <=> k = 2 * m \/ k = 2 * m + 1
OBVIOUS

-----------------------------------------------------------------------------
(* Nodes and heaps.                                                        *)

Moves(s) == UNION {{s.moves[n][i] : i \in 1 .. Len(s.moves[n])} : n \in Place}
Data == {[to |-> s.start, cost |-> 0] : s \in Searches} \cup UNION {Moves(s) : s \in Searches}

\* What a node may be.
Nodes == [data : Data, g : Nat, h : Int, parent : Nat, heap_index : Nat]

\* Nodes that are the same but for their place in the heap.
Same(a, b) == a.data = b.data /\ a.g = b.g /\ a.h = b.h /\ a.parent = b.parent

HeapType(w) ==
  /\ w.nodes \in Seq(Nodes) /\ w.heap \in Seq(Nat)
  /\ \A k \in 1 .. Len(w.heap) : w.heap[k] \in 1 .. Len(w.nodes)

\* Each node in the heap knows where it is, and the others that they are not.
Placed(w) ==
  /\ \A k \in 1 .. Len(w.heap) : w.nodes[w.heap[k]].heap_index = k
  /\ \A i \in 1 .. Len(w.nodes) :
       w.nodes[i].heap_index = None \/ (w.nodes[i].heap_index \in 1 .. Len(w.heap) /\ w.heap[w.nodes[i].heap_index] = i)

\* A heap with the same nodes, in another order.
Reordered(w, v) ==
  /\ Len(v.heap) = Len(w.heap) /\ Range(v.heap) = Range(w.heap)
  /\ Len(v.nodes) = Len(w.nodes)
  /\ \A i \in 1 .. Len(w.nodes) : Same(v.nodes[i], w.nodes[i])

\* No parent is greater.
Ordered(w) == \A k \in 2 .. Len(w.heap) : F(w, k \div 2) <= F(w, k)

\* Every place in the heap has an f.
LEMMA FType ==
  ASSUME NEW w, HeapType(w), NEW k \in 1 .. Len(w.heap)
  PROVE  F(w, k) \in Int
<1>1. w.nodes[w.heap[k]] \in Nodes BY DEF HeapType
<1>2. w.nodes[w.heap[k]].g \in Nat /\ w.nodes[w.heap[k]].h \in Int BY <1>1 DEF Nodes
<1> QED BY <1>2 DEF F

\* A node put elsewhere in the heap is the same node.
LEMMA NodePlaced ==
  ASSUME NEW x \in Nodes, NEW k \in Nat, NEW y, y = [x EXCEPT !.heap_index = k]
  PROVE  y \in Nodes /\ Same(y, x) /\ y.heap_index = k
BY DEF Nodes, Same

\* A swap exchanges two entries, and what they are ordered by.
LEMMA SwapEffect ==
  ASSUME NEW w, HeapType(w), Placed(w),
         NEW i \in 1 .. Len(w.heap), NEW j \in 1 .. Len(w.heap), i # j,
         NEW v, v = Swap(w, i, j)
  PROVE  /\ HeapType(v) /\ Placed(v) /\ Reordered(w, v)
         /\ F(v, i) = F(w, j) /\ F(v, j) = F(w, i)
         /\ \A k \in 1 .. Len(w.heap) \ {i, j} : F(v, k) = F(w, k)
<1> DEFINE swapped == [w.heap EXCEPT ![i] = w.heap[j], ![j] = w.heap[i]]
           a == w.heap[i]
           b == w.heap[j]
           once == [w.nodes EXCEPT ![b].heap_index = i]
           twice == [once EXCEPT ![a].heap_index = j]
<1>1. Len(w.heap) \in Nat /\ Len(w.nodes) \in Nat /\ DOMAIN w.heap = 1 .. Len(w.heap)
      /\ DOMAIN w.nodes = 1 .. Len(w.nodes)
  BY DEF HeapType
<1>2. /\ swapped \in Seq(Nat) /\ Len(swapped) = Len(w.heap)
      /\ swapped[i] = b /\ swapped[j] = a
      /\ \A k \in 1 .. Len(w.heap) \ {i, j} : swapped[k] = w.heap[k]
  <2>1. w.heap \in Seq(Nat) /\ a \in Nat /\ b \in Nat
    <3>1. w.heap \in Seq(Nat) BY DEF HeapType
    <3> QED BY <3>1
  <2>2. PICK once_ : once_ = [w.heap EXCEPT ![i] = b] OBVIOUS
  <2>3. once_ \in Seq(Nat) /\ Len(once_) = Len(w.heap) /\ once_[i] = b
        /\ \A k \in 1 .. Len(w.heap) \ {i} : once_[k] = w.heap[k]
    <3> HIDE DEF a, b
    <3> QED BY <1>1, <2>1, <2>2
  <2>4. swapped = [once_ EXCEPT ![j] = a] BY <2>2
  <2> HIDE DEF swapped, a, b
  <2>5. DOMAIN once_ = 1 .. Len(w.heap) /\ j \in DOMAIN once_ BY <2>3
  <2>6. swapped \in Seq(Nat) /\ Len(swapped) = Len(once_) BY <2>1, <2>3, <2>4, <2>5
  <2>7. swapped[j] = a /\ \A k \in 1 .. Len(w.heap) \ {j} : swapped[k] = once_[k] BY <2>4, <2>5
  <2> QED BY <2>3, <2>6, <2>7
<1>3. v.heap = swapped /\ v.nodes = twice
  BY <1>2 DEF Swap
<1>4. a \in 1 .. Len(w.nodes) /\ b \in 1 .. Len(w.nodes) /\ a # b
  BY DEF HeapType, Placed
<1> HIDE DEF swapped, a, b
<1>5. \A k \in 1 .. Len(w.nodes) : w.nodes[k] \in Nodes BY DEF HeapType
<1>6. /\ twice \in Seq(Nodes) /\ Len(twice) = Len(w.nodes)
      /\ twice[b] = [w.nodes[b] EXCEPT !.heap_index = i]
      /\ twice[a] = [w.nodes[a] EXCEPT !.heap_index = j]
      /\ \A k \in 1 .. Len(w.nodes) \ {a, b} : twice[k] = w.nodes[k]
  <2>1. [w.nodes[b] EXCEPT !.heap_index = i] \in Nodes /\ [w.nodes[a] EXCEPT !.heap_index = j] \in Nodes
    <3>1. i \in Nat /\ j \in Nat BY <1>1
    <3> QED BY <1>4, <1>5, <3>1, NodePlaced
  <2>2. once = [w.nodes EXCEPT ![b] = [w.nodes[b] EXCEPT !.heap_index = i]] OBVIOUS
  <2>3. once \in Seq(Nodes) /\ Len(once) = Len(w.nodes) /\ DOMAIN once = DOMAIN w.nodes
        /\ once[b] = [w.nodes[b] EXCEPT !.heap_index = i]
        /\ \A k \in 1 .. Len(w.nodes) \ {b} : once[k] = w.nodes[k]
    BY <1>1, <1>4, <2>1, <2>2 DEF HeapType
  <2> HIDE DEF once
  <2>4. twice = [once EXCEPT ![a] = [w.nodes[a] EXCEPT !.heap_index = j]]
    <3>1. once[a] = w.nodes[a] BY <1>4, <2>3
    <3>2. twice = [once EXCEPT ![a] = [once[a] EXCEPT !.heap_index = j]] OBVIOUS
    <3> HIDE DEF twice
    <3> QED BY <3>1, <3>2
  <2> HIDE DEF twice
  <2> QED BY <1>1, <1>4, <2>1, <2>3, <2>4
<1> HIDE DEF twice
<1>7. \A k \in 1 .. Len(w.nodes) : Same(twice[k], w.nodes[k])
      /\ (k = a => twice[k].heap_index = j) /\ (k = b => twice[k].heap_index = i)
      /\ (k \notin {a, b} => twice[k].heap_index = w.nodes[k].heap_index)
  <2>1. i \in Nat /\ j \in Nat BY <1>1
  <2>2. Same(twice[a], w.nodes[a]) /\ twice[a].heap_index = j BY <1>4, <1>5, <1>6, <2>1, NodePlaced
  <2>3. Same(twice[b], w.nodes[b]) /\ twice[b].heap_index = i BY <1>4, <1>5, <1>6, <2>1, NodePlaced
  <2>4. \A k \in 1 .. Len(w.nodes) \ {a, b} : Same(twice[k], w.nodes[k]) /\ twice[k].heap_index = w.nodes[k].heap_index
    BY <1>6 DEF Same
  <2> QED BY <1>4, <2>2, <2>3, <2>4
<1>8. HeapType(v)
  <2>1. \A k \in 1 .. Len(w.heap) : swapped[k] \in 1 .. Len(w.nodes)
    BY <1>2, <1>4 DEF HeapType
  <2> QED BY <1>2, <1>3, <1>6, <2>1 DEF HeapType
<1>9. Range(swapped) = Range(w.heap)
  <2>1. DOMAIN swapped = 1 .. Len(w.heap) BY <1>2
  <2>2. \A k \in 1 .. Len(w.heap) : \E m \in 1 .. Len(w.heap) : swapped[m] = w.heap[k]
    BY <1>2 DEF a, b
  <2>3. \A k \in 1 .. Len(w.heap) : \E m \in 1 .. Len(w.heap) : swapped[k] = w.heap[m]
    <3> TAKE k \in 1 .. Len(w.heap)
    <3>1. CASE k = i BY <1>2, <3>1 DEF b
    <3>2. CASE k = j BY <1>2, <3>2 DEF a
    <3>3. CASE k # i /\ k # j BY <1>2, <3>3
    <3> QED BY <3>1, <3>2, <3>3
  <2>4. ASSUME NEW x \in Range(swapped) PROVE x \in Range(w.heap)
    <3>1. PICK k \in 1 .. Len(w.heap) : x = swapped[k] BY <2>1 DEF Range
    <3>2. PICK m \in 1 .. Len(w.heap) : x = w.heap[m] BY <2>3, <3>1
    <3> QED BY <1>1, <3>2 DEF Range
  <2>5. ASSUME NEW x \in Range(w.heap) PROVE x \in Range(swapped)
    <3>1. PICK k \in 1 .. Len(w.heap) : x = w.heap[k] BY <1>1 DEF Range
    <3>2. PICK m \in 1 .. Len(w.heap) : swapped[m] = x BY <2>2, <3>1
    <3> QED BY <2>1, <3>2 DEF Range
  <2> QED BY <2>4, <2>5
<1>10. Reordered(w, v) BY <1>2, <1>3, <1>6, <1>7, <1>9 DEF Reordered
<1>11. Placed(v)
  <2>1. \A k \in 1 .. Len(w.heap) : k # i /\ k # j => w.heap[k] \notin {a, b}
    BY DEF Placed, a, b
  <2>2. \A k \in 1 .. Len(w.heap) : twice[swapped[k]].heap_index = k
    <3>1. twice[swapped[i]].heap_index = i /\ twice[swapped[j]].heap_index = j BY <1>2, <1>4, <1>7
    <3>2. ASSUME NEW k \in 1 .. Len(w.heap), k # i, k # j PROVE twice[swapped[k]].heap_index = k
      <4>1. swapped[k] = w.heap[k] /\ w.heap[k] \notin {a, b} /\ w.heap[k] \in 1 .. Len(w.nodes)
        BY <1>2, <2>1, <3>2 DEF HeapType
      <4>2. twice[w.heap[k]].heap_index = w.nodes[w.heap[k]].heap_index BY <1>7, <4>1
      <4> QED BY <4>1, <4>2 DEF Placed
    <3> QED BY <3>1, <3>2
  <2>3. w.nodes[a].heap_index = i /\ w.nodes[b].heap_index = j BY DEF Placed, a, b
  <2>4. ASSUME NEW k \in 1 .. Len(w.nodes), k \notin {a, b}, twice[k].heap_index # None
        PROVE  twice[k].heap_index \in 1 .. Len(w.heap) /\ swapped[twice[k].heap_index] = k
    <3>1. twice[k].heap_index = w.nodes[k].heap_index BY <1>7, <2>4
    <3>2. w.nodes[k].heap_index \in 1 .. Len(w.heap) /\ w.heap[w.nodes[k].heap_index] = k
      BY <2>4, <3>1 DEF Placed
    <3>3. w.nodes[k].heap_index # i /\ w.nodes[k].heap_index # j BY <2>4, <3>2 DEF a, b
    <3> QED BY <1>2, <3>1, <3>2, <3>3
  <2>5. \A k \in 1 .. Len(w.nodes) :
          twice[k].heap_index = None \/ (twice[k].heap_index \in 1 .. Len(w.heap) /\ swapped[twice[k].heap_index] = k)
    BY <1>2, <1>4, <1>7, <2>4
  <2> QED BY <1>2, <1>3, <1>6, <2>2, <2>5 DEF Placed
<1>12. /\ F(v, i) = F(w, j) /\ F(v, j) = F(w, i)
       /\ \A k \in 1 .. Len(w.heap) \ {i, j} : F(v, k) = F(w, k)
  <2>1. \A k \in 1 .. Len(w.nodes) : twice[k].g = w.nodes[k].g /\ twice[k].h = w.nodes[k].h
    BY <1>7 DEF Same
  <2>2. F(v, i) = F(w, j) /\ F(v, j) = F(w, i)
    <3>1. F(v, i) = w.nodes[b].g + w.nodes[b].h BY <1>2, <1>3, <1>4, <2>1 DEF F
    <3>2. F(v, j) = w.nodes[a].g + w.nodes[a].h BY <1>2, <1>3, <1>4, <2>1 DEF F
    <3> QED BY <3>1, <3>2 DEF F, a, b
  <2>3. \A k \in 1 .. Len(w.heap) \ {i, j} : F(v, k) = F(w, k)
    <3> TAKE k \in 1 .. Len(w.heap) \ {i, j}
    <3>1. v.heap[k] = w.heap[k] /\ w.heap[k] \in 1 .. Len(w.nodes) BY <1>2, <1>3 DEF HeapType
    <3> QED BY <1>3, <2>1, <3>1 DEF F
  <2> QED BY <2>2, <2>3
<1> QED BY <1>8, <1>10, <1>11, <1>12

\* A heap is a reordering of itself,
LEMMA ReorderedSame ==
  ASSUME NEW w
  PROVE  Reordered(w, w)
BY DEF Reordered, Same

\* and reordering twice is reordering.
LEMMA ReorderedOn ==
  ASSUME NEW u, NEW v, NEW w, Reordered(u, v), Reordered(v, w)
  PROVE  Reordered(u, w)
BY DEF Reordered, Same

-----------------------------------------------------------------------------
(* Moving up.                                                              *)

\* The rounds of bubble_up, from c, the first n of them.
IsClimbing(g, c, n) == g = [round \in 0 .. n |-> IF round = 0 THEN c ELSE Climb(g[round - 1])]

\* There are such rounds, however many.
LEMMA ClimbingExists ==
  ASSUME NEW c, NEW m \in Nat
  PROVE  \E g : IsClimbing(g, c, m)
<1> DEFINE T == {n \in Nat : ~\E g : IsClimbing(g, c, n)}
<1> SUFFICES ASSUME T # {} PROVE FALSE OBVIOUS
<1>1. PICK n \in T : \A y \in T : n <= y
  <2>1. T \subseteq Nat OBVIOUS
  <2> HIDE DEF T
  <2> QED BY <2>1, LeastNatural
<1>2. n # 0
  <2>1. IsClimbing([round \in 0 .. 0 |-> c], c, 0) BY DEF IsClimbing
  <2> QED BY <2>1
<1>3. n - 1 \in Nat /\ n - 1 \notin T BY <1>1, <1>2
<1>4. PICK g : IsClimbing(g, c, n - 1) BY <1>3
<1> DEFINE h == [round \in 0 .. n |-> IF round = 0 THEN c ELSE Climb(g[round - 1])]
<1>5. \A round \in 0 .. n - 1 : h[round] = g[round]
  BY <1>3, <1>4 DEF IsClimbing
<1>6. IsClimbing(h, c, n)
  <2>1. \A round \in 0 .. n : h[round] = IF round = 0 THEN c ELSE Climb(h[round - 1])
    <3> TAKE round \in 0 .. n
    <3>1. CASE round = 0 BY <3>1
    <3>2. CASE round # 0
      <4>1. round - 1 \in 0 .. n - 1 BY <3>2
      <4>2. h[round - 1] = g[round - 1] BY <1>5, <4>1
      <4>3. h[round] = Climb(g[round - 1]) BY <3>2
      <4> QED BY <3>2, <4>2, <4>3
    <3> QED BY <3>1, <3>2
  <2>2. h = [round \in 0 .. n |-> h[round]] OBVIOUS
  <2> HIDE DEF h
  <2> QED BY <2>1, <2>2 DEF IsClimbing
<1> QED BY <1>6

\* BubbleUp is where the last of them ends.
LEMMA BubbleUpIs ==
  ASSUME NEW w, NEW i \in Nat
  PROVE  \E g : /\ g[0] = [w |-> w, at |-> i]
                /\ \A round \in 1 .. i : g[round] = Climb(g[round - 1])
                /\ BubbleUp(w, i) = g[i].w
<1> DEFINE c == [w |-> w, at |-> i]
           g == CHOOSE f : f = [round \in 0 .. i |-> IF round = 0 THEN c ELSE Climb(f[round - 1])]
<1>1. BubbleUp(w, i) = g[i].w BY DEF BubbleUp
<1>2. IsClimbing(g, c, i)
  <2>1. PICK f : IsClimbing(f, c, i) BY ClimbingExists
  <2>2. f = [round \in 0 .. i |-> IF round = 0 THEN c ELSE Climb(f[round - 1])] BY <2>1 DEF IsClimbing
  <2>3. g = [round \in 0 .. i |-> IF round = 0 THEN c ELSE Climb(g[round - 1])] BY <2>2
  <2> HIDE DEF g
  <2> QED BY <2>3 DEF IsClimbing
<1> HIDE DEF g, c
<1>3. g[0] = c /\ \A round \in 1 .. i : g[round] = Climb(g[round - 1]) BY <1>2 DEF IsClimbing
<1> QED BY <1>1, <1>3 DEF c

\* Ordered, but for a node at position `at' that may be too low.
TooLow(w, at) ==
  /\ \A k \in 2 .. Len(w.heap) : k # at => F(w, k \div 2) <= F(w, k)
  /\ \A k \in 2 .. Len(w.heap) : k \div 2 = at /\ at > 1 => F(w, at \div 2) <= F(w, k)

Climbing(w, c) ==
  /\ HeapType(c.w) /\ Placed(c.w) /\ Reordered(w, c.w)
  /\ c.at \in 1 .. Len(w.heap) /\ TooLow(c.w, c.at)

\* A round moves the node that is too low up, or leaves the heap ordered.
LEMMA ClimbKeeps ==
  ASSUME NEW w, HeapType(w), NEW c, Climbing(w, c)
  PROVE  /\ Climbing(w, Climb(c))
         /\ \/ Climb(c).at < c.at
            \/ Climb(c) = c /\ Ordered(c.w)
<1>0. PICK u, at : u = c.w /\ at = c.at OBVIOUS
<1>1. /\ Len(u.heap) = Len(w.heap) /\ Len(w.heap) \in Nat /\ at \in 1 .. Len(u.heap)
      /\ HeapType(u) /\ Placed(u) /\ TooLow(u, at)
  BY <1>0 DEF Climbing, Reordered, HeapType
<1>2. \A k \in 1 .. Len(u.heap) : F(u, k) \in Int BY <1>1, FType
<1>3. \A k \in 2 .. Len(u.heap) : k \div 2 \in 1 .. Len(u.heap)
  <2> TAKE k \in 2 .. Len(u.heap)
  <2>1. k \in Nat /\ k > 1 BY <1>1
  <2> QED BY <1>1, <2>1, Halving
<1>4. CASE at > 1 /\ F(u, at \div 2) > F(u, at)
  <2>0. PICK p \in Nat : p = at \div 2 BY <1>1, <1>4, Halving
  <2>1. p >= 1 /\ p < at /\ p \in 1 .. Len(u.heap) /\ p # at BY <1>1, <1>4, <2>0, Halving
  <2>2. PICK v : v = Swap(u, at, p) OBVIOUS
  <2>3. /\ HeapType(v) /\ Placed(v) /\ Reordered(u, v) /\ F(v, at) = F(u, p) /\ F(v, p) = F(u, at)
        /\ \A k \in 1 .. Len(u.heap) \ {at, p} : F(v, k) = F(u, k)
    BY <1>1, <2>1, <2>2, SwapEffect
  <2>4. Climb(c) = [w |-> v, at |-> p] BY <1>0, <1>4, <2>0, <2>2 DEF Climb
  <2>5. Len(v.heap) = Len(u.heap) BY <2>3 DEF Reordered
  <2>6. F(u, p) > F(u, at) BY <1>4, <2>0
  <2>7. ASSUME NEW k \in 2 .. Len(u.heap), k # p
        PROVE  F(v, k \div 2) <= F(v, k)
    <3>0. PICK q \in 1 .. Len(u.heap) : q = k \div 2 BY <1>3
    <3>1. q < k /\ (q = p <=> k = 2 * p \/ k = 2 * p + 1) BY <3>0, <1>1, <2>0, Halving
    <3>2. CASE k = at BY <1>2, <2>0, <2>1, <2>3, <2>6, <3>0, <3>2
    <3>3. CASE k # at /\ q = at
      <4>1. F(u, p) <= F(u, k) BY <1>1, <1>4, <2>0, <3>0, <3>3 DEF TooLow
      <4> QED BY <1>2, <2>3, <2>7, <3>0, <3>3, <4>1
    <3>4. CASE k # at /\ q = p
      <4>1. F(u, p) <= F(u, k) BY <1>1, <3>0, <3>4 DEF TooLow
      <4>2. F(v, k) = F(u, k) /\ F(v, p) = F(u, at) BY <1>1, <2>3, <2>7, <3>4
      <4>3. F(u, p) \in Int /\ F(u, k) \in Int /\ F(u, at) \in Int BY <1>1, <1>2, <2>1
      <4> QED BY <2>6, <3>0, <3>4, <4>1, <4>2, <4>3
    <3>5. CASE k # at /\ q # at /\ q # p
      <4>1. F(u, q) <= F(u, k) BY <1>1, <3>0, <3>5 DEF TooLow
      <4> QED BY <1>1, <2>3, <2>7, <3>0, <3>5, <4>1
    <3> QED BY <3>2, <3>3, <3>4, <3>5
  <2>8. ASSUME NEW k \in 2 .. Len(u.heap), k \div 2 = p, p > 1
        PROVE  F(v, p \div 2) <= F(v, k)
    <3>0. PICK q \in 1 .. Len(u.heap) : q = p \div 2 BY <1>3, <2>1, <2>8
    <3>1. q < p BY <2>0, <2>8, <3>0, Halving
    <3>2. F(u, q) <= F(u, p) BY <1>1, <2>1, <2>8, <3>0 DEF TooLow
    <3>3. F(v, q) = F(u, q) BY <2>1, <2>3, <3>1
    <3>4. F(u, p) <= F(v, k)
      <4>1. CASE k = at BY <1>2, <2>1, <2>3, <4>1
      <4>2. CASE k # at
        <5>1. F(u, p) <= F(u, k) BY <1>1, <2>8, <4>2 DEF TooLow
        <5>2. k # p BY <2>8, <1>1, Halving
        <5> QED BY <1>1, <2>3, <4>2, <5>1, <5>2
      <4> QED BY <4>1, <4>2
    <3>5. F(v, k) \in Int /\ F(u, q) \in Int /\ F(u, p) \in Int
      <4>1. k \in 1 .. Len(v.heap) BY <1>1, <2>5
      <4> QED BY <1>2, <2>1, <2>3, <4>1, FType
    <3> QED BY <3>0, <3>2, <3>3, <3>4, <3>5
  <2>9. TooLow(v, p) BY <2>5, <2>7, <2>8 DEF TooLow
  <2>10. Reordered(w, v) BY <1>0, <2>3, ReorderedOn DEF Climbing
  <2>11. Climb(c).w = v /\ Climb(c).at = p BY <2>4
  <2> QED BY <1>0, <1>1, <2>1, <2>3, <2>9, <2>10, <2>11 DEF Climbing
<1>5. CASE ~(at > 1 /\ F(u, at \div 2) > F(u, at))
  <2>1. Climb(c) = c BY <1>0, <1>5 DEF Climb
  <2>2. ASSUME NEW k \in 2 .. Len(u.heap) PROVE F(u, k \div 2) <= F(u, k)
    <3>1. CASE k # at BY <1>1, <3>1 DEF TooLow
    <3>2. CASE k = at
      <4>1. at > 1 BY <1>1, <3>2
      <4>2. F(u, at \div 2) \in Int /\ F(u, at) \in Int BY <1>1, <1>2, <1>3, <3>2
      <4> QED BY <1>5, <3>2, <4>1, <4>2
    <3> QED BY <3>1, <3>2
  <2> QED BY <1>0, <2>1, <2>2 DEF Ordered
<1> QED BY <1>4, <1>5

\* No round changes it any more.
Top(c) == Climb(c) = c /\ Ordered(c.w)

\* A node that was too low moves to where it belongs.
LEMMA BubbleUpEffect ==
  ASSUME NEW w, HeapType(w), Placed(w), NEW i \in 1 .. Len(w.heap), TooLow(w, i),
         NEW v, v = BubbleUp(w, i)
  PROVE  HeapType(v) /\ Placed(v) /\ Reordered(w, v) /\ Ordered(v)
<1>0. i \in Nat /\ Len(w.heap) \in Nat BY DEF HeapType
<1>1. PICK g : /\ g[0] = [w |-> w, at |-> i]
               /\ \A round \in 1 .. i : g[round] = Climb(g[round - 1])
               /\ BubbleUp(w, i) = g[i].w
  BY <1>0, BubbleUpIs
<1> DEFINE Fine(n) == Climbing(w, g[n]) /\ (g[n].at + n <= i \/ Top(g[n]))
           T == {n \in 0 .. i : ~Fine(n)}
<1>2. T = {}
  <2> SUFFICES ASSUME T # {} PROVE FALSE OBVIOUS
  <2>1. PICK n \in T : \A y \in T : n <= y
    <3>1. T \subseteq Nat BY <1>0
    <3> HIDE DEF T
    <3> QED BY <3>1, LeastNatural
  <2>2. Fine(0)
    <3>1. g[0].w = w /\ g[0].at = i BY <1>1
    <3>2. g[0].at + 0 <= i BY <1>0, <3>1
    <3>3. Climbing(w, g[0]) BY <3>1, ReorderedSame DEF Climbing
    <3> QED BY <3>2, <3>3
  <2>3. n # 0 BY <2>1, <2>2
  <2>4. PICK m \in 0 .. i : m = n - 1 BY <2>1, <2>3
  <2>5. Fine(m) BY <2>1, <2>3, <2>4
  <2>6. g[n] = Climb(g[m]) BY <1>1, <2>1, <2>3, <2>4
  <2>7. PICK c : c = g[m] OBVIOUS
  <2>8. /\ Climbing(w, Climb(c)) /\ Climbing(w, c)
        /\ \/ Climb(c).at < c.at
           \/ Climb(c) = c /\ Ordered(c.w)
    BY <2>5, <2>7, ClimbKeeps
  <2>9. c.at \in Nat /\ Climb(c).at \in Nat
    <3>1. c.at \in 1 .. Len(w.heap) /\ Climb(c).at \in 1 .. Len(w.heap) BY <2>8 DEF Climbing
    <3> QED BY <1>0, <3>1
  <2>10. Climb(c).at + n <= i \/ Top(Climb(c))
    <3>1. CASE Climb(c) = c /\ Ordered(c.w) BY <3>1 DEF Top
    <3>2. CASE Climb(c).at < c.at /\ c.at + m <= i
      <4>1. Climb(c).at + n <= i BY <2>4, <2>9, <3>2, <1>0
      <4> QED BY <4>1
    <3>3. c.at + m <= i \/ Top(c) BY <2>5, <2>7
    <3> QED BY <2>8, <3>1, <3>2, <3>3 DEF Top
  <2>11. Fine(n) BY <2>6, <2>7, <2>8, <2>10
  <2> QED BY <2>1, <2>11
<1>3. Fine(i)
  <2>1. i \in 0 .. i BY <1>0
  <2> QED BY <1>2, <2>1
<1>4. PICK c : c = g[i] OBVIOUS
<1>5. Climbing(w, c) /\ (c.at + i <= i \/ Top(c)) BY <1>3, <1>4
<1>6. c.at \in 1 .. Len(w.heap) BY <1>5 DEF Climbing
<1>7. Ordered(c.w)
  <2>1. ~(c.at + i <= i) BY <1>0, <1>6
  <2> QED BY <1>5, <2>1 DEF Top
<1>8. v = c.w BY <1>1, <1>4
<1> QED BY <1>5, <1>7, <1>8 DEF Climbing

-----------------------------------------------------------------------------
(* Moving down.                                                            *)

\* The rounds of sift_down, from c, the first n of them.
IsSinking(g, c, n) == g = [round \in 0 .. n |-> IF round = 0 THEN c ELSE Sink(g[round - 1])]

\* There are such rounds, however many.
LEMMA SinkingExists ==
  ASSUME NEW c, NEW m \in Nat
  PROVE  \E g : IsSinking(g, c, m)
<1> DEFINE T == {n \in Nat : ~\E g : IsSinking(g, c, n)}
<1> SUFFICES ASSUME T # {} PROVE FALSE OBVIOUS
<1>1. PICK n \in T : \A y \in T : n <= y
  <2>1. T \subseteq Nat OBVIOUS
  <2> HIDE DEF T
  <2> QED BY <2>1, LeastNatural
<1>2. n # 0
  <2>1. IsSinking([round \in 0 .. 0 |-> c], c, 0) BY DEF IsSinking
  <2> QED BY <2>1
<1>3. n - 1 \in Nat /\ n - 1 \notin T BY <1>1, <1>2
<1>4. PICK g : IsSinking(g, c, n - 1) BY <1>3
<1> DEFINE h == [round \in 0 .. n |-> IF round = 0 THEN c ELSE Sink(g[round - 1])]
<1>5. \A round \in 0 .. n - 1 : h[round] = g[round]
  BY <1>3, <1>4 DEF IsSinking
<1>6. IsSinking(h, c, n)
  <2>1. \A round \in 0 .. n : h[round] = IF round = 0 THEN c ELSE Sink(h[round - 1])
    <3> TAKE round \in 0 .. n
    <3>1. CASE round = 0 BY <3>1
    <3>2. CASE round # 0
      <4>1. round - 1 \in 0 .. n - 1 BY <3>2
      <4>2. h[round - 1] = g[round - 1] BY <1>5, <4>1
      <4>3. h[round] = Sink(g[round - 1]) BY <3>2
      <4> QED BY <3>2, <4>2, <4>3
    <3> QED BY <3>1, <3>2
  <2>2. h = [round \in 0 .. n |-> h[round]] OBVIOUS
  <2> HIDE DEF h
  <2> QED BY <2>1, <2>2 DEF IsSinking
<1> QED BY <1>6

\* SiftDown is where the last of them ends.
LEMMA SiftDownIs ==
  ASSUME NEW w, NEW n \in Nat, n = Len(w.heap), NEW i
  PROVE  \E g : /\ g[0] = [w |-> w, at |-> i]
                /\ \A round \in 1 .. n : g[round] = Sink(g[round - 1])
                /\ SiftDown(w, i) = g[n].w
<1> DEFINE c == [w |-> w, at |-> i]
           g == CHOOSE f : f = [round \in 0 .. Len(w.heap) |-> IF round = 0 THEN c ELSE Sink(f[round - 1])]
<1>1. SiftDown(w, i) = g[Len(w.heap)].w BY DEF SiftDown
<1>2. IsSinking(g, c, n)
  <2>1. PICK f : IsSinking(f, c, n) BY SinkingExists
  <2>2. f = [round \in 0 .. Len(w.heap) |-> IF round = 0 THEN c ELSE Sink(f[round - 1])] BY <2>1 DEF IsSinking
  <2>3. g = [round \in 0 .. Len(w.heap) |-> IF round = 0 THEN c ELSE Sink(g[round - 1])] BY <2>2
  <2> HIDE DEF g
  <2> QED BY <2>3 DEF IsSinking
<1> HIDE DEF g, c
<1>3. g[0] = c /\ \A round \in 1 .. n : g[round] = Sink(g[round - 1]) BY <1>2 DEF IsSinking
<1> QED BY <1>1, <1>3 DEF c

\* Ordered, but for a node at position `at' that may be too high.
TooHigh(w, at) ==
  /\ \A k \in 2 .. Len(w.heap) : k \div 2 # at => F(w, k \div 2) <= F(w, k)
  /\ \A k \in 2 .. Len(w.heap) : k \div 2 = at /\ at > 1 => F(w, at \div 2) <= F(w, k)

Sinking(w, c) ==
  /\ HeapType(c.w) /\ Placed(c.w) /\ Reordered(w, c.w)
  /\ c.at \in 1 .. Len(w.heap) /\ TooHigh(c.w, c.at)

\* Smallest names the position of a node or a child of it, and none of them
\* has a lower f.
LEMMA SmallestIs ==
  ASSUME NEW w, HeapType(w), NEW at \in 1 .. Len(w.heap), NEW m, m = Smallest(w, at)
  PROVE  /\ m \in {at, 2 * at, 2 * at + 1} /\ m \in 1 .. Len(w.heap)
         /\ \A k \in {at, 2 * at, 2 * at + 1} : k \in 1 .. Len(w.heap) => F(w, m) <= F(w, k)
<1> DEFINE family == {k \in {at, 2 * at, 2 * at + 1} : k <= Len(w.heap)}
           least == {k \in family : \A l \in family : F(w, k) <= F(w, l)}
<1>1. Len(w.heap) \in Nat BY DEF HeapType
<1>2. family \subseteq 1 .. Len(w.heap) BY <1>1
<1>3. \A k \in family : F(w, k) \in Int BY <1>2, FType
<1>4. least # {}
  <2>1. at \in family BY <1>1
  <2>2. CASE 2 * at \notin family
    <3>1. family = {at} BY <1>1, <2>1, <2>2
    <3>2. at \in least BY <1>3, <3>1
    <3> QED BY <3>2
  <2>3. CASE 2 * at \in family /\ 2 * at + 1 \notin family
    <3>1. family = {at, 2 * at} BY <1>1, <2>1, <2>3
    <3>2. at \in least \/ 2 * at \in least BY <1>3, <3>1
    <3> QED BY <3>2
  <2>4. CASE 2 * at \in family /\ 2 * at + 1 \in family
    <3>1. family = {at, 2 * at, 2 * at + 1} BY <1>1, <2>1, <2>4
    <3>2. at \in least \/ 2 * at \in least \/ 2 * at + 1 \in least BY <1>3, <3>1
    <3> QED BY <3>2
  <2> QED BY <2>2, <2>3, <2>4, <1>1
<1>5. Min(least) \in least
  <2>1. least \subseteq Nat BY <1>2
  <2> HIDE DEF least
  <2>2. \E x \in least : \A y \in least : x <= y BY <1>4, <2>1, LeastNatural
  <2> QED BY <2>2 DEF Min
<1>6. m \in least BY <1>5 DEF Smallest
<1> QED BY <1>1, <1>2, <1>6

\* A round moves the node that is too high down, or leaves the heap ordered.
LEMMA SinkKeeps ==
  ASSUME NEW w, HeapType(w), NEW c, Sinking(w, c)
  PROVE  /\ Sinking(w, Sink(c))
         /\ \/ Sink(c).at > c.at
            \/ Sink(c) = c /\ Ordered(c.w)
<1>0. PICK u, at : u = c.w /\ at = c.at OBVIOUS
<1>1. /\ Len(u.heap) = Len(w.heap) /\ Len(w.heap) \in Nat /\ at \in 1 .. Len(u.heap)
      /\ HeapType(u) /\ Placed(u) /\ TooHigh(u, at)
  BY <1>0 DEF Sinking, Reordered, HeapType
<1>2. \A k \in 1 .. Len(u.heap) : F(u, k) \in Int BY <1>1, FType
<1>3. \A k \in 2 .. Len(u.heap) : k \div 2 \in 1 .. Len(u.heap)
  <2> TAKE k \in 2 .. Len(u.heap)
  <2>1. k \in Nat /\ k > 1 BY <1>1
  <2> QED BY <1>1, <2>1, Halving
<1>4. PICK m : m = Smallest(u, at) OBVIOUS
<1>41. HeapType(u) /\ at \in 1 .. Len(u.heap) BY <1>1
<1>5. /\ m \in {at, 2 * at, 2 * at + 1} /\ m \in 1 .. Len(u.heap)
      /\ \A k \in {at, 2 * at, 2 * at + 1} : k \in 1 .. Len(u.heap) => F(u, m) <= F(u, k)
  BY <1>4, <1>41, SmallestIs
<1>6. ASSUME NEW k \in 2 .. Len(u.heap), k \div 2 = at PROVE F(u, m) <= F(u, k)
  <2>1. k = 2 * at \/ k = 2 * at + 1 BY <1>1, <1>6, Halving
  <2> QED BY <1>1, <1>5, <2>1
<1>7. F(u, m) <= F(u, at) BY <1>1, <1>5
<1>8. CASE m # at
  <2>1. m \div 2 = at /\ m > at /\ m \in 2 .. Len(u.heap) BY <1>1, <1>5, <1>8, Halving
  <2>2. PICK v : v = Swap(u, at, m) OBVIOUS
  <2>3. /\ HeapType(v) /\ Placed(v) /\ Reordered(u, v) /\ F(v, at) = F(u, m) /\ F(v, m) = F(u, at)
        /\ \A k \in 1 .. Len(u.heap) \ {at, m} : F(v, k) = F(u, k)
    BY <1>1, <1>5, <1>8, <2>2, SwapEffect
  <2>4. Sink(c) = [w |-> v, at |-> m] BY <1>0, <1>4, <1>8, <2>2 DEF Sink
  <2>5. Len(v.heap) = Len(u.heap) BY <2>3 DEF Reordered
  <2>6. F(u, m) \in Int /\ F(u, at) \in Int BY <1>1, <1>2, <1>5
  <2>7. ASSUME NEW k \in 2 .. Len(u.heap), k \div 2 # m
        PROVE  F(v, k \div 2) <= F(v, k)
    <3>0. PICK q \in 1 .. Len(u.heap) : q = k \div 2 BY <1>3
    <3>1. q < k BY <3>0, <1>1, Halving
    <3>2. k \in 1 .. Len(u.heap) /\ F(u, k) \in Int /\ F(u, q) \in Int BY <1>1, <1>2
    <3>3. CASE k = m BY <1>7, <2>1, <2>3, <3>0, <3>3
    <3>4. CASE k # m /\ q = at
      <4>1. F(u, m) <= F(u, k) BY <1>6, <3>0, <3>4
      <4>2. k # at BY <3>1, <3>4
      <4> QED BY <2>3, <3>0, <3>2, <3>4, <4>1, <4>2
    <3>5. CASE k = at
      <4>1. at > 1 BY <1>1, <3>5
      <4>2. F(u, q) <= F(u, m) BY <1>1, <2>1, <3>0, <3>5, <4>1 DEF TooHigh
      <4>3. q # m /\ q # at BY <2>7, <3>0, <3>1, <3>5
      <4> QED BY <2>3, <3>0, <3>5, <4>2, <4>3
    <3>6. CASE k # m /\ k # at /\ q # at
      <4>1. F(u, q) <= F(u, k) BY <1>1, <3>0, <3>6 DEF TooHigh
      <4>2. q # m BY <2>7, <3>0
      <4> QED BY <2>3, <3>0, <3>2, <3>6, <4>1, <4>2
    <3> QED BY <3>3, <3>4, <3>5, <3>6
  <2>8. ASSUME NEW k \in 2 .. Len(u.heap), k \div 2 = m
        PROVE  F(v, m \div 2) <= F(v, k)
    <3>1. k > m BY <1>1, <1>5, <2>8, Halving
    <3>2. F(u, m) <= F(u, k) BY <1>1, <1>8, <2>8 DEF TooHigh
    <3>3. F(v, k) = F(u, k) BY <1>1, <2>1, <2>3, <3>1
    <3> QED BY <2>1, <2>3, <3>2, <3>3
  <2>9. TooHigh(v, m) BY <2>5, <2>7, <2>8 DEF TooHigh
  <2>10. Reordered(w, v) BY <1>0, <2>3, ReorderedOn DEF Sinking
  <2>11. Sink(c).w = v /\ Sink(c).at = m BY <2>4
  <2> QED BY <1>0, <1>1, <1>5, <2>1, <2>3, <2>9, <2>10, <2>11 DEF Sinking
<1>9. CASE m = at
  <2>1. Sink(c) = c BY <1>0, <1>4, <1>9 DEF Sink
  <2>2. ASSUME NEW k \in 2 .. Len(u.heap) PROVE F(u, k \div 2) <= F(u, k)
    <3>1. CASE k \div 2 # at BY <1>1, <3>1 DEF TooHigh
    <3>2. CASE k \div 2 = at BY <1>6, <1>9, <3>2
    <3> QED BY <3>1, <3>2
  <2> QED BY <1>0, <2>1, <2>2 DEF Ordered
<1> QED BY <1>8, <1>9

\* No round changes it any more.
Bottom(c) == Sink(c) = c /\ Ordered(c.w)

\* A node that was too high moves to where it belongs.
LEMMA SiftDownEffect ==
  ASSUME NEW w, HeapType(w), Placed(w), NEW i \in 1 .. Len(w.heap), TooHigh(w, i),
         NEW v, v = SiftDown(w, i)
  PROVE  HeapType(v) /\ Placed(v) /\ Reordered(w, v) /\ Ordered(v)
<1>0. PICK l \in Nat : l = Len(w.heap) /\ i \in 1 .. l BY DEF HeapType
<1>01. \E g : /\ g[0] = [w |-> w, at |-> i]
              /\ \A round \in 1 .. l : g[round] = Sink(g[round - 1])
              /\ SiftDown(w, i) = g[l].w
  <2>1. l = Len(w.heap) BY <1>0
  <2> HIDE <1>0
  <2> QED BY <2>1, SiftDownIs
<1>1. PICK g : /\ g[0] = [w |-> w, at |-> i]
               /\ \A round \in 1 .. l : g[round] = Sink(g[round - 1])
               /\ SiftDown(w, i) = g[l].w
  BY <1>01
<1> DEFINE Fine(n) == Sinking(w, g[n]) /\ (g[n].at >= i + n \/ Bottom(g[n]))
           T == {n \in 0 .. l : ~Fine(n)}
<1>2. T = {}
  <2> SUFFICES ASSUME T # {} PROVE FALSE OBVIOUS
  <2>1. PICK n \in T : \A y \in T : n <= y
    <3>1. T \subseteq Nat BY <1>0
    <3> HIDE DEF T
    <3> QED BY <3>1, LeastNatural
  <2>2. Fine(0)
    <3>1. g[0].w = w /\ g[0].at = i BY <1>1
    <3>2. g[0].at >= i + 0 BY <1>0, <3>1
    <3>3. Sinking(w, g[0]) BY <3>1, ReorderedSame DEF Sinking
    <3> QED BY <3>2, <3>3
  <2>3. n # 0 BY <2>1, <2>2
  <2>4. PICK m \in 0 .. l : m = n - 1 BY <2>1, <2>3
  <2>5. Fine(m) BY <2>1, <2>3, <2>4
  <2>6. g[n] = Sink(g[m]) BY <1>1, <2>1, <2>3, <2>4
  <2>7. PICK c : c = g[m] OBVIOUS
  <2>8. /\ Sinking(w, Sink(c)) /\ Sinking(w, c)
        /\ \/ Sink(c).at > c.at
           \/ Sink(c) = c /\ Ordered(c.w)
    BY <2>5, <2>7, SinkKeeps
  <2>9. c.at \in Nat /\ Sink(c).at \in Nat
    <3>1. c.at \in 1 .. Len(w.heap) /\ Sink(c).at \in 1 .. Len(w.heap) BY <2>8 DEF Sinking
    <3> QED BY <1>0, <3>1
  <2>10. Sink(c).at >= i + n \/ Bottom(Sink(c))
    <3>1. CASE Sink(c) = c /\ Ordered(c.w) BY <3>1 DEF Bottom
    <3>2. CASE Sink(c).at > c.at /\ c.at >= i + m
      <4>1. Sink(c).at >= i + n BY <2>4, <2>9, <3>2, <1>0
      <4> QED BY <4>1
    <3>3. c.at >= i + m \/ Bottom(c) BY <2>5, <2>7
    <3> QED BY <2>8, <3>1, <3>2, <3>3 DEF Bottom
  <2>11. Fine(n) BY <2>6, <2>7, <2>8, <2>10
  <2> QED BY <2>1, <2>11
<1>3. Fine(l)
  <2>1. l \in 0 .. l BY <1>0
  <2> QED BY <1>2, <2>1
<1>4. PICK c : c = g[l] OBVIOUS
<1>5. Sinking(w, c) /\ (c.at >= i + l \/ Bottom(c)) BY <1>3, <1>4
<1>6. c.at \in 1 .. l BY <1>0, <1>5 DEF Sinking
<1>7. Ordered(c.w)
  <2>1. ~(c.at >= i + l) BY <1>0, <1>6
  <2> QED BY <1>5, <2>1 DEF Bottom
<1>8. v = c.w BY <1>1, <1>4
<1> QED BY <1>5, <1>7, <1>8 DEF Sinking

\* No node comes before the first.
LEMMA RootIsLeast ==
  ASSUME NEW w, HeapType(w), Ordered(w), NEW k \in 1 .. Len(w.heap)
  PROVE  F(w, 1) <= F(w, k)
<1>0. Len(w.heap) \in Nat /\ 1 \in 1 .. Len(w.heap) BY DEF HeapType
<1>1. \A j \in 1 .. Len(w.heap) : F(w, j) \in Int BY FType
<1> DEFINE T == {j \in 1 .. Len(w.heap) : ~(F(w, 1) <= F(w, j))}
<1> SUFFICES ASSUME T # {} PROVE FALSE OBVIOUS
<1>2. PICK j \in T : \A y \in T : j <= y
  <2>1. T \subseteq Nat BY <1>0
  <2> HIDE DEF T
  <2> QED BY <2>1, LeastNatural
<1>3. j \in 1 .. Len(w.heap) /\ ~(F(w, 1) <= F(w, j)) OBVIOUS
<1>4. F(w, 1) <= F(w, 1) BY <1>0, <1>1
<1>5. j \in 2 .. Len(w.heap) /\ j \in Nat /\ j > 1 BY <1>0, <1>3, <1>4
<1>6. PICK q \in Nat : q = j \div 2 BY <1>5, Halving
<1>7. q >= 1 /\ q < j BY <1>5, <1>6, Halving
<1>8. q \in 1 .. Len(w.heap) /\ q \notin T BY <1>0, <1>2, <1>5, <1>7
<1>9. F(w, q) <= F(w, j) BY <1>5, <1>6 DEF Ordered
<1>10. F(w, 1) <= F(w, q) BY <1>8
<1> QED BY <1>0, <1>1, <1>3, <1>8, <1>9, <1>10

\* Nodes that are the same but for their place in the heap have the same f.
LEMMA SameF ==
  ASSUME NEW u, NEW w, NEW k, NEW l, u.heap[k] = w.heap[l], Same(u.nodes[u.heap[k]], w.nodes[w.heap[l]])
  PROVE  F(u, k) = F(w, l)
BY DEF F, Same

\* A new node finds its place in the heap.
LEMMA HeapPushEffect ==
  ASSUME NEW w, HeapType(w), Placed(w), Ordered(w),
         NEW i \in 1 .. Len(w.nodes), i \notin Range(w.heap), NEW v, v = HeapPush(w, i)
  PROVE  /\ HeapType(v) /\ Placed(v) /\ Ordered(v)
         /\ Len(v.nodes) = Len(w.nodes) /\ Range(v.heap) = Range(w.heap) \cup {i}
         /\ \A k \in 1 .. Len(w.nodes) : Same(v.nodes[k], w.nodes[k])
<1>0. PICK n \in Nat : n = Len(w.heap) BY DEF HeapType
<1>1. PICK at \in Nat : at = n + 1 OBVIOUS
<1> DEFINE x == [w.nodes[i] EXCEPT !.heap_index = at]
<1>2. PICK u : u = [nodes |-> [w.nodes EXCEPT ![i] = x], heap |-> Append(w.heap, i)] OBVIOUS
<1>3. v = BubbleUp(u, at)
  <2>1. Len(w.heap) + 1 = at BY <1>0, <1>1
  <2>2. [w.nodes EXCEPT ![i].heap_index = Len(w.heap) + 1] = [w.nodes EXCEPT ![i] = x]
    BY <2>1
  <2> QED BY <1>2, <2>1, <2>2 DEF HeapPush
<1>4. x \in Nodes /\ Same(x, w.nodes[i]) /\ x.heap_index = at
  <2>1. w.nodes[i] \in Nodes BY DEF HeapType
  <2> QED BY <2>1, NodePlaced
<1> HIDE DEF x
<1>5. /\ u.nodes \in Seq(Nodes) /\ Len(u.nodes) = Len(w.nodes) /\ u.nodes[i] = x
      /\ \A k \in 1 .. Len(w.nodes) : k # i => u.nodes[k] = w.nodes[k]
  BY <1>2, <1>4 DEF HeapType
<1>6. /\ u.heap \in Seq(Nat) /\ Len(u.heap) = at /\ u.heap[at] = i
      /\ \A k \in 1 .. n : u.heap[k] = w.heap[k]
  <2>1. i \in Nat BY DEF HeapType
  <2>2. u.heap = Append(w.heap, i) /\ w.heap \in Seq(Nat) BY <1>2 DEF HeapType
  <2> QED BY <1>0, <1>1, <2>1, <2>2
<1>7. Len(w.nodes) \in Nat BY DEF HeapType
<1>8. \A k \in 1 .. n : w.heap[k] \in 1 .. Len(w.nodes) /\ w.heap[k] # i
  <2>1. DOMAIN w.heap = 1 .. n BY <1>0 DEF HeapType
  <2> QED BY <1>0, <2>1 DEF HeapType, Range
<1>9. HeapType(u)
  <2>1. \A k \in 1 .. at : u.heap[k] \in 1 .. Len(w.nodes)
    <3> TAKE k \in 1 .. at
    <3>1. k = at \/ k \in 1 .. n BY <1>1
    <3> QED BY <1>6, <1>8, <3>1
  <2> QED BY <1>5, <1>6, <2>1 DEF HeapType
<1>10. \A k \in 1 .. Len(w.nodes) : Same(u.nodes[k], w.nodes[k])
  BY <1>4, <1>5 DEF Same
<1>11. Placed(u)
  <2>1. ASSUME NEW k \in 1 .. at PROVE u.nodes[u.heap[k]].heap_index = k
    <3>1. CASE k = at BY <1>4, <1>5, <1>6, <3>1
    <3>2. CASE k # at
      <4>1. k \in 1 .. n BY <1>1, <3>2
      <4>2. u.heap[k] = w.heap[k] /\ u.nodes[w.heap[k]] = w.nodes[w.heap[k]] BY <1>5, <1>6, <1>8, <4>1
      <4> QED BY <1>0, <4>1, <4>2 DEF Placed
    <3> QED BY <3>1, <3>2
  <2>2. ASSUME NEW k \in 1 .. Len(w.nodes), u.nodes[k].heap_index # None
        PROVE  u.nodes[k].heap_index \in 1 .. at /\ u.heap[u.nodes[k].heap_index] = k
    <3>1. CASE k = i BY <1>1, <1>4, <1>5, <1>6, <3>1
    <3>2. CASE k # i
      <4>1. u.nodes[k] = w.nodes[k] BY <1>5, <3>2
      <4>2. PICK j : j = w.nodes[k].heap_index OBVIOUS
      <4>3. j \in 1 .. n /\ w.heap[j] = k BY <1>0, <2>2, <4>1, <4>2 DEF Placed
      <4>4. j \in 1 .. at BY <1>1, <4>3
      <4> QED BY <1>6, <4>1, <4>2, <4>3, <4>4
    <3> QED BY <3>1, <3>2
  <2> QED BY <1>5, <1>6, <2>1, <2>2 DEF Placed
<1>12. \A k \in 1 .. n : F(u, k) = F(w, k)
  <2> TAKE k \in 1 .. n
  <2>1. u.heap[k] = w.heap[k] /\ Same(u.nodes[w.heap[k]], w.nodes[w.heap[k]]) BY <1>6, <1>8, <1>10
  <2> QED BY <2>1, SameF
<1>13. TooLow(u, at)
  <2>1. ASSUME NEW k \in 2 .. at, k # at PROVE F(u, k \div 2) <= F(u, k)
    <3>1. k \in 2 .. n /\ k \in 1 .. n /\ k \in Nat /\ k > 1 BY <1>1, <2>1
    <3>2. PICK q \in Nat : q = k \div 2 BY <3>1, Halving
    <3>3. q \in 1 .. n BY <3>1, <3>2, Halving
    <3>4. F(w, q) <= F(w, k) BY <1>0, <3>1, <3>2 DEF Ordered
    <3> QED BY <1>12, <3>1, <3>2, <3>3, <3>4
  <2>2. ASSUME NEW k \in 2 .. at, k \div 2 = at PROVE FALSE
    <3>1. k \in Nat /\ k > 1 BY <1>1
    <3> QED BY <1>1, <2>2, <3>1, Halving
  <2> QED BY <1>6, <2>1, <2>2 DEF TooLow
<1>14. at \in 1 .. Len(u.heap) BY <1>1, <1>6
<1>15. HeapType(v) /\ Placed(v) /\ Reordered(u, v) /\ Ordered(v)
  BY <1>3, <1>9, <1>11, <1>13, <1>14, BubbleUpEffect
<1>16. Range(u.heap) = Range(w.heap) \cup {i}
  <2>1. DOMAIN u.heap = 1 .. at /\ DOMAIN w.heap = 1 .. n BY <1>0, <1>6 DEF HeapType
  <2>2. 1 .. at = 1 .. n \cup {at} BY <1>1
  <2>3. Range(u.heap) = {u.heap[k] : k \in 1 .. n} \cup {i}
    <3>1. Range(u.heap) = {u.heap[k] : k \in 1 .. at} BY <2>1 DEF Range
    <3>2. u.heap[at] = i BY <1>6
    <3> QED BY <2>2, <3>1, <3>2
  <2>4. Range(w.heap) = {w.heap[k] : k \in 1 .. n} BY <2>1 DEF Range
  <2>5. {u.heap[k] : k \in 1 .. n} = {w.heap[k] : k \in 1 .. n} BY <1>6
  <2> QED BY <2>3, <2>4, <2>5
<1>17. Len(v.nodes) = Len(w.nodes) /\ \A k \in 1 .. Len(w.nodes) : Same(v.nodes[k], w.nodes[k])
  BY <1>5, <1>10, <1>15 DEF Reordered, Same
<1>18. Range(v.heap) = Range(w.heap) \cup {i}
  BY <1>15, <1>16 DEF Reordered
<1> QED BY <1>15, <1>17, <1>18

\* The first node leaves the heap.
LEMMA HeapPopEffect ==
  ASSUME NEW w, HeapType(w), Placed(w), Ordered(w), w.heap # <<>>, NEW v, v = HeapPop(w)
  PROVE  /\ HeapType(v) /\ Placed(v) /\ Ordered(v)
         /\ Len(v.nodes) = Len(w.nodes) /\ Range(v.heap) = Range(w.heap) \ {w.heap[1]}
         /\ \A k \in 1 .. Len(w.nodes) : Same(v.nodes[k], w.nodes[k])
<1>0. PICK n \in Nat : n = Len(w.heap) BY DEF HeapType
<1>1. n >= 1 /\ Head(w.heap) = w.heap[1] /\ Last(w.heap) = w.heap[n] /\ DOMAIN w.heap = 1 .. n
  BY <1>0 DEF HeapType, Last
<1>2. PICK first, last : first = w.heap[1] /\ last = w.heap[n] OBVIOUS
<1>3. first \in 1 .. Len(w.nodes) /\ last \in 1 .. Len(w.nodes) /\ Len(w.nodes) \in Nat
  <2>1. 1 \in 1 .. n /\ n \in 1 .. n BY <1>1
  <2> QED BY <1>0, <1>2, <2>1 DEF HeapType
<1>4. \A j, k \in 1 .. n : w.heap[j] = w.heap[k] => j = k BY <1>0 DEF Placed
<1> DEFINE x == [w.nodes[first] EXCEPT !.heap_index = None]
<1>5. PICK out : out = [w.nodes EXCEPT ![first] = x] OBVIOUS
<1>6. x \in Nodes /\ Same(x, w.nodes[first]) /\ x.heap_index = None
  <2>1. w.nodes[first] \in Nodes BY <1>3 DEF HeapType
  <2>2. None \in Nat BY DEF None
  <2> QED BY <2>1, <2>2, NodePlaced
<1> HIDE DEF x
<1>7. /\ out \in Seq(Nodes) /\ Len(out) = Len(w.nodes) /\ out[first] = x
      /\ \A k \in 1 .. Len(w.nodes) : k # first => out[k] = w.nodes[k]
  BY <1>3, <1>5, <1>6 DEF HeapType
<1>8. \A k \in 1 .. Len(w.nodes) : Same(out[k], w.nodes[k])
  BY <1>6, <1>7 DEF Same
<1>9. CASE n = 1
  <2>1. v = [nodes |-> out, heap |-> <<>>]
    BY <1>0, <1>1, <1>2, <1>5, <1>9 DEF HeapPop, x
  <2>2. v.nodes = out /\ v.heap = <<>> /\ Len(v.heap) = 0 /\ v.heap \in Seq(Nat) BY <2>1
  <2>3. Range(v.heap) = Range(w.heap) \ {w.heap[1]}
    <3>1. Range(w.heap) = {w.heap[1]} BY <1>1, <1>9 DEF Range
    <3>2. Range(v.heap) = {} BY <2>2 DEF Range
    <3> QED BY <3>1, <3>2
  <2>4. HeapType(v) /\ Ordered(v) BY <1>7, <2>2 DEF HeapType, Ordered
  <2>5. Placed(v)
    <3>1. ASSUME NEW k \in 1 .. Len(w.nodes) PROVE out[k].heap_index = None
      <4>1. CASE k = first BY <1>6, <1>7, <4>1
      <4>2. CASE k # first
        <5>1. out[k] = w.nodes[k] BY <1>7, <4>2
        <5> QED BY <1>0, <1>2, <1>9, <4>2, <5>1 DEF Placed
      <4> QED BY <4>1, <4>2
    <3> QED BY <1>7, <2>2, <3>1 DEF Placed
  <2> QED BY <1>7, <1>8, <2>2, <2>3, <2>4, <2>5
<1>10. CASE n # 1
  <2>0. PICK m \in Nat : m = n - 1 BY <1>1
  <2>1. m >= 1 /\ first # last
    <3>1. m >= 1 /\ 1 \in 1 .. n /\ n \in 1 .. n BY <1>1, <1>10, <2>0
    <3> QED BY <1>2, <1>4, <1>10, <3>1
  <2> DEFINE y == [w.nodes[last] EXCEPT !.heap_index = 1]
  <2>2. PICK front : front = Front(w.heap) OBVIOUS
  <2>3. front \in Seq(Nat) /\ Len(front) = m /\ \A k \in 1 .. m : front[k] = w.heap[k]
    BY <1>0, <1>1, <2>0, <2>2 DEF HeapType, Front
  <2>4. PICK u : u = [nodes |-> [out EXCEPT ![last] = y], heap |-> [front EXCEPT ![1] = last]] OBVIOUS
  <2>5. v = SiftDown(u, 1)
    <3>1. out[last] = w.nodes[last] BY <1>3, <1>7, <2>1
    <3>2. [out EXCEPT ![last].heap_index = 1] = [out EXCEPT ![last] = y] BY <3>1
    <3>3. out = [w.nodes EXCEPT ![first].heap_index = None] BY <1>5 DEF x
    <3>4. v = SiftDown([nodes |-> [out EXCEPT ![last].heap_index = 1], heap |-> [front EXCEPT ![1] = last]], 1)
      BY <1>0, <1>1, <1>2, <1>10, <2>2, <3>3 DEF HeapPop
    <3> HIDE DEF y
    <3> QED BY <2>4, <3>2, <3>4
  <2>6. y \in Nodes /\ Same(y, w.nodes[last]) /\ y.heap_index = 1
    <3>1. w.nodes[last] \in Nodes BY <1>3 DEF HeapType
    <3>2. PICK one \in Nat : one = 1 OBVIOUS
    <3>3. y = [w.nodes[last] EXCEPT !.heap_index = one] BY <3>2
    <3> HIDE DEF y
    <3>4. y \in Nodes /\ Same(y, w.nodes[last]) /\ y.heap_index = one BY <3>1, <3>3, NodePlaced
    <3> QED BY <3>2, <3>4
  <2> HIDE DEF y
  <2>7. /\ u.nodes \in Seq(Nodes) /\ Len(u.nodes) = Len(w.nodes) /\ u.nodes[last] = y /\ u.nodes[first] = x
        /\ \A k \in 1 .. Len(w.nodes) : k # first /\ k # last => u.nodes[k] = w.nodes[k]
    BY <1>3, <1>7, <2>1, <2>4, <2>6
  <2>8. /\ u.heap \in Seq(Nat) /\ Len(u.heap) = m /\ u.heap[1] = last
        /\ \A k \in 2 .. m : u.heap[k] = w.heap[k]
    <3>1. last \in Nat BY <1>3
    <3> QED BY <2>1, <2>3, <2>4, <3>1
  <2>9. \A k \in 2 .. m : k \in 1 .. n /\ w.heap[k] \in 1 .. Len(w.nodes) /\ w.heap[k] # first /\ w.heap[k] # last
    <3> TAKE k \in 2 .. m
    <3>1. k \in 1 .. n /\ k # 1 /\ k # n /\ 1 \in 1 .. n /\ n \in 1 .. n BY <1>1, <2>0
    <3> QED BY <1>0, <1>2, <1>4, <3>1 DEF HeapType
  <2>10. \A k \in 1 .. Len(w.nodes) : Same(u.nodes[k], w.nodes[k])
    BY <1>6, <2>6, <2>7 DEF Same
  <2>11. HeapType(u)
    <3>1. \A k \in 1 .. m : u.heap[k] \in 1 .. Len(w.nodes)
      <4> TAKE k \in 1 .. m
      <4>1. k = 1 \/ k \in 2 .. m OBVIOUS
      <4> QED BY <1>3, <2>8, <2>9, <4>1
    <3> QED BY <2>7, <2>8, <3>1 DEF HeapType
  <2>12. Placed(u)
    <3>1. ASSUME NEW k \in 1 .. m PROVE u.nodes[u.heap[k]].heap_index = k
      <4>1. CASE k = 1 BY <2>6, <2>7, <2>8, <4>1
      <4>2. CASE k # 1
        <5>1. k \in 2 .. m BY <4>2
        <5>2. u.heap[k] = w.heap[k] /\ u.nodes[w.heap[k]] = w.nodes[w.heap[k]] BY <2>7, <2>8, <2>9, <5>1
        <5> QED BY <1>0, <2>9, <5>1, <5>2 DEF Placed
      <4> QED BY <4>1, <4>2
    <3>2. ASSUME NEW k \in 1 .. Len(w.nodes), u.nodes[k].heap_index # None
          PROVE  u.nodes[k].heap_index \in 1 .. m /\ u.heap[u.nodes[k].heap_index] = k
      <4>1. CASE k = first BY <1>6, <2>7, <3>2, <4>1
      <4>2. CASE k = last
        <5>1. 1 \in 1 .. m BY <2>1
        <5> QED BY <2>6, <2>7, <2>8, <4>2, <5>1
      <4>3. CASE k # first /\ k # last
        <5>1. u.nodes[k] = w.nodes[k] BY <2>7, <4>3
        <5>2. PICK j : j = w.nodes[k].heap_index OBVIOUS
        <5>3. j \in 1 .. n /\ w.heap[j] = k BY <1>0, <3>2, <5>1, <5>2 DEF Placed
        <5>4. j # 1 /\ j # n BY <1>2, <4>3, <5>3
        <5>5. j \in 2 .. m /\ j \in 1 .. m BY <2>0, <5>3, <5>4
        <5> QED BY <2>8, <5>1, <5>2, <5>3, <5>5
      <4> QED BY <4>1, <4>2, <4>3
    <3> QED BY <2>7, <2>8, <3>1, <3>2 DEF Placed
  <2>13. \A k \in 2 .. m : F(u, k) = F(w, k)
    BY <2>8, <2>9, <2>10, SameF
  <2>14. TooHigh(u, 1)
    <3>1. ASSUME NEW k \in 2 .. m, k \div 2 # 1 PROVE F(u, k \div 2) <= F(u, k)
      <4>1. k \in 2 .. n /\ k \in Nat /\ k > 1 BY <2>0
      <4>2. PICK q \in Nat : q = k \div 2 BY <4>1, Halving
      <4>3. q \in 2 .. m BY <3>1, <4>1, <4>2, Halving
      <4>4. F(w, q) <= F(w, k) BY <1>0, <4>1, <4>2 DEF Ordered
      <4> QED BY <2>13, <4>2, <4>3, <4>4
    <3> QED BY <2>8, <3>1 DEF TooHigh
  <2>15. HeapType(v) /\ Placed(v) /\ Reordered(u, v) /\ Ordered(v)
    <3>1. PICK one : one = 1 OBVIOUS
    <3>2. one \in 1 .. Len(u.heap) /\ TooHigh(u, one) /\ v = SiftDown(u, one) BY <2>1, <2>5, <2>8, <2>14, <3>1
    <3> QED BY <2>11, <2>12, <3>2, SiftDownEffect
  <2>16. Range(u.heap) = Range(w.heap) \ {w.heap[1]}
    <3>1. DOMAIN u.heap = 1 .. m BY <2>8
    <3>2. 1 .. m = {1} \cup 2 .. m /\ 1 .. n = {1, n} \cup 2 .. m BY <2>0, <2>1
    <3> DEFINE R == {w.heap[k] : k \in 2 .. m}
    <3>3. Range(u.heap) = {last} \cup R
      <4>1. Range(u.heap) = {u.heap[k] : k \in 1 .. m} BY <3>1 DEF Range
      <4>2. R = {u.heap[k] : k \in 2 .. m} BY <2>8
      <4>3. u.heap[1] = last BY <2>8
      <4> HIDE DEF R
      <4> QED BY <3>2, <4>1, <4>2, <4>3
    <3>4. Range(w.heap) = {first, last} \cup R BY <1>1, <1>2, <3>2 DEF Range
    <3>5. first \notin {last} \cup R BY <2>1, <2>9
    <3> HIDE DEF R
    <3> QED BY <1>2, <3>3, <3>4, <3>5
  <2>17. Len(v.nodes) = Len(w.nodes) /\ \A k \in 1 .. Len(w.nodes) : Same(v.nodes[k], w.nodes[k])
    BY <2>7, <2>10, <2>15 DEF Reordered, Same
  <2>18. Range(v.heap) = Range(w.heap) \ {w.heap[1]}
    BY <2>15, <2>16 DEF Reordered
  <2> QED BY <2>15, <2>17, <2>18
<1> QED BY <1>9, <1>10

\* Node x takes its place in the heap with a lower f, and keeps its position.
Lowered(w, u, at, x) ==
  /\ x \in Nodes /\ x.heap_index = at /\ x.g + x.h <= F(w, at)
  /\ u.heap = w.heap /\ u.nodes \in Seq(Nodes) /\ Len(u.nodes) = Len(w.nodes) /\ u.nodes[w.heap[at]] = x
  /\ \A k \in 1 .. Len(w.nodes) : k # w.heap[at] => u.nodes[k] = w.nodes[k]

\* A node that got a lower f, moved up to where it belongs.
LEMMA RaiseEffect ==
  ASSUME NEW w, HeapType(w), Placed(w), Ordered(w), NEW at \in 1 .. Len(w.heap),
         NEW x, NEW u, Lowered(w, u, at, x), NEW v, v = BubbleUp(u, at)
  PROVE  /\ HeapType(v) /\ Placed(v) /\ Ordered(v)
         /\ Len(v.nodes) = Len(w.nodes) /\ Range(v.heap) = Range(w.heap)
         /\ Same(v.nodes[w.heap[at]], x)
         /\ \A k \in 1 .. Len(w.nodes) : k # w.heap[at] => Same(v.nodes[k], w.nodes[k])
<1> USE DEF Lowered
<1>0. PICK n \in Nat : n = Len(w.heap)
  <2>1. w.heap \in Seq(Nat) BY DEF HeapType
  <2>2. Len(w.heap) \in Nat BY <2>1
  <2> QED BY <2>2
<1>1. PICK i : i = w.heap[at] OBVIOUS
<1>2. i \in 1 .. Len(w.nodes) /\ Len(w.nodes) \in Nat BY <1>1 DEF HeapType
<1>3. /\ u.nodes \in Seq(Nodes) /\ Len(u.nodes) = Len(w.nodes) /\ u.nodes[i] = x
      /\ \A k \in 1 .. Len(w.nodes) : k # i => u.nodes[k] = w.nodes[k]
  BY <1>1, <1>2 DEF HeapType
<1>4. HeapType(u) BY <1>3 DEF HeapType
<1>5. \A k \in 1 .. n : k # at => w.heap[k] # i BY <1>0, <1>1 DEF Placed
<1>6. Placed(u)
  <2>1. ASSUME NEW k \in 1 .. n PROVE u.nodes[u.heap[k]].heap_index = k
    <3>1. CASE k = at BY <1>1, <1>3, <3>1
    <3>2. CASE k # at
      <4>1. u.nodes[w.heap[k]] = w.nodes[w.heap[k]] BY <1>0, <1>3, <1>5, <3>2 DEF HeapType
      <4> QED BY <1>0, <4>1 DEF Placed
    <3> QED BY <3>1, <3>2
  <2>2. ASSUME NEW k \in 1 .. Len(w.nodes), u.nodes[k].heap_index # None
        PROVE  u.nodes[k].heap_index \in 1 .. n /\ u.heap[u.nodes[k].heap_index] = k
    <3>1. CASE k = i BY <1>0, <1>1, <1>3, <3>1
    <3>2. CASE k # i
      <4>1. u.nodes[k] = w.nodes[k] BY <1>3, <3>2
      <4> QED BY <1>0, <2>2, <4>1 DEF Placed
    <3> QED BY <3>1, <3>2
  <2> QED BY <1>0, <1>3, <2>1, <2>2 DEF Placed
<1>7. \A k \in 1 .. n : k # at => F(u, k) = F(w, k)
  <2> TAKE k \in 1 .. n
  <2> HAVE k # at
  <2>1. u.nodes[w.heap[k]] = w.nodes[w.heap[k]] BY <1>0, <1>3, <1>5 DEF HeapType
  <2> QED BY <2>1 DEF F
<1>8. F(u, at) <= F(w, at)
  <2>1. F(u, at) = x.g + x.h BY <1>1, <1>3 DEF F
  <2> QED BY <2>1
<1>9. \A k \in 1 .. n : F(u, k) \in Int /\ F(w, k) \in Int BY <1>0, <1>4, FType
<1>10. at \in 1 .. n /\ at \in Nat BY <1>0
<1>11. \A k \in 2 .. n : k \in Nat /\ k > 1 /\ k \in 1 .. n /\ k \div 2 \in 1 .. n /\ k \div 2 # k
  <2> TAKE k \in 2 .. n
  <2>1. k \in Nat /\ k > 1 OBVIOUS
  <2> QED BY <2>1, Halving
<1>12. TooLow(u, at)
  <2>1. ASSUME NEW k \in 2 .. n, k # at PROVE F(u, k \div 2) <= F(u, k)
    <3>1. PICK q \in 1 .. n : q = k \div 2 BY <1>11
    <3>2. F(w, q) <= F(w, k) BY <1>0, <3>1 DEF Ordered
    <3>3. F(u, k) = F(w, k) /\ k \in 1 .. n BY <1>7, <1>11, <2>1
    <3>4. F(u, q) <= F(w, q)
      <4>1. CASE q = at BY <1>8, <4>1
      <4>2. CASE q # at
        <5>1. F(u, q) = F(w, q) /\ F(w, q) \in Int BY <1>7, <1>9, <4>2
        <5> QED BY <5>1
      <4> QED BY <4>1, <4>2
    <3>5. F(u, q) \in Int /\ F(w, q) \in Int /\ F(w, k) \in Int BY <1>9, <3>3
    <3> QED BY <3>1, <3>2, <3>3, <3>4, <3>5
  <2>2. ASSUME NEW k \in 2 .. n, k \div 2 = at, at > 1 PROVE F(u, at \div 2) <= F(u, k)
    <3>1. k # at /\ at \in 2 .. n /\ k \in 1 .. n BY <1>10, <1>11, <2>2
    <3>2. PICK q \in 1 .. n : q = at \div 2 BY <1>11, <3>1
    <3>3. F(w, q) <= F(w, at) /\ F(w, at) <= F(w, k) BY <1>0, <2>2, <3>1, <3>2 DEF Ordered
    <3>4. q # at BY <1>11, <3>1, <3>2
    <3>5. F(u, q) = F(w, q) /\ F(u, k) = F(w, k) BY <1>7, <3>1, <3>4
    <3>6. F(w, q) \in Int /\ F(w, at) \in Int /\ F(w, k) \in Int BY <1>9, <1>10, <3>1
    <3> QED BY <3>2, <3>3, <3>5, <3>6
  <2> QED BY <1>0, <2>1, <2>2 DEF TooLow
<1>13. HeapType(v) /\ Placed(v) /\ Reordered(u, v) /\ Ordered(v)
  BY <1>4, <1>6, <1>12, BubbleUpEffect
<1>14. \A k \in 1 .. Len(w.nodes) : Same(v.nodes[k], u.nodes[k])
  BY <1>3, <1>13 DEF Reordered
<1>15. \A k \in 1 .. Len(w.nodes) : k # i => Same(v.nodes[k], w.nodes[k])
  BY <1>3, <1>14
<1>16. Same(v.nodes[i], x) BY <1>2, <1>3, <1>14
<1> QED BY <1>1, <1>3, <1>13, <1>15, <1>16 DEF Reordered

-----------------------------------------------------------------------------
(* The arena: nodes N, open_map O, best b, while the places C are closed.  *)

\* Every node is closed or open, and there is one for each place.
\* Every closed place has a node.
Opened(N, O, C) ==
  /\ DOMAIN O \subseteq Place \ C
  /\ \A m \in DOMAIN O : O[m] \in 1 .. Len(N) /\ PlaceOf(N[O[m]]) = m
  /\ \A i \in 1 .. Len(N) : PlaceOf(N[i]) \in C \/ PlaceOf(N[i]) \in DOMAIN O
  /\ \A i, j \in 1 .. Len(N) : PlaceOf(N[i]) = PlaceOf(N[j]) => i = j
  /\ \A m \in C : \E i \in 1 .. Len(N) : PlaceOf(N[i]) = m

Valued(N) == \A i \in 1 .. Len(N) : PlaceOf(N[i]) \in Place /\ N[i].h = map.estimate[PlaceOf(N[i])]

Closest(N, b) == b \in 1 .. Len(N) /\ \A i \in 1 .. Len(N) : N[b].h <= N[i].h

\* A node is the start or was reached by a move from a closed place.
Family(N, C) ==
  \A i \in 1 .. Len(N) :
    IF N[i].parent = None THEN N[i].data = Start /\ N[i].g = 0
    ELSE LET p == N[i].parent
         IN  /\ p \in 1 .. Len(N) /\ PlaceOf(N[p]) \in C
             /\ N[i].data \in Range(map.moves[PlaceOf(N[p])]) /\ N[i].g = N[p].g + N[i].data.cost

\* There is a path to each node; so no node is its own ancestor.
ArePaths(N, to) ==
  \A j \in 1 .. Len(N) :
    /\ to[j] \in Seq(Nat)
    /\ to[j] = IF N[j].parent = None THEN <<j>> ELSE Append(to[N[j].parent], j)
Paths(N) == \E to : ArePaths(N, to)

Tree(N, O, b, C) == Opened(N, O, C) /\ Valued(N) /\ Closest(N, b) /\ Family(N, C) /\ Paths(N)

\* What is known of a search.
LEMMA MapFacts ==
  ASSUME map \in Searches
  PROVE  /\ map.start \in Place /\ map.ends \subseteq Place /\ map.limit \in Nat
         /\ map.estimate \in [Place -> Int]
         /\ Start \in Data /\ Start.to = map.start /\ Start.cost = 0
         /\ \A n \in Place :
              /\ Len(map.moves[n]) \in Nat /\ DOMAIN map.moves[n] = 1 .. Len(map.moves[n])
              /\ \A move \in Range(map.moves[n]) : move.to \in Place /\ move.cost \in Nat /\ move \in Data
<1>1. /\ map.start \in Place /\ map.ends \subseteq Place /\ map.limit \in Nat
      /\ map.estimate \in [Place -> Int]
  BY SearchesAssumption
<1>2. Start \in Data /\ Start.to = map.start /\ Start.cost = 0
  BY DEF Start, Data
<1>3. ASSUME NEW n \in Place
      PROVE  /\ Len(map.moves[n]) \in Nat /\ DOMAIN map.moves[n] = 1 .. Len(map.moves[n])
             /\ \A move \in Range(map.moves[n]) : move.to \in Place /\ move.cost \in Nat /\ move \in Data
  <2>1. /\ map.moves[n] = [i \in 1 .. Len(map.moves[n]) |-> map.moves[n][i]] /\ Len(map.moves[n]) \in Nat
        /\ \A i \in 1 .. Len(map.moves[n]) : map.moves[n][i].to \in Place /\ map.moves[n][i].cost \in Nat
    BY SearchesAssumption
  <2>2. DOMAIN map.moves[n] = 1 .. Len(map.moves[n]) BY <2>1
  <2>3. ASSUME NEW move \in Range(map.moves[n]) PROVE move.to \in Place /\ move.cost \in Nat /\ move \in Data
    <3>1. PICK i \in 1 .. Len(map.moves[n]) : move = map.moves[n][i] BY <2>2 DEF Range
    <3>2. move \in Moves(map) BY <3>1 DEF Moves
    <3> QED BY <2>1, <3>1, <3>2 DEF Data
  <2> QED BY <2>1, <2>2, <2>3
<1> QED BY <1>1, <1>2, <1>3

\* Where nodes are in the heap makes no difference to the arena.
LEMMA TreeSame ==
  ASSUME NEW N, NEW O, NEW b, NEW C, Tree(N, O, b, C),
         NEW M, Len(M) = Len(N), \A i \in 1 .. Len(N) : Same(M[i], N[i])
  PROVE  Tree(M, O, b, C)
<1>1. \A i \in 1 .. Len(N) : M[i].data = N[i].data /\ M[i].g = N[i].g /\ M[i].h = N[i].h /\ M[i].parent = N[i].parent
  BY DEF Same
<1>2. \A i \in 1 .. Len(N) : PlaceOf(M[i]) = PlaceOf(N[i]) BY <1>1 DEF PlaceOf
<1>3. Opened(M, O, C) BY <1>2 DEF Opened, Tree
<1>4. Valued(M) BY <1>1, <1>2 DEF Valued, Tree
<1>5. Closest(M, b) BY <1>1 DEF Closest, Tree
<1>6. Family(M, C)
  <2> SUFFICES ASSUME NEW i \in 1 .. Len(M)
               PROVE  IF M[i].parent = None THEN M[i].data = Start /\ M[i].g = 0
                      ELSE /\ M[i].parent \in 1 .. Len(M) /\ PlaceOf(M[M[i].parent]) \in C
                           /\ M[i].data \in Range(map.moves[PlaceOf(M[M[i].parent])])
                           /\ M[i].g = M[M[i].parent].g + M[i].data.cost
    BY DEF Family
  <2>0. i \in 1 .. Len(N) OBVIOUS
  <2>1. CASE N[i].parent = None BY <1>1, <2>0, <2>1 DEF Family, Tree
  <2>2. CASE N[i].parent # None
    <3>1. PICK p : p = N[i].parent OBVIOUS
    <3>2. /\ p \in 1 .. Len(N) /\ PlaceOf(N[p]) \in C
          /\ N[i].data \in Range(map.moves[PlaceOf(N[p])]) /\ N[i].g = N[p].g + N[i].data.cost
      BY <2>0, <2>2, <3>1 DEF Family, Tree
    <3>3. M[i].parent = p /\ PlaceOf(M[p]) = PlaceOf(N[p]) /\ M[p].g = N[p].g BY <1>1, <1>2, <2>0, <3>1, <3>2
    <3>4. M[i].data = N[i].data /\ M[i].g = N[i].g BY <1>1, <2>0
    <3> QED BY <2>2, <3>1, <3>2, <3>3, <3>4
  <2> QED BY <2>1, <2>2
<1>7. Paths(M)
  <2>1. PICK to : ArePaths(N, to) BY DEF Paths, Tree
  <2>2. ArePaths(M, to) BY <1>1, <2>1 DEF ArePaths
  <2> QED BY <2>2 DEF Paths
<1> QED BY <1>3, <1>4, <1>5, <1>6, <1>7 DEF Tree

\* A move from a closed place, and the node it leads to.
Step(N, C, move, g, p) ==
  /\ p \in 1 .. Len(N) /\ PlaceOf(N[p]) \in C
  /\ move \in Range(map.moves[PlaceOf(N[p])]) /\ g = N[p].g + move.cost

\* The node that a move is entered as.
LEMMA StepNode ==
  ASSUME map \in Searches, NEW N \in Seq(Nodes), Valued(N), NEW C, NEW move, NEW g, NEW p, Step(N, C, move, g, p),
         NEW at \in Nat, NEW x, x = Node(move, g, p, at)
  PROVE  /\ x \in Nodes /\ x.data = move /\ x.g = g /\ x.parent = p /\ x.heap_index = at
         /\ PlaceOf(x) = move.to /\ move.to \in Place /\ x.h = map.estimate[move.to]
         /\ g \in Nat /\ p # None
<1>1. PlaceOf(N[p]) \in Place BY DEF Step, Valued
<1>2. move.to \in Place /\ move.cost \in Nat /\ move \in Data BY <1>1, MapFacts DEF Step
<1>3. N[p] \in Nodes /\ p \in Nat /\ p # 0 BY DEF Step
<1>4. N[p].g \in Nat BY <1>3 DEF Nodes
<1>5. g \in Nat BY <1>2, <1>4 DEF Step
<1>6. map.estimate[move.to] \in Int BY <1>2, MapFacts
<1>7. x = [data |-> move, g |-> g, h |-> map.estimate[move.to], parent |-> p, heap_index |-> at] BY DEF Node
<1>8. x \in Nodes BY <1>2, <1>3, <1>5, <1>6, <1>7 DEF Nodes
<1> QED BY <1>2, <1>3, <1>5, <1>7, <1>8 DEF PlaceOf, None

\* The map O with one more entry, and the closest of b and a new node.
Entered(P, O, n, i) == DOMAIN P = DOMAIN O \cup {n} /\ P[n] = i /\ \A m \in DOMAIN O : P[m] = O[m]
Nearest(c, M, b, n, i) == c = IF map.estimate[n] < M[b].h THEN i ELSE b

\* A place not seen before gets a node.
LEMMA TreeGrows ==
  ASSUME map \in Searches, NEW N \in Seq(Nodes), NEW O, NEW b, NEW C, Tree(N, O, b, C),
         NEW move, NEW g, NEW p, Step(N, C, move, g, p), NEW n, n = move.to, n \notin C, n \notin DOMAIN O,
         NEW x, x = Node(move, g, p, None), NEW M, M = Append(N, x),
         NEW P, Entered(P, O, n, Len(M)),
         NEW c, Nearest(c, M, b, n, Len(M))
  PROVE  Tree(M, P, c, C) /\ M \in Seq(Nodes)
<1>1. /\ x \in Nodes /\ x.data = move /\ x.g = g /\ x.parent = p
      /\ PlaceOf(x) = n /\ n \in Place /\ x.h = map.estimate[n] /\ g \in Nat /\ p # None
  <2>1. Valued(N) /\ None \in Nat BY DEF Tree, None
  <2> QED BY <2>1, StepNode
<1>2. PICK l \in Nat : l = Len(N) OBVIOUS
<1>02. PICK i \in Nat : i = l + 1 OBVIOUS
<1>3. /\ M \in Seq(Nodes) /\ Len(M) = i /\ M[i] = x /\ i = l + 1
      /\ \A k \in 1 .. l : M[k] = N[k]
  BY <1>1, <1>2, <1>02
<1>4. /\ DOMAIN P = DOMAIN O \cup {n} /\ P[n] = i /\ \A m \in DOMAIN O : P[m] = O[m]
  BY <1>3 DEF Entered
<1>5. \A k \in 1 .. i : k = i \/ k \in 1 .. l BY <1>2, <1>3
<1>6. i \in 1 .. i /\ i \notin 1 .. l /\ \A k \in 1 .. l : k \in 1 .. i BY <1>2, <1>3
<1>7. \A k \in 1 .. l : PlaceOf(N[k]) # n
  BY <1>2 DEF Tree, Opened
<1>8. p \in 1 .. l /\ M[p] = N[p] BY <1>2, <1>3 DEF Step
<1>9. Opened(M, P, C)
  <2>1. DOMAIN P \subseteq Place \ C BY <1>1, <1>4 DEF Tree, Opened
  <2>2. \A m \in DOMAIN P : P[m] \in 1 .. i /\ PlaceOf(M[P[m]]) = m
    <3> TAKE m \in DOMAIN P
    <3>1. CASE m = n BY <1>1, <1>3, <1>4, <1>6, <3>1
    <3>2. CASE m # n
      <4>1. m \in DOMAIN O /\ P[m] = O[m] BY <1>4, <3>2
      <4>2. O[m] \in 1 .. l /\ PlaceOf(N[O[m]]) = m BY <1>2, <4>1 DEF Tree, Opened
      <4> QED BY <1>3, <1>6, <4>1, <4>2
    <3> QED BY <3>1, <3>2
  <2>3. \A k \in 1 .. i : PlaceOf(M[k]) \in C \/ PlaceOf(M[k]) \in DOMAIN P
    <3> TAKE k \in 1 .. i
    <3>1. CASE k = i BY <1>1, <1>3, <1>4, <3>1
    <3>2. CASE k \in 1 .. l BY <1>2, <1>3, <1>4, <3>2 DEF Tree, Opened
    <3> QED BY <1>5, <3>1, <3>2
  <2>4. \A k, j \in 1 .. i : PlaceOf(M[k]) = PlaceOf(M[j]) => k = j
    <3> TAKE k, j \in 1 .. i
    <3>1. CASE k \in 1 .. l /\ j \in 1 .. l BY <1>2, <1>3, <3>1 DEF Tree, Opened
    <3>2. CASE k = i /\ j \in 1 .. l BY <1>1, <1>3, <1>7, <3>2
    <3>3. CASE j = i /\ k \in 1 .. l BY <1>1, <1>3, <1>7, <3>3
    <3> QED BY <1>5, <3>1, <3>2, <3>3
  <2>5. ASSUME NEW m \in C PROVE \E k \in 1 .. i : PlaceOf(M[k]) = m
    <3>1. PICK k \in 1 .. l : PlaceOf(N[k]) = m BY <1>2 DEF Tree, Opened
    <3>2. k \in 1 .. i /\ M[k] = N[k] BY <1>3, <1>6, <3>1
    <3> QED BY <3>1, <3>2
  <2> QED BY <1>3, <2>1, <2>2, <2>3, <2>4, <2>5 DEF Opened
<1>10. Valued(M)
  <2>1. \A k \in 1 .. l : PlaceOf(M[k]) \in Place /\ M[k].h = map.estimate[PlaceOf(M[k])]
    BY <1>2, <1>3 DEF Tree, Valued
  <2> QED BY <1>1, <1>3, <1>5, <2>1 DEF Valued
<1>11. Closest(M, c)
  <2>1. b \in 1 .. l /\ M[b] = N[b] /\ \A k \in 1 .. l : M[b].h <= M[k].h
    <3>1. b \in 1 .. l BY <1>2 DEF Tree, Closest
    <3> QED BY <1>2, <1>3, <3>1 DEF Tree, Closest
  <2>2. \A k \in 1 .. i : M[k].h \in Int
    <3>1. \A k \in 1 .. i : M[k] \in Nodes BY <1>3
    <3> QED BY <3>1 DEF Nodes
  <2>3. M[i].h = map.estimate[n] /\ map.estimate[n] \in Int BY <1>1, <1>3, <1>6, <2>2
  <2>4. CASE map.estimate[n] < M[b].h
    <3>1. c = i BY <1>3, <2>4 DEF Nearest
    <3>2. \A k \in 1 .. l : M[i].h <= M[k].h
      <4> TAKE k \in 1 .. l
      <4>1. b \in 1 .. i /\ i \in 1 .. i /\ k \in 1 .. i BY <1>6, <2>1
      <4>2. M[i].h \in Int /\ M[b].h \in Int /\ M[k].h \in Int BY <2>2, <4>1
      <4>3. M[b].h <= M[k].h BY <2>1
      <4>4. M[i].h < M[b].h BY <2>3, <2>4
      <4>5. \A y, z, u \in Int : y < z /\ z <= u => y <= u OBVIOUS
      <4> QED BY <4>2, <4>3, <4>4, <4>5, Zenon
    <3>3. M[i].h <= M[i].h BY <2>3
    <3> QED BY <1>3, <1>5, <1>6, <3>1, <3>2, <3>3 DEF Closest
  <2>5. CASE ~(map.estimate[n] < M[b].h)
    <3>1. c = b BY <2>5 DEF Nearest
    <3>2. M[b].h <= M[i].h
      <4>1. b \in 1 .. i /\ i \in 1 .. i BY <1>6, <2>1
      <4>2. M[i].h \in Int /\ M[b].h \in Int BY <2>2, <4>1
      <4>3. ~(M[i].h < M[b].h) BY <2>3, <2>5
      <4>4. \A y, z \in Int : ~(y < z) => z <= y OBVIOUS
      <4> QED BY <4>2, <4>3, <4>4, Zenon
    <3> QED BY <1>3, <1>5, <1>6, <2>1, <3>1, <3>2 DEF Closest
  <2> QED BY <2>4, <2>5
<1>12. Family(M, C)
  <2> SUFFICES ASSUME NEW k \in 1 .. i
               PROVE  IF M[k].parent = None THEN M[k].data = Start /\ M[k].g = 0
                      ELSE /\ M[k].parent \in 1 .. i /\ PlaceOf(M[M[k].parent]) \in C
                           /\ M[k].data \in Range(map.moves[PlaceOf(M[M[k].parent])])
                           /\ M[k].g = M[M[k].parent].g + M[k].data.cost
    BY <1>3 DEF Family
  <2>1. CASE k = i
    <3>1. p \in 1 .. i /\ PlaceOf(N[p]) \in C /\ move \in Range(map.moves[PlaceOf(N[p])]) /\ g = N[p].g + move.cost
      BY <1>6, <1>8 DEF Step
    <3>2. M[k] = x /\ x.parent = p /\ x.data = move /\ x.g = g /\ p # None BY <1>1, <1>3, <2>1
    <3> QED BY <1>8, <3>1, <3>2
  <2>2. CASE k \in 1 .. l /\ N[k].parent = None BY <1>2, <1>3, <2>2 DEF Tree, Family
  <2>3. CASE k \in 1 .. l /\ N[k].parent # None
    <3>1. PICK q : q = N[k].parent OBVIOUS
    <3>2. /\ q \in 1 .. l /\ PlaceOf(N[q]) \in C
          /\ N[k].data \in Range(map.moves[PlaceOf(N[q])]) /\ N[k].g = N[q].g + N[k].data.cost
      BY <1>2, <2>3, <3>1 DEF Tree, Family
    <3>3. M[k] = N[k] /\ M[q] = N[q] /\ q \in 1 .. i BY <1>3, <1>6, <2>3, <3>2
    <3> QED BY <2>3, <3>1, <3>2, <3>3
  <2> QED BY <1>5, <2>1, <2>2, <2>3
<1>13. Paths(M)
  <2>1. PICK to : ArePaths(N, to) BY DEF Paths, Tree
  <2> DEFINE new == [j \in 1 .. i |-> IF j = i THEN Append(to[p], i) ELSE to[j]]
  <2>2. to[p] \in Seq(Nat) /\ i \in Nat
    <3>1. p \in 1 .. Len(N) /\ i \in Nat BY <1>2, <1>3, <1>8
    <3> QED BY <2>1, <3>1 DEF ArePaths
  <2>3. new[i] = Append(to[p], i) /\ \A j \in 1 .. l : new[j] = to[j]
    BY <1>6
  <2> HIDE DEF new
  <2>4. ASSUME NEW k \in 1 .. i
        PROVE  new[k] \in Seq(Nat) /\ new[k] = IF M[k].parent = None THEN <<k>> ELSE Append(new[M[k].parent], k)
    <3>1. CASE k = i
      <4>1. M[k].parent = p /\ new[p] = to[p] BY <1>1, <1>3, <1>8, <2>3, <3>1
      <4>2. Append(to[p], i) \in Seq(Nat) BY <2>2
      <4> QED BY <1>1, <2>3, <3>1, <4>1, <4>2
    <3>2. CASE k \in 1 .. l
      <4>1. to[k] \in Seq(Nat) /\ to[k] = IF N[k].parent = None THEN <<k>> ELSE Append(to[N[k].parent], k)
        BY <1>2, <2>1, <3>2 DEF ArePaths
      <4>2. M[k] = N[k] /\ new[k] = to[k] BY <1>3, <2>3, <3>2
      <4>3. N[k].parent # None => new[N[k].parent] = to[N[k].parent]
        <5>1. N[k].parent # None => N[k].parent \in 1 .. l BY <1>2, <3>2 DEF Tree, Family
        <5> QED BY <2>3, <5>1
      <4> QED BY <4>1, <4>2, <4>3
    <3> QED BY <1>5, <3>1, <3>2
  <2>5. ArePaths(M, new) BY <1>3, <2>4 DEF ArePaths
  <2> QED BY <2>5 DEF Paths
<1> QED BY <1>3, <1>9, <1>10, <1>11, <1>12, <1>13 DEF Tree

\* A cheaper way to an open place makes its node another.
LEMMA TreeImproves ==
  ASSUME map \in Searches, NEW N \in Seq(Nodes), NEW O, NEW b, NEW C, Tree(N, O, b, C),
         NEW move, NEW g, NEW p, Step(N, C, move, g, p), NEW n, n = move.to, n \notin C, n \in DOMAIN O,
         NEW i, i = O[n], NEW at \in Nat,
         NEW x, x = Node(move, g, p, at), NEW M, M = [N EXCEPT ![i] = x]
  PROVE  /\ Tree(M, O, b, C) /\ M \in Seq(Nodes)
         /\ ~(map.estimate[n] < M[b].h)
<1>1. /\ x \in Nodes /\ x.data = move /\ x.g = g /\ x.parent = p
      /\ PlaceOf(x) = n /\ n \in Place /\ x.h = map.estimate[n] /\ g \in Nat /\ p # None
  <2>1. Valued(N) BY DEF Tree
  <2> QED BY <2>1, StepNode
<1>2. PICK l \in Nat : l = Len(N) OBVIOUS
<1>3. i \in 1 .. l /\ PlaceOf(N[i]) = n BY <1>2 DEF Tree, Opened
<1>4. /\ M \in Seq(Nodes) /\ Len(M) = l /\ M[i] = x
      /\ \A k \in 1 .. l : k # i => M[k] = N[k]
  BY <1>1, <1>2, <1>3
<1>5. \A k \in 1 .. l : PlaceOf(M[k]) = PlaceOf(N[k]) BY <1>1, <1>3, <1>4
<1>6. N[i].h = map.estimate[n] BY <1>2, <1>3 DEF Tree, Valued
<1>7. \A k \in 1 .. l : M[k].h = N[k].h BY <1>1, <1>4, <1>6
<1>8. p \in 1 .. l /\ p # i /\ M[p] = N[p]
  BY <1>2, <1>3, <1>4 DEF Step
<1>9. Opened(M, O, C) BY <1>2, <1>4, <1>5 DEF Tree, Opened
<1>10. Valued(M) BY <1>2, <1>4, <1>5, <1>7 DEF Tree, Valued
<1>11. Closest(M, b) BY <1>2, <1>4, <1>7 DEF Tree, Closest
<1>12. ~(map.estimate[n] < M[b].h)
  <2>0. M[b].h = N[b].h BY <1>2, <1>7 DEF Tree, Closest
  <2>1. N[b] \in Nodes /\ N[i] \in Nodes /\ N[b].h <= N[i].h BY <1>2, <1>3 DEF Tree, Closest
  <2>2. N[b].h \in Int /\ N[i].h \in Int BY <2>1 DEF Nodes
  <2> QED BY <1>6, <2>0, <2>1, <2>2
<1>13. \A k \in 1 .. l : N[k].parent # None =>
         /\ N[k].parent \in 1 .. l /\ N[k].parent # i /\ PlaceOf(N[N[k].parent]) \in C
         /\ M[N[k].parent] = N[N[k].parent]
  <2> TAKE k \in 1 .. l
  <2> HAVE N[k].parent # None
  <2>1. N[k].parent \in 1 .. l /\ PlaceOf(N[N[k].parent]) \in C BY <1>2 DEF Tree, Family
  <2> QED BY <1>3, <1>4, <2>1
<1>14. Family(M, C)
  <2> SUFFICES ASSUME NEW k \in 1 .. l
               PROVE  IF M[k].parent = None THEN M[k].data = Start /\ M[k].g = 0
                      ELSE /\ M[k].parent \in 1 .. l /\ PlaceOf(M[M[k].parent]) \in C
                           /\ M[k].data \in Range(map.moves[PlaceOf(M[M[k].parent])])
                           /\ M[k].g = M[M[k].parent].g + M[k].data.cost
    BY <1>4 DEF Family
  <2>1. CASE k = i BY <1>1, <1>2, <1>4, <1>8, <2>1 DEF Step
  <2>2. CASE k # i /\ N[k].parent = None BY <1>2, <1>4, <2>2 DEF Tree, Family
  <2>3. CASE k # i /\ N[k].parent # None
    <3>1. PICK q : q = N[k].parent OBVIOUS
    <3>2. /\ q \in 1 .. l /\ PlaceOf(N[q]) \in C
          /\ N[k].data \in Range(map.moves[PlaceOf(N[q])]) /\ N[k].g = N[q].g + N[k].data.cost
      BY <1>2, <2>3, <3>1 DEF Tree, Family
    <3>3. M[k] = N[k] /\ M[q] = N[q] BY <1>4, <1>13, <2>3, <3>1
    <3> QED BY <2>3, <3>1, <3>2, <3>3
  <2> QED BY <2>1, <2>2, <2>3
<1>15. Paths(M)
  <2>1. PICK to : ArePaths(N, to) BY DEF Paths, Tree
  <2> DEFINE new == [j \in 1 .. l |-> IF j = i THEN Append(to[p], i) ELSE to[j]]
  <2>2. to[p] \in Seq(Nat) /\ i \in Nat
    <3>1. p \in 1 .. Len(N) /\ i \in Nat BY <1>2, <1>3, <1>8
    <3> QED BY <2>1, <3>1 DEF ArePaths
  <2>3. new[i] = Append(to[p], i) /\ \A j \in 1 .. l : j # i => new[j] = to[j]
    BY <1>3
  <2> HIDE DEF new
  <2>4. ASSUME NEW k \in 1 .. l
        PROVE  new[k] \in Seq(Nat) /\ new[k] = IF M[k].parent = None THEN <<k>> ELSE Append(new[M[k].parent], k)
    <3>1. CASE k = i
      <4>1. M[k].parent = p /\ new[p] = to[p] BY <1>1, <1>4, <1>8, <2>3, <3>1
      <4>2. Append(to[p], i) \in Seq(Nat) BY <2>2
      <4> QED BY <1>1, <2>3, <3>1, <4>1, <4>2
    <3>2. CASE k # i
      <4>1. to[k] \in Seq(Nat) /\ to[k] = IF N[k].parent = None THEN <<k>> ELSE Append(to[N[k].parent], k)
        BY <1>2, <2>1 DEF ArePaths
      <4>2. M[k] = N[k] /\ new[k] = to[k] BY <1>4, <2>3, <3>2
      <4>3. N[k].parent # None => new[N[k].parent] = to[N[k].parent] BY <1>13, <2>3
      <4> QED BY <4>1, <4>2, <4>3
    <3> QED BY <3>1, <3>2
  <2>5. ArePaths(M, new) BY <1>4, <2>4 DEF ArePaths
  <2> QED BY <2>5 DEF Paths
<1> QED BY <1>4, <1>9, <1>10, <1>11, <1>12, <1>14, <1>15 DEF Tree

-----------------------------------------------------------------------------
(* One neighbour.                                                          *)

\* The arena and its heap between two rounds, or two neighbours.
IsRecord(s) == s = [nodes |-> s.nodes, heap |-> s.heap, best |-> s.best, open_map |-> s.open_map]
Arena(s, C) ==
  /\ IsRecord(s)
  /\ HeapType(W(s)) /\ Placed(W(s)) /\ Ordered(W(s))
  /\ Tree(s.nodes, s.open_map, s.best, C)
  /\ Range(s.heap) = Range(s.open_map)

\* The cost so far of an open place.
G(s, m) == s.nodes[s.open_map[m]].g

\* What is closed does not change.
Settled(s, t, C) ==
  /\ Len(t.nodes) >= Len(s.nodes)
  /\ \A i \in 1 .. Len(s.nodes) : PlaceOf(s.nodes[i]) \in C => Same(t.nodes[i], s.nodes[i])

\* Place n is open at a cost of g now; the other open places stay what they were.
Gets(s, t, n, g) ==
  /\ DOMAIN t.open_map = DOMAIN s.open_map \cup {n}
  /\ G(t, n) = g
  /\ \A m \in DOMAIN s.open_map : m # n => G(t, m) = G(s, m)

\* Heaped replaces two of four fields.
LEMMA HeapedIs ==
  ASSUME NEW s, IsRecord(s), NEW w
  PROVE  Heaped(s, w) = [nodes |-> w.nodes, heap |-> w.heap, best |-> s.best, open_map |-> s.open_map]
<1>1. PICK a, b, c, d, x, y : /\ a = s.nodes /\ b = s.heap /\ c = s.best /\ d = s.open_map
                              /\ x = w.nodes /\ y = w.heap
  OBVIOUS
<1>2. s = [nodes |-> a, heap |-> b, best |-> c, open_map |-> d] BY <1>1 DEF IsRecord
<1>3. [s EXCEPT !.nodes = x, !.heap = y] = [nodes |-> x, heap |-> y, best |-> c, open_map |-> d]
  <2>1. PICK r : r = [s EXCEPT !.nodes = x] OBVIOUS
  <2>2. r = [nodes |-> x, heap |-> b, best |-> c, open_map |-> d] BY <1>2, <2>1
  <2>3. [r EXCEPT !.heap = y] = [nodes |-> x, heap |-> y, best |-> c, open_map |-> d] BY <2>2
  <2>4. [s EXCEPT !.nodes = x, !.heap = y] = [r EXCEPT !.heap = y] BY <2>1
  <2> QED BY <2>3, <2>4
<1> QED BY <1>1, <1>3 DEF Heaped

\* Closer changes the best node, if the new one is nearer to the goal.
LEMMA CloserIs ==
  ASSUME NEW s, IsRecord(s), NEW n, NEW g, NEW i, NEW t, t = Closer(s, n, g, i)
  PROVE  t = [nodes |-> s.nodes, heap |-> s.heap, open_map |-> s.open_map,
              best |-> IF map.estimate[n] < s.nodes[s.best].h THEN i ELSE s.best]
<1> DEFINE r == [nodes |-> s.nodes, heap |-> s.heap, best |-> s.best, open_map |-> s.open_map]
<1>1. s = r BY DEF IsRecord
<1>2. [r EXCEPT !.best = i] = [nodes |-> r.nodes, heap |-> r.heap, best |-> i, open_map |-> r.open_map]
  OBVIOUS
<1> HIDE DEF r
<1>3. CASE map.estimate[n] < s.nodes[s.best].h
  <2>1. t = [s EXCEPT !.best = i] BY <1>3 DEF Closer
  <2> QED BY <1>1, <1>2, <1>3, <2>1
<1>4. CASE ~(map.estimate[n] < s.nodes[s.best].h)
  <2>1. t = s BY <1>4 DEF Closer
  <2> QED BY <1>4, <2>1 DEF IsRecord
<1> QED BY <1>3, <1>4

\* A place is found: it is open now, and the arena is an arena.
LEMMA DiscoverEffect ==
  ASSUME map \in Searches, NEW s, NEW C, Arena(s, C),
         NEW move, NEW g, NEW p, Step(s.nodes, C, move, g, p), NEW n, n = move.to, n \notin C, n \notin DOMAIN s.open_map,
         NEW t, t = Discover(s, move, g, p)
  PROVE  Arena(t, C) /\ Settled(s, t, C) /\ Gets(s, t, n, g)
<1>1. PICK N, O, b : N = s.nodes /\ O = s.open_map /\ b = s.best OBVIOUS
<1>2. N \in Seq(Nodes) /\ Tree(N, O, b, C) /\ IsRecord(s)
  BY <1>1 DEF Arena, HeapType, W
<1>3. PICK i : i = Len(N) + 1 OBVIOUS
<1>4. PICK x : x = Node(move, g, p, None) OBVIOUS
<1>5. PICK M : M = Append(N, x) OBVIOUS
<1>6. PICK P : P = [m \in DOMAIN O \cup {n} |-> IF m = n THEN i ELSE O[m]] OBVIOUS
<1>7. PICK c : c = IF map.estimate[n] < M[b].h THEN i ELSE b OBVIOUS
<1>8. Step(N, C, move, g, p) /\ n \notin DOMAIN O BY <1>1
<1>28. DOMAIN P = DOMAIN O \cup {n} /\ P[n] = i /\ \A m \in DOMAIN O : P[m] = O[m]
  BY <1>6, <1>8
<1>10. x \in Nodes /\ x.g = g /\ x.heap_index = None /\ PlaceOf(x) = n
  <2>1. Valued(N) /\ None \in Nat BY <1>2 DEF Tree, None
  <2> QED BY <1>2, <1>4, <1>8, <2>1, StepNode
<1>36. Len(M) = i BY <1>2, <1>3, <1>5, <1>10
<1>9. Tree(M, P, c, C) /\ M \in Seq(Nodes)
  <2>1. Entered(P, O, n, Len(M)) BY <1>28, <1>36 DEF Entered
  <2>2. Nearest(c, M, b, n, Len(M)) BY <1>7, <1>36 DEF Nearest
  <2>3. N \in Seq(Nodes) /\ Tree(N, O, b, C) /\ Step(N, C, move, g, p) /\ n \notin DOMAIN O BY <1>2, <1>8
  <2> QED BY <1>4, <1>5, <2>1, <2>2, <2>3, TreeGrows
<1>11. PICK l \in Nat : l = Len(N) BY <1>2
<1>12. /\ Len(M) = i /\ i = l + 1 /\ M[i] = x /\ i \in 1 .. i /\ i \notin 1 .. l
       /\ \A k \in 1 .. l : M[k] = N[k] /\ k \in 1 .. i
  BY <1>2, <1>3, <1>5, <1>10, <1>11
<1>13. PICK a : a = [nodes |-> M, heap |-> s.heap, best |-> b, open_map |-> P] OBVIOUS
<1>14. PICK e : e = Closer(a, n, g, i) OBVIOUS
<1>15. e = [nodes |-> M, heap |-> s.heap, best |-> c, open_map |-> P]
  <2>1. IsRecord(a) BY <1>13 DEF IsRecord
  <2>2. a.nodes = M /\ a.heap = s.heap /\ a.best = b /\ a.open_map = P BY <1>13
  <2> QED BY <1>7, <1>14, <2>1, <2>2, CloserIs
<1>16. PICK w : w = [nodes |-> M, heap |-> s.heap] OBVIOUS
<1>17. PICK v : v = HeapPush(w, i) OBVIOUS
<1>18. t = [nodes |-> v.nodes, heap |-> v.heap, best |-> c, open_map |-> P]
  <2>1. [s EXCEPT !.nodes = Append(@, Node(move, g, p, None)),
                  !.open_map = [m \in DOMAIN @ \cup {n} |-> IF m = n THEN Len(s.nodes) + 1 ELSE @[m]]] = a
    <3>0. PICK h : h = s.heap OBVIOUS
    <3>1. s = [nodes |-> N, heap |-> h, best |-> b, open_map |-> O] BY <1>1, <1>2, <3>0 DEF IsRecord
    <3>2. [s EXCEPT !.nodes = M, !.open_map = P] = a
      <4>1. [s EXCEPT !.nodes = M, !.open_map = P] = [nodes |-> M, heap |-> h, best |-> b, open_map |-> P]
        <5>1. PICK r : r = [s EXCEPT !.nodes = M] OBVIOUS
        <5>2. r = [nodes |-> M, heap |-> h, best |-> b, open_map |-> O] BY <3>1, <5>1
        <5>3. [r EXCEPT !.open_map = P] = [nodes |-> M, heap |-> h, best |-> b, open_map |-> P] BY <5>2
        <5>4. [s EXCEPT !.nodes = M, !.open_map = P] = [r EXCEPT !.open_map = P] BY <5>1
        <5> QED BY <5>3, <5>4
      <4> QED BY <1>13, <3>0, <4>1
    <3>3. [s EXCEPT !.nodes = Append(@, Node(move, g, p, None)),
                    !.open_map = [m \in DOMAIN @ \cup {n} |-> IF m = n THEN Len(s.nodes) + 1 ELSE @[m]]]
            = [s EXCEPT !.nodes = M, !.open_map = P]
      BY <1>1, <1>3, <1>4, <1>5, <1>6
    <3> QED BY <3>2, <3>3
  <2>2. t = Heaped(e, HeapPush(W(e), i))
    BY <1>1, <1>3, <1>14, <2>1 DEF Discover
  <2>3. W(e) = w BY <1>15, <1>16 DEF W
  <2>4. IsRecord(e) /\ e.best = c /\ e.open_map = P BY <1>15 DEF IsRecord
  <2>5. t = Heaped(e, v) BY <1>17, <2>2, <2>3
  <2> QED BY <2>4, <2>5, HeapedIs
<1>19. w.nodes = M /\ w.heap = s.heap BY <1>16
<1>20. W(s).nodes = N /\ W(s).heap = s.heap BY <1>1 DEF W
<1>21. /\ s.heap \in Seq(Nat) /\ (\A k \in 1 .. Len(s.heap) : s.heap[k] \in 1 .. l)
       /\ (\A k \in 1 .. Len(s.heap) : N[s.heap[k]].heap_index = k)
       /\ (\A k \in 1 .. l : N[k].heap_index = None
                             \/ (N[k].heap_index \in 1 .. Len(s.heap) /\ s.heap[N[k].heap_index] = k))
       /\ DOMAIN s.heap = 1 .. Len(s.heap)
  <2>1. HeapType(W(s)) /\ Placed(W(s)) BY DEF Arena
  <2> QED BY <1>11, <1>20, <2>1 DEF HeapType, Placed
<1>22. HeapType(w) BY <1>9, <1>12, <1>19, <1>21 DEF HeapType
<1>23. Placed(w)
  <2>1. \A k \in 1 .. Len(s.heap) : M[s.heap[k]].heap_index = k BY <1>12, <1>21
  <2>2. ASSUME NEW k \in 1 .. i
        PROVE  M[k].heap_index = None \/ (M[k].heap_index \in 1 .. Len(s.heap) /\ s.heap[M[k].heap_index] = k)
    <3>1. CASE k = i BY <1>10, <1>12, <3>1
    <3>2. CASE k # i
      <4>1. k \in 1 .. l BY <1>11, <1>12, <3>2
      <4>2. M[k] = N[k] BY <1>12, <4>1
      <4> QED BY <1>21, <4>1, <4>2
    <3> QED BY <3>1, <3>2
  <2> QED BY <1>12, <1>19, <2>1, <2>2 DEF Placed
<1>24. Ordered(w)
  <2>1. \A k \in 1 .. Len(s.heap) : F(w, k) = F(W(s), k)
    BY <1>12, <1>19, <1>20, <1>21 DEF F
  <2>2. ASSUME NEW k \in 2 .. Len(s.heap) PROVE F(w, k \div 2) <= F(w, k)
    <3>1. Len(s.heap) \in Nat BY <1>21
    <3>2. k \in 1 .. Len(s.heap) /\ k \in Nat /\ k > 1 BY <3>1
    <3>3. k \div 2 \in 1 .. Len(s.heap) BY <3>1, <3>2, Halving
    <3>4. F(W(s), k \div 2) <= F(W(s), k) BY <1>20 DEF Arena, Ordered
    <3> QED BY <2>1, <3>2, <3>3, <3>4
  <2> QED BY <1>19, <2>2 DEF Ordered
<1>25. i \in 1 .. Len(w.nodes) /\ i \notin Range(w.heap)
  <2>1. i \notin Range(s.heap) BY <1>12, <1>21 DEF Range
  <2> QED BY <1>12, <1>19, <2>1
<1>26. /\ HeapType(v) /\ Placed(v) /\ Ordered(v)
       /\ Len(v.nodes) = i /\ Range(v.heap) = Range(s.heap) \cup {i}
       /\ \A k \in 1 .. i : Same(v.nodes[k], M[k])
  BY <1>12, <1>17, <1>19, <1>22, <1>23, <1>24, <1>25, HeapPushEffect
<1>27. Tree(v.nodes, P, c, C) BY <1>9, <1>12, <1>26, TreeSame
<1>35. Range(v.heap) = Range(P)
  <2>1. Range(P) = Range(O) \cup {i} BY <1>28 DEF Range
  <2>2. Range(s.heap) = Range(O) BY <1>1 DEF Arena
  <2> QED BY <1>26, <2>1, <2>2
<1>30. t.nodes = v.nodes /\ t.heap = v.heap /\ t.best = c /\ t.open_map = P BY <1>18
<1>31. Arena(t, C)
  <2>1. IsRecord(t) BY <1>18 DEF IsRecord
  <2>2. W(t) = [nodes |-> v.nodes, heap |-> v.heap] BY <1>30 DEF W
  <2>3. HeapType(W(t)) BY <1>26, <2>2 DEF HeapType
  <2>4. Placed(W(t)) BY <1>26, <2>2 DEF Placed
  <2>5. Ordered(W(t)) BY <1>26, <2>2 DEF Ordered, F
  <2> QED BY <1>27, <1>35, <1>30, <2>1, <2>3, <2>4, <2>5 DEF Arena
<1>32. \A k \in 1 .. l : Same(t.nodes[k], N[k]) BY <1>12, <1>26, <1>30
<1>33. Settled(s, t, C)
  <2>1. Len(t.nodes) >= Len(s.nodes) BY <1>1, <1>11, <1>12, <1>26, <1>30
  <2> QED BY <1>1, <1>11, <1>32, <2>1 DEF Settled
<1>34. Gets(s, t, n, g)
  <2>1. G(t, n) = g BY <1>10, <1>12, <1>26, <1>28, <1>30 DEF G, Same
  <2>2. ASSUME NEW m \in DOMAIN O PROVE G(t, m) = G(s, m)
    <3>1. O[m] \in 1 .. l BY <1>2, <1>11 DEF Tree, Opened
    <3> QED BY <1>1, <1>28, <1>30, <1>32, <3>1 DEF G, Same
  <2> QED BY <1>1, <1>28, <1>30, <2>1, <2>2 DEF Gets
<1> QED BY <1>31, <1>33, <1>34

\* A cheaper way to an open place is found.
LEMMA ImproveEffect ==
  ASSUME map \in Searches, NEW s, NEW C, Arena(s, C),
         NEW move, NEW g, NEW p, Step(s.nodes, C, move, g, p), NEW n, n = move.to, n \notin C, n \in DOMAIN s.open_map,
         g < G(s, n),
         NEW t, t = Improve(s, move, g, p)
  PROVE  Arena(t, C) /\ Settled(s, t, C) /\ Gets(s, t, n, g)
<1>1. PICK N, O, b : N = s.nodes /\ O = s.open_map /\ b = s.best OBVIOUS
<1>2. N \in Seq(Nodes) /\ Tree(N, O, b, C) /\ IsRecord(s)
  BY <1>1 DEF Arena, HeapType, W
<1>3. PICK l \in Nat : l = Len(N) BY <1>2
<1>4. PICK i : i = O[n] OBVIOUS
<1>5. i \in 1 .. l /\ PlaceOf(N[i]) = n BY <1>1, <1>2, <1>3, <1>4 DEF Tree, Opened
<1>6. PICK w : w = W(s) OBVIOUS
<1>7. /\ w.nodes = N /\ w.heap = s.heap /\ HeapType(w) /\ Placed(w) /\ Ordered(w)
      /\ DOMAIN s.heap = 1 .. Len(s.heap)
  <2>1. w.nodes = N /\ w.heap = s.heap BY <1>1, <1>6 DEF W
  <2> QED BY <1>6, <2>1 DEF Arena, HeapType
<1>8. PICK at \in 1 .. Len(s.heap) : s.heap[at] = i
  <2>1. i \in Range(O) BY <1>1, <1>4 DEF Range
  <2>2. i \in Range(s.heap) BY <1>1, <2>1 DEF Arena
  <2> QED BY <1>7, <2>2 DEF Range
<1>9. N[i].heap_index = at /\ at \in Nat /\ at # None /\ at \in 1 .. Len(w.heap)
  <2>1. Len(s.heap) \in Nat BY <1>7 DEF HeapType
  <2> QED BY <1>7, <1>8, <2>1 DEF Placed, None
<1>10. PICK x : x = Node(move, g, p, at) OBVIOUS
<1>11. PICK M : M = [N EXCEPT ![i] = x] OBVIOUS
<1>12. Step(N, C, move, g, p) /\ n \in DOMAIN O BY <1>1
<1>13. Tree(M, O, b, C) /\ M \in Seq(Nodes) /\ ~(map.estimate[n] < M[b].h)
  BY <1>2, <1>4, <1>9, <1>10, <1>11, <1>12, TreeImproves
<1>14. x \in Nodes /\ x.g = g /\ x.heap_index = at /\ x.h = map.estimate[n] /\ g \in Nat
  <2>1. Valued(N) BY <1>2 DEF Tree
  <2> QED BY <1>2, <1>9, <1>10, <1>12, <2>1, StepNode
<1>15. PICK a : a = [nodes |-> M, heap |-> s.heap, best |-> b, open_map |-> O] OBVIOUS
<1>16. Closer(a, n, g, i) = a
  <2>1. a.nodes = M /\ a.best = b BY <1>15
  <2> QED BY <1>13, <2>1 DEF Closer
<1>17. PICK v : v = BubbleUp(W(a), at) OBVIOUS
<1>18. t = [nodes |-> v.nodes, heap |-> v.heap, best |-> b, open_map |-> O]
  <2>1. [s EXCEPT !.nodes[i] = x] = a
    <3> DEFINE r == [nodes |-> N, heap |-> s.heap, best |-> b, open_map |-> O]
    <3>1. s = r BY <1>1, <1>2 DEF IsRecord
    <3>2. [r EXCEPT !.nodes = M] = a BY <1>15
    <3>3. [s EXCEPT !.nodes[i] = x] = [s EXCEPT !.nodes = M] BY <1>1, <1>11
    <3> HIDE DEF r
    <3> QED BY <3>1, <3>2, <3>3
  <2>2. t = Heaped(a, BubbleUp(W(a), at))
    BY <1>1, <1>4, <1>9, <1>10, <1>16, <2>1 DEF Improve
  <2>3. IsRecord(a) /\ a.best = b /\ a.open_map = O BY <1>15 DEF IsRecord
  <2> QED BY <1>17, <2>2, <2>3, HeapedIs
<1>19. W(a).heap = w.heap /\ W(a).nodes = [w.nodes EXCEPT ![w.heap[at]] = x]
  BY <1>7, <1>8, <1>11, <1>15 DEF W
<1>20. x.g + x.h <= F(w, at)
  <2>1. F(w, at) = N[i].g + N[i].h BY <1>7, <1>8 DEF F
  <2>2. N[i].h = map.estimate[n] BY <1>2, <1>3, <1>5 DEF Tree, Valued
  <2>3. N[i] \in Nodes BY <1>2, <1>3, <1>5
  <2>4. N[i].g \in Nat /\ N[i].h \in Int BY <2>3 DEF Nodes
  <2>5. g < N[i].g BY <1>1, <1>4 DEF G
  <2> QED BY <1>14, <2>1, <2>2, <2>4, <2>5
<1>21. /\ HeapType(v) /\ Placed(v) /\ Ordered(v)
       /\ Len(v.nodes) = l /\ Range(v.heap) = Range(s.heap)
       /\ Same(v.nodes[i], x)
       /\ \A k \in 1 .. l : k # i => Same(v.nodes[k], N[k])
  <2>1. w.heap[at] = i /\ Len(w.nodes) = l BY <1>3, <1>7, <1>8
  <2>2. PICK u : u = W(a) OBVIOUS
  <2>3. v = BubbleUp(u, at) /\ u.heap = w.heap /\ u.nodes = M
    BY <1>7, <1>8, <1>11, <1>17, <1>19, <2>2
  <2>5. /\ u.nodes \in Seq(Nodes) /\ Len(u.nodes) = Len(w.nodes) /\ u.nodes[w.heap[at]] = x
        /\ \A k \in 1 .. Len(w.nodes) : k # w.heap[at] => u.nodes[k] = w.nodes[k]
    BY <1>2, <1>3, <1>5, <1>7, <1>8, <1>11, <1>14, <2>3
  <2>4. /\ HeapType(v) /\ Placed(v) /\ Ordered(v)
        /\ Len(v.nodes) = Len(w.nodes) /\ Range(v.heap) = Range(w.heap)
        /\ Same(v.nodes[w.heap[at]], x)
        /\ \A k \in 1 .. Len(w.nodes) : k # w.heap[at] => Same(v.nodes[k], w.nodes[k])
    <3>1. Lowered(w, u, at, x) BY <1>14, <1>20, <2>3, <2>5 DEF Lowered
    <3> QED BY <1>7, <1>9, <2>3, <3>1, RaiseEffect
  <2> QED BY <1>7, <2>1, <2>4
<1>22. Tree(v.nodes, O, b, C)
  <2>1. Len(M) = l /\ M[i] = x /\ \A k \in 1 .. l : k # i => M[k] = N[k] BY <1>2, <1>3, <1>5, <1>11
  <2>2. \A k \in 1 .. l : Same(v.nodes[k], M[k]) BY <1>21, <2>1
  <2> QED BY <1>13, <1>21, <2>1, <2>2, TreeSame
<1>23. t.nodes = v.nodes /\ t.heap = v.heap /\ t.best = b /\ t.open_map = O BY <1>18
<1>24. Arena(t, C)
  <2>1. IsRecord(t) BY <1>18 DEF IsRecord
  <2>2. W(t) = [nodes |-> v.nodes, heap |-> v.heap] BY <1>23 DEF W
  <2>3. HeapType(W(t)) BY <1>21, <2>2 DEF HeapType
  <2>4. Placed(W(t)) BY <1>21, <2>2 DEF Placed
  <2>5. Ordered(W(t)) BY <1>21, <2>2 DEF Ordered, F
  <2>6. Range(t.heap) = Range(t.open_map) BY <1>1, <1>21, <1>23 DEF Arena
  <2> QED BY <1>22, <1>23, <2>1, <2>3, <2>4, <2>5, <2>6 DEF Arena
<1>25. \A k \in 1 .. l : k # i => Same(t.nodes[k], N[k]) BY <1>21, <1>23
<1>26. Settled(s, t, C)
  <2>1. Len(t.nodes) >= Len(s.nodes) BY <1>1, <1>3, <1>21, <1>23
  <2> QED BY <1>1, <1>3, <1>5, <1>25, <2>1 DEF Settled
<1>27. Gets(s, t, n, g)
  <2>1. G(t, n) = g BY <1>4, <1>14, <1>21, <1>23 DEF G, Same
  <2>2. ASSUME NEW m \in DOMAIN O, m # n PROVE G(t, m) = G(s, m)
    <3>1. O[m] \in 1 .. l /\ PlaceOf(N[O[m]]) = m BY <1>2, <1>3 DEF Tree, Opened
    <3>2. O[m] # i BY <1>5, <2>2, <3>1
    <3> QED BY <1>1, <1>23, <1>25, <3>1, <3>2 DEF G, Same
  <2> QED BY <1>1, <1>12, <1>23, <2>1, <2>2 DEF Gets
<1> QED BY <1>24, <1>26, <1>27

\* What Relax makes of a move to place n at a cost of g.
Offered(C, n, g) == n \notin C /\ (map.limit > 0 => g + map.estimate[n] <= map.limit)

\* What is known of the parts of an arena.
LEMMA ArenaTypes ==
  ASSUME NEW s, NEW C, Arena(s, C)
  PROVE  /\ s.nodes \in Seq(Nodes) /\ Len(s.nodes) \in Nat
         /\ DOMAIN s.open_map \subseteq Place \ C
         /\ \A m \in DOMAIN s.open_map : s.open_map[m] \in 1 .. Len(s.nodes) /\ G(s, m) \in Nat
         /\ \A i \in 1 .. Len(s.nodes) : s.nodes[i].g \in Nat
<1>1. s.nodes \in Seq(Nodes) BY DEF Arena, HeapType, W
<1>2. Len(s.nodes) \in Nat BY <1>1
<1>3. \A i \in 1 .. Len(s.nodes) : s.nodes[i] \in Nodes BY <1>1
<1>4. \A i \in 1 .. Len(s.nodes) : s.nodes[i].g \in Nat BY <1>3 DEF Nodes
<1>5. /\ DOMAIN s.open_map \subseteq Place \ C
      /\ \A m \in DOMAIN s.open_map : s.open_map[m] \in 1 .. Len(s.nodes)
  BY DEF Arena, Tree, Opened
<1> QED BY <1>1, <1>2, <1>4, <1>5 DEF G

\* What does not change is settled.
LEMMA SettledSame ==
  ASSUME NEW s, NEW C, Arena(s, C)
  PROVE  Settled(s, s, C)
<1>1. Len(s.nodes) \in Nat BY ArenaTypes
<1>2. Len(s.nodes) >= Len(s.nodes) BY <1>1
<1> QED BY <1>2 DEF Settled, Same

\* What Relax does with it: nothing, or the place gets cheaper.
Relaxed(s, t, C, n, g) ==
  /\ Arena(t, C) /\ Settled(s, t, C)
  /\ ~Offered(C, n, g) => t = s
  /\ Offered(C, n, g) => \/ Gets(s, t, n, g) /\ (n \in DOMAIN s.open_map => g < G(s, n))
                         \/ t = s /\ n \in DOMAIN s.open_map /\ G(s, n) <= g

\* The place and the cost that a move offers, from a place that costs c.
LeadsTo(move, c, n, g) == n = move.to /\ g = c + move.cost

\* A neighbour that is closed or out of reach is ignored; else its place gets
\* the cost that the move offers, unless it is open at no more.
LEMMA RelaxEffect ==
  ASSUME map \in Searches, NEW s, NEW p \in 1 .. Len(s.nodes),
         NEW C, C = closed \cup {PlaceOf(s.nodes[p])}, Arena(s, C),
         NEW move \in Range(map.moves[PlaceOf(s.nodes[p])]), NEW n, NEW g, LeadsTo(move, s.nodes[p].g, n, g),
         NEW t, t = Relax(s, move, p)
  PROVE  Relaxed(s, t, C, n, g)
<1>0. n = move.to /\ g = s.nodes[p].g + move.cost BY DEF LeadsTo
<1>1. Step(s.nodes, C, move, g, p) BY <1>0 DEF Step
<1>2. /\ n \in Place /\ g \in Nat /\ map.estimate[n] \in Int /\ map.limit \in Nat
  <2>1. Valued(s.nodes) BY DEF Arena, Tree
  <2>2. PlaceOf(s.nodes[p]) \in Place BY <2>1 DEF Valued
  <2>3. n \in Place /\ move.cost \in Nat BY <1>0, <2>2, MapFacts
  <2>4. s.nodes[p].g \in Nat BY ArenaTypes
  <2>5. map.estimate[n] \in Int /\ map.limit \in Nat BY <2>3, MapFacts
  <2> QED BY <1>0, <2>3, <2>4, <2>5
<1>3. Offered(C, n, g) <=> ~(n \in closed \cup {PlaceOf(s.nodes[p])}
                             \/ (map.limit > 0 /\ g + map.estimate[n] > map.limit))
  <2>1. g + map.estimate[n] <= map.limit <=> ~(g + map.estimate[n] > map.limit) BY <1>2
  <2> QED BY <2>1 DEF Offered
<1>4. CASE ~Offered(C, n, g)
  <2>1. t = s BY <1>0, <1>3, <1>4 DEF Relax
  <2> QED BY <1>4, <2>1, SettledSame DEF Relaxed
<1>5. CASE Offered(C, n, g) /\ n \notin DOMAIN s.open_map
  <2>1. t = Discover(s, move, g, p) BY <1>0, <1>3, <1>5 DEF Relax
  <2>2. n \notin C BY <1>5 DEF Offered
  <2>3. Arena(t, C) /\ Settled(s, t, C) /\ Gets(s, t, n, g) BY <1>0, <1>1, <1>5, <2>1, <2>2, DiscoverEffect
  <2> QED BY <1>5, <2>3 DEF Relaxed
<1>6. CASE Offered(C, n, g) /\ n \in DOMAIN s.open_map /\ g < G(s, n)
  <2>1. Better(s, n, g) BY <1>6 DEF Better, G
  <2>2. t = Improve(s, move, g, p) BY <1>0, <1>3, <1>6, <2>1 DEF Relax
  <2>3. n \notin C BY <1>6 DEF Offered
  <2>4. Arena(t, C) /\ Settled(s, t, C) /\ Gets(s, t, n, g) BY <1>0, <1>1, <1>6, <2>2, <2>3, ImproveEffect
  <2> QED BY <1>6, <2>4 DEF Relaxed
<1>7. CASE Offered(C, n, g) /\ n \in DOMAIN s.open_map /\ ~(g < G(s, n))
  <2>1. ~Better(s, n, g) BY <1>7 DEF Better, G
  <2>2. t = s BY <1>0, <1>3, <1>7, <2>1 DEF Relax
  <2>3. G(s, n) \in Nat BY <1>7, ArenaTypes
  <2>4. G(s, n) <= g BY <1>2, <1>7, <2>3
  <2> QED BY <1>7, <2>2, <2>4, SettledSame DEF Relaxed
<1> QED BY <1>4, <1>5, <1>6, <1>7

-----------------------------------------------------------------------------
(* All neighbours.                                                         *)

\* The first n of the rounds of RelaxAll.
AreRelaxed(f, s, moves, p, n) ==
  f = [k \in 0 .. n |-> IF k = 0 THEN s ELSE Relax(f[k - 1], moves[k], p)]

\* There are such rounds, however many.
LEMMA RelaxingExists ==
  ASSUME NEW s, NEW moves, NEW p, NEW m \in Nat
  PROVE  \E f : AreRelaxed(f, s, moves, p, m)
<1> DEFINE T == {n \in Nat : ~\E f : AreRelaxed(f, s, moves, p, n)}
<1> SUFFICES ASSUME T # {} PROVE FALSE OBVIOUS
<1>1. PICK n \in T : \A y \in T : n <= y
  <2>1. T \subseteq Nat OBVIOUS
  <2> HIDE DEF T
  <2> QED BY <2>1, LeastNatural
<1>2. n # 0
  <2>1. AreRelaxed([k \in 0 .. 0 |-> s], s, moves, p, 0) BY DEF AreRelaxed
  <2> QED BY <2>1
<1>3. n - 1 \in Nat /\ n - 1 \notin T BY <1>1, <1>2
<1>4. PICK g : AreRelaxed(g, s, moves, p, n - 1) BY <1>3
<1> DEFINE h == [k \in 0 .. n |-> IF k = 0 THEN s ELSE Relax(g[k - 1], moves[k], p)]
<1>5. \A k \in 0 .. n - 1 : h[k] = g[k]
  BY <1>3, <1>4 DEF AreRelaxed
<1>6. AreRelaxed(h, s, moves, p, n)
  <2>1. \A k \in 0 .. n : h[k] = IF k = 0 THEN s ELSE Relax(h[k - 1], moves[k], p)
    <3> TAKE k \in 0 .. n
    <3>1. CASE k = 0 BY <3>1
    <3>2. CASE k # 0
      <4>1. k - 1 \in 0 .. n - 1 BY <3>2
      <4>2. h[k - 1] = g[k - 1] BY <1>5, <4>1
      <4>3. h[k] = Relax(g[k - 1], moves[k], p) BY <3>2
      <4> QED BY <3>2, <4>2, <4>3
    <3> QED BY <3>1, <3>2
  <2>2. h = [k \in 0 .. n |-> h[k]] OBVIOUS
  <2> HIDE DEF h
  <2> QED BY <2>1, <2>2 DEF AreRelaxed
<1> QED BY <1>6

Rounds(f, s, moves, p, n) ==
  /\ f[0] = s
  /\ \A k \in 1 .. n : f[k] = Relax(f[k - 1], moves[k], p)
  /\ RelaxAll(s, moves, p) = f[n]

\* There are rounds that RelaxAll is the last of.
LEMMA RelaxAllIs ==
  ASSUME NEW s, NEW moves, NEW p, NEW n \in Nat, n = Len(moves)
  PROVE  \E f : Rounds(f, s, moves, p, n)
<1> DEFINE f == CHOOSE g : g = [k \in 0 .. Len(moves) |-> IF k = 0 THEN s ELSE Relax(g[k - 1], moves[k], p)]
<1>1. RelaxAll(s, moves, p) = f[Len(moves)] BY DEF RelaxAll
<1>2. AreRelaxed(f, s, moves, p, n)
  <2>1. PICK g : AreRelaxed(g, s, moves, p, n) BY RelaxingExists
  <2>2. g = [k \in 0 .. Len(moves) |-> IF k = 0 THEN s ELSE Relax(g[k - 1], moves[k], p)] BY <2>1 DEF AreRelaxed
  <2>3. f = [k \in 0 .. Len(moves) |-> IF k = 0 THEN s ELSE Relax(f[k - 1], moves[k], p)] BY <2>2
  <2> HIDE DEF f
  <2> QED BY <2>3 DEF AreRelaxed
<1> HIDE DEF f
<1>3. f[0] = s /\ \A k \in 1 .. n : f[k] = Relax(f[k - 1], moves[k], p) BY <1>2 DEF AreRelaxed
<1>4. Rounds(f, s, moves, p, n) BY <1>1, <1>3 DEF Rounds
<1> QED BY <1>4

\* Move j, from a place that costs c, offers place m.
Offers(moves, c, C, j, m) == moves[j].to = m /\ Offered(C, m, c + moves[j].cost)

\* Each open place costs the least of what it did and the first n moves offer.
Priced(s, t, moves, c, C, n) ==
  /\ \A m \in DOMAIN s.open_map : m \in DOMAIN t.open_map /\ G(t, m) <= G(s, m)
  /\ \A j \in 1 .. n : Offered(C, moves[j].to, c + moves[j].cost) =>
       moves[j].to \in DOMAIN t.open_map /\ G(t, moves[j].to) <= c + moves[j].cost
  /\ \A m \in DOMAIN t.open_map :
       \/ m \in DOMAIN s.open_map /\ G(t, m) = G(s, m)
       \/ \E j \in 1 .. n : Offers(moves, c, C, j, m) /\ G(t, m) = c + moves[j].cost

\* One more move.
Follows(j, k) == k = j + 1

\* After it, places cost the least of what one move more offers.
LEMMA PricedOn ==
  ASSUME NEW s, NEW C, Arena(s, C), NEW t, Arena(t, C), NEW u, Arena(u, C),
         NEW moves, NEW c \in Nat, NEW j \in Nat, NEW k \in Nat, Follows(j, k),
         \A i \in 1 .. k : moves[i].cost \in Nat,
         NEW n, NEW g, LeadsTo(moves[k], c, n, g),
         Priced(s, t, moves, c, C, j), Relaxed(t, u, C, n, g)
  PROVE  Priced(s, u, moves, c, C, k)
<1>0. k = j + 1 /\ n = moves[k].to /\ g = c + moves[k].cost BY DEF Follows, LeadsTo
<1>1. /\ \A m \in DOMAIN s.open_map : G(s, m) \in Nat
      /\ \A m \in DOMAIN t.open_map : G(t, m) \in Nat
      /\ \A m \in DOMAIN u.open_map : G(u, m) \in Nat
  BY ArenaTypes
<1>2. /\ k \in 1 .. k /\ g \in Nat /\ (\A i \in 1 .. k : i = k \/ i \in 1 .. j) /\ (\A i \in 1 .. j : i \in 1 .. k)
      /\ \A i \in 1 .. k : c + moves[i].cost \in Nat
  <2>1. k \in 1 .. k BY <1>0
  <2> QED BY <1>0, <2>1
<1>3. CASE u = t /\ (Offered(C, n, g) => n \in DOMAIN t.open_map /\ G(t, n) <= g)
  <2>1. \A i \in 1 .. k : Offered(C, moves[i].to, c + moves[i].cost) =>
          moves[i].to \in DOMAIN t.open_map /\ G(t, moves[i].to) <= c + moves[i].cost
    BY <1>0, <1>2, <1>3 DEF Priced
  <2>2. ASSUME NEW m \in DOMAIN t.open_map
        PROVE  \/ m \in DOMAIN s.open_map /\ G(t, m) = G(s, m)
               \/ \E i \in 1 .. k : Offers(moves, c, C, i, m) /\ G(t, m) = c + moves[i].cost
    BY <1>2 DEF Priced
  <2>3. \A m \in DOMAIN s.open_map : m \in DOMAIN t.open_map /\ G(t, m) <= G(s, m) BY DEF Priced
  <2> QED BY <1>3, <2>1, <2>2, <2>3 DEF Priced
<1>4. CASE Offered(C, n, g) /\ Gets(t, u, n, g) /\ (n \in DOMAIN t.open_map => g < G(t, n))
  <2>1. /\ DOMAIN u.open_map = DOMAIN t.open_map \cup {n}
        /\ G(u, n) = g
        /\ \A m \in DOMAIN t.open_map : m # n => G(u, m) = G(t, m)
    BY <1>4 DEF Gets
  <2>2. \A m \in DOMAIN t.open_map : m \in DOMAIN u.open_map /\ G(u, m) <= G(t, m)
    <3> TAKE m \in DOMAIN t.open_map
    <3>1. CASE m = n
      <4>1. g < G(t, m) BY <1>4, <3>1
      <4>2. g <= G(t, m) BY <1>1, <1>2, <4>1
      <4> QED BY <2>1, <3>1, <4>2
    <3>2. CASE m # n
      <4>1. G(u, m) = G(t, m) /\ G(t, m) \in Nat BY <1>1, <2>1, <3>2
      <4>2. G(u, m) <= G(t, m) BY <4>1
      <4> QED BY <2>1, <4>2
    <3> QED BY <3>1, <3>2
  <2>3. \A m \in DOMAIN s.open_map : m \in DOMAIN u.open_map /\ G(u, m) <= G(s, m)
    <3> TAKE m \in DOMAIN s.open_map
    <3>1. m \in DOMAIN t.open_map /\ G(t, m) <= G(s, m) BY DEF Priced
    <3>2. m \in DOMAIN u.open_map /\ G(u, m) <= G(t, m) BY <2>2, <3>1
    <3>3. G(s, m) \in Nat /\ G(t, m) \in Nat /\ G(u, m) \in Nat BY <1>1, <3>1, <3>2
    <3>4. G(u, m) <= G(s, m) BY <3>1, <3>2, <3>3
    <3> QED BY <3>2, <3>4
  <2>4. ASSUME NEW i \in 1 .. k, Offered(C, moves[i].to, c + moves[i].cost)
        PROVE  moves[i].to \in DOMAIN u.open_map /\ G(u, moves[i].to) <= c + moves[i].cost
    <3>1. CASE i = k
      <4>1. G(u, n) <= g BY <1>2, <2>1
      <4> QED BY <1>0, <2>1, <3>1, <4>1
    <3>2. CASE i \in 1 .. j
      <4>1. PICK m : m = moves[i].to OBVIOUS
      <4>2. m \in DOMAIN t.open_map /\ G(t, m) <= c + moves[i].cost BY <2>4, <3>2, <4>1 DEF Priced
      <4>3. m \in DOMAIN u.open_map /\ G(u, m) <= G(t, m) BY <2>2, <4>2
      <4>4. G(t, m) \in Nat /\ G(u, m) \in Nat /\ c + moves[i].cost \in Nat BY <1>1, <1>2, <4>2, <4>3
      <4>5. G(u, m) <= c + moves[i].cost BY <4>2, <4>3, <4>4
      <4> QED BY <4>1, <4>3, <4>5
    <3> QED BY <1>2, <3>1, <3>2
  <2>5. ASSUME NEW m \in DOMAIN u.open_map
        PROVE  \/ m \in DOMAIN s.open_map /\ G(u, m) = G(s, m)
               \/ \E i \in 1 .. k : Offers(moves, c, C, i, m) /\ G(u, m) = c + moves[i].cost
    <3>1. CASE m = n
      <4>1. Offers(moves, c, C, k, m) BY <1>0, <1>4, <3>1 DEF Offers
      <4> QED BY <1>0, <1>2, <2>1, <3>1, <4>1
    <3>2. CASE m # n
      <4>1. m \in DOMAIN t.open_map /\ G(u, m) = G(t, m) BY <2>1, <3>2
      <4> QED BY <1>2, <4>1 DEF Priced
    <3> QED BY <3>1, <3>2
  <2> QED BY <2>3, <2>4, <2>5 DEF Priced
<1> QED BY <1>3, <1>4 DEF Relaxed

\* After all neighbours, each open place costs the least of what it did and
\* what the moves offer, and what is closed has not changed.
LEMMA RelaxAllEffect ==
  ASSUME map \in Searches, NEW s, NEW p \in 1 .. Len(s.nodes),
         NEW C, C = closed \cup {PlaceOf(s.nodes[p])}, Arena(s, C),
         NEW moves, moves = map.moves[PlaceOf(s.nodes[p])],
         NEW t, t = RelaxAll(s, moves, p)
  PROVE  /\ Arena(t, C) /\ Settled(s, t, C)
         /\ Priced(s, t, moves, s.nodes[p].g, C, Len(moves))
<1>1. PICK q : q = PlaceOf(s.nodes[p]) OBVIOUS
<1>2. q \in Place /\ q \in C BY <1>1 DEF Arena, Tree, Valued
<1>3. /\ Len(moves) \in Nat /\ DOMAIN moves = 1 .. Len(moves)
      /\ \A move \in Range(moves) : move.to \in Place /\ move.cost \in Nat
  BY <1>1, <1>2, MapFacts
<1>4. PICK l \in Nat : l = Len(moves) BY <1>3
<1>5. \A k \in 1 .. l : moves[k] \in Range(moves) /\ moves[k].cost \in Nat
  <2>1. \A k \in 1 .. l : moves[k] \in Range(moves) BY <1>3, <1>4 DEF Range
  <2> QED BY <1>3, <2>1
<1>6. PICK f : /\ f[0] = s
               /\ \A k \in 1 .. l : f[k] = Relax(f[k - 1], moves[k], p)
               /\ t = f[l]
  <2>1. l \in Nat /\ l = Len(moves) BY <1>4
  <2>2. PICK f : Rounds(f, s, moves, p, l) BY <2>1, RelaxAllIs
  <2> QED BY <2>2 DEF Rounds
<1>7. PICK c \in Nat : c = s.nodes[p].g BY ArenaTypes
<1> DEFINE Fine(k) == Arena(f[k], C) /\ Settled(s, f[k], C) /\ Priced(s, f[k], moves, c, C, k)
           T == {k \in 0 .. l : ~Fine(k)}
<1>8. T = {}
  <2> SUFFICES ASSUME T # {} PROVE FALSE OBVIOUS
  <2>1. PICK k \in T : \A y \in T : k <= y
    <3>1. T \subseteq Nat BY <1>4
    <3> HIDE DEF T
    <3> QED BY <3>1, LeastNatural
  <2>2. Fine(0)
    <3>1. Settled(s, s, C) BY SettledSame
    <3>2. \A m \in DOMAIN s.open_map : G(s, m) \in Nat BY ArenaTypes
    <3>3. \A m \in DOMAIN s.open_map : G(s, m) <= G(s, m) BY <3>2
    <3>4. PICK z : z = 0 OBVIOUS
    <3>5. 1 .. z = {} BY <3>4
    <3>6. Priced(s, s, moves, c, C, z) BY <3>3, <3>5 DEF Priced
    <3> QED BY <1>6, <3>1, <3>4, <3>6
  <2>3. k # 0 BY <2>1, <2>2
  <2>4. PICK j \in 0 .. l : j = k - 1 BY <2>1, <2>3
  <2>5. k \in 1 .. l /\ k \in Nat /\ j \in Nat /\ k = j + 1 BY <1>4, <2>1, <2>3, <2>4
  <2>6. Fine(j)
    <3>1. j \notin T
      <4>1. ~(k <= j) BY <2>5
      <4> HIDE DEF T
      <4> QED BY <2>1, <4>1
    <3> QED BY <3>1
  <2>7. PICK a, b : a = f[j] /\ b = f[k] OBVIOUS
  <2>8. b = Relax(a, moves[k], p) BY <1>6, <2>4, <2>5, <2>7
  <2>9. Arena(a, C) /\ Settled(s, a, C) /\ Priced(s, a, moves, c, C, j) BY <2>6, <2>7
  <2>10. Same(a.nodes[p], s.nodes[p]) /\ p \in 1 .. Len(a.nodes)
    <3>1. Same(a.nodes[p], s.nodes[p]) BY <1>1, <1>2, <2>9 DEF Settled
    <3>2. Len(a.nodes) >= Len(s.nodes) /\ Len(a.nodes) \in Nat /\ Len(s.nodes) \in Nat
      BY <2>9, ArenaTypes DEF Settled
    <3> QED BY <3>1, <3>2
  <2>11. PlaceOf(a.nodes[p]) = q /\ a.nodes[p].g = c BY <1>1, <1>7, <2>10 DEF Same, PlaceOf
  <2>12. PICK n, g, move : LeadsTo(move, c, n, g) /\ move = moves[k] BY DEF LeadsTo
  <2>13. Relaxed(a, b, C, n, g) /\ Arena(b, C) /\ Settled(a, b, C)
    <3>1. C = closed \cup {PlaceOf(a.nodes[p])} BY <1>1, <2>11
    <3>2. move \in Range(map.moves[PlaceOf(a.nodes[p])]) BY <1>1, <1>5, <2>5, <2>11, <2>12
    <3>3. LeadsTo(move, a.nodes[p].g, n, g) BY <2>11, <2>12
    <3>4. b = Relax(a, move, p) BY <2>8, <2>12
    <3>5. Relaxed(a, b, C, n, g) BY <2>9, <2>10, <3>1, <3>2, <3>3, <3>4, RelaxEffect
    <3> QED BY <3>5 DEF Relaxed
  <2>14. Settled(s, b, C)
    <3>1. /\ Len(a.nodes) \in Nat /\ Len(b.nodes) \in Nat /\ Len(s.nodes) \in Nat
          /\ Len(b.nodes) >= Len(a.nodes) /\ Len(a.nodes) >= Len(s.nodes)
      BY <2>9, <2>13, ArenaTypes DEF Settled
    <3>2. ASSUME NEW i \in 1 .. Len(s.nodes), PlaceOf(s.nodes[i]) \in C PROVE Same(b.nodes[i], s.nodes[i])
      <4>1. Same(a.nodes[i], s.nodes[i]) BY <2>9, <3>2 DEF Settled
      <4>2. PlaceOf(a.nodes[i]) \in C /\ i \in 1 .. Len(a.nodes)
        <5>1. PlaceOf(a.nodes[i]) \in C BY <3>2, <4>1 DEF Same, PlaceOf
        <5>2. i \in 1 .. Len(a.nodes) BY <3>1
        <5> QED BY <5>1, <5>2
      <4>3. Same(b.nodes[i], a.nodes[i]) BY <2>13, <4>2 DEF Settled
      <4> QED BY <4>1, <4>3 DEF Same
    <3>3. Len(b.nodes) >= Len(s.nodes) BY <3>1
    <3> QED BY <3>2, <3>3 DEF Settled
  <2>15. Priced(s, b, moves, c, C, k)
    <3>1. \A i \in 1 .. k : moves[i].cost \in Nat BY <1>4, <1>5, <2>5
    <3>2. Follows(j, k) BY <2>5 DEF Follows
    <3> QED BY <2>5, <2>9, <2>12, <2>13, <3>1, <3>2, PricedOn
  <2>16. Fine(k) BY <2>7, <2>13, <2>14, <2>15
  <2> QED BY <2>1, <2>16
<1>9. Fine(l)
  <2>1. l \in 0 .. l BY <1>4
  <2> QED BY <1>8, <2>1
<1> QED BY <1>4, <1>6, <1>7, <1>9

-----------------------------------------------------------------------------
(* The invariant.                                                          *)

Found == IF status.kind = "success" THEN {status.node} ELSE {}
StatusOK ==
  \/ status = Computing
  \/ \E kind \in {"no_path", "partial", "timeout"} : status = Returned(kind, best)
  \/ \E i \in 1 .. Len(nodes) : status = Returned("success", i) /\ PlaceOf(nodes[i]) \in map.ends /\ i \in Range(open_map)

Heap == [nodes |-> nodes, heap |-> heap]
Current == [nodes |-> nodes, heap |-> heap, best |-> best, open_map |-> open_map]

AInv ==
  /\ map \in Searches /\ closed \subseteq Place /\ StatusOK
  /\ HeapType(Heap) /\ Placed(Heap) /\ Ordered(Heap)
  /\ Tree(nodes, open_map, best, closed)
  /\ Range(heap) = Range(open_map) \ Found

\* An open place is closed.
LEMMA TreeCloses ==
  ASSUME NEW N, NEW O, NEW b, NEW C, Tree(N, O, b, C), NEW n \in DOMAIN O,
         NEW P, P = [m \in DOMAIN O \ {n} |-> O[m]]
  PROVE  Tree(N, P, b, C \cup {n})
<1>1. Opened(N, P, C \cup {n}) BY DEF Tree, Opened
<1>2. Family(N, C \cup {n})
  <2> SUFFICES ASSUME NEW i \in 1 .. Len(N), N[i].parent # None
               PROVE  PlaceOf(N[N[i].parent]) \in C
    BY DEF Tree, Family
  <2> QED BY DEF Tree, Family
<1> QED BY <1>1, <1>2 DEF Tree

\* The arena after the first node has left the heap and its place the open
\* ones.
Closing(v, n) ==
  [nodes |-> v.nodes, heap |-> v.heap, best |-> best,
   open_map |-> [m \in DOMAIN open_map \ {n} |-> open_map[m]]]

Taking(i, n, v, s) == i = heap[1] /\ n = PlaceOf(nodes[i]) /\ v = HeapPop(Heap) /\ s = Closing(v, n)

\* The first node of the heap is that of an open place, and without both of
\* them, there is still an arena.
LEMMA Taken ==
  ASSUME AInv, status = Computing, heap # <<>>,
         NEW i, NEW n, NEW v, NEW s, Taking(i, n, v, s)
  PROVE  /\ i \in 1 .. Len(nodes) /\ n \in DOMAIN open_map /\ open_map[n] = i /\ n \in Place /\ n \notin closed
         /\ HeapType(v) /\ Placed(v) /\ Ordered(v)
         /\ Len(v.nodes) = Len(nodes) /\ \A k \in 1 .. Len(nodes) : Same(v.nodes[k], nodes[k])
         /\ Range(v.heap) = Range(heap) \ {i}
         /\ Arena(s, closed \cup {n})
<1> USE DEF Taking
<1>1. Heap.nodes = nodes /\ Heap.heap = heap BY DEF Heap
<1>2. PICK w : w = Heap OBVIOUS
<1>3. w.nodes = nodes /\ w.heap = heap /\ HeapType(w) /\ Placed(w) /\ Ordered(w) BY <1>1, <1>2 DEF AInv
<1>4. /\ HeapType(v) /\ Placed(v) /\ Ordered(v)
      /\ Len(v.nodes) = Len(nodes) /\ Range(v.heap) = Range(heap) \ {i}
      /\ \A k \in 1 .. Len(nodes) : Same(v.nodes[k], nodes[k])
  <2>1. v = HeapPop(w) /\ w.heap # <<>> BY <1>2, <1>3
  <2>2. /\ HeapType(v) /\ Placed(v) /\ Ordered(v)
        /\ Len(v.nodes) = Len(w.nodes) /\ Range(v.heap) = Range(w.heap) \ {w.heap[1]}
        /\ \A k \in 1 .. Len(w.nodes) : Same(v.nodes[k], w.nodes[k])
    BY <1>3, <2>1, HeapPopEffect
  <2> QED BY <1>3, <2>2
<1>5. heap \in Seq(Nat) /\ DOMAIN heap = 1 .. Len(heap) /\ 1 \in 1 .. Len(heap)
  BY <1>3 DEF HeapType
<1>6. i \in Range(heap) /\ i \in 1 .. Len(nodes)
  BY <1>3, <1>5 DEF HeapType, Range
<1>7. Range(heap) = Range(open_map)
  <2>1. Found = {} BY DEF Found, Computing
  <2> QED BY <2>1 DEF AInv
<1>8. PICK m \in DOMAIN open_map : open_map[m] = i BY <1>6, <1>7 DEF Range
<1>9. \A k \in DOMAIN open_map : PlaceOf(nodes[open_map[k]]) = k /\ k \in Place /\ k \notin closed
  BY DEF AInv, Tree, Opened
<1>10. n = m BY <1>8, <1>9
<1>11. n \in DOMAIN open_map /\ open_map[n] = i /\ n \in Place /\ n \notin closed BY <1>8, <1>9, <1>10
<1>12. PICK O, P : O = open_map /\ P = [k \in DOMAIN O \ {n} |-> O[k]] OBVIOUS
<1>13. s = [nodes |-> v.nodes, heap |-> v.heap, best |-> best, open_map |-> P] BY <1>12 DEF Closing
<1>14. Tree(v.nodes, P, best, closed \cup {n})
  <2>1. Tree(nodes, O, best, closed) BY <1>12 DEF AInv
  <2>2. Tree(nodes, P, best, closed \cup {n}) BY <1>11, <1>12, <2>1, TreeCloses
  <2> QED BY <1>4, <2>2, TreeSame
<1>15. Range(v.heap) = Range(P)
  <2>1. Range(P) = {O[k] : k \in DOMAIN O \ {n}} BY <1>12 DEF Range
  <2>2. \A k \in DOMAIN O : O[k] = i => k = n BY <1>9, <1>12
  <2>3. Range(O) = {O[k] : k \in DOMAIN O} BY DEF Range
  <2>4. {O[k] : k \in DOMAIN O \ {n}} = {O[k] : k \in DOMAIN O} \ {i} BY <1>11, <1>12, <2>2
  <2> QED BY <1>4, <1>7, <1>12, <2>1, <2>3, <2>4
<1>16. s.nodes = v.nodes /\ s.heap = v.heap /\ s.best = best /\ s.open_map = P BY <1>13
<1>17. Arena(s, closed \cup {n})
  <2>1. IsRecord(s) BY <1>13 DEF IsRecord
  <2>2. W(s) = [nodes |-> v.nodes, heap |-> v.heap] BY <1>16 DEF W
  <2>3. HeapType(W(s)) BY <1>4, <2>2 DEF HeapType
  <2>4. Placed(W(s)) BY <1>4, <2>2 DEF Placed
  <2>5. Ordered(W(s))
    <3>1. PICK u : u = W(s) OBVIOUS
    <3>2. u.nodes = v.nodes /\ u.heap = v.heap BY <2>2, <3>1
    <3>3. Ordered(u) BY <1>4, <3>2 DEF Ordered, F
    <3> QED BY <3>1, <3>3
  <2> QED BY <1>14, <1>15, <1>16, <2>1, <2>3, <2>4, <2>5 DEF Arena
<1> QED BY <1>4, <1>6, <1>11, <1>17

\* The search starts with an open start.
LEMMA Initially ==
  ASSUME Init
  PROVE  AInv
<1>1. map \in Searches /\ nodes = <<Node(Start, 0, None, 1)>> /\ heap = <<1>>
      /\ open_map = [n \in {map.start} |-> 1] /\ closed = {} /\ best = 1 /\ status = Computing
  BY DEF Init
<1>2. PICK x : x = Node(Start, 0, None, 1) OBVIOUS
<1>3. /\ x = [data |-> Start, g |-> 0, h |-> map.estimate[map.start], parent |-> 0, heap_index |-> 1]
      /\ map.start \in Place /\ map.estimate[map.start] \in Int /\ Start \in Data /\ Start.to = map.start
  BY <1>1, <1>2, MapFacts DEF Node, None
<1>4. x \in Nodes /\ PlaceOf(x) = map.start BY <1>3 DEF Nodes, PlaceOf
<1>5. nodes = <<x>> /\ nodes \in Seq(Nodes) /\ Len(nodes) = 1 /\ nodes[1] = x BY <1>1, <1>2, <1>4
<1>6. heap \in Seq(Nat) /\ Len(heap) = 1 /\ heap[1] = 1 /\ DOMAIN heap = {1}
  <2>1. 1 .. 1 = {1} OBVIOUS
  <2> QED BY <1>1, <2>1
<1>06. PICK w : w = Heap OBVIOUS
<1>16. w.nodes = nodes /\ w.heap = heap /\ 1 .. 1 = {1} /\ 2 .. 1 = {} BY <1>06 DEF Heap
<1>17. \A k \in 1 .. Len(heap) : k = 1 /\ heap[k] = 1 BY <1>6, <1>16
<1>7. HeapType(Heap)
  <2>1. w.nodes \in Seq(Nodes) /\ w.heap \in Seq(Nat) BY <1>5, <1>6, <1>16
  <2>2. \A k \in 1 .. Len(w.heap) : w.heap[k] \in 1 .. Len(w.nodes) BY <1>5, <1>16, <1>17
  <2> QED BY <1>06, <2>1, <2>2 DEF HeapType
<1>8. Placed(Heap)
  <2>1. x.heap_index = 1 BY <1>3
  <2>2. \A k \in 1 .. Len(w.heap) : w.nodes[w.heap[k]].heap_index = k BY <1>5, <1>16, <1>17, <2>1
  <2>3. \A k \in 1 .. Len(w.nodes) : w.nodes[k].heap_index \in 1 .. Len(w.heap) /\ w.heap[w.nodes[k].heap_index] = k
    BY <1>5, <1>6, <1>16, <2>1
  <2> QED BY <1>06, <2>2, <2>3 DEF Placed
<1>9. Ordered(Heap) BY <1>06, <1>6, <1>16 DEF Ordered
<1>10. Tree(nodes, open_map, best, closed)
  <2>1. Opened(nodes, open_map, closed) BY <1>1, <1>3, <1>4, <1>5 DEF Opened
  <2>2. Valued(nodes) BY <1>3, <1>4, <1>5 DEF Valued
  <2>3. Closest(nodes, best)
    <3>1. x.h <= x.h BY <1>3
    <3> QED BY <1>1, <1>5, <3>1 DEF Closest
  <2>4. Family(nodes, closed) BY <1>3, <1>5 DEF Family, None
  <2>5. Paths(nodes)
    <3>1. PICK to : to = <<<<1>>>> OBVIOUS
    <3>2. to[1] = <<1>> /\ <<1>> \in Seq(Nat) BY <3>1
    <3>3. nodes[1].parent = None BY <1>3, <1>5 DEF None
    <3>4. ArePaths(nodes, to) BY <1>5, <1>16, <3>2, <3>3 DEF ArePaths
    <3> QED BY <3>4 DEF Paths
  <2> QED BY <2>1, <2>2, <2>3, <2>4, <2>5 DEF Tree
<1>11. Range(heap) = {1} /\ Range(open_map) = {1} BY <1>1, <1>6 DEF Range
<1>12. Found = {} BY <1>1 DEF Found, Computing
<1>13. StatusOK BY <1>1 DEF StatusOK
<1> QED BY <1>1, <1>7, <1>8, <1>9, <1>10, <1>11, <1>12, <1>13 DEF AInv

\* The map stays; so the arena of a state can be told of by constants.
LEMMA TreePrime ==
  ASSUME map' = map, NEW N, NEW O, NEW b, NEW C, Tree(N, O, b, C),
         nodes' = N, open_map' = O, best' = b, closed' = C
  PROVE  Tree(nodes, open_map, best, closed)'
<1>1. Opened(nodes, open_map, closed)' BY DEF Tree, Opened, PlaceOf
<1>2. Valued(nodes)' BY DEF Tree, Valued, PlaceOf
<1>3. Closest(nodes, best)' BY DEF Tree, Closest
<1>4. Family(nodes, closed)' BY DEF Tree, Family, PlaceOf, Start
<1>5. Paths(nodes)' BY DEF Tree, Paths, ArePaths
<1> QED BY <1>1, <1>2, <1>3, <1>4, <1>5 DEF Tree

\* The same of the heap.
LEMMA HeapPrime ==
  ASSUME NEW v, HeapType(v), Placed(v), Ordered(v), nodes' = v.nodes, heap' = v.heap
  PROVE  HeapType(Heap)' /\ Placed(Heap)' /\ Ordered(Heap)'
<1>1. HeapType(Heap)' BY DEF HeapType, Heap
<1>2. Placed(Heap)' BY DEF Placed, Heap
<1>3. Ordered(Heap)' BY DEF Ordered, F, Heap
<1> QED BY <1>1, <1>2, <1>3

\* The node that is found leaves the heap and stays in open_map.
LEMMA FindKeeps ==
  ASSUME AInv, FindGoal
  PROVE  AInv'
<1>1. PICK i, n, v : i = heap[1] /\ n = PlaceOf(nodes[i]) /\ v = HeapPop(Heap) OBVIOUS
<1>2. PICK s : s = Closing(v, n) OBVIOUS
<1>3. /\ status = Computing /\ heap # <<>> /\ n \in map.ends /\ nodes' = v.nodes /\ heap' = v.heap
      /\ status' = Returned("success", i) /\ UNCHANGED <<map, open_map, closed, best>>
  <2>1. Head(heap) = i BY <1>1
  <2> QED BY <1>1, <2>1 DEF FindGoal, Popped, Heap
<1>4. /\ i \in 1 .. Len(nodes) /\ n \in DOMAIN open_map /\ open_map[n] = i
      /\ HeapType(v) /\ Placed(v) /\ Ordered(v)
      /\ Len(v.nodes) = Len(nodes) /\ \A k \in 1 .. Len(nodes) : Same(v.nodes[k], nodes[k])
      /\ Range(v.heap) = Range(heap) \ {i}
  <2>1. Taking(i, n, v, s) BY <1>1, <1>2 DEF Taking
  <2> QED BY <1>3, <2>1, Taken
<1>5. HeapType(Heap)' /\ Placed(Heap)' /\ Ordered(Heap)' BY <1>3, <1>4, HeapPrime
<1>6. Tree(nodes, open_map, best, closed)'
  <2>1. Tree(v.nodes, open_map, best, closed) BY <1>4, TreeSame DEF AInv
  <2>2. PICK N, O, b, C : N = v.nodes /\ O = open_map /\ b = best /\ C = closed OBVIOUS
  <2>3. Tree(N, O, b, C) /\ nodes' = N /\ open_map' = O /\ best' = b /\ closed' = C /\ map' = map
    BY <1>3, <2>1, <2>2
  <2> QED BY <2>3, TreePrime
<1>7. StatusOK'
  <2>1. i \in Range(open_map) BY <1>4 DEF Range
  <2>2. PlaceOf(v.nodes[i]) = n BY <1>1, <1>4 DEF Same, PlaceOf
  <2>3. PlaceOf(nodes'[i]) = n BY <1>3, <2>2
  <2>4. i \in 1 .. Len(nodes') /\ i \in Range(open_map') /\ n \in map'.ends BY <1>3, <1>4, <2>1
  <2>5. \E j \in 1 .. Len(nodes') : status' = Returned("success", j) /\ PlaceOf(nodes'[j]) \in map'.ends /\ j \in Range(open_map')
    BY <1>3, <2>3, <2>4
  <2> QED BY <2>5 DEF StatusOK, Returned, PlaceOf
<1>8. (Range(heap) = Range(open_map) \ Found)'
  <2>1. Found = {} BY <1>3 DEF Found, Computing
  <2>2. Found' = {i} BY <1>3 DEF Found, Returned
  <2>3. Range(heap) = Range(open_map) BY <2>1 DEF AInv
  <2>4. Range(heap') = Range(open_map') \ {i} BY <1>3, <1>4, <2>3
  <2> QED BY <2>2, <2>4
<1>9. (map \in Searches)' /\ (closed \subseteq Place)' BY <1>3 DEF AInv
<1> QED BY <1>5, <1>6, <1>7, <1>8, <1>9 DEF AInv

\* What an expansion makes of the arena.
Expanding(i, n, s, t) ==
  /\ i = heap[1] /\ n = PlaceOf(nodes[i])
  /\ s = Closing(HeapPop(Heap), n)
  /\ t = RelaxAll(s, map.moves[n], i)

Becomes(t, n) ==
  /\ nodes' = t.nodes /\ heap' = t.heap /\ open_map' = t.open_map /\ best' = t.best
  /\ closed' = closed \cup {n} /\ UNCHANGED <<map, status>>

\* The place that is looked at is closed, and all its neighbours are offered
\* what they cost by way of it.
LEMMA Expanded ==
  ASSUME AInv, ExpandNode, NEW i, NEW n, NEW s, NEW t, Expanding(i, n, s, t)
  PROVE  /\ i \in 1 .. Len(nodes) /\ n \in DOMAIN open_map /\ open_map[n] = i /\ n \in Place /\ n \notin closed
         /\ n \notin map.ends /\ status = Computing /\ heap # <<>>
         /\ Len(s.nodes) = Len(nodes) /\ \A k \in 1 .. Len(nodes) : Same(s.nodes[k], nodes[k])
         /\ Arena(s, closed \cup {n}) /\ Arena(t, closed \cup {n}) /\ Settled(s, t, closed \cup {n})
         /\ Priced(s, t, map.moves[n], nodes[i].g, closed \cup {n}, Len(map.moves[n]))
         /\ Becomes(t, n)
<1>1. /\ status = Computing /\ heap # <<>> /\ n \notin map.ends /\ Becomes(t, n)
  <2>1. Head(heap) = i BY DEF Expanding
  <2> QED BY <2>1 DEF ExpandNode, Popped, Heap, Closing, Expanding, Becomes
<1>02. PICK v : v = HeapPop(Heap) OBVIOUS
<1>2. /\ i \in 1 .. Len(nodes) /\ n \in DOMAIN open_map /\ open_map[n] = i /\ n \in Place /\ n \notin closed
      /\ HeapType(v) /\ Placed(v) /\ Ordered(v)
      /\ Len(v.nodes) = Len(nodes) /\ \A k \in 1 .. Len(nodes) : Same(v.nodes[k], nodes[k])
      /\ Arena(s, closed \cup {n})
  <2>1. Taking(i, n, v, s) BY <1>02 DEF Taking, Expanding
  <2> QED BY <1>1, <2>1, Taken
<1>3. s.nodes = v.nodes BY <1>02 DEF Closing, Expanding
<1>4. Same(s.nodes[i], nodes[i]) /\ i \in 1 .. Len(s.nodes) BY <1>2, <1>3
<1>5. PlaceOf(s.nodes[i]) = n /\ s.nodes[i].g = nodes[i].g BY <1>4 DEF Same, PlaceOf, Expanding
<1>6. PICK C, moves : C = closed \cup {n} /\ moves = map.moves[n] OBVIOUS
<1>7. /\ Arena(t, C) /\ Settled(s, t, C)
      /\ Priced(s, t, moves, s.nodes[i].g, C, Len(moves))
  <2>1. /\ map \in Searches /\ C = closed \cup {PlaceOf(s.nodes[i])} /\ Arena(s, C)
        /\ moves = map.moves[PlaceOf(s.nodes[i])] /\ t = RelaxAll(s, moves, i)
    BY <1>2, <1>5, <1>6 DEF AInv, Expanding
  <2> QED BY <1>4, <2>1, RelaxAllEffect
<1> QED BY <1>1, <1>2, <1>3, <1>5, <1>6, <1>7

\* An expansion keeps the invariant.
LEMMA ExpandKeeps ==
  ASSUME AInv, ExpandNode
  PROVE  AInv'
<1>1. PICK i, n, s, t : Expanding(i, n, s, t) BY DEF Expanding
<1>4. /\ n \in Place /\ Arena(t, closed \cup {n})
      /\ nodes' = t.nodes /\ heap' = t.heap /\ open_map' = t.open_map /\ best' = t.best
      /\ closed' = closed \cup {n} /\ UNCHANGED <<map, status>> /\ status = Computing
  <2>1. n \in Place /\ Arena(t, closed \cup {n}) /\ status = Computing /\ Becomes(t, n) BY <1>1, Expanded
  <2> QED BY <2>1 DEF Becomes
<1>5. PICK C : C = closed \cup {n} OBVIOUS
<1>6. Arena(t, C) BY <1>4, <1>5
<1>7. HeapType(Heap)' /\ Placed(Heap)' /\ Ordered(Heap)'
  <2>1. PICK w : w = W(t) OBVIOUS
  <2>2. HeapType(w) /\ Placed(w) /\ Ordered(w) /\ w.nodes = t.nodes /\ w.heap = t.heap BY <1>6, <2>1 DEF Arena, W
  <2>3. nodes' = w.nodes /\ heap' = w.heap BY <1>4, <2>2
  <2> QED BY <2>2, <2>3, HeapPrime
<1>8. Tree(nodes, open_map, best, closed)'
  <2>1. PICK N, O, b : N = t.nodes /\ O = t.open_map /\ b = t.best OBVIOUS
  <2>2. Tree(N, O, b, C) /\ nodes' = N /\ open_map' = O /\ best' = b /\ closed' = C /\ map' = map
    BY <1>4, <1>5, <1>6, <2>1 DEF Arena
  <2> QED BY <2>2, TreePrime
<1>9. (Range(heap) = Range(open_map) \ Found)'
  <2>1. Found' = {} BY <1>4 DEF Found, Computing
  <2>2. Range(heap') = Range(open_map') BY <1>4, <1>6 DEF Arena
  <2> QED BY <2>1, <2>2
<1>10. StatusOK' BY <1>4 DEF StatusOK, Computing
<1>11. (map \in Searches)' /\ (closed \subseteq Place)' BY <1>4 DEF AInv
<1> QED BY <1>7, <1>8, <1>9, <1>10, <1>11 DEF AInv

\* The other steps change nothing but the status.
LEMMA OthersKeep ==
  ASSUME AInv, status.kind # "success", UNCHANGED <<map, nodes, heap, open_map, closed, best>>,
         \/ status' = Computing
         \/ \E kind \in {"no_path", "partial", "timeout"} : status' = Returned(kind, best)
  PROVE  AInv'
<1>1. Found = {} /\ Found' = {} BY DEF Found, Computing, Returned
<1>2. StatusOK' BY DEF StatusOK, Computing, Returned
<1>3. HeapType(Heap)' /\ Placed(Heap)' /\ Ordered(Heap)'
  <2>1. PICK w : w = Heap OBVIOUS
  <2>2. HeapType(w) /\ Placed(w) /\ Ordered(w) /\ nodes' = w.nodes /\ heap' = w.heap BY <2>1 DEF AInv, Heap
  <2> QED BY <2>2, HeapPrime
<1>4. Tree(nodes, open_map, best, closed)'
  <2>1. PICK N, O, b, C : N = nodes /\ O = open_map /\ b = best /\ C = closed OBVIOUS
  <2>2. Tree(N, O, b, C) /\ nodes' = N /\ open_map' = O /\ best' = b /\ closed' = C BY <2>1 DEF AInv
  <2> QED BY <2>2, TreePrime
<1>5. (Range(heap) = Range(open_map) \ Found)' BY <1>1 DEF AInv
<1> QED BY <1>2, <1>3, <1>4, <1>5 DEF AInv

\* Every step does.
LEMMA StepKeeps ==
  ASSUME AInv, [Next]_vars
  PROVE  AInv'
<1>1. CASE FindGoal BY <1>1, FindKeeps
<1>2. CASE ExpandNode BY <1>2, ExpandKeeps
<1>3. CASE NoPath
  <2>1. status.kind # "success" /\ UNCHANGED <<map, nodes, heap, open_map, closed, best>> /\ status' = Returned("no_path", best)
    BY <1>3 DEF NoPath, Computing
  <2> QED BY <2>1, OthersKeep
<1>4. CASE \E kind \in {"partial", "timeout"} : SliceEnds(kind)
  <2>1. PICK kind \in {"partial", "timeout"} : SliceEnds(kind) BY <1>4
  <2>2. status.kind # "success" /\ UNCHANGED <<map, nodes, heap, open_map, closed, best>> /\ status' = Returned(kind, best)
    BY <2>1 DEF SliceEnds, Computing
  <2>3. kind \in {"no_path", "partial", "timeout"} OBVIOUS
  <2> QED BY <2>2, <2>3, OthersKeep
<1>5. CASE Compute
  <2>1. status.kind # "success" /\ UNCHANGED <<map, nodes, heap, open_map, closed, best>> /\ status' = Computing
    BY <1>5 DEF Compute
  <2> QED BY <2>1, OthersKeep
<1>6. CASE UNCHANGED vars
  <2>1. UNCHANGED <<map, nodes, heap, open_map, closed, best, status>> BY <1>6 DEF vars
  <2>2. HeapType(Heap)' /\ Placed(Heap)' /\ Ordered(Heap)'
    <3>1. PICK w : w = Heap OBVIOUS
    <3>2. HeapType(w) /\ Placed(w) /\ Ordered(w) /\ nodes' = w.nodes /\ heap' = w.heap BY <2>1, <3>1 DEF AInv, Heap
    <3> QED BY <3>2, HeapPrime
  <2>3. Tree(nodes, open_map, best, closed)'
    <3>1. PICK N, O, b, C : N = nodes /\ O = open_map /\ b = best /\ C = closed OBVIOUS
    <3>2. Tree(N, O, b, C) /\ nodes' = N /\ open_map' = O /\ best' = b /\ closed' = C /\ map' = map
      BY <2>1, <3>1 DEF AInv
    <3> QED BY <3>2, TreePrime
  <2>4. StatusOK' BY <2>1 DEF AInv, StatusOK, PlaceOf
  <2>5. Found' = Found BY <2>1 DEF Found
  <2> QED BY <2>1, <2>2, <2>3, <2>4, <2>5 DEF AInv
<1> QED BY <1>1, <1>2, <1>3, <1>4, <1>5, <1>6 DEF Next

\* So it always holds.
LEMMA Invariant ==
  Spec => []AInv
<1>1. Init => AInv BY Initially
<1>2. AInv /\ [Next]_vars => AInv' BY StepKeeps
<1> QED BY <1>1, <1>2, PTL DEF Spec

-----------------------------------------------------------------------------
(* What it says of the heap.                                               *)

\* What the invariant says of nodes and places in the heap.
LEMMA NodeFacts ==
  ASSUME AInv
  PROVE  /\ nodes \in Seq(Nodes) /\ Len(nodes) \in Nat /\ DOMAIN nodes = 1 .. Len(nodes)
         /\ heap \in Seq(Nat) /\ DOMAIN heap = 1 .. Len(heap) /\ Len(heap) \in Nat
         /\ \A k \in 1 .. Len(heap) : heap[k] \in 1 .. Len(nodes)
         /\ \A i \in 1 .. Len(nodes) :
              /\ nodes[i].g \in Nat /\ nodes[i].h \in Int
              /\ PlaceOf(nodes[i]) \in Place /\ nodes[i].h = map.estimate[PlaceOf(nodes[i])]
         /\ \A i, j \in 1 .. Len(nodes) : PlaceOf(nodes[i]) = PlaceOf(nodes[j]) => i = j
<1>1. PICK w : w = Heap OBVIOUS
<1>2. w.nodes = nodes /\ w.heap = heap /\ HeapType(w) BY <1>1 DEF AInv, Heap
<1>3. nodes \in Seq(Nodes) /\ heap \in Seq(Nat) /\ \A k \in 1 .. Len(heap) : heap[k] \in 1 .. Len(nodes)
  BY <1>2 DEF HeapType
<1>4. /\ Len(nodes) \in Nat /\ DOMAIN nodes = 1 .. Len(nodes)
      /\ DOMAIN heap = 1 .. Len(heap) /\ Len(heap) \in Nat
  BY <1>3
<1>5. \A i \in 1 .. Len(nodes) : nodes[i] \in Nodes BY <1>3
<1>6. \A i \in 1 .. Len(nodes) : nodes[i].g \in Nat /\ nodes[i].h \in Int BY <1>5 DEF Nodes
<1>7. \A i \in 1 .. Len(nodes) : PlaceOf(nodes[i]) \in Place /\ nodes[i].h = map.estimate[PlaceOf(nodes[i])]
  BY DEF AInv, Tree, Valued
<1>8. \A i, j \in 1 .. Len(nodes) : PlaceOf(nodes[i]) = PlaceOf(nodes[j]) => i = j
  BY DEF AInv, Tree, Opened
<1> QED BY <1>3, <1>4, <1>6, <1>7, <1>8

\* The type invariant.
LEMMA Typed ==
  ASSUME AInv
  PROVE  TypeOK
<1>1. best \in 1 .. Len(nodes) BY DEF AInv, Tree, Closest
<1>2. \A i \in 1 .. Len(nodes) : nodes[i].parent \in {None} \cup 1 .. Len(nodes)
  BY DEF AInv, Tree, Family
<1>3. status = Computing \/ status.kind \in {"success", "no_path", "partial", "timeout"}
  BY DEF AInv, StatusOK, Returned
<1> QED BY <1>1, <1>2, <1>3, NodeFacts DEF TypeOK, AInv

\* The heap is ordered, and open_map and the heap hold the same nodes.
LEMMA InOrder ==
  ASSUME AInv
  PROVE  HeapOrdered
<1>1. PICK w : w = Heap OBVIOUS
<1>2. w.nodes = nodes /\ w.heap = heap /\ Placed(w) /\ Ordered(w) BY <1>1 DEF AInv, Heap
<1>3. \A k \in 2 .. Len(heap) :
        F([nodes |-> nodes, heap |-> heap], k \div 2) <= F([nodes |-> nodes, heap |-> heap], k)
  <2>1. w = [nodes |-> nodes, heap |-> heap] BY <1>1 DEF Heap
  <2> QED BY <1>2, <2>1 DEF Ordered
<1>4. \A i \in DOMAIN nodes :
        IF nodes[i].heap_index = None THEN i \notin Range(heap)
        ELSE heap[nodes[i].heap_index] = i
  <2>1. ASSUME NEW i \in 1 .. Len(nodes), nodes[i].heap_index # None PROVE heap[nodes[i].heap_index] = i
    BY <1>2, <2>1 DEF Placed
  <2>2. ASSUME NEW i \in 1 .. Len(nodes), nodes[i].heap_index = None, i \in Range(heap) PROVE FALSE
    <3>1. PICK k \in 1 .. Len(heap) : heap[k] = i BY <2>2, NodeFacts DEF Range
    <3>2. k = None BY <1>2, <2>2, <3>1 DEF Placed
    <3>3. k # 0 BY NodeFacts
    <3> QED BY <3>2, <3>3 DEF None
  <2> QED BY <2>1, <2>2, NodeFacts
<1>5. Range(heap) = Range(open_map) \ (IF status.kind = "success" THEN {status.node} ELSE {})
  BY DEF AInv, Found
<1>6. \A n \in DOMAIN open_map : PlaceOf(nodes[open_map[n]]) = n /\ n \notin closed
  BY DEF AInv, Tree, Opened
<1> QED BY <1>3, <1>4, <1>5, <1>6, Typed DEF HeapOrdered

\* The heap of the open nodes is one between any two rounds, and each node
\* knows its position in it: what bubble_up relies on when a node gets
\* cheaper.
THEOREM HeapStaysOrdered ==
  Spec => []HeapOrdered
<1>1. AInv => HeapOrdered BY InOrder
<1> QED BY <1>1, Invariant, PTL

-----------------------------------------------------------------------------
(* And of the paths.                                                       *)

\* The ancestors of a node are nodes.
LEMMA Parents ==
  ASSUME AInv, NEW j \in 1 .. Len(nodes), nodes[j].parent # None
  PROVE  /\ nodes[j].parent \in 1 .. Len(nodes)
         /\ nodes[j].data \in Range(map.moves[PlaceOf(nodes[nodes[j].parent])])
         /\ nodes[j].g = nodes[nodes[j].parent].g + nodes[j].data.cost
BY DEF AInv, Tree, Family

\* There is one way back from each node, and reconstruct finds it.
LEMMA ReconstructIs ==
  ASSUME AInv, NEW to, ArePaths(nodes, to), NEW i \in 1 .. Len(nodes)
  PROVE  Reconstruct(i) = to[i]
<1>1. PICK D : D = DOMAIN nodes /\ D = 1 .. Len(nodes) BY NodeFacts
<1> DEFINE Is(f) == f = [j \in D |-> IF nodes[j].parent = None THEN <<j>> ELSE Append(f[nodes[j].parent], j)]
<1>2. Is([j \in D |-> to[j]])
  <2>1. PICK f : f = [j \in D |-> to[j]] OBVIOUS
  <2>2. \A j \in D : f[j] = IF nodes[j].parent = None THEN <<j>> ELSE Append(f[nodes[j].parent], j)
    <3> TAKE j \in D
    <3>1. f[j] = to[j] /\ to[j] = IF nodes[j].parent = None THEN <<j>> ELSE Append(to[nodes[j].parent], j)
      BY <1>1, <2>1 DEF ArePaths
    <3>2. CASE nodes[j].parent = None BY <3>1, <3>2
    <3>3. CASE nodes[j].parent # None
      <4>1. nodes[j].parent \in D BY <1>1, <3>3, Parents
      <4>2. f[nodes[j].parent] = to[nodes[j].parent] BY <2>1, <4>1
      <4> QED BY <3>1, <3>3, <4>2
    <3> QED BY <3>2, <3>3
  <2>3. f = [j \in D |-> f[j]] BY <2>1
  <2> QED BY <2>1, <2>2, <2>3
<1> DEFINE f == CHOOSE g : Is(g)
<1>3. Reconstruct(i) = f[i] BY <1>1 DEF Reconstruct
<1>4. Is(f) BY <1>2
<1> HIDE DEF f
<1>5. \A j \in D : f[j] = IF nodes[j].parent = None THEN <<j>> ELSE Append(f[nodes[j].parent], j) BY <1>4
<1> HIDE DEF Is
<1> DEFINE T == {k \in Nat : \E j \in D : Len(to[j]) = k /\ f[j] # to[j]}
<1>6. T = {}
  <2> SUFFICES ASSUME T # {} PROVE FALSE OBVIOUS
  <2>1. PICK k \in T : \A y \in T : k <= y
    <3>1. T \subseteq Nat OBVIOUS
    <3> HIDE DEF T
    <3> QED BY <3>1, LeastNatural
  <2>2. PICK j \in D : Len(to[j]) = k /\ f[j] # to[j] BY <2>1
  <2>3. to[j] = IF nodes[j].parent = None THEN <<j>> ELSE Append(to[nodes[j].parent], j)
    BY <1>1, <2>2 DEF ArePaths
  <2>4. CASE nodes[j].parent = None BY <1>5, <2>2, <2>3, <2>4
  <2>5. CASE nodes[j].parent # None
    <3>1. PICK p \in D : p = nodes[j].parent BY <1>1, <2>5, Parents
    <3>2. to[p] \in Seq(Nat) BY <1>1 DEF ArePaths
    <3>3. to[j] = Append(to[p], j) BY <2>3, <2>5, <3>1
    <3>4. Len(to[j]) = Len(to[p]) + 1 /\ Len(to[p]) \in Nat BY <3>2, <3>3
    <3>5. Len(to[p]) \notin T
      <4>1. ~(k <= Len(to[p])) BY <2>2, <3>4
      <4> HIDE DEF T
      <4> QED BY <2>1, <4>1
    <3>6. f[p] = to[p] BY <3>4, <3>5
    <3> QED BY <1>5, <2>2, <2>5, <3>1, <3>3, <3>6
  <2> QED BY <2>4, <2>5
<1>7. Len(to[i]) \in Nat BY DEF ArePaths
<1> QED BY <1>1, <1>3, <1>6, <1>7

\* A path leads from a node without parent, over parents, to its node.
Leads(path, j) ==
  /\ path \in Seq(Nat) /\ Len(path) >= 1 /\ path[Len(path)] = j
  /\ \A k \in 1 .. Len(path) : path[k] \in 1 .. Len(nodes)
  /\ nodes[path[1]].parent = None
  /\ \A k \in 1 .. Len(path) - 1 : nodes[path[k + 1]].parent = path[k] /\ path[k] # None

\* The paths of a search lead where Reconstruct says.
LEMMA PathLeads ==
  ASSUME AInv, NEW to, ArePaths(nodes, to), NEW i \in 1 .. Len(nodes)
  PROVE  Leads(to[i], i)
<1>1. PICK D : D = 1 .. Len(nodes) OBVIOUS
<1> DEFINE T == {k \in Nat : \E j \in D : Len(to[j]) = k /\ ~Leads(to[j], j)}
<1>2. T = {}
  <2> SUFFICES ASSUME T # {} PROVE FALSE OBVIOUS
  <2>1. PICK k \in T : \A y \in T : k <= y
    <3>1. T \subseteq Nat OBVIOUS
    <3> HIDE DEF T
    <3> QED BY <3>1, LeastNatural
  <2>2. PICK j \in D : Len(to[j]) = k /\ ~Leads(to[j], j) BY <2>1
  <2>3. j \in Nat /\ j # 0 /\ j \in 1 .. Len(nodes) BY <1>1, NodeFacts
  <2>4. to[j] = IF nodes[j].parent = None THEN <<j>> ELSE Append(to[nodes[j].parent], j)
    BY <1>1, <2>2 DEF ArePaths
  <2>5. PICK path : path = to[j] OBVIOUS
  <2>6. CASE nodes[j].parent = None
    <3>1. path = <<j>> /\ path \in Seq(Nat) /\ Len(path) = 1 /\ path[1] = j BY <2>3, <2>4, <2>5, <2>6
    <3>2. 1 .. 1 = {1} /\ 1 .. 1 - 1 = {} OBVIOUS
    <3>3. Leads(path, j)
      <4>1. \A k1 \in 1 .. Len(path) : path[k1] \in 1 .. Len(nodes) BY <2>3, <3>1, <3>2
      <4>2. \A k1 \in 1 .. Len(path) - 1 : FALSE BY <3>1, <3>2
      <4>3. Len(path) >= 1 /\ path[Len(path)] = j BY <3>1
      <4> QED BY <2>6, <3>1, <4>1, <4>2, <4>3 DEF Leads
    <3> QED BY <2>2, <2>5, <3>3
  <2>7. CASE nodes[j].parent # None
    <3>1. PICK p \in D : p = nodes[j].parent BY <1>1, <2>3, <2>7, Parents
    <3>2. PICK q : q = to[p] OBVIOUS
    <3>3. q \in Seq(Nat) BY <1>1, <3>2 DEF ArePaths
    <3>4. PICK l \in Nat : l = Len(q) BY <3>3
    <3>5. path = Append(q, j) BY <2>4, <2>5, <2>7, <3>1, <3>2
    <3>6. PICK m \in Nat : m = l + 1 OBVIOUS
    <3>7. /\ path \in Seq(Nat) /\ Len(path) = m /\ path[m] = j /\ \A h \in 1 .. l : path[h] = q[h]
      BY <2>3, <3>3, <3>4, <3>5, <3>6
    <3>8. Leads(q, p)
      <4>1. l \notin T
        <5>1. ~(k <= l) BY <2>2, <2>5, <3>6, <3>7
        <5> HIDE DEF T
        <5> QED BY <2>1, <5>1
      <4> QED BY <3>2, <3>4, <4>1
    <3>9. /\ l >= 1 /\ q[l] = p /\ (\A h \in 1 .. l : q[h] \in 1 .. Len(nodes)) /\ nodes[q[1]].parent = None
          /\ \A h \in 1 .. l - 1 : nodes[q[h + 1]].parent = q[h] /\ q[h] # None
      BY <3>4, <3>8 DEF Leads
    <3>10. \A h \in 1 .. m : path[h] \in 1 .. Len(nodes)
      <4> TAKE h \in 1 .. m
      <4>1. h = m \/ h \in 1 .. l BY <3>6
      <4> QED BY <2>3, <3>7, <3>9, <4>1
    <3>11. nodes[path[1]].parent = None
      <4>1. 1 \in 1 .. l BY <3>9
      <4> QED BY <3>7, <3>9, <4>1
    <3>12. ASSUME NEW h \in 1 .. m - 1 PROVE nodes[path[h + 1]].parent = path[h] /\ path[h] # None
      <4>1. CASE h = l
        <5>1. h + 1 = m /\ l \in 1 .. l BY <3>6, <3>9, <4>1
        <5>2. path[h + 1] = j /\ path[h] = p BY <3>7, <3>9, <4>1, <5>1
        <5> QED BY <2>7, <3>1, <5>2
      <4>2. CASE h # l
        <5>1. h \in 1 .. l - 1 /\ h \in 1 .. l /\ h + 1 \in 1 .. l BY <3>6, <4>2
        <5> QED BY <3>7, <3>9, <5>1
      <4> QED BY <4>1, <4>2
    <3>13. m >= 1 BY <3>6
    <3>14. Leads(path, j) BY <3>7, <3>10, <3>11, <3>12, <3>13 DEF Leads
    <3> QED BY <2>2, <2>5, <3>14
  <2> QED BY <2>6, <2>7
<1>3. Len(to[i]) \in Nat BY DEF ArePaths
<1> QED BY <1>1, <1>2, <1>3

\* A path comes to each node once.
LEMMA PathApart ==
  ASSUME AInv, NEW to, ArePaths(nodes, to), NEW i \in 1 .. Len(nodes), NEW path, path = to[i], Leads(path, i)
  PROVE  \A j, k \in 1 .. Len(path) : path[j] = path[k] => j = k
<1>1. PICK l \in Nat : l = Len(path) /\ l >= 1 BY DEF Leads
<1> DEFINE Bad(m) == m < l /\ Len(to[path[l - m]]) # l - m
           T == {m \in Nat : Bad(m)}
<1>2. T = {}
  <2> SUFFICES ASSUME T # {} PROVE FALSE OBVIOUS
  <2>1. PICK m \in T : \A y \in T : m <= y
    <3>1. T \subseteq Nat OBVIOUS
    <3> HIDE DEF T
    <3> QED BY <3>1, LeastNatural
  <2>2. m \in Nat /\ m < l /\ Len(to[path[l - m]]) # l - m BY <2>1
  <2>3. m # 0
    <3>1. l - 0 = l /\ path[l] = i BY <1>1 DEF Leads
    <3> QED BY <1>1, <2>2, <3>1
  <2>4. m - 1 \in Nat /\ m - 1 < l /\ ~(m <= m - 1) BY <2>2, <2>3
  <2>5. Len(to[path[l - (m - 1)]]) = l - (m - 1)
    <3>1. m - 1 \notin T
      <4> HIDE DEF T
      <4> QED BY <2>1, <2>4
    <3> QED BY <2>4, <3>1
  <2>6. PICK k \in 1 .. l - 1 : k = l - m BY <1>1, <2>2, <2>3
  <2>7. k + 1 = l - (m - 1) /\ k + 1 \in 1 .. l /\ k \in 1 .. l BY <1>1, <2>2, <2>6
  <2>8. PICK a \in 1 .. Len(nodes) : a = path[k] BY <1>1, <2>7 DEF Leads
  <2>9. PICK b \in 1 .. Len(nodes) : b = path[k + 1] BY <1>1, <2>7 DEF Leads
  <2>10. nodes[b].parent = a /\ a # None BY <1>1, <2>6, <2>8, <2>9 DEF Leads
  <2>11. to[b] = Append(to[a], b) /\ to[a] \in Seq(Nat) BY <2>10 DEF ArePaths
  <2>12. Len(to[b]) = Len(to[a]) + 1 /\ Len(to[a]) \in Nat
    <3>1. PICK s \in Seq(Nat) : s = to[a] BY <2>11
    <3>2. Len(Append(s, b)) = Len(s) + 1 /\ Len(s) \in Nat OBVIOUS
    <3> QED BY <2>11, <3>1, <3>2
  <2>13. Len(to[b]) = k + 1 BY <2>5, <2>7, <2>9
  <2>14. Len(to[a]) # k BY <2>2, <2>6, <2>8
  <2>15. PICK e \in Nat : e = Len(to[a]) BY <2>12
  <2>16. e + 1 = k + 1 /\ e # k BY <2>12, <2>13, <2>14, <2>15
  <2> QED BY <2>6, <2>16
<1>3. ASSUME NEW k \in 1 .. l PROVE Len(to[path[k]]) = k
  <2>1. PICK m : m = l - k OBVIOUS
  <2>2. m \in Nat /\ m < l /\ l - m = k BY <1>1, <2>1
  <2>3. ~Bad(m) BY <1>2, <2>2
  <2> QED BY <2>2, <2>3
<1> QED BY <1>1, <1>3

\* And each of them is a path of moves.
LEMMA RealPath ==
  ASSUME AInv
  PROVE  PathIsReal
<1> SUFFICES ASSUME status # Computing PROVE PathIsReal BY DEF PathIsReal
<1>1. PICK i : i = status.node OBVIOUS
<1>2. i \in 1 .. Len(nodes) /\ (status.kind # "success" => \A j \in DOMAIN nodes : nodes[i].h <= nodes[j].h)
  <2>1. CASE \E kind \in {"no_path", "partial", "timeout"} : status = Returned(kind, best)
    <3>1. i = best BY <1>1, <2>1 DEF Returned
    <3> QED BY <3>1, NodeFacts DEF AInv, Tree, Closest
  <2>2. CASE \E j \in 1 .. Len(nodes) : status = Returned("success", j)
    BY <1>1, <2>2 DEF Returned
  <2> QED BY <2>1, <2>2 DEF AInv, StatusOK
<1>3. PICK to : ArePaths(nodes, to) BY DEF AInv, Tree, Paths
<1>4. PICK path : path = to[i] OBVIOUS
<1>5. Reconstruct(status.node) = path /\ Leads(path, i) BY <1>1, <1>2, <1>3, <1>4, ReconstructIs, PathLeads
<1>6. nodes[path[1]].data = Start /\ nodes[path[1]].g = 0
  <2>1. path[1] \in 1 .. Len(nodes) /\ nodes[path[1]].parent = None BY <1>5 DEF Leads
  <2> QED BY <2>1 DEF AInv, Tree, Family
<1>7. ASSUME NEW k \in 1 .. Len(path) - 1
      PROVE  /\ nodes[path[k + 1]].data \in Range(map.moves[PlaceOf(nodes[path[k]])])
             /\ nodes[path[k + 1]].g = nodes[path[k]].g + nodes[path[k + 1]].data.cost
  <2>1. Len(path) \in Nat BY <1>5 DEF Leads
  <2>2. k + 1 \in 1 .. Len(path) BY <2>1
  <2>3. PICK j \in 1 .. Len(nodes) : j = path[k + 1] BY <1>5, <2>2 DEF Leads
  <2>4. nodes[j].parent = path[k] /\ nodes[j].parent # None BY <1>5, <2>3 DEF Leads
  <2> QED BY <2>3, <2>4, Parents
<1> QED BY <1>1, <1>2, <1>5, <1>6, <1>7 DEF PathIsReal

\* Whatever compute returns, its path is one of the map's moves from the
\* start; and if it is not to the goal, none it has seen ends closer.
THEOREM EveryPathIsReal ==
  Spec => []PathIsReal
<1>1. AInv => PathIsReal BY RealPath
<1> QED BY <1>1, Invariant, PTL

-----------------------------------------------------------------------------
(* The search implements BestFirst.                                        *)

CostsOver(N) ==
  [n \in Place |-> IF \E i \in DOMAIN N : PlaceOf(N[i]) = n
                   THEN N[CHOOSE i \in DOMAIN N : PlaceOf(N[i]) = n].g ELSE 0]

\* With a node for each place at most, the cost of a place is that of its
\* node.
LEMMA CostsAre ==
  ASSUME NEW N, N \in Seq(Nodes), \A i, j \in 1 .. Len(N) : PlaceOf(N[i]) = PlaceOf(N[j]) => i = j
  PROVE  /\ CostsOver(N) \in [Place -> Nat]
         /\ \A i \in 1 .. Len(N) : PlaceOf(N[i]) \in Place => CostsOver(N)[PlaceOf(N[i])] = N[i].g
         /\ \A n \in Place : (\A i \in 1 .. Len(N) : PlaceOf(N[i]) # n) => CostsOver(N)[n] = 0
<1>1. DOMAIN N = 1 .. Len(N) OBVIOUS
<1>2. \A i \in 1 .. Len(N) : N[i].g \in Nat
  <2>1. \A i \in 1 .. Len(N) : N[i] \in Nodes OBVIOUS
  <2> QED BY <2>1 DEF Nodes
<1>3. ASSUME NEW i \in 1 .. Len(N), PlaceOf(N[i]) \in Place PROVE CostsOver(N)[PlaceOf(N[i])] = N[i].g
  <2>1. PICK n : n = PlaceOf(N[i]) OBVIOUS
  <2>2. PICK j : j = CHOOSE k \in DOMAIN N : PlaceOf(N[k]) = n OBVIOUS
  <2>3. j \in DOMAIN N /\ PlaceOf(N[j]) = n BY <1>1, <1>3, <2>1, <2>2
  <2>4. j = i BY <1>1, <1>3, <2>1, <2>3
  <2>5. CostsOver(N)[n] = N[j].g BY <1>1, <1>3, <2>1, <2>2 DEF CostsOver
  <2> QED BY <2>1, <2>4, <2>5
<1>4. ASSUME NEW n \in Place, \A i \in 1 .. Len(N) : PlaceOf(N[i]) # n PROVE CostsOver(N)[n] = 0
  BY <1>1, <1>4 DEF CostsOver
<1>5. \A n \in Place : CostsOver(N)[n] \in Nat
  <2> TAKE n \in Place
  <2>1. CASE \E i \in 1 .. Len(N) : PlaceOf(N[i]) = n
    <3>1. PICK i \in 1 .. Len(N) : PlaceOf(N[i]) = n BY <2>1
    <3>2. CostsOver(N)[n] = N[i].g BY <1>3, <3>1
    <3> QED BY <1>2, <3>2
  <2>2. CASE \A i \in 1 .. Len(N) : PlaceOf(N[i]) # n BY <1>4, <2>2
  <2> QED BY <2>1, <2>2
<1>6. CostsOver(N) = [n \in Place |-> CostsOver(N)[n]] BY DEF CostsOver
<1>7. CostsOver(N) \in [Place -> Nat]
  <2>1. PICK f : f = CostsOver(N) OBVIOUS
  <2>2. f = [n \in Place |-> f[n]] /\ \A n \in Place : f[n] \in Nat BY <1>5, <1>6, <2>1
  <2> QED BY <2>1, <2>2
<1> QED BY <1>3, <1>4, <1>7

\* What the refinement makes of a state.
LEMMA Mapped ==
  ASSUME AInv
  PROVE  /\ CostSoFar \in [Place -> Nat]
         /\ \A i \in 1 .. Len(nodes) : CostSoFar[PlaceOf(nodes[i])] = nodes[i].g
         /\ \A n \in Place : (\A i \in 1 .. Len(nodes) : PlaceOf(nodes[i]) # n) => CostSoFar[n] = 0
         /\ Found = {} => OpenPlaces = DOMAIN open_map
<1>1. CostSoFar = CostsOver(nodes) BY DEF CostSoFar, CostsOver
<1>2. /\ CostSoFar \in [Place -> Nat]
      /\ \A i \in 1 .. Len(nodes) : CostSoFar[PlaceOf(nodes[i])] = nodes[i].g
      /\ \A n \in Place : (\A i \in 1 .. Len(nodes) : PlaceOf(nodes[i]) # n) => CostSoFar[n] = 0
  BY <1>1, NodeFacts, CostsAre
<1>3. ASSUME Found = {} PROVE OpenPlaces = DOMAIN open_map
  <2>1. Range(heap) = Range(open_map) BY <1>3 DEF AInv
  <2>2. \A m \in DOMAIN open_map : PlaceOf(nodes[open_map[m]]) = m BY DEF AInv, Tree, Opened
  <2>3. OpenPlaces = {PlaceOf(nodes[i]) : i \in Range(open_map)} BY <2>1 DEF OpenPlaces
  <2>4. Range(open_map) = {open_map[m] : m \in DOMAIN open_map} BY DEF Range
  <2> QED BY <2>2, <2>3, <2>4
<1> QED BY <1>2, <1>3

\* The moves of the mapped map.
LEMMA MapMapped ==
  ASSUME AInv
  PROVE  /\ UnorderedMap.start = map.start /\ UnorderedMap.ends = map.ends
         /\ UnorderedMap.estimate = map.estimate /\ UnorderedMap.limit = map.limit
         /\ \A n \in Place : UnorderedMap.moves[n] =
              {[to |-> move.to, cost |-> move.cost] : move \in Range(map.moves[n])}
BY DEF UnorderedMap, Unordered

\* What BestFirst says is on offer is what the moves offer.
LEMMA OffersAre ==
  ASSUME AInv, NEW n \in Place, NEW m \in Place, NEW C, m \notin C,
         NEW moves, moves = map.moves[n], NEW c, c = CostSoFar[n], NEW x
  PROVE  x \in Search!Offers(n, m) <=> \E j \in 1 .. Len(moves) : Offers(moves, c, C, j, m) /\ x = c + moves[j].cost
<1>1. map \in Searches BY DEF AInv
<1>2. DOMAIN moves = 1 .. Len(moves) BY <1>1, MapFacts
<1>3. Range(moves) = {moves[j] : j \in 1 .. Len(moves)} BY <1>2 DEF Range
<1>4. UnorderedMap.moves[n] = {[to |-> moves[j].to, cost |-> moves[j].cost] : j \in 1 .. Len(moves)}
  <2>1. UnorderedMap.moves[n] = {[to |-> move.to, cost |-> move.cost] : move \in Range(moves)} BY MapMapped
  <2> QED BY <1>3, <2>1
<1>5. x \in Search!Offers(n, m) <=>
        \E k \in UnorderedMap.moves[n] : k.to = m /\ Search!WithinLimit(m, c + k.cost) /\ x = c + k.cost
  BY DEF Search!Offers
<1>6. \A g : Search!WithinLimit(m, g) <=> Offered(C, m, g)
  BY MapMapped DEF Search!WithinLimit, Offered
<1>7. x \in Search!Offers(n, m) <=>
        \E j \in 1 .. Len(moves) : moves[j].to = m /\ Search!WithinLimit(m, c + moves[j].cost) /\ x = c + moves[j].cost
  <2>1. ASSUME NEW k \in UnorderedMap.moves[n], k.to = m, Search!WithinLimit(m, c + k.cost), x = c + k.cost
        PROVE  \E j \in 1 .. Len(moves) : moves[j].to = m /\ Search!WithinLimit(m, c + moves[j].cost) /\ x = c + moves[j].cost
    <3>1. PICK j \in 1 .. Len(moves) : k = [to |-> moves[j].to, cost |-> moves[j].cost] BY <1>4
    <3>2. k.to = moves[j].to /\ k.cost = moves[j].cost BY <3>1
    <3> QED BY <2>1, <3>2
  <2>2. ASSUME NEW j \in 1 .. Len(moves), moves[j].to = m, Search!WithinLimit(m, c + moves[j].cost), x = c + moves[j].cost
        PROVE  \E k \in UnorderedMap.moves[n] : k.to = m /\ Search!WithinLimit(m, c + k.cost) /\ x = c + k.cost
    <3>1. PICK k : k = [to |-> moves[j].to, cost |-> moves[j].cost] OBVIOUS
    <3>2. k.to = moves[j].to /\ k.cost = moves[j].cost /\ k \in UnorderedMap.moves[n] BY <1>4, <3>1
    <3> QED BY <2>2, <3>2
  <2> QED BY <1>5, <2>1, <2>2
<1> QED BY <1>6, <1>7 DEF Offers

\* The root of the heap is an open place of least estimated cost.
LEMMA RootMapped ==
  ASSUME AInv, status = Computing, heap # <<>>, NEW i, i = heap[1], NEW n, n = PlaceOf(nodes[i])
  PROVE  Search!Least(n) /\ n \in Place /\ i \in 1 .. Len(nodes)
<1>1. 1 \in 1 .. Len(heap) BY NodeFacts
<1>2. i \in 1 .. Len(nodes) /\ n \in Place /\ i \in Range(heap) BY <1>1, NodeFacts DEF Range
<1>3. n \in OpenPlaces BY <1>2 DEF OpenPlaces
<1>4. Outcome = "searching" BY DEF Outcome, Computing
<1>5. \A k \in 1 .. Len(nodes) : Search!Estimated(PlaceOf(nodes[k])) = nodes[k].g + nodes[k].h
  BY Mapped, MapMapped, NodeFacts DEF Search!Estimated
<1>6. ASSUME NEW m \in OpenPlaces PROVE Search!Estimated(n) <= Search!Estimated(m)
  <2>1. PICK j \in Range(heap) : m = PlaceOf(nodes[j]) BY DEF OpenPlaces
  <2>2. PICK k \in 1 .. Len(heap) : heap[k] = j BY <2>1, NodeFacts DEF Range
  <2>3. PICK w : w = Heap OBVIOUS
  <2>4. HeapType(w) /\ Ordered(w) /\ w.heap = heap /\ w.nodes = nodes BY <2>3 DEF AInv, Heap
  <2>5. F(w, 1) <= F(w, k) BY <2>4, RootIsLeast
  <2>6. j \in 1 .. Len(nodes) BY <2>2, NodeFacts
  <2> QED BY <1>2, <1>5, <2>1, <2>2, <2>4, <2>5, <2>6 DEF F
<1> QED BY <1>2, <1>3, <1>4, <1>6 DEF Search!Least

\* What an expansion makes of the costs.
LEMMA CostsExpand ==
  ASSUME AInv, ExpandNode, NEW i, NEW n, NEW s, NEW t, Expanding(i, n, s, t), NEW K, K = CostsOver(t.nodes)
  PROVE  /\ K \in [Place -> Nat]
         /\ \A m \in DOMAIN t.open_map : K[m] = G(t, m)
         /\ \A m \in Place : m \notin DOMAIN t.open_map => K[m] = CostSoFar[m]
         /\ \A m \in DOMAIN s.open_map : G(s, m) = CostSoFar[m]
         /\ DOMAIN s.open_map = DOMAIN open_map \ {n}
<1>1. PICK C : C = closed \cup {n} OBVIOUS
<1>2. /\ Len(s.nodes) = Len(nodes) /\ \A k \in 1 .. Len(nodes) : Same(s.nodes[k], nodes[k])
      /\ Arena(s, C) /\ Arena(t, C) /\ Settled(s, t, C)
      /\ Priced(s, t, map.moves[n], nodes[i].g, C, Len(map.moves[n]))
  BY <1>1, Expanded
<1>3. /\ \A m \in DOMAIN t.open_map : t.open_map[m] \in 1 .. Len(t.nodes) /\ PlaceOf(t.nodes[t.open_map[m]]) = m /\ m \in Place /\ m \notin C
      /\ \A k \in 1 .. Len(t.nodes) : PlaceOf(t.nodes[k]) \in C \/ PlaceOf(t.nodes[k]) \in DOMAIN t.open_map
      /\ \A k, l \in 1 .. Len(t.nodes) : PlaceOf(t.nodes[k]) = PlaceOf(t.nodes[l]) => k = l
  BY <1>2 DEF Arena, Tree, Opened
<1>4. /\ \A m \in DOMAIN s.open_map : s.open_map[m] \in 1 .. Len(s.nodes) /\ PlaceOf(s.nodes[s.open_map[m]]) = m
      /\ \A k \in 1 .. Len(s.nodes) : PlaceOf(s.nodes[k]) \in C \/ PlaceOf(s.nodes[k]) \in DOMAIN s.open_map
      /\ \A m \in C : \E k \in 1 .. Len(s.nodes) : PlaceOf(s.nodes[k]) = m
  BY <1>2 DEF Arena, Tree, Opened
<1>5. /\ t.nodes \in Seq(Nodes) /\ Len(t.nodes) \in Nat /\ Len(s.nodes) \in Nat
  BY <1>2, ArenaTypes
<1>6. \A k \in 1 .. Len(t.nodes) : PlaceOf(t.nodes[k]) \in Place BY <1>2 DEF Arena, Tree, Valued
<1>7. /\ K \in [Place -> Nat]
      /\ \A k \in 1 .. Len(t.nodes) : PlaceOf(t.nodes[k]) \in Place => K[PlaceOf(t.nodes[k])] = t.nodes[k].g
      /\ \A m \in Place : (\A k \in 1 .. Len(t.nodes) : PlaceOf(t.nodes[k]) # m) => K[m] = 0
  BY <1>3, <1>5, CostsAre
<1>8. \A k \in 1 .. Len(nodes) : PlaceOf(s.nodes[k]) = PlaceOf(nodes[k]) /\ s.nodes[k].g = nodes[k].g
  BY <1>2 DEF Same, PlaceOf
<1>9. \A k \in 1 .. Len(s.nodes) : PlaceOf(s.nodes[k]) \in C =>
         k \in 1 .. Len(t.nodes) /\ PlaceOf(t.nodes[k]) = PlaceOf(s.nodes[k]) /\ t.nodes[k].g = s.nodes[k].g
  <2>1. Len(t.nodes) >= Len(s.nodes) BY <1>2 DEF Settled
  <2>2. \A k \in 1 .. Len(s.nodes) : k \in 1 .. Len(t.nodes) BY <1>5, <2>1
  <2>3. \A k \in 1 .. Len(s.nodes) : PlaceOf(s.nodes[k]) \in C => Same(t.nodes[k], s.nodes[k]) BY <1>2 DEF Settled
  <2> QED BY <2>2, <2>3 DEF Same, PlaceOf
<1>10. \A m \in DOMAIN t.open_map : K[m] = G(t, m)
  BY <1>3, <1>7 DEF G
<1>11. \A m \in DOMAIN s.open_map : G(s, m) = CostSoFar[m]
  BY <1>2, <1>4, <1>8, Mapped DEF G
<1>12. ASSUME NEW m \in Place, m \notin DOMAIN t.open_map PROVE K[m] = CostSoFar[m]
  <2>1. CASE m \in C
    <3>1. PICK k \in 1 .. Len(s.nodes) : PlaceOf(s.nodes[k]) = m BY <1>4, <2>1
    <3>2. K[m] = t.nodes[k].g /\ t.nodes[k].g = s.nodes[k].g BY <1>7, <1>9, <2>1, <3>1
    <3>3. CostSoFar[m] = nodes[k].g /\ s.nodes[k].g = nodes[k].g BY <1>2, <1>8, <3>1, Mapped
    <3> QED BY <3>2, <3>3
  <2>2. CASE m \notin C
    <3>1. K[m] = 0 BY <1>3, <1>7, <1>12, <2>2
    <3>2. m \notin DOMAIN s.open_map BY <1>2, <1>12 DEF Priced
    <3>3. \A k \in 1 .. Len(nodes) : PlaceOf(nodes[k]) # m BY <1>2, <1>4, <1>8, <2>2, <3>2
    <3>4. CostSoFar[m] = 0 BY <3>3, Mapped
    <3> QED BY <3>1, <3>4
  <2> QED BY <2>1, <2>2
<1>13. DOMAIN s.open_map = DOMAIN open_map \ {n} BY DEF Expanding, Closing
<1> QED BY <1>7, <1>10, <1>11, <1>12, <1>13

\* So the places reached get the least cost on offer, the others keep theirs.
LEMMA ReachedIs ==
  ASSUME AInv, ExpandNode, NEW i, NEW n, NEW s, NEW t, Expanding(i, n, s, t), NEW K, K = CostsOver(t.nodes),
         NEW m \in Place
  PROVE  /\ m \in DOMAIN t.open_map <=> m \in (OpenPlaces \ {n}) \cup Search!Reached(n)
         /\ m \in Search!Reached(n) =>
              /\ K[m] \in Search!Offers(n, m) \cup Search!Known(m)
              /\ \A c \in Search!Offers(n, m) \cup Search!Known(m) : K[m] <= c
         /\ m \notin Search!Reached(n) => K[m] = CostSoFar[m]
<1>1. PICK C, moves, c : C = closed \cup {n} /\ moves = map.moves[n] /\ c = nodes[i].g OBVIOUS
<1>2. /\ i \in 1 .. Len(nodes) /\ n \in Place /\ status = Computing
      /\ Arena(s, C) /\ Arena(t, C) /\ Priced(s, t, moves, c, C, Len(moves))
  BY <1>1, Expanded
<1>3. CostSoFar[n] = c BY <1>1, <1>2, Mapped DEF Expanding
<1>4. /\ K \in [Place -> Nat]
      /\ \A k \in DOMAIN t.open_map : K[k] = G(t, k)
      /\ \A k \in Place : k \notin DOMAIN t.open_map => K[k] = CostSoFar[k]
      /\ \A k \in DOMAIN s.open_map : G(s, k) = CostSoFar[k]
      /\ DOMAIN s.open_map = DOMAIN open_map \ {n}
  BY CostsExpand
<1>5. OpenPlaces = DOMAIN open_map
  <2>1. Found = {} BY <1>2 DEF Found, Computing
  <2> QED BY <2>1, Mapped
<1>6. DOMAIN s.open_map \cap C = {} /\ DOMAIN t.open_map \cap C = {} BY <1>2 DEF Arena, Tree, Opened
<1>7. CASE m \in C
  <2>1. m \notin Search!Reached(n) BY <1>1, <1>7 DEF Search!Reached
  <2>2. m \notin DOMAIN s.open_map /\ m \notin DOMAIN t.open_map BY <1>6, <1>7
  <2>3. m \notin OpenPlaces \ {n} BY <1>4, <1>5, <2>2
  <2> QED BY <1>4, <2>1, <2>2, <2>3
<1>8. CASE m \notin C
  <2>1. m \in Search!Reached(n) <=> Search!Offers(n, m) # {} BY <1>1, <1>8 DEF Search!Reached
  <2>2. m # n BY <1>1, <1>8
  <2>3. Search!Known(m) = IF m \in DOMAIN s.open_map THEN {G(s, m)} ELSE {}
    BY <1>4, <1>5, <2>2 DEF Search!Known
  <2>4. \A x : x \in Search!Offers(n, m) <=> \E j \in 1 .. Len(moves) : Offers(moves, c, C, j, m) /\ x = c + moves[j].cost
    <3> TAKE x
    <3>1. n \in Place /\ m \notin C /\ moves = map.moves[n] /\ c = CostSoFar[n] BY <1>1, <1>2, <1>3, <1>8
    <3> QED BY <3>1, OffersAre
  <2>5. \A x \in Search!Offers(n, m) : m \in DOMAIN t.open_map /\ G(t, m) <= x
    <3>1. ASSUME NEW j \in 1 .. Len(moves), Offers(moves, c, C, j, m)
          PROVE  m \in DOMAIN t.open_map /\ G(t, m) <= c + moves[j].cost
      BY <1>2, <3>1 DEF Offers, Priced
    <3> QED BY <2>4, <3>1
  <2>6. m \in DOMAIN s.open_map => m \in DOMAIN t.open_map /\ G(t, m) <= G(s, m) BY <1>2 DEF Priced
  <2>7. m \in DOMAIN t.open_map =>
           \/ m \in DOMAIN s.open_map /\ G(t, m) = G(s, m)
           \/ G(t, m) \in Search!Offers(n, m)
    <3>1. m \in DOMAIN t.open_map =>
           \/ m \in DOMAIN s.open_map /\ G(t, m) = G(s, m)
           \/ \E j \in 1 .. Len(moves) : Offers(moves, c, C, j, m) /\ G(t, m) = c + moves[j].cost
      BY <1>2 DEF Priced
    <3> QED BY <2>4, <3>1
  <2>8. m \in DOMAIN t.open_map <=> m \in (OpenPlaces \ {n}) \cup Search!Reached(n)
    BY <1>4, <1>5, <2>1, <2>2, <2>5, <2>6, <2>7
  <2>9. ASSUME m \in Search!Reached(n)
        PROVE  /\ K[m] \in Search!Offers(n, m) \cup Search!Known(m)
               /\ \A x \in Search!Offers(n, m) \cup Search!Known(m) : K[m] <= x
    <3>1. m \in DOMAIN t.open_map BY <2>8, <2>9
    <3>2. K[m] = G(t, m) BY <1>4, <3>1
    <3>3. \A x \in Search!Known(m) : G(t, m) <= x BY <2>3, <2>6
    <3>4. G(t, m) \in Search!Offers(n, m) \cup Search!Known(m) BY <2>3, <2>7, <3>1
    <3> QED BY <2>5, <3>2, <3>3, <3>4
  <2>10. ASSUME m \notin Search!Reached(n) PROVE K[m] = CostSoFar[m]
    <3>1. CASE m \in DOMAIN t.open_map
      <4>1. m \in DOMAIN s.open_map /\ G(t, m) = G(s, m) BY <2>1, <2>7, <2>10, <3>1
      <4> QED BY <1>4, <3>1, <4>1
    <3>2. CASE m \notin DOMAIN t.open_map BY <1>4, <3>2
    <3> QED BY <3>1, <3>2
  <2> QED BY <2>8, <2>9, <2>10
<1> QED BY <1>7, <1>8

\* An expansion is one of BestFirst.
LEMMA ExpandMapped ==
  ASSUME AInv, AInv', ExpandNode
  PROVE  \E n \in Place : Search!Expand(n)
<1>1. PICK i, n, s, t : Expanding(i, n, s, t) BY DEF Expanding
<1>2. /\ i \in 1 .. Len(nodes) /\ n \in Place /\ status = Computing /\ heap # <<>> /\ n \notin map.ends
      /\ Becomes(t, n) /\ Arena(t, closed \cup {n})
  BY <1>1, Expanded
<1>3. Search!Least(n) BY <1>1, <1>2, RootMapped DEF Expanding
<1>4. n \notin UnorderedMap.ends BY <1>2, MapMapped
<1>5. /\ nodes' = t.nodes /\ heap' = t.heap /\ open_map' = t.open_map
      /\ closed' = closed \cup {n} /\ map' = map /\ status' = status
  BY <1>2 DEF Becomes
<1>6. PICK K : K = CostsOver(t.nodes) OBVIOUS
<1>7. CostSoFar' = K BY <1>5, <1>6 DEF CostSoFar, CostsOver, PlaceOf
<1>8. \A m \in Place :
         /\ m \in DOMAIN t.open_map <=> m \in (OpenPlaces \ {n}) \cup Search!Reached(n)
         /\ m \in Search!Reached(n) =>
              /\ K[m] \in Search!Offers(n, m) \cup Search!Known(m)
              /\ \A c \in Search!Offers(n, m) \cup Search!Known(m) : K[m] <= c
         /\ m \notin Search!Reached(n) => K[m] = CostSoFar[m]
  BY <1>1, <1>6, ReachedIs
<1>9. K \in [Place -> Nat] BY <1>1, <1>6, CostsExpand
<1>10. OpenPlaces' = (OpenPlaces \ {n}) \cup Search!Reached(n)
  <2>1. OpenPlaces' = DOMAIN t.open_map
    <3>1. Range(t.heap) = Range(t.open_map) BY <1>2 DEF Arena
    <3>2. \A m \in DOMAIN t.open_map : PlaceOf(t.nodes[t.open_map[m]]) = m BY <1>2 DEF Arena, Tree, Opened
    <3>3. OpenPlaces' = {PlaceOf(t.nodes[k]) : k \in Range(t.open_map)} BY <1>5, <3>1 DEF OpenPlaces, PlaceOf
    <3>4. Range(t.open_map) = {t.open_map[m] : m \in DOMAIN t.open_map} BY DEF Range
    <3> QED BY <3>2, <3>3, <3>4
  <2>2. DOMAIN t.open_map \subseteq Place BY <1>2 DEF Arena, Tree, Opened
  <2>3. Search!Reached(n) \subseteq Place BY DEF Search!Reached
  <2>4. OpenPlaces \subseteq Place BY NodeFacts DEF OpenPlaces, Range
  <2> QED BY <1>8, <2>1, <2>2, <2>3, <2>4
<1>11. UnorderedMap' = UnorderedMap /\ Outcome' = Outcome /\ FoundPlaces' = FoundPlaces
  <2>1. FoundPlaces = {} /\ FoundPlaces' = {} BY <1>2, <1>5 DEF FoundPlaces, Computing
  <2> QED BY <1>5, <2>1 DEF UnorderedMap, Unordered, Outcome
<1>12. Search!Expand(n)
  BY <1>3, <1>4, <1>5, <1>7, <1>8, <1>9, <1>10, <1>11 DEF Search!Expand
<1> QED BY <1>2, <1>12

\* The round that reaches the goal finds one of its ends.
LEMMA FindMapped ==
  ASSUME AInv, FindGoal
  PROVE  \E n \in Place : Search!Find(n)
<1>1. PICK i, n, v : i = heap[1] /\ n = PlaceOf(nodes[i]) /\ v = HeapPop(Heap) OBVIOUS
<1>2. PICK s : s = Closing(v, n) OBVIOUS
<1>3. /\ status = Computing /\ heap # <<>> /\ n \in map.ends /\ nodes' = v.nodes /\ heap' = v.heap
      /\ status' = Returned("success", i) /\ UNCHANGED <<map, open_map, closed, best>>
  <2>1. Head(heap) = i BY <1>1
  <2> QED BY <1>1, <2>1 DEF FindGoal, Popped, Heap
<1>4. /\ i \in 1 .. Len(nodes) /\ n \in Place
      /\ HeapType(v) /\ Len(v.nodes) = Len(nodes) /\ \A k \in 1 .. Len(nodes) : Same(v.nodes[k], nodes[k])
      /\ Range(v.heap) = Range(heap) \ {i}
  <2>1. Taking(i, n, v, s) BY <1>1, <1>2 DEF Taking
  <2> QED BY <1>3, <2>1, Taken
<1>5. Search!Least(n) BY <1>1, <1>3, RootMapped
<1>6. n \in UnorderedMap.ends BY <1>3, MapMapped
<1>7. v.nodes \in Seq(Nodes) /\ DOMAIN v.nodes = DOMAIN nodes BY <1>4, NodeFacts DEF HeapType
<1>8. \A k \in 1 .. Len(nodes) : PlaceOf(v.nodes[k]) = PlaceOf(nodes[k]) /\ v.nodes[k].g = nodes[k].g
  BY <1>4 DEF Same, PlaceOf
<1>9. CostSoFar' = CostSoFar
  <2>1. PICK K : K = CostsOver(v.nodes) OBVIOUS
  <2>2. CostSoFar' = K BY <1>3, <2>1 DEF CostSoFar, CostsOver, PlaceOf
  <2>3. /\ K \in [Place -> Nat]
        /\ \A k \in 1 .. Len(v.nodes) : PlaceOf(v.nodes[k]) \in Place => K[PlaceOf(v.nodes[k])] = v.nodes[k].g
        /\ \A m \in Place : (\A k \in 1 .. Len(v.nodes) : PlaceOf(v.nodes[k]) # m) => K[m] = 0
    <3>1. \A j, k \in 1 .. Len(v.nodes) : PlaceOf(v.nodes[j]) = PlaceOf(v.nodes[k]) => j = k
      BY <1>4, <1>8, NodeFacts
    <3> QED BY <1>7, <2>1, <3>1, CostsAre
  <2>4. \A m \in Place : K[m] = CostSoFar[m]
    <3> TAKE m \in Place
    <3>1. CASE \E k \in 1 .. Len(nodes) : PlaceOf(nodes[k]) = m
      <4>1. PICK k \in 1 .. Len(nodes) : PlaceOf(nodes[k]) = m BY <3>1
      <4> QED BY <1>4, <1>8, <2>3, <4>1, Mapped
    <3>2. CASE \A k \in 1 .. Len(nodes) : PlaceOf(nodes[k]) # m
      BY <1>4, <1>8, <2>3, <3>2, Mapped
    <3> QED BY <3>1, <3>2
  <2>5. CostSoFar \in [Place -> Nat] BY Mapped
  <2> QED BY <2>2, <2>3, <2>4, <2>5
<1>10. OpenPlaces' = OpenPlaces \ {n}
  <2>1. OpenPlaces' = {PlaceOf(v.nodes[k]) : k \in Range(heap) \ {i}} BY <1>3, <1>4 DEF OpenPlaces, PlaceOf
  <2>2. \A k \in Range(heap) : k \in 1 .. Len(nodes) BY NodeFacts DEF Range
  <2>3. \A k \in Range(heap) : PlaceOf(v.nodes[k]) = PlaceOf(nodes[k]) BY <1>8, <2>2
  <2>4. \A k \in Range(heap) : PlaceOf(nodes[k]) = n => k = i BY <1>1, <1>4, <2>2, NodeFacts
  <2> QED BY <1>1, <2>1, <2>3, <2>4 DEF OpenPlaces
<1>11. Outcome' = "success" /\ FoundPlaces' = {n} /\ UnorderedMap' = UnorderedMap /\ closed' = closed
  <2>1. PlaceOf(v.nodes[i]) = n BY <1>1, <1>4, <1>8
  <2>2. FoundPlaces' = {PlaceOf(v.nodes[i])} BY <1>3 DEF FoundPlaces, Returned, PlaceOf
  <2> QED BY <1>3, <2>1, <2>2 DEF Outcome, Returned, UnorderedMap, Unordered
<1>12. Search!Find(n) BY <1>5, <1>6, <1>9, <1>10, <1>11 DEF Search!Find
<1> QED BY <1>4, <1>12

\* What the refinement sees of the steps that change nothing but the status.
LEMMA Unseen ==
  ASSUME UNCHANGED <<map, nodes, heap, open_map, closed>>
  PROVE  UNCHANGED <<UnorderedMap, CostSoFar, OpenPlaces, closed>>
<1>1. UnorderedMap' = UnorderedMap BY DEF UnorderedMap, Unordered
<1>2. CostSoFar' = CostSoFar BY DEF CostSoFar, PlaceOf
<1>3. OpenPlaces' = OpenPlaces BY DEF OpenPlaces, PlaceOf
<1> QED BY <1>1, <1>2, <1>3

\* Every step is one of BestFirst, or one it does not see: that a call ends
\* and that the next begins.
LEMMA StepMapped ==
  ASSUME AInv, AInv', [Next]_vars
  PROVE  [Search!SearchNext]_(Search!searchVars)
<1>1. CASE FindGoal BY <1>1, FindMapped DEF Search!SearchNext
<1>2. CASE ExpandNode BY <1>2, ExpandMapped DEF Search!SearchNext
<1>3. CASE NoPath
  <2>1. OpenPlaces = {} BY <1>3 DEF NoPath, OpenPlaces, Range
  <2>2. Outcome = "searching" /\ Outcome' = "no_path" /\ FoundPlaces' = FoundPlaces
    BY <1>3 DEF NoPath, Outcome, FoundPlaces, Computing, Returned
  <2>3. UNCHANGED <<UnorderedMap, CostSoFar, OpenPlaces, closed>> BY <1>3, Unseen DEF NoPath
  <2> QED BY <2>1, <2>2, <2>3 DEF Search!Exhausted, Search!SearchNext
<1>4. CASE SliceEnds("timeout")
  <2>1. Outcome = "searching" /\ Outcome' = "timeout" /\ FoundPlaces' = FoundPlaces
    BY <1>4 DEF SliceEnds, Outcome, FoundPlaces, Computing, Returned
  <2>2. UNCHANGED <<UnorderedMap, CostSoFar, OpenPlaces, closed>> BY <1>4, Unseen DEF SliceEnds
  <2> QED BY <2>1, <2>2 DEF Search!RunOutOfTime, Search!SearchNext
<1>5. CASE SliceEnds("partial")
  <2>1. Outcome' = Outcome /\ FoundPlaces' = FoundPlaces
    BY <1>5 DEF SliceEnds, Outcome, FoundPlaces, Computing, Returned
  <2>2. UNCHANGED <<UnorderedMap, CostSoFar, OpenPlaces, closed>> BY <1>5, Unseen DEF SliceEnds
  <2> QED BY <2>1, <2>2 DEF Search!searchVars
<1>6. CASE Compute
  <2>1. Outcome' = Outcome /\ FoundPlaces' = FoundPlaces
    BY <1>6 DEF Compute, Outcome, FoundPlaces, Computing
  <2>2. UNCHANGED <<UnorderedMap, CostSoFar, OpenPlaces, closed>> BY <1>6, Unseen DEF Compute
  <2> QED BY <2>1, <2>2 DEF Search!searchVars
<1>7. CASE UNCHANGED vars
  <2>1. UNCHANGED <<map, nodes, heap, open_map, closed, status>> BY <1>7 DEF vars
  <2>2. Outcome' = Outcome /\ FoundPlaces' = FoundPlaces BY <2>1 DEF Outcome, FoundPlaces, PlaceOf
  <2>3. UNCHANGED <<UnorderedMap, CostSoFar, OpenPlaces, closed>> BY <2>1, Unseen
  <2> QED BY <2>2, <2>3 DEF Search!searchVars
<1> QED BY <1>1, <1>2, <1>3, <1>4, <1>5, <1>6, <1>7 DEF Next

\* Both start in the same way.
LEMMA InitMapped ==
  ASSUME Init
  PROVE  Search!SearchInit
<1>1. AInv BY Initially
<1>2. /\ map \in Searches /\ closed = {} /\ status = Computing
      /\ open_map = [n \in {map.start} |-> 1] /\ nodes = <<Node(Start, 0, None, 1)>>
  BY DEF Init
<1>3. OpenPlaces = {UnorderedMap.start}
  <2>1. Found = {} BY <1>2 DEF Found, Computing
  <2> QED BY <1>1, <1>2, <2>1, Mapped, MapMapped
<1>4. CostSoFar = [n \in Place |-> 0]
  <2>1. Len(nodes) = 1 /\ nodes[1].g = 0 BY <1>2 DEF Node
  <2>2. \A n \in Place : CostSoFar[n] = 0
    <3> TAKE n \in Place
    <3>1. CASE PlaceOf(nodes[1]) = n BY <1>1, <2>1, <3>1, Mapped
    <3>2. CASE PlaceOf(nodes[1]) # n
      <4>1. \A k \in 1 .. Len(nodes) : PlaceOf(nodes[k]) # n BY <2>1, <3>2
      <4> QED BY <1>1, <4>1, Mapped
    <3> QED BY <3>1, <3>2
  <2>3. CostSoFar \in [Place -> Nat] BY <1>1, Mapped
  <2> QED BY <2>2, <2>3
<1>5. Outcome = "searching" /\ FoundPlaces = {} BY <1>2 DEF Outcome, FoundPlaces, Computing
<1>6. UnorderedMap \in UnorderedSearches BY <1>2 DEF UnorderedMap, UnorderedSearches
<1> QED BY <1>2, <1>3, <1>4, <1>5, <1>6 DEF Search!SearchInit

\* path/astar.rs 146-223: the heap and the arena compute what BestFirst says
\* -- each round takes an open place of least estimated cost, and each place
\* it reaches gets the least cost on offer.
THEOREM SearchIsBestFirst == Spec => ImplementsBestFirst
<1>1. Init => Search!SearchInit BY InitMapped
<1>2. AInv /\ AInv' /\ [Next]_vars => [Search!SearchNext]_(Search!searchVars) BY StepMapped
<1> QED BY <1>1, <1>2, Invariant, PTL DEF Spec, ImplementsBestFirst, Search!SearchSpec

\* What is proved of BestFirst holds of the search.
Proved == INSTANCE BestFirstProofs WITH
  Maps <- UnorderedSearches, map <- UnorderedMap, cost <- CostSoFar, open <- OpenPlaces,
  outcome <- Outcome, found <- FoundPlaces

\* The searches are worlds and goals that BestFirst allows.
LEMMA MapsAreMaps ==
  Search!MapsOK
<1> SUFFICES ASSUME NEW s \in Searches
             PROVE  Unordered(s) \in [start : Place, ends : SUBSET Place,
                                      moves : [Place -> SUBSET [to : Place, cost : Nat]],
                                      estimate : [Place -> Int], limit : Nat]
  BY DEF Search!MapsOK, UnorderedSearches
<1>1. /\ s.start \in Place /\ s.ends \in SUBSET Place /\ s.limit \in Nat
      /\ s.estimate \in [Place -> Int]
  BY SearchesAssumption
<1>2. ASSUME NEW n \in Place
      PROVE  {[to |-> move.to, cost |-> move.cost] : move \in Range(s.moves[n])} \in SUBSET [to : Place, cost : Nat]
  <2>1. /\ s.moves[n] = [i \in 1 .. Len(s.moves[n]) |-> s.moves[n][i]]
        /\ \A i \in 1 .. Len(s.moves[n]) : s.moves[n][i].to \in Place /\ s.moves[n][i].cost \in Nat
    BY SearchesAssumption
  <2>2. DOMAIN s.moves[n] = 1 .. Len(s.moves[n]) BY <2>1
  <2>3. \A move \in Range(s.moves[n]) : move.to \in Place /\ move.cost \in Nat BY <2>1, <2>2 DEF Range
  <2> QED BY <2>3
<1>3. PICK f : f = [n \in Place |-> {[to |-> move.to, cost |-> move.cost] : move \in Range(s.moves[n])}] OBVIOUS
<1>4. f \in [Place -> SUBSET [to : Place, cost : Nat]] BY <1>2, <1>3
<1> QED BY <1>1, <1>3, <1>4 DEF Unordered

\* Search and Proved say the same.
LEMMA SameInit == Search!SearchInit => Proved!SearchInit
BY DEF Search!SearchInit, Proved!SearchInit

\* And the same of the steps.
LEMMA SameStep ==
  ASSUME [Search!SearchNext]_(Search!searchVars)
  PROVE  [Proved!SearchNext]_(Proved!searchVars)
<1>1. \A n : Search!Estimated(n) = Proved!Estimated(n) BY DEF Search!Estimated, Proved!Estimated
<1>2. \A n : Search!Least(n) <=> Proved!Least(n) BY <1>1 DEF Search!Least, Proved!Least
<1>3. \A n, m : Search!Offers(n, m) = Proved!Offers(n, m)
  BY DEF Search!Offers, Proved!Offers, Search!WithinLimit, Proved!WithinLimit
<1>4. \A m : Search!Known(m) = Proved!Known(m) BY DEF Search!Known, Proved!Known
<1>5. \A n : Search!Reached(n) = Proved!Reached(n) BY <1>3 DEF Search!Reached, Proved!Reached
<1>6. ASSUME NEW n \in Place, Search!Expand(n) PROVE Proved!Expand(n)
  BY <1>2, <1>3, <1>4, <1>5, <1>6 DEF Search!Expand, Proved!Expand
<1>7. ASSUME NEW n \in Place, Search!Find(n) PROVE Proved!Find(n)
  BY <1>2, <1>7 DEF Search!Find, Proved!Find
<1>8. Search!Exhausted => Proved!Exhausted BY DEF Search!Exhausted, Proved!Exhausted
<1>9. Search!RunOutOfTime => Proved!RunOutOfTime BY DEF Search!RunOutOfTime, Proved!RunOutOfTime
<1>10. UNCHANGED Search!searchVars => UNCHANGED Proved!searchVars BY DEF Search!searchVars, Proved!searchVars
<1> QED BY <1>6, <1>7, <1>8, <1>9, <1>10 DEF Search!SearchNext, Proved!SearchNext

\* So the search is the one that the theorems of BestFirst are about.
LEMMA SearchProved == Spec => Proved!SearchSpec
<1>1. Init => Proved!SearchInit BY InitMapped, SameInit
<1>2. AInv /\ AInv' /\ [Next]_vars => [Proved!SearchNext]_(Proved!searchVars) BY StepMapped, SameStep
<1> QED BY <1>1, <1>2, Invariant, PTL DEF Spec, Proved!SearchSpec

\* goals.rs 8 and path/astar.rs 166-168: if no move brings the estimate down
\* by more than it costs, no walk of the map to an end is cheaper than the
\* way the search has found to the one it returns.
THEOREM SearchFindsCheapest == Spec => []Search!CheapestFound
<1>1. Proved!MapsOK BY MapsAreMaps DEF Search!MapsOK, Proved!MapsOK
<1>2. Proved!CheapestFound => Search!CheapestFound
  BY DEF Proved!CheapestFound, Search!CheapestFound, Proved!Consistent, Search!Consistent,
         Proved!Walk, Search!Walk, Proved!Estimated, Search!Estimated
<1> QED BY <1>1, <1>2, SearchProved, Proved!CheapestAlwaysFound, PTL

\* path/astar.rs 179-181, 222: and NoPath means that no walk leads to an end
\* within the radius of the search, if there is one; without
\* one that does not depend on the estimates.
THEOREM SearchMissesNone == Spec => []Search!NoneMissed
<1>1. Proved!MapsOK BY MapsAreMaps DEF Search!MapsOK, Proved!MapsOK
<1>2. Proved!NoneMissed => Search!NoneMissed
  BY DEF Proved!NoneMissed, Search!NoneMissed, Proved!Consistent, Search!Consistent, Proved!Walk, Search!Walk
<1> QED BY <1>1, <1>2, SearchProved, Proved!NothingMissed, PTL

-----------------------------------------------------------------------------
(* The ways it finds are as cheap as the reference says.                   *)

\* The rounds of WalkCosts.
CostRounds(f, n) == f = [k \in 0 .. n |-> IF k = 0 THEN Standing ELSE Lengthen(f[k - 1])]

\* There are such rounds, however many.
LEMMA CostRoundsExist ==
  ASSUME NEW n \in Nat
  PROVE  \E f : CostRounds(f, n)
<1> DEFINE T == {m \in Nat : ~\E f : CostRounds(f, m)}
<1> SUFFICES ASSUME T # {} PROVE FALSE OBVIOUS
<1>1. PICK m \in T : \A y \in T : m <= y
  <2>1. T \subseteq Nat OBVIOUS
  <2> HIDE DEF T
  <2> QED BY <2>1, LeastNatural
<1>2. m # 0
  <2>1. CostRounds([k \in 0 .. 0 |-> Standing], 0) BY DEF CostRounds
  <2> QED BY <2>1
<1>3. m - 1 \in Nat /\ m - 1 \notin T BY <1>1, <1>2
<1>4. PICK g : CostRounds(g, m - 1) BY <1>3
<1> DEFINE h == [k \in 0 .. m |-> IF k = 0 THEN Standing ELSE Lengthen(g[k - 1])]
<1>5. \A k \in 0 .. m - 1 : h[k] = g[k]
  BY <1>3, <1>4 DEF CostRounds
<1>6. CostRounds(h, m)
  <2>1. \A k \in 0 .. m : h[k] = IF k = 0 THEN Standing ELSE Lengthen(h[k - 1])
    <3> TAKE k \in 0 .. m
    <3>1. CASE k = 0 BY <3>1
    <3>2. CASE k # 0
      <4>1. k - 1 \in 0 .. m - 1 BY <3>2
      <4>2. h[k - 1] = g[k - 1] BY <1>5, <4>1
      <4>3. h[k] = Lengthen(g[k - 1]) BY <3>2
      <4> QED BY <3>2, <4>2, <4>3
    <3> QED BY <3>1, <3>2
  <2>2. h = [k \in 0 .. m |-> h[k]] OBVIOUS
  <2> HIDE DEF h
  <2> QED BY <2>1, <2>2 DEF CostRounds
<1> QED BY <1>6

\* What rounds of them come to.
CostsFrom(f, n) ==
  /\ f[0] = Standing
  /\ \A k \in 1 .. n : f[k] = Lengthen(f[k - 1])
  /\ WalkCosts = {c[2] + map.estimate[c[1]] : c \in {q \in f[n].best : q[1] \in map.ends}}

\* WalkCosts is the last of its rounds.
LEMMA WalkCostsAre ==
  ASSUME NEW n \in Nat, n = Cardinality(Place)
  PROVE  \E f : CostsFrom(f, n)
<1> DEFINE f == CHOOSE g : g = [k \in 0 .. Cardinality(Place) |-> IF k = 0 THEN Standing ELSE Lengthen(g[k - 1])]
<1>1. WalkCosts = {c[2] + map.estimate[c[1]] : c \in {q \in f[Cardinality(Place)].best : q[1] \in map.ends}}
  BY DEF WalkCosts
<1>2. CostRounds(f, n)
  <2>1. PICK g : CostRounds(g, n) BY CostRoundsExist
  <2>2. g = [k \in 0 .. Cardinality(Place) |-> IF k = 0 THEN Standing ELSE Lengthen(g[k - 1])] BY <2>1 DEF CostRounds
  <2>3. f = [k \in 0 .. Cardinality(Place) |-> IF k = 0 THEN Standing ELSE Lengthen(f[k - 1])] BY <2>2
  <2> HIDE DEF f
  <2> QED BY <2>3 DEF CostRounds
<1> HIDE DEF f
<1>3. f[0] = Standing /\ \A k \in 1 .. n : f[k] = Lengthen(f[k - 1]) BY <1>2 DEF CostRounds
<1>4. CostsFrom(f, n) BY <1>1, <1>3 DEF CostsFrom
<1> QED BY <1>4

\* Pairs of a place and a cost.
Pairs(R) == R.best \subseteq Place \X Nat /\ R.new \subseteq R.best

\* One of the pairs B offers place m at no more than c.
AsCheap(B, m, c) == \E r \in B : r[1] = m /\ r[2] <= c

\* What the moves of the new pairs come to.
LEMMA LengthenedIs ==
  ASSUME map \in Searches, NEW R, Pairs(R), NEW O, O = Lengthened(R)
  PROVE  /\ O \subseteq Place \X Nat
         /\ \A q \in R.new : \A move \in Range(map.moves[q[1]]) : <<move.to, q[2] + move.cost>> \in O
         /\ \A o \in O : \E q \in R.new : \E move \in Range(map.moves[q[1]]) : o = <<move.to, q[2] + move.cost>>
<1>1. \A q \in R.new : q[1] \in Place /\ q[2] \in Nat BY DEF Pairs
<1>2. \A n \in Place : \A move \in Range(map.moves[n]) : move.to \in Place /\ move.cost \in Nat
  <2> TAKE n \in Place
  <2>1. /\ DOMAIN map.moves[n] = 1 .. Len(map.moves[n])
        /\ \A i \in 1 .. Len(map.moves[n]) : map.moves[n][i].to \in Place /\ map.moves[n][i].cost \in Nat
    BY MapFacts, SearchesAssumption
  <2> QED BY <2>1 DEF Range
<1>3. \A q \in R.new : \A move \in Range(map.moves[q[1]]) :
        <<move.to, q[2] + move.cost>> \in O /\ <<move.to, q[2] + move.cost>> \in Place \X Nat
  <2> TAKE q \in R.new
  <2> TAKE move \in Range(map.moves[q[1]])
  <2>1. <<move.to, q[2] + move.cost>> \in O BY DEF Lengthened
  <2>2. move.to \in Place /\ move.cost \in Nat /\ q[2] \in Nat BY <1>1, <1>2
  <2>3. q[2] + move.cost \in Nat BY <2>2
  <2> QED BY <2>1, <2>2, <2>3
<1>4. \A o \in O : \E q \in R.new : \E move \in Range(map.moves[q[1]]) : o = <<move.to, q[2] + move.cost>>
  BY DEF Lengthened
<1> QED BY <1>3, <1>4

\* A round takes up what is cheaper, and loses no place and no cheap way.
LEMMA LengthenIs ==
  ASSUME map \in Searches, NEW R, Pairs(R), NEW O, O = Lengthened(R), NEW T, T = Lengthen(R)
  PROVE  /\ Pairs(T)
         /\ \A r \in T.best : r \in R.best \/ r \in O
         /\ \A r \in T.best : r \in T.new \/ r \in R.best
         /\ \A q \in R.best \cup O : AsCheap(T.best, q[1], q[2])
<1>1. O \subseteq Place \X Nat BY LengthenedIs
<1>2. PICK U : U = {o \in O : /\ \A q \in O : q[1] = o[1] => o[2] <= q[2]
                              /\ \A q \in R.best : q[1] = o[1] => o[2] < q[2]}
  OBVIOUS
<1>3. T.best = {q \in R.best : \A o \in U : o[1] # q[1]} \cup U /\ T.new = U BY <1>2 DEF Lengthen
<1>4. \A q \in R.best \cup O : q[1] \in Place /\ q[2] \in Nat BY <1>1 DEF Pairs
<1>5. Pairs(T)
  <2>1. U \subseteq Place \X Nat BY <1>1, <1>2
  <2> QED BY <1>3, <2>1 DEF Pairs
<1>6. ASSUME NEW q \in R.best PROVE AsCheap(T.best, q[1], q[2])
  <2>1. CASE \A o \in U : o[1] # q[1]
    <3>1. q \in T.best /\ q[2] <= q[2] BY <1>3, <1>4, <2>1
    <3> QED BY <3>1 DEF AsCheap
  <2>2. CASE \E o \in U : o[1] = q[1]
    <3>1. PICK o \in U : o[1] = q[1] BY <2>2
    <3>2. o \in O /\ o[2] < q[2] BY <1>2, <3>1
    <3>3. o[2] <= q[2] BY <1>4, <3>2
    <3> QED BY <1>3, <3>1, <3>3 DEF AsCheap
  <2> QED BY <2>1, <2>2
<1>7. ASSUME NEW o \in O PROVE AsCheap(T.best, o[1], o[2])
  <2>1. PICK S : S = {q[2] : q \in {r \in O : r[1] = o[1]}} OBVIOUS
  <2>2. S \subseteq Nat /\ o[2] \in S BY <1>4, <2>1
  <2>3. PICK least \in S : \A y \in S : least <= y BY <2>2, LeastNatural
  <2>4. PICK q \in O : q[1] = o[1] /\ q[2] = least BY <2>1, <2>3
  <2>5. \A r \in O : r[1] = o[1] => q[2] <= r[2] BY <2>1, <2>3, <2>4
  <2>6. q[2] <= o[2] BY <2>5
  <2>7. CASE \E r \in R.best : r[1] = q[1] /\ r[2] <= q[2]
    <3>1. PICK r \in R.best : r[1] = q[1] /\ r[2] <= q[2] BY <2>7
    <3>2. PICK t \in T.best : t[1] = r[1] /\ t[2] <= r[2] BY <1>6 DEF AsCheap
    <3>3. t[2] \in Nat BY <1>5 DEF Pairs
    <3>4. r[2] \in Nat /\ q[2] \in Nat /\ o[2] \in Nat BY <1>4
    <3>5. t[2] <= o[2] BY <2>6, <3>1, <3>2, <3>3, <3>4
    <3> QED BY <2>4, <3>1, <3>2, <3>5 DEF AsCheap
  <2>8. CASE \A r \in R.best : r[1] = q[1] => ~(r[2] <= q[2])
    <3>1. \A r \in R.best : r[1] = q[1] => q[2] < r[2] BY <1>4, <2>8
    <3>2. q \in U BY <1>2, <2>4, <2>5, <3>1
    <3> QED BY <1>3, <2>4, <2>6, <3>2 DEF AsCheap
  <2> QED BY <2>7, <2>8
<1>8. \A r \in T.best : (r \in R.best \/ r \in O) /\ (r \in T.new \/ r \in R.best)
  BY <1>2, <1>3
<1> QED BY <1>5, <1>6, <1>7, <1>8

\* A walk, by the moves of the map.
LEMMA WalkIs ==
  ASSUME map \in Searches, NEW k \in Nat, NEW p \in [0 .. k -> Place], NEW w \in [0 .. k -> Nat]
  PROVE  Search!Walk(k, p, w) <=>
           /\ p[0] = map.start /\ w[0] = 0
           /\ \A i \in 0 .. k - 1 : \E move \in Range(map.moves[p[i]]) : move.to = p[i + 1] /\ w[i + 1] = w[i] + move.cost
<1>1. UnorderedMap.start = map.start BY DEF UnorderedMap, Unordered
<1>2. ASSUME NEW i \in 0 .. k - 1
      PROVE  [to |-> p[i + 1], cost |-> w[i + 1] - w[i]] \in UnorderedMap.moves[p[i]] <=>
               \E move \in Range(map.moves[p[i]]) : move.to = p[i + 1] /\ w[i + 1] = w[i] + move.cost
  <2>1. i \in 0 .. k /\ i + 1 \in 0 .. k OBVIOUS
  <2>2. PICK n \in Place : n = p[i] BY <2>1
  <2>3. PICK c \in Nat : c = w[i] BY <2>1
  <2>4. PICK d \in Nat : d = w[i + 1] BY <2>1
  <2>5. \A move \in Range(map.moves[n]) : move.cost \in Nat
    <3>1. /\ DOMAIN map.moves[n] = 1 .. Len(map.moves[n])
          /\ \A j \in 1 .. Len(map.moves[n]) : map.moves[n][j].cost \in Nat
      BY MapFacts, SearchesAssumption
    <3> QED BY <3>1 DEF Range
  <2>6. UnorderedMap.moves[n] = {[to |-> move.to, cost |-> move.cost] : move \in Range(map.moves[n])}
    BY DEF UnorderedMap, Unordered
  <2>7. ASSUME NEW move \in Range(map.moves[n])
        PROVE  [to |-> move.to, cost |-> move.cost] = [to |-> p[i + 1], cost |-> d - c] <=>
                 move.to = p[i + 1] /\ d = c + move.cost
    <3>1. move.cost \in Nat BY <2>5
    <3>2. d - c = move.cost <=> d = c + move.cost BY <3>1
    <3>3. PICK a, b : a = [to |-> move.to, cost |-> move.cost] /\ b = [to |-> p[i + 1], cost |-> d - c] OBVIOUS
    <3>4. a.to = move.to /\ a.cost = move.cost /\ b.to = p[i + 1] /\ b.cost = d - c BY <3>3
    <3>5. a = b <=> a.to = b.to /\ a.cost = b.cost BY <3>3
    <3> QED BY <3>2, <3>3, <3>4, <3>5
  <2>8. PICK x : x = [to |-> p[i + 1], cost |-> d - c] OBVIOUS
  <2>9. x \in UnorderedMap.moves[n] <=> \E move \in Range(map.moves[n]) : x = [to |-> move.to, cost |-> move.cost]
    BY <2>6
  <2>10. x \in UnorderedMap.moves[n] <=> \E move \in Range(map.moves[n]) : move.to = p[i + 1] /\ d = c + move.cost
    BY <2>7, <2>8, <2>9
  <2> QED BY <2>2, <2>3, <2>4, <2>8, <2>10
<1> QED BY <1>1, <1>2 DEF Search!Walk

\* Each pair is the cost of a walk.
OfWalks(R) ==
  \A q \in R.best : \E k \in Nat : \E p \in [0 .. k -> Place], w \in [0 .. k -> Nat] :
    Search!Walk(k, p, w) /\ p[k] = q[1] /\ w[k] = q[2]

\* The moves of all pairs but the new ones have been made.
Explored(R) ==
  \A q \in R.best : q \in R.new \/ \A move \in Range(map.moves[q[1]]) : AsCheap(R.best, move.to, q[2] + move.cost)

\* No walk of k moves is cheaper.
Covers(R, k) ==
  \A p \in [0 .. k -> Place], w \in [0 .. k -> Nat] : Search!Walk(k, p, w) => AsCheap(R.best, p[k], w[k])

\* A walk of one move more.
LEMMA WalkOn ==
  ASSUME map \in Searches, NEW q \in Place \X Nat, NEW move \in Range(map.moves[q[1]]),
         NEW k \in Nat, NEW p \in [0 .. k -> Place], NEW w \in [0 .. k -> Nat],
         Search!Walk(k, p, w), p[k] = q[1], w[k] = q[2]
  PROVE  \E l \in Nat : \E pl \in [0 .. l -> Place], wl \in [0 .. l -> Nat] :
           Search!Walk(l, pl, wl) /\ pl[l] = move.to /\ wl[l] = q[2] + move.cost
<1>1. PICK l \in Nat : l = k + 1 OBVIOUS
<1>2. q[1] \in Place /\ q[2] \in Nat OBVIOUS
<1>3. move.to \in Place /\ move.cost \in Nat
  <2>1. PICK n \in Place : n = q[1] BY <1>2
  <2>2. /\ DOMAIN map.moves[n] = 1 .. Len(map.moves[n])
        /\ \A j \in 1 .. Len(map.moves[n]) : map.moves[n][j].to \in Place /\ map.moves[n][j].cost \in Nat
    BY MapFacts, SearchesAssumption
  <2> QED BY <2>1, <2>2 DEF Range
<1>4. PICK c \in Nat : c = q[2] + move.cost BY <1>2, <1>3
<1>5. PICK pl : pl = [i \in 0 .. l |-> IF i = l THEN move.to ELSE p[i]] OBVIOUS
<1>6. PICK wl : wl = [i \in 0 .. l |-> IF i = l THEN c ELSE w[i]] OBVIOUS
<1>7. \A i \in 0 .. l : i # l => i \in 0 .. k BY <1>1
<1>8. pl \in [0 .. l -> Place] /\ wl \in [0 .. l -> Nat] BY <1>3, <1>5, <1>6, <1>7
<1>9. \A i \in 0 .. k : i # l /\ i \in 0 .. l /\ pl[i] = p[i] /\ wl[i] = w[i]
  <2>1. \A i \in 0 .. k : i # l /\ i \in 0 .. l BY <1>1
  <2> QED BY <2>1, <1>5, <1>6
<1>10. pl[l] = move.to /\ wl[l] = c BY <1>5, <1>6
<1>11. ASSUME NEW i \in 0 .. l - 1
       PROVE  \E m \in Range(map.moves[pl[i]]) : m.to = pl[i + 1] /\ wl[i + 1] = wl[i] + m.cost
  <2>1. i \in 0 .. k BY <1>1
  <2>2. pl[i] = p[i] /\ wl[i] = w[i] BY <1>9, <2>1
  <2>3. CASE i = k
    <3>1. i + 1 = l BY <1>1, <2>3
    <3> QED BY <1>4, <1>10, <2>2, <2>3, <3>1
  <2>4. CASE i # k
    <3>1. i \in 0 .. k - 1 /\ i + 1 \in 0 .. k BY <2>1, <2>4
    <3>2. \E m \in Range(map.moves[p[i]]) : m.to = p[i + 1] /\ w[i + 1] = w[i] + m.cost BY <3>1, WalkIs
    <3>3. pl[i + 1] = p[i + 1] /\ wl[i + 1] = w[i + 1] BY <1>9, <3>1
    <3> QED BY <2>2, <3>2, <3>3
  <2> QED BY <2>3, <2>4
<1>12. pl[0] = map.start /\ wl[0] = 0
  <2>1. 0 \in 0 .. k OBVIOUS
  <2>2. p[0] = map.start /\ w[0] = 0 BY WalkIs
  <2> QED BY <1>9, <2>1, <2>2
<1>13. Search!Walk(l, pl, wl) BY <1>8, <1>11, <1>12, WalkIs
<1> QED BY <1>4, <1>8, <1>10, <1>13

\* What a round keeps, and that it covers the walks that are a move longer.
LEMMA RoundGoesOn ==
  ASSUME map \in Searches, NEW R, Pairs(R), Explored(R), OfWalks(R), NEW T, T = Lengthen(R)
  PROVE  /\ Pairs(T) /\ Explored(T) /\ OfWalks(T)
         /\ \A k \in Nat : Covers(R, k) => Covers(T, k) /\ Covers(T, k + 1)
<1>1. PICK O : O = Lengthened(R) OBVIOUS
<1>2. /\ Pairs(T)
      /\ \A r \in T.best : r \in R.best \/ r \in O
      /\ \A r \in T.best : r \in T.new \/ r \in R.best
      /\ \A q \in R.best \cup O : AsCheap(T.best, q[1], q[2])
  BY <1>1, LengthenIs
<1>3. /\ O \subseteq Place \X Nat
      /\ \A q \in R.new : \A move \in Range(map.moves[q[1]]) : <<move.to, q[2] + move.cost>> \in O
      /\ \A o \in O : \E q \in R.new : \E move \in Range(map.moves[q[1]]) : o = <<move.to, q[2] + move.cost>>
  BY <1>1, LengthenedIs
<1>4. /\ \A q \in R.best : q \in Place \X Nat /\ q[1] \in Place /\ q[2] \in Nat
      /\ \A q \in T.best : q \in Place \X Nat /\ q[1] \in Place /\ q[2] \in Nat
      /\ R.new \subseteq R.best
  BY <1>2 DEF Pairs
<1>5. ASSUME NEW m, NEW c \in Nat, AsCheap(R.best, m, c) PROVE AsCheap(T.best, m, c)
  <2>1. PICK q \in R.best : q[1] = m /\ q[2] <= c BY <1>5 DEF AsCheap
  <2>2. PICK r \in T.best : r[1] = q[1] /\ r[2] <= q[2] BY <1>2 DEF AsCheap
  <2>3. r[2] <= c BY <1>4, <2>1, <2>2
  <2> QED BY <2>1, <2>2, <2>3 DEF AsCheap
<1>6. ASSUME NEW q \in R.best, NEW move \in Range(map.moves[q[1]])
      PROVE  AsCheap(T.best, move.to, q[2] + move.cost) /\ move.cost \in Nat
  <2>1. PICK n \in Place : n = q[1] BY <1>4
  <2>2. /\ DOMAIN map.moves[n] = 1 .. Len(map.moves[n])
        /\ \A j \in 1 .. Len(map.moves[n]) : map.moves[n][j].cost \in Nat
    BY MapFacts, SearchesAssumption
  <2>3. move.cost \in Nat BY <2>1, <2>2 DEF Range
  <2>4. q[2] + move.cost \in Nat BY <1>4, <2>3
  <2>5. CASE q \in R.new
    <3>1. PICK o \in O : o = <<move.to, q[2] + move.cost>> BY <1>3, <2>5
    <3>2. o[1] = move.to /\ o[2] = q[2] + move.cost BY <3>1
    <3> QED BY <1>2, <2>3, <3>2
  <2>6. CASE q \notin R.new
    <3>1. AsCheap(R.best, move.to, q[2] + move.cost) BY <2>6 DEF Explored
    <3> QED BY <1>5, <2>3, <2>4, <3>1
  <2> QED BY <2>5, <2>6
<1>7. Explored(T) BY <1>2, <1>6 DEF Explored
<1>8. OfWalks(T)
  <2> SUFFICES ASSUME NEW r \in T.best
               PROVE  \E k \in Nat : \E p \in [0 .. k -> Place], w \in [0 .. k -> Nat] :
                        Search!Walk(k, p, w) /\ p[k] = r[1] /\ w[k] = r[2]
    BY DEF OfWalks
  <2>1. CASE r \in R.best BY <2>1 DEF OfWalks
  <2>2. CASE r \in O
    <3>1. PICK q \in R.new : \E move \in Range(map.moves[q[1]]) : r = <<move.to, q[2] + move.cost>> BY <1>3, <2>2
    <3>2. PICK move \in Range(map.moves[q[1]]) : r = <<move.to, q[2] + move.cost>> BY <3>1
    <3>3. r[1] = move.to /\ r[2] = q[2] + move.cost BY <3>2
    <3>4. q \in R.best /\ q \in Place \X Nat BY <1>4
    <3>5. PICK k \in Nat : \E p \in [0 .. k -> Place], w \in [0 .. k -> Nat] :
            Search!Walk(k, p, w) /\ p[k] = q[1] /\ w[k] = q[2]
      BY <3>4 DEF OfWalks
    <3>6. PICK p \in [0 .. k -> Place], w \in [0 .. k -> Nat] : Search!Walk(k, p, w) /\ p[k] = q[1] /\ w[k] = q[2]
      BY <3>5
    <3>7. \E l \in Nat : \E pl \in [0 .. l -> Place], wl \in [0 .. l -> Nat] :
            Search!Walk(l, pl, wl) /\ pl[l] = move.to /\ wl[l] = q[2] + move.cost
      BY <3>4, <3>6, WalkOn
    <3> QED BY <3>3, <3>7
  <2> QED BY <1>2, <2>1, <2>2
<1>9. ASSUME NEW k \in Nat, Covers(R, k) PROVE Covers(T, k) /\ Covers(T, k + 1)
  <2>1. Covers(T, k)
    <3> SUFFICES ASSUME NEW p \in [0 .. k -> Place], NEW w \in [0 .. k -> Nat], Search!Walk(k, p, w)
                 PROVE  AsCheap(T.best, p[k], w[k])
      BY DEF Covers
    <3>1. AsCheap(R.best, p[k], w[k]) BY <1>9 DEF Covers
    <3>2. w[k] \in Nat OBVIOUS
    <3> QED BY <1>5, <3>1, <3>2
  <2>2. Covers(T, k + 1)
    <3>1. PICK l \in Nat : l = k + 1 OBVIOUS
    <3> SUFFICES ASSUME NEW p \in [0 .. l -> Place], NEW w \in [0 .. l -> Nat], Search!Walk(l, p, w)
                 PROVE  AsCheap(T.best, p[l], w[l])
      BY <3>1 DEF Covers
    <3>2. PICK pk : pk = [i \in 0 .. k |-> p[i]] OBVIOUS
    <3>3. PICK wk : wk = [i \in 0 .. k |-> w[i]] OBVIOUS
    <3>4. pk \in [0 .. k -> Place] /\ wk \in [0 .. k -> Nat]
      <4>1. \A i \in 0 .. k : i \in 0 .. l BY <3>1
      <4> QED BY <3>2, <3>3, <4>1
    <3>5. Search!Walk(k, pk, wk)
      <4>1. 0 \in 0 .. k /\ \A i \in 0 .. k - 1 : i \in 0 .. k /\ i + 1 \in 0 .. k /\ i \in 0 .. l - 1 BY <3>1
      <4>2. /\ p[0] = map.start /\ w[0] = 0
            /\ \A i \in 0 .. l - 1 : \E move \in Range(map.moves[p[i]]) : move.to = p[i + 1] /\ w[i + 1] = w[i] + move.cost
        BY WalkIs
      <4>3. pk[0] = map.start /\ wk[0] = 0 BY <3>2, <3>3, <4>1, <4>2
      <4>4. ASSUME NEW i \in 0 .. k - 1
            PROVE  \E move \in Range(map.moves[pk[i]]) : move.to = pk[i + 1] /\ wk[i + 1] = wk[i] + move.cost
        <5>1. pk[i] = p[i] /\ wk[i] = w[i] /\ pk[i + 1] = p[i + 1] /\ wk[i + 1] = w[i + 1] BY <3>2, <3>3, <4>1
        <5>2. \E move \in Range(map.moves[p[i]]) : move.to = p[i + 1] /\ w[i + 1] = w[i] + move.cost BY <4>1, <4>2
        <5> QED BY <5>1, <5>2
      <4> QED BY <3>4, <4>3, <4>4, WalkIs
    <3>6. AsCheap(R.best, p[k], w[k])
      <4>1. AsCheap(R.best, pk[k], wk[k]) BY <1>9, <3>4, <3>5 DEF Covers
      <4>2. pk[k] = p[k] /\ wk[k] = w[k] BY <3>2, <3>3
      <4> QED BY <4>1, <4>2
    <3>7. PICK q \in R.best : q[1] = p[k] /\ q[2] <= w[k] BY <3>6 DEF AsCheap
    <3>8. PICK move \in Range(map.moves[p[k]]) : move.to = p[l] /\ w[l] = w[k] + move.cost
      <4>1. k \in 0 .. l - 1 /\ k + 1 = l BY <3>1
      <4> QED BY <4>1, WalkIs
    <3>9. AsCheap(T.best, move.to, q[2] + move.cost) /\ move.cost \in Nat BY <1>6, <3>7, <3>8
    <3>10. PICK r \in T.best : r[1] = move.to /\ r[2] <= q[2] + move.cost BY <3>9 DEF AsCheap
    <3>11. r[2] <= w[l]
      <4>1. r[2] \in Nat /\ q[2] \in Nat /\ w[k] \in Nat /\ w[l] \in Nat
        <5>1. k \in 0 .. l /\ l \in 0 .. l BY <3>1
        <5> QED BY <1>4, <5>1
      <4> QED BY <3>7, <3>8, <3>9, <3>10, <4>1
    <3> QED BY <3>8, <3>10, <3>11 DEF AsCheap
  <2> QED BY <2>1, <2>2
<1> QED BY <1>2, <1>7, <1>8, <1>9

\* So after k rounds the pairs are walks' costs, and cover all of k moves.
LEMMA RoundsCover ==
  ASSUME map \in Searches, NEW n \in Nat, NEW f, CostsFrom(f, n)
  PROVE  Pairs(f[n]) /\ OfWalks(f[n]) /\ \A j \in 0 .. n : Covers(f[n], j)
<1> DEFINE Good(k) == Pairs(f[k]) /\ Explored(f[k]) /\ OfWalks(f[k]) /\ \A j \in 0 .. k : Covers(f[k], j)
           T == {k \in Nat : k <= n /\ ~Good(k)}
<1>1. T = {}
  <2> SUFFICES ASSUME T # {} PROVE FALSE OBVIOUS
  <2>1. PICK k \in T : \A y \in T : k <= y
    <3>1. T \subseteq Nat OBVIOUS
    <3> HIDE DEF T
    <3> QED BY <3>1, LeastNatural
  <2>2. k \in Nat /\ k <= n /\ ~Good(k) BY <2>1
  <2>3. k # 0
    <3> SUFFICES Good(0) BY <2>2
    <3>1. PICK q : q = <<map.start, 0>> OBVIOUS
    <3>2. q \in Place \X Nat /\ q[1] = map.start /\ q[2] = 0 BY <3>1, MapFacts
    <3>3. PICK R : R = f[0] OBVIOUS
    <3>4. R.best = {q} /\ R.new = {q} BY <3>1, <3>3 DEF CostsFrom, Standing
    <3>5. Pairs(R) /\ Explored(R) BY <3>2, <3>4 DEF Pairs, Explored
    <3>6. OfWalks(R)
      <4>1. PICK p : p = [i \in 0 .. 0 |-> map.start] OBVIOUS
      <4>2. PICK w : w = [i \in 0 .. 0 |-> 0] OBVIOUS
      <4>3. p \in [0 .. 0 -> Place] /\ w \in [0 .. 0 -> Nat] BY <4>1, <4>2, MapFacts
      <4>4. p[0] = map.start /\ w[0] = 0
        <5>1. 0 \in 0 .. 0 OBVIOUS
        <5> QED BY <4>1, <4>2, <5>1
      <4>5. Search!Walk(0, p, w)
        <5>1. 0 .. 0 - 1 = {} OBVIOUS
        <5> QED BY <4>3, <4>4, <5>1, WalkIs
      <4> QED BY <3>2, <3>4, <4>3, <4>4, <4>5 DEF OfWalks
    <3>7. Covers(R, 0)
      <4> SUFFICES ASSUME NEW p \in [0 .. 0 -> Place], NEW w \in [0 .. 0 -> Nat], Search!Walk(0, p, w)
                   PROVE  AsCheap(R.best, p[0], w[0])
        BY DEF Covers
      <4>1. p[0] = map.start /\ w[0] = 0 BY WalkIs
      <4>2. 0 <= 0 OBVIOUS
      <4> QED BY <3>2, <3>4, <4>1, <4>2 DEF AsCheap
    <3>8. \A j \in 0 .. 0 : j = 0 OBVIOUS
    <3> QED BY <3>3, <3>5, <3>6, <3>7, <3>8
  <2>4. PICK h \in Nat : k = h + 1
    <3>1. k - 1 \in Nat /\ k = (k - 1) + 1 BY <2>2, <2>3
    <3> QED BY <3>1
  <2>5. Good(h)
    <3>1. h \notin T
      <4>1. ~(k <= h) BY <2>4
      <4> HIDE DEF T
      <4> QED BY <2>1, <4>1
    <3>2. h <= n BY <2>2, <2>4
    <3> HIDE DEF Good
    <3> QED BY <3>1, <3>2
  <2>6. f[k] = Lengthen(f[h])
    <3>1. k \in 1 .. n /\ k - 1 = h BY <2>2, <2>4
    <3> QED BY <3>1 DEF CostsFrom
  <2>7. /\ Pairs(f[k]) /\ Explored(f[k]) /\ OfWalks(f[k])
        /\ \A j \in Nat : Covers(f[h], j) => Covers(f[k], j) /\ Covers(f[k], j + 1)
    BY <2>5, <2>6, RoundGoesOn
  <2>8. \A j \in 0 .. k : Covers(f[k], j)
    <3> TAKE j \in 0 .. k
    <3>1. CASE j = k
      <4>1. Covers(f[h], h) BY <2>5
      <4> QED BY <2>4, <2>7, <3>1, <4>1
    <3>2. CASE j # k
      <4>1. j \in 0 .. h /\ j \in Nat BY <2>4, <3>2
      <4>2. Covers(f[h], j) BY <2>5, <4>1
      <4> QED BY <2>7, <4>1, <4>2
    <3> QED BY <3>1, <3>2
  <2> QED BY <2>2, <2>7, <2>8
<1>2. Good(n)
  <2>1. n \notin T BY <1>1
  <2>2. n <= n OBVIOUS
  <2> HIDE DEF Good
  <2> QED BY <2>1, <2>2
<1> QED BY <1>2

\* Every cost of WalkCosts is that of a walk to an end.
LEMMA WalkCostsWalked ==
  ASSUME map \in Searches, IsFiniteSet(Place), NEW x \in WalkCosts
  PROVE  \E k \in Nat : \E p \in [0 .. k -> Place], w \in [0 .. k -> Nat] :
           Search!Walk(k, p, w) /\ p[k] \in map.ends /\ x = w[k] + map.estimate[p[k]]
<1>1. PICK n \in Nat : n = Cardinality(Place) BY FS_CardinalityType
<1>2. PICK f : CostsFrom(f, n) BY <1>1, WalkCostsAre
<1>3. PICK q \in f[n].best : q[1] \in map.ends /\ x = q[2] + map.estimate[q[1]] BY <1>2 DEF CostsFrom
<1>4. OfWalks(f[n]) BY <1>2, RoundsCover
<1>5. PICK k \in Nat : \E p \in [0 .. k -> Place], w \in [0 .. k -> Nat] :
        Search!Walk(k, p, w) /\ p[k] = q[1] /\ w[k] = q[2]
  BY <1>3, <1>4 DEF OfWalks
<1> QED BY <1>3, <1>5

\* A walk to an end of no more moves than there are places is covered.
LEMMA WalkCostsCover ==
  ASSUME map \in Searches, IsFiniteSet(Place), NEW k \in Nat, k <= Cardinality(Place),
         NEW p \in [0 .. k -> Place], NEW w \in [0 .. k -> Nat], Search!Walk(k, p, w), p[k] \in map.ends
  PROVE  \E x \in WalkCosts : x <= w[k] + map.estimate[p[k]]
<1>1. PICK n \in Nat : n = Cardinality(Place) BY FS_CardinalityType
<1>2. PICK f : CostsFrom(f, n) BY <1>1, WalkCostsAre
<1>3. Pairs(f[n]) /\ Covers(f[n], k)
  <2>1. k \in 0 .. n BY <1>1
  <2> QED BY <1>2, <2>1, RoundsCover
<1>4. PICK q \in f[n].best : q[1] = p[k] /\ q[2] <= w[k] BY <1>3 DEF Covers, AsCheap
<1>5. PICK m \in Place : m = p[k] OBVIOUS
<1>6. PICK c \in Nat : c = w[k] OBVIOUS
<1>7. q[2] \in Nat BY <1>3 DEF Pairs
<1>8. map.estimate[m] \in Int BY MapFacts
<1>9. q[2] + map.estimate[m] <= c + map.estimate[m] BY <1>4, <1>6, <1>7, <1>8
<1>10. q[2] + map.estimate[m] \in WalkCosts BY <1>2, <1>4, <1>5 DEF CostsFrom
<1> QED BY <1>5, <1>6, <1>9, <1>10

\* The path to a node is a walk, to places that are all different.
LEMMA PathIsWalk ==
  ASSUME AInv, IsFiniteSet(Place), NEW i \in 1 .. Len(nodes)
  PROVE  \E k \in Nat : \E p \in [0 .. k -> Place], w \in [0 .. k -> Nat] :
           /\ Search!Walk(k, p, w) /\ k <= Cardinality(Place)
           /\ p[k] = PlaceOf(nodes[i]) /\ w[k] = nodes[i].g
<1>1. PICK to : ArePaths(nodes, to) BY DEF AInv, Tree, Paths
<1>2. PICK path : path = to[i] OBVIOUS
<1>3. Leads(path, i) BY <1>1, <1>2, PathLeads
<1>4. PICK l \in Nat : l = Len(path) /\ l >= 1 BY <1>3 DEF Leads
<1>5. PICK k \in Nat : l = k + 1
  <2>1. l - 1 \in Nat /\ l = (l - 1) + 1 BY <1>4
  <2> QED BY <2>1
<1>6. \A h \in 1 .. l : path[h] \in 1 .. Len(nodes) BY <1>3, <1>4 DEF Leads
<1>7. \A h, j \in 1 .. l : path[h] = path[j] => h = j
  <2>1. \A h, j \in 1 .. Len(path) : path[h] = path[j] => h = j BY <1>1, <1>2, <1>3, PathApart
  <2> QED BY <1>4, <2>1
<1>8. \A h \in 1 .. Len(nodes) : PlaceOf(nodes[h]) \in Place /\ nodes[h].g \in Nat BY NodeFacts
<1>9. map \in Searches BY DEF AInv
<1>10. l <= Cardinality(Place)
  <2>1. PICK e : e = [h \in 1 .. l |-> PlaceOf(nodes[path[h]])] OBVIOUS
  <2>2. e \in [1 .. l -> Place] BY <1>6, <1>8, <2>1
  <2>3. \A h, j \in 1 .. l : e[h] = e[j] => h = j
    <3> TAKE h, j \in 1 .. l
    <3> HAVE e[h] = e[j]
    <3>1. PlaceOf(nodes[path[h]]) = PlaceOf(nodes[path[j]]) BY <2>1
    <3>2. path[h] \in 1 .. Len(nodes) /\ path[j] \in 1 .. Len(nodes) BY <1>6
    <3>3. path[h] = path[j] BY <3>1, <3>2, NodeFacts
    <3> QED BY <1>7, <3>3
  <2>4. e \in Injection(1 .. l, Place) BY <2>2, <2>3 DEF Injection, IsInjective
  <2>5. Cardinality(1 .. l) <= Cardinality(Place) BY <2>4, FS_Injection
  <2>6. Cardinality(1 .. l) = l
    <3>1. l \in Int /\ 1 \in Int /\ ~(1 > l) /\ l - 1 + 1 = l BY <1>4
    <3> QED BY <3>1, FS_Interval
  <2> QED BY <2>5, <2>6
<1>11. k <= Cardinality(Place)
  <2>1. Cardinality(Place) \in Nat BY FS_CardinalityType
  <2> QED BY <1>5, <1>10, <2>1
<1>12. PICK p : p = [h \in 0 .. k |-> PlaceOf(nodes[path[h + 1]])] OBVIOUS
<1>13. PICK w : w = [h \in 0 .. k |-> nodes[path[h + 1]].g] OBVIOUS
<1>14. \A h \in 0 .. k : h + 1 \in 1 .. l BY <1>5
<1>15. p \in [0 .. k -> Place] /\ w \in [0 .. k -> Nat]
  <2>1. \A h \in 0 .. k : PlaceOf(nodes[path[h + 1]]) \in Place /\ nodes[path[h + 1]].g \in Nat BY <1>6, <1>8, <1>14
  <2> QED BY <1>12, <1>13, <2>1
<1>16. p[0] = map.start /\ w[0] = 0
  <2>1. 0 \in 0 .. k /\ 0 + 1 = 1 /\ 1 \in 1 .. l BY <1>4
  <2>2. path[1] \in 1 .. Len(nodes) /\ nodes[path[1]].parent = None BY <1>3, <1>6, <2>1 DEF Leads
  <2>3. nodes[path[1]].data = Start /\ nodes[path[1]].g = 0 BY <2>2 DEF AInv, Tree, Family
  <2>4. PlaceOf(nodes[path[1]]) = map.start BY <2>3 DEF PlaceOf, Start
  <2> QED BY <1>12, <1>13, <2>1, <2>3, <2>4
<1>17. ASSUME NEW h \in 0 .. k - 1
       PROVE  \E move \in Range(map.moves[p[h]]) : move.to = p[h + 1] /\ w[h + 1] = w[h] + move.cost
  <2>1. PICK g \in 1 .. l - 1 : g = h + 1 BY <1>5
  <2>2. h \in 0 .. k /\ h + 1 \in 0 .. k /\ g \in 1 .. l /\ g + 1 \in 1 .. l /\ h + 1 = g /\ (h + 1) + 1 = g + 1
    BY <1>5, <2>1
  <2>3. PICK a \in 1 .. Len(nodes) : a = path[g] BY <1>6, <2>2
  <2>4. PICK b \in 1 .. Len(nodes) : b = path[g + 1] BY <1>6, <2>2
  <2>5. nodes[b].parent = a /\ a # None BY <1>3, <1>4, <2>1, <2>3, <2>4 DEF Leads
  <2>6. nodes[b].data \in Range(map.moves[PlaceOf(nodes[a])]) /\ nodes[b].g = nodes[a].g + nodes[b].data.cost
    BY <2>5, Parents
  <2>7. p[h] = PlaceOf(nodes[a]) /\ w[h] = nodes[a].g BY <1>12, <1>13, <2>2, <2>3
  <2>8. p[h + 1] = nodes[b].data.to /\ w[h + 1] = nodes[b].g BY <1>12, <1>13, <2>2, <2>4 DEF PlaceOf
  <2> QED BY <2>6, <2>7, <2>8
<1>18. Search!Walk(k, p, w) BY <1>9, <1>15, <1>16, <1>17, WalkIs
<1>19. p[k] = PlaceOf(nodes[i]) /\ w[k] = nodes[i].g
  <2>1. k \in 0 .. k /\ k + 1 = l BY <1>5
  <2>2. path[l] = i BY <1>3, <1>4 DEF Leads
  <2> QED BY <1>12, <1>13, <2>1, <2>2
<1> QED BY <1>11, <1>15, <1>18, <1>19

\* The same estimates are consistent for both.
LEMMA SameConsistent ==
  ASSUME map \in Searches, Consistent
  PROVE  Search!Consistent
<1> SUFFICES ASSUME NEW n \in Place, NEW move \in UnorderedMap.moves[n]
             PROVE  UnorderedMap.estimate[n] <= move.cost + UnorderedMap.estimate[move.to]
  BY DEF Search!Consistent
<1>1. UnorderedMap.estimate = map.estimate BY DEF UnorderedMap, Unordered
<1>2. UnorderedMap.moves[n] = {[to |-> m.to, cost |-> m.cost] : m \in Range(map.moves[n])}
  BY DEF UnorderedMap, Unordered
<1>3. PICK m \in Range(map.moves[n]) : move = [to |-> m.to, cost |-> m.cost] BY <1>2
<1>4. PICK k \in DOMAIN map.moves[n] : m = map.moves[n][k] BY <1>3 DEF Range
<1>5. map.estimate[n] <= m.cost + map.estimate[m.to] BY <1>4 DEF Consistent
<1>6. move.to = m.to /\ move.cost = m.cost BY <1>3
<1> QED BY <1>1, <1>5, <1>6

\* What the search has found is the least of the walks' costs.
LEMMA FoundIsLeast ==
  ASSUME AInv, IsFiniteSet(Place), Search!CheapestFound, status.kind = "success", Consistent
  PROVE  nodes[status.node].g + nodes[status.node].h = Min(WalkCosts)
<1>1. map \in Searches BY DEF AInv
<1>2. PICK i \in 1 .. Len(nodes) : i = status.node /\ PlaceOf(nodes[i]) \in map.ends
  BY DEF AInv, StatusOK, Returned, Computing
<1>3. PICK n \in Place : n = PlaceOf(nodes[i]) BY NodeFacts
<1>4. /\ nodes[i].g \in Nat /\ nodes[i].h \in Int /\ nodes[i].h = map.estimate[n] /\ CostSoFar[n] = nodes[i].g
  BY <1>3, NodeFacts, Mapped
<1>5. PICK e \in Int : e = nodes[i].g + nodes[i].h BY <1>4
<1>6. FoundPlaces = {n} BY <1>2, <1>3 DEF FoundPlaces
<1>7. UnorderedMap.estimate = map.estimate /\ UnorderedMap.ends = map.ends BY DEF UnorderedMap, Unordered
<1>8. Search!Estimated(n) = e BY <1>4, <1>5, <1>7 DEF Search!Estimated
<1>9. ASSUME NEW x \in WalkCosts PROVE e <= x /\ x \in Int
  <2>1. PICK k \in Nat : \E p \in [0 .. k -> Place], w \in [0 .. k -> Nat] :
          Search!Walk(k, p, w) /\ p[k] \in map.ends /\ x = w[k] + map.estimate[p[k]]
    BY <1>1, WalkCostsWalked
  <2>2. PICK p \in [0 .. k -> Place], w \in [0 .. k -> Nat] :
          Search!Walk(k, p, w) /\ p[k] \in map.ends /\ x = w[k] + map.estimate[p[k]]
    BY <2>1
  <2>3. Search!Estimated(n) <= w[k] + map.estimate[p[k]]
    <3>1. Search!Consistent BY <1>1, SameConsistent
    <3> QED BY <1>6, <1>7, <2>2, <3>1 DEF Search!CheapestFound
  <2>4. w[k] \in Nat /\ map.estimate[p[k]] \in Int BY <1>1, MapFacts
  <2> QED BY <1>8, <2>2, <2>3, <2>4
<1>10. e \in WalkCosts
  <2>1. PICK k \in Nat : \E p \in [0 .. k -> Place], w \in [0 .. k -> Nat] :
          /\ Search!Walk(k, p, w) /\ k <= Cardinality(Place)
          /\ p[k] = PlaceOf(nodes[i]) /\ w[k] = nodes[i].g
    BY PathIsWalk
  <2>2. PICK p \in [0 .. k -> Place], w \in [0 .. k -> Nat] :
          /\ Search!Walk(k, p, w) /\ k <= Cardinality(Place)
          /\ p[k] = PlaceOf(nodes[i]) /\ w[k] = nodes[i].g
    BY <2>1
  <2>3. PICK x \in WalkCosts : x <= w[k] + map.estimate[p[k]]
    BY <1>1, <1>2, <2>2, WalkCostsCover
  <2>4. x <= e BY <1>3, <1>4, <1>5, <2>2, <2>3
  <2>5. e <= x /\ x \in Int BY <1>9
  <2>6. x = e BY <2>4, <2>5
  <2> QED BY <2>6
<1>11. PICK m : m = Min(WalkCosts) OBVIOUS
<1>12. m \in WalkCosts /\ \A x \in WalkCosts : m <= x BY <1>9, <1>10, <1>11 DEF Min
<1>13. m <= e /\ e <= m /\ m \in Int BY <1>9, <1>10, <1>12
<1>14. m = e BY <1>13
<1> QED BY <1>2, <1>5, <1>11, <1>14

\* And where it says that there is none, there is no walk.
LEMMA NothingToFind ==
  ASSUME AInv, IsFiniteSet(Place), Search!NoneMissed, status.kind = "no_path", map.limit = 0
  PROVE  WalkCosts = {}
<1> SUFFICES ASSUME NEW x \in WalkCosts PROVE FALSE OBVIOUS
<1>1. map \in Searches BY DEF AInv
<1>2. Outcome = "no_path" BY DEF Outcome
<1>3. UnorderedMap.limit = 0 /\ UnorderedMap.ends = map.ends BY DEF UnorderedMap, Unordered
<1>4. PICK k \in Nat : \E p \in [0 .. k -> Place], w \in [0 .. k -> Nat] :
        Search!Walk(k, p, w) /\ p[k] \in map.ends /\ x = w[k] + map.estimate[p[k]]
  BY <1>1, WalkCostsWalked
<1>5. PICK p \in [0 .. k -> Place], w \in [0 .. k -> Nat] :
        Search!Walk(k, p, w) /\ p[k] \in map.ends /\ x = w[k] + map.estimate[p[k]]
  BY <1>4
<1>6. UnorderedMap.limit > 0 BY <1>2, <1>3, <1>5 DEF Search!NoneMissed
<1> QED BY <1>3, <1>6

\* goals.rs 8 and path/astar.rs 164-186, over finitely many places: with
\* consistent estimates the way that is found costs the least of all walks
\* to an end, and NoPath without a radius means that there is none.
THEOREM CheapestIsFound ==
  IsFiniteSet(Place) => (Spec => []FindsCheapest)
<1> SUFFICES ASSUME IsFiniteSet(Place) PROVE Spec => []FindsCheapest OBVIOUS
<1>1. AInv /\ Search!CheapestFound /\ Search!NoneMissed => FindsCheapest
  BY FoundIsLeast, NothingToFind DEF FindsCheapest
<1> QED BY <1>1, Invariant, SearchFindsCheapest, SearchMissesNone, PTL

-----------------------------------------------------------------------------
(* The moves of a world.                                                   *)

\* The rounds of Sifted.
AreSifted(f, seq, S, n) ==
  f = [k \in 0 .. n |-> IF k = 0 THEN <<>> ELSE IF seq[k] \in S THEN Append(f[k - 1], seq[k]) ELSE f[k - 1]]

\* There are such rounds, however many.
LEMMA SiftingExists ==
  ASSUME NEW seq, NEW S, NEW m \in Nat
  PROVE  \E f : AreSifted(f, seq, S, m)
<1> DEFINE T == {n \in Nat : ~\E f : AreSifted(f, seq, S, n)}
           Round(g, k) == IF seq[k] \in S THEN Append(g[k - 1], seq[k]) ELSE g[k - 1]
<1> SUFFICES ASSUME T # {} PROVE FALSE OBVIOUS
<1>1. PICK n \in T : \A y \in T : n <= y
  <2>1. T \subseteq Nat OBVIOUS
  <2> HIDE DEF T
  <2> QED BY <2>1, LeastNatural
<1>2. n # 0
  <2>1. AreSifted([k \in 0 .. 0 |-> <<>>], seq, S, 0) BY DEF AreSifted
  <2> QED BY <2>1
<1>3. n \in Nat /\ n - 1 \in Nat /\ n - 1 \notin T BY <1>1, <1>2
<1>4. PICK g : AreSifted(g, seq, S, n - 1) BY <1>3
<1> DEFINE h == [k \in 0 .. n |-> IF k = 0 THEN <<>> ELSE Round(g, k)]
<1>5. \A k \in 0 .. n - 1 : h[k] = g[k]
  <2> TAKE k \in 0 .. n - 1
  <2>1. g[k] = IF k = 0 THEN <<>> ELSE Round(g, k) BY <1>4 DEF AreSifted
  <2>2. k \in 0 .. n BY <1>3
  <2> HIDE DEF Round
  <2> QED BY <2>1, <2>2
<1>6. AreSifted(h, seq, S, n)
  <2>1. \A k \in 0 .. n : h[k] = IF k = 0 THEN <<>> ELSE Round(h, k)
    <3> TAKE k \in 0 .. n
    <3>1. CASE k = 0 BY <3>1
    <3>2. CASE k # 0
      <4>1. k - 1 \in 0 .. n - 1 BY <3>2
      <4>2. h[k - 1] = g[k - 1] BY <1>5, <4>1
      <4>3. h[k] = Round(g, k) BY <3>2
      <4> QED BY <3>2, <4>2, <4>3
    <3> QED BY <3>1, <3>2
  <2>2. h = [k \in 0 .. n |-> h[k]] OBVIOUS
  <2> HIDE DEF h
  <2> QED BY <2>1, <2>2 DEF AreSifted
<1> QED BY <1>6

\* Sifted leaves the elements that are in S, and no others.
LEMMA SiftedIs ==
  ASSUME NEW T, NEW seq \in Seq(T), NEW S
  PROVE  /\ Sifted(seq, S) \in Seq(T)
         /\ \A x : x \in Range(Sifted(seq, S)) <=> x \in Range(seq) /\ x \in S
<1>1. PICK l \in Nat : l = Len(seq) /\ DOMAIN seq = 1 .. l /\ \A i \in 1 .. l : seq[i] \in T OBVIOUS
<1> DEFINE f == CHOOSE g : g = [k \in 0 .. Len(seq) |->
                  IF k = 0 THEN <<>> ELSE IF seq[k] \in S THEN Append(g[k - 1], seq[k]) ELSE g[k - 1]]
<1>2. Sifted(seq, S) = f[Len(seq)] BY DEF Sifted
<1>3. AreSifted(f, seq, S, l)
  <2>1. PICK g : AreSifted(g, seq, S, l) BY SiftingExists
  <2>2. g = [k \in 0 .. Len(seq) |-> IF k = 0 THEN <<>> ELSE IF seq[k] \in S THEN Append(g[k - 1], seq[k]) ELSE g[k - 1]]
    BY <1>1, <2>1 DEF AreSifted
  <2>3. f = [k \in 0 .. Len(seq) |-> IF k = 0 THEN <<>> ELSE IF seq[k] \in S THEN Append(f[k - 1], seq[k]) ELSE f[k - 1]]
    BY <2>2
  <2> HIDE DEF f
  <2> QED BY <1>1, <2>3 DEF AreSifted
<1> HIDE DEF f
<1>4. /\ f[0] = <<>>
      /\ \A k \in 1 .. l : f[k] = IF seq[k] \in S THEN Append(f[k - 1], seq[k]) ELSE f[k - 1]
  <2>1. \A k \in 0 .. l : f[k] = IF k = 0 THEN <<>> ELSE IF seq[k] \in S THEN Append(f[k - 1], seq[k]) ELSE f[k - 1]
    BY <1>3 DEF AreSifted
  <2>2. 0 \in 0 .. l /\ \A k \in 1 .. l : k \in 0 .. l /\ k # 0 BY <1>1
  <2> QED BY <2>1, <2>2
<1> DEFINE Good(k) == /\ f[k] \in Seq(T)
                      /\ \A x : x \in Range(f[k]) <=> x \in S /\ \E i \in 1 .. k : x = seq[i]
           B == {k \in Nat : k <= l /\ ~Good(k)}
<1>5. B = {}
  <2> SUFFICES ASSUME B # {} PROVE FALSE OBVIOUS
  <2>0. \A k : k \in B <=> k \in Nat /\ k <= l /\ ~Good(k) OBVIOUS
  <2>1. PICK k \in B : \A y \in B : k <= y
    <3>1. B \subseteq Nat OBVIOUS
    <3> HIDE DEF B
    <3> QED BY <3>1, LeastNatural
  <2>2. k \in Nat /\ k <= l /\ ~Good(k) BY <2>0
  <2> HIDE DEF B
  <2>3. k # 0
    <3>1. Good(0)
      <4>1. Range(<<>>) = {} BY DEF Range
      <4>2. 1 .. 0 = {} OBVIOUS
      <4> QED BY <1>4, <4>1, <4>2
    <3> HIDE DEF Good
    <3> QED BY <2>2, <3>1
  <2>4. k \in 1 .. l /\ k - 1 \in Nat /\ k - 1 <= l /\ ~(k <= k - 1) BY <2>2, <2>3
  <2>5. Good(k - 1)
    <3> HIDE DEF Good
    <3> QED BY <2>0, <2>1, <2>4
  <2>6. \A i : i \in 1 .. k <=> i \in 1 .. k - 1 \/ i = k BY <2>4
  <2>7. PICK a : a = f[k - 1] OBVIOUS
  <2>8. PICK x : x = seq[k] OBVIOUS
  <2>9. a \in Seq(T) /\ x \in T BY <1>1, <2>4, <2>5, <2>7, <2>8
  <2>10. CASE x \in S
    <3>1. f[k] = Append(a, x) BY <1>4, <2>4, <2>7, <2>8, <2>10
    <3>2. Append(a, x) \in Seq(T) BY <2>9
    <3>3. \A y : y \in Range(Append(a, x)) <=> y \in Range(a) \/ y = x
      <4>1. PICK n \in Nat : n = Len(a) /\ DOMAIN a = 1 .. n BY <2>9
      <4>2. PICK b : b = Append(a, x) OBVIOUS
      <4>3. DOMAIN b = 1 .. n + 1 /\ b[n + 1] = x /\ \A i \in 1 .. n : b[i] = a[i] BY <2>9, <4>1, <4>2
      <4>4. \A i : i \in 1 .. n + 1 <=> i \in 1 .. n \/ i = n + 1 BY <4>1
      <4>5. \A y : y \in Range(b) <=> \E i \in 1 .. n + 1 : y = b[i] BY <4>3 DEF Range
      <4>6. \A y : y \in Range(a) <=> \E i \in 1 .. n : y = a[i] BY <4>1 DEF Range
      <4> QED BY <4>2, <4>3, <4>4, <4>5, <4>6
    <3>4. Good(k) BY <2>5, <2>6, <2>7, <2>8, <2>10, <3>1, <3>2, <3>3
    <3> HIDE DEF Good
    <3> QED BY <2>2, <3>4
  <2>11. CASE x \notin S
    <3>1. f[k] = a BY <1>4, <2>4, <2>7, <2>8, <2>11
    <3>2. Good(k) BY <2>5, <2>6, <2>7, <2>8, <2>11, <3>1
    <3> HIDE DEF Good
    <3> QED BY <2>2, <3>2
  <2> QED BY <2>10, <2>11
<1>6. Good(l)
  <2> HIDE DEF Good
  <2> QED BY <1>5
<1>7. \A x : x \in Range(seq) <=> \E i \in 1 .. l : x = seq[i] BY <1>1 DEF Range
<1> QED BY <1>1, <1>2, <1>6, <1>7

-----------------------------------------------------------------------------
(* What moves are like, in a world as it was looked at.                    *)

Cells == Int \X Int \X Int

\* A move to which there is support, if it is no tower.
Held(w, p, to) == Supported(w, to) \/ FallsInLava(w, p, to)

\* A cell that is free when the move has broken what it breaks, or that it
\* does not look at.
Free(w, p, m, c) == Safe(w, c) \/ c \in Range(m.break) \/ c \in Overlooked(w, p, m)

\* From a place, a move breaks only what may be broken and is in its way,
\* and not what it will stand on; it is a tower, or it leads to where feet
\* and head are free and something holds the bot.
Sound(w, p, m) ==
  /\ \A q \in Range(m.break) : q \in Cells /\ Breakable(w, q) /\ ~Open(w, q)
  /\ Up(m.to, -1) \notin Range(m.break)
  /\ \/ /\ m.place = <<>>
        /\ Free(w, p, m, m.to) /\ Free(w, p, m, Up(m.to, 1))
        /\ Held(w, p, m.to)
     \/ /\ m.place = <<p>> /\ m.break = <<>>
        /\ m.to = Up(p, 1) /\ Loaded(w, p) /\ Safe(w, Up(p, 2))

\* A list of such moves.
AllSound(w, p, s) ==
  \E T : s \in Seq(T) /\ \A m \in Range(s) : Sound(w, p, m)

\* Cells of one column.
LEMMA Heights ==
  ASSUME NEW p \in Cells, NEW a \in Int, NEW b \in Int
  PROVE  /\ Up(p, a) \in Cells /\ Up(Up(p, a), b) = Up(p, a + b) /\ Up(p, 0) = p
         /\ Up(p, a) = Up(p, b) => a = b
BY DEF Up, Cells

\* And of two.
LEMMA Aside ==
  ASSUME NEW p \in Cells, NEW d \in Int \X Int
  PROVE  /\ Beside(p, d) \in Cells
         /\ d # <<0, 0>> => \A a, b \in Int : Up(p, a) # Up(Beside(p, d), b)
<1>1. Beside(p, d) \in Cells BY DEF Beside, Cells
<1>2. ASSUME d # <<0, 0>>, NEW a \in Int, NEW b \in Int PROVE Up(p, a) # Up(Beside(p, d), b)
  <2>1. d[1] # 0 \/ d[2] # 0 BY <1>2
  <2>2. p[1] \in Int /\ p[3] \in Int /\ d[1] \in Int /\ d[2] \in Int BY DEF Cells
  <2>3. CASE d[1] # 0
    <3>1. Up(p, a)[1] = p[1] /\ Up(Beside(p, d), b)[1] = p[1] + d[1] BY DEF Up, Beside
    <3> QED BY <2>2, <2>3, <3>1
  <2>4. CASE d[2] # 0
    <3>1. Up(p, a)[3] = p[3] /\ Up(Beside(p, d), b)[3] = p[3] + d[2] BY DEF Up, Beside
    <3> QED BY <2>2, <2>4, <3>1
  <2> QED BY <2>1, <2>3, <2>4
<1> QED BY <1>1, <1>2

\* What is safe is open; what is open is safe, or lava.
LEMMA Kinds ==
  ASSUME NEW w, NEW p
  PROVE  /\ Safe(w, p) => Open(w, p)
         /\ Liquid(w, p) => ~Physical(w, p) /\ Open(w, p)
         /\ Open(w, p) /\ ~Lava(w, p) => Safe(w, p)
         /\ Water(w, p) => Safe(w, p)
         /\ Safe(w, p) \/ Replaceable(w, p) => Loaded(w, p)
BY DEF Safe, Physical, Liquid, Water, Lava, Open, Query, Replaceable

\* The cells that a move does not look at.
LEMMA OverlookedAre ==
  ASSUME NEW w, NEW p, NEW m
  PROVE  /\ p \in Overlooked(w, p, m) /\ Up(p, 1) \in Overlooked(w, p, m)
         /\ m.to = Up(p, 1) /\ m.place = <<>> => Up(p, 2) \in Overlooked(w, p, m)
         /\ Falls(p, m.to) /\ ~Physical(w, Up(Ledge(p, m.to), -1)) => Up(Ledge(p, m.to), -1) \in Overlooked(w, p, m)
         /\ FallsInLava(w, p, m.to) => m.to \in Overlooked(w, p, m)
BY DEF Overlooked

\* Lists of sound moves: none,
LEMMA NoneSound ==
  ASSUME NEW w, NEW p
  PROVE  AllSound(w, p, <<>>)
<1>1. Range(<<>>) = {} BY DEF Range
<1>2. <<>> \in Seq({}) OBVIOUS
<1> QED BY <1>1, <1>2 DEF AllSound

\* one,
LEMMA OneSound ==
  ASSUME NEW w, NEW p, NEW m, Sound(w, p, m)
  PROVE  AllSound(w, p, <<m>>)
<1>1. PICK s : s = <<m>> OBVIOUS
<1>2. s \in Seq({m}) /\ DOMAIN s = {1} /\ s[1] = m BY <1>1
<1>3. \A x \in Range(s) : x = m BY <1>2 DEF Range
<1> QED BY <1>1, <1>2, <1>3 DEF AllSound

\* one if it is possible,
LEMMA IfSound ==
  ASSUME NEW w, NEW p, NEW m, NEW c, c => Sound(w, p, m)
  PROVE  AllSound(w, p, If(c, m))
<1>1. CASE c
  <2>1. If(c, m) = <<m>> BY <1>1 DEF If
  <2> QED BY <1>1, <2>1, OneSound
<1>2. CASE ~c
  <2>1. If(c, m) = <<>> BY <1>2 DEF If
  <2> QED BY <2>1, NoneSound
<1> QED BY <1>1, <1>2

\* and one list after another.
LEMMA BothSound ==
  ASSUME NEW w, NEW p, NEW s, AllSound(w, p, s), NEW t, AllSound(w, p, t)
  PROVE  AllSound(w, p, s \o t)
<1>1. PICK S : s \in Seq(S) /\ \A m \in Range(s) : Sound(w, p, m) BY DEF AllSound
<1>2. PICK T : t \in Seq(T) /\ \A m \in Range(t) : Sound(w, p, m) BY DEF AllSound
<1>3. PICK U : U = S \cup T OBVIOUS
<1>4. s \in Seq(U) /\ t \in Seq(U) BY <1>1, <1>2, <1>3
<1>5. s \o t \in Seq(U) BY <1>4
<1>6. Range(s \o t) = Range(s) \cup Range(t) BY <1>4, RangeConcatenation
<1> QED BY <1>1, <1>2, <1>5, <1>6 DEF AllSound

\* A walk, to where there is room and support.
LEMMA WalkSound ==
  ASSUME NEW w, NEW p, NEW to, NEW cost, NEW m, m = Walking(to, cost),
         \A c \in {to, Up(to, 1)} : Safe(w, c) \/ c \in Overlooked(w, p, m),
         Held(w, p, to)
  PROVE  Sound(w, p, m)
<1>1. m.to = to /\ m.break = <<>> /\ m.place = <<>> BY DEF Walking
<1>2. Range(<<>>) = {} BY DEF Range
<1>3. Free(w, p, m, to) /\ Free(w, p, m, Up(to, 1)) BY DEF Free
<1> QED BY <1>1, <1>2, <1>3 DEF Sound

\* One to where everything has been looked at.
LEMMA StepSound ==
  ASSUME NEW w, NEW p, NEW to, NEW cost, Safe(w, to), Safe(w, Up(to, 1)), Supported(w, to)
  PROVE  Sound(w, p, Walking(to, cost))
<1>1. PICK m : m = Walking(to, cost) OBVIOUS
<1>2. Held(w, p, to) BY DEF Held
<1> QED BY <1>1, <1>2, WalkSound

\* One that digs through cells.
LEMMA DigSound ==
  ASSUME NEW w, NEW p, NEW to, NEW cost, NEW T, NEW cells \in Seq(T), Enterable(w, cells),
         Range(cells) \subseteq Cells,
         to \in Range(cells), Up(to, 1) \in Range(cells), Up(to, -1) \notin Range(cells),
         Physical(w, Up(to, -1)) \/ Liquid(w, Up(to, -1))
  PROVE  Sound(w, p, Digging(w, to, cost, cells))
<1>1. PICK m : m = Digging(w, to, cost, cells) OBVIOUS
<1>2. PICK S : S = {q \in Range(cells) : ~Open(w, q)} OBVIOUS
<1>3. m.to = to /\ m.break = Sifted(cells, S) /\ m.place = <<>> BY <1>1, <1>2 DEF Digging, ToBreak
<1>4. \A x : x \in Range(m.break) <=> x \in Range(cells) /\ x \in S BY <1>3, SiftedIs
<1>5. \A q \in Range(cells) : ~NearLava(w, q) /\ (Open(w, q) \/ Breakable(w, q)) BY DEF Enterable, Range
<1>6. \A q \in Range(cells) : ~Lava(w, q) /\ ~Lava(w, Up(q, -1)) BY <1>5 DEF NearLava
<1>7. \A q \in Range(cells) : Safe(w, q) \/ q \in Range(m.break) BY <1>2, <1>4, <1>6, Kinds
<1>8. Free(w, p, m, to) /\ Free(w, p, m, Up(to, 1)) BY <1>7 DEF Free
<1>9. Held(w, p, to) BY <1>6 DEF Held, Supported, Water
<1>10. \A q \in Range(m.break) : q \in Cells /\ Breakable(w, q) /\ ~Open(w, q) BY <1>2, <1>4, <1>5
<1>11. Up(m.to, -1) \notin Range(m.break) BY <1>3, <1>4
<1> QED BY <1>1, <1>3, <1>8, <1>9, <1>10, <1>11 DEF Sound

\* Above where a fall ends it is safe.
LEMMA DepthIs ==
  ASSUME NEW w, NEW p, NEW from \in Nat, from >= 1, NEW most \in Int, NEW k, k = Depth(w, p, from, most)
  PROVE  /\ k \in Nat
         /\ k # 0 => k >= from /\ \A j \in from .. k - 1 : Safe(w, Up(p, -j))
<1>1. PICK ends : ends = {j \in from .. most : ~Safe(w, Up(p, -j)) \/ Physical(w, Up(p, -j)) \/ Liquid(w, Up(p, -j))}
  OBVIOUS
<1>2. k = IF ends = {} THEN 0 ELSE Min(ends) BY <1>1 DEF Depth
<1>3. CASE ends = {} BY <1>2, <1>3
<1>4. CASE ends # {}
  <2>1. ends \subseteq Nat BY <1>1
  <2>2. \E x \in ends : \A y \in ends : x <= y BY <1>4, <2>1, LeastNatural
  <2>3. k \in ends /\ \A y \in ends : k <= y BY <1>2, <1>4, <2>2 DEF Min
  <2>4. k \in Nat /\ k >= from /\ k <= most BY <1>1, <2>1, <2>3
  <2>5. ASSUME NEW j \in from .. k - 1 PROVE Safe(w, Up(p, -j))
    <3>1. j \in from .. most /\ ~(k <= j) BY <2>4
    <3>2. j \notin ends BY <2>3, <3>1
    <3> QED BY <1>1, <3>1, <3>2
  <2> QED BY <2>4, <2>5
<1> QED BY <1>3, <1>4

\* Above the end of a fall a cell is safe, or the top of it, or the one below
\* that is not looked at.
LEMMA AboveEnd ==
  ASSUME NEW w, NEW n, NEW from \in Nat, from = 1 \/ from = 2, NEW most \in Int, NEW k, k = Depth(w, n, from, most),
         NEW j \in Nat, j < k
  PROVE  Safe(w, Up(n, -j)) \/ j = 0 \/ (from = 2 /\ j = 1)
<1>1. from >= 1 OBVIOUS
<1>2. k \in Nat /\ (k # 0 => k >= from /\ \A i \in from .. k - 1 : Safe(w, Up(n, -i))) BY <1>1, DepthIs
<1>3. CASE j >= from
  <2>1. k # 0 /\ j \in from .. k - 1 BY <1>2, <1>3
  <2> QED BY <1>2, <2>1
<1>4. CASE ~(j >= from) BY <1>4
<1> QED BY <1>3, <1>4

\* Cells of a column, from above.
LEMMA Depths ==
  ASSUME NEW n \in Cells, NEW k \in Nat
  PROVE  /\ Up(n, 1 - k) = Up(n, -(k - 1)) /\ Up(n, 1 - k) \in Cells /\ Up(n, -k) \in Cells
         /\ Up(Up(n, 1 - k), -1) = Up(n, -k)
         /\ Up(Up(n, 1 - k), 1) = Up(n, -(k - 2))
         /\ Up(Up(n, -k), 1) = Up(n, -(k - 1))
<1>1. 1 - k = -(k - 1) /\ (1 - k) + (-1) = -k /\ (1 - k) + 1 = -(k - 2) /\ (-k) + 1 = -(k - 1) OBVIOUS
<1>2. /\ Up(Up(n, 1 - k), -1) = Up(n, (1 - k) + (-1)) /\ Up(Up(n, 1 - k), 1) = Up(n, (1 - k) + 1)
      /\ Up(Up(n, -k), 1) = Up(n, (-k) + 1)
      /\ Up(n, 1 - k) \in Cells /\ Up(n, -k) \in Cells
  BY Heights
<1> QED BY <1>1, <1>2

Steps == {d \in (-1 .. 1) \X (-1 .. 1) : d # <<0, 0>>}

\* From p over the ledge n, and down by j.
LEMMA FallIs ==
  ASSUME NEW p \in Cells, NEW d \in Steps, NEW n, n = Beside(p, d), NEW j \in Nat, j >= 1, NEW to, to = Up(n, -j)
  PROVE  /\ Falls(p, to) /\ Ledge(p, to) = n
         /\ d \in {<<-1, -1>>, <<-1, 1>>, <<1, -1>>, <<1, 1>>} => to[1] # p[1] /\ to[3] # p[3]
<1>1. p[1] \in Int /\ p[2] \in Int /\ p[3] \in Int /\ d[1] \in Int /\ d[2] \in Int BY DEF Cells, Steps
<1>2. n = <<p[1] + d[1], p[2], p[3] + d[2]>> BY DEF Beside
<1>3. to = <<p[1] + d[1], p[2] + (-j), p[3] + d[2]>> BY <1>2 DEF Up
<1>4. to[1] = p[1] + d[1] /\ to[2] = p[2] + (-j) /\ to[3] = p[3] + d[2] BY <1>3
<1>5. Ledge(p, to) = n BY <1>2, <1>4 DEF Ledge
<1>6. to[2] < p[2] BY <1>1, <1>4
<1>7. Falls(p, to) BY <1>5, <1>6 DEF Falls, Steps
<1>8. d \in {<<-1, -1>>, <<-1, 1>>, <<1, -1>>, <<1, 1>>} => d[1] # 0 /\ d[2] # 0 OBVIOUS
<1> QED BY <1>1, <1>4, <1>5, <1>7, <1>8

\* A fall over a ledge, past a cell without a block, ends well; in lava only
\* if it is diagonal.
LEMMA FallSound ==
  ASSUME NEW w, NEW p \in Cells, NEW d \in Steps, NEW n, n = Beside(p, d), NEW most \in Int,
         NEW k, k = Depth(w, n, 2, most), NEW cost, Safe(w, n), ~Physical(w, Up(n, -1)),
         Lava(w, Up(n, -k)) => d \in {<<-1, -1>>, <<-1, 1>>, <<1, -1>>, <<1, 1>>}
  PROVE  AllSound(w, p, Landing(w, n, k, cost))
<1>1. n \in Cells BY Aside DEF Steps
<1>2. k \in Nat /\ (k # 0 => k >= 2)
  <2>1. 2 \in Nat /\ 2 >= 1 OBVIOUS
  <2> QED BY <2>1, DepthIs
<1>3. ASSUME NEW j \in Nat, j < k PROVE Safe(w, Up(n, -j)) \/ j = 1
  <2>1. 2 \in Nat OBVIOUS
  <2>2. Safe(w, Up(n, -j)) \/ j = 0 \/ j = 1 BY <1>3, <2>1, AboveEnd
  <2>3. PICK i \in Int : i = -j OBVIOUS
  <2>4. i + j = 0 BY <2>3
  <2>5. j = 0 => Up(n, i) = n BY <1>1, <2>4, Heights
  <2> QED BY <2>2, <2>3, <2>5
<1>4. CASE k = 0 BY <1>4, NoneSound DEF Landing
<1>5. CASE k # 0 /\ Physical(w, Up(n, -k))
  <2>1. PICK to : to = Up(n, 1 - k) OBVIOUS
  <2>2. PICK c : c = cost + (k - 1) * Half OBVIOUS
  <2>3. PICK m : m = Walking(to, c) OBVIOUS
  <2>4. m.to = to /\ m.place = <<>> BY <2>3 DEF Walking
  <2>5. PICK j \in Nat : j = k - 1 /\ j >= 1 BY <1>2, <1>5
  <2>6. to = Up(n, -j) /\ Up(to, 1) = Up(n, -(k - 2)) /\ Up(to, -1) = Up(n, -k)
    BY <1>1, <1>2, <2>1, <2>5, Depths
  <2>7. Falls(p, to) /\ Ledge(p, to) = n BY <2>5, <2>6, FallIs
  <2>8. Up(n, -1) \in Overlooked(w, p, m) BY <2>4, <2>7, OverlookedAre
  <2>9. Safe(w, to) \/ to \in Overlooked(w, p, m)
    <3>1. Safe(w, Up(n, -j)) \/ j = 1 BY <1>2, <1>3, <2>5
    <3> QED BY <2>6, <2>8, <3>1
  <2>10. Safe(w, Up(to, 1)) \/ Up(to, 1) \in Overlooked(w, p, m)
    <3>1. k - 2 \in Nat /\ k - 2 < k BY <1>2, <1>5
    <3>2. Safe(w, Up(n, -(k - 2))) \/ k - 2 = 1 BY <1>3, <3>1
    <3> QED BY <2>6, <2>8, <3>2
  <2>11. Held(w, p, to) BY <1>5, <2>6 DEF Held, Supported
  <2>12. Sound(w, p, m) BY <2>3, <2>9, <2>10, <2>11, WalkSound
  <2>13. Landing(w, n, k, cost) = <<m>> BY <1>5, <2>1, <2>2, <2>3 DEF Landing
  <2> QED BY <2>12, <2>13, OneSound
<1>6. CASE k # 0 /\ ~Physical(w, Up(n, -k))
  <2>1. PICK to : to = Up(n, -k) OBVIOUS
  <2>2. PICK c : c = cost + k * 30 OBVIOUS
  <2>3. PICK m : m = Walking(to, c) OBVIOUS
  <2>4. m.to = to /\ m.place = <<>> BY <2>3 DEF Walking
  <2>5. k >= 1 /\ Up(to, 1) = Up(n, -(k - 1)) BY <1>1, <1>2, <1>6, <2>1, Depths
  <2>6. /\ Falls(p, to) /\ Ledge(p, to) = n
        /\ d \in {<<-1, -1>>, <<-1, 1>>, <<1, -1>>, <<1, 1>>} => to[1] # p[1] /\ to[3] # p[3]
    BY <1>2, <2>1, <2>5, FallIs
  <2>7. Up(n, -1) \in Overlooked(w, p, m) BY <2>4, <2>6, OverlookedAre
  <2>8. Lava(w, to) => FallsInLava(w, p, to) BY <2>1, <2>6 DEF FallsInLava
  <2>9. ASSUME Liquid(w, to) PROVE Sound(w, p, m)
    <3>1. Safe(w, to) \/ to \in Overlooked(w, p, m) BY <2>4, <2>8, <2>9, Kinds, OverlookedAre
    <3>2. Safe(w, Up(to, 1)) \/ Up(to, 1) \in Overlooked(w, p, m)
      <4>1. k - 1 \in Nat /\ k - 1 < k BY <1>2, <1>6
      <4>2. Safe(w, Up(n, -(k - 1))) \/ k - 1 = 1 BY <1>3, <4>1
      <4> QED BY <2>5, <2>7, <4>2
    <3>3. Held(w, p, to) BY <2>8, <2>9 DEF Held, Supported, Water
    <3> QED BY <2>3, <3>1, <3>2, <3>3, WalkSound
  <2>10. Landing(w, n, k, cost) = If(Liquid(w, to), m) BY <1>6, <2>1, <2>2, <2>3 DEF Landing
  <2> QED BY <2>9, <2>10, IfSound
<1> QED BY <1>4, <1>5, <1>6

\* So does one straight down, where the bot is, and never in lava.
LEMMA SinkSound ==
  ASSUME NEW w, NEW p \in Cells, NEW most \in Int, NEW k, k = Depth(w, p, 1, most), NEW cost,
         ~Physical(w, Up(p, -1)), ~Lava(w, Up(p, -k))
  PROVE  AllSound(w, p, Landing(w, p, k, cost))
<1>1. k \in Nat /\ (k # 0 => k >= 1)
  <2>1. 1 \in Nat /\ 1 >= 1 OBVIOUS
  <2> QED BY <2>1, DepthIs
<1>2. ASSUME NEW j \in Nat, j < k PROVE Safe(w, Up(p, -j)) \/ Up(p, -j) = p
  <2>1. 1 \in Nat OBVIOUS
  <2>2. Safe(w, Up(p, -j)) \/ j = 0 BY <1>2, <2>1, AboveEnd
  <2>3. PICK i \in Int : i = -j OBVIOUS
  <2>4. i + j = 0 BY <2>3
  <2>5. j = 0 => Up(p, i) = p BY <2>4, Heights
  <2> QED BY <2>2, <2>3, <2>5
<1>3. CASE k = 0 BY <1>3, NoneSound DEF Landing
<1>4. CASE k # 0 /\ Physical(w, Up(p, -k))
  <2>1. PICK to : to = Up(p, 1 - k) OBVIOUS
  <2>2. PICK c : c = cost + (k - 1) * Half OBVIOUS
  <2>3. PICK m : m = Walking(to, c) OBVIOUS
  <2>4. k >= 2 BY <1>1, <1>4
  <2>5. to = Up(p, -(k - 1)) /\ Up(to, 1) = Up(p, -(k - 2)) /\ Up(to, -1) = Up(p, -k)
    BY <1>1, <2>1, Depths
  <2>6. p \in Overlooked(w, p, m) BY OverlookedAre
  <2>7. \A x \in {to, Up(to, 1)} : Safe(w, x) \/ x \in Overlooked(w, p, m)
    <3>1. k - 1 \in Nat /\ k - 1 < k /\ k - 2 \in Nat /\ k - 2 < k BY <1>1, <2>4
    <3>2. Safe(w, to) \/ to = p BY <1>2, <2>5, <3>1
    <3>3. Safe(w, Up(to, 1)) \/ Up(to, 1) = p BY <1>2, <2>5, <3>1
    <3> QED BY <2>6, <3>2, <3>3
  <2>8. Held(w, p, to) BY <1>4, <2>5 DEF Held, Supported
  <2>9. Sound(w, p, m) BY <2>3, <2>7, <2>8, WalkSound
  <2>10. Landing(w, p, k, cost) = <<m>> BY <1>4, <2>1, <2>2, <2>3 DEF Landing
  <2> QED BY <2>9, <2>10, OneSound
<1>5. CASE k # 0 /\ ~Physical(w, Up(p, -k))
  <2>1. PICK to : to = Up(p, -k) OBVIOUS
  <2>2. PICK c : c = cost + k * 30 OBVIOUS
  <2>3. PICK m : m = Walking(to, c) OBVIOUS
  <2>4. Up(to, 1) = Up(p, -(k - 1)) BY <1>1, <2>1, Depths
  <2>5. p \in Overlooked(w, p, m) BY OverlookedAre
  <2>6. ASSUME Liquid(w, to) PROVE Sound(w, p, m)
    <3>1. Water(w, to) BY <2>1, <2>6 DEF Water
    <3>2. Safe(w, to) BY <3>1, Kinds
    <3>3. Safe(w, Up(to, 1)) \/ Up(to, 1) \in Overlooked(w, p, m)
      <4>1. k - 1 \in Nat /\ k - 1 < k BY <1>1, <1>5
      <4>2. Safe(w, Up(to, 1)) \/ Up(to, 1) = p BY <1>2, <2>4, <4>1
      <4> QED BY <2>5, <4>2
    <3>4. Held(w, p, to) BY <3>1 DEF Held, Supported
    <3> QED BY <2>3, <3>2, <3>3, <3>4, WalkSound
  <2>7. Landing(w, p, k, cost) = If(Liquid(w, to), m) BY <1>5, <2>1, <2>2, <2>3 DEF Landing
  <2> QED BY <2>6, <2>7, IfSound
<1> QED BY <1>3, <1>4, <1>5

-----------------------------------------------------------------------------
(* The moves, one by one.                                                  *)

Ahead == {<<-1, 0>>, <<1, 0>>, <<0, -1>>, <<0, 1>>}
Across == {<<-1, -1>>, <<-1, 1>>, <<1, -1>>, <<1, 1>>}

\* What the moves need to know of a world.
Configured(w) == w.config.max_drop_down \in Int

\* Falls are looked into to some depth.
LEMMA MostIs ==
  ASSUME NEW w, Configured(w)
  PROVE  MaxDrop(w) \in Int /\ w.config.max_drop_down + 1 \in Int
BY FreeFallAssumption DEF Configured, MaxDrop

\* A step ahead.
LEMMA ForwardSound ==
  ASSUME NEW w, NEW p \in Cells, NEW d \in Ahead
  PROVE  AllSound(w, p, MoveForward(w, p, d))
<1>1. PICK to : to = Beside(p, d) OBVIOUS
<1>2. to \in Cells BY <1>1, Aside DEF Ahead
<1>3. PICK cells : cells = <<to, Up(to, 1)>> OBVIOUS
<1>4. PICK cost : cost = IF Liquid(w, Up(to, -1)) THEN w.config.liquid_cost ELSE One OBVIOUS
<1>5. PICK c : c = ((Physical(w, Up(to, -1)) \/ Liquid(w, Up(to, -1))) /\ Enterable(w, cells)) OBVIOUS
<1>6. MoveForward(w, p, d) = If(c, Digging(w, to, cost, cells)) BY <1>1, <1>3, <1>4, <1>5 DEF MoveForward
<1>7. cells \in Seq({to, Up(to, 1)}) /\ Range(cells) = {to, Up(to, 1)}
  <2>1. cells \in Seq({to, Up(to, 1)}) /\ DOMAIN cells = {1, 2} /\ cells[1] = to /\ cells[2] = Up(to, 1) BY <1>3
  <2> QED BY <2>1 DEF Range
<1>8. Up(to, -1) \notin Range(cells)
  <2>1. Up(to, 0) = to /\ Up(to, -1) # Up(to, 0) /\ Up(to, -1) # Up(to, 1) BY <1>2, Heights
  <2> QED BY <1>7, <2>1
<1>9. Range(cells) \subseteq Cells BY <1>2, <1>7, Heights
<1>10. c => Sound(w, p, Digging(w, to, cost, cells)) BY <1>5, <1>7, <1>8, <1>9, DigSound
<1> QED BY <1>6, <1>10, IfSound

\* A jump up a block.
LEMMA JumpUpSound ==
  ASSUME NEW w, NEW p \in Cells, NEW d \in Ahead
  PROVE  AllSound(w, p, MoveJumpUp(w, p, d))
<1>1. PICK block : block = Beside(p, d) OBVIOUS
<1>2. d \in Int \X Int /\ d # <<0, 0>> BY DEF Ahead
<1>3. block \in Cells BY <1>1, <1>2, Aside
<1>4. PICK to : to = Up(block, 1) OBVIOUS
<1>5. Up(to, -1) = block /\ Up(to, 1) = Up(block, 2) /\ to \in Cells
  <2>1. /\ Up(to, -1) = Up(block, 1 + (-1)) /\ Up(to, 1) = Up(block, 1 + 1) /\ to \in Cells
        /\ Up(block, 0) = block
    BY <1>3, <1>4, Heights
  <2>2. 1 + (-1) = 0 /\ 1 + 1 = 2 OBVIOUS
  <2> QED BY <2>1, <2>2
<1>6. PICK cells : cells = <<Up(p, 2), to, Up(block, 2)>> OBVIOUS
<1>7. PICK c : c = ((Physical(w, block) \/ Liquid(w, block)) /\ Enterable(w, cells)) OBVIOUS
<1>8. MoveJumpUp(w, p, d) = If(c, Digging(w, to, 2 * One, cells)) BY <1>1, <1>4, <1>6, <1>7 DEF MoveJumpUp
<1>9. cells \in Seq({Up(p, 2), to, Up(block, 2)}) /\ Range(cells) = {Up(p, 2), to, Up(block, 2)}
  <2>1. /\ cells \in Seq({Up(p, 2), to, Up(block, 2)}) /\ DOMAIN cells = {1, 2, 3}
        /\ cells[1] = Up(p, 2) /\ cells[2] = to /\ cells[3] = Up(block, 2)
    BY <1>6
  <2> QED BY <2>1 DEF Range
<1>10. Up(to, -1) \notin Range(cells)
  <2>1. Up(block, 0) = block /\ Up(block, 0) # Up(block, 1) /\ Up(block, 0) # Up(block, 2) BY <1>3, Heights
  <2>2. Up(p, 2) # Up(block, 0) BY <1>1, <1>2, Aside
  <2> QED BY <1>4, <1>5, <1>9, <2>1, <2>2
<1>11. c => Sound(w, p, Digging(w, to, 2 * One, cells))
  <2>1. to \in Range(cells) /\ Up(to, 1) \in Range(cells) BY <1>5, <1>9
  <2>2. Range(cells) \subseteq Cells
    <3>1. Up(p, 2) \in Cells /\ Up(block, 2) \in Cells BY <1>3, Heights
    <3> QED BY <1>5, <1>9, <3>1
  <2> QED BY <1>5, <1>7, <1>9, <1>10, <2>1, <2>2, DigSound
<1> QED BY <1>8, <1>11, IfSound

\* A step down.
LEMMA DropDownSound ==
  ASSUME NEW w, Configured(w), NEW p \in Cells, NEW d \in Ahead
  PROVE  AllSound(w, p, MoveDropDown(w, p, d))
<1>1. PICK n : n = Beside(p, d) OBVIOUS
<1>2. n \in Cells BY <1>1, Aside DEF Ahead
<1>3. PICK k : k = Depth(w, n, 2, MaxDrop(w)) OBVIOUS
<1>4. \/ MoveDropDown(w, p, d) = <<>>
      \/ /\ MoveDropDown(w, p, d) = Landing(w, n, k, One)
         /\ Safe(w, n) /\ ~Physical(w, Up(n, -1)) /\ ~Lava(w, Up(n, -k))
  BY <1>1, <1>3 DEF MoveDropDown
<1>5. Safe(w, n) /\ ~Physical(w, Up(n, -1)) /\ ~Lava(w, Up(n, -k)) => AllSound(w, p, Landing(w, n, k, One))
  <2>1. PICK most \in Int : most = MaxDrop(w) BY MostIs
  <2>2. d \in Steps BY DEF Steps, Ahead
  <2>3. k = Depth(w, n, 2, most) BY <1>3, <2>1
  <2> QED BY <1>1, <2>2, <2>3, FallSound
<1> QED BY <1>4, <1>5, NoneSound

\* A step across.
LEMMA DiagonalSound ==
  ASSUME NEW w, Configured(w), NEW p \in Cells, NEW d \in Across
  PROVE  AllSound(w, p, MoveDiagonal(w, p, d))
<1>1. PICK n : n = Beside(p, d) OBVIOUS
<1>2. n \in Cells BY <1>1, Aside DEF Across
<1>3. CASE Physical(w, Up(n, -1))
  <2>1. PICK c : c = (Safe(w, n) /\ Safe(w, Up(n, 1))
                       /\ ((Safe(w, Beside(p, <<0, d[2]>>)) /\ Safe(w, Up(Beside(p, <<0, d[2]>>), 1)))
                            \/ (Safe(w, Beside(p, <<d[1], 0>>)) /\ Safe(w, Up(Beside(p, <<d[1], 0>>), 1))))) OBVIOUS
  <2>2. MoveDiagonal(w, p, d) = If(c, Walking(n, Sqrt2)) BY <1>1, <1>3, <2>1 DEF MoveDiagonal
  <2>3. c => Sound(w, p, Walking(n, Sqrt2)) BY <1>3, <2>1, StepSound DEF Supported
  <2> QED BY <2>2, <2>3, IfSound
<1>4. CASE ~Physical(w, Up(n, -1))
  <2>1. PICK c : c = (Physical(w, n) /\ Safe(w, Up(n, 1)) /\ Safe(w, Up(n, 2)) /\ Safe(w, Up(p, 2))) OBVIOUS
  <2>2. PICK k : k = Depth(w, n, 2, w.config.max_drop_down + 1) OBVIOUS
  <2>3. PICK fall : fall = IF Safe(w, n) THEN Landing(w, n, k, Sqrt2) ELSE <<>> OBVIOUS
  <2>4. MoveDiagonal(w, p, d) = If(c, Walking(Up(n, 1), Sqrt2 + One)) \o fall
    BY <1>1, <1>4, <2>1, <2>2, <2>3 DEF MoveDiagonal
  <2>5. AllSound(w, p, fall)
    <3>1. d \in Steps /\ d \in {<<-1, -1>>, <<-1, 1>>, <<1, -1>>, <<1, 1>>} BY DEF Steps, Across
    <3>2. PICK most \in Int : most = w.config.max_drop_down + 1 BY MostIs
    <3>3. k = Depth(w, n, 2, most) BY <2>2, <3>2
    <3>4. Safe(w, n) => AllSound(w, p, Landing(w, n, k, Sqrt2)) BY <1>1, <1>4, <3>1, <3>3, FallSound
    <3> QED BY <2>3, <3>4, NoneSound
  <2>6. Up(Up(n, 1), -1) = n /\ Up(Up(n, 1), 1) = Up(n, 2)
    <3>1. Up(Up(n, 1), -1) = Up(n, 1 + (-1)) /\ Up(Up(n, 1), 1) = Up(n, 1 + 1) /\ Up(n, 0) = n BY <1>2, Heights
    <3>2. 1 + (-1) = 0 /\ 1 + 1 = 2 OBVIOUS
    <3> QED BY <3>1, <3>2
  <2>7. c => Sound(w, p, Walking(Up(n, 1), Sqrt2 + One)) BY <2>1, <2>6, StepSound DEF Supported
  <2>8. AllSound(w, p, If(c, Walking(Up(n, 1), Sqrt2 + One))) BY <2>7, IfSound
  <2> QED BY <2>4, <2>5, <2>8, BothSound
<1> QED BY <1>3, <1>4

\* Where a jump over a gap may end.
LEMMA ParkourLandingsSound ==
  ASSUME NEW w, NEW p \in Cells, NEW d \in Ahead, NEW n \in 2 .. 4
  PROVE  AllSound(w, p, ParkourLandings(w, p, d, n))
<1>1. PICK to : to = Beside(p, Times(d, n)) OBVIOUS
<1>2. Times(d, n) \in Int \X Int BY DEF Times, Ahead
<1>3. to \in Cells BY <1>1, <1>2, Aside
<1>4. /\ Up(Up(to, 1), -1) = to /\ Up(Up(to, 1), 1) = Up(to, 2)
      /\ Up(Up(to, -1), -1) = Up(to, -2) /\ Up(Up(to, -1), 1) = to
  <2>1. /\ Up(Up(to, 1), -1) = Up(to, 1 + (-1)) /\ Up(Up(to, 1), 1) = Up(to, 1 + 1)
        /\ Up(Up(to, -1), -1) = Up(to, (-1) + (-1)) /\ Up(Up(to, -1), 1) = Up(to, (-1) + 1) /\ Up(to, 0) = to
    BY <1>3, Heights
  <2>2. 1 + (-1) = 0 /\ 1 + 1 = 2 /\ (-1) + (-1) = -2 /\ (-1) + 1 = 0 OBVIOUS
  <2> QED BY <2>1, <2>2
<1>5. PICK a : a = (Physical(w, Up(to, -1)) /\ Safe(w, to) /\ Safe(w, Up(to, 1))) OBVIOUS
<1>6. PICK b : b = (n <= 2 /\ Physical(w, to) /\ Safe(w, Up(to, 1)) /\ Safe(w, Up(to, 2))) OBVIOUS
<1>7. PICK c : c = (Physical(w, Up(to, -2)) /\ Safe(w, Up(to, -1)) /\ Safe(w, to)) OBVIOUS
<1>8. ParkourLandings(w, p, d, n) =
        (If(a, Walking(to, (n + 1) * One)) \o If(b, Walking(Up(to, 1), (n + 2) * One)))
        \o If(c, Walking(Up(to, -1), n * One + Half))
  BY <1>1, <1>5, <1>6, <1>7 DEF ParkourLandings
<1>9. a => Sound(w, p, Walking(to, (n + 1) * One)) BY <1>5, StepSound DEF Supported
<1>10. b => Sound(w, p, Walking(Up(to, 1), (n + 2) * One)) BY <1>4, <1>6, StepSound DEF Supported
<1>11. c => Sound(w, p, Walking(Up(to, -1), n * One + Half)) BY <1>4, <1>7, StepSound DEF Supported
<1>12. /\ AllSound(w, p, If(a, Walking(to, (n + 1) * One)))
       /\ AllSound(w, p, If(b, Walking(Up(to, 1), (n + 2) * One)))
       /\ AllSound(w, p, If(c, Walking(Up(to, -1), n * One + Half)))
  BY <1>9, <1>10, <1>11, IfSound
<1> QED BY <1>8, <1>12, BothSound

\* Jumps over gaps of two to four.
LEMMA ParkourSound ==
  ASSUME NEW w, NEW p \in Cells, NEW d \in Ahead
  PROVE  AllSound(w, p, MoveParkour(w, p, d))
<1> DEFINE clear(n) == \A m \in 1 .. n - 1 : Safe(w, Up(Beside(p, Times(d, m)), 2))
           jump(n) == IF clear(n) THEN ParkourLandings(w, p, d, n) ELSE <<>>
           far == IF w.config.allow_sprinting THEN jump(3) \o jump(4) ELSE <<>>
<1>1. \A n \in 2 .. 4 : AllSound(w, p, jump(n)) BY ParkourLandingsSound, NoneSound
<1>2. MoveParkour(w, p, d) = <<>> \/ MoveParkour(w, p, d) = jump(2) \o far BY DEF MoveParkour
<1> HIDE DEF jump
<1>3. AllSound(w, p, jump(2)) /\ AllSound(w, p, jump(3)) /\ AllSound(w, p, jump(4)) BY <1>1
<1>4. AllSound(w, p, far) BY <1>3, BothSound, NoneSound
<1> HIDE DEF far
<1> QED BY <1>2, <1>3, <1>4, BothSound, NoneSound

\* Up a tower, down, and up through water.
LEMMA VerticalSound ==
  ASSUME NEW w, Configured(w), NEW p \in Cells
  PROVE  AllSound(w, p, MoveUp(w, p)) /\ AllSound(w, p, MoveDown(w, p)) /\ AllSound(w, p, MoveSwimUp(w, p))
<1>0. Up(p, 1) \in Cells /\ Up(Up(p, 1), -1) = p /\ Up(Up(p, 1), 1) = Up(p, 2)
  <2>1. /\ Up(p, 1) \in Cells /\ Up(Up(p, 1), -1) = Up(p, 1 + (-1)) /\ Up(Up(p, 1), 1) = Up(p, 1 + 1)
        /\ Up(p, 0) = p
    BY Heights
  <2>2. 1 + (-1) = 0 /\ 1 + 1 = 2 OBVIOUS
  <2> QED BY <2>1, <2>2
<1>1. AllSound(w, p, MoveUp(w, p))
  <2>1. PICK c : c = (w.config.allow_towers /\ w.config.scaffolding
                       /\ Safe(w, Up(p, 2)) /\ (Safe(w, p) \/ Replaceable(w, p))) OBVIOUS
  <2>2. PICK m : m = [to |-> Up(p, 1), cost |-> One + w.config.place_cost, break |-> <<>>, place |-> <<p>>] OBVIOUS
  <2>3. MoveUp(w, p) = If(c, m) BY <2>1, <2>2 DEF MoveUp
  <2>4. c => Sound(w, p, m)
    <3>1. m.to = Up(p, 1) /\ m.break = <<>> /\ m.place = <<p>> BY <2>2
    <3>2. Range(<<>>) = {} BY DEF Range
    <3>3. c => Loaded(w, p) /\ Safe(w, Up(p, 2)) BY <2>1, Kinds
    <3> QED BY <3>1, <3>2, <3>3 DEF Sound
  <2> QED BY <2>3, <2>4, IfSound
<1>2. AllSound(w, p, MoveDown(w, p))
  <2>1. PICK most \in Int : most = MaxDrop(w) BY MostIs
  <2>2. PICK k : k = Depth(w, p, 1, most) OBVIOUS
  <2>3. \/ MoveDown(w, p) = <<>>
        \/ MoveDown(w, p) = Landing(w, p, k, One) /\ ~Physical(w, Up(p, -1)) /\ ~Lava(w, Up(p, -k))
    BY <2>1, <2>2 DEF MoveDown
  <2>4. ~Physical(w, Up(p, -1)) /\ ~Lava(w, Up(p, -k)) => AllSound(w, p, Landing(w, p, k, One)) BY <2>2, SinkSound
  <2> QED BY <2>3, <2>4, NoneSound
<1>3. AllSound(w, p, MoveSwimUp(w, p))
  <2>1. PICK c : c = (Liquid(w, p) /\ ~Lava(w, p) /\ Open(w, Up(p, 1)) /\ ~Lava(w, Up(p, 1))) OBVIOUS
  <2>2. PICK m : m = Walking(Up(p, 1), One) OBVIOUS
  <2>3. MoveSwimUp(w, p) = If(c, m) BY <2>1, <2>2 DEF MoveSwimUp
  <2>4. c => Sound(w, p, m)
    <3>1. m.to = Up(p, 1) /\ m.place = <<>> BY <2>2 DEF Walking
    <3>2. \A x \in {Up(p, 1), Up(Up(p, 1), 1)} : x \in Overlooked(w, p, m) BY <1>0, <3>1, OverlookedAre
    <3>3. c => Held(w, p, Up(p, 1)) BY <1>0, <2>1 DEF Held, Supported, Water
    <3> QED BY <2>2, <3>2, <3>3, WalkSound
  <2> QED BY <2>3, <2>4, IfSound
<1> QED BY <1>1, <1>2, <1>3

\* All moves from a place.
LEMMA NeighborsSound ==
  ASSUME NEW w, Configured(w), NEW p \in Cells
  PROVE  AllSound(w, p, Neighbors(w, p))
<1> DEFINE ahead(d) == ((MoveForward(w, p, d) \o MoveJumpUp(w, p, d)) \o MoveDropDown(w, p, d)) \o MoveParkour(w, p, d)
<1>1. ASSUME NEW d \in Ahead PROVE AllSound(w, p, ahead(d))
  <2>1. AllSound(w, p, MoveForward(w, p, d) \o MoveJumpUp(w, p, d)) BY ForwardSound, JumpUpSound, BothSound
  <2>2. AllSound(w, p, (MoveForward(w, p, d) \o MoveJumpUp(w, p, d)) \o MoveDropDown(w, p, d))
    BY <2>1, DropDownSound, BothSound
  <2> QED BY <2>2, ParkourSound, BothSound
<1> DEFINE side(d) == MoveDiagonal(w, p, d)
<1>2. \A d \in Across : AllSound(w, p, side(d)) BY DiagonalSound
<1>3. Neighbors(w, p) =
        (((((((((ahead(<<-1, 0>>) \o ahead(<<1, 0>>)) \o ahead(<<0, -1>>)) \o ahead(<<0, 1>>))
         \o side(<<-1, -1>>)) \o side(<<-1, 1>>)) \o side(<<1, -1>>)) \o side(<<1, 1>>))
         \o MoveUp(w, p)) \o MoveDown(w, p)) \o MoveSwimUp(w, p)
  BY DEF Neighbors
<1> HIDE DEF ahead, side
<1>4. /\ AllSound(w, p, ahead(<<-1, 0>>)) /\ AllSound(w, p, ahead(<<1, 0>>))
      /\ AllSound(w, p, ahead(<<0, -1>>)) /\ AllSound(w, p, ahead(<<0, 1>>))
  BY <1>1 DEF Ahead
<1>5. /\ AllSound(w, p, side(<<-1, -1>>)) /\ AllSound(w, p, side(<<-1, 1>>))
      /\ AllSound(w, p, side(<<1, -1>>)) /\ AllSound(w, p, side(<<1, 1>>))
  BY <1>2 DEF Across
<1>6. PICK a : a = ((ahead(<<-1, 0>>) \o ahead(<<1, 0>>)) \o ahead(<<0, -1>>)) \o ahead(<<0, 1>>) OBVIOUS
<1>7. AllSound(w, p, a)
  <2>1. AllSound(w, p, ahead(<<-1, 0>>) \o ahead(<<1, 0>>)) BY <1>4, BothSound
  <2>2. AllSound(w, p, (ahead(<<-1, 0>>) \o ahead(<<1, 0>>)) \o ahead(<<0, -1>>)) BY <1>4, <2>1, BothSound
  <2> QED BY <1>4, <1>6, <2>2, BothSound
<1>8. PICK b : b = (((a \o side(<<-1, -1>>)) \o side(<<-1, 1>>)) \o side(<<1, -1>>)) \o side(<<1, 1>>) OBVIOUS
<1>9. AllSound(w, p, b)
  <2>1. AllSound(w, p, a \o side(<<-1, -1>>)) BY <1>5, <1>7, BothSound
  <2>2. AllSound(w, p, (a \o side(<<-1, -1>>)) \o side(<<-1, 1>>)) BY <1>5, <2>1, BothSound
  <2>3. AllSound(w, p, ((a \o side(<<-1, -1>>)) \o side(<<-1, 1>>)) \o side(<<1, -1>>)) BY <1>5, <2>2, BothSound
  <2> QED BY <1>5, <1>8, <2>3, BothSound
<1>10. Neighbors(w, p) = ((b \o MoveUp(w, p)) \o MoveDown(w, p)) \o MoveSwimUp(w, p)
  BY <1>3, <1>6, <1>8
<1>11. AllSound(w, p, b \o MoveUp(w, p)) BY <1>9, VerticalSound, BothSound
<1>12. AllSound(w, p, (b \o MoveUp(w, p)) \o MoveDown(w, p)) BY <1>11, VerticalSound, BothSound
<1> QED BY <1>10, <1>12, VerticalSound, BothSound

-----------------------------------------------------------------------------
(* The path, and the worlds that walking it makes.                         *)

\* A path of n moves, and the places they leave: none of them leads back to
\* a place that was left.
Walk(n, from) ==
  /\ Len(Path) = n /\ DOMAIN Path = 1 .. n
  /\ \A k \in 1 .. n :
       /\ from[k] \in Place /\ Path[k].to \in Place /\ from[k] = From(k)
       /\ Path[k] \in Range(map.moves[from[k]])
  /\ \A j, k \in 1 .. n : j <= k => from[j] # Path[k].to

\* What compute returns is such a path.
LEMMA PathWalks ==
  ASSUME AInv, status # Computing
  PROVE  \E n \in Nat : \E from : Walk(n, from)
<1>1. PICK i : i = status.node OBVIOUS
<1>2. i \in 1 .. Len(nodes)
  <2>1. CASE \E kind \in {"no_path", "partial", "timeout"} : status = Returned(kind, best)
    <3>1. i = best BY <1>1, <2>1 DEF Returned
    <3> QED BY <3>1 DEF AInv, Tree, Closest
  <2>2. CASE \E j \in 1 .. Len(nodes) : status = Returned("success", j)
    BY <1>1, <2>2 DEF Returned
  <2> QED BY <2>1, <2>2 DEF AInv, StatusOK
<1>3. PICK to : ArePaths(nodes, to) BY DEF AInv, Tree, Paths
<1>4. PICK path : path = to[i] OBVIOUS
<1>5. Reconstruct(status.node) = path /\ Leads(path, i) BY <1>1, <1>2, <1>3, <1>4, ReconstructIs, PathLeads
<1>6. \A j, k \in 1 .. Len(path) : path[j] = path[k] => j = k BY <1>2, <1>3, <1>4, <1>5, PathApart
<1>7. PICK n \in Nat : Len(path) = n + 1
  <2>1. PICK l \in Nat : l = Len(path) /\ l >= 1 BY <1>5 DEF Leads
  <2>2. l - 1 \in Nat /\ l = (l - 1) + 1 BY <2>1
  <2> QED BY <2>1, <2>2
<1>8. Path = [k \in 1 .. n |-> nodes[path[k + 1]].data]
  <2>1. Len(path) - 1 = n BY <1>7
  <2> QED BY <1>5, <2>1 DEF Path
<1>9. DOMAIN Path = 1 .. n /\ Len(Path) = n /\ \A k \in 1 .. n : Path[k] = nodes[path[k + 1]].data
  BY <1>7, <1>8
<1>10. PICK from : from = [k \in 1 .. n |-> PlaceOf(nodes[path[k]])] OBVIOUS
<1>11. \A k \in 1 .. n + 1 : path[k] \in 1 .. Len(nodes) BY <1>5, <1>7 DEF Leads
<1>12. ASSUME NEW k \in 1 .. n
       PROVE  /\ from[k] \in Place /\ Path[k].to \in Place /\ Path[k] \in Range(map.moves[from[k]])
              /\ from[k] = PlaceOf(nodes[path[k]]) /\ Path[k].to = PlaceOf(nodes[path[k + 1]])
  <2>1. k \in 1 .. n + 1 /\ k + 1 \in 1 .. n + 1 /\ k \in 1 .. (n + 1) - 1 BY <1>7
  <2>2. PICK a \in 1 .. Len(nodes) : a = path[k] BY <1>11, <2>1
  <2>3. PICK b \in 1 .. Len(nodes) : b = path[k + 1] BY <1>11, <2>1
  <2>4. nodes[b].parent = a /\ a # None BY <1>5, <1>7, <2>1, <2>2, <2>3 DEF Leads
  <2>5. nodes[b].data \in Range(map.moves[PlaceOf(nodes[a])]) BY <2>4, Parents
  <2>6. from[k] = PlaceOf(nodes[a]) /\ Path[k] = nodes[b].data BY <1>9, <1>10, <2>2, <2>3
  <2>7. PlaceOf(nodes[a]) \in Place /\ PlaceOf(nodes[b]) \in Place BY NodeFacts
  <2>8. Path[k].to = PlaceOf(nodes[b]) BY <2>6 DEF PlaceOf
  <2> QED BY <2>2, <2>3, <2>5, <2>6, <2>7, <2>8
<1>13. ASSUME NEW j \in 1 .. n, NEW k \in 1 .. n, j <= k PROVE from[j] # Path[k].to
  <2>1. j \in 1 .. n + 1 /\ k + 1 \in 1 .. n + 1 /\ j # k + 1 BY <1>7, <1>13
  <2>2. path[j] # path[k + 1] BY <1>6, <1>7, <2>1
  <2>3. path[j] \in 1 .. Len(nodes) /\ path[k + 1] \in 1 .. Len(nodes) BY <1>11, <2>1
  <2>4. PlaceOf(nodes[path[j]]) # PlaceOf(nodes[path[k + 1]]) BY <2>2, <2>3, NodeFacts
  <2> QED BY <1>12, <2>4
<1>14. ASSUME NEW k \in 1 .. n PROVE from[k] = From(k)
  <2>1. CASE k = 1
    <3>1. 1 \in 1 .. n + 1 OBVIOUS
    <3>2. path[1] \in 1 .. Len(nodes) /\ nodes[path[1]].parent = None BY <1>5, <1>11, <3>1 DEF Leads
    <3>3. nodes[path[1]].data = Start BY <3>2 DEF AInv, Tree, Family
    <3>4. from[1] = map.start BY <1>12, <2>1, <3>3 DEF PlaceOf, Start
    <3> QED BY <2>1, <3>4 DEF From
  <2>2. CASE k # 1
    <3>1. PICK l \in 1 .. n : l = k - 1 /\ l + 1 = k BY <2>2
    <3>2. Path[l].to = from[k] BY <1>12, <3>1
    <3> QED BY <2>2, <3>1, <3>2 DEF From
  <2> QED BY <2>1, <2>2
<1>15. Walk(n, from) BY <1>9, <1>12, <1>13, <1>14 DEF Walk
<1> QED BY <1>15

\* The worlds after the first moves.
AreAfter(f, w, moves, n) ==
  f = [j \in 0 .. n |-> IF j = 0 THEN w ELSE After(f[j - 1], moves[j])]

\* There are such worlds, however many.
LEMMA AfterExists ==
  ASSUME NEW w, NEW moves, NEW m \in Nat
  PROVE  \E f : AreAfter(f, w, moves, m)
<1> DEFINE T == {n \in Nat : ~\E f : AreAfter(f, w, moves, n)}
<1> SUFFICES ASSUME T # {} PROVE FALSE OBVIOUS
<1>1. PICK n \in T : \A y \in T : n <= y
  <2>1. T \subseteq Nat OBVIOUS
  <2> HIDE DEF T
  <2> QED BY <2>1, LeastNatural
<1>2. n # 0
  <2>1. AreAfter([k \in 0 .. 0 |-> w], w, moves, 0) BY DEF AreAfter
  <2> QED BY <2>1
<1>3. n \in Nat /\ n - 1 \in Nat /\ n - 1 \notin T BY <1>1, <1>2
<1>4. PICK g : AreAfter(g, w, moves, n - 1) BY <1>3
<1> DEFINE h == [k \in 0 .. n |-> IF k = 0 THEN w ELSE After(g[k - 1], moves[k])]
<1>5. \A k \in 0 .. n - 1 : h[k] = g[k]
  BY <1>3, <1>4 DEF AreAfter
<1>6. AreAfter(h, w, moves, n)
  <2>1. \A k \in 0 .. n : h[k] = IF k = 0 THEN w ELSE After(h[k - 1], moves[k])
    <3> TAKE k \in 0 .. n
    <3>1. CASE k = 0 BY <3>1
    <3>2. CASE k # 0
      <4>1. k - 1 \in 0 .. n - 1 BY <3>2
      <4>2. h[k - 1] = g[k - 1] BY <1>5, <4>1
      <4>3. h[k] = After(g[k - 1], moves[k]) BY <3>2
      <4> QED BY <3>2, <4>2, <4>3
    <3> QED BY <3>1, <3>2
  <2>2. h = [k \in 0 .. n |-> h[k]] OBVIOUS
  <2> HIDE DEF h
  <2> QED BY <2>1, <2>2 DEF AreAfter
<1> QED BY <1>6

\* WorldAfter is each of them.
LEMMA WorldAfterIs ==
  ASSUME NEW n \in Nat, n = Len(Path)
  PROVE  /\ WorldAfter(0) = map.world
         /\ \A k \in 1 .. n : WorldAfter(k) = After(WorldAfter(k - 1), Path[k])
<1>0. PICK path : path = Path OBVIOUS
<1> DEFINE f == CHOOSE g : g = [j \in 0 .. Len(path) |-> IF j = 0 THEN map.world ELSE After(g[j - 1], path[j])]
<1>1. \A k : WorldAfter(k) = f[k] BY <1>0 DEF WorldAfter
<1>2. AreAfter(f, map.world, path, n)
  <2>1. PICK g : AreAfter(g, map.world, path, n) BY AfterExists
  <2>2. g = [j \in 0 .. Len(path) |-> IF j = 0 THEN map.world ELSE After(g[j - 1], path[j])]
    BY <1>0, <2>1 DEF AreAfter
  <2>3. f = [j \in 0 .. Len(path) |-> IF j = 0 THEN map.world ELSE After(f[j - 1], path[j])]
    BY <2>2
  <2> HIDE DEF f
  <2> QED BY <1>0, <2>3 DEF AreAfter
<1> HIDE DEF f
<1>3. \A k \in 0 .. n : f[k] = IF k = 0 THEN map.world ELSE After(f[k - 1], path[k]) BY <1>2 DEF AreAfter
<1>4. 0 \in 0 .. n /\ \A k \in 1 .. n : k \in 0 .. n /\ k # 0 OBVIOUS
<1> QED BY <1>0, <1>1, <1>3, <1>4

\* A world as the assumption has it.
IsWorld(w) == w = [config |-> w.config, block |-> w.block]

\* What a move does to a cell.
LEMMA AfterIs ==
  ASSUME NEW w, IsWorld(w), NEW move, NEW v, v = After(w, move)
  PROVE  /\ IsWorld(v) /\ v.config = w.config
         /\ \A q \in Cells :
              /\ Loaded(v, q) <=> Loaded(w, q)
              /\ Loaded(w, q) =>
                   Query(v, q) = IF q \in Range(move.place) THEN "dirt"
                                 ELSE IF q \in Range(move.break) THEN "air" ELSE Query(w, q)
<1>1. PICK P : P = Range(move.place) OBVIOUS
<1>2. PICK B : B = Range(move.break) OBVIOUS
<1>3. PICK block : block = w.block OBVIOUS
<1>4. PICK changed : changed = [c \in DOMAIN block |-> [y \in DOMAIN block[c] |->
                IF <<c[1], y, c[2]>> \in P THEN "dirt" ELSE IF <<c[1], y, c[2]>> \in B THEN "air" ELSE block[c][y]]]
  OBVIOUS
<1>5. v = [w EXCEPT !.block = changed] BY <1>1, <1>2, <1>3, <1>4 DEF After
<1>6. v = [config |-> w.config, block |-> changed]
  <2>1. PICK c : c = w.config OBVIOUS
  <2>2. w = [config |-> c, block |-> block] BY <1>3, <2>1 DEF IsWorld
  <2> QED BY <1>5, <2>1, <2>2
<1>7. v.config = w.config /\ v.block = changed BY <1>6
<1>8. IsWorld(v) BY <1>6, <1>7 DEF IsWorld
<1>9. ASSUME NEW q \in Cells
      PROVE  /\ Loaded(v, q) <=> Loaded(w, q)
             /\ Loaded(w, q) =>
                  Query(v, q) = IF q \in P THEN "dirt" ELSE IF q \in B THEN "air" ELSE Query(w, q)
  <2>1. PICK c : c = <<q[1], q[3]>> OBVIOUS
  <2>2. c[1] = q[1] /\ c[2] = q[3] BY <2>1
  <2>3. <<c[1], q[2], c[2]>> = q BY <2>2 DEF Cells
  <2>4. Loaded(w, q) <=> c \in DOMAIN block /\ q[2] \in DOMAIN block[c] BY <1>3, <2>1 DEF Loaded
  <2>5. Loaded(v, q) <=> c \in DOMAIN changed /\ q[2] \in DOMAIN changed[c] BY <1>7, <2>1 DEF Loaded
  <2>6. DOMAIN changed = DOMAIN block /\ (c \in DOMAIN block => DOMAIN changed[c] = DOMAIN block[c]) BY <1>4
  <2>7. Loaded(w, q) => changed[c][q[2]] = IF q \in P THEN "dirt" ELSE IF q \in B THEN "air" ELSE block[c][q[2]]
    <3> SUFFICES ASSUME Loaded(w, q)
                 PROVE  changed[c][q[2]] = IF q \in P THEN "dirt" ELSE IF q \in B THEN "air" ELSE block[c][q[2]]
      OBVIOUS
    <3>1. c \in DOMAIN block /\ q[2] \in DOMAIN block[c] BY <2>4
    <3>2. changed[c] = [y \in DOMAIN block[c] |->
                IF <<c[1], y, c[2]>> \in P THEN "dirt" ELSE IF <<c[1], y, c[2]>> \in B THEN "air" ELSE block[c][y]]
      BY <1>4, <3>1
    <3>3. changed[c][q[2]] = IF <<c[1], q[2], c[2]>> \in P THEN "dirt"
                             ELSE IF <<c[1], q[2], c[2]>> \in B THEN "air" ELSE block[c][q[2]]
      BY <3>1, <3>2
    <3> QED BY <2>3, <3>3
  <2>8. Loaded(w, q) => Query(w, q) = block[c][q[2]] BY <1>3, <2>1 DEF Query
  <2>9. Loaded(v, q) => Query(v, q) = changed[c][q[2]] BY <1>7, <2>1 DEF Query
  <2> QED BY <2>4, <2>5, <2>6, <2>7, <2>8, <2>9
<1> QED BY <1>1, <1>2, <1>7, <1>8, <1>9

\* What the first k moves break and place.
Broken(k, q) == \E j \in 1 .. k : q \in Range(Path[j].break)
Built(k, q) == \E j \in 1 .. k : q \in Range(Path[j].place)

\* After them a cell is as it was, or was broken or built on.
Kept(k, q) == Query(WorldAfter(k), q) = Query(map.world, q)
Walked(k, q) ==
  /\ Loaded(WorldAfter(k), q) <=> Loaded(map.world, q)
  /\ \/ Kept(k, q) /\ (Loaded(map.world, q) => ~Broken(k, q) /\ ~Built(k, q))
     \/ Query(WorldAfter(k), q) = "dirt" /\ Built(k, q)
     \/ Query(WorldAfter(k), q) = "air" /\ Broken(k, q)

\* So it is with every cell after every move of the path.
LEMMA WalkedSo ==
  ASSUME NEW n \in Nat, NEW from, Walk(n, from), IsWorld(map.world)
  PROVE  \A k \in 0 .. n : /\ IsWorld(WorldAfter(k)) /\ WorldAfter(k).config = map.world.config
                           /\ \A q \in Cells : Walked(k, q)
<1>1. n = Len(Path) BY DEF Walk
<1>2. /\ WorldAfter(0) = map.world
      /\ \A k \in 1 .. n : WorldAfter(k) = After(WorldAfter(k - 1), Path[k])
  BY <1>1, WorldAfterIs
<1> DEFINE Good(k) == /\ IsWorld(WorldAfter(k)) /\ WorldAfter(k).config = map.world.config
                      /\ \A q \in Cells : Walked(k, q)
           T == {k \in Nat : k <= n /\ ~Good(k)}
<1> SUFFICES ASSUME T # {} PROVE FALSE OBVIOUS
<1>3. \A k : k \in T <=> k \in Nat /\ k <= n /\ ~Good(k) OBVIOUS
<1>4. PICK k \in T : \A y \in T : k <= y
  <2>1. T \subseteq Nat OBVIOUS
  <2> HIDE DEF T
  <2> QED BY <2>1, LeastNatural
<1>5. k \in Nat /\ k <= n /\ ~Good(k) BY <1>3
<1> HIDE DEF T
<1>6. k # 0
  <2>1. 1 .. 0 = {} OBVIOUS
  <2>2. \A q : Walked(0, q) BY <1>2, <2>1 DEF Walked, Kept, Broken, Built
  <2>3. Good(0) BY <1>2, <2>2
  <2> HIDE DEF Good
  <2> QED BY <1>5, <2>3
<1>7. PICK l \in Nat : l = k - 1 /\ l <= n /\ ~(k <= l) /\ k \in 1 .. n BY <1>5, <1>6
<1>8. Good(l)
  <2> HIDE DEF Good
  <2> QED BY <1>3, <1>4, <1>7
<1>9. PICK w : w = WorldAfter(l) OBVIOUS
<1>10. PICK v : v = WorldAfter(k) OBVIOUS
<1>11. PICK move : move = Path[k] OBVIOUS
<1>12. v = After(w, move) BY <1>2, <1>7, <1>9, <1>10, <1>11
<1>13. /\ IsWorld(v) /\ v.config = w.config
       /\ \A q \in Cells :
            /\ Loaded(v, q) <=> Loaded(w, q)
            /\ Loaded(w, q) =>
                 Query(v, q) = IF q \in Range(move.place) THEN "dirt"
                               ELSE IF q \in Range(move.break) THEN "air" ELSE Query(w, q)
  BY <1>8, <1>9, <1>12, AfterIs
<1>14. \A j : j \in 1 .. k <=> j \in 1 .. l \/ j = k BY <1>5, <1>7
<1>15. \A q : /\ Broken(k, q) <=> Broken(l, q) \/ q \in Range(move.break)
              /\ Built(k, q) <=> Built(l, q) \/ q \in Range(move.place)
  BY <1>11, <1>14 DEF Broken, Built
<1>16. ASSUME NEW q \in Cells PROVE Walked(k, q)
  <2>1. Walked(l, q) BY <1>8
  <2>2. /\ Loaded(w, q) <=> Loaded(map.world, q)
        /\ \/ Query(w, q) = Query(map.world, q) /\ (Loaded(map.world, q) => ~Broken(l, q) /\ ~Built(l, q))
           \/ Query(w, q) = "dirt" /\ Built(l, q)
           \/ Query(w, q) = "air" /\ Broken(l, q)
    BY <1>9, <2>1 DEF Walked, Kept
  <2>3. Loaded(v, q) <=> Loaded(map.world, q) BY <1>13, <2>2
  <2>4. \/ Query(v, q) = Query(map.world, q) /\ (Loaded(map.world, q) => ~Broken(k, q) /\ ~Built(k, q))
        \/ Query(v, q) = "dirt" /\ Built(k, q)
        \/ Query(v, q) = "air" /\ Broken(k, q)
    <3>1. CASE ~Loaded(map.world, q)
      <4>1. Query(v, q) = "void" /\ Query(map.world, q) = "void" BY <2>3, <3>1 DEF Query
      <4> QED BY <3>1, <4>1
    <3>2. CASE Loaded(map.world, q) /\ q \in Range(move.place) BY <1>13, <1>15, <2>2, <3>2
    <3>3. CASE Loaded(map.world, q) /\ q \notin Range(move.place) /\ q \in Range(move.break)
      BY <1>13, <1>15, <2>2, <3>3
    <3>4. CASE Loaded(map.world, q) /\ q \notin Range(move.place) /\ q \notin Range(move.break)
      <4>1. Query(v, q) = Query(w, q) BY <1>13, <2>2, <3>4
      <4> QED BY <1>15, <2>2, <3>4, <4>1
    <3> QED BY <3>1, <3>2, <3>3, <3>4
  <2> QED BY <1>10, <2>3, <2>4 DEF Walked, Kept
<1>17. Good(k) BY <1>8, <1>9, <1>10, <1>13, <1>16
<1> HIDE DEF Good
<1> QED BY <1>5, <1>17

\* Walking makes no liquid and nothing that falls.
LEMMA NoneAdded ==
  ASSUME NEW k, NEW q, Walked(k, q)
  PROVE  /\ Liquid(WorldAfter(k), q) => Liquid(map.world, q)
         /\ CanFall(WorldAfter(k), q) => CanFall(map.world, q)
BY DEF Walked, Kept, Liquid, CanFall

\* The moves of a path through a world.
LEMMA MovesSound ==
  ASSUME AInv, InWorld, NEW n \in Nat, NEW from, Walk(n, from)
  PROVE  /\ IsWorld(map.world) /\ Place \subseteq Cells
         /\ \A k \in 1 .. n : Sound(map.world, from[k], Path[k])
<1>1. map \in Searches BY DEF AInv
<1>2. PICK w : w = map.world OBVIOUS
<1>3. Place \subseteq Cells /\ map.moves = MovesIn(w) /\ IsWorld(w) /\ Configured(w)
  BY <1>1, <1>2, WorldsAssumption DEF InWorld, Cells, IsWorld, Configured
<1>4. ASSUME NEW k \in 1 .. n PROVE Sound(w, from[k], Path[k])
  <2>1. PICK p : p = from[k] OBVIOUS
  <2>2. PICK m : m = Path[k] OBVIOUS
  <2>3. p \in Place /\ m \in Range(map.moves[p]) BY <2>1, <2>2 DEF Walk
  <2>4. PICK s : s = Neighbors(w, p) OBVIOUS
  <2>5. AllSound(w, p, s) BY <1>3, <2>3, <2>4, NeighborsSound
  <2>6. PICK T : s \in Seq(T) /\ \A x \in Range(s) : Sound(w, p, x) BY <2>5 DEF AllSound
  <2>7. PICK S : S = {move \in Range(s) : Loaded(w, move.to)} OBVIOUS
  <2>8. map.moves[p] = IF Loaded(w, p) THEN Sifted(s, S) ELSE <<>> BY <1>3, <2>3, <2>4, <2>7 DEF MovesIn
  <2>9. m \in Range(s)
    <3>1. CASE Loaded(w, p) BY <2>3, <2>6, <2>8, <3>1, SiftedIs
    <3>2. CASE ~Loaded(w, p)
      <4>1. Range(<<>>) = {} BY DEF Range
      <4> QED BY <2>3, <2>8, <3>2, <4>1
    <3> QED BY <3>1, <3>2
  <2> QED BY <2>1, <2>2, <2>6, <2>9
<1> QED BY <1>2, <1>3, <1>4

\* The search digs where nothing flows and nothing falls.
LEMMA HoldsBack ==
  ASSUME AInv
  PROVE  DigsHoldBack
<1> SUFFICES ASSUME InWorld, status # Computing PROVE DigsHoldBack BY DEF DigsHoldBack
<1>1. PICK n \in Nat : \E from : Walk(n, from) BY PathWalks
<1>2. PICK from : Walk(n, from) BY <1>1
<1>3. /\ IsWorld(map.world) /\ Place \subseteq Cells
      /\ \A k \in 1 .. n : Sound(map.world, from[k], Path[k])
  BY <1>2, MovesSound
<1>4. ASSUME NEW k \in 1 .. n, NEW p \in Range(Path[k].break)
      PROVE  /\ map.world.config.dont_create_flow => \A q \in Sides(p) \cup {Up(p, 1)} : ~Liquid(WorldAfter(k), q)
             /\ map.world.config.dont_mine_under => ~CanFall(WorldAfter(k), Up(p, 1))
             /\ Query(map.world, p) \notin map.world.config.cant_break
  <2>1. p \in Cells /\ Breakable(map.world, p) BY <1>3 DEF Sound
  <2>2. Up(p, 1) \in Cells BY <2>1, Heights
  <2>3. Sides(p) \subseteq Cells
    <3>1. \A d \in Ahead : Beside(p, d) \in Cells BY <2>1, Aside DEF Ahead
    <3> QED BY <3>1 DEF Sides, Ahead
  <2>4. k \in 0 .. n OBVIOUS
  <2>5. \A q \in Cells : Walked(k, q) BY <1>2, <1>3, <2>4, WalkedSo
  <2>6. \A q \in Cells : /\ Liquid(WorldAfter(k), q) => Liquid(map.world, q)
                         /\ CanFall(WorldAfter(k), q) => CanFall(map.world, q)
    BY <2>5, NoneAdded
  <2> QED BY <2>1, <2>2, <2>3, <2>6 DEF Breakable
<1>5. DOMAIN Path = 1 .. n BY <1>2 DEF Walk
<1> QED BY <1>4, <1>5 DEF DigsHoldBack

\* Whatever a search through a world returns: what its path breaks may be
\* broken, and when it is broken, nothing flows from its sides or from above
\* and nothing falls, with all that the path has changed until then.
THEOREM DigsAlwaysHoldBack ==
  Spec => []DigsHoldBack
<1>1. AInv => DigsHoldBack BY HoldsBack
<1> QED BY <1>1, Invariant, PTL

-----------------------------------------------------------------------------
(* And walking.                                                            *)

\* After each move feet and head are free, but where the move did not look
\* and where the path has built; and something holds the bot that the path
\* has not dug away.
LEMMA WalksOn ==
  ASSUME AInv, InWorld, NEW n \in Nat, NEW from, Walk(n, from), NEW k \in 1 .. n,
         NEW p, p = Path[k].to, NEW w, w = WorldAfter(k)
  PROVE  /\ \A c \in {p, Up(p, 1)} :
              Loaded(w, c) => Safe(w, c) \/ c \in Overlooked(map.world, From(k), Path[k]) \cup BuiltBefore(k)
         /\ Supported(w, p) \/ FallsInLava(map.world, From(k), p) \/ Up(p, -1) \in DugBefore(k)
<1>1. PICK u : u = map.world OBVIOUS
<1>2. PICK m : m = Path[k] OBVIOUS
<1>3. IsWorld(u) /\ Place \subseteq Cells /\ \A j \in 1 .. n : Sound(u, from[j], Path[j])
  BY <1>1, MovesSound
<1>4. Sound(u, from[k], m) BY <1>2, <1>3
<1>5. p \in Cells /\ from[k] \in Cells /\ from[k] # p /\ from[k] = From(k) BY <1>2, <1>3 DEF Walk
<1>6. PICK g : g = Up(p, -1) OBVIOUS
<1>7. g \in Cells
  <2>1. -1 \in Int OBVIOUS
  <2>2. Up(p, -1) \in Cells BY <1>5, <2>1, Heights
  <2> QED BY <1>6, <2>2
<1>8. k \in 0 .. n OBVIOUS
<1>9. Walked(k, p) /\ Walked(k, g) BY <1>1, <1>3, <1>5, <1>7, <1>8, WalkedSo
\* Nothing was built where the path leads.
<1>10. ~Built(k, p)
  <2> SUFFICES ASSUME NEW j \in 1 .. k, p \in Range(Path[j].place) PROVE FALSE BY DEF Built
  <2>1. j \in 1 .. n /\ j <= k OBVIOUS
  <2>2. from[j] # p BY <2>1 DEF Walk
  <2>3. Sound(u, from[j], Path[j]) BY <1>3, <2>1
  <2>4. PICK place : place = Path[j].place OBVIOUS
  <2>5. place = <<>> \/ place = <<from[j]>> BY <2>3, <2>4 DEF Sound
  <2>6. Range(<<>>) = {} /\ Range(<<from[j]>>) = {from[j]} BY DEF Range
  <2> QED BY <2>2, <2>4, <2>5, <2>6
<1>11. ASSUME NEW c \in {p, Up(p, 1)}, Loaded(w, c)
       PROVE  Safe(w, c) \/ c \in Overlooked(u, from[k], m) \/ c \in BuiltBefore(k)
  <2>1. c \in Cells BY <1>5, Heights
  <2>2. Walked(k, c) BY <1>3, <1>1, <1>8, <2>1, WalkedSo
  <2>3. \/ Query(w, c) = Query(u, c) /\ ~Broken(k, c)
        \/ Built(k, c)
        \/ Query(w, c) = "air"
    BY <1>1, <1>11, <2>2 DEF Walked, Kept
  <2>4. Free(u, from[k], m, c)
    <3>1. CASE m.place = <<>> BY <1>2, <1>4, <3>1 DEF Sound
    <3>2. CASE m.place # <<>>
      <4>1. p = Up(from[k], 1) /\ Safe(u, Up(from[k], 2)) BY <1>2, <1>4, <3>2 DEF Sound
      <4>2. Up(p, 1) = Up(from[k], 2)
        <5>1. Up(Up(from[k], 1), 1) = Up(from[k], 1 + 1) BY <1>5, Heights
        <5>2. 1 + 1 = 2 OBVIOUS
        <5> QED BY <4>1, <5>1, <5>2
      <4>3. p \in Overlooked(u, from[k], m) BY <4>1, OverlookedAre
      <4> QED BY <4>1, <4>2, <4>3 DEF Free
    <3> QED BY <3>1, <3>2
  <2>5. c \in Range(m.break) => Broken(k, c)
    <3>1. k \in 1 .. k OBVIOUS
    <3> QED BY <1>2, <3>1 DEF Broken
  <2>6. Built(k, c) => c \in BuiltBefore(k)
    <3> SUFFICES ASSUME NEW j \in 1 .. k, c \in Range(Path[j].place) PROVE c \in BuiltBefore(k) BY DEF Built
    <3>1. c \notin Range(m.place)
      <4>1. m.place = <<>> \/ (m.place = <<from[k]>> /\ p = Up(from[k], 1)) BY <1>2, <1>4 DEF Sound
      <4>2. Range(<<>>) = {} /\ Range(<<from[k]>>) = {from[k]} BY DEF Range
      <4>3. p = Up(from[k], 1) => c # from[k]
        <5>1. Up(Up(from[k], 1), 1) = Up(from[k], 1 + 1) /\ Up(from[k], 0) = from[k] BY <1>5, Heights
        <5>2. Up(from[k], 1 + 1) # Up(from[k], 0)
          <6>1. 1 + 1 \in Int /\ 0 \in Int /\ 1 + 1 # 0 OBVIOUS
          <6> QED BY <1>5, <6>1, Heights
        <5> QED BY <1>5, <5>1, <5>2
      <4> QED BY <4>1, <4>2, <4>3
    <3>2. j \in 1 .. k - 1
      <4>1. j # k BY <1>2, <3>1
      <4> QED BY <4>1
    <3> QED BY <3>2 DEF BuiltBefore
  <2>7. Query(w, c) = "air" => Safe(w, c) BY DEF Safe
  <2>8. Query(w, c) = Query(u, c) /\ Safe(u, c) => Safe(w, c) BY DEF Safe
  <2> QED BY <2>3, <2>4, <2>5, <2>6, <2>7, <2>8 DEF Free
<1>12. Supported(w, p) \/ FallsInLava(u, from[k], p) \/ g \in DugBefore(k)
  <2>1. CASE m.place = <<from[k]>> /\ m.to = Up(from[k], 1) /\ Loaded(u, from[k])
    <3>1. g = from[k]
      <4>1. p = Up(from[k], 1) BY <1>2, <2>1
      <4>2. Up(Up(from[k], 1), -1) = Up(from[k], 1 + (-1)) /\ Up(from[k], 0) = from[k] BY <1>5, Heights
      <4>3. 1 + (-1) = 0 OBVIOUS
      <4> QED BY <1>6, <4>1, <4>2, <4>3
    <3>2. Query(w, g) = "dirt"
      <4>1. PICK l \in Nat : l = k - 1 /\ l \in 0 .. n OBVIOUS
      <4>2. n = Len(Path) BY DEF Walk
      <4>3. w = After(WorldAfter(l), m) BY <1>2, <4>1, <4>2, WorldAfterIs
      <4>4. IsWorld(WorldAfter(l)) /\ Walked(l, g) BY <1>1, <1>3, <1>7, <4>1, WalkedSo
      <4>5. Loaded(WorldAfter(l), g) BY <1>1, <2>1, <3>1, <4>4 DEF Walked
      <4>6. g \in Range(m.place)
        <5>1. Range(<<from[k]>>) = {from[k]} BY DEF Range
        <5> QED BY <2>1, <3>1, <5>1
      <4> QED BY <1>7, <4>3, <4>4, <4>5, <4>6, AfterIs
    <3>3. Physical(w, g) BY <3>2 DEF Physical
    <3> QED BY <1>6, <3>3 DEF Supported
  <2>2. CASE Supported(u, p) /\ g \notin Range(m.break)
    <3>1. CASE Water(u, p)
      <4>1. ~Broken(k, p)
        <5> SUFFICES ASSUME NEW j \in 1 .. k, p \in Range(Path[j].break) PROVE FALSE BY DEF Broken
        <5>1. j \in 1 .. n OBVIOUS
        <5>2. ~Open(u, p) BY <1>3, <5>1 DEF Sound
        <5> QED BY <3>1, <5>2, Kinds
      <4>2. Query(w, p) = Query(u, p) BY <1>1, <1>9, <1>10, <4>1 DEF Walked, Kept
      <4>3. Water(w, p) BY <3>1, <4>2 DEF Water, Liquid, Lava
      <4> QED BY <4>3 DEF Supported
    <3>2. CASE Physical(u, g) \/ Water(u, g)
      <4>1. CASE Query(w, g) = Query(u, g)
        <5>1. Physical(w, g) \/ Water(w, g) BY <3>2, <4>1 DEF Physical, Water, Liquid, Lava
        <5> QED BY <1>6, <5>1 DEF Supported
      <4>2. CASE Query(w, g) = "dirt"
        <5>1. Physical(w, g) BY <4>2 DEF Physical
        <5> QED BY <1>6, <5>1 DEF Supported
      <4>3. CASE Broken(k, g)
        <5>1. PICK j \in 1 .. k : g \in Range(Path[j].break) BY <4>3 DEF Broken
        <5>2. j # k BY <1>2, <2>2, <5>1
        <5>3. j \in 1 .. k - 1 BY <5>2
        <5> QED BY <5>1, <5>3 DEF DugBefore
      <4> QED BY <1>1, <1>9, <4>1, <4>2, <4>3 DEF Walked, Kept
    <3> QED BY <1>6, <2>2, <3>1, <3>2 DEF Supported
  <2>3. m.to = p BY <1>2
  <2> QED BY <1>4, <1>6, <2>1, <2>2, <2>3 DEF Sound, Held
<1> QED BY <1>1, <1>2, <1>5, <1>6, <1>11, <1>12

\* And so for each move of the path.
LEMMA Walkable ==
  ASSUME AInv
  PROVE  PathIsWalkable
<1> SUFFICES ASSUME InWorld, status # Computing PROVE PathIsWalkable BY DEF PathIsWalkable
<1>1. PICK n \in Nat : \E from : Walk(n, from) BY PathWalks
<1>2. PICK from : Walk(n, from) BY <1>1
<1>3. \A k \in 1 .. n :
        /\ \A c \in {Path[k].to, Up(Path[k].to, 1)} :
             Loaded(WorldAfter(k), c) =>
               Safe(WorldAfter(k), c) \/ c \in Overlooked(map.world, From(k), Path[k]) \cup BuiltBefore(k)
        /\ \/ Supported(WorldAfter(k), Path[k].to)
           \/ FallsInLava(map.world, From(k), Path[k].to)
           \/ Up(Path[k].to, -1) \in DugBefore(k)
  BY <1>2, WalksOn
<1>4. DOMAIN Path = 1 .. n BY <1>2 DEF Walk
<1> QED BY <1>3, <1>4 DEF PathIsWalkable

\* Whatever a search through a world returns can be walked: the world is
\* looked at as it was, yet after each move feet and head are free of blocks
\* and of lava, and there is something to stand on or water, but for what
\* PathIsWalkable names: the cells a move does not look at, a diagonal fall
\* into lava, and what the path itself has dug or built before.
THEOREM PathsAreWalkable ==
  Spec => []PathIsWalkable
<1>1. AInv => PathIsWalkable BY Walkable
<1> QED BY <1>1, Invariant, PTL
=============================================================================
