--------------------------- MODULE BestFirstProofs ---------------------------
(***************************************************************************)
(* A best-first search finds a cheapest way if its estimates are           *)
(* consistent, whatever the map.  The heart is Escape: a walk that ends in *)
(* a place not yet closed leaves the closed places somewhere, and where it *)
(* does, there is an open place that is at least as promising as its end.  *)
(***************************************************************************)
EXTENDS BestFirst, WellFoundedInduction, TLAPS

Types ==
  /\ map \in Maps
  /\ cost \in [Place -> Nat]
  /\ open \subseteq Place
  /\ closed \subseteq Place
  /\ found \subseteq Place
  /\ outcome \in {"searching", "success", "no_path", "timeout"}

\* The start is known, for free, and open unless closed or found.
StartKnown ==
  /\ outcome = "searching" => found = {}
  /\ outcome = "no_path" => open = {} /\ found = {}
  /\ map.start \in open \cup closed \cup found
  /\ cost[map.start] = 0
  /\ closed \cap (open \cup found \cup map.ends) = {}

\* What is open is the start or within the limit.
Within == \A n \in open \cup found : n = map.start \/ WithinLimit(n, cost[n])

\* Each move out of the closed places leads to an open one, at no more than
\* it costs over this move; or beyond the limit.
Edge(n) ==
  \A move \in map.moves[n] :
    \/ move.to \in closed
    \/ ~WithinLimit(move.to, cost[n] + move.cost)
    \/ /\ move.to \in open \cup found
       /\ cost[move.to] <= cost[n] + move.cost
Frontier == \A n \in closed : Edge(n)

\* The cost of a closed place is that of a cheapest walk there.
NotAbove(n, k, p, w) == Walk(k, p, w) /\ p[k] = n => cost[n] <= w[k]
ClosedCheapest ==
  Consistent =>
    \A n \in closed, k \in Nat : \A p \in [0 .. k -> Place], w \in [0 .. k -> Nat] : NotAbove(n, k, p, w)

IInv == Types /\ StartKnown /\ Within /\ Frontier /\ ClosedCheapest

\* That a walk costs no less than place n promises, or leads too far.
Promised(n, k, p, w) == Estimated(n) <= w[k] + map.estimate[p[k]]
TooFar(k, p, w) == map.limit > 0 /\ map.limit < w[k] + map.estimate[p[k]]

-----------------------------------------------------------------------------
\* Sets of naturals have a least element.
LEMMA Least_Natural ==
  ASSUME NEW T, T \subseteq Nat, T # {}
  PROVE  \E x \in T : \A y \in T : x <= y
<1>1. PICK x \in T : \A y \in T : ~(<<y, x>> \in OpToRel(<, Nat))
  BY NatLessThanWellFounded, WFMin
<1>2. ASSUME NEW y \in T PROVE x <= y
  <2>1. <<y, x>> \notin OpToRel(<, Nat) BY <1>1
  <2>2. <<y, x>> \in Nat \X Nat BY DEF OpToRel
  <2>3. ~(y < x) BY <2>1, <2>2 DEF OpToRel
  <2> QED BY <2>3
<1> QED BY <1>2

\* What is known of a map.
LEMMA MapFacts ==
  ASSUME MapsOK, map \in Maps
  PROVE  /\ map.start \in Place
         /\ map.ends \subseteq Place
         /\ map.moves \in [Place -> SUBSET [to : Place, cost : Nat]]
         /\ map.estimate \in [Place -> Int]
         /\ map.limit \in Nat
BY DEF MapsOK

\* Along a walk, cost so far and estimated rest do not fall.
LEMMA AlongWalk ==
  ASSUME MapsOK, map \in Maps, Consistent, NEW k \in Nat,
         NEW p \in [0 .. k -> Place], NEW w \in [0 .. k -> Nat], Walk(k, p, w),
         NEW i \in 0 .. k
  PROVE  w[i] + map.estimate[p[i]] <= w[k] + map.estimate[p[k]]
<1> DEFINE f(j) == w[j] + map.estimate[p[j]]
           T == {j \in 0 .. k : i <= j /\ f(j) < f(i)}
<1>0. \A j \in 0 .. k : f(j) \in Int
  BY MapFacts
<1>1. SUFFICES ASSUME f(k) < f(i) PROVE FALSE
  BY <1>0
<1>2. T \subseteq Nat /\ T # {}
  BY <1>1
<1>3. PICK j \in T : \A l \in T : j <= l
  BY <1>2, Least_Natural
<1>4. j \in 0 .. k /\ i <= j /\ f(j) < f(i)
  OBVIOUS
<1>5. i # j
  BY <1>0, <1>4
<1>6. PICK h \in 0 .. k - 1 : j = h + 1
  BY <1>4, <1>5
<1>7. h \in 0 .. k /\ i <= h /\ h \notin T
  BY <1>3, <1>4, <1>5, <1>6
<1>8. ~(f(h) < f(i))
  BY <1>7
<1>9. [to |-> p[j], cost |-> w[j] - w[h]] \in map.moves[p[h]] /\ p[h] \in Place
  BY <1>6, <1>7 DEF Walk
<1>10. map.estimate[p[h]] <= (w[j] - w[h]) + map.estimate[p[j]]
  BY <1>9 DEF Consistent
<1>11. w[j] \in Nat /\ w[h] \in Nat /\ map.estimate[p[h]] \in Int /\ map.estimate[p[j]] \in Int
  BY <1>4, <1>7, MapFacts
<1>12. w[h] + map.estimate[p[h]] <= w[j] + map.estimate[p[j]]
  <2>1. \A x, y \in Nat, a, b \in Int : a <= (x - y) + b => y + a <= x + b
    OBVIOUS
  <2> QED BY <1>10, <1>11, <2>1
<1>13. f(h) <= f(j)
  BY <1>12
<1> HIDE DEF f
<1> QED BY <1>0, <1>4, <1>7, <1>8, <1>13

-----------------------------------------------------------------------------
\* The beginning of a walk is a walk.
LEMMA Beginning ==
  ASSUME NEW k \in Nat, NEW p \in [0 .. k -> Place], NEW w \in [0 .. k -> Nat], Walk(k, p, w),
         NEW h \in 0 .. k
  PROVE  Walk(h, [l \in 0 .. h |-> p[l]], [l \in 0 .. h |-> w[l]])
<1> DEFINE ph == [l \in 0 .. h |-> p[l]]
           wh == [l \in 0 .. h |-> w[l]]
<1>1. ph[0] = p[0] /\ wh[0] = w[0]
  OBVIOUS
<1>2. ASSUME NEW i \in 0 .. h - 1
      PROVE  [to |-> ph[i + 1], cost |-> wh[i + 1] - wh[i]] \in map.moves[ph[i]]
  <2>1. i \in 0 .. k - 1 /\ i \in 0 .. h /\ i + 1 \in 0 .. h
    OBVIOUS
  <2> QED BY <2>1 DEF Walk
<1> QED BY <1>1, <1>2 DEF Walk

\* A walk to a place that is not closed passes an open one.
LEMMA Escape ==
  ASSUME MapsOK, IInv, Consistent, found = {}, NEW k \in Nat,
         NEW p \in [0 .. k -> Place], NEW w \in [0 .. k -> Nat], Walk(k, p, w), p[k] \notin closed
  PROVE  (\E m \in open : Promised(m, k, p, w)) \/ TooFar(k, p, w)
<1> USE DEF IInv, Types
<1> DEFINE T == {i \in 0 .. k : p[i] \notin closed}
<1>1. T \subseteq Nat /\ T # {}
  OBVIOUS
<1>2. PICK i \in T : \A l \in T : i <= l
  BY <1>1, Least_Natural
<1>3. i \in 0 .. k /\ p[i] \notin closed /\ p[i] \in Place
  OBVIOUS
<1>4. w[i] + map.estimate[p[i]] <= w[k] + map.estimate[p[k]]
  BY <1>3, AlongWalk
<1>5. CASE i = 0
  <2>1. p[i] = map.start /\ w[i] = 0
    BY <1>5 DEF Walk
  <2>2. p[i] \in open /\ cost[p[i]] = 0
    BY <1>3, <2>1 DEF StartKnown
  <2>3. Promised(p[i], k, p, w)
    BY <1>4, <2>1, <2>2 DEF Promised, Estimated
  <2> QED BY <2>2, <2>3
<1>6. CASE i # 0
  <2>1. PICK h \in 0 .. k - 1 : i = h + 1
    BY <1>3, <1>6
  <2>2. h \in 0 .. k /\ h \notin T /\ p[h] \in closed /\ p[h] \in Place
    BY <1>2, <2>1
  <2>3. cost[p[h]] <= w[h]
    <3> DEFINE ph == [l \in 0 .. h |-> p[l]]
               wh == [l \in 0 .. h |-> w[l]]
    <3>1. Walk(h, ph, wh)
      BY <2>2, Beginning
    <3>2. h \in Nat /\ ph \in [0 .. h -> Place] /\ wh \in [0 .. h -> Nat]
      OBVIOUS
    <3>3. NotAbove(p[h], h, ph, wh)
      BY <2>2, <3>2 DEF ClosedCheapest
    <3> HIDE DEF ph, wh
    <3>4. cost[p[h]] <= wh[h]
      BY <3>1, <3>3 DEF NotAbove, ph
    <3> QED BY <3>4 DEF wh
  <2> DEFINE move == [to |-> p[i], cost |-> w[i] - w[h]]
             c == cost[p[h]] + move.cost
  <2>4. move \in map.moves[p[h]]
    BY <2>1 DEF Walk
  <2>5. Edge(p[h])
    BY <2>2 DEF Frontier
  <2>6. w[i] \in Nat /\ w[h] \in Nat /\ cost[p[h]] \in Nat /\ map.estimate[p[i]] \in Int
        /\ map.limit \in Nat /\ w[k] + map.estimate[p[k]] \in Int /\ cost[p[i]] \in Nat
    <3>1. p[k] \in Place /\ w[k] \in Nat /\ map.estimate \in [Place -> Int] /\ map.limit \in Nat
      BY MapFacts
    <3> QED BY <1>3, <2>2, <3>1
  <2>7. \A a, b, x \in Nat : a <= b => a + (x - b) <= x
    OBVIOUS
  <2>8. c <= w[i] /\ c \in Int
    BY <2>3, <2>6, <2>7
  <2>9. \/ ~WithinLimit(p[i], c)
        \/ p[i] \in open /\ cost[p[i]] <= c
    BY <1>3, <2>4, <2>5 DEF Edge
  <2> HIDE DEF c
  <2>10. CASE ~WithinLimit(p[i], c)
    BY <1>4, <2>6, <2>8, <2>10 DEF WithinLimit, TooFar
  <2>11. CASE p[i] \in open /\ cost[p[i]] <= c
    <3>1. \A a, b \in Nat, e, r \in Int, l \in Int : a <= l /\ l <= b /\ b + e <= r => a + e <= r
      OBVIOUS
    <3>2. cost[p[i]] + map.estimate[p[i]] <= w[k] + map.estimate[p[k]]
      BY <1>4, <2>6, <2>8, <2>11, <3>1
    <3> QED BY <2>11, <3>2 DEF Promised, Estimated
  <2> QED BY <2>9, <2>10, <2>11
<1> QED BY <1>5, <1>6

\* So the place the search looks at promises no more than any walk costs.
LEMMA LeastPromises ==
  ASSUME MapsOK, IInv, Consistent, NEW n \in Place, Least(n), NEW k \in Nat,
         NEW p \in [0 .. k -> Place], NEW w \in [0 .. k -> Nat], Walk(k, p, w), p[k] \notin closed
  PROVE  Promised(n, k, p, w)
<1> USE DEF IInv, Types
<1>1. found = {} /\ n \in open
  BY DEF StartKnown, Least
<1>2. (\E m \in open : Promised(m, k, p, w)) \/ TooFar(k, p, w)
  BY <1>1, Escape
<1>3. w[k] + map.estimate[p[k]] \in Int /\ map.limit \in Nat
      /\ \A m \in Place : Estimated(m) \in Int
  BY MapFacts DEF Estimated
<1>4. CASE \E m \in open : Promised(m, k, p, w)
  BY <1>3, <1>4 DEF Promised, Least
<1>5. CASE TooFar(k, p, w)
  <2>1. CASE n = map.start
    <3>1. w[0] + map.estimate[p[0]] <= w[k] + map.estimate[p[k]]
      <4>1. 0 \in 0 .. k
        OBVIOUS
      <4> QED BY <4>1, AlongWalk
    <3>2. Estimated(n) = w[0] + map.estimate[p[0]]
      BY <2>1 DEF Estimated, StartKnown, Walk
    <3> QED BY <3>1, <3>2 DEF Promised
  <2>2. CASE WithinLimit(n, cost[n])
    <3>1. Estimated(n) <= map.limit
      BY <1>5, <2>2 DEF WithinLimit, TooFar, Estimated
    <3> QED BY <1>3, <1>5, <3>1 DEF TooFar, Promised
  <2> QED BY <1>1, <2>1, <2>2 DEF Within
<1> QED BY <1>2, <1>4, <1>5

-----------------------------------------------------------------------------
LEMMA Initially ==
  ASSUME MapsOK, SearchInit
  PROVE  IInv
<1>1. Types
  BY MapFacts DEF SearchInit, Types
<1>2. StartKnown
  BY <1>1, MapFacts DEF SearchInit, StartKnown
<1>3. Within /\ Frontier /\ ClosedCheapest
  BY DEF SearchInit, Within, Frontier, ClosedCheapest
<1> QED BY <1>1, <1>2, <1>3 DEF IInv

\* An expansion finds no dearer way to anything, and leaves the costs of the
\* closed places alone.
LEMMA Costs ==
  ASSUME MapsOK, IInv, NEW n \in Place, Expand(n)
  PROVE  /\ cost' \in [Place -> Nat]
         /\ \A m \in closed \cup {n} : cost'[m] = cost[m]
         /\ \A m \in open : cost'[m] <= cost[m]
         /\ \A m \in Reached(n) : \A c \in Offers(n, m) : cost'[m] <= c
         /\ \A m \in Reached(n) : cost'[m] \in Offers(n, m) \/ (m \in open /\ cost'[m] = cost[m])
<1>1. cost' \in [Place -> Nat] /\ n \in Place /\ open \subseteq Place /\ closed \subseteq Place /\ cost \in [Place -> Nat]
  BY DEF Expand, IInv, Types
<1>2. Reached(n) \cap (closed \cup {n}) = {} /\ Reached(n) \subseteq Place
  BY DEF Reached
<1>3. \A m \in Place : m \notin Reached(n) => cost'[m] = cost[m]
  BY DEF Expand
<1>4. \A m \in Reached(n) :
        /\ cost'[m] \in Offers(n, m) \cup Known(m)
        /\ \A c \in Offers(n, m) \cup Known(m) : cost'[m] <= c
  BY <1>2 DEF Expand
<1>5. \A m \in Place : m \in open => Known(m) = {cost[m]}
  BY DEF Known
<1>6. \A m \in Place : m \notin open => Known(m) = {}
  BY DEF Known
<1>7. \A m \in closed \cup {n} : cost'[m] = cost[m]
  BY <1>1, <1>2, <1>3
<1>8. ASSUME NEW m \in open PROVE cost'[m] <= cost[m]
  <2>1. CASE m \in Reached(n)
    BY <1>1, <1>4, <1>5, <2>1
  <2>2. CASE m \notin Reached(n)
    <3>1. cost'[m] = cost[m] /\ cost[m] \in Nat BY <1>1, <1>3, <2>2
    <3> QED BY <3>1
  <2> QED BY <2>1, <2>2
<1>9. ASSUME NEW m \in Reached(n) PROVE cost'[m] \in Offers(n, m) \/ (m \in open /\ cost'[m] = cost[m])
  BY <1>2, <1>4, <1>5, <1>6
<1> QED BY <1>1, <1>4, <1>7, <1>8, <1>9

\* What a move within the limit leads to is closed or reached.
LEMMA MoveReaches ==
  ASSUME MapsOK, IInv, NEW n \in Place, NEW move \in map.moves[n],
         move.to \notin closed \cup {n}, WithinLimit(move.to, cost[n] + move.cost)
  PROVE  move.to \in Reached(n) /\ cost[n] + move.cost \in Offers(n, move.to)
<1>1. move.to \in Place
  BY MapFacts DEF IInv, Types
<1>2. cost[n] + move.cost \in Offers(n, move.to)
  BY DEF Offers
<1> QED BY <1>1, <1>2 DEF Reached

LEMMA ExpandKeeps ==
  ASSUME MapsOK, IInv, NEW n \in Place, Expand(n)
  PROVE  IInv'
<1>1. /\ map' = map /\ outcome' = outcome /\ found' = found
      /\ closed' = closed \cup {n} /\ open' = (open \ {n}) \cup Reached(n)
      /\ n \in open /\ n \notin map.ends /\ outcome = "searching" /\ Least(n)
  BY DEF Expand, Least
<1>2. found = {} /\ n \notin closed
  BY <1>1 DEF IInv, StartKnown
<1>3. Reached(n) \cap (closed \cup {n}) = {} /\ Reached(n) \subseteq Place
  BY DEF Reached
<1>4. Types'
  BY <1>1, <1>3, Costs DEF IInv, Types
<1>5. StartKnown'
  <2>1. map.start \in open' \cup closed'
    BY <1>1, <1>2 DEF IInv, StartKnown
  <2>2. cost'[map.start] = 0
    <3>1. map.start \in open \/ map.start \in closed
      BY <1>2 DEF IInv, StartKnown
    <3>2. cost[map.start] = 0 /\ map.start \in Place
      BY MapFacts DEF IInv, Types, StartKnown
    <3>3. cost'[map.start] \in Nat
      BY <3>2, Costs
    <3>4. cost'[map.start] <= cost[map.start] \/ cost'[map.start] = cost[map.start]
      BY <3>1, Costs
    <3> QED BY <3>2, <3>3, <3>4
  <2>3. closed' \cap (open' \cup found' \cup map.ends) = {}
    BY <1>1, <1>2, <1>3 DEF IInv, StartKnown
  <2> QED BY <1>1, <1>2, <2>1, <2>2, <2>3 DEF StartKnown
<1>6. Within'
  <2>1. ASSUME NEW m \in open' PROVE m = map.start \/ WithinLimit(m, cost'[m])
    <3>1. CASE m \in open /\ cost'[m] = cost[m]
      BY <3>1 DEF IInv, Within
    <3>2. CASE m \in Reached(n) /\ cost'[m] \in Offers(n, m)
      BY <3>2 DEF Offers
    <3>3. m \in Reached(n) \/ (m \in open /\ m \notin Reached(n))
      BY <1>1
    <3>4. CASE m \in open /\ m \notin Reached(n)
      <4>1. cost'[m] = cost[m]
        BY <3>4 DEF Expand, IInv, Types
      <4> QED BY <3>1, <3>4, <4>1
    <3> QED BY <3>1, <3>2, <3>3, <3>4, Costs
  <2>2. \A m, c : WithinLimit(m, c)' <=> WithinLimit(m, c')
    BY <1>1 DEF WithinLimit
  <2> QED BY <1>1, <1>2, <2>1 DEF Within, WithinLimit
<1>7. Frontier'
  <2>1. SUFFICES ASSUME NEW c \in closed \cup {n}, NEW move \in map.moves[c]
                 PROVE  \/ move.to \in closed'
                        \/ ~WithinLimit(move.to, cost[c] + move.cost)
                        \/ move.to \in open' /\ cost'[move.to] <= cost[c] + move.cost
    <3>1. \A c \in closed \cup {n} : cost'[c] = cost[c]
      BY Costs
    <3> QED BY <1>1, <2>1, <3>1 DEF Frontier, Edge, WithinLimit
  <2>2. /\ c \in Place /\ move.to \in Place /\ move.cost \in Nat /\ cost[c] \in Nat
        /\ cost[move.to] \in Nat /\ cost'[move.to] \in Nat
    BY MapFacts, Costs DEF IInv, Types
  <2>3. CASE c \in closed
    <3>1. Edge(c)
      BY <2>3 DEF IInv, Frontier
    <3>2. CASE move.to \in open /\ cost[move.to] <= cost[c] + move.cost
      <4>1. cost'[move.to] <= cost[move.to]
        BY <3>2, Costs
      <4>2. cost'[move.to] <= cost[c] + move.cost
        BY <2>2, <3>2, <4>1
      <4> QED BY <1>1, <3>2, <4>2
    <3> QED BY <1>1, <1>2, <3>1, <3>2 DEF Edge
  <2>4. CASE c = n
    <3>1. CASE move.to \in closed \cup {n}
      BY <1>1, <3>1
    <3>2. CASE move.to \notin closed \cup {n} /\ WithinLimit(move.to, cost[n] + move.cost)
      <4>1. move.to \in Reached(n) /\ cost[n] + move.cost \in Offers(n, move.to)
        BY <2>4, <3>2, MoveReaches
      <4>2. cost'[move.to] <= cost[n] + move.cost
        BY <4>1, Costs
      <4> QED BY <1>1, <2>4, <4>1, <4>2
    <3> QED BY <2>4, <3>1, <3>2
  <2> QED BY <2>3, <2>4
<1>8. ClosedCheapest'
  <2>1. SUFFICES ASSUME Consistent, NEW c \in closed \cup {n}, NEW k \in Nat,
                        NEW p \in [0 .. k -> Place], NEW w \in [0 .. k -> Nat],
                        Walk(k, p, w), p[k] = c
                 PROVE  cost[c] <= w[k]
    <3>1. \A c \in closed \cup {n} : cost'[c] = cost[c]
      BY Costs
    <3> QED BY <1>1, <2>1, <3>1 DEF ClosedCheapest, NotAbove, Walk, Consistent
  <2>2. CASE c \in closed
    BY <2>1, <2>2 DEF IInv, ClosedCheapest, NotAbove
  <2>3. CASE c = n
    <3>1. Promised(n, k, p, w)
      BY <1>1, <1>2, <2>1, <2>3, LeastPromises
    <3>2. cost[n] \in Nat /\ w[k] \in Nat /\ map.estimate[n] \in Int
      BY MapFacts DEF IInv, Types
    <3>3. cost[n] + map.estimate[n] <= w[k] + map.estimate[n]
      BY <2>1, <2>3, <3>1 DEF Promised, Estimated
    <3> QED BY <2>3, <3>2, <3>3
  <2> QED BY <2>2, <2>3
<1> QED BY <1>4, <1>5, <1>6, <1>7, <1>8 DEF IInv

\* The other steps only take a place from the open ones that is then found.
LEMMA OthersKeep ==
  ASSUME MapsOK, IInv, UNCHANGED <<map, cost, closed>>,
         open' \cup found' = open \cup found,
         \/ UNCHANGED <<outcome, found, open>>
         \/ /\ outcome' \in {"success", "timeout"}
            /\ found' \subseteq Place
         \/ /\ outcome' = "no_path" /\ outcome = "searching" /\ open = {} /\ UNCHANGED <<found, open>>
  PROVE  IInv'
<1>1. Types'
  BY DEF IInv, Types
<1>2. StartKnown'
  BY DEF IInv, StartKnown
<1>3. Within'
  BY DEF IInv, Within, WithinLimit
<1>4. Frontier'
  BY DEF IInv, Frontier, Edge, WithinLimit
<1>5. ClosedCheapest'
  BY DEF IInv, ClosedCheapest, NotAbove, Walk, Consistent
<1> QED BY <1>1, <1>2, <1>3, <1>4, <1>5 DEF IInv

\* Without a limit, an exhausted search has closed all that can be reached.
LEMMA NoEscape ==
  ASSUME MapsOK, IInv, map.limit = 0, open = {}, found = {}, NEW k \in Nat,
         NEW p \in [0 .. k -> Place], NEW w \in [0 .. k -> Nat], Walk(k, p, w)
  PROVE  p[k] \in closed
<1> DEFINE T == {i \in Nat : i <= k /\ p[i] \notin closed}
<1>1. T = {}
  <2> SUFFICES ASSUME T # {} PROVE FALSE
    OBVIOUS
  <2>1. PICK i \in T : \A j \in T : i <= j
    <3>1. T \subseteq Nat
      OBVIOUS
    <3> HIDE DEF T
    <3> QED BY <3>1, Least_Natural
  <2>2. i # 0
    BY <2>1 DEF Walk, IInv, StartKnown
  <2>3. PICK j \in 0 .. k - 1 : i = j + 1
    <3>1. i - 1 \in 0 .. k - 1 /\ i = (i - 1) + 1
      BY <2>1, <2>2
    <3> QED BY <3>1
  <2>4. p[j] \in closed
    <3>1. j \notin T
      <4>1. ~(i <= j)
        BY <2>3
      <4> HIDE DEF T
      <4> QED BY <2>1, <4>1
    <3>2. j \in Nat /\ j <= k
      BY <2>3
    <3> QED BY <3>1, <3>2
  <2>5. PICK move \in map.moves[p[j]] : move.to = p[i]
    <3>1. [to |-> p[j + 1], cost |-> w[j + 1] - w[j]] \in map.moves[p[j]]
      BY <2>3 DEF Walk
    <3> QED BY <2>3, <3>1
  <2>6. p[i] \in closed
    BY <2>4, <2>5 DEF IInv, Frontier, Edge, WithinLimit
  <2> QED BY <2>1, <2>6
<1> QED BY <1>1

-----------------------------------------------------------------------------
Safe == IInv /\ CheapestFound /\ NoneMissed

\* Every step keeps the invariant, and the answers are right when given.
LEMMA StepKeeps ==
  ASSUME MapsOK, Safe, SearchNext
  PROVE  Safe'
<1> USE DEF Safe
<1>1. outcome = "searching" /\ found = {} /\ (\A n : Least(n) => n \in open)
  BY DEF SearchNext, Expand, Find, Least, Exhausted, RunOutOfTime, IInv, StartKnown
<1>2. ASSUME NEW n \in Place, Expand(n) PROVE Safe'
  <2>1. found' = {} /\ outcome' = "searching"
    BY <1>1, <1>2 DEF Expand
  <2> QED BY <1>2, <2>1, ExpandKeeps DEF CheapestFound, NoneMissed
<1>3. ASSUME NEW n \in Place, Find(n) PROVE Safe'
  <2>1. /\ Least(n) /\ UNCHANGED <<map, cost, closed>>
        /\ found' = {n} /\ outcome' = "success" /\ open' = open \ {n} /\ n \in open
    BY <1>1, <1>3 DEF Find
  <2>2. IInv'
    BY <1>1, <2>1, OthersKeep
  <2>3. ASSUME Consistent, NEW k \in Nat, NEW p \in [0 .. k -> Place], NEW w \in [0 .. k -> Nat],
               Walk(k, p, w), p[k] \in map.ends
        PROVE  Promised(n, k, p, w)
    <3>1. p[k] \notin closed
      BY <2>3 DEF IInv, StartKnown
    <3> QED BY <2>1, <2>3, <3>1, LeastPromises
  <2>4. CheapestFound'
    BY <2>1, <2>3 DEF CheapestFound, Promised, Estimated, Walk, Consistent
  <2> QED BY <2>1, <2>2, <2>4 DEF NoneMissed
<1>4. CASE Exhausted
  <2>1. open = {} /\ UNCHANGED <<map, cost, open, closed, found>> /\ outcome' = "no_path"
    BY <1>4 DEF Exhausted
  <2>2. IInv'
    BY <1>1, <2>1, OthersKeep
  <2>3. ASSUME Consistent, NEW k \in Nat, NEW p \in [0 .. k -> Place], NEW w \in [0 .. k -> Nat],
               Walk(k, p, w), p[k] \in map.ends
        PROVE  TooFar(k, p, w)
    <3>1. p[k] \notin closed
      BY <2>3 DEF IInv, StartKnown
    <3> QED BY <1>1, <2>1, <2>3, <3>1, Escape
  <2>4. ASSUME map.limit = 0, NEW k \in Nat, NEW p \in [0 .. k -> Place], NEW w \in [0 .. k -> Nat],
               Walk(k, p, w), p[k] \in map.ends
        PROVE  FALSE
    <3>1. p[k] \notin closed
      BY <2>4 DEF IInv, StartKnown
    <3> QED BY <1>1, <2>1, <2>4, <3>1, NoEscape
  <2>5. NoneMissed'
    BY <2>1, <2>3, <2>4 DEF NoneMissed, TooFar, Walk, Consistent
  <2> QED BY <1>1, <2>1, <2>2, <2>5 DEF CheapestFound
<1>5. CASE RunOutOfTime
  <2>1. UNCHANGED <<map, cost, open, closed, found>> /\ outcome' = "timeout"
    BY <1>5 DEF RunOutOfTime
  <2>2. IInv'
    BY <2>1, OthersKeep, <1>1 DEF IInv, Types
  <2> QED BY <1>1, <2>1, <2>2 DEF CheapestFound, NoneMissed
<1> QED BY <1>2, <1>3, <1>4, <1>5 DEF SearchNext

\* The whole of it, for the maps and moves of any world.
THEOREM Invariance == MapsOK => (SearchSpec => []Safe)
<1>0. SUFFICES ASSUME MapsOK PROVE SearchSpec => []Safe
  OBVIOUS
<1>1. SearchInit => Safe
  <2>0. SUFFICES ASSUME SearchInit PROVE Safe
    OBVIOUS
  <2>1. IInv
    BY <1>0, <2>0, Initially
  <2>2. found = {} /\ outcome = "searching"
    BY <2>0 DEF SearchInit
  <2> QED BY <2>1, <2>2 DEF Safe, CheapestFound, NoneMissed
<1>2. Safe /\ [SearchNext]_searchVars => Safe'
  <2>0. SUFFICES ASSUME Safe, [SearchNext]_searchVars PROVE Safe'
    OBVIOUS
  <2>1. CASE SearchNext
    BY <1>0, <2>0, <2>1, StepKeeps
  <2>2. CASE UNCHANGED searchVars
    <3>1. UNCHANGED <<map, cost, open, closed, outcome, found>>
      BY <2>2 DEF searchVars
    <3>2. IInv'
      BY <1>0, <2>0, <3>1, OthersKeep DEF Safe
    <3>3. (CheapestFound /\ NoneMissed)'
      BY <1>0, <2>0, <3>1 DEF Safe, CheapestFound, NoneMissed, Estimated, Walk, Consistent
    <3> QED BY <3>2, <3>3 DEF Safe
  <2> QED BY <2>0, <2>1, <2>2
<1> QED BY <1>1, <1>2, PTL DEF SearchSpec

\* path/astar.rs 164-171: a path is returned only for an end that no walk of
\* the map reaches more cheaply, when the estimates are consistent with the
\* costs of the moves.
THEOREM CheapestAlwaysFound == MapsOK => (SearchSpec => []CheapestFound)
<1>1. Safe => CheapestFound
  BY DEF Safe
<1> QED BY <1>1, Invariance, PTL

\* path/astar.rs 181-186, 223: NoPath means that every walk to an end leaves
\* the radius of the search, if there is one; and without one that no walk
\* leads to an end, whatever the estimates.
THEOREM NothingMissed == MapsOK => (SearchSpec => []NoneMissed)
<1>1. Safe => NoneMissed
  BY DEF Safe
<1> QED BY <1>1, Invariance, PTL
=============================================================================
