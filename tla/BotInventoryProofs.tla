-------------------------- MODULE BotInventoryProofs --------------------------
(***************************************************************************)
(* What BotInventory keeps however many windows there are, whatever they   *)
(* hold and however often the server changes something.  The invariants    *)
(* read the two queues: a packet or a click is about some slots of a       *)
(* window and says what they hold, and Settles follows what a queue makes  *)
(* of one slot.  That the windows come to agree is Settling: what is under *)
(* way ends in what the server holds, or a click is overdue, and the       *)
(* server will answer it with everything.                                  *)
(*                                                                         *)
(* The second part is about the clicks themselves, in any layout of        *)
(* Window: each is an exchange, or pours some of one stack onto another,   *)
(* so the amounts of a set of kinds stay, and the supply says the rest.    *)
(***************************************************************************)
EXTENDS BotInventory, Window, FiniteSetTheorems, SequenceTheorems, WellFoundedInduction, TLAPS

Ids == 0 .. MaxWindows
Contained == [Slot -> Stack]
Content == [kind : {"content"}, id : Ids, state_id : Nat \ {0}, slots : Contained]
SlotPacket == [kind : {"slot"}, id : Ids, state_id : Nat \ {0}, slot : Slot, item : Stack]
Screen == [kind : {"open_screen"}, id : Ids \ {0}]
Quiet == [kind : {"player_inventory"}, slotId : Slot, item : Stack] \cup [kind : {"container_close"}]
Packets == Content \cup SlotPacket \cup Screen \cup Quiet

Clicks == [slot : Slot, button : {0, 1}, mode : {0, 4}] \cup [slot : {Outside}, button : {0, 1}, mode : {0}]
Reports == UNION {[S -> Stack] : S \in SUBSET Slot}
ClickRequest == [kind : {"click"}, id : Ids, state_id : Nat, click : Clicks, changed : Reports, cursor : Stack]
Requests == ClickRequest \cup [kind : {"use"}] \cup [kind : {"close"}, id : Ids]

WindowOf(S) == [id : S, slots : Contained, cursor : Stack, state_id : Nat, seeded : BOOLEAN]
Holding == [slots : Contained, cursor : Stack]

Calls ==
  /\ call.op \in {"idle", "click", "put_away", "toss_cursor", "move_to", "move_back", "equip",
                   "toss", "open"}
  /\ call.op = "put_away" => call.fallback \in Slot
  /\ call.op = "move_to" => call.source \in Slot /\ call.dest \in Slot
  /\ call.op = "move_back" => call.source \in Slot
  /\ call.op = "equip" => call.dest \in Slot

Types ==
  /\ inventory \in WindowOf({0})
  /\ current_window # NoWindow => current_window \in WindowOf(Ids \ {0})
  /\ bumped \in BOOLEAN
  /\ toServer \in Seq(Requests)
  /\ toClient \in Seq(Packets)
  /\ items \in [Place -> Stack]
  /\ carried \in [Ids -> Stack]
  /\ menu \in 0 .. opened
  /\ stateId \in [Ids -> Nat]
  /\ opened \in Ids

-----------------------------------------------------------------------------
(* What a packet or a click is about.                                      *)

Sets(p) == p.kind \in {"content", "slot"}
OfWindow(p, id) == p.kind \in {"content", "slot", "click"} /\ p.id = id
About(p, id, s) ==
  /\ OfWindow(p, id)
  /\ p.kind = "slot" => p.slot = s
  /\ p.kind = "click" => s \in DOMAIN p.changed
Says(p, s) ==
  IF p.kind = "content" THEN p.slots[s]
  ELSE IF p.kind = "slot" THEN p.item
  ELSE p.changed[s]

\* What q tells of slot s of window id after its nth makes x of v.
Silent(q, n, id, s) == \A k \in DOMAIN q : k > n => ~About(q[k], id, s)
Settles(q, n, id, s, v, x) ==
  \/ Silent(q, n, id, s) /\ v = x
  \/ \E k \in DOMAIN q : k > n /\ About(q[k], id, s) /\ Says(q[k], s) = x /\ Silent(q, k, id, s)

None_Of(q, id) == \A k \in DOMAIN q : ~OfWindow(q[k], id)

-----------------------------------------------------------------------------
(* The invariants about the packets under way.                             *)

\* Nothing under way is ahead of the server.
PacketsKnown(q, st, o) ==
  \A k \in DOMAIN q :
    /\ Sets(q[k]) => q[k].state_id <= st[q[k].id] /\ q[k].id <= o
    /\ q[k].kind = "open_screen" => q[k].id <= o
ClicksKnown(q, st, o) ==
  \A k \in DOMAIN q : q[k].kind = "click" => q[k].state_id <= st[q[k].id] /\ q[k].id <= o

\* A window opens after those before it.
ScreensInOrder(q) ==
  \A k, l \in DOMAIN q : k < l /\ q[k].kind = "open_screen" /\ q[l].kind = "open_screen" => q[k].id < q[l].id

\* The content of a window follows its opening.
ScreensFilled(q) ==
  \A k \in DOMAIN q : q[k].kind = "open_screen" =>
    k + 1 \in DOMAIN q /\ q[k + 1].kind = "content" /\ q[k + 1].id = q[k].id

\* The packets about a window come in the order of its states.
StatesInOrder(q) ==
  \A k, l \in DOMAIN q : k < l /\ Sets(q[k]) /\ Sets(q[l]) /\ q[k].id = q[l].id
    => q[k].state_id < q[l].state_id

Orderly(q, st, o) == PacketsKnown(q, st, o) /\ ScreensInOrder(q) /\ ScreensFilled(q) /\ StatesInOrder(q)

\* The windows of the bot are behind what is under way.
Behind ==
  /\ inventory.state_id <= stateId[0]
  /\ current_window # NoWindow =>
       /\ current_window.id <= opened
       /\ current_window.state_id <= stateId[current_window.id]
       /\ \A k \in DOMAIN toClient :
            /\ toClient[k].kind = "open_screen" => current_window.id < toClient[k].id
            /\ Sets(toClient[k]) /\ toClient[k].id = current_window.id
                 => current_window.state_id < toClient[k].state_id

ClicksBehind ==
  \A j \in DOMAIN toServer, k \in DOMAIN toClient :
    toServer[j].kind = "click" /\ toClient[k].kind = "open_screen" => toServer[j].id < toClient[k].id

InOrder ==
  /\ Orderly(toClient, stateId, opened)
  /\ ClicksKnown(toServer, stateId, opened)
  /\ Behind
  /\ ClicksBehind

\* The server takes the bot to show what it has sent.
Shows == View(shown, menu) = View(items, menu)

\* The window whose opening is under way will show what the server holds.
Announced ==
  \A k \in DOMAIN toClient : toClient[k].kind = "open_screen" /\ toClient[k].id = menu =>
    \A s \in Slot, v \in Stack : Settles(toClient, k, menu, s, v, items[At(menu, s)])

\* So will the open one; or there is a click on it that the server sees is
\* behind.
Overdue == \E k \in DOMAIN toServer :
             toServer[k].kind = "click" /\ toServer[k].id = menu /\ toServer[k].state_id # stateId[menu]
Answered ==
  /\ None_Of(toServer, menu)
  /\ \A s \in Slot : Settles(toClient, 0, menu, s, current_window.slots[s], items[At(menu, s)])
Predicted ==
  /\ None_Of(toClient, menu)
  /\ \A s \in Slot : Settles(toServer, 0, menu, s, items[At(menu, s)], current_window.slots[s])
Settling ==
  menu # 0 /\ current_window # NoWindow /\ current_window.id = menu => Overdue \/ Answered \/ Predicted

\* A window that is seeded is about to get its content.
ContentNext ==
  /\ current_window # NoWindow /\ current_window.seeded =>
       toClient # <<>> /\ toClient[1].kind = "content" /\ toClient[1].id = current_window.id
  /\ call.op = "open" /\ call.until = "content" /\ bumped /\ current_window # NoWindow => ~current_window.seeded

Inv == Types /\ Calls /\ InOrder /\ Shows /\ Announced /\ Settling /\ ContentNext

-----------------------------------------------------------------------------
(* Stacks and clicks.                                                      *)

\* Sets of naturals have a least element, bounded ones a largest.
LEMMA LeastNatural ==
  ASSUME NEW T, T \subseteq Nat, T # {}
  PROVE  \E x \in T : \A y \in T : x <= y
<1>1. PICK x \in T : \A y \in T : ~(<<y, x>> \in OpToRel(<, Nat))
  BY NatLessThanWellFounded, WFMin
<1>2. ASSUME NEW y \in T PROVE x <= y
  <2>1. <<y, x>> \notin OpToRel(<, Nat) BY <1>1
  <2>2. <<y, x>> \in Nat \X Nat BY DEF OpToRel
  <2>3. ~(y < x) BY <2>1, <2>2 DEF OpToRel
  <2> QED BY <2>3
<1> QED BY <1>2

\* Min of a set of naturals is in it, and least.
LEMMA MinIsLeast ==
  ASSUME NEW T, T \subseteq Nat, T # {}
  PROVE  Min(T) \in T /\ \A y \in T : Min(T) <= y
<1>1. \E x \in T : \A y \in T : x <= y BY LeastNatural
<1> QED BY <1>1 DEF Min

\* A bounded set of naturals has a largest element.
LEMMA LargestNatural ==
  ASSUME NEW n \in Nat, NEW T, T \subseteq 0 .. n, T # {}
  PROVE  \E x \in T : \A y \in T : y <= x
<1> DEFINE short == {n - k : k \in T}
<1>0. \A k \in T : k \in 0 .. n /\ n - k \in Nat OBVIOUS
<1>1. short \subseteq Nat /\ short # {}
  <2>1. short \subseteq Nat BY <1>0
  <2>2. PICK k \in T : TRUE OBVIOUS
  <2>3. n - k \in short BY <2>2
  <2> QED BY <2>1, <2>3
<1>2. PICK x \in short : \A y \in short : x <= y
  <2> HIDE DEF short
  <2> QED BY <1>1, LeastNatural
<1>3. PICK k \in T : x = n - k BY <1>2
<1>4. \A j \in T : j <= k
  <2> TAKE j \in T
  <2>1. n - k <= n - j BY <1>2, <1>3
  <2> QED BY <1>0, <2>1
<1> QED BY <1>4

\* Min of the two numbers that a fill compares.
LEMMA LeastOfTwo ==
  ASSUME NEW a \in Int, NEW b \in Int
  PROVE  Click!Min({a, b}) = IF a <= b THEN a ELSE b
<1>1. \E x \in {a, b} : \A y \in {a, b} : x <= y OBVIOUS
<1>2. Click!Min({a, b}) \in {a, b} /\ \A y \in {a, b} : Click!Min({a, b}) <= y
  <2> DEFINE T == {a, b}
  <2>1. \E x \in T : \A y \in T : x <= y BY <1>1
  <2> HIDE DEF T
  <2>2. Click!Min(T) \in T /\ \A y \in T : Click!Min(T) <= y BY <2>1 DEF Click!Min
  <2> QED BY <2>2 DEF T
<1> QED BY <1>2

\* A stack is nothing, or some of an item, and no more than stack together.
Size(item) == StackSize[item.type_id]

\* What a stack is made of, and which records are stacks.
LEMMA StackShape ==
  /\ \A x \in Stack : x # None =>
       /\ \E k \in Identity : x.type_id = k.type_id /\ x.components = k.components
       /\ x.type_id \in DOMAIN StackSize
       /\ Size(x) \in 1 .. 64
       /\ x.count \in 1 .. Size(x)
       /\ x = [type_id |-> x.type_id, components |-> x.components, count |-> x.count]
  /\ \A k \in Identity : \A n \in 1 .. StackSize[k.type_id] :
       [type_id |-> k.type_id, components |-> k.components, count |-> n] \in Stack \ {None}
<1> DEFINE top == Max({StackSize[t] : t \in DOMAIN StackSize})
<1>0. \A t \in DOMAIN StackSize : StackSize[t] \in 1 .. 64 BY StackSizeAssumption
<1>1. ASSUME NEW k \in Identity PROVE top \in 1 .. 64 /\ StackSize[k.type_id] <= top
  <2> DEFINE sizes == {StackSize[t] : t \in DOMAIN StackSize}
  <2>1. sizes \subseteq 0 .. 64 /\ sizes \subseteq 1 .. 64 BY <1>0
  <2>2. StackSize[k.type_id] \in sizes BY StackSizeAssumption
  <2>3. \E x \in sizes : \A y \in sizes : y <= x
    <3> HIDE DEF sizes
    <3> QED BY <2>1, <2>2, LargestNatural
  <2>4. Max(sizes) \in sizes /\ \A y \in sizes : y <= Max(sizes)
    <3> HIDE DEF sizes
    <3> QED BY <2>3, <2>1 DEF Max
  <2>5. top = Max(sizes) OBVIOUS
  <2> HIDE DEF sizes, top
  <2> QED BY <2>1, <2>2, <2>4, <2>5
<1>2. Item = {[type_id |-> k.type_id, components |-> k.components, count |-> n] : k \in Identity, n \in 1 .. top}
  BY DEF Item, ItemTypes
<1> HIDE DEF top
<1>3. ASSUME NEW x \in Stack, x # None
      PROVE  /\ \E k \in Identity : x.type_id = k.type_id /\ x.components = k.components
             /\ x.type_id \in DOMAIN StackSize
             /\ Size(x) \in 1 .. 64
             /\ x.count \in 1 .. Size(x)
             /\ x = [type_id |-> x.type_id, components |-> x.components, count |-> x.count]
  <2>1. x \in Item /\ x.count <= StackSize[x.type_id] BY <1>3 DEF Stack
  <2>2. PICK k \in Identity, n \in 1 .. top :
          x = [type_id |-> k.type_id, components |-> k.components, count |-> n]
    BY <1>2, <2>1
  <2>3. k.type_id \in DOMAIN StackSize BY StackSizeAssumption
  <2>4. top \in 1 .. 64 BY <1>1
  <2> QED BY <1>0, <2>1, <2>2, <2>3, <2>4 DEF Size
<1>4. ASSUME NEW k \in Identity, NEW n \in 1 .. StackSize[k.type_id]
      PROVE  [type_id |-> k.type_id, components |-> k.components, count |-> n] \in Stack \ {None}
  <2> DEFINE x == [type_id |-> k.type_id, components |-> k.components, count |-> n]
  <2>1. StackSize[k.type_id] \in 1 .. 64 BY <1>0, StackSizeAssumption
  <2>2. n \in 1 .. top BY <1>1, <2>1
  <2>3. x \in Item BY <1>2, <2>2
  <2>4. x.count <= StackSize[x.type_id] BY <2>1
  <2> QED BY <2>3, <2>4, NoneAssumption DEF Stack
<1> QED BY <1>3, <1>4

\* Another count of the same item.
LEMMA Recounted ==
  ASSUME NEW x \in Stack, x # None, NEW n \in 1 .. Size(x)
  PROVE  Click!WithCount(x, n) \in Stack
<1>1. PICK k \in Identity : x.type_id = k.type_id /\ x.components = k.components BY StackShape
<1>2. Click!WithCount(x, n) = [type_id |-> k.type_id, components |-> k.components, count |-> n]
  BY <1>1, StackShape DEF Click!WithCount
<1> QED BY <1>1, <1>2, StackShape DEF Size

\* A click that puts stacks leaves stacks.
LEMMA PutSlot ==
  ASSUME NEW w \in Holding, NEW slot \in Slot, NEW x \in Stack, NEW y \in Stack
  PROVE  [slots |-> [w.slots EXCEPT ![slot] = x], cursor |-> y] \in Holding
BY DEF Holding, Contained

\* Pouring onto some of an item, or onto none of it, from some.
LEMMA PourType ==
  ASSUME NEW w \in Holding, NEW slot \in Slot, NEW into, NEW all \in BOOLEAN,
         w.cursor # None, into.count \in 0 .. Size(into),
         (into \in Stack /\ into # None) \/ into = Click!WithCount(w.cursor, 0),
         NEW u, u.cursor = w.cursor, u.slots = [w.slots EXCEPT ![slot] = into]
  PROVE  Click!FillWithSelected(u, slot, all) \in Holding
<1> DEFINE room == Size(into) - into.count
           all_or_one == IF all THEN w.cursor.count ELSE 1
           moved == Click!Min({room, all_or_one})
           rest == w.cursor.count - moved
<1>1. w.cursor \in Stack /\ w.slots \in [Slot -> Stack] BY DEF Holding, Contained
<1>2. w.cursor.count \in 1 .. Size(w.cursor) /\ Size(w.cursor) \in 1 .. 64 BY <1>1, StackShape
<1>3. Size(into) \in 1 .. 64 /\ into.count \in 0 .. Size(into)
  <2>1. CASE into \in Stack /\ into # None BY <2>1, StackShape
  <2>2. CASE into = Click!WithCount(w.cursor, 0)
    <3>1. w.cursor = [type_id |-> w.cursor.type_id, components |-> w.cursor.components, count |-> w.cursor.count]
      BY <1>1, StackShape
    <3>2. into = [type_id |-> w.cursor.type_id, components |-> w.cursor.components, count |-> 0]
      BY <2>2, <3>1 DEF Click!WithCount
    <3> QED BY <1>2, <3>2 DEF Size
  <2> QED BY <2>1, <2>2
<1>4. room \in 0 .. 64 /\ all_or_one \in 1 .. w.cursor.count BY <1>2, <1>3
<1>5. moved = IF room <= all_or_one THEN room ELSE all_or_one
  <2>1. room \in Int /\ all_or_one \in Int BY <1>2, <1>4
  <2> HIDE DEF room, all_or_one
  <2> QED BY <2>1, LeastOfTwo
<1>6. moved \in 0 .. w.cursor.count /\ moved <= room /\ rest \in 0 .. w.cursor.count BY <1>2, <1>4, <1>5, SMTT(40)
<1>7. (IF rest = 0 THEN None ELSE Click!WithCount(w.cursor, rest)) \in Stack
  <2>1. CASE rest = 0 BY <2>1 DEF Stack
  <2>2. CASE rest # 0
    <3>1. rest \in 1 .. Size(w.cursor) BY <1>2, <1>6, <2>2
    <3> HIDE DEF rest
    <3> QED BY <1>1, <2>2, <3>1, Recounted
  <2> QED BY <2>1, <2>2
<1>8. Click!WithCount(into, into.count + moved) \in Stack
  <2>1. CASE into \in Stack /\ into # None
    <3>1. into.count \in 1 .. Size(into) BY <2>1, StackShape
    <3>2. into.count + moved \in 1 .. Size(into) BY <1>3, <1>6, <3>1
    <3> HIDE DEF moved
    <3> QED BY <2>1, <3>2, Recounted
  <2>2. CASE into = Click!WithCount(w.cursor, 0)
    <3>1. w.cursor = [type_id |-> w.cursor.type_id, components |-> w.cursor.components, count |-> w.cursor.count]
      BY <1>1, StackShape
    <3>2. into = [type_id |-> w.cursor.type_id, components |-> w.cursor.components, count |-> 0]
      BY <2>2, <3>1 DEF Click!WithCount
    <3>3. Click!WithCount(into, into.count + moved) = Click!WithCount(w.cursor, moved)
      <4>1. into.count = 0 /\ moved \in Nat BY <1>6, <3>2, <1>2
      <4> HIDE DEF moved
      <4>2. into.count + moved = moved BY <4>1
      <4>3. Click!WithCount(into, moved)
              = [type_id |-> w.cursor.type_id, components |-> w.cursor.components, count |-> moved]
        BY <3>2 DEF Click!WithCount
      <4>4. Click!WithCount(w.cursor, moved)
              = [type_id |-> w.cursor.type_id, components |-> w.cursor.components, count |-> moved]
        BY <3>1 DEF Click!WithCount
      <4> QED BY <4>2, <4>3, <4>4
    <3>4. moved \in 1 .. Size(w.cursor)
      <4>1. Size(into) = Size(w.cursor) /\ into.count = 0 BY <3>2 DEF Size
      <4> QED BY <1>2, <1>4, <1>5, <4>1
    <3> HIDE DEF moved
    <3> QED BY <1>1, <3>3, <3>4, Recounted
  <2> QED BY <2>1, <2>2
<1>9. Click!FillWithSelected(u, slot, all)
        = [slots |-> [w.slots EXCEPT ![slot] = Click!WithCount(into, into.count + moved)],
           cursor |-> IF rest = 0 THEN None ELSE Click!WithCount(w.cursor, rest)]
  <2>1. u.slots[slot] = into BY <1>1
  <2>2. \A x : [u.slots EXCEPT ![slot] = x] = [w.slots EXCEPT ![slot] = x] BY <1>1
  <2> QED BY <2>1, <2>2 DEF Click!FillWithSelected, Size
<1> HIDE DEF moved, rest
<1> QED BY <1>7, <1>8, <1>9, PutSlot

\* A left click leaves stacks.
LEMMA LeftType ==
  ASSUME NEW w \in Holding, NEW slot \in Slot
  PROVE  Click!LeftClick(w, slot) \in Holding
<1>1. w.slots \in [Slot -> Stack] /\ w.cursor \in Stack BY DEF Holding, Contained
<1>2. w.slots[slot] \in Stack BY <1>1
<1>3. Click!NotResult(slot)
  <2>1. slot \in Nat BY InvSizeAssumption DEF Slot, Own, Section
  <2> QED BY <2>1 DEF Click!NotResult, Layout
<1>4. CASE Click!LeftClick(w, slot) = Click!SwapSelected(w, slot)
  BY <1>1, <1>2, <1>4, PutSlot DEF Click!SwapSelected
<1>5. CASE Click!LeftClick(w, slot) = Click!FillWithSelected(w, slot, TRUE) /\ None \notin {w.slots[slot], w.cursor}
  <2>1. w.slots[slot].count \in 0 .. Size(w.slots[slot])
    <3>1. w.slots[slot].count \in 1 .. Size(w.slots[slot]) /\ Size(w.slots[slot]) \in 1 .. 64 BY <1>2, <1>5, StackShape
    <3> QED BY <3>1
  <2>2. w.slots = [w.slots EXCEPT ![slot] = w.slots[slot]] BY <1>1
  <2>3. w.cursor # None /\ w.slots[slot] # None BY <1>5
  <2>4. Click!FillWithSelected(w, slot, TRUE) \in Holding BY <1>2, <2>1, <2>2, <2>3, PourType
  <2> QED BY <1>5, <2>4
<1> DEFINE swaps == None \in {w.slots[slot], w.cursor} \/ ~Click!ItemsEqual(w.slots[slot], w.cursor)
<1>6. CASE swaps BY <1>4, <1>6 DEF Click!LeftClick
<1>7. CASE ~swaps
  <2>1. Click!LeftClick(w, slot) = Click!FillWithSelected(w, slot, TRUE)
    BY <1>3, <1>7, Zenon DEF Click!LeftClick
  <2> QED BY <1>5, <1>7, <2>1
<1> QED BY <1>6, <1>7

\* Taking half of a slot leaves stacks.
LEMMA SplitType ==
  ASSUME NEW w \in Holding, NEW slot \in Slot, w.slots[slot] # None
  PROVE  Click!SplitSlot(w, slot) \in Holding
<1> DEFINE item == w.slots[slot]
           taken == (item.count + 1) \div 2
           rest == item.count - taken
<1>1. item \in Stack BY DEF Holding, Contained
<1>2. item.count \in 1 .. Size(item) /\ Size(item) \in 1 .. 64 BY <1>1, StackShape
<1>3. taken \in 1 .. item.count
  <2> DEFINE n == item.count
  <2>1. n \in 1 .. 64 BY <1>2
  <2> HIDE DEF n
  <2>2. (n + 1) \div 2 \in 1 .. n BY <2>1
  <2> QED BY <2>2 DEF n
<1>4. taken \in 1 .. Size(item) /\ rest \in 0 .. Size(item)
  <2> DEFINE n == item.count
             size == Size(item)
  <2>1. n \in 1 .. size /\ size \in 1 .. 64 /\ taken \in 1 .. n BY <1>2, <1>3
  <2>2. rest = n - taken OBVIOUS
  <2> HIDE DEF n, size, taken, rest
  <2>3. taken \in 1 .. size /\ rest \in 0 .. size BY <2>1, <2>2
  <2> QED BY <2>3 DEF size
<1>5. Click!WithCount(item, taken) \in Stack
  <2> HIDE DEF taken, item
  <2> QED BY <1>1, <1>4, Recounted DEF item
<1>6. (IF rest = 0 THEN None ELSE Click!WithCount(item, rest)) \in Stack
  <2>1. CASE rest = 0 BY <2>1 DEF Stack
  <2>2. CASE rest # 0
    <3>1. rest \in 1 .. Size(item) BY <1>2, <1>4, <2>2
    <3> HIDE DEF rest, item
    <3> QED BY <1>1, <2>2, <3>1, Recounted DEF item
  <2> QED BY <2>1, <2>2
<1> QED BY <1>5, <1>6, PutSlot DEF Click!SplitSlot

\* A right click leaves stacks.
LEMMA RightType ==
  ASSUME NEW w \in Holding, NEW slot \in Slot
  PROVE  Click!RightClick(w, slot) \in Holding
<1>1. w.slots \in [Slot -> Stack] /\ w.cursor \in Stack BY DEF Holding, Contained
<1>2. w.slots[slot] \in Stack BY <1>1
<1>3. CASE w.cursor # None /\ w.slots[slot] = None
  <2> DEFINE into == Click!WithCount(w.cursor, 0)
             u == [w EXCEPT !.slots[slot] = into]
  <2>1. Size(into) \in 1 .. 64 /\ into.count = 0
    <3>1. w.cursor = [type_id |-> w.cursor.type_id, components |-> w.cursor.components, count |-> w.cursor.count]
      BY <1>1, <1>3, StackShape
    <3>2. into = [type_id |-> w.cursor.type_id, components |-> w.cursor.components, count |-> 0]
      BY <3>1 DEF Click!WithCount
    <3> QED BY <1>1, <1>3, <3>2, StackShape DEF Size
  <2>2. u.cursor = w.cursor /\ u.slots = [w.slots EXCEPT ![slot] = into] BY DEF Holding
  <2>3. Click!RightClick(w, slot) = Click!FillWithSelected(u, slot, FALSE) BY <1>3 DEF Click!RightClick
  <2> HIDE DEF u, into
  <2>4. into.count \in 0 .. Size(into) BY <2>1
  <2>5. Click!FillWithSelected(u, slot, FALSE) \in Holding BY <1>3, <2>2, <2>4, PourType DEF into
  <2> QED BY <2>3, <2>5
<1>4. CASE w.cursor # None /\ w.slots[slot] # None /\ Click!ItemsEqual(w.slots[slot], w.cursor)
  <2>1. w.slots[slot].count \in 0 .. Size(w.slots[slot])
    <3>1. w.slots[slot].count \in 1 .. Size(w.slots[slot]) /\ Size(w.slots[slot]) \in 1 .. 64 BY <1>2, <1>4, StackShape
    <3> QED BY <3>1
  <2>2. w.slots = [w.slots EXCEPT ![slot] = w.slots[slot]] BY <1>1
  <2>3. Click!RightClick(w, slot) = Click!FillWithSelected(w, slot, FALSE) BY <1>4 DEF Click!RightClick
  <2>4. Click!FillWithSelected(w, slot, FALSE) \in Holding BY <1>2, <1>4, <2>1, <2>2, PourType
  <2> QED BY <2>3, <2>4
<1>5. CASE w.cursor # None /\ w.slots[slot] # None /\ ~Click!ItemsEqual(w.slots[slot], w.cursor)
  BY <1>1, <1>2, <1>5, PutSlot DEF Click!SwapSelected, Click!RightClick
<1>6. CASE w.cursor = None
  BY <1>6, SplitType DEF Click!RightClick
<1> QED BY <1>3, <1>4, <1>5, <1>6

\* A drop leaves stacks.
LEMMA DropType ==
  ASSUME NEW w \in Holding
  PROVE  /\ \A all \in BOOLEAN : Click!DropSelected(w, all) \in Holding
         /\ \A slot \in Slot, button \in {0, 1} : Click!DropClicked(w, button, slot) \in Holding
<1>1. w.slots \in [Slot -> Stack] /\ w.cursor \in Stack
      /\ w = [slots |-> w.slots, cursor |-> w.cursor] BY DEF Holding, Contained
<1>2. ASSUME NEW all \in BOOLEAN PROVE Click!DropSelected(w, all) \in Holding
  <2>0. None \in Stack BY DEF Stack
  <2>1. CASE w.cursor = None \/ all \/ w.cursor.count = 1
    BY <1>1, <2>0, <2>1 DEF Click!DropSelected, Holding, Contained
  <2>2. CASE ~(w.cursor = None \/ all \/ w.cursor.count = 1)
    <3>1. w.cursor.count \in 1 .. Size(w.cursor) /\ Size(w.cursor) \in 1 .. 64 BY <1>1, <2>2, StackShape
    <3>2. w.cursor.count - 1 \in 1 .. Size(w.cursor) BY <2>2, <3>1
    <3>3. Click!WithCount(w.cursor, w.cursor.count - 1) \in Stack BY <1>1, <2>2, <3>2, Recounted
    <3>4. Click!DropSelected(w, all) = [w EXCEPT !.cursor = Click!WithCount(w.cursor, w.cursor.count - 1)]
      BY <2>2 DEF Click!DropSelected, Click!WithCount
    <3> QED BY <1>1, <3>3, <3>4 DEF Holding, Contained
  <2> QED BY <2>1, <2>2
<1>3. ASSUME NEW slot \in Slot, NEW button \in {0, 1} PROVE Click!DropClicked(w, button, slot) \in Holding
  <2> DEFINE item == w.slots[slot]
             rest == IF button = 0 THEN item.count - 1 ELSE 0
  <2>1. CASE w.cursor # None \/ item = None BY <2>1 DEF Click!DropClicked
  <2>2. CASE ~(w.cursor # None \/ item = None)
    <3>0. item \in Stack BY <1>1
    <3>1. item.count \in 1 .. Size(item) /\ Size(item) \in 1 .. 64 BY <2>2, <3>0, StackShape
    <3>2. rest \in 0 .. Size(item) BY <3>1
    <3>3. (IF rest = 0 THEN None ELSE Click!WithCount(item, rest)) \in Stack
      <4>1. CASE rest = 0 BY <4>1 DEF Stack
      <4>2. CASE rest # 0
        <5>1. rest \in 1 .. Size(item) BY <3>1, <3>2, <4>2
        <5> HIDE DEF rest, item
        <5> QED BY <2>2, <3>0, <4>2, <5>1, Recounted
      <4> QED BY <4>1, <4>2
    <3>4. Click!DropClicked(w, button, slot)
            = [w EXCEPT !.slots[slot] = IF rest = 0 THEN None ELSE Click!WithCount(@, rest)]
      BY <2>2 DEF Click!DropClicked
    <3> QED BY <1>1, <3>3, <3>4 DEF Holding, Contained
  <2> QED BY <2>1, <2>2
<1> QED BY <1>2, <1>3

\* So does every click of the bot.
LEMMA ClickedType ==
  ASSUME NEW w \in Holding, NEW c \in Clicks
  PROVE  Clicked(w, c) \in Holding
<1>1. c.button \in {0, 1} /\ (c.mode = 4 => c.slot \in Slot) /\ (c.mode # 4 => c.slot \in Slot \cup {Outside})
  BY DEF Clicks
<1> QED BY <1>1, LeftType, RightType, DropType DEF Clicked

-----------------------------------------------------------------------------
(* Queues.                                                                 *)

\* Appending is joining with one.
LEMMA AppendJoins ==
  ASSUME NEW S, NEW q \in Seq(S), NEW m \in S
  PROVE  Append(q, m) = q \o <<m>> /\ <<m>> \in Seq(S) /\ Len(<<m>>) = 1 /\ <<m>>[1] = m
<1>1. Append(q, m) \in Seq(S) /\ Len(Append(q, m)) = Len(q) + 1
      /\ \A i \in 1 .. Len(q) + 1 : Append(q, m)[i] = IF i <= Len(q) THEN q[i] ELSE m
  BY LenProperties
<1>2. <<m>> \in Seq(S) /\ Len(<<m>>) = 1 /\ <<m>>[1] = m OBVIOUS
<1>3. q \o <<m>> \in Seq(S) /\ Len(q \o <<m>>) = Len(q) + 1
      /\ \A i \in 1 .. Len(q) + 1 : (q \o <<m>>)[i] = IF i <= Len(q) THEN q[i] ELSE m
  <2>1. Len(q) \in Nat BY LenProperties
  <2>2. \A i \in 1 .. Len(q) + 1 : i <= Len(q) \/ i - Len(q) = 1 BY <2>1
  <2> QED BY <1>2, <2>1, <2>2, ConcatProperties
<1>4. Append(q, m) = q \o <<m>> BY <1>1, <1>3, SeqEqual, LenProperties
<1> QED BY <1>2, <1>4

\* The elements of a queue that is joined from two, or has lost its first.
LEMMA Joined ==
  ASSUME NEW S, NEW q \in Seq(S), NEW r \in Seq(S)
  PROVE  /\ q \o r \in Seq(S)
         /\ Len(q) \in Nat /\ Len(r) \in Nat
         /\ DOMAIN q = 1 .. Len(q) /\ DOMAIN r = 1 .. Len(r)
         /\ DOMAIN (q \o r) = 1 .. Len(q) + Len(r)
         /\ \A k \in DOMAIN q : k \in DOMAIN (q \o r) /\ (q \o r)[k] = q[k]
         /\ \A k \in DOMAIN r : Len(q) + k \in DOMAIN (q \o r) /\ (q \o r)[Len(q) + k] = r[k]
         /\ \A k \in DOMAIN (q \o r) : k \in DOMAIN q \/ (k > Len(q) /\ k - Len(q) \in DOMAIN r
                                                         /\ (q \o r)[k] = r[k - Len(q)])
<1>1. Len(q) \in Nat /\ Len(r) \in Nat /\ DOMAIN q = 1 .. Len(q) /\ DOMAIN r = 1 .. Len(r) BY LenProperties
<1>2. q \o r \in Seq(S) /\ Len(q \o r) = Len(q) + Len(r)
      /\ \A i \in 1 .. Len(q) + Len(r) : (q \o r)[i] = IF i <= Len(q) THEN q[i] ELSE r[i - Len(q)]
  BY ConcatProperties
<1>3. DOMAIN (q \o r) = 1 .. Len(q) + Len(r) BY <1>2, LenProperties
<1> DEFINE both == q \o r
<1> HIDE DEF both
<1>4. \A k \in DOMAIN r : Len(q) + k \in 1 .. Len(q) + Len(r) /\ ~(Len(q) + k <= Len(q))
        /\ (Len(q) + k) - Len(q) = k
  BY <1>1
<1>5. \A k \in 1 .. Len(q) + Len(r) : k <= Len(q) => k \in 1 .. Len(q) BY <1>1
<1>6. \A k \in 1 .. Len(q) + Len(r) : ~(k <= Len(q)) => k > Len(q) /\ k - Len(q) \in 1 .. Len(r) BY <1>1
<1>7. \A k \in DOMAIN q : k \in 1 .. Len(q) + Len(r) /\ k <= Len(q) BY <1>1
<1> QED BY <1>1, <1>2, <1>3, <1>4, <1>5, <1>6, <1>7

\* The elements of a queue that has lost its first.
LEMMA Shifted ==
  ASSUME NEW S, NEW q \in Seq(S), q # <<>>
  PROVE  /\ Tail(q) \in Seq(S) /\ Head(q) = q[1] /\ q[1] \in S /\ 1 \in DOMAIN q
         /\ Len(q) \in Nat \ {0} /\ DOMAIN q = 1 .. Len(q)
         /\ DOMAIN Tail(q) = 1 .. Len(q) - 1
         /\ \A k \in DOMAIN Tail(q) : k + 1 \in DOMAIN q /\ Tail(q)[k] = q[k + 1]
         /\ \A k \in DOMAIN q : k = 1 \/ (k - 1 \in DOMAIN Tail(q) /\ Tail(q)[k - 1] = q[k])
<1>1. Len(q) \in Nat \ {0} /\ DOMAIN q = 1 .. Len(q) BY EmptySeq, LenProperties
<1>2. Tail(q) \in Seq(S) /\ Len(Tail(q)) = Len(q) - 1
      /\ \A i \in 1 .. Len(Tail(q)) : Tail(q)[i] = q[i + 1]
  BY HeadTailProperties
<1>3. DOMAIN Tail(q) = 1 .. Len(q) - 1 BY <1>2, LenProperties
<1>4. Head(q) = q[1] /\ q[1] \in S BY <1>1, HeadTailProperties, ElementOfSeq
<1>5. \A k \in 1 .. Len(q) - 1 : k + 1 \in 1 .. Len(q) BY <1>1
<1>6. \A k \in 1 .. Len(q) : k = 1 \/ (k - 1 \in 1 .. Len(q) - 1 /\ (k - 1) + 1 = k) BY <1>1
<1>7. 1 \in DOMAIN q BY <1>1
<1> QED BY <1>1, <1>2, <1>3, <1>4, <1>5, <1>6, <1>7

\* What is told after the nth of q, and then by r.
LEMMA SettlesConcat ==
  ASSUME NEW S, NEW q \in Seq(S), NEW r \in Seq(S), NEW n \in 0 .. Len(q),
         NEW id, NEW s, NEW v, NEW x, NEW y,
         Settles(q, n, id, s, v, x), Settles(r, 0, id, s, x, y)
  PROVE  Settles(q \o r, n, id, s, v, y)
<1> DEFINE both == q \o r
<1>1. /\ Len(q) \in Nat /\ Len(r) \in Nat
      /\ DOMAIN q = 1 .. Len(q) /\ DOMAIN r = 1 .. Len(r) /\ DOMAIN both = 1 .. Len(q) + Len(r)
      /\ \A k \in DOMAIN q : k \in DOMAIN both /\ both[k] = q[k]
      /\ \A k \in DOMAIN r : Len(q) + k \in DOMAIN both /\ both[Len(q) + k] = r[k]
      /\ \A k \in DOMAIN both : k \in DOMAIN q \/ (k > Len(q) /\ k - Len(q) \in DOMAIN r
                                                  /\ both[k] = r[k - Len(q)])
  BY Joined
<1>2. n \in Nat /\ n <= Len(q) BY <1>1
<1> HIDE DEF both
<1>3. CASE Silent(r, 0, id, s) /\ x = y
  <2>1. ASSUME NEW m \in Nat, Silent(q, m, id, s), m <= Len(q) PROVE Silent(both, m, id, s)
    <3>1. ASSUME NEW k \in DOMAIN both, k > m PROVE ~About(both[k], id, s)
      <4>1. CASE k \in DOMAIN q BY <1>1, <2>1, <3>1, <4>1 DEF Silent
      <4>2. CASE k > Len(q) /\ k - Len(q) \in DOMAIN r /\ both[k] = r[k - Len(q)]
        <5>1. k - Len(q) > 0 BY <1>1, <4>2
        <5> QED BY <1>3, <4>2, <5>1 DEF Silent
      <4> QED BY <1>1, <4>1, <4>2
    <3> QED BY <3>1 DEF Silent
  <2>2. CASE Silent(q, n, id, s) /\ v = x BY <1>2, <1>3, <2>1, <2>2 DEF Settles, both
  <2>3. ASSUME NEW k \in DOMAIN q, k > n, About(q[k], id, s), Says(q[k], s) = x, Silent(q, k, id, s)
        PROVE  Settles(both, n, id, s, v, y)
    <3>1. k \in Nat /\ k <= Len(q) BY <1>1
    <3>2. Silent(both, k, id, s) BY <2>1, <2>3, <3>1
    <3>3. k \in DOMAIN both /\ both[k] = q[k] BY <1>1
    <3> QED BY <1>3, <2>3, <3>2, <3>3 DEF Settles
  <2> QED BY <2>2, <2>3 DEF Settles, both
<1>4. ASSUME NEW k \in DOMAIN r, k > 0, About(r[k], id, s), Says(r[k], s) = y, Silent(r, k, id, s)
      PROVE  Settles(both, n, id, s, v, y)
  <2>1. Len(q) + k \in DOMAIN both /\ both[Len(q) + k] = r[k] BY <1>1
  <2>2. Len(q) + k > n BY <1>1, <1>2
  <2>3. ASSUME NEW l \in DOMAIN both, l > Len(q) + k PROVE ~About(both[l], id, s)
    <3>1. l \notin DOMAIN q BY <1>1, <2>3
    <3>2. l - Len(q) \in DOMAIN r /\ both[l] = r[l - Len(q)] BY <1>1, <3>1
    <3>3. l - Len(q) > k BY <1>1, <2>3
    <3> QED BY <1>4, <3>2, <3>3 DEF Silent
  <2>4. Silent(both, Len(q) + k, id, s) BY <2>3 DEF Silent
  <2> QED BY <1>4, <2>1, <2>2, <2>4 DEF Settles
<1> QED BY <1>3, <1>4 DEF Settles, both

\* What is told once the first has been taken.
LEMMA SettlesTail ==
  ASSUME NEW S, NEW q \in Seq(S), q # <<>>, NEW n \in 0 .. Len(q),
         NEW id, NEW s, NEW v, NEW x, Settles(q, n, id, s, v, x)
  PROVE  IF n = 0 THEN Settles(Tail(q), 0, id, s, IF About(q[1], id, s) THEN Says(q[1], s) ELSE v, x)
         ELSE Settles(Tail(q), n - 1, id, s, v, x)
<1> DEFINE t == Tail(q)
           before == IF n = 0 THEN 0 ELSE n - 1
           value == IF n = 0 /\ About(q[1], id, s) THEN Says(q[1], s) ELSE v
<1>1. /\ 1 \in DOMAIN q /\ Len(q) \in Nat \ {0} /\ DOMAIN q = 1 .. Len(q) /\ DOMAIN t = 1 .. Len(q) - 1
      /\ \A k \in DOMAIN t : k + 1 \in DOMAIN q /\ t[k] = q[k + 1]
      /\ \A k \in DOMAIN q : k = 1 \/ (k - 1 \in DOMAIN t /\ t[k - 1] = q[k])
  BY Shifted
<1>2. n \in Nat /\ before \in Nat BY <1>1
<1> HIDE DEF t
<1>3. ASSUME NEW m \in Nat, NEW l \in Nat, Silent(q, m, id, s), m <= l + 1 PROVE Silent(t, l, id, s)
  <2>1. ASSUME NEW k \in DOMAIN t, k > l PROVE ~About(t[k], id, s)
    <3>1. k + 1 \in DOMAIN q /\ t[k] = q[k + 1] /\ k + 1 > m BY <1>1, <1>3, <2>1
    <3> QED BY <1>3, <3>1 DEF Silent
  <2> QED BY <2>1 DEF Silent
<1>4. Settles(t, before, id, s, value, x)
  <2>1. CASE Silent(q, n, id, s) /\ v = x
    <3>1. n <= before + 1 BY <1>2
    <3>2. Silent(t, before, id, s) BY <1>2, <1>3, <2>1, <3>1
    <3>3. n = 0 => ~About(q[1], id, s) BY <1>1, <2>1 DEF Silent
    <3> QED BY <2>1, <3>2, <3>3 DEF Settles
  <2>2. ASSUME NEW k \in DOMAIN q, k > n, About(q[k], id, s), Says(q[k], s) = x, Silent(q, k, id, s)
        PROVE  Settles(t, before, id, s, value, x)
    <3>1. CASE k = 1
      <4>1. n = 0 BY <1>2, <2>2, <3>1
      <4>2. Silent(t, 0, id, s) BY <1>3, <2>2, <3>1
      <4>3. value = x BY <2>2, <3>1, <4>1
      <4> HIDE DEF value
      <4> QED BY <4>1, <4>2, <4>3 DEF Settles
    <3>2. CASE k # 1
      <4>1. k - 1 \in DOMAIN t /\ t[k - 1] = q[k] /\ k \in Nat /\ k - 1 \in Nat BY <1>1, <3>2
      <4>2. Silent(t, k - 1, id, s)
        <5>1. k <= (k - 1) + 1 BY <4>1
        <5> QED BY <1>3, <2>2, <4>1, <5>1
      <4>3. k - 1 > before BY <1>2, <2>2, <4>1, <3>2, <1>1
      <4> HIDE DEF value, before
      <4> QED BY <2>2, <4>1, <4>2, <4>3 DEF Settles
    <3> QED BY <3>1, <3>2
  <2> QED BY <2>1, <2>2 DEF Settles
<1> QED BY <1>4 DEF t

\* An empty queue tells nothing, nor does one that is not about the window.
LEMMA SettlesSilent ==
  ASSUME NEW S, NEW q \in Seq(S), NEW id, NEW s, NEW v, NEW x, None_Of(q, id)
  PROVE  Settles(q, 0, id, s, v, x) <=> v = x
<1>1. \A k \in DOMAIN q : ~About(q[k], id, s) BY DEF None_Of, About
<1> QED BY <1>1 DEF Settles, Silent

\* A joined queue is silent about a window when both parts are.
LEMMA NoneConcat ==
  ASSUME NEW S, NEW q \in Seq(S), NEW r \in Seq(S), NEW id
  PROVE  None_Of(q \o r, id) <=> None_Of(q, id) /\ None_Of(r, id)
<1>1. ASSUME None_Of(q \o r, id) PROVE None_Of(q, id) /\ None_Of(r, id)
  <2>1. ASSUME NEW k \in DOMAIN q PROVE ~OfWindow(q[k], id)
    <3>1. k \in DOMAIN (q \o r) /\ (q \o r)[k] = q[k] BY Joined
    <3> QED BY <1>1, <3>1 DEF None_Of
  <2>2. ASSUME NEW k \in DOMAIN r PROVE ~OfWindow(r[k], id)
    <3>1. Len(q) + k \in DOMAIN (q \o r) /\ (q \o r)[Len(q) + k] = r[k] BY Joined
    <3> QED BY <1>1, <3>1 DEF None_Of
  <2> QED BY <2>1, <2>2 DEF None_Of
<1>2. ASSUME None_Of(q, id), None_Of(r, id) PROVE None_Of(q \o r, id) BY <1>2, Joined DEF None_Of
<1> QED BY <1>1, <1>2

\* A queue is silent about a window when its first and the others are.
LEMMA NoneTail ==
  ASSUME NEW S, NEW q \in Seq(S), q # <<>>, NEW id
  PROVE  None_Of(q, id) <=> ~OfWindow(q[1], id) /\ None_Of(Tail(q), id)
<1>1. ASSUME None_Of(q, id) PROVE ~OfWindow(q[1], id) /\ None_Of(Tail(q), id) BY <1>1, Shifted DEF None_Of
<1>2. ASSUME ~OfWindow(q[1], id), None_Of(Tail(q), id) PROVE None_Of(q, id) BY <1>2, Shifted DEF None_Of
<1> QED BY <1>1, <1>2

\* One more that is about the slot settles it.
LEMMA SettlesLast ==
  ASSUME NEW S, NEW q \in Seq(S), NEW m \in S, NEW n \in 0 .. Len(q),
         NEW id, NEW s, NEW v, About(m, id, s)
  PROVE  Settles(q \o <<m>>, n, id, s, v, Says(m, s))
<1> DEFINE both == q \o <<m>>
<1>1. <<m>> \in Seq(S) /\ Len(<<m>>) = 1 /\ <<m>>[1] = m /\ Len(q) \in Nat BY AppendJoins, LenProperties
<1>2. DOMAIN both = 1 .. Len(q) + 1 BY <1>1, Joined
<1>3. both[Len(q) + 1] = m
  <2>1. 1 \in DOMAIN <<m>> BY <1>1
  <2> QED BY <1>1, <2>1, Joined
<1> HIDE DEF both
<1>4. Len(q) + 1 \in DOMAIN both /\ Len(q) + 1 > n /\ \A k \in DOMAIN both : ~(k > Len(q) + 1)
  BY <1>1, <1>2
<1>5. Silent(both, Len(q) + 1, id, s) BY <1>4 DEF Silent
<1> QED BY <1>3, <1>4, <1>5 DEF Settles, both

\* Taking the first packet keeps the order.
LEMMA OrderlyTail ==
  ASSUME NEW S, NEW q \in Seq(S), q # <<>>, NEW st, NEW o, Orderly(q, st, o)
  PROVE  Orderly(Tail(q), st, o)
<1> DEFINE t == Tail(q)
<1>1. /\ Len(q) \in Nat \ {0} /\ DOMAIN q = 1 .. Len(q) /\ DOMAIN t = 1 .. Len(q) - 1
      /\ \A k \in DOMAIN t : k + 1 \in DOMAIN q /\ t[k] = q[k + 1]
  BY Shifted
<1> HIDE DEF t
<1>2. PacketsKnown(t, st, o) BY <1>1 DEF Orderly, PacketsKnown
<1>3. \A k, l \in DOMAIN t : k < l => k + 1 < l + 1 BY <1>1
<1>4. ScreensInOrder(t) BY <1>1, <1>3 DEF Orderly, ScreensInOrder
<1>5. StatesInOrder(t) BY <1>1, <1>3 DEF Orderly, StatesInOrder
<1>6. ScreensFilled(t)
  <2> SUFFICES ASSUME NEW k \in DOMAIN t, t[k].kind = "open_screen"
               PROVE  k + 1 \in DOMAIN t /\ t[k + 1].kind = "content" /\ t[k + 1].id = t[k].id
    BY DEF ScreensFilled
  <2>1. (k + 1) + 1 \in DOMAIN q /\ q[(k + 1) + 1].kind = "content" /\ q[(k + 1) + 1].id = q[k + 1].id
    BY <1>1 DEF Orderly, ScreensFilled
  <2>2. k + 1 \in DOMAIN t BY <1>1, <2>1
  <2> QED BY <1>1, <2>1, <2>2
<1> QED BY <1>2, <1>4, <1>5, <1>6 DEF Orderly, t

\* What the server sends in one step is about one window, and newer than
\* all it has sent.
Batch(r, id, st, st2, o, o2) ==
  /\ \A k \in DOMAIN r :
       /\ Sets(r[k]) => r[k].id = id /\ st[id] < r[k].state_id /\ r[k].state_id <= st2[id]
       /\ r[k].kind = "open_screen" =>
            /\ r[k].id = id /\ o < id
            /\ k + 1 \in DOMAIN r /\ r[k + 1].kind = "content"
  /\ \A k, l \in DOMAIN r : k < l =>
       /\ Sets(r[k]) /\ Sets(r[l]) => r[k].state_id < r[l].state_id
       /\ ~(r[k].kind = "open_screen" /\ r[l].kind = "open_screen")
  /\ id <= o2 /\ o <= o2
  /\ \A i \in Ids : st[i] <= st2[i]

\* So does what the server sends in one step.
LEMMA OrderlyConcat ==
  ASSUME NEW q \in Seq(Packets), NEW r \in Seq(Packets), NEW id \in Ids,
         NEW st \in [Ids -> Nat], NEW st2 \in [Ids -> Nat], NEW o \in Ids, NEW o2 \in Ids,
         Orderly(q, st, o), Batch(r, id, st, st2, o, o2)
  PROVE  Orderly(q \o r, st2, o2)
<1> DEFINE both == q \o r
<1>1. /\ Len(q) \in Nat /\ Len(r) \in Nat
      /\ DOMAIN q = 1 .. Len(q) /\ DOMAIN r = 1 .. Len(r) /\ DOMAIN both = 1 .. Len(q) + Len(r)
      /\ \A k \in DOMAIN q : k \in DOMAIN both /\ both[k] = q[k]
      /\ \A k \in DOMAIN r : Len(q) + k \in DOMAIN both /\ both[Len(q) + k] = r[k]
      /\ \A k \in DOMAIN both : k \in DOMAIN q \/ (k > Len(q) /\ k - Len(q) \in DOMAIN r
                                                  /\ both[k] = r[k - Len(q)])
  BY Joined, SMTT(40)
<1> HIDE DEF both
<1>2. \A p \in Packets :
        /\ Sets(p) => p.id \in Ids /\ p.state_id \in Nat
        /\ p.kind = "open_screen" => p.id \in Ids
  BY DEF Packets, Content, SlotPacket, Screen, Quiet, Sets
<1>3. \A k \in DOMAIN q : q[k] \in Packets BY <1>1, ElementOfSeq
<1>4. \A k \in DOMAIN r : r[k] \in Packets BY <1>1, ElementOfSeq
<1>5. MaxWindows \in Nat /\ \A i \in Ids : i \in Nat BY BoundsAssumption DEF Ids
<1>6. ASSUME NEW k \in DOMAIN q
      PROVE  /\ Sets(q[k]) => q[k].state_id <= st2[q[k].id] /\ q[k].state_id <= st[q[k].id] /\ q[k].id <= o2
             /\ q[k].kind = "open_screen" => q[k].id <= o /\ q[k].id <= o2
  <2>1. /\ Sets(q[k]) => q[k].state_id <= st[q[k].id] /\ q[k].id <= o
        /\ q[k].kind = "open_screen" => q[k].id <= o
    BY DEF Orderly, PacketsKnown
  <2>2. \A i \in Ids : st[i] \in Nat /\ st2[i] \in Nat /\ st[i] <= st2[i] BY DEF Batch
  <2>3. o <= o2 BY DEF Batch
  <2>4. q[k] \in Packets BY <1>3
  <2>5. ASSUME Sets(q[k])
        PROVE  q[k].state_id <= st2[q[k].id] /\ q[k].state_id <= st[q[k].id] /\ q[k].id <= o2
    <3> DEFINE i == q[k].id
               n == q[k].state_id
    <3>1. i \in Ids /\ n \in Nat /\ n <= st[i] /\ i <= o BY <1>2, <2>1, <2>4, <2>5
    <3> HIDE DEF i, n
    <3>2. i \in Nat /\ o \in Nat /\ o2 \in Nat BY <1>5, <3>1
    <3>3. n <= st2[i] /\ i <= o2 BY <2>2, <2>3, <3>1, <3>2, SMTT(40)
    <3> QED BY <3>1, <3>3 DEF i, n
  <2>6. ASSUME q[k].kind = "open_screen" PROVE q[k].id <= o /\ q[k].id <= o2
    <3>1. q[k].id \in Ids /\ q[k].id <= o BY <1>2, <2>1, <2>4, <2>6
    <3> DEFINE i == q[k].id
    <3> HIDE DEF i
    <3>2. i \in Nat /\ o \in Nat /\ o2 \in Nat /\ i <= o BY <1>5, <3>1 DEF i
    <3>3. i <= o2 BY <2>3, <3>2
    <3> QED BY <3>1, <3>3 DEF i
  <2> QED BY <2>5, <2>6
<1>7. PacketsKnown(both, st2, o2)
  <2> SUFFICES ASSUME NEW k \in DOMAIN both
               PROVE  /\ Sets(both[k]) => both[k].state_id <= st2[both[k].id] /\ both[k].id <= o2
                      /\ both[k].kind = "open_screen" => both[k].id <= o2
    BY DEF PacketsKnown
  <2>1. CASE k \in DOMAIN q BY <1>1, <1>6, <2>1
  <2>2. CASE k - Len(q) \in DOMAIN r /\ both[k] = r[k - Len(q)] BY <2>2 DEF Batch
  <2> QED BY <1>1, <2>1, <2>2
<1>8. ScreensInOrder(both)
  <2> SUFFICES ASSUME NEW k \in DOMAIN both, NEW l \in DOMAIN both, k < l,
                      both[k].kind = "open_screen", both[l].kind = "open_screen"
               PROVE  both[k].id < both[l].id
    BY DEF ScreensInOrder
  <2>1. CASE l \in DOMAIN q
    <3>1. k \in DOMAIN q BY <1>1, <2>1
    <3> QED BY <1>1, <2>1, <3>1 DEF Orderly, ScreensInOrder
  <2>2. CASE l - Len(q) \in DOMAIN r /\ both[l] = r[l - Len(q)]
    <3>1. both[l].id = id /\ o < id BY <2>2 DEF Batch
    <3>2. CASE k \in DOMAIN q
      <4>1. both[k] = q[k] /\ q[k].id <= o /\ q[k].id \in Ids BY <1>1, <1>2, <1>3, <1>6, <3>2
      <4> DEFINE i == q[k].id
      <4> HIDE DEF i
      <4>2. i \in Nat /\ o \in Nat /\ id \in Nat /\ i <= o BY <1>5, <4>1 DEF i
      <4>3. i < id BY <3>1, <4>2
      <4> QED BY <3>1, <4>1, <4>3 DEF i
    <3>3. CASE k - Len(q) \in DOMAIN r /\ both[k] = r[k - Len(q)]
      <4>1. k - Len(q) < l - Len(q) BY <1>1
      <4> QED BY <2>2, <3>3, <4>1 DEF Batch
    <3> QED BY <1>1, <3>2, <3>3
  <2> QED BY <1>1, <2>1, <2>2
<1>9. StatesInOrder(both)
  <2> SUFFICES ASSUME NEW k \in DOMAIN both, NEW l \in DOMAIN both, k < l,
                      Sets(both[k]), Sets(both[l]), both[k].id = both[l].id
               PROVE  both[k].state_id < both[l].state_id
    BY DEF StatesInOrder
  <2>1. CASE l \in DOMAIN q
    <3>1. k \in DOMAIN q BY <1>1, <2>1
    <3> QED BY <1>1, <2>1, <3>1 DEF Orderly, StatesInOrder
  <2>2. CASE l - Len(q) \in DOMAIN r /\ both[l] = r[l - Len(q)]
    <3>1. both[l].id = id /\ st[id] < both[l].state_id BY <2>2 DEF Batch
    <3>2. CASE k \in DOMAIN q
      <4>1. both[k] = q[k] /\ q[k].state_id <= st[id] /\ q[k].state_id \in Nat BY <1>1, <1>2, <1>3, <1>6, <3>1, <3>2
      <4>2. both[l].state_id \in Nat BY <1>2, <1>4, <2>2
      <4>3. st[id] \in Nat OBVIOUS
      <4> QED BY <3>1, <4>1, <4>2, <4>3
    <3>3. CASE k - Len(q) \in DOMAIN r /\ both[k] = r[k - Len(q)]
      <4>1. k - Len(q) < l - Len(q) BY <1>1
      <4> QED BY <2>2, <3>3, <4>1 DEF Batch
    <3> QED BY <1>1, <3>2, <3>3
  <2> QED BY <1>1, <2>1, <2>2
<1>10. ScreensFilled(both)
  <2> SUFFICES ASSUME NEW k \in DOMAIN both, both[k].kind = "open_screen"
               PROVE  k + 1 \in DOMAIN both /\ both[k + 1].kind = "content" /\ both[k + 1].id = both[k].id
    BY DEF ScreensFilled
  <2>1. CASE k \in DOMAIN q
    <3>1. k + 1 \in DOMAIN q /\ q[k + 1].kind = "content" /\ q[k + 1].id = q[k].id
      BY <1>1, <2>1 DEF Orderly, ScreensFilled
    <3> QED BY <1>1, <2>1, <3>1
  <2>2. CASE k - Len(q) \in DOMAIN r /\ both[k] = r[k - Len(q)]
    <3> DEFINE j == k - Len(q)
    <3>1. j + 1 \in DOMAIN r /\ r[j + 1].kind = "content" /\ r[j].id = id BY <2>2 DEF Batch
    <3>2. r[j + 1].id = id BY <3>1 DEF Batch, Sets
    <3>3. Len(q) + (j + 1) \in DOMAIN both /\ both[Len(q) + (j + 1)] = r[j + 1] BY <1>1, <3>1
    <3>4. Len(q) + (j + 1) = k + 1 BY <1>1
    <3> QED BY <2>2, <3>1, <3>2, <3>3, <3>4
  <2> QED BY <1>1, <2>1, <2>2
<1> QED BY <1>7, <1>8, <1>9, <1>10 DEF Orderly, both

-----------------------------------------------------------------------------
(* Places, and what the server sends about them.                           *)

\* The places of the slots of a window: distinct, and back again.
LEMMA Places ==
  ASSUME NEW id \in Ids
  PROVE  /\ Slot \subseteq Nat /\ Own \in Slot /\ Section \subseteq Slot
         /\ \A s \in Slot : At(id, s) \in Place
         /\ \A s, t \in Slot : At(id, s) = At(id, t) => s = t
         /\ \A s \in Slot : (IF At(id, s) = Grid THEN Own ELSE At(id, s)) = s
<1>1. Slot \subseteq Nat /\ Own \in Slot /\ Section \subseteq Slot
  BY InvSizeAssumption DEF Slot, Own, Section
<1>2. \A s \in Slot : At(id, s) = Grid \/ At(id, s) = s BY DEF At
<1>3. \A s \in Slot : At(id, s) = Grid => s = Own
  <2>1. \A s \in Slot : s # Grid BY <1>1 DEF Grid
  <2> QED BY <2>1 DEF At
<1>4. \A s \in Slot : At(id, s) # Grid => At(id, s) = s BY <1>2
<1>5. \A s \in Slot : At(id, s) \in Place BY <1>2 DEF Place
<1> QED BY <1>1, <1>3, <1>4, <1>5

\* The overlay at the place of a slot.
LEMMA OverlayAt ==
  ASSUME NEW id \in Ids, NEW f, DOMAIN f \subseteq Slot, NEW g, NEW s \in Slot
  PROVE  Overlay(f, id, g)[At(id, s)] = IF s \in DOMAIN f THEN f[s] ELSE g[At(id, s)]
<1>1. At(id, s) \in Place /\ (IF At(id, s) = Grid THEN Own ELSE At(id, s)) = s BY Places
<1>2. (\E i \in DOMAIN f : At(id, s) = At(id, i)) <=> s \in DOMAIN f BY Places
<1> QED BY <1>1, <1>2 DEF Overlay

\* An overlay of stacks holds stacks, and shows what was laid.
LEMMA OverlayType ==
  ASSUME NEW id \in Ids, NEW f \in Contained, NEW g \in [Place -> Stack]
  PROVE  Overlay(f, id, g) \in [Place -> Stack] /\ View(Overlay(f, id, g), id) = f
<1>1. DOMAIN f = Slot /\ \A s \in Slot : f[s] \in Stack BY DEF Contained
<1>2. \A p \in Place : Overlay(f, id, g)[p] \in Stack
  <2> TAKE p \in Place
  <2>1. CASE \E i \in DOMAIN f : p = At(id, i)
    <3>1. (IF p = Grid THEN Own ELSE p) \in Slot BY <1>1, <2>1, Places
    <3>2. Overlay(f, id, g)[p] = f[IF p = Grid THEN Own ELSE p] BY <2>1 DEF Overlay
    <3> QED BY <1>1, <3>1, <3>2
  <2>2. CASE ~\E i \in DOMAIN f : p = At(id, i)
    <3>1. Overlay(f, id, g)[p] = g[p] BY <2>2 DEF Overlay
    <3> QED BY <3>1
  <2> QED BY <2>1, <2>2
<1>3. Overlay(f, id, g) \in [Place -> Stack] BY <1>2 DEF Overlay
<1>4. \A s \in Slot : Overlay(f, id, g)[At(id, s)] = f[s] BY <1>1, OverlayAt
<1>5. View(Overlay(f, id, g), id) = f BY <1>1, <1>4 DEF View, Contained
<1> QED BY <1>3, <1>5

\* After sending, the server takes the bot to show what it has sent.
LEMMA ShownAfter ==
  ASSUME NEW id \in Ids, NEW f, NEW g
  PROVE  View(Overlay(View(f, id), id, g), id) = View(f, id)
<1>1. DOMAIN View(f, id) = Slot BY DEF View
<1>2. \A s \in Slot : Overlay(View(f, id), id, g)[At(id, s)] = View(f, id)[s] BY <1>1, OverlayAt
<1> QED BY <1>2 DEF View

\* What a window shows of stacks is stacks.
LEMMA ViewType ==
  ASSUME NEW id \in Ids, NEW f \in [Place -> Stack]
  PROVE  View(f, id) \in Contained /\ \A s \in Slot : View(f, id)[s] = f[At(id, s)]
BY Places DEF View, Contained

\* SetToSeq lists each element of a finite set once.
LEMMA Listing ==
  ASSUME NEW T, IsFiniteSet(T)
  PROVE  /\ SetToSeq(T) \in Seq(T)
         /\ \A x \in T : \E k \in DOMAIN SetToSeq(T) : SetToSeq(T)[k] = x
         /\ \A k, l \in DOMAIN SetToSeq(T) : SetToSeq(T)[k] = SetToSeq(T)[l] => k = l
<1> DEFINE n == Cardinality(T)
           f == SetToSeq(T)
<1>1. n \in Nat /\ ExistsBijection(1 .. n, T) BY FS_CardinalityType
<1>2. \E h \in [1 .. n -> T] : IsInjective(h) BY <1>1 DEF ExistsBijection, Bijection, Injection
<1>3. f \in [1 .. n -> T] /\ IsInjective(f)
  <2> HIDE DEF n
  <2> QED BY <1>2 DEF SetToSeq, n
<1>4. f \in Surjection(1 .. n, T)
  <2>1. f \in Injection(1 .. n, T) BY <1>3 DEF Injection
  <2>2. Cardinality(1 .. n) = n
    <3> HIDE DEF n
    <3>1. Cardinality(1 .. n) = IF 1 > n THEN 0 ELSE n - 1 + 1 BY <1>1, FS_Interval
    <3> QED BY <1>1, <3>1
  <2> HIDE DEF f
  <2> QED BY <2>1, <2>2, FS_Injection
<1>5. f \in Seq(T) BY <1>1, <1>3, SeqDef
<1> HIDE DEF n
<1> QED BY <1>3, <1>4, <1>5 DEF Surjection, IsInjective

\* The slot packets of a broadcast: the slots that differ, each once.
LEMMA BroadcastTells ==
  ASSUME NEW id \in Ids, NEW f \in [Place -> Stack], NEW g, stateId \in [Ids -> Nat]
  PROVE  /\ SlotPackets(f, g, id) \in Seq(Packets)
         /\ Len(SlotPackets(f, g, id)) = Len(Differences(f, g, id))
         /\ \A k \in DOMAIN SlotPackets(f, g, id) :
              /\ SlotPackets(f, g, id)[k].kind = "slot"
              /\ SlotPackets(f, g, id)[k].id = id
              /\ SlotPackets(f, g, id)[k].state_id = stateId[id] + k
         /\ \A s \in Slot : Settles(SlotPackets(f, g, id), 0, id, s, g[At(id, s)], f[At(id, s)])
<1> DEFINE T == {i \in Slot : f[At(id, i)] # g[At(id, i)]}
           d == Differences(f, g, id)
           r == SlotPackets(f, g, id)
<1>1. IsFiniteSet(T)
  <2>1. \A s \in T : s \in Nat /\ s <= InvSize BY InvSizeAssumption DEF Slot, Own, Section
  <2>2. InvSize \in Nat /\ T \in SUBSET Nat BY <2>1, InvSizeAssumption
  <2> HIDE DEF T
  <2> QED BY <2>1, <2>2, FS_BoundedSetOfNaturals
<1>2. /\ d \in Seq(T)
      /\ \A x \in T : \E k \in DOMAIN d : d[k] = x
      /\ \A k, l \in DOMAIN d : d[k] = d[l] => k = l
  <2>1. d = SetToSeq(T) BY DEF Differences
  <2> HIDE DEF T, d
  <2> QED BY <1>1, <2>1, Listing
<1>3. Len(d) \in Nat /\ DOMAIN d = 1 .. Len(d) /\ \A k \in DOMAIN d : d[k] \in T
  <2> HIDE DEF T, d
  <2> QED BY <1>2, LenProperties, ElementOfSeq
<1>4. \A k \in DOMAIN d : d[k] \in Slot /\ f[At(id, d[k])] # g[At(id, d[k])] BY <1>3
<1>5. r = [k \in DOMAIN d |-> [kind |-> "slot", id |-> id, state_id |-> stateId[id] + k,
                               slot |-> d[k], item |-> f[At(id, d[k])]]]
  BY DEF SlotPackets
<1> HIDE DEF d, r
<1>6. \A k \in DOMAIN d : r[k] \in Packets
  <2> TAKE k \in DOMAIN d
  <2>1. f[At(id, d[k])] \in Stack BY <1>4, Places
  <2>2. stateId[id] + k \in Nat \ {0} BY <1>3
  <2> QED BY <1>4, <1>5, <2>1, <2>2 DEF Packets, SlotPacket
<1>7. r \in Seq(Packets) /\ Len(r) = Len(d) /\ DOMAIN r = DOMAIN d
  <2>1. r \in [1 .. Len(d) -> Packets] BY <1>3, <1>5, <1>6
  <2>2. r \in Seq(Packets) BY <1>3, <2>1, SeqDef
  <2>3. DOMAIN r = DOMAIN d BY <1>5
  <2>4. Len(r) = Len(d) BY <1>3, <2>2, <2>3, LenProperties
  <2> QED BY <2>2, <2>3, <2>4
<1>8. \A k \in DOMAIN r : r[k].kind = "slot" /\ r[k].id = id /\ r[k].state_id = stateId[id] + k
                          /\ r[k].slot = d[k] /\ r[k].item = f[At(id, d[k])]
  BY <1>5, <1>7
<1>9. \A k \in DOMAIN r, s \in Slot : (About(r[k], id, s) <=> d[k] = s) /\ Says(r[k], s) = f[At(id, d[k])]
  BY <1>8 DEF About, OfWindow, Says
<1>10. ASSUME NEW s \in Slot PROVE Settles(r, 0, id, s, g[At(id, s)], f[At(id, s)])
  <2>1. CASE s \in T
    <3>1. PICK k \in DOMAIN d : d[k] = s BY <1>2, <2>1
    <3>2. About(r[k], id, s) /\ Says(r[k], s) = f[At(id, s)] BY <1>7, <1>9, <3>1
    <3>3. Silent(r, k, id, s)
      <4> SUFFICES ASSUME NEW l \in DOMAIN r, l > k PROVE ~About(r[l], id, s) BY DEF Silent
      <4>1. l # k BY <1>3, <1>7
      <4>2. d[l] # s BY <1>2, <1>7, <3>1, <4>1
      <4> QED BY <1>9, <4>2
    <3>4. k > 0 BY <1>3
    <3> QED BY <1>7, <3>2, <3>3, <3>4 DEF Settles
  <2>2. CASE s \notin T
    <3>1. \A k \in DOMAIN r : d[k] # s BY <1>3, <1>7, <2>2
    <3>2. Silent(r, 0, id, s) BY <1>9, <3>1 DEF Silent
    <3> QED BY <2>2, <3>2 DEF Settles
  <2> QED BY <2>1, <2>2
<1> QED BY <1>7, <1>8, <1>10 DEF d, r

\* The fields of a packet, by kind.
LEMMA PacketShape ==
  ASSUME NEW p \in Packets
  PROVE  /\ Sets(p) => p.id \in Ids /\ p.state_id \in Nat \ {0}
         /\ p.kind = "content" => p.slots \in Contained
         /\ p.kind = "slot" => p.slot \in Slot /\ p.item \in Stack
         /\ p.kind = "open_screen" => p.id \in Ids \ {0}
         /\ p.kind = "player_inventory" => p.slotId \in Slot /\ p.item \in Stack
         /\ p.kind # "click"
BY DEF Packets, Content, SlotPacket, Screen, Quiet, Sets

\* The fields of a message of the bot.
LEMMA RequestShape ==
  ASSUME NEW m \in Requests
  PROVE  /\ m.kind = "click" =>
              m.id \in Ids /\ m.state_id \in Nat /\ m.click \in Clicks
              /\ DOMAIN m.changed \subseteq Slot /\ \A i \in DOMAIN m.changed : m.changed[i] \in Stack
         /\ m.kind \in {"click", "use", "close"}
BY DEF Requests, ClickRequest, Reports

\* The step of the server keeps the order.
LEMMA TellInOrder ==
  ASSUME Types, Types', InOrder, UNCHANGED <<inventory, current_window>>,
         NEW r \in Seq(Packets), NEW id \in Ids, toClient' = toClient \o r,
         Batch(r, id, stateId, stateId', opened, opened'),
         \A k \in DOMAIN toServer' : \E j \in DOMAIN toServer : toServer'[k] = toServer[j]
  PROVE  InOrder'
<1>1. MaxWindows \in Nat /\ \A i \in Ids : i \in Nat BY BoundsAssumption DEF Ids
<1>2. opened \in Ids /\ opened' \in Ids /\ stateId \in [Ids -> Nat] /\ stateId' \in [Ids -> Nat]
      /\ toClient \in Seq(Packets) /\ toServer \in Seq(Requests)
  BY DEF Types
<1>3. opened <= opened' /\ \A i \in Ids : stateId[i] <= stateId'[i] /\ stateId[i] \in Nat /\ stateId'[i] \in Nat
  BY <1>2 DEF Batch
<1>4. opened \in Nat /\ opened' \in Nat BY <1>1, <1>2
<1>5. Orderly(toClient, stateId, opened)' BY <1>2, OrderlyConcat DEF InOrder
<1>6. ClicksKnown(toServer, stateId, opened)'
  <2> SUFFICES ASSUME NEW k \in DOMAIN toServer', toServer'[k].kind = "click"
               PROVE  toServer'[k].state_id <= stateId'[toServer'[k].id] /\ toServer'[k].id <= opened'
    BY DEF ClicksKnown
  <2>1. PICK j \in DOMAIN toServer : toServer'[k] = toServer[j] OBVIOUS
  <2> DEFINE m == toServer[j]
  <2>2. m \in Requests BY <1>2, LenProperties, ElementOfSeq
  <2>3. m.id \in Ids /\ m.state_id \in Nat BY <2>1, <2>2, RequestShape
  <2>4. m.state_id <= stateId[m.id] /\ m.id <= opened BY <2>1 DEF InOrder, ClicksKnown
  <2> HIDE DEF m
  <2>5. m.state_id <= stateId'[m.id] BY <1>3, <2>3, <2>4
  <2>6. m.id <= opened' BY <1>1, <1>3, <1>4, <2>3, <2>4
  <2> QED BY <2>1, <2>5, <2>6 DEF m
<1>7. \A k \in DOMAIN toClient' : (k \in DOMAIN toClient /\ toClient'[k] = toClient[k])
                                  \/ \E l \in DOMAIN r : toClient'[k] = r[l]
  <2>1. \A k \in DOMAIN (toClient \o r) :
          k \in DOMAIN toClient \/ (k - Len(toClient) \in DOMAIN r /\ (toClient \o r)[k] = r[k - Len(toClient)])
    BY <1>2, Joined, SMTT(40)
  <2>2. \A k \in DOMAIN toClient : (toClient \o r)[k] = toClient[k] BY <1>2, Joined
  <2> QED BY <2>1, <2>2
<1>8. Behind'
  <2>1. inventory'.state_id <= stateId'[0]
    <3>1. inventory.state_id \in Nat /\ 0 \in Ids BY <1>1 DEF Types, WindowOf, Ids
    <3>2. inventory.state_id <= stateId[0] BY DEF InOrder, Behind
    <3> QED BY <1>3, <3>1, <3>2
  <2>2. ASSUME current_window' # NoWindow
        PROVE  /\ current_window'.id <= opened'
               /\ current_window'.state_id <= stateId'[current_window'.id]
               /\ \A k \in DOMAIN toClient' :
                    /\ toClient'[k].kind = "open_screen" => current_window'.id < toClient'[k].id
                    /\ Sets(toClient'[k]) /\ toClient'[k].id = current_window'.id
                         => current_window'.state_id < toClient'[k].state_id
    <3> DEFINE c == current_window
    <3>1. c' = c /\ c # NoWindow BY <2>2
    <3>2. c.id \in Ids /\ c.state_id \in Nat BY <3>1 DEF Types, WindowOf
    <3>3. c.id <= opened /\ c.state_id <= stateId[c.id] BY <3>1 DEF InOrder, Behind
    <3>4. c.id \in Nat BY <1>1, <3>2
    <3>5. c.id <= opened' /\ c.state_id <= stateId'[c.id]
      <4> HIDE DEF c
      <4> QED BY <1>3, <1>4, <3>2, <3>3, <3>4
    <3>6. ASSUME NEW k \in DOMAIN toClient'
          PROVE  /\ toClient'[k].kind = "open_screen" => c.id < toClient'[k].id
                 /\ Sets(toClient'[k]) /\ toClient'[k].id = c.id => c.state_id < toClient'[k].state_id
      <4>1. CASE k \in DOMAIN toClient /\ toClient'[k] = toClient[k]
        BY <3>1, <4>1 DEF InOrder, Behind
      <4>2. ASSUME NEW l \in DOMAIN r, toClient'[k] = r[l]
            PROVE  /\ toClient'[k].kind = "open_screen" => c.id < toClient'[k].id
                   /\ Sets(toClient'[k]) /\ toClient'[k].id = c.id => c.state_id < toClient'[k].state_id
        <5>1. r[l] \in Packets BY LenProperties, ElementOfSeq
        <5>2. ASSUME r[l].kind = "open_screen" PROVE c.id < r[l].id
          <6>1. r[l].id = id /\ opened < id BY <5>2 DEF Batch
          <6>2. id \in Nat BY <1>1
          <6> HIDE DEF c
          <6> QED BY <1>4, <3>3, <3>4, <6>1, <6>2
        <5>3. ASSUME Sets(r[l]), r[l].id = c.id PROVE c.state_id < r[l].state_id
          <6>1. r[l].id = id /\ stateId[id] < r[l].state_id BY <5>3 DEF Batch
          <6>2. r[l].state_id \in Nat BY <5>1, <5>3, PacketShape
          <6> HIDE DEF c
          <6> QED BY <1>3, <3>2, <3>3, <5>3, <6>1, <6>2
        <5> QED BY <4>2, <5>2, <5>3
      <4> QED BY <1>7, <4>1, <4>2
    <3> QED BY <3>1, <3>5, <3>6
  <2> QED BY <2>1, <2>2 DEF Behind
<1>9. ClicksBehind'
  <2> SUFFICES ASSUME NEW i \in DOMAIN toServer', NEW k \in DOMAIN toClient',
                      toServer'[i].kind = "click", toClient'[k].kind = "open_screen"
               PROVE  toServer'[i].id < toClient'[k].id
    BY DEF ClicksBehind
  <2>1. PICK j \in DOMAIN toServer : toServer'[i] = toServer[j] OBVIOUS
  <2>2. CASE k \in DOMAIN toClient /\ toClient'[k] = toClient[k]
    BY <2>1, <2>2 DEF InOrder, ClicksBehind
  <2>3. ASSUME NEW l \in DOMAIN r, toClient'[k] = r[l] PROVE toServer'[i].id < toClient'[k].id
    <3>1. r[l].id = id /\ opened < id BY <2>3 DEF Batch
    <3>2. toServer[j] \in Requests BY <1>2, LenProperties, ElementOfSeq
    <3>3. toServer[j].id <= opened /\ toServer[j].id \in Ids BY <2>1, <3>2, RequestShape DEF InOrder, ClicksKnown
    <3>4. toServer[j].id \in Nat /\ id \in Nat BY <1>1, <3>3
    <3> QED BY <1>4, <2>1, <2>3, <3>1, <3>3, <3>4
  <2> QED BY <1>7, <2>2, <2>3
<1> QED BY <1>5, <1>6, <1>8, <1>9 DEF InOrder

\* The slot packets of a broadcast keep the order; so do quiet packets
\* before what does.
LEMMA BroadcastBatch ==
  ASSUME NEW id \in Ids, NEW f \in [Place -> Stack], NEW g, stateId \in [Ids -> Nat],
         NEW o \in Ids, id <= o
  PROVE  LET st == [stateId EXCEPT ![id] = @ + Len(Differences(f, g, id))]
         IN  st \in [Ids -> Nat] /\ Batch(SlotPackets(f, g, id), id, stateId, st, o, o)
<1> DEFINE r == SlotPackets(f, g, id)
           n == Len(Differences(f, g, id))
           st == [stateId EXCEPT ![id] = @ + n]
<1>1. /\ r \in Seq(Packets) /\ Len(r) = n
      /\ \A k \in DOMAIN r : r[k].kind = "slot" /\ r[k].id = id /\ r[k].state_id = stateId[id] + k
  BY BroadcastTells
<1>2. n \in Nat /\ DOMAIN r = 1 .. n BY <1>1, LenProperties
<1> HIDE DEF r, n
<1>3. stateId[id] \in Nat /\ o \in Nat BY BoundsAssumption DEF Ids
<1>4. st \in [Ids -> Nat] /\ st[id] = stateId[id] + n /\ \A i \in Ids : stateId[i] <= st[i]
  <2>1. stateId[id] + n \in Nat BY <1>2, <1>3
  <2>2. \A i \in Ids : i # id => st[i] = stateId[i] OBVIOUS
  <2>3. \A i \in Ids : stateId[i] \in Nat OBVIOUS
  <2>4. st[id] = stateId[id] + n OBVIOUS
  <2>5. st \in [Ids -> Nat] BY <2>1
  <2>6. stateId[id] <= st[id] BY <1>2, <1>3, <2>4
  <2>7. \A i \in Ids : stateId[i] <= st[i] BY <2>2, <2>3, <2>6
  <2> QED BY <2>4, <2>5, <2>7
<1> HIDE DEF st
<1>5. \A k \in DOMAIN r : stateId[id] < stateId[id] + k /\ stateId[id] + k <= st[id] BY <1>2, <1>3, <1>4
<1>6. \A k, l \in DOMAIN r : k < l => stateId[id] + k < stateId[id] + l BY <1>2, <1>3
<1>7. Batch(r, id, stateId, st, o, o) BY <1>1, <1>3, <1>4, <1>5, <1>6 DEF Batch
<1> QED BY <1>4, <1>7 DEF r, n, st

\* Quiet packets set no slot of a container and open none.
LEMMA QuietPacket ==
  ASSUME NEW p \in Quiet
  PROVE  ~Sets(p) /\ p.kind # "open_screen" /\ p \in Packets
BY DEF Quiet, Sets, Packets

\* Quiet packets before a batch make a batch.
LEMMA QuietBatch ==
  ASSUME NEW q \in Seq(Quiet), NEW r \in Seq(Packets), NEW id, NEW st, NEW st2, NEW o, NEW o2,
         Batch(r, id, st, st2, o, o2)
  PROVE  q \o r \in Seq(Packets) /\ q \in Seq(Packets) /\ Batch(q \o r, id, st, st2, o, o2)
<1> DEFINE both == q \o r
<1>1. q \in Seq(Packets)
  <2>1. Quiet \subseteq Packets BY QuietPacket
  <2> QED BY <2>1, SeqMonotonic
<1>2. /\ Len(q) \in Nat /\ Len(r) \in Nat /\ both \in Seq(Packets)
      /\ DOMAIN q = 1 .. Len(q) /\ DOMAIN r = 1 .. Len(r) /\ DOMAIN both = 1 .. Len(q) + Len(r)
      /\ \A k \in DOMAIN q : k \in DOMAIN both /\ both[k] = q[k]
      /\ \A k \in DOMAIN r : Len(q) + k \in DOMAIN both /\ both[Len(q) + k] = r[k]
      /\ \A k \in DOMAIN both : k \in DOMAIN q \/ (k > Len(q) /\ k - Len(q) \in DOMAIN r
                                                  /\ both[k] = r[k - Len(q)])
  BY <1>1, Joined
<1> HIDE DEF both
<1>3. ASSUME NEW k \in DOMAIN both, Sets(both[k]) \/ both[k].kind = "open_screen"
      PROVE  k - Len(q) \in DOMAIN r /\ both[k] = r[k - Len(q)] /\ k > Len(q)
  <2>1. k \notin DOMAIN q
    <3>1. ASSUME k \in DOMAIN q PROVE FALSE
      <4>1. q[k] \in Quiet BY <1>2, <3>1, ElementOfSeq
      <4>2. both[k] = q[k] BY <1>2, <3>1
      <4> QED BY <1>3, <4>1, <4>2, QuietPacket
    <3> QED BY <3>1
  <2> QED BY <1>2, <2>1
<1>4. ASSUME NEW k \in DOMAIN both
      PROVE  /\ Sets(both[k]) => both[k].id = id /\ st[id] < both[k].state_id /\ both[k].state_id <= st2[id]
             /\ both[k].kind = "open_screen" =>
                  both[k].id = id /\ o < id /\ k + 1 \in DOMAIN both /\ both[k + 1].kind = "content"
  <2>1. ASSUME Sets(both[k])
        PROVE  both[k].id = id /\ st[id] < both[k].state_id /\ both[k].state_id <= st2[id]
    BY <1>3, <2>1 DEF Batch
  <2>2. ASSUME both[k].kind = "open_screen"
        PROVE  both[k].id = id /\ o < id /\ k + 1 \in DOMAIN both /\ both[k + 1].kind = "content"
    <3> DEFINE j == k - Len(q)
    <3>1. j \in DOMAIN r /\ both[k] = r[j] BY <1>3, <2>2
    <3>2. r[j].id = id /\ o < id /\ j + 1 \in DOMAIN r /\ r[j + 1].kind = "content"
      BY <2>2, <3>1 DEF Batch
    <3>3. Len(q) + (j + 1) \in DOMAIN both /\ both[Len(q) + (j + 1)] = r[j + 1] BY <1>2, <3>2
    <3>4. Len(q) + (j + 1) = k + 1 BY <1>2
    <3> QED BY <3>1, <3>2, <3>3, <3>4
  <2> QED BY <2>1, <2>2
<1>5. ASSUME NEW k \in DOMAIN both, NEW l \in DOMAIN both, k < l
      PROVE  /\ Sets(both[k]) /\ Sets(both[l]) => both[k].state_id < both[l].state_id
             /\ ~(both[k].kind = "open_screen" /\ both[l].kind = "open_screen")
  <2>1. k - Len(q) < l - Len(q) BY <1>2, <1>5
  <2>2. ASSUME Sets(both[k]), Sets(both[l]) PROVE both[k].state_id < both[l].state_id
    <3>1. k - Len(q) \in DOMAIN r /\ both[k] = r[k - Len(q)] BY <1>3, <2>2
    <3>2. l - Len(q) \in DOMAIN r /\ both[l] = r[l - Len(q)] BY <1>3, <2>2
    <3> QED BY <2>1, <2>2, <3>1, <3>2 DEF Batch
  <2>3. ASSUME both[k].kind = "open_screen", both[l].kind = "open_screen" PROVE FALSE
    <3>1. k - Len(q) \in DOMAIN r /\ both[k] = r[k - Len(q)] BY <1>3, <2>3
    <3>2. l - Len(q) \in DOMAIN r /\ both[l] = r[l - Len(q)] BY <1>3, <2>3
    <3> QED BY <2>1, <2>3, <3>1, <3>2 DEF Batch
  <2> QED BY <2>2, <2>3
<1>6. Batch(both, id, st, st2, o, o2) BY <1>4, <1>5 DEF Batch
<1> QED BY <1>1, <1>2, <1>6 DEF both

\* What a broadcast makes of the open window: g is what the server takes
\* the bot to show, f what it then holds.
LEMMA BroadcastSettles ==
  ASSUME Types, InOrder, menu # 0, current_window # NoWindow, current_window.id = menu,
         UNCHANGED <<current_window, menu>>, NEW f \in [Place -> Stack], NEW g, items' = f,
         toClient' = toClient \o SlotPackets(f, g, menu),
         stateId' = [stateId EXCEPT ![menu] = @ + Len(Differences(f, g, menu))],
         toServer' \in Seq(Requests),
         \A k \in DOMAIN toServer' : \E j \in DOMAIN toServer : toServer'[k] = toServer[j],
         \/ \E k \in DOMAIN toServer' : toServer'[k].kind = "click" /\ toServer'[k].id = menu
                                        /\ toServer'[k].state_id # stateId[menu]
         \/ /\ None_Of(toServer', menu)
            /\ \A s \in Slot : Settles(toClient, 0, menu, s, current_window.slots[s], g[At(menu, s)])
         \/ /\ None_Of(toClient, menu)
            /\ \A s \in Slot : Settles(toServer', 0, menu, s, g[At(menu, s)], current_window.slots[s])
  PROVE  Overdue' \/ Answered' \/ Predicted'
<1> DEFINE r == SlotPackets(f, g, menu)
           n == Len(Differences(f, g, menu))
<1>1. menu \in Ids /\ stateId \in [Ids -> Nat] /\ toClient \in Seq(Packets) /\ toServer \in Seq(Requests)
  BY BoundsAssumption DEF Types, Ids
<1>2. /\ r \in Seq(Packets) /\ Len(r) = n
      /\ \A s \in Slot : Settles(r, 0, menu, s, g[At(menu, s)], f[At(menu, s)])
  BY <1>1, BroadcastTells, ZenonT(60)
<1>3. n \in Nat /\ stateId[menu] \in Nat BY <1>1, <1>2, LenProperties
<1>4. stateId'[menu] = stateId[menu] + n BY <1>1
<1> HIDE DEF r, n
<1>5. ASSUME NEW k \in DOMAIN toServer', toServer'[k].kind = "click", toServer'[k].id = menu,
             toServer'[k].state_id # stateId[menu] \/ n # 0
      PROVE  Overdue'
  <2>1. PICK j \in DOMAIN toServer : toServer'[k] = toServer[j] OBVIOUS
  <2>2. toServer[j] \in Requests BY <1>1, LenProperties, ElementOfSeq
  <2>3. toServer[j].state_id \in Nat BY <1>5, <2>1, <2>2, RequestShape
  <2>4. toServer[j].state_id <= stateId[menu] BY <1>5, <2>1 DEF InOrder, ClicksKnown
  <2>5. toServer'[k].state_id # stateId'[menu] BY <1>3, <1>4, <1>5, <2>1, <2>3, <2>4
  <2>6. \E i \in DOMAIN toServer' : toServer'[i].kind = "click" /\ toServer'[i].id = menu'
                                    /\ toServer'[i].state_id # stateId'[menu']
    BY <1>5, <2>5
  <2> QED BY <2>6 DEF Overdue
<1>6. ASSUME None_Of(toServer', menu),
             \A s \in Slot : Settles(toClient, 0, menu, s, current_window.slots[s], g[At(menu, s)])
      PROVE  Answered'
  <2>1. \A s \in Slot : Settles(toClient \o r, 0, menu, s, current_window.slots[s], f[At(menu, s)])
    <3> TAKE s \in Slot
    <3>1. Settles(toClient, 0, menu, s, current_window.slots[s], g[At(menu, s)]) BY <1>6
    <3>2. 0 \in 0 .. Len(toClient) BY <1>1, LenProperties
    <3> QED BY <1>1, <1>2, <3>1, <3>2, SettlesConcat
  <2> QED BY <1>6, <2>1 DEF Answered, r
<1>7. ASSUME None_Of(toClient, menu),
             \A s \in Slot : Settles(toServer', 0, menu, s, g[At(menu, s)], current_window.slots[s])
      PROVE  Overdue' \/ Answered' \/ Predicted'
  <2>1. CASE n = 0
    <3>1. r = <<>> BY <1>2, <2>1, EmptySeq
    <3>2. toClient' = toClient BY <1>1, <3>1, ConcatEmptySeq DEF r
    <3>3. \A s \in Slot : g[At(menu, s)] = f[At(menu, s)]
      <4>1. None_Of(r, menu) BY <3>1 DEF None_Of
      <4> QED BY <1>2, <4>1, SettlesSilent
    <3>4. \A s \in Slot : Settles(toServer', 0, menu, s, f[At(menu, s)], current_window.slots[s])
      BY <1>7, <3>3
    <3> QED BY <1>7, <3>2, <3>4 DEF Predicted
  <2>2. CASE \E k \in DOMAIN toServer' : toServer'[k].kind = "click" /\ toServer'[k].id = menu
    BY <1>5, <2>1, <2>2
  <2>3. CASE ~\E k \in DOMAIN toServer' : toServer'[k].kind = "click" /\ toServer'[k].id = menu
    <3>1. None_Of(toServer', menu)
      <4>1. \A k \in DOMAIN toServer' : toServer'[k] \in Requests BY LenProperties, ElementOfSeq
      <4>2. \A m \in Requests : OfWindow(m, menu) => m.kind = "click" /\ m.id = menu
        BY RequestShape DEF OfWindow
      <4> QED BY <2>3, <4>1, <4>2 DEF None_Of
    <3>2. \A s \in Slot : g[At(menu, s)] = current_window.slots[s] BY <1>7, <3>1, SettlesSilent
    <3>3. \A s \in Slot : Settles(toClient, 0, menu, s, current_window.slots[s], g[At(menu, s)])
      BY <1>1, <1>7, <3>2, SettlesSilent
    <3> QED BY <1>6, <3>1, <3>3
  <2> QED BY <2>1, <2>2, <2>3
<1> QED BY <1>5, <1>6, <1>7

\* A broadcast keeps what is promised to the window about to open.
LEMMA BroadcastAnnounces ==
  ASSUME Types, Announced, UNCHANGED menu, NEW f \in [Place -> Stack], NEW g, items' = f,
         toClient' = toClient \o SlotPackets(f, g, menu),
         \/ \A s \in Slot : g[At(menu, s)] = items[At(menu, s)]
         \/ \A k \in DOMAIN toClient : ~(toClient[k].kind = "open_screen" /\ toClient[k].id = menu)
  PROVE  Announced'
<1> DEFINE r == SlotPackets(f, g, menu)
<1>1. menu \in Ids /\ stateId \in [Ids -> Nat] /\ toClient \in Seq(Packets)
  BY BoundsAssumption DEF Types, Ids
<1>2. /\ r \in Seq(Packets)
      /\ \A k \in DOMAIN r : r[k].kind = "slot"
      /\ \A s \in Slot : Settles(r, 0, menu, s, g[At(menu, s)], f[At(menu, s)])
  BY <1>1, BroadcastTells, SMTT(60)
<1> DEFINE both == toClient \o r
<1>3. /\ Len(toClient) \in Nat /\ DOMAIN toClient = 1 .. Len(toClient)
      /\ \A k \in DOMAIN toClient : both[k] = toClient[k]
      /\ \A k \in DOMAIN both : k \in DOMAIN toClient \/ (k - Len(toClient) \in DOMAIN r
                                                         /\ both[k] = r[k - Len(toClient)])
  BY <1>1, <1>2, Joined
<1> HIDE DEF r, both
<1>4. ASSUME NEW k \in DOMAIN both, both[k].kind = "open_screen", both[k].id = menu,
             NEW s \in Slot, NEW v \in Stack
      PROVE  Settles(both, k, menu, s, v, f[At(menu, s)])
  <2>1. k \in DOMAIN toClient /\ both[k] = toClient[k] BY <1>2, <1>3, <1>4
  <2>2. Settles(toClient, k, menu, s, v, items[At(menu, s)]) BY <1>4, <2>1 DEF Announced
  <2>3. Settles(r, 0, menu, s, items[At(menu, s)], f[At(menu, s)]) BY <1>2, <1>4, <2>1
  <2>4. k \in 0 .. Len(toClient) BY <1>3, <2>1
  <2> QED BY <1>1, <1>2, <2>2, <2>3, <2>4, SettlesConcat DEF both
<1>5. toClient' = both BY DEF both, r
<1> QED BY <1>4, <1>5 DEF Announced

\* What the server sends comes after what the bot waits for.
LEMMA TellContentNext ==
  ASSUME Types, ContentNext, UNCHANGED <<current_window, call, bumped>>,
         NEW r \in Seq(Packets), toClient' = toClient \o r
  PROVE  ContentNext'
<1>1. toClient \in Seq(Packets) BY DEF Types
<1>2. ASSUME toClient # <<>> PROVE toClient' # <<>> /\ toClient'[1] = toClient[1]
  <2>1. 1 \in DOMAIN toClient BY <1>1, <1>2, Shifted
  <2>2. 1 \in DOMAIN toClient' /\ toClient'[1] = toClient[1] BY <1>1, <2>1, Joined
  <2>3. toClient' # <<>> BY <1>1, <1>2, ConcatEqualIffEmpty
  <2> QED BY <2>2, <2>3
<1> QED BY <1>2 DEF ContentNext

\* What the server ignores.
LEMMA ServerIgnores ==
  ASSUME Inv, toServer # <<>>, toServer' = Tail(toServer),
         ~(toServer[1].kind = "click" /\ toServer[1].id = menu),
         UNCHANGED <<botVars, toClient, items, shown, carried, menu, stateId, opened>>
  PROVE  Inv'
<1> USE DEF botVars
<1>1. toServer \in Seq(Requests) /\ toClient \in Seq(Packets) /\ stateId \in [Ids -> Nat] /\ opened \in Ids
  BY DEF Inv, Types
<1>2. /\ Tail(toServer) \in Seq(Requests) /\ toServer[1] \in Requests /\ 1 \in DOMAIN toServer
      /\ Len(toServer) \in Nat /\ DOMAIN toServer = 1 .. Len(toServer)
      /\ \A k \in DOMAIN Tail(toServer) : k + 1 \in DOMAIN toServer /\ Tail(toServer)[k] = toServer[k + 1]
      /\ \A k \in DOMAIN toServer :
           k = 1 \/ (k - 1 \in DOMAIN Tail(toServer) /\ Tail(toServer)[k - 1] = toServer[k])
  BY <1>1, Shifted
<1>3. Types' BY <1>2 DEF Inv, Types
<1>4. InOrder'
  <2>1. 0 \in Ids /\ 0 <= opened /\ opened \in Nat /\ \A i \in Ids : stateId[i] \in Nat
    BY <1>1, BoundsAssumption DEF Ids
  <2>2. Batch(<<>>, 0, stateId, stateId, opened, opened)
    <3>1. DOMAIN <<>> = {} OBVIOUS
    <3>2. \A i \in Ids : stateId[i] <= stateId[i] BY <2>1
    <3>3. opened <= opened BY <2>1
    <3> QED BY <2>1, <3>1, <3>2, <3>3 DEF Batch
  <2>3. Batch(<<>>, 0, stateId, stateId', opened, opened') BY <2>2
  <2>4. toClient' = toClient \o <<>> BY <1>1, ConcatEmptySeq
  <2>5. <<>> \in Seq(Packets) BY EmptySeq
  <2>6. \A k \in DOMAIN toServer' : \E j \in DOMAIN toServer : toServer'[k] = toServer[j] BY <1>2
  <2>7. Types /\ InOrder BY DEF Inv
  <2>8. UNCHANGED <<inventory, current_window>> OBVIOUS
  <2> QED BY <1>3, <2>1, <2>3, <2>4, <2>5, <2>6, <2>7, <2>8, TellInOrder
<1>5. Settling'
  <2> SUFFICES ASSUME menu # 0, current_window # NoWindow, current_window.id = menu
               PROVE  Overdue' \/ Answered' \/ Predicted'
    BY DEF Settling
  <2>0. ~OfWindow(toServer[1], menu) BY <1>2, RequestShape DEF OfWindow
  <2>1. CASE Overdue
    <3>1. PICK k \in DOMAIN toServer : /\ toServer[k].kind = "click" /\ toServer[k].id = menu
                                      /\ toServer[k].state_id # stateId[menu]
      BY <2>1 DEF Overdue
    <3>2. k - 1 \in DOMAIN toServer' /\ toServer'[k - 1] = toServer[k] BY <1>2, <3>1
    <3>3. toServer'[k - 1].kind = "click" /\ toServer'[k - 1].id = menu' /\ toServer'[k - 1].state_id # stateId'[menu']
      BY <3>1, <3>2
    <3> QED BY <3>2, <3>3 DEF Overdue
  <2>2. CASE Answered
    <3>1. None_Of(toServer', menu) BY <1>1, <2>2, NoneTail DEF Answered
    <3> QED BY <2>2, <3>1 DEF Answered
  <2>3. CASE Predicted
    <3>1. \A s \in Slot : Settles(toServer', 0, menu, s, items[At(menu, s)], current_window.slots[s])
      <4> TAKE s \in Slot
      <4>1. Settles(toServer, 0, menu, s, items[At(menu, s)], current_window.slots[s]) BY <2>3 DEF Predicted
      <4>2. ~About(toServer[1], menu, s) BY <2>0 DEF About
      <4>3. 0 \in 0 .. Len(toServer) BY <1>2
      <4> QED BY <1>1, <4>1, <4>2, <4>3, SettlesTail
    <3> QED BY <2>3, <3>1 DEF Predicted
  <2> QED BY <2>1, <2>2, <2>3 DEF Inv, Settling
<1>6. Calls' /\ Shows' /\ Announced' /\ ContentNext'
  <2>1. Calls' BY DEF Inv, Calls
  <2>2. Shows' BY DEF Inv, Shows, View, At
  <2>3. Announced' BY DEF Inv, Announced
  <2>4. ContentNext' BY DEF Inv, ContentNext
  <2> QED BY <2>1, <2>2, <2>3, <2>4
<1> QED BY <1>3, <1>4, <1>5, <1>6 DEF Inv

\* Content is one packet, and newer than all.
Filling(f, id) == [kind |-> "content", id |-> id, state_id |-> stateId[id] + 1, slots |-> View(f, id)]

\* So it keeps the order, and says what the window holds.
LEMMA ContentBatch ==
  ASSUME NEW id \in Ids, NEW f \in [Place -> Stack], stateId \in [Ids -> Nat]
  PROVE  LET st == [stateId EXCEPT ![id] = @ + 1]
         IN  /\ Filling(f, id) \in Packets /\ <<Filling(f, id)>> \in Seq(Packets)
             /\ st \in [Ids -> Nat]
             /\ \A o \in Ids : id <= o => Batch(<<Filling(f, id)>>, id, stateId, st, o, o)
             /\ \A s \in Slot : About(Filling(f, id), id, s) /\ Says(Filling(f, id), s) = f[At(id, s)]
<1> DEFINE p == Filling(f, id)
           st == [stateId EXCEPT ![id] = @ + 1]
<1>1. p.kind = "content" /\ p.id = id /\ p.state_id = stateId[id] + 1 /\ p.slots = View(f, id) BY DEF Filling
<1>2. p \in Packets
  <2>1. View(f, id) \in Contained BY ViewType
  <2>2. stateId[id] + 1 \in Nat \ {0} OBVIOUS
  <2> QED BY <2>1, <2>2 DEF Packets, Content, Filling
<1> HIDE DEF p
<1>3. <<p>> \in Seq(Packets) /\ DOMAIN <<p>> = {1} /\ <<p>>[1] = p BY <1>2
<1>4. st \in [Ids -> Nat] /\ st[id] = stateId[id] + 1 /\ \A i \in Ids : stateId[i] <= st[i]
  <2>1. stateId[id] + 1 \in Nat OBVIOUS
  <2>2. \A i \in Ids : i # id => st[i] = stateId[i] OBVIOUS
  <2>3. \A i \in Ids : stateId[i] \in Nat OBVIOUS
  <2>4. st[id] = stateId[id] + 1 OBVIOUS
  <2>5. st \in [Ids -> Nat] BY <2>1
  <2>6. \A i \in Ids : stateId[i] <= st[i] BY <2>2, <2>3, <2>4
  <2> QED BY <2>4, <2>5, <2>6
<1> HIDE DEF st
<1>5. ASSUME NEW o \in Ids, id <= o PROVE Batch(<<p>>, id, stateId, st, o, o)
  <2>1. stateId[id] < p.state_id /\ p.state_id <= st[id] BY <1>1, <1>4
  <2>2. o <= o BY BoundsAssumption DEF Ids
  <2> QED BY <1>1, <1>3, <1>4, <1>5, <2>1, <2>2 DEF Batch
<1>6. \A s \in Slot : About(p, id, s) /\ Says(p, s) = f[At(id, s)]
  BY <1>1 DEF About, OfWindow, Says, View
<1> QED BY <1>2, <1>3, <1>4, <1>5, <1>6 DEF p, st

\* The server applies a click.
LEMMA ServerClickKeeps ==
  ASSUME Inv, ServerClick
  PROVE  Inv'
<1> DEFINE m == toServer[1]
           r == Clicked([slots |-> View(items, menu), cursor |-> carried[menu]], m.click)
           after == Overlay(r.slots, menu, items)
           told == Overlay(m.changed, menu, shown)
<1>1. /\ toServer # <<>> /\ Head(toServer).kind = "click" /\ toServer' = Tail(toServer)
      /\ UNCHANGED <<botVars, changes, menu, opened>>
  BY DEF ServerClick, ServerReceive
<1>2. /\ toServer \in Seq(Requests) /\ toClient \in Seq(Packets) /\ stateId \in [Ids -> Nat] /\ opened \in Ids
      /\ items \in [Place -> Stack] /\ carried \in [Ids -> Stack] /\ menu \in Ids /\ menu <= opened
  BY BoundsAssumption DEF Inv, Types, Ids
<1>3. /\ Tail(toServer) \in Seq(Requests) /\ m \in Requests /\ 1 \in DOMAIN toServer /\ Head(toServer) = m
      /\ Len(toServer) \in Nat /\ DOMAIN toServer = 1 .. Len(toServer)
      /\ \A k \in DOMAIN Tail(toServer) : k + 1 \in DOMAIN toServer /\ Tail(toServer)[k] = toServer[k + 1]
      /\ \A k \in DOMAIN toServer :
           k = 1 \/ (k - 1 \in DOMAIN Tail(toServer) /\ Tail(toServer)[k - 1] = toServer[k])
  BY <1>1, <1>2, Shifted
<1>4. m.kind = "click" /\ m.click \in Clicks /\ DOMAIN m.changed \subseteq Slot BY <1>1, <1>3, RequestShape
<1>5. CASE m.id # menu
  <2>1. UNCHANGED <<toClient, items, shown, carried, stateId>> BY <1>3, <1>5 DEF ServerClick
  <2> QED BY <1>1, <1>5, <2>1, ServerIgnores
<1>6. CASE m.id = menu
  <2>1. r \in Holding
    <3>1. View(items, menu) \in Contained /\ carried[menu] \in Stack BY <1>2, ViewType
    <3>2. [slots |-> View(items, menu), cursor |-> carried[menu]] \in Holding BY <3>1 DEF Holding
    <3> QED BY <1>4, <3>2, ClickedType
  <2>2. after \in [Place -> Stack] /\ View(after, menu) = r.slots
    <3>1. r.slots \in Contained BY <2>1 DEF Holding
    <3> HIDE DEF r
    <3> QED BY <1>2, <3>1, OverlayType
  <2>3. /\ carried' = [carried EXCEPT ![menu] = r.cursor]
        /\ IF m.state_id = stateId[menu] THEN Broadcast(after, told, menu, <<>>)
           ELSE SendContent(after, menu, <<>>)
    BY <1>3, <1>6 DEF ServerClick
  <2>4. carried' \in [Ids -> Stack] BY <1>2, <2>1, <2>3 DEF Holding
  <2>5. \A s \in Slot : told[At(menu, s)] = IF s \in DOMAIN m.changed THEN m.changed[s] ELSE shown[At(menu, s)]
    <3> TAKE s \in Slot
    <3> HIDE DEF m
    <3> QED BY <1>2, <1>4, OverlayAt, SMTT(40)
  <2>6. \A s \in Slot : shown[At(menu, s)] = items[At(menu, s)]
    <3>1. \A s \in Slot : View(shown, menu)[s] = View(items, menu)[s] BY DEF Inv, Shows
    <3> QED BY <3>1 DEF View
  <2>7. \A k \in DOMAIN toClient : ~(toClient[k].kind = "open_screen" /\ toClient[k].id = menu)
    <3> SUFFICES ASSUME NEW k \in DOMAIN toClient, toClient[k].kind = "open_screen", toClient[k].id = menu
                 PROVE  FALSE
      OBVIOUS
    <3>1. m.id < toClient[k].id BY <1>3, <1>4 DEF Inv, InOrder, ClicksBehind
    <3>2. menu \in Nat BY <1>2, BoundsAssumption DEF Ids
    <3> QED BY <1>6, <3>1, <3>2
  <2>8. toClient \o <<>> = toClient BY <1>2, ConcatEmptySeq
  <2>9. \A k \in DOMAIN toServer' : \E j \in DOMAIN toServer : toServer'[k] = toServer[j] BY <1>1, <1>3
  <2>10. Types /\ InOrder /\ Announced /\ ContentNext BY DEF Inv
  <2>11. UNCHANGED <<inventory, current_window, call, bumped>> BY <1>1 DEF botVars
  <2> HIDE DEF m, r, after, told
  <2>12. CASE m.state_id = stateId[menu]
    <3> DEFINE q == SlotPackets(after, told, menu)
               st == [stateId EXCEPT ![menu] = @ + Len(Differences(after, told, menu))]
    <3>1. /\ toClient' = toClient \o q
          /\ stateId' = st
          /\ shown' = Overlay(View(after, menu), menu, told)
          /\ items' = after
      BY <2>3, <2>8, <2>12 DEF Broadcast
    <3>2. q \in Seq(Packets) BY <1>2, <2>2, BroadcastTells
    <3>3. st \in [Ids -> Nat] /\ Batch(q, menu, stateId, st, opened, opened) BY <1>2, <2>2, BroadcastBatch
    <3>4. toClient' \in Seq(Packets) BY <1>2, <3>1, <3>2, Joined
    <3>5. Types'
      BY <1>1, <1>3, <2>2, <2>4, <2>11, <3>1, <3>3, <3>4 DEF Inv, Types
    <3>6. InOrder'
      <4>1. Batch(q, menu, stateId, stateId', opened, opened') BY <1>1, <3>1, <3>3
      <4> HIDE DEF q, st
      <4> QED BY <1>2, <2>9, <2>10, <2>11, <3>1, <3>2, <3>5, <4>1, TellInOrder
    <3>7. Shows'
      <4>1. View(shown', menu') = View(items', menu')
        <5>1. View(Overlay(View(after, menu), menu, told), menu) = View(after, menu) BY <1>2, ShownAfter
        <5> QED BY <1>1, <3>1, <5>1
      <4>2. Shows' <=> View(shown', menu') = View(items', menu') BY DEF Shows, View, At
      <4> QED BY <4>1, <4>2
    <3>8. Announced' BY <1>1, <2>2, <2>7, <2>10, <3>1, BroadcastAnnounces
    <3>9. ContentNext' BY <2>10, <2>11, <3>1, <3>2, TellContentNext
    <3>10. Settling'
      <4> SUFFICES ASSUME menu # 0, current_window # NoWindow, current_window.id = menu
                   PROVE  Overdue' \/ Answered' \/ Predicted'
        BY <1>1, <2>11 DEF Settling
      <4>1. CASE Overdue
        <5>1. PICK k \in DOMAIN toServer : /\ toServer[k].kind = "click" /\ toServer[k].id = menu
                                           /\ toServer[k].state_id # stateId[menu]
          BY <4>1 DEF Overdue
        <5>2. k # 1 BY <2>12, <5>1 DEF m
        <5>3. k - 1 \in DOMAIN toServer' /\ toServer'[k - 1] = toServer[k] BY <1>1, <1>3, <5>2
        <5>4. \E i \in DOMAIN toServer' : toServer'[i].kind = "click" /\ toServer'[i].id = menu
                                          /\ toServer'[i].state_id # stateId[menu]
          BY <5>1, <5>3
        <5> HIDE DEF q, st
        <5> QED BY <1>1, <1>3, <2>2, <2>9, <2>10, <2>11, <3>1, <5>4, BroadcastSettles DEF q, st
      <4>2. CASE Answered
        <5>1. OfWindow(m, menu) BY <1>4, <1>6 DEF OfWindow
        <5> QED BY <1>3, <4>2, <5>1 DEF Answered, None_Of, m
      <4>3. CASE Predicted
        <5>1. \A s \in Slot : Settles(toServer', 0, menu, s, told[At(menu, s)], current_window.slots[s])
          <6> TAKE s \in Slot
          <6>1. Settles(toServer, 0, menu, s, items[At(menu, s)], current_window.slots[s]) BY <4>3 DEF Predicted
          <6>2. 0 \in 0 .. Len(toServer) BY <1>3
          <6>3. Settles(Tail(toServer), 0, menu, s,
                        IF About(m, menu, s) THEN Says(m, s) ELSE items[At(menu, s)], current_window.slots[s])
            BY <1>1, <1>2, <6>1, <6>2, SettlesTail DEF m
          <6>4. (IF About(m, menu, s) THEN Says(m, s) ELSE items[At(menu, s)]) = told[At(menu, s)]
            BY <1>4, <1>6, <2>5, <2>6 DEF About, OfWindow, Says
          <6> QED BY <1>1, <6>3, <6>4
        <5>2. None_Of(toClient, menu) BY <4>3 DEF Predicted
        <5> QED BY <1>1, <1>3, <2>2, <2>9, <2>10, <2>11, <3>1, <5>1, <5>2, BroadcastSettles
      <4> QED BY <4>1, <4>2, <4>3 DEF Inv, Settling
    <3>11. Calls' BY <2>11 DEF Inv, Calls
    <3> QED BY <3>5, <3>6, <3>7, <3>8, <3>9, <3>10, <3>11 DEF Inv
  <2>13. CASE m.state_id # stateId[menu]
    <3> DEFINE p == Filling(after, menu)
               st == [stateId EXCEPT ![menu] = @ + 1]
    <3>1. /\ toClient' = toClient \o <<p>>
          /\ stateId' = st
          /\ shown' = Overlay(View(after, menu), menu, shown)
          /\ items' = after
      BY <2>3, <2>8, <2>13 DEF SendContent, Filling
    <3>2. /\ p \in Packets /\ <<p>> \in Seq(Packets)
          /\ st \in [Ids -> Nat] /\ Batch(<<p>>, menu, stateId, st, opened, opened)
          /\ \A s \in Slot : About(p, menu, s) /\ Says(p, s) = after[At(menu, s)]
      BY <1>2, <2>2, ContentBatch
    <3>3. p.kind = "content" BY DEF Filling
    <3>4. toClient' \in Seq(Packets) BY <1>2, <3>1, <3>2, Joined
    <3>5. Types'
      BY <1>1, <1>3, <2>2, <2>4, <2>11, <3>1, <3>2, <3>4 DEF Inv, Types
    <3>6. InOrder'
      <4>1. Batch(<<p>>, menu, stateId, stateId', opened, opened') BY <1>1, <3>1, <3>2
      <4> HIDE DEF p, st
      <4> QED BY <1>2, <2>9, <2>10, <2>11, <3>1, <3>2, <3>5, <4>1, TellInOrder
    <3>7. Shows'
      <4>1. View(shown', menu') = View(items', menu')
        <5>1. View(Overlay(View(after, menu), menu, shown), menu) = View(after, menu) BY <1>2, ShownAfter
        <5> QED BY <1>1, <3>1, <5>1
      <4>2. Shows' <=> View(shown', menu') = View(items', menu') BY DEF Shows, View, At
      <4> QED BY <4>1, <4>2
    <3>8. Announced'
      <4>1. ASSUME NEW k \in DOMAIN toClient', toClient'[k].kind = "open_screen", toClient'[k].id = menu
            PROVE  FALSE
        <5> HIDE DEF p
        <5>1. k \in DOMAIN toClient \/ (k - Len(toClient) \in DOMAIN <<p>>
                                        /\ toClient'[k] = <<p>>[k - Len(toClient)])
          BY <1>2, <3>1, <3>2, Joined
        <5>2. k \in DOMAIN toClient => toClient'[k] = toClient[k] BY <1>2, <3>1, <3>2, Joined
        <5>3. DOMAIN <<p>> = {1} /\ <<p>>[1] = p BY <3>2
        <5> QED BY <2>7, <3>3, <4>1, <5>1, <5>2, <5>3
      <4> QED BY <1>1, <4>1 DEF Announced
    <3>9. ContentNext' BY <2>10, <2>11, <3>1, <3>2, TellContentNext
    <3>10. Settling'
      <4> SUFFICES ASSUME menu # 0, current_window # NoWindow, current_window.id = menu
                   PROVE  Overdue' \/ Answered' \/ Predicted'
        BY <1>1, <2>11 DEF Settling
      <4>0. toServer' \in Seq(Requests) BY <3>5 DEF Types
      <4>1. CASE \E k \in DOMAIN toServer' : toServer'[k].kind = "click" /\ toServer'[k].id = menu
        <5>1. PICK k \in DOMAIN toServer' : toServer'[k].kind = "click" /\ toServer'[k].id = menu BY <4>1
        <5>2. PICK j \in DOMAIN toServer : toServer'[k] = toServer[j] BY <2>9
        <5>3. toServer[j] \in Requests BY <1>2, LenProperties, ElementOfSeq
        <5>4. toServer[j].state_id \in Nat BY <5>1, <5>2, <5>3, RequestShape
        <5>5. toServer[j].state_id <= stateId[menu] BY <2>10, <5>1, <5>2 DEF InOrder, ClicksKnown
        <5>6. stateId'[menu] = stateId[menu] + 1 /\ stateId[menu] \in Nat BY <1>2, <3>1
        <5>7. toServer'[k].state_id # stateId'[menu] BY <5>2, <5>4, <5>5, <5>6
        <5> QED BY <1>1, <5>1, <5>7 DEF Overdue
      <4>2. CASE ~\E k \in DOMAIN toServer' : toServer'[k].kind = "click" /\ toServer'[k].id = menu
        <5>1. None_Of(toServer', menu)
          <6>1. \A k \in DOMAIN toServer' : toServer'[k] \in Requests BY <4>0, LenProperties, ElementOfSeq
          <6>2. \A x \in Requests : OfWindow(x, menu) => x.kind = "click" /\ x.id = menu
            BY RequestShape DEF OfWindow
          <6> QED BY <4>2, <6>1, <6>2 DEF None_Of
        <5>2. \A s \in Slot : Settles(toClient', 0, menu, s, current_window.slots[s], after[At(menu, s)])
          <6> TAKE s \in Slot
          <6>1. 0 \in 0 .. Len(toClient) BY <1>2, LenProperties
          <6> HIDE DEF p
          <6>2. Settles(toClient \o <<p>>, 0, menu, s, current_window.slots[s], Says(p, s))
            BY <1>2, <3>2, <6>1, SettlesLast
          <6> QED BY <3>1, <3>2, <6>2
        <5>3. Answered' BY <1>1, <2>11, <3>1, <5>1, <5>2 DEF Answered
        <5> QED BY <5>3
      <4> QED BY <4>1, <4>2
    <3>11. Calls' BY <2>11 DEF Inv, Calls
    <3> QED BY <3>5, <3>6, <3>7, <3>8, <3>9, <3>10, <3>11 DEF Inv
  <2> QED BY <2>12, <2>13
<1> QED BY <1>5, <1>6

\* What the cursor of a closed window becomes.
LEMMA BackType ==
  ASSUME Types
  PROVE  Returned \in [Place -> Stack] /\ BackPackets \in Seq(Quiet)
<1> DEFINE vacant == {i \in Section : items[i] = None}
<1>1. items \in [Place -> Stack] /\ carried[menu] \in Stack
  <2>1. menu \in Ids BY BoundsAssumption DEF Types, Ids
  <2> QED BY <2>1 DEF Types
<1>2. Section \subseteq Nat /\ Section \subseteq Slot BY InvSizeAssumption DEF Section, Slot
<1>3. Returned \in [Place -> Stack] BY <1>1 DEF Returned
<1>4. CASE carried[menu] = None \/ vacant = {}
  <2>1. Back = {} BY <1>4 DEF Back
  <2>2. Cardinality(Back) = 0 BY <2>1, FS_EmptySet
  <2>3. BackPackets = <<>> BY <2>2 DEF BackPackets
  <2> QED BY <1>3, <2>3, EmptySeq
<1>5. CASE ~(carried[menu] = None \/ vacant = {})
  <2>1. Back = {Min(vacant)} BY <1>5 DEF Back
  <2>2. Min(vacant) \in vacant
    <3>1. vacant \subseteq Nat /\ vacant # {} BY <1>2, <1>5
    <3> HIDE DEF vacant
    <3> QED BY <3>1, MinIsLeast
  <2>3. Cardinality(Back) = 1 BY <2>1, FS_Singleton
  <2>4. Min(Back) \in Section
    <3>1. Back \subseteq Section /\ Back # {} BY <2>1, <2>2
    <3> QED BY <1>2, <3>1, MinIsLeast
  <2>5. PacketIndex(Min(Back)) \in Slot BY <1>2, <2>4 DEF PacketIndex, Slot
  <2> DEFINE p == [kind |-> "player_inventory", slotId |-> PacketIndex(Min(Back)), item |-> carried[menu]]
  <2>6. p \in Quiet BY <1>1, <2>5 DEF Quiet
  <2>7. BackPackets = [k \in 1 .. 1 |-> p] BY <2>3 DEF BackPackets
  <2> HIDE DEF p
  <2>8. BackPackets \in [1 .. 1 -> Quiet] BY <2>6, <2>7
  <2>9. BackPackets \in Seq(Quiet) BY <2>8, SeqDef
  <2> QED BY <1>3, <2>9
<1> QED BY <1>4, <1>5

\* Queues join associatively.
LEMMA Regrouped ==
  ASSUME NEW a \in Seq(Packets), NEW b \in Seq(Packets), NEW c \in Seq(Packets)
  PROVE  (a \o b) \o c = a \o (b \o c)
<1>1. \A i, j, k \in Seq(Packets) : (i \o j) \o k = i \o (j \o k)
  <2> TAKE i, j, k \in Seq(Packets)
  <2> HIDE DEF Packets
  <2> QED BY ConcatAssociative, SMTT(40)
<1> QED BY <1>1, Zenon

\* The server closes its menu.
LEMMA CloseMenuKeeps ==
  ASSUME Inv, NEW before \in Seq(Quiet), CloseMenu(before), UNCHANGED <<botVars, opened>>,
         toServer' \in Seq(Requests),
         \A k \in DOMAIN toServer' : \E j \in DOMAIN toServer : toServer'[k] = toServer[j]
  PROVE  Inv'
<1> DEFINE q == SlotPackets(Returned, shown, 0)
           st == [stateId EXCEPT ![0] = @ + Len(Differences(Returned, shown, 0))]
           quiet == BackPackets \o before
<1>1. /\ toClient \in Seq(Packets) /\ stateId \in [Ids -> Nat] /\ opened \in Ids
      /\ carried \in [Ids -> Stack] /\ 0 \in Ids /\ 0 <= opened
  BY BoundsAssumption DEF Inv, Types, Ids
<1>2. Types /\ InOrder /\ ContentNext /\ UNCHANGED <<inventory, current_window, call, bumped>>
  BY DEF Inv, botVars
<1>3. Returned \in [Place -> Stack] /\ BackPackets \in Seq(Quiet) BY <1>2, BackType
<1>4. /\ toClient' = toClient \o quiet \o q
      /\ stateId' = st
      /\ shown' = Overlay(View(Returned, 0), 0, shown)
      /\ items' = Returned
      /\ menu' = 0
      /\ carried' = [carried EXCEPT ![menu] = None]
  BY DEF CloseMenu, Broadcast
<1>5. quiet \in Seq(Quiet) BY <1>3, ConcatProperties
<1>6. q \in Seq(Packets) BY <1>1, <1>3, BroadcastTells
<1>7. st \in [Ids -> Nat] /\ Batch(q, 0, stateId, st, opened, opened) BY <1>1, <1>3, BroadcastBatch
<1> HIDE DEF q, st, quiet
<1>8. quiet \o q \in Seq(Packets) /\ quiet \in Seq(Packets) /\ Batch(quiet \o q, 0, stateId, st, opened, opened)
  BY <1>5, <1>6, <1>7, QuietBatch
<1>9. toClient' = toClient \o (quiet \o q)
  <2>1. (toClient \o quiet) \o q = toClient \o (quiet \o q) BY <1>1, <1>6, <1>8, Regrouped, Zenon
  <2>2. toClient' = (toClient \o quiet) \o q BY <1>4, Zenon
  <2> QED BY <2>1, <2>2, Zenon
<1>10. Types'
  <2>1. toClient' \in Seq(Packets) BY <1>1, <1>8, <1>9, Joined
  <2>2. carried' \in [Ids -> Stack]
    <3>1. None \in Stack BY DEF Stack
    <3> QED BY <1>1, <1>4, <3>1
  <2>3. menu' \in 0 .. opened' BY <1>1, <1>4, BoundsAssumption DEF Ids
  <2> QED BY <1>2, <1>3, <1>4, <1>7, <2>1, <2>2, <2>3 DEF Types
<1>11. InOrder'
  <2>1. Batch(quiet \o q, 0, stateId, stateId', opened, opened') BY <1>4, <1>8
  <2> QED BY <1>1, <1>2, <1>8, <1>9, <1>10, <2>1, TellInOrder
<1>12. Shows'
  <2>1. View(shown', 0) = View(items', 0) BY <1>1, <1>4, ShownAfter
  <2>2. Shows' <=> View(shown', menu') = View(items', menu') BY DEF Shows, View, At
  <2> QED BY <1>4, <2>1, <2>2
<1>13. Announced'
  <2>1. ASSUME NEW k \in DOMAIN toClient', toClient'[k].kind = "open_screen" PROVE toClient'[k].id # 0
    <3>1. toClient'[k] \in Packets BY <1>10, LenProperties, ElementOfSeq DEF Types
    <3> QED BY <2>1, <3>1, PacketShape
  <2> QED BY <1>4, <2>1 DEF Announced
<1>14. Settling' BY <1>4 DEF Settling
<1>15. ContentNext' BY <1>2, <1>8, <1>9, TellContentNext
<1>16. Calls' BY <1>2 DEF Inv, Calls
<1> QED BY <1>10, <1>11, <1>12, <1>13, <1>14, <1>15, <1>16 DEF Inv

\* The server takes a message.
LEMMA ServerTakes ==
  ASSUME Types, toServer # <<>>, toServer' = Tail(toServer)
  PROVE  /\ toServer' \in Seq(Requests) /\ Head(toServer) = toServer[1]
         /\ \A k \in DOMAIN toServer' : \E j \in DOMAIN toServer : toServer'[k] = toServer[j]
<1>1. toServer \in Seq(Requests) BY DEF Types
<1> QED BY <1>1, Shifted

\* The bot has closed the window.
LEMMA ServerClosesKeeps ==
  ASSUME Inv, ServerCloses
  PROVE  Inv'
<1>1. /\ toServer # <<>> /\ toServer' = Tail(toServer) /\ Head(toServer).kind = "close"
      /\ UNCHANGED <<botVars, changes, opened>>
  BY DEF ServerCloses, ServerReceive
<1>2. /\ toServer' \in Seq(Requests) /\ Head(toServer) = toServer[1]
      /\ \A k \in DOMAIN toServer' : \E j \in DOMAIN toServer : toServer'[k] = toServer[j]
  BY <1>1, ServerTakes DEF Inv
<1>3. CASE menu = 0
  <2>1. UNCHANGED <<menu, carried, toClient, items, shown, stateId>> BY <1>3 DEF ServerCloses
  <2>2. UNCHANGED opened BY <1>1
  <2>3. toServer[1].kind # "click" BY <1>1, <1>2
  <2> QED BY <1>1, <2>1, <2>2, <2>3, ServerIgnores
<1>4. CASE menu # 0
  <2>1. CloseMenu(<<>>) BY <1>4 DEF ServerCloses
  <2>2. <<>> \in Seq(Quiet) BY EmptySeq
  <2> QED BY <1>1, <1>2, <2>1, <2>2, CloseMenuKeeps
<1> QED BY <1>3, <1>4

\* The server closes the window of its own accord.
LEMMA ServerClosesMenuKeeps ==
  ASSUME Inv, ServerClosesMenu
  PROVE  Inv'
<1>1. CloseMenu(<<[kind |-> "container_close"]>>) /\ UNCHANGED <<botVars, toServer, opened>>
  BY DEF ServerClosesMenu
<1>2. <<[kind |-> "container_close"]>> \in Seq(Quiet)
  <2>1. [kind |-> "container_close"] \in Quiet BY DEF Quiet
  <2> QED BY <2>1
<1>3. toServer' \in Seq(Requests) /\ \A k \in DOMAIN toServer' : \E j \in DOMAIN toServer : toServer'[k] = toServer[j]
  BY <1>1 DEF Inv, Types
<1> QED BY <1>1, <1>2, <1>3, CloseMenuKeeps

\* The server changes a slot of its own accord.
LEMMA ServerChangesKeeps ==
  ASSUME Inv, ServerChanges
  PROVE  Inv'
<1>1. PICK place \in Place \ {Grid}, item \in Contents :
        Broadcast([items EXCEPT ![place] = item], shown, menu, <<>>)
  BY DEF ServerChanges
<1> DEFINE f == [items EXCEPT ![place] = item]
           q == SlotPackets(f, shown, menu)
           st == [stateId EXCEPT ![menu] = @ + Len(Differences(f, shown, menu))]
<1>2. UNCHANGED <<botVars, toServer, menu, opened, carried>> BY DEF ServerChanges
<1>3. /\ toClient \in Seq(Packets) /\ toServer \in Seq(Requests) /\ stateId \in [Ids -> Nat] /\ opened \in Ids
      /\ items \in [Place -> Stack] /\ menu \in Ids /\ menu <= opened
  BY BoundsAssumption DEF Inv, Types, Ids
<1>4. f \in [Place -> Stack]
  <2>1. item \in Stack BY StacksAssumption
  <2> QED BY <1>3, <2>1
<1>5. /\ toClient' = toClient \o q
      /\ stateId' = st
      /\ shown' = Overlay(View(f, menu), menu, shown)
      /\ items' = f
  <2>1. toClient \o <<>> = toClient BY <1>3, ConcatEmptySeq
  <2> QED BY <1>1, <2>1 DEF Broadcast
<1> HIDE DEF f
<1>6. q \in Seq(Packets) BY <1>3, <1>4, BroadcastTells
<1>7. st \in [Ids -> Nat] /\ Batch(q, menu, stateId, st, opened, opened) BY <1>3, <1>4, BroadcastBatch
<1>8. Types /\ InOrder /\ ContentNext /\ Announced /\ UNCHANGED <<inventory, current_window, call, bumped>>
  BY <1>2 DEF Inv, botVars
<1>9. Types'
  <2>1. toClient' \in Seq(Packets) BY <1>3, <1>5, <1>6, Joined
  <2> QED BY <1>2, <1>4, <1>5, <1>7, <1>8, <2>1 DEF Types
<1>10. \A s \in Slot : shown[At(menu, s)] = items[At(menu, s)]
  <2>1. \A s \in Slot : View(shown, menu)[s] = View(items, menu)[s] BY DEF Inv, Shows
  <2> QED BY <2>1 DEF View
<1>11. \A k \in DOMAIN toServer' : \E j \in DOMAIN toServer : toServer'[k] = toServer[j] BY <1>2
<1>12. InOrder'
  <2>1. Batch(q, menu, stateId, stateId', opened, opened') BY <1>2, <1>5, <1>7
  <2> HIDE DEF q, st
  <2> QED BY <1>3, <1>5, <1>6, <1>8, <1>9, <1>11, <2>1, TellInOrder
<1>13. Shows'
  <2>1. View(shown', menu') = View(items', menu')
    <3>1. View(Overlay(View(f, menu), menu, shown), menu) = View(f, menu) BY <1>3, ShownAfter
    <3> QED BY <1>2, <1>5, <3>1
  <2>2. Shows' <=> View(shown', menu') = View(items', menu') BY DEF Shows, View, At
  <2> QED BY <2>1, <2>2
<1>14. Announced' BY <1>2, <1>4, <1>5, <1>8, <1>10, BroadcastAnnounces
<1>15. Settling'
  <2> SUFFICES ASSUME menu # 0, current_window # NoWindow, current_window.id = menu
               PROVE  Overdue' \/ Answered' \/ Predicted'
    BY <1>2, <1>8 DEF Settling
  <2>1. UNCHANGED <<current_window, menu>> /\ toServer' = toServer /\ toServer' \in Seq(Requests) BY <1>2, <1>3, <1>8
  <2>2. CASE Overdue
    <3>1. \E k \in DOMAIN toServer' : toServer'[k].kind = "click" /\ toServer'[k].id = menu
                                      /\ toServer'[k].state_id # stateId[menu]
      BY <2>1, <2>2 DEF Overdue
    <3> QED BY <1>4, <1>5, <1>8, <1>11, <2>1, <3>1, BroadcastSettles
  <2>3. CASE Answered
    <3>1. None_Of(toServer', menu) BY <2>1, <2>3 DEF Answered
    <3>2. \A s \in Slot : Settles(toClient, 0, menu, s, current_window.slots[s], shown[At(menu, s)])
      BY <1>10, <2>3 DEF Answered
    <3> QED BY <1>4, <1>5, <1>8, <1>11, <2>1, <3>1, <3>2, BroadcastSettles
  <2>4. CASE Predicted
    <3>1. None_Of(toClient, menu) BY <2>4 DEF Predicted
    <3>2. \A s \in Slot : Settles(toServer', 0, menu, s, shown[At(menu, s)], current_window.slots[s])
      BY <1>10, <2>1, <2>4 DEF Predicted
    <3> QED BY <1>4, <1>5, <1>8, <1>11, <2>1, <3>1, <3>2, BroadcastSettles
  <2> QED BY <2>2, <2>3, <2>4 DEF Inv, Settling
<1>16. ContentNext' BY <1>5, <1>6, <1>8, TellContentNext
<1>17. Calls' BY <1>8 DEF Inv, Calls
<1> QED BY <1>9, <1>12, <1>13, <1>14, <1>15, <1>16, <1>17 DEF Inv

\* The opening of a window and its content.
LEMMA OpeningBatch ==
  ASSUME NEW n \in Ids \ {0}, NEW f \in [Place -> Stack], stateId \in [Ids -> Nat], opened \in Ids, opened < n
  PROVE  LET screen == [kind |-> "open_screen", id |-> n]
             st == [stateId EXCEPT ![n] = @ + 1]
         IN  /\ <<screen>> \o <<Filling(f, n)>> \in Seq(Packets) /\ <<screen>> \in Seq(Packets)
             /\ Batch(<<screen>> \o <<Filling(f, n)>>, n, stateId, st, opened, n)
<1> DEFINE screen == [kind |-> "open_screen", id |-> n]
           p == Filling(f, n)
           st == [stateId EXCEPT ![n] = @ + 1]
           r == <<screen>> \o <<p>>
<1>1. screen \in Packets BY DEF Packets, Screen
<1>2. n \in Nat /\ opened \in Nat BY BoundsAssumption DEF Ids
<1>3. p \in Packets /\ <<p>> \in Seq(Packets) /\ Batch(<<p>>, n, stateId, st, n, n)
  <2>1. n <= n BY <1>2
  <2> QED BY <2>1, ContentBatch
<1>4. p.kind = "content" /\ p.id = n BY DEF Filling
<1>5. <<screen>> \in Seq(Packets) /\ screen.kind = "open_screen" /\ screen.id = n BY <1>1
<1> HIDE DEF p, st, screen
<1>6. r \in Seq(Packets) /\ DOMAIN r = {1, 2} /\ r[1] = screen /\ r[2] = p
  <2>1. Len(<<screen>>) = 1 /\ Len(<<p>>) = 1 /\ <<screen>>[1] = screen /\ <<p>>[1] = p OBVIOUS
  <2>2. /\ r \in Seq(Packets) /\ DOMAIN r = 1 .. 1 + 1
        /\ \A k \in 1 .. 1 : r[k] = <<screen>>[k] /\ r[1 + k] = <<p>>[k]
    BY <1>3, <1>5, <2>1, Joined
  <2>3. r[1] = <<screen>>[1] /\ r[1 + 1] = <<p>>[1] BY <2>2
  <2> QED BY <2>1, <2>2, <2>3
<1>7. stateId[n] < p.state_id /\ p.state_id <= st[n] /\ \A i \in Ids : stateId[i] <= st[i]
  <2>1. DOMAIN <<p>> = {1} /\ <<p>>[1] = p BY <1>3
  <2>2. Sets(p) BY <1>4 DEF Sets
  <2> QED BY <1>3, <2>1, <2>2 DEF Batch
<1> HIDE DEF r
<1>8. Batch(r, n, stateId, st, opened, n)
  <2>1. ~Sets(screen) BY <1>5 DEF Sets
  <2>2. n <= n /\ opened <= n BY <1>2
  <2> QED BY <1>4, <1>5, <1>6, <1>7, <2>1, <2>2 DEF Batch
<1> QED BY <1>5, <1>6, <1>8 DEF r, p, st, screen

\* The server opens a window, or none.
LEMMA ServerOpensKeeps ==
  ASSUME Inv, ServerOpens
  PROVE  Inv'
<1>1. /\ toServer # <<>> /\ toServer' = Tail(toServer) /\ Head(toServer).kind = "use"
      /\ UNCHANGED <<botVars, changes>>
  BY DEF ServerOpens, ServerReceive
<1>2. /\ toServer' \in Seq(Requests) /\ Head(toServer) = toServer[1]
      /\ \A k \in DOMAIN toServer' : \E j \in DOMAIN toServer : toServer'[k] = toServer[j]
  BY <1>1, ServerTakes DEF Inv
<1>3. CASE UNCHANGED <<menu, opened, carried, toClient, items, shown, stateId>>
  <2>1. toServer[1].kind # "click" BY <1>1, <1>2
  <2> QED BY <1>1, <1>3, <2>1, ServerIgnores
<1>4. CASE ~UNCHANGED <<menu, opened, carried, toClient, items, shown, stateId>>
  <2> DEFINE n == opened + 1
             kept == IF menu = 0 THEN items ELSE Returned
             close == IF menu = 0 THEN <<>> ELSE BackPackets \o <<[kind |-> "container_close"]>>
             screen == [kind |-> "open_screen", id |-> n]
             p == Filling(kept, n)
             st == [stateId EXCEPT ![n] = @ + 1]
             r == close \o (<<screen>> \o <<p>>)
  <2>1. /\ opened < MaxWindows /\ opened' = n /\ menu' = n
        /\ carried' = IF menu = 0 THEN carried ELSE [carried EXCEPT ![menu] = None]
        /\ SendContent(kept, opened', close \o <<[kind |-> "open_screen", id |-> opened']>>)
    BY <1>4 DEF ServerOpens
  <2>2. /\ toClient' = (toClient \o (close \o <<screen>>)) \o <<p>>
        /\ stateId' = st
        /\ shown' = Overlay(View(kept, n), n, shown)
        /\ items' = kept
    BY <2>1 DEF SendContent, Filling
  <2>3. Types /\ InOrder /\ ContentNext /\ UNCHANGED <<inventory, current_window, call, bumped>>
    BY <1>1 DEF Inv, botVars
  <2>4. /\ toClient \in Seq(Packets) /\ stateId \in [Ids -> Nat] /\ opened \in Ids
        /\ items \in [Place -> Stack] /\ carried \in [Ids -> Stack] /\ menu \in Ids
    BY <2>3, BoundsAssumption DEF Types, Ids
  <2>5. n \in Ids \ {0} /\ opened < n /\ n \in Nat /\ opened \in Nat
    BY <2>1, <2>4, BoundsAssumption DEF Ids
  <2>6. kept \in [Place -> Stack] BY <2>3, <2>4, BackType
  <2>7. close \in Seq(Quiet)
    <3>1. <<[kind |-> "container_close"]>> \in Seq(Quiet)
      <4>1. [kind |-> "container_close"] \in Quiet BY DEF Quiet
      <4> QED BY <4>1
    <3>2. BackPackets \in Seq(Quiet) BY <2>3, BackType
    <3>3. BackPackets \o <<[kind |-> "container_close"]>> \in Seq(Quiet) BY <3>1, <3>2, ConcatProperties
    <3> QED BY <3>3, EmptySeq
  <2> HIDE DEF n, kept, close, r
  <2>8. /\ <<screen>> \o <<p>> \in Seq(Packets) /\ <<screen>> \in Seq(Packets)
        /\ Batch(<<screen>> \o <<p>>, n, stateId, st, opened, n)
    BY <2>4, <2>5, <2>6, OpeningBatch
  <2>9. /\ p \in Packets /\ <<p>> \in Seq(Packets) /\ st \in [Ids -> Nat]
        /\ \A s \in Slot : About(p, n, s) /\ Says(p, s) = kept[At(n, s)]
    BY <2>4, <2>5, <2>6, ContentBatch
  <2>10. p.kind = "content" BY DEF Filling
  <2> HIDE DEF screen, p, st
  <2>11. /\ r \in Seq(Packets) /\ close \in Seq(Packets)
         /\ Batch(r, n, stateId, st, opened, n)
    BY <2>7, <2>8, QuietBatch DEF r
  <2>12. toClient' = toClient \o r
    <3>1. close \o <<screen>> \in Seq(Packets) BY <2>8, <2>11, Joined
    <3>2. (toClient \o (close \o <<screen>>)) \o <<p>> = toClient \o ((close \o <<screen>>) \o <<p>>)
      BY <2>4, <2>9, <3>1, Regrouped, Zenon
    <3>3. (close \o <<screen>>) \o <<p>> = r BY <2>8, <2>9, <2>11, Regrouped, ZenonT(60) DEF r
    <3>4. toClient' = (toClient \o (close \o <<screen>>)) \o <<p>> BY <2>2, Zenon
    <3> QED BY <3>2, <3>3, <3>4, Zenon
  <2>13. Types'
    <3>1. toClient' \in Seq(Packets) BY <2>4, <2>11, <2>12, Joined
    <3>2. carried' \in [Ids -> Stack]
      <4>1. None \in Stack BY DEF Stack
      <4> QED BY <2>1, <2>4, <4>1
    <3>3. opened' \in Ids /\ menu' \in 0 .. opened' BY <2>1, <2>5
    <3> QED BY <1>2, <2>2, <2>3, <2>6, <2>9, <3>1, <3>2, <3>3 DEF Types
  <2>14. InOrder'
    <3>1. Batch(r, n, stateId, stateId', opened, opened') BY <2>1, <2>2, <2>11
    <3>2. n \in Ids BY <2>5
    <3> QED BY <1>2, <2>3, <2>11, <2>12, <2>13, <3>1, <3>2, TellInOrder
  <2>15. Shows'
    <3>1. View(shown', n) = View(items', n) BY <2>2, <2>5, ShownAfter
    <3>2. Shows' <=> View(shown', menu') = View(items', menu') BY DEF Shows, View, At
    <3> QED BY <2>1, <3>1, <3>2
  <2>16. Announced'
    <3> DEFINE q == toClient \o (close \o <<screen>>)
    <3>1. q \in Seq(Packets)
      <4>1. close \o <<screen>> \in Seq(Packets) BY <2>8, <2>11, Joined
      <4> QED BY <2>4, <4>1, Joined
    <3>2. toClient' = q \o <<p>> BY <2>2
    <3> HIDE DEF q
    <3>3. ASSUME NEW k \in DOMAIN toClient', toClient'[k].kind = "open_screen", NEW s \in Slot, NEW v \in Stack
          PROVE  Settles(toClient', k, n, s, v, kept[At(n, s)])
      <4>1. k \in DOMAIN q \/ (k - Len(q) \in DOMAIN <<p>> /\ toClient'[k] = <<p>>[k - Len(q)])
        BY <2>9, <3>1, <3>2, Joined
      <4>2. DOMAIN <<p>> = {1} /\ <<p>>[1] = p BY <2>9
      <4>3. k \in DOMAIN q BY <2>10, <3>3, <4>1, <4>2
      <4>4. k \in 0 .. Len(q) BY <3>1, <4>3, LenProperties
      <4>5. About(p, n, s) /\ Says(p, s) = kept[At(n, s)] BY <2>9
      <4>6. Settles(q \o <<p>>, k, n, s, v, Says(p, s)) BY <2>9, <3>1, <4>4, <4>5, SettlesLast
      <4> QED BY <3>2, <4>5, <4>6
    <3> QED BY <2>1, <2>2, <3>3 DEF Announced
  <2>17. Settling'
    <3>1. current_window' # NoWindow => current_window'.id # n
      <4> SUFFICES ASSUME current_window # NoWindow PROVE current_window.id # n BY <2>3
      <4>1. current_window.id <= opened /\ current_window.id \in Ids BY <2>3 DEF InOrder, Behind, Types, WindowOf
      <4>2. current_window.id \in Nat BY <4>1, BoundsAssumption DEF Ids
      <4> QED BY <2>5, <4>1, <4>2
    <3> QED BY <2>1, <3>1 DEF Settling
  <2>18. ContentNext' BY <2>3, <2>11, <2>12, TellContentNext
  <2>19. Calls' BY <2>3 DEF Inv, Calls
  <2> QED BY <2>13, <2>14, <2>15, <2>16, <2>17, <2>18, <2>19 DEF Inv
<1> QED BY <1>3, <1>4

-----------------------------------------------------------------------------
(* The bot's clicks.                                                       *)

\* All but what concerns the call.
Rest == Types /\ InOrder /\ Shows /\ Announced /\ Settling

\* A click is predicted, and told to the server.
LEMMA ClickKeeps ==
  ASSUME Inv, NEW slot, NEW button, NEW mode, [slot |-> slot, button |-> button, mode |-> mode] \in Clicks,
         ClickWindow(slot, button, mode)
  PROVE  Rest' /\ ContentNext'
<1> DEFINE c == [slot |-> slot, button |-> button, mode |-> mode]
           w == Active
           r == Clicked([slots |-> w.slots, cursor |-> w.cursor], c)
           new == [w EXCEPT !.slots = r.slots, !.cursor = r.cursor]
           m == [kind |-> "click", id |-> w.id, state_id |-> w.state_id, click |-> c,
                 changed |-> Restrict(r.slots, Changed(w.slots, r.slots)), cursor |-> r.cursor]
<1>1. /\ SetActive(new)
      /\ toServer' = Append(toServer, m)
      /\ bumped' = FALSE
      /\ UNCHANGED <<toClient, serverVars>>
  BY DEF ClickWindow
<1>2. /\ toServer \in Seq(Requests) /\ toClient \in Seq(Packets) /\ stateId \in [Ids -> Nat] /\ opened \in Ids
      /\ inventory \in WindowOf({0}) /\ 0 \in Ids /\ menu \in Ids
      /\ current_window # NoWindow => current_window \in WindowOf(Ids \ {0})
  BY BoundsAssumption DEF Inv, Types, Ids
<1>3. w \in WindowOf(Ids)
  <2>1. CASE current_window # NoWindow BY <1>2, <2>1 DEF Active, WindowOf
  <2>2. CASE current_window = NoWindow BY <1>2, <2>2 DEF Active, WindowOf
  <2> QED BY <2>1, <2>2
<1>4. w.slots \in Contained /\ w.cursor \in Stack /\ w.id \in Ids /\ w.state_id \in Nat BY <1>3 DEF WindowOf
<1> HIDE DEF w
<1>5. r \in Holding
  <2>1. [slots |-> w.slots, cursor |-> w.cursor] \in Holding BY <1>4 DEF Holding
  <2> QED BY <2>1, ClickedType
<1>6. r.slots \in Contained /\ r.cursor \in Stack BY <1>5 DEF Holding
<1> HIDE DEF r
<1>7. \A S : w \in WindowOf(S) => new \in WindowOf(S) BY <1>6 DEF WindowOf
<1>8. new.id = w.id /\ new.slots = r.slots /\ new.state_id = w.state_id /\ new.seeded = w.seeded
  BY <1>3 DEF WindowOf
<1>9. m.changed \in Reports
  <2>1. Changed(w.slots, r.slots) \in SUBSET Slot BY DEF Changed
  <2>2. m.changed \in [Changed(w.slots, r.slots) -> Stack] BY <1>6, <2>1 DEF Restrict, Contained
  <2> QED BY <2>1, <2>2 DEF Reports
<1>10. m \in Requests BY <1>4, <1>6, <1>9 DEF Requests, ClickRequest
<1>11. \A s \in Slot : (s \in DOMAIN m.changed <=> w.slots[s] # r.slots[s])
                       /\ (s \in DOMAIN m.changed => m.changed[s] = r.slots[s])
  BY DEF Restrict, Changed
<1>12. m.kind = "click" /\ m.id = w.id /\ m.state_id = w.state_id OBVIOUS
<1> HIDE DEF m, new
<1>13. /\ toServer' = toServer \o <<m>> /\ <<m>> \in Seq(Requests) /\ DOMAIN <<m>> = {1} /\ <<m>>[1] = m
       /\ toServer' \in Seq(Requests)
       /\ Len(toServer) \in Nat
       /\ \A k \in DOMAIN toServer : k \in DOMAIN toServer' /\ toServer'[k] = toServer[k]
       /\ \A k \in DOMAIN toServer' : (k \in DOMAIN toServer /\ toServer'[k] = toServer[k]) \/ toServer'[k] = m
       /\ \E k \in DOMAIN toServer' : toServer'[k] = m
  <2>1. toServer' = toServer \o <<m>> /\ <<m>> \in Seq(Requests) /\ Len(<<m>>) = 1 /\ <<m>>[1] = m
    BY <1>1, <1>2, <1>10, AppendJoins
  <2>2. DOMAIN <<m>> = {1} OBVIOUS
  <2>3. /\ toServer \o <<m>> \in Seq(Requests) /\ Len(toServer) \in Nat
        /\ \A k \in DOMAIN toServer : k \in DOMAIN (toServer \o <<m>>) /\ (toServer \o <<m>>)[k] = toServer[k]
        /\ \A k \in DOMAIN (toServer \o <<m>>) :
             k \in DOMAIN toServer \/ (k - Len(toServer) \in DOMAIN <<m>>
                                       /\ (toServer \o <<m>>)[k] = <<m>>[k - Len(toServer)])
        /\ Len(toServer) + 1 \in DOMAIN (toServer \o <<m>>) /\ (toServer \o <<m>>)[Len(toServer) + 1] = m
    BY <1>2, <2>1, <2>2, Joined
  <2> QED BY <2>1, <2>2, <2>3
<1>14. /\ w.id <= opened /\ w.state_id <= stateId[w.id]
       /\ \A k \in DOMAIN toClient :
            /\ toClient[k].kind = "open_screen" => w.id < toClient[k].id
            /\ w.id # 0 /\ Sets(toClient[k]) /\ toClient[k].id = w.id => w.state_id < toClient[k].state_id
  <2>1. CASE current_window # NoWindow
    <3>1. w = current_window BY <2>1 DEF w, Active
    <3> QED BY <2>1, <3>1 DEF Inv, InOrder, Behind
  <2>2. CASE current_window = NoWindow
    <3>1. w = inventory /\ w.id = 0 BY <1>2, <2>2 DEF w, Active, WindowOf
    <3>2. opened \in Nat BY <1>2, BoundsAssumption DEF Ids
    <3>3. \A k \in DOMAIN toClient : toClient[k].kind = "open_screen" => toClient[k].id \in Nat \ {0}
      <4> TAKE k \in DOMAIN toClient
      <4>1. toClient[k] \in Packets BY <1>2, LenProperties, ElementOfSeq
      <4>2. toClient[k].kind = "open_screen" => toClient[k].id \in Ids \ {0} BY <4>1, PacketShape
      <4> QED BY <4>2, BoundsAssumption DEF Ids
    <3> QED BY <3>1, <3>2, <3>3 DEF Inv, InOrder, Behind
  <2> QED BY <2>1, <2>2
<1>15. UNCHANGED <<toClient, items, shown, carried, menu, stateId, opened>> BY <1>1 DEF serverVars
<1>16. \/ current_window # NoWindow /\ w = current_window /\ current_window' = new /\ UNCHANGED inventory
       \/ current_window = NoWindow /\ w = inventory /\ inventory' = new /\ UNCHANGED current_window
  BY <1>1 DEF SetActive, w, Active
<1>17. Types'
  <2>1. inventory' \in WindowOf({0}) BY <1>2, <1>7, <1>16
  <2>2. current_window' # NoWindow => current_window' \in WindowOf(Ids \ {0}) BY <1>2, <1>7, <1>16
  <2> QED BY <1>1, <1>13, <1>15, <2>1, <2>2 DEF Inv, Types
<1>18. InOrder'
  <2>1. Orderly(toClient, stateId, opened)' BY <1>15 DEF Inv, InOrder
  <2>2. ClicksKnown(toServer, stateId, opened)'
    <3> SUFFICES ASSUME NEW k \in DOMAIN toServer', toServer'[k].kind = "click"
                 PROVE  toServer'[k].state_id <= stateId'[toServer'[k].id] /\ toServer'[k].id <= opened'
      BY DEF ClicksKnown
    <3>1. CASE k \in DOMAIN toServer /\ toServer'[k] = toServer[k]
      BY <1>15, <3>1 DEF Inv, InOrder, ClicksKnown
    <3>2. CASE toServer'[k] = m BY <1>12, <1>14, <1>15, <3>2
    <3> QED BY <1>13, <3>1, <3>2
  <2>3. Behind'
    <3>1. CASE current_window # NoWindow /\ w = current_window /\ current_window' = new /\ UNCHANGED inventory
      <4>1. current_window'.id = current_window.id /\ current_window'.state_id = current_window.state_id
        BY <1>8, <3>1
      <4> QED BY <1>15, <3>1, <4>1 DEF Inv, InOrder, Behind
    <3>2. CASE current_window = NoWindow /\ w = inventory /\ inventory' = new /\ UNCHANGED current_window
      BY <1>8, <1>15, <3>2 DEF Inv, InOrder, Behind
    <3> QED BY <1>16, <3>1, <3>2
  <2>4. ClicksBehind'
    <3> SUFFICES ASSUME NEW i \in DOMAIN toServer', NEW k \in DOMAIN toClient,
                        toServer'[i].kind = "click", toClient[k].kind = "open_screen"
                 PROVE  toServer'[i].id < toClient[k].id
      BY <1>15 DEF ClicksBehind
    <3>1. CASE i \in DOMAIN toServer /\ toServer'[i] = toServer[i]
      BY <3>1 DEF Inv, InOrder, ClicksBehind
    <3>2. CASE toServer'[i] = m BY <1>12, <1>14, <3>2
    <3> QED BY <1>13, <3>1, <3>2
  <2> QED BY <2>1, <2>2, <2>3, <2>4 DEF InOrder
<1>19. Shows' BY <1>15 DEF Inv, Shows, View, At
<1>20. Announced' BY <1>15 DEF Inv, Announced
<1>21. Settling'
  <2> SUFFICES ASSUME menu # 0, current_window' # NoWindow, current_window'.id = menu
               PROVE  Overdue' \/ Answered' \/ Predicted'
    BY <1>15 DEF Settling
  <2>1. current_window # NoWindow /\ w = current_window /\ current_window' = new BY <1>16
  <2>2. w.id = menu BY <1>8, <2>1
  <2>3. \A s \in Slot : Settles(<<m>>, 0, menu, s, current_window.slots[s], new.slots[s])
    <3> TAKE s \in Slot
    <3>1. OfWindow(m, menu) BY <1>12, <2>2 DEF OfWindow
    <3>2. About(m, menu, s) <=> s \in DOMAIN m.changed BY <1>12, <3>1 DEF About
    <3>3. CASE s \in DOMAIN m.changed
      <4>1. Says(m, s) = new.slots[s] BY <1>8, <1>11, <1>12, <3>3 DEF Says
      <4>2. Silent(<<m>>, 1, menu, s) BY <1>13 DEF Silent
      <4> QED BY <1>13, <3>2, <3>3, <4>1, <4>2 DEF Settles
    <3>4. CASE s \notin DOMAIN m.changed
      <4>1. new.slots[s] = current_window.slots[s] BY <1>8, <1>11, <2>1, <3>4
      <4>2. Silent(<<m>>, 0, menu, s) BY <1>13, <3>2, <3>4 DEF Silent
      <4> QED BY <4>1, <4>2 DEF Settles
    <3> QED BY <3>3, <3>4
  <2>4. ASSUME None_Of(toClient, menu),
               \A s \in Slot : Settles(toServer, 0, menu, s, items[At(menu, s)], current_window.slots[s])
        PROVE  Predicted'
    <3>1. \A s \in Slot : Settles(toServer', 0, menu, s, items[At(menu, s)], new.slots[s])
      <4> TAKE s \in Slot
      <4>1. 0 \in 0 .. Len(toServer) BY <1>13
      <4>2. Settles(toServer, 0, menu, s, items[At(menu, s)], current_window.slots[s]) BY <2>4
      <4> QED BY <1>2, <1>13, <2>3, <4>1, <4>2, SettlesConcat
    <3> QED BY <1>15, <2>1, <2>4, <3>1 DEF Predicted
  <2>5. CASE Overdue
    <3>1. PICK k \in DOMAIN toServer : /\ toServer[k].kind = "click" /\ toServer[k].id = menu
                                       /\ toServer[k].state_id # stateId[menu]
      BY <2>5 DEF Overdue
    <3> QED BY <1>13, <1>15, <3>1 DEF Overdue
  <2>6. CASE Answered
    <3>1. CASE None_Of(toClient, menu)
      <4>1. \A s \in Slot : current_window.slots[s] = items[At(menu, s)]
        BY <1>2, <2>6, <3>1, SettlesSilent DEF Answered
      <4>2. \A s \in Slot : Settles(toServer, 0, menu, s, items[At(menu, s)], current_window.slots[s])
        BY <1>2, <2>6, <4>1, SettlesSilent DEF Answered
      <4> QED BY <2>4, <3>1, <4>2
    <3>2. CASE ~None_Of(toClient, menu)
      <4>1. PICK k \in DOMAIN toClient : OfWindow(toClient[k], menu) BY <3>2 DEF None_Of
      <4>2. toClient[k] \in Packets BY <1>2, LenProperties, ElementOfSeq
      <4>3. Sets(toClient[k]) /\ toClient[k].id = menu BY <4>1, <4>2, PacketShape DEF OfWindow, Sets
      <4>4. w.state_id < toClient[k].state_id BY <1>14, <2>2, <4>3
      <4>5. toClient[k].state_id <= stateId[menu] BY <4>3 DEF Inv, InOrder, Orderly, PacketsKnown
      <4>6. toClient[k].state_id \in Nat /\ stateId[menu] \in Nat BY <1>2, <4>2, <4>3, PacketShape
      <4>7. m.state_id # stateId[menu] BY <1>4, <1>12, <4>4, <4>5, <4>6
      <4> QED BY <1>12, <1>13, <1>15, <2>2, <4>7 DEF Overdue
    <3> QED BY <3>1, <3>2
  <2>7. CASE Predicted BY <2>4, <2>7 DEF Predicted
  <2> QED BY <2>1, <2>2, <2>5, <2>6, <2>7 DEF Inv, Settling
<1>22. ContentNext'
  <2>1. CASE current_window # NoWindow /\ w = current_window /\ current_window' = new
    BY <1>1, <1>8, <1>15, <2>1 DEF Inv, ContentNext
  <2>2. CASE current_window = NoWindow /\ UNCHANGED current_window
    BY <1>1, <1>15, <2>2 DEF Inv, ContentNext
  <2> QED BY <1>16, <2>1, <2>2
<1> QED BY <1>17, <1>18, <1>19, <1>20, <1>21, <1>22 DEF Rest

\* A click in a slot that leaves the bot in one of its calls.
LEMMA SlotClick ==
  ASSUME Inv, NEW slot \in Slot, NEW button \in {0, 1}, NEW mode \in {0, 4},
         ClickWindow(slot, button, mode), Calls'
  PROVE  Inv'
<1>1. [slot |-> slot, button |-> button, mode |-> mode] \in Clicks BY DEF Clicks
<1> QED BY <1>1, ClickKeeps DEF Inv, Rest

\* A step of the bot's control alone.
LEMMA Rests ==
  ASSUME Inv, UNCHANGED <<inventory, current_window, toServer, toClient, serverVars>>,
         bumped' \in BOOLEAN, Calls',
         (call' = call /\ bumped' = bumped) \/ call'.op # "open" \/ ~bumped'
  PROVE  Inv'
<1> USE DEF serverVars
<1>1. Types' BY DEF Inv, Types
<1>2. InOrder' BY DEF Inv, InOrder, Behind, ClicksBehind
<1>3. Shows' BY DEF Inv, Shows, View, At
<1>4. Announced' BY DEF Inv, Announced
<1>5. Settling' BY DEF Inv, Settling, Overdue, Answered, Predicted
<1>6. ContentNext' BY DEF Inv, ContentNext
<1> QED BY <1>1, <1>2, <1>3, <1>4, <1>5, <1>6 DEF Inv

\* A call returns.
LEMMA ReturnKeeps ==
  ASSUME Inv, Return
  PROVE  Inv'
<1>1. call' = Idle /\ UNCHANGED <<inventory, current_window, bumped, toServer, toClient, serverVars>>
  BY DEF Return, Only
<1>2. Calls' /\ call'.op # "open" BY <1>1 DEF Calls, Idle
<1>3. bumped' \in BOOLEAN BY <1>1 DEF Inv, Types
<1> QED BY <1>1, <1>2, <1>3, Rests

\* Slots are numbers, and the section is made of slots.
LEMMA SlotFacts == Slot \subseteq Nat /\ Section \subseteq Slot
BY InvSizeAssumption DEF Slot, Own, Section

\* The bot begins a call that clicks.
LEMMA CallKeeps ==
  ASSUME Inv,
         \/ CallClick
         \/ \E slot \in Slot : CallPutAway(slot)
         \/ \E source, dest \in Slot : CallMove(source, dest)
         \/ \E type \in DOMAIN StackSize, dest \in Slot : CallEquip(type, dest)
  PROVE  Inv'
<1>1. CASE CallClick
  <2>1. PICK slot \in Slot, button \in {0, 1} : ClickWindow(slot, button, 0) BY <1>1 DEF CallClick
  <2>2. Calls' BY <1>1 DEF CallClick, LastClick, Calls
  <2> QED BY <2>1, <2>2, SlotClick
<1>2. ASSUME NEW slot \in Slot, CallPutAway(slot) PROVE Inv'
  <2>1. ClickWindow(slot, 0, 0) /\ call' = [op |-> "put_away", fallback |-> slot] BY <1>2 DEF CallPutAway
  <2>2. Calls' BY <2>1 DEF Calls
  <2> QED BY <2>1, <2>2, SlotClick
<1>3. ASSUME NEW source \in Slot, NEW dest \in Slot, CallMove(source, dest) PROVE Inv'
  <2>1. ClickWindow(source, 0, 0) /\ call' = [op |-> "move_to", source |-> source, dest |-> dest]
    BY <1>3 DEF CallMove
  <2>2. Calls' BY <2>1 DEF Calls
  <2> QED BY <2>1, <2>2, SlotClick
<1>4. ASSUME NEW type, NEW dest \in Slot, CallEquip(type, dest) PROVE Inv'
  <2> DEFINE found == {i \in Slot : inventory.slots[i] # None /\ inventory.slots[i].type_id = type}
  <2>1. CASE found = {}
    <3>1. UNCHANGED <<call, inventory, current_window, bumped, toServer, toClient, serverVars>>
      BY <1>4, <2>1 DEF CallEquip, Only
    <3>2. Calls' /\ bumped' \in BOOLEAN BY <3>1 DEF Inv, Calls, Types
    <3> QED BY <3>1, <3>2, Rests
  <2>2. CASE found # {}
    <3>1. ClickWindow(Min(found), 0, 0) /\ call' = [op |-> "equip", dest |-> dest]
      BY <1>4, <2>2 DEF CallEquip
    <3>2. Min(found) \in Slot
      <4>1. found \subseteq Nat /\ found \subseteq Slot BY SlotFacts
      <4> HIDE DEF found
      <4> QED BY <2>2, <4>1, MinIsLeast
    <3>3. Calls' BY <3>1 DEF Calls
    <3> QED BY <3>1, <3>2, <3>3, SlotClick
  <2> QED BY <2>1, <2>2
<1> QED BY <1>1, <1>2, <1>3, <1>4

\* toss clicks the next stack, or is done.
LEMMA TossKeeps ==
  ASSUME Inv, NEW type, NEW next, NEW left, TossFrom(type, next, left)
  PROVE  Inv'
<1> DEFINE found == {i \in Slot : i >= next /\ inventory.slots[i] # None /\ inventory.slots[i].type_id = type}
<1>1. CASE left = 0 \/ found = {}
  <2>1. call' = Idle /\ UNCHANGED <<inventory, current_window, bumped, toServer, toClient, serverVars>>
    BY <1>1 DEF TossFrom, Only
  <2>2. Calls' /\ call'.op # "open" BY <2>1 DEF Calls, Idle
  <2>3. bumped' \in BOOLEAN BY <2>1 DEF Inv, Types
  <2> QED BY <2>1, <2>2, <2>3, Rests
<1>2. CASE ~(left = 0 \/ found = {})
  <2>1. ClickWindow(Min(found), 0, 4) /\ call'.op = "toss" BY <1>2 DEF TossFrom
  <2>2. Min(found) \in Slot
    <3>1. found \subseteq Nat /\ found \subseteq Slot BY SlotFacts
    <3> HIDE DEF found
    <3> QED BY <1>2, <3>1, MinIsLeast
  <2>3. Calls' BY <2>1 DEF Calls
  <2> QED BY <2>1, <2>2, <2>3, SlotClick
<1> QED BY <1>1, <1>2

\* A call of the bot goes on.
LEMMA ContinueKeeps ==
  ASSUME Inv, Continue
  PROVE  Inv'
<1>1. CASE ClickReturns BY <1>1, ReturnKeeps DEF ClickReturns
<1>2. CASE PutReturns BY <1>2, ReturnKeeps DEF PutReturns
<1>3. CASE OpenReturns BY <1>3, ReturnKeeps DEF OpenReturns
<1>4. CASE TossNext BY <1>4, TossKeeps DEF TossNext
<1>5. CASE PutRange
  <2> DEFINE p == Partial(Active)
             v == Vacant(Active)
  <2>1. call.fallback \in Slot BY <1>5 DEF PutRange, Inv, Calls
  <2>2. CASE p \cup v # {}
    <3>1. ClickWindow(Target(Active), 0, 0) /\ UNCHANGED call BY <1>5, <2>2 DEF PutRange
    <3>2. p \subseteq Slot /\ v \subseteq Slot /\ Slot \subseteq Nat BY SlotFacts DEF Partial, Vacant
    <3>3. Target(Active) = IF p # {} THEN Min(p) ELSE Min(v) BY DEF Target
    <3> HIDE DEF p, v
    <3>4. p # {} => Min(p) \in p
      <4>1. p \subseteq Nat BY <3>2
      <4> QED BY <4>1, MinIsLeast
    <3>5. v # {} => Min(v) \in v
      <4>1. v \subseteq Nat BY <3>2
      <4> QED BY <4>1, MinIsLeast
    <3>6. Target(Active) \in Slot BY <2>2, <3>2, <3>3, <3>4, <3>5
    <3>7. Calls' BY <3>1 DEF Inv, Calls
    <3> QED BY <3>1, <3>6, <3>7, SlotClick
  <2>3. CASE p \cup v = {}
    <3>1. ClickWindow(call.fallback, 0, 0) /\ call' = [op |-> "toss_cursor"] BY <1>5, <2>3 DEF PutRange
    <3>2. Calls' BY <3>1 DEF Calls
    <3> QED BY <2>1, <3>1, <3>2, SlotClick
  <2> QED BY <2>2, <2>3
<1>6. CASE TossCursor
  <2>1. ClickWindow(Outside, 0, 0) /\ call' = LastClick BY <1>6 DEF TossCursor
  <2>2. Calls' BY <2>1 DEF Calls, LastClick
  <2>3. [slot |-> Outside, button |-> 0, mode |-> 0] \in Clicks BY DEF Clicks
  <2> QED BY <2>1, <2>2, <2>3, ClickKeeps DEF Inv, Rest
<1>7. CASE MoveTo
  <2>1. call.source \in Slot /\ call.dest \in Slot BY <1>7 DEF MoveTo, Inv, Calls
  <2>2. ClickWindow(call.dest, 0, 0) /\ call' = [op |-> "move_back", source |-> call.source] BY <1>7 DEF MoveTo
  <2>3. Calls' BY <2>1, <2>2 DEF Calls
  <2> QED BY <2>1, <2>2, <2>3, SlotClick
<1>8. CASE MoveBack
  <2>1. call.source \in Slot BY <1>8 DEF MoveBack, Inv, Calls
  <2>2. CASE Active.cursor # None
    <3>1. ClickWindow(call.source, 0, 0) /\ call' = LastClick BY <1>8, <2>2 DEF MoveBack
    <3>2. Calls' BY <3>1 DEF Calls, LastClick
    <3> QED BY <2>1, <3>1, <3>2, SlotClick
  <2>3. CASE Active.cursor = None BY <1>8, <2>3, ReturnKeeps DEF MoveBack
  <2> QED BY <2>2, <2>3
<1>9. CASE EquipTo
  <2>1. call.dest \in Slot BY <1>9 DEF EquipTo, Inv, Calls
  <2>2. ClickWindow(call.dest, 0, 0) /\ call' = LastClick BY <1>9 DEF EquipTo
  <2>3. Calls' BY <2>2 DEF Calls, LastClick
  <2> QED BY <2>1, <2>2, <2>3, SlotClick
<1>10. CASE WindowSeen
  <2>1. /\ UNCHANGED <<inventory, current_window, toServer, toClient, serverVars>>
        /\ bumped' = FALSE /\ call'.op = "open"
    BY <1>10 DEF WindowSeen
  <2>2. Calls' BY <2>1 DEF Calls
  <2> QED BY <2>1, <2>2, Rests
<1> QED BY <1>1, <1>2, <1>3, <1>4, <1>5, <1>6, <1>7, <1>8, <1>9, <1>10 DEF Continue

\* What the server need not answer.
LEMMA SendKeeps ==
  ASSUME Inv, NEW m \in Requests, m.kind # "click", toServer' = Append(toServer, m),
         UNCHANGED <<toClient, serverVars>>, inventory' \in WindowOf({0}),
         inventory'.state_id = inventory.state_id,
         current_window' \in {current_window, NoWindow}, bumped' \in BOOLEAN, Calls',
         ~bumped' \/ current_window' = NoWindow
  PROVE  Inv'
<1> USE DEF serverVars
<1>1. toServer \in Seq(Requests) /\ Len(toServer) \in Nat BY LenProperties DEF Inv, Types
<1>2. /\ toServer' = toServer \o <<m>> /\ <<m>> \in Seq(Requests) /\ toServer' \in Seq(Requests)
      /\ DOMAIN <<m>> = {1} /\ <<m>>[1] = m
      /\ \A k \in DOMAIN toServer : k \in DOMAIN toServer' /\ toServer'[k] = toServer[k]
      /\ \A k \in DOMAIN toServer' : (k \in DOMAIN toServer /\ toServer'[k] = toServer[k]) \/ toServer'[k] = m
  <2>1. toServer' = toServer \o <<m>> /\ <<m>> \in Seq(Requests) /\ <<m>>[1] = m BY <1>1, AppendJoins
  <2>2. DOMAIN <<m>> = {1} OBVIOUS
  <2>3. /\ toServer \o <<m>> \in Seq(Requests)
        /\ \A k \in DOMAIN toServer : k \in DOMAIN (toServer \o <<m>>) /\ (toServer \o <<m>>)[k] = toServer[k]
        /\ \A k \in DOMAIN (toServer \o <<m>>) :
             k \in DOMAIN toServer \/ (k - Len(toServer) \in DOMAIN <<m>>
                                       /\ (toServer \o <<m>>)[k] = <<m>>[k - Len(toServer)])
    BY <1>1, <2>1, Joined
  <2> QED BY <2>1, <2>2, <2>3
<1>3. Types' BY <1>2 DEF Inv, Types
<1> DEFINE one == <<m>>
<1> HIDE DEF one
<1>one. one \in Seq(Requests) /\ toServer' = toServer \o one BY <1>2 DEF one
<1>4. InOrder'
  <2>1. Orderly(toClient, stateId, opened)' BY DEF Inv, InOrder
  <2>2. ClicksKnown(toServer, stateId, opened)' BY <1>2 DEF Inv, InOrder, ClicksKnown
  <2>3. Behind' BY DEF Inv, InOrder, Behind
  <2>4. ClicksBehind' BY <1>2 DEF Inv, InOrder, ClicksBehind
  <2> QED BY <2>1, <2>2, <2>3, <2>4 DEF InOrder
<1>5. Shows' BY DEF Inv, Shows, View, At
<1>6. Announced' BY DEF Inv, Announced
<1>7. Settling'
  <2> SUFFICES ASSUME menu # 0, current_window # NoWindow, current_window.id = menu,
                      current_window' = current_window
               PROVE  Overdue' \/ Answered' \/ Predicted'
    BY DEF Settling
  <2>1. None_Of(one, menu)
    <3>1. ~OfWindow(m, menu) BY RequestShape DEF OfWindow
    <3> QED BY <1>2, <3>1 DEF None_Of, one
  <2>2. CASE Overdue
    <3>1. PICK k \in DOMAIN toServer : /\ toServer[k].kind = "click" /\ toServer[k].id = menu
                                       /\ toServer[k].state_id # stateId[menu]
      BY <2>2 DEF Overdue
    <3> QED BY <1>2, <3>1 DEF Overdue
  <2>3. CASE Answered
    <3>1. None_Of(toServer, menu) BY <2>3 DEF Answered
    <3>2. None_Of(toServer \o one, menu) BY <1>1, <1>one, <2>1, <3>1, NoneConcat
    <3>3. None_Of(toServer', menu) BY <1>one, <3>2
    <3> QED BY <2>3, <3>3 DEF Answered
  <2>4. CASE Predicted
    <3>1. \A s \in Slot : Settles(toServer', 0, menu, s, items[At(menu, s)], current_window.slots[s])
      <4> TAKE s \in Slot
      <4>1. Settles(toServer, 0, menu, s, items[At(menu, s)], current_window.slots[s]) BY <2>4 DEF Predicted
      <4>2. Settles(one, 0, menu, s, current_window.slots[s], current_window.slots[s])
        BY <1>one, <2>1, SettlesSilent
      <4>3. 0 \in 0 .. Len(toServer) BY <1>1
      <4>4. Settles(toServer \o one, 0, menu, s, items[At(menu, s)], current_window.slots[s])
        BY <1>1, <1>one, <4>1, <4>2, <4>3, SettlesConcat
      <4> QED BY <1>one, <4>4
    <3> QED BY <2>4, <3>1 DEF Predicted
  <2> QED BY <2>2, <2>3, <2>4 DEF Inv, Settling
<1>8. ContentNext' BY DEF Inv, ContentNext
<1> QED BY <1>3, <1>4, <1>5, <1>6, <1>7, <1>8 DEF Inv

\* The inventory that sync_current_window leaves.
LEMMA SyncedType ==
  ASSUME Types, current_window # NoWindow
  PROVE  Synced(current_window) \in WindowOf({0}) /\ Synced(current_window).state_id = inventory.state_id
<1>1. inventory \in WindowOf({0}) /\ current_window.slots \in Contained BY DEF Types, WindowOf
<1>2. inventory.slots \in Contained BY <1>1 DEF WindowOf
<1> DEFINE f == [i \in Slot |-> IF i = Own THEN inventory.slots[i] ELSE current_window.slots[i]]
<1>3. f \in Contained BY <1>1, <1>2 DEF Contained
<1>4. Synced(current_window) = [inventory EXCEPT !.slots = f] BY DEF Synced
<1> HIDE DEF f
<1> QED BY <1>1, <1>3, <1>4 DEF WindowOf

\* open_block asks for a window.
LEMMA CallOpenKeeps ==
  ASSUME Inv, CallOpen
  PROVE  Inv'
<1> DEFINE m == [kind |-> "use"]
<1>1. /\ call' = [op |-> "open", until |-> "window"] /\ toServer' = Append(toServer, m)
      /\ UNCHANGED <<toClient, serverVars, inventory, current_window>> /\ bumped' = FALSE
  BY DEF CallOpen, SendOnly
<1>2. m \in Requests /\ m.kind # "click" BY DEF Requests
<1>3. Calls' BY <1>1 DEF Calls
<1>4. inventory' \in WindowOf({0}) BY <1>1 DEF Inv, Types
<1> HIDE DEF m
<1> QED BY <1>1, <1>2, <1>3, <1>4, SendKeeps

\* close_window tells the server, and the section goes back to the inventory.
LEMMA CallCloseKeeps ==
  ASSUME Inv, CallClose
  PROVE  Inv'
<1> DEFINE m == [kind |-> "close", id |-> current_window.id]
<1>1. /\ current_window # NoWindow /\ toServer' = Append(toServer, m)
      /\ inventory' = Synced(current_window) /\ current_window' = NoWindow
      /\ UNCHANGED <<toClient, serverVars, call, bumped>>
  BY DEF CallClose, SendOnly
<1>2. m \in Requests /\ m.kind # "click" BY <1>1 DEF Inv, Types, WindowOf, Requests
<1>3. Calls' /\ bumped' \in BOOLEAN BY <1>1 DEF Inv, Types, Calls
<1>4. inventory' \in WindowOf({0}) /\ inventory'.state_id = inventory.state_id BY <1>1, SyncedType DEF Inv
<1> HIDE DEF m
<1> QED BY <1>1, <1>2, <1>3, <1>4, SendKeeps

-----------------------------------------------------------------------------
(* What arrives at the bot.                                                *)

\* The first packet, and what is left behind it.
LEMMA Arrival ==
  ASSUME Inv, toClient # <<>>, toClient' = Tail(toClient)
  PROVE  /\ toClient \in Seq(Packets) /\ toClient' \in Seq(Packets)
         /\ Head(toClient) = toClient[1] /\ toClient[1] \in Packets /\ 1 \in DOMAIN toClient
         /\ Len(toClient) \in Nat \ {0} /\ DOMAIN toClient = 1 .. Len(toClient)
         /\ DOMAIN toClient' = 1 .. Len(toClient) - 1
         /\ \A k \in DOMAIN toClient' :
              k + 1 \in DOMAIN toClient /\ toClient'[k] = toClient[k + 1] /\ 1 < k + 1 /\ k \in Nat
         /\ \A k \in DOMAIN toClient : k = 1 \/ (k - 1 \in DOMAIN toClient' /\ toClient'[k - 1] = toClient[k])
<1>1. toClient \in Seq(Packets) BY DEF Inv, Types
<1>2. /\ Tail(toClient) \in Seq(Packets) /\ Head(toClient) = toClient[1] /\ toClient[1] \in Packets
      /\ 1 \in DOMAIN toClient
      /\ Len(toClient) \in Nat \ {0} /\ DOMAIN toClient = 1 .. Len(toClient)
      /\ DOMAIN Tail(toClient) = 1 .. Len(toClient) - 1
      /\ \A k \in DOMAIN Tail(toClient) : k + 1 \in DOMAIN toClient /\ Tail(toClient)[k] = toClient[k + 1]
      /\ \A k \in DOMAIN toClient : k = 1 \/ (k - 1 \in DOMAIN Tail(toClient) /\ Tail(toClient)[k - 1] = toClient[k])
  BY <1>1, Shifted
<1>3. \A k \in 1 .. Len(toClient) - 1 : 1 < k + 1 /\ k \in Nat BY <1>2
<1> QED BY <1>1, <1>2, <1>3

\* What taking any packet keeps of the queue.
LEMMA ReceiveKeeps ==
  ASSUME Inv, toClient # <<>>, toClient' = Tail(toClient), UNCHANGED <<call, toServer, serverVars>>,
         inventory' \in WindowOf({0}), bumped' \in BOOLEAN,
         current_window' # NoWindow => current_window' \in WindowOf(Ids \ {0}),
         Behind', Settling', ContentNext'
  PROVE  Inv'
<1> USE DEF serverVars
<1>1. /\ toClient \in Seq(Packets) /\ toClient' \in Seq(Packets)
      /\ Len(toClient) \in Nat \ {0} /\ DOMAIN toClient = 1 .. Len(toClient)
      /\ \A k \in DOMAIN toClient' : k + 1 \in DOMAIN toClient /\ toClient'[k] = toClient[k + 1] /\ k \in Nat
  BY Arrival
<1>2. Types' BY <1>1 DEF Inv, Types
<1>3. Calls' BY DEF Inv, Calls
<1>4. InOrder'
  <2>1. Orderly(toClient, stateId, opened)'
    <3>1. Orderly(toClient, stateId, opened) BY DEF Inv, InOrder
    <3>2. Orderly(Tail(toClient), stateId, opened) BY <1>1, <3>1, OrderlyTail
    <3> QED BY <3>2
  <2>2. ClicksKnown(toServer, stateId, opened)' BY DEF Inv, InOrder
  <2>3. ClicksBehind' BY <1>1 DEF Inv, InOrder, ClicksBehind
  <2> QED BY <2>1, <2>2, <2>3 DEF InOrder
<1>5. Shows' BY DEF Inv, Shows, View, At
<1>6. Announced'
  <2> SUFFICES ASSUME NEW k \in DOMAIN toClient', toClient'[k].kind = "open_screen", toClient'[k].id = menu,
                      NEW s \in Slot, NEW v \in Stack
               PROVE  Settles(toClient', k, menu, s, v, items[At(menu, s)])
    BY DEF Announced
  <2>1. k + 1 \in DOMAIN toClient /\ toClient'[k] = toClient[k + 1] /\ k \in Nat BY <1>1
  <2>2. Settles(toClient, k + 1, menu, s, v, items[At(menu, s)]) BY <2>1 DEF Inv, Announced
  <2> DEFINE n == k + 1
  <2>3. n \in 0 .. Len(toClient) /\ n # 0 /\ n - 1 = k BY <1>1, <2>1
  <2>4. Settles(toClient, n, menu, s, v, items[At(menu, s)]) BY <2>2
  <2> HIDE DEF n
  <2>5. Settles(Tail(toClient), n - 1, menu, s, v, items[At(menu, s)]) BY <1>1, <2>3, <2>4, SettlesTail
  <2> QED BY <2>3, <2>5
<1> QED BY <1>2, <1>3, <1>4, <1>5, <1>6 DEF Inv

\* What a window that is seeded waits for.
LEMMA NotSeeded ==
  ASSUME Inv, toClient # <<>>, current_window # NoWindow,
         toClient[1].kind = "content" => toClient[1].id # current_window.id
  PROVE  ~current_window.seeded
BY DEF Inv, ContentNext

\* The open window takes what the packet says of it, or closes.
LEMMA TakeKeeps ==
  ASSUME Inv, toClient # <<>>, toClient' = Tail(toClient), UNCHANGED <<call, toServer, serverVars>>,
         inventory' \in WindowOf({0}), inventory'.state_id <= stateId[0], bumped' \in BOOLEAN,
         current_window' # NoWindow =>
           /\ current_window # NoWindow
           /\ current_window' \in WindowOf(Ids \ {0})
           /\ current_window'.id = current_window.id
           /\ ~current_window'.seeded
           /\ current_window'.state_id = IF Sets(toClient[1]) /\ toClient[1].id = current_window.id
                                         THEN toClient[1].state_id ELSE current_window.state_id
           /\ \A s \in Slot : current_window'.slots[s] =
                IF About(toClient[1], current_window.id, s) THEN Says(toClient[1], s)
                ELSE current_window.slots[s]
  PROVE  Inv'
<1> USE DEF serverVars
<1> DEFINE p == toClient[1]
<1>1. /\ toClient \in Seq(Packets) /\ p \in Packets /\ 1 \in DOMAIN toClient /\ Len(toClient) \in Nat \ {0}
      /\ \A k \in DOMAIN toClient' : k + 1 \in DOMAIN toClient /\ toClient'[k] = toClient[k + 1] /\ 1 < k + 1
  BY Arrival
<1> HIDE DEF p
<1>2. Behind'
  <2> SUFFICES ASSUME current_window' # NoWindow
               PROVE  /\ current_window'.id <= opened
                      /\ current_window'.state_id <= stateId[current_window'.id]
                      /\ \A k \in DOMAIN toClient' :
                           /\ toClient'[k].kind = "open_screen" => current_window'.id < toClient'[k].id
                           /\ Sets(toClient'[k]) /\ toClient'[k].id = current_window'.id
                                => current_window'.state_id < toClient'[k].state_id
    BY DEF Behind
  <2>1. /\ current_window # NoWindow /\ current_window'.id = current_window.id
        /\ current_window'.state_id = IF Sets(p) /\ p.id = current_window.id THEN p.state_id
                                      ELSE current_window.state_id
    BY DEF p
  <2>2. /\ current_window.id <= opened /\ current_window.state_id <= stateId[current_window.id]
        /\ \A k \in DOMAIN toClient :
             /\ toClient[k].kind = "open_screen" => current_window.id < toClient[k].id
             /\ Sets(toClient[k]) /\ toClient[k].id = current_window.id
                  => current_window.state_id < toClient[k].state_id
    BY <2>1 DEF Inv, InOrder, Behind
  <2>3. Sets(p) /\ p.id = current_window.id => p.state_id <= stateId[current_window.id]
    BY <1>1 DEF p, Inv, InOrder, Orderly, PacketsKnown
  <2>4. \A k \in DOMAIN toClient : 1 < k /\ Sets(p) /\ Sets(toClient[k]) /\ p.id = toClient[k].id
          => p.state_id < toClient[k].state_id
    BY <1>1 DEF p, Inv, InOrder, Orderly, StatesInOrder
  <2>5. ASSUME NEW k \in DOMAIN toClient'
        PROVE  /\ toClient'[k].kind = "open_screen" => current_window'.id < toClient'[k].id
               /\ Sets(toClient'[k]) /\ toClient'[k].id = current_window'.id
                    => current_window'.state_id < toClient'[k].state_id
    <3>1. k + 1 \in DOMAIN toClient /\ toClient'[k] = toClient[k + 1] /\ 1 < k + 1 BY <1>1
    <3> DEFINE l == k + 1
    <3> HIDE DEF l
    <3>2. l \in DOMAIN toClient /\ toClient'[k] = toClient[l] /\ 1 < l BY <3>1 DEF l
    <3> QED BY <2>1, <2>2, <2>4, <3>2
  <2> QED BY <2>1, <2>2, <2>3, <2>5
<1>3. Settling'
  <2> SUFFICES ASSUME menu # 0, current_window' # NoWindow, current_window'.id = menu
               PROVE  Overdue' \/ Answered' \/ Predicted'
    BY DEF Settling
  <2>1. /\ current_window # NoWindow /\ current_window.id = menu
        /\ \A s \in Slot : current_window'.slots[s] =
             IF About(p, menu, s) THEN Says(p, s) ELSE current_window.slots[s]
    BY DEF p
  <2>2. CASE Overdue BY <2>2 DEF Overdue
  <2>3. CASE Answered
    <3>1. \A s \in Slot : Settles(toClient', 0, menu, s, current_window'.slots[s], items[At(menu, s)])
      <4> TAKE s \in Slot
      <4>1. Settles(toClient, 0, menu, s, current_window.slots[s], items[At(menu, s)]) BY <2>3 DEF Answered
      <4>2. 0 \in 0 .. Len(toClient) BY <1>1
      <4>3. Settles(Tail(toClient), 0, menu, s,
                    IF About(p, menu, s) THEN Says(p, s) ELSE current_window.slots[s], items[At(menu, s)])
        BY <1>1, <4>1, <4>2, SettlesTail DEF p
      <4> QED BY <2>1, <4>3
    <3> QED BY <2>3, <3>1 DEF Answered
  <2>4. CASE Predicted
    <3>1. ~OfWindow(p, menu) /\ None_Of(toClient', menu) BY <1>1, <2>4, NoneTail DEF p, Predicted
    <3>2. \A s \in Slot : current_window'.slots[s] = current_window.slots[s] BY <2>1, <3>1 DEF About
    <3>3. \A s \in Slot : Settles(toServer, 0, menu, s, items[At(menu, s)], current_window'.slots[s])
      BY <2>4, <3>2 DEF Predicted
    <3> QED BY <3>1, <3>3 DEF Predicted
  <2> QED BY <2>1, <2>2, <2>3, <2>4 DEF Inv, Settling
<1>4. ContentNext' BY DEF ContentNext
<1>5. current_window' # NoWindow => current_window' \in WindowOf(Ids \ {0}) OBVIOUS
<1> QED BY <1>2, <1>3, <1>4, <1>5, ReceiveKeeps

\* Clearing the grid leaves stacks.
LEMMA ClearedType ==
  ASSUME NEW f \in Contained
  PROVE  GridCleared(f) \in Contained
<1> DEFINE vacant == {i \in Section : f[i] = None}
<1>1. CASE f[Own] = None \/ vacant = {} BY <1>1 DEF GridCleared
<1>2. CASE ~(f[Own] = None \/ vacant = {})
  <2>1. Min(vacant) \in Slot
    <3>1. vacant \subseteq Nat /\ vacant \subseteq Slot BY SlotFacts
    <3> HIDE DEF vacant
    <3> QED BY <1>2, <3>1, MinIsLeast
  <2>2. None \in Stack /\ Own \in Slot BY DEF Stack, Slot
  <2>3. GridCleared(f) = [f EXCEPT ![Min(vacant)] = f[Own], ![Own] = None] BY <1>2 DEF GridCleared
  <2> HIDE DEF vacant
  <2> QED BY <2>1, <2>2, <2>3 DEF Contained
<1> QED BY <1>1, <1>2

\* What a packet for a window means to the bot.
LEMMA Received ==
  ASSUME Inv, NEW kind, Receive(kind)
  PROVE  /\ Driving /\ toClient # <<>> /\ toClient' = Tail(toClient)
         /\ UNCHANGED <<call, toServer, serverVars>>
         /\ Head(toClient) = toClient[1] /\ toClient[1] \in Packets /\ toClient[1].kind = kind
         /\ inventory \in WindowOf({0}) /\ inventory.state_id <= stateId[0]
         /\ current_window # NoWindow =>
              current_window \in WindowOf(Ids \ {0}) /\ current_window.id # 0
<1>1. Driving /\ toClient # <<>> /\ toClient' = Tail(toClient) /\ UNCHANGED <<call, toServer, serverVars>>
      /\ Head(toClient).kind = kind
  BY DEF Receive
<1>2. Head(toClient) = toClient[1] /\ toClient[1] \in Packets BY <1>1, Arrival
<1>3. inventory \in WindowOf({0}) /\ inventory.state_id <= stateId[0] BY DEF Inv, Types, InOrder, Behind
<1>4. current_window # NoWindow => current_window \in WindowOf(Ids \ {0}) BY DEF Inv, Types
<1>5. \A w \in WindowOf(Ids \ {0}) : w.id # 0 BY DEF WindowOf
<1> QED BY <1>1, <1>2, <1>3, <1>4, <1>5

\* handle_inventory_content.
LEMMA ContentKeeps ==
  ASSUME Inv, HandleContent
  PROVE  Inv'
<1> DEFINE p == toClient[1]
<1>1. /\ toClient # <<>> /\ toClient' = Tail(toClient) /\ UNCHANGED <<call, toServer, serverVars>>
      /\ Head(toClient) = p /\ p \in Packets /\ p.kind = "content"
      /\ inventory \in WindowOf({0}) /\ inventory.state_id <= stateId[0]
      /\ current_window # NoWindow => current_window \in WindowOf(Ids \ {0}) /\ current_window.id # 0
  BY Received DEF HandleContent
<1>2. /\ bumped' = TRUE
      /\ inventory' = IF WindowFor(p.id) # "inventory" THEN inventory
                      ELSE [Filled(inventory, p) EXCEPT !.slots = GridCleared(@)]
      /\ current_window' = IF WindowFor(p.id) # "current" THEN current_window
                           ELSE Filled(current_window, p)
  BY <1>1 DEF HandleContent
<1>3. p.slots \in Contained /\ p.state_id \in Nat /\ p.id \in Ids /\ Sets(p)
  BY <1>1, PacketShape DEF Sets
<1>4. p.state_id <= stateId[p.id]
  <2>1. 1 \in DOMAIN toClient BY <1>1, Arrival
  <2> QED BY <1>3, <2>1 DEF Inv, InOrder, Orderly, PacketsKnown
<1>5. \A s \in Slot : Says(p, s) = p.slots[s] BY <1>1 DEF Says
<1>6. \A id, s : About(p, id, s) <=> p.id = id BY <1>1 DEF About, OfWindow
<1>7. ~(current_window # NoWindow /\ p.id = current_window.id) => current_window = NoWindow \/ ~current_window.seeded
  BY <1>1, NotSeeded
<1> HIDE DEF p
<1>8. inventory' \in WindowOf({0}) /\ inventory'.state_id <= stateId[0]
  <2>1. CASE WindowFor(p.id) # "inventory" BY <1>1, <1>2, <2>1
  <2>2. CASE WindowFor(p.id) = "inventory"
    <3>1. p.id = 0 BY <2>2 DEF WindowFor
    <3>2. inventory' = [inventory EXCEPT !.slots = GridCleared(p.slots), !.state_id = p.state_id, !.seeded = FALSE]
      BY <1>1, <1>2, <2>2 DEF Filled, WindowOf
    <3>3. GridCleared(p.slots) \in Contained BY <1>3, ClearedType
    <3> QED BY <1>1, <1>3, <1>4, <3>1, <3>2, <3>3 DEF WindowOf
  <2> QED BY <2>1, <2>2
<1>9. ASSUME current_window' # NoWindow
      PROVE  /\ current_window # NoWindow
             /\ current_window' \in WindowOf(Ids \ {0})
             /\ current_window'.id = current_window.id
             /\ ~current_window'.seeded
             /\ current_window'.state_id = IF Sets(p) /\ p.id = current_window.id
                                           THEN p.state_id ELSE current_window.state_id
             /\ \A s \in Slot : current_window'.slots[s] =
                  IF About(p, current_window.id, s) THEN Says(p, s) ELSE current_window.slots[s]
  <2>1. CASE WindowFor(p.id) # "current"
    <3>1. current_window' = current_window BY <1>2, <2>1
    <3>2. p.id # current_window.id BY <1>1, <1>9, <2>1, <3>1 DEF WindowFor
    <3> QED BY <1>1, <1>6, <1>7, <1>9, <3>1, <3>2
  <2>2. CASE WindowFor(p.id) = "current"
    <3>1. current_window # NoWindow /\ current_window.id = p.id BY <2>2 DEF WindowFor
    <3>2. current_window' = [current_window EXCEPT !.slots = p.slots, !.state_id = p.state_id, !.seeded = FALSE]
      BY <1>2, <2>2 DEF Filled
    <3>3. current_window \in WindowOf(Ids \ {0}) BY <1>1, <3>1
    <3>4. /\ current_window' \in WindowOf(Ids \ {0}) /\ current_window'.id = current_window.id
          /\ ~current_window'.seeded /\ current_window'.state_id = p.state_id
          /\ current_window'.slots = p.slots
      BY <1>3, <3>2, <3>3 DEF WindowOf
    <3> QED BY <1>3, <1>5, <1>6, <3>1, <3>4
  <2> QED BY <2>1, <2>2
<1>10. bumped' \in BOOLEAN BY <1>2
<1> QED BY <1>1, <1>8, <1>9, <1>10, TakeKeeps DEF p

\* handle_inventory_slot.
LEMMA SlotKeeps ==
  ASSUME Inv, HandleSlot
  PROVE  Inv'
<1> DEFINE p == toClient[1]
<1>1. /\ toClient # <<>> /\ toClient' = Tail(toClient) /\ UNCHANGED <<call, toServer, serverVars>>
      /\ Head(toClient) = p /\ p \in Packets /\ p.kind = "slot"
      /\ inventory \in WindowOf({0}) /\ inventory.state_id <= stateId[0]
      /\ current_window # NoWindow => current_window \in WindowOf(Ids \ {0}) /\ current_window.id # 0
  BY Received DEF HandleSlot
<1>2. /\ bumped' = TRUE
      /\ inventory' = IF WindowFor(p.id) # "inventory" THEN inventory ELSE Updated(inventory, p)
      /\ current_window' = IF WindowFor(p.id) # "current" THEN current_window
                           ELSE Updated(current_window, p)
  BY <1>1 DEF HandleSlot
<1>3. p.slot \in Slot /\ p.item \in Stack /\ p.state_id \in Nat /\ p.id \in Ids /\ Sets(p)
  BY <1>1, PacketShape DEF Sets
<1>4. p.state_id <= stateId[p.id]
  <2>1. 1 \in DOMAIN toClient BY <1>1, Arrival
  <2> QED BY <1>3, <2>1 DEF Inv, InOrder, Orderly, PacketsKnown
<1>5. \A s \in Slot : Says(p, s) = p.item BY <1>1 DEF Says
<1>6. \A id, s : About(p, id, s) <=> p.id = id /\ p.slot = s BY <1>1 DEF About, OfWindow
<1>7. current_window = NoWindow \/ ~current_window.seeded BY <1>1, NotSeeded
<1> HIDE DEF p
<1>8. inventory' \in WindowOf({0}) /\ inventory'.state_id <= stateId[0]
  <2>1. CASE WindowFor(p.id) # "inventory" BY <1>1, <1>2, <2>1
  <2>2. CASE WindowFor(p.id) = "inventory"
    <3>1. p.id = 0 BY <2>2 DEF WindowFor
    <3>2. inventory' = [inventory EXCEPT !.slots = [inventory.slots EXCEPT ![p.slot] = p.item], !.state_id = p.state_id]
      BY <1>1, <1>2, <2>2 DEF Updated, WindowOf
    <3>3. [inventory.slots EXCEPT ![p.slot] = p.item] \in Contained BY <1>1, <1>3 DEF Contained, WindowOf
    <3> QED BY <1>1, <1>3, <1>4, <3>1, <3>2, <3>3 DEF WindowOf
  <2> QED BY <2>1, <2>2
<1>9. ASSUME current_window' # NoWindow
      PROVE  /\ current_window # NoWindow
             /\ current_window' \in WindowOf(Ids \ {0})
             /\ current_window'.id = current_window.id
             /\ ~current_window'.seeded
             /\ current_window'.state_id = IF Sets(p) /\ p.id = current_window.id
                                           THEN p.state_id ELSE current_window.state_id
             /\ \A s \in Slot : current_window'.slots[s] =
                  IF About(p, current_window.id, s) THEN Says(p, s) ELSE current_window.slots[s]
  <2>1. CASE WindowFor(p.id) # "current"
    <3>1. current_window' = current_window BY <1>2, <2>1
    <3>2. p.id # current_window.id BY <1>1, <1>9, <2>1, <3>1 DEF WindowFor
    <3> QED BY <1>1, <1>6, <1>7, <1>9, <3>1, <3>2
  <2>2. CASE WindowFor(p.id) = "current"
    <3>1. current_window # NoWindow /\ current_window.id = p.id BY <2>2 DEF WindowFor
    <3> DEFINE f == [current_window.slots EXCEPT ![p.slot] = p.item]
    <3>2. current_window \in WindowOf(Ids \ {0}) BY <1>1, <3>1
    <3>3. current_window' = [current_window EXCEPT !.slots = f, !.state_id = p.state_id]
      BY <1>2, <2>2, <3>2 DEF Updated, WindowOf
    <3>4. f \in Contained /\ \A s \in Slot : f[s] = IF s = p.slot THEN p.item ELSE current_window.slots[s]
      BY <1>3, <3>2 DEF Contained, WindowOf
    <3> HIDE DEF f
    <3>5. /\ current_window' \in WindowOf(Ids \ {0}) /\ current_window'.id = current_window.id
          /\ current_window'.seeded = current_window.seeded /\ current_window'.state_id = p.state_id
          /\ current_window'.slots = f
      BY <1>3, <3>2, <3>3, <3>4 DEF WindowOf
    <3> QED BY <1>3, <1>5, <1>6, <1>7, <3>1, <3>4, <3>5
  <2> QED BY <2>1, <2>2
<1>10. bumped' \in BOOLEAN BY <1>2
<1> QED BY <1>1, <1>8, <1>9, <1>10, TakeKeeps DEF p

\* A packet that is about no window leaves the open one alone.
LEMMA QuietKeeps ==
  ASSUME Inv, NEW kind, Receive(kind), kind \in {"player_inventory", "container_close"},
         inventory' \in WindowOf({0}), inventory'.state_id = inventory.state_id, UNCHANGED bumped,
         current_window' \in {current_window, NoWindow}
  PROVE  Inv'
<1> DEFINE p == toClient[1]
<1>1. /\ toClient # <<>> /\ toClient' = Tail(toClient) /\ UNCHANGED <<call, toServer, serverVars>>
      /\ p.kind = kind /\ inventory.state_id <= stateId[0]
      /\ current_window # NoWindow => current_window \in WindowOf(Ids \ {0})
  BY Received
<1>2. ~Sets(p) /\ \A id, s : ~About(p, id, s) BY <1>1 DEF Sets, About, OfWindow
<1>3. current_window = NoWindow \/ ~current_window.seeded BY <1>1, NotSeeded
<1>4. inventory'.state_id <= stateId[0] /\ bumped' \in BOOLEAN BY <1>1 DEF Inv, Types
<1> HIDE DEF p
<1>5. current_window' # NoWindow =>
        /\ current_window # NoWindow
        /\ current_window' \in WindowOf(Ids \ {0})
        /\ current_window'.id = current_window.id
        /\ ~current_window'.seeded
        /\ current_window'.state_id = IF Sets(p) /\ p.id = current_window.id
                                      THEN p.state_id ELSE current_window.state_id
        /\ \A s \in Slot : current_window'.slots[s] =
             IF About(p, current_window.id, s) THEN Says(p, s) ELSE current_window.slots[s]
  BY <1>1, <1>2, <1>3
<1> QED BY <1>1, <1>4, <1>5, TakeKeeps DEF p

\* set_player_inventory and container_close.
LEMMA OtherPacketsKeep ==
  ASSUME Inv, HandlePlayerInventory \/ HandleContainerClose
  PROVE  Inv'
<1>1. inventory \in WindowOf({0}) /\ inventory.slots \in Contained BY DEF Inv, Types, WindowOf
<1>2. CASE HandlePlayerInventory
  <2>1. Receive("player_inventory") /\ UNCHANGED <<current_window, bumped>> BY <1>2 DEF HandlePlayerInventory
  <2> DEFINE p == toClient[1]
             f == [inventory.slots EXCEPT ![p.slotId] = p.item]
  <2>2. Head(toClient) = p /\ p \in Packets /\ p.kind = "player_inventory" BY <2>1, Received
  <2>3. p.slotId \in Slot /\ p.item \in Stack BY <2>2, PacketShape
  <2>4. inventory' = [inventory EXCEPT !.slots = f] BY <1>1, <1>2, <2>2 DEF HandlePlayerInventory, WindowOf
  <2>5. f \in Contained BY <1>1, <2>3 DEF Contained
  <2> HIDE DEF f, p
  <2>6. inventory' \in WindowOf({0}) /\ inventory'.state_id = inventory.state_id
    BY <1>1, <2>4, <2>5 DEF WindowOf
  <2> QED BY <2>1, <2>6, QuietKeeps
<1>3. CASE HandleContainerClose
  <2>1. /\ Receive("container_close") /\ UNCHANGED bumped /\ current_window' = NoWindow
        /\ inventory' = IF current_window = NoWindow THEN inventory ELSE Synced(current_window)
    BY <1>3 DEF HandleContainerClose
  <2>2. inventory' \in WindowOf({0}) /\ inventory'.state_id = inventory.state_id
    BY <1>1, <2>1, SyncedType DEF Inv
  <2> QED BY <2>1, <2>2, QuietKeeps
<1> QED BY <1>2, <1>3

\* handle_open_screen: the content follows, and what comes after it ends in
\* what the server holds.
LEMMA OpenScreenKeeps ==
  ASSUME Inv, HandleOpenScreen
  PROVE  Inv'
<1> USE DEF serverVars
<1> DEFINE p == toClient[1]
           f == [i \in Slot |-> IF i = Own THEN None ELSE inventory.slots[i]]
<1>1. /\ toClient # <<>> /\ toClient' = Tail(toClient) /\ UNCHANGED <<call, toServer, serverVars>>
      /\ Head(toClient) = p /\ p \in Packets /\ p.kind = "open_screen" /\ Driving
      /\ inventory \in WindowOf({0}) /\ inventory.state_id <= stateId[0]
  BY Received DEF HandleOpenScreen
<1>2. /\ current_window' = [id |-> p.id, cursor |-> None, state_id |-> 0, seeded |-> TRUE, slots |-> f]
      /\ UNCHANGED <<inventory, bumped>>
  BY <1>1 DEF HandleOpenScreen
<1>3. p.id \in Ids \ {0} BY <1>1, PacketShape
<1>4. /\ toClient \in Seq(Packets) /\ toClient' \in Seq(Packets) /\ 1 \in DOMAIN toClient /\ Len(toClient) \in Nat \ {0}
      /\ DOMAIN toClient = 1 .. Len(toClient) /\ DOMAIN toClient' = 1 .. Len(toClient) - 1
      /\ \A k \in DOMAIN toClient' : k + 1 \in DOMAIN toClient /\ toClient'[k] = toClient[k + 1] /\ 1 < k + 1
  BY <1>1, Arrival
<1>5. f \in Contained
  <2>1. inventory.slots \in [Slot -> Stack] BY <1>1 DEF WindowOf, Contained
  <2>2. None \in Stack BY DEF Stack
  <2> QED BY <2>1, <2>2 DEF Contained
<1> HIDE DEF f
<1>6. /\ current_window' \in WindowOf(Ids \ {0}) /\ current_window'.id = p.id /\ current_window'.slots = f
      /\ current_window'.state_id = 0 /\ current_window'.seeded
  <2>1. None \in Stack BY DEF Stack
  <2> QED BY <1>2, <1>3, <1>5, <2>1 DEF WindowOf
<1>7. Behind'
  <2>1. p.id <= opened BY <1>1, <1>4 DEF Inv, InOrder, Orderly, PacketsKnown
  <2>2. stateId[p.id] \in Nat BY <1>3 DEF Inv, Types
  <2>3. ASSUME NEW k \in DOMAIN toClient'
        PROVE  /\ toClient'[k].kind = "open_screen" => p.id < toClient'[k].id
               /\ Sets(toClient'[k]) /\ toClient'[k].id = p.id => 0 < toClient'[k].state_id
    <3> DEFINE l == k + 1
    <3>1. l \in DOMAIN toClient /\ toClient'[k] = toClient[l] /\ 1 < l BY <1>4
    <3> HIDE DEF l
    <3>2. toClient[l].kind = "open_screen" => p.id < toClient[l].id
      BY <1>1, <1>4, <3>1 DEF Inv, InOrder, Orderly, ScreensInOrder
    <3>3. toClient[l] \in Packets BY <1>4, <3>1, ElementOfSeq
    <3>4. Sets(toClient[l]) => toClient[l].state_id \in Nat \ {0} BY <3>3, PacketShape
    <3>5. Sets(toClient[l]) => 0 < toClient[l].state_id BY <3>4
    <3> QED BY <3>1, <3>2, <3>5
  <2>4. 0 <= stateId[p.id] BY <2>2
  <2> HIDE DEF p
  <2> QED BY <1>1, <1>2, <1>6, <2>1, <2>3, <2>4 DEF Behind
<1>8. Settling'
  <2> SUFFICES ASSUME menu # 0, p.id = menu PROVE Answered'
    BY <1>1, <1>6 DEF Settling
  <2>1. None_Of(toServer, menu)
    <3> SUFFICES ASSUME NEW k \in DOMAIN toServer, OfWindow(toServer[k], menu) PROVE FALSE BY DEF None_Of
    <3>1. toServer[k] \in Requests BY LenProperties, ElementOfSeq DEF Inv, Types
    <3>2. toServer[k].kind = "click" /\ toServer[k].id = menu BY <3>1, RequestShape DEF OfWindow
    <3>3. menu < menu BY <1>1, <1>4, <3>2 DEF Inv, InOrder, ClicksBehind
    <3>4. menu \in Nat BY <1>3, BoundsAssumption DEF Ids
    <3> QED BY <3>3, <3>4
  <2>2. \A s \in Slot : Settles(toClient', 0, menu, s, f[s], items[At(menu, s)])
    <3> TAKE s \in Slot
    <3>1. f[s] \in Stack BY <1>5 DEF Contained
    <3>2. Settles(toClient, 1, menu, s, f[s], items[At(menu, s)]) BY <1>1, <1>4, <3>1 DEF Inv, Announced
    <3>3. 1 \in 0 .. Len(toClient) BY <1>4
    <3>4. Settles(Tail(toClient), 1 - 1, menu, s, f[s], items[At(menu, s)]) BY <1>1, <1>4, <3>2, <3>3, SettlesTail
    <3>5. 1 - 1 = 0 OBVIOUS
    <3> QED BY <1>1, <3>4, <3>5
  <2> QED BY <1>1, <1>6, <2>1, <2>2 DEF Answered
<1>9. ContentNext'
  <2>1. 1 + 1 \in DOMAIN toClient /\ toClient[1 + 1].kind = "content" /\ toClient[1 + 1].id = p.id
    BY <1>1, <1>4 DEF Inv, InOrder, Orderly, ScreensFilled
  <2>2. 1 \in DOMAIN toClient' BY <1>4, <2>1
  <2>3. toClient' # <<>> /\ toClient'[1].kind = "content" /\ toClient'[1].id = p.id
    <3>1. toClient' # <<>> BY <2>2
    <3> QED BY <1>4, <2>1, <2>2, <3>1
  <2>4. ASSUME call.op = "open", call.until = "content" PROVE ~bumped'
    <3>1. call # Idle BY <2>4 DEF Idle
    <3>2. call # [op |-> "open", until |-> "window"] BY <2>4
    <3> QED BY <1>1, <1>2, <3>1, <3>2 DEF Driving
  <2> HIDE DEF p
  <2> QED BY <1>1, <1>6, <2>3, <2>4 DEF ContentNext
<1>10. inventory' \in WindowOf({0}) /\ bumped' \in BOOLEAN BY <1>1, <1>2 DEF Inv, Types
<1>11. current_window' # NoWindow => current_window' \in WindowOf(Ids \ {0}) BY <1>6
<1> QED BY <1>1, <1>7, <1>8, <1>9, <1>10, <1>11, ReceiveKeeps

-----------------------------------------------------------------------------
(* The theorems.                                                           *)

\* At first nothing is under way.
LEMMA InitInv ==
  ASSUME Init
  PROVE  Inv
<1>1. PICK stock \in Stocks : items = [p \in Place |-> IF p = Grid THEN None ELSE stock[p]] BY DEF Init
<1>2. 0 \in Ids /\ MaxWindows \in Nat BY BoundsAssumption DEF Ids
<1>3. None \in Stack BY DEF Stack
<1>4. items \in [Place -> Stack]
  <2>1. stock \in [0 .. InvSize -> Stack] BY StacksAssumption
  <2>2. \A p \in Place : p # Grid => p \in 0 .. InvSize
    BY InvSizeAssumption DEF Place, Slot, Own, Section
  <2> QED BY <1>1, <1>3, <2>1, <2>2
<1>5. /\ inventory = [id |-> 0, slots |-> View(items, 0), cursor |-> None, state_id |-> 0, seeded |-> FALSE]
      /\ current_window = NoWindow /\ bumped = FALSE /\ call = Idle
      /\ toServer = <<>> /\ toClient = <<>> /\ shown = items /\ menu = 0 /\ opened = 0
      /\ carried = [id \in Ids |-> None] /\ stateId = [id \in Ids |-> 0]
  BY DEF Init, Ids
<1>6. View(items, 0) \in Contained BY <1>2, <1>4, ViewType
<1>7. inventory \in WindowOf({0}) BY <1>3, <1>5, <1>6 DEF WindowOf
<1>8. toServer \in Seq(Requests) /\ toClient \in Seq(Packets) /\ DOMAIN toServer = {} /\ DOMAIN toClient = {}
  BY <1>5, EmptySeq
<1>9. Types
  <2>1. carried \in [Ids -> Stack] /\ stateId \in [Ids -> Nat] BY <1>3, <1>5
  <2>2. menu \in 0 .. opened /\ opened \in Ids BY <1>2, <1>5
  <2>3. current_window = NoWindow /\ bumped \in BOOLEAN BY <1>5, Zenon
  <2> QED BY <1>4, <1>7, <1>8, <2>1, <2>2, <2>3 DEF Types
<1>10. Calls BY <1>5 DEF Calls, Idle
<1>11. InOrder
  <2>1. Orderly(toClient, stateId, opened)
    BY <1>8 DEF Orderly, PacketsKnown, ScreensInOrder, ScreensFilled, StatesInOrder
  <2>2. ClicksKnown(toServer, stateId, opened) /\ ClicksBehind BY <1>8 DEF ClicksKnown, ClicksBehind
  <2>3. Behind BY <1>2, <1>5 DEF Behind
  <2> QED BY <2>1, <2>2, <2>3 DEF InOrder
<1>12. Shows /\ Settling BY <1>5 DEF Shows, Settling
<1>13. Announced BY <1>8 DEF Announced
<1>14. ContentNext BY <1>5 DEF ContentNext
<1> QED BY <1>9, <1>10, <1>11, <1>12, <1>13, <1>14 DEF Inv

\* Nothing happens.
LEMMA StutterKeeps ==
  ASSUME Inv, UNCHANGED vars
  PROVE  Inv'
<1>1. UNCHANGED <<inventory, current_window, bumped, call, toServer, toClient, serverVars>>
  BY DEF vars, botVars
<1>2. Calls' /\ bumped' \in BOOLEAN BY <1>1 DEF Inv, Calls, Types
<1> QED BY <1>1, <1>2, Rests

\* Everything above: what is under way is in order, and ends in what the
\* server holds.
THEOREM InvHolds == Spec => []Inv
<1>1. Init => Inv BY InitInv
<1>2. ASSUME Inv, [Next]_vars PROVE Inv'
  <2>1. CASE UNCHANGED vars BY <1>2, <2>1, StutterKeeps
  <2>2. CASE Call
    <3>1. CASE CallOpen BY <1>2, <3>1, CallOpenKeeps
    <3>2. CASE CallClose BY <1>2, <3>2, CallCloseKeeps
    <3>3. CASE \E type \in DOMAIN StackSize, count \in 1 .. 2 : CallToss(type, count)
      BY <1>2, <3>3, TossKeeps DEF CallToss
    <3> QED BY <1>2, <2>2, <3>1, <3>2, <3>3, CallKeeps DEF Call
  <2>3. CASE Continue BY <1>2, <2>3, ContinueKeeps
  <2>4. CASE Handle
    BY <1>2, <2>4, ContentKeeps, SlotKeeps, OtherPacketsKeep, OpenScreenKeeps DEF Handle
  <2>5. CASE Server
    BY <1>2, <2>5, ServerClickKeeps, ServerClosesKeeps, ServerOpensKeeps, ServerChangesKeeps, ServerClosesMenuKeeps
       DEF Server
  <2> QED BY <1>2, <2>1, <2>2, <2>3, <2>4, <2>5 DEF Next
<1> QED BY <1>1, <1>2, PTL DEF Spec

\* The types of the windows follow.
LEMMA InvTypes ==
  ASSUME Inv
  PROVE  TypeOK
<1>1. \A w \in WindowOf(Ids) : w.slots \in [Slot -> Item \cup {None}] /\ w.cursor \in Item \cup {None}
                               /\ w.id \in Ids /\ w.state_id \in Nat
  <2>1. Stack \subseteq Item \cup {None} BY DEF Stack
  <2> QED BY <2>1 DEF WindowOf, Contained
<1>2. 0 \in Ids /\ \A i \in Ids : i \in Nat BY BoundsAssumption DEF Ids
<1>3. stateId \in [Ids -> Nat] /\ inventory \in WindowOf({0}) /\ inventory.id = 0
      /\ inventory.state_id <= stateId[0]
  BY DEF Inv, Types, InOrder, Behind, WindowOf
<1>4. inventory \in WindowOf(Ids) BY <1>2, <1>3 DEF WindowOf
<1>5. ASSUME current_window # NoWindow
      PROVE  /\ current_window \in WindowOf(Ids) /\ current_window.id \in 1 .. opened
             /\ current_window.state_id <= stateId[current_window.id]
  <2>1. current_window \in WindowOf(Ids \ {0}) BY <1>5 DEF Inv, Types
  <2>2. current_window.id \in Ids \ {0} /\ current_window \in WindowOf(Ids) BY <2>1 DEF WindowOf
  <2>3. current_window.id <= opened /\ current_window.state_id <= stateId[current_window.id]
    BY <1>5 DEF Inv, InOrder, Behind
  <2>4. opened \in Nat BY <1>2 DEF Inv, Types
  <2>5. current_window.id \in 1 .. opened BY <1>2, <2>2, <2>3, <2>4
  <2> QED BY <2>2, <2>3, <2>5
<1>6. ASSUME NEW w \in Windows
      PROVE  /\ w.slots \in [Slot -> Item \cup {None}]
             /\ w.cursor \in Item \cup {None}
             /\ w.state_id \in 0 .. stateId[w.id]
  <2>1. w \in WindowOf(Ids) /\ w.state_id <= stateId[w.id] BY <1>3, <1>4, <1>5 DEF Windows
  <2>2. stateId[w.id] \in Nat /\ w.state_id \in Nat BY <1>1, <1>3, <2>1
  <2>3. w.state_id \in 0 .. stateId[w.id] BY <2>1, <2>2
  <2> QED BY <1>1, <2>1, <2>3
<1>7. menu \in 0 .. opened /\ call.op \in {"idle", "click", "put_away", "toss_cursor", "move_to", "move_back",
                                           "equip", "toss", "open"}
  BY DEF Inv, Types, Calls
<1> QED BY <1>3, <1>5, <1>6, <1>7 DEF TypeOK

\* With nothing under way, a window that is open on both sides is what the
\* server holds.
LEMMA InvAgrees ==
  ASSUME Inv
  PROVE  SlotsAgree
<1> SUFFICES ASSUME toServer = <<>>, toClient = <<>>, current_window # NoWindow, current_window.id = menu
             PROVE  current_window.slots = View(items, menu)
  BY InvTypes DEF SlotsAgree
<1>1. current_window \in WindowOf(Ids \ {0}) BY DEF Inv, Types
<1>2. menu # 0 /\ menu \in Ids /\ current_window.slots \in Contained BY <1>1 DEF WindowOf
<1>3. DOMAIN toServer = {} /\ DOMAIN toClient = {} OBVIOUS
<1>4. None_Of(toServer, menu) /\ None_Of(toClient, menu) /\ ~Overdue BY <1>3 DEF None_Of, Overdue
<1>5. \A s \in Slot : current_window.slots[s] = items[At(menu, s)]
  <2>2. CASE Answered
    <3> TAKE s \in Slot
    <3>1. Settles(toClient, 0, menu, s, current_window.slots[s], items[At(menu, s)]) BY <2>2 DEF Answered
    <3> QED BY <1>3, <3>1 DEF Settles
  <2>3. CASE Predicted
    <3> TAKE s \in Slot
    <3>1. Settles(toServer, 0, menu, s, items[At(menu, s)], current_window.slots[s]) BY <2>3 DEF Predicted
    <3> QED BY <1>3, <3>1 DEF Settles
  <2> QED BY <1>2, <1>4, <2>2, <2>3 DEF Inv, Settling
<1> QED BY <1>2, <1>5 DEF View, Contained

\* Once everything under way has arrived, the container window shows what
\* the server holds in it (inventory.rs 220-225, mod.rs 750-802).
THEOREM SlotsComeToAgree == Spec => []SlotsAgree
BY InvHolds, InvAgrees, PTL

\* The windows keep their types.
THEOREM WindowTypes == Spec => []TypeOK
BY InvHolds, InvTypes, PTL

\* No click, prediction or packet makes a stack larger than its item allows
\* (what window.rs 166-240 counts, and the clicks made of it).
THEOREM StacksStayBounded ==
  Spec => [](\A w \in Windows : w.slots \in [Slot -> Stack] /\ w.cursor \in Stack)
<1>1. ASSUME Inv PROVE \A w \in Windows : w.slots \in [Slot -> Stack] /\ w.cursor \in Stack
  <2>1. \A w \in Windows : w = inventory \/ (current_window # NoWindow /\ w = current_window) BY DEF Windows
  <2>2. \A w \in WindowOf({0}) \cup WindowOf(Ids \ {0}) : w.slots \in [Slot -> Stack] /\ w.cursor \in Stack
    BY DEF WindowOf, Contained
  <2> QED BY <1>1, <2>1, <2>2 DEF Inv, Types
<1> QED BY <1>1, InvHolds, PTL

\* open_block returns a window that shows what the server sent for it, if
\* it did not wait in vain (inventory.rs 220-225).
THEOREM OpenedWindowIsReal == Spec => OpenedIsReal
<1>1. Inv /\ [Next]_vars =>
        [call = [op |-> "open", until |-> "content"] /\ call' = Idle /\ bumped
           /\ current_window # NoWindow => ~current_window.seeded]_vars
  BY DEF Inv, ContentNext
<1> QED BY <1>1, InvHolds, PTL DEF Spec, OpenedIsReal

-----------------------------------------------------------------------------
(* Totals and loops of Window.                                             *)

\* n rounds, each of which maps a set into itself, and their results.
Rounds(round, S, n) == \A k \in 1 .. n : \A x \in S : round[k][x] \in S
Looped(g, round, S, n, b) ==
  g \in [0 .. n -> S] /\ g[0] = b /\ \A k \in 1 .. n : g[k] = round[k][g[k - 1]]

LEMMA RoundsExist ==
  ASSUME NEW S, NEW b \in S, NEW n \in Nat, NEW round, Rounds(round, S, n)
  PROVE  \E g : Looped(g, round, S, n, b)
<1> USE DEF Rounds
<1> DEFINE Good(g, m) == g \in [0 .. m -> S] /\ g[0] = b /\ \A k \in 1 .. m : g[k] = round[k][g[k - 1]]
           T == {m \in 0 .. n : ~\E g : Good(g, m)}
<1>1. T = {}
  <2> SUFFICES ASSUME T # {} PROVE FALSE OBVIOUS
  <2>1. T \subseteq Nat OBVIOUS
  <2>t. \A m : m \in T <=> m \in 0 .. n /\ ~\E g : Good(g, m) OBVIOUS
  <2> HIDE DEF T
  <2>2. PICK m \in T : \A y \in T : m <= y BY <2>1, LeastNatural
  <2>3. m \in 0 .. n /\ ~\E g : Good(g, m) BY <2>2, <2>t
  <2>4. m # 0
    <3>1. Good([k \in 0 .. 0 |-> b], 0) OBVIOUS
    <3> HIDE DEF Good
    <3> QED BY <2>3, <3>1
  <2>5. m - 1 \in 0 .. n /\ ~(m <= m - 1) BY <2>3, <2>4
  <2>6. PICK g : Good(g, m - 1) BY <2>2, <2>5, <2>t
  <2>7. m - 1 \in 0 .. m - 1 /\ m \in 1 .. n BY <2>3, <2>4
  <2>8. g[m - 1] \in S /\ round[m][g[m - 1]] \in S BY <2>6, <2>7
  <2> DEFINE h == [k \in 0 .. m |-> IF k = m THEN round[m][g[m - 1]] ELSE g[k]]
  <2>9. \A k \in 0 .. m - 1 : h[k] = g[k] BY <2>3
  <2>10. h \in [0 .. m -> S]
    <3>1. \A k \in 0 .. m : k # m => k \in 0 .. m - 1 BY <2>3
    <3> QED BY <2>6, <2>8, <3>1
  <2>11. \A k \in 1 .. m : h[k] = round[k][h[k - 1]]
    <3> TAKE k \in 1 .. m
    <3>1. k - 1 \in 0 .. m - 1 BY <2>3
    <3>2. h[k - 1] = g[k - 1] BY <2>9, <3>1
    <3>3. CASE k = m BY <3>2, <3>3
    <3>4. CASE k # m
      <4>1. k \in 1 .. m - 1 BY <2>3, <3>4
      <4> QED BY <2>6, <3>2, <3>4, <4>1
    <3> QED BY <3>3, <3>4
  <2>12. h[0] = b BY <2>3, <2>4, <2>6, <2>9
  <2> HIDE DEF h
  <2>13. Good(h, m) BY <2>10, <2>11, <2>12
  <2> HIDE DEF Good
  <2> QED BY <2>3, <2>13
<1>2. n \in 0 .. n OBVIOUS
<1>3. PICK g : Good(g, n)
  <2> HIDE DEF Good
  <2> QED BY <1>1, <1>2
<1> QED BY <1>3 DEF Looped

\* The sums that Total is made of.
IsSum(g, f) == g = [i \in 0 .. layout.slots |-> IF i = 0 THEN 0 ELSE g[i - 1] + f[i - 1]]

LEMMA TotalIs ==
  ASSUME layout.slots \in Nat, NEW f \in [WindowSlot -> Int]
  PROVE  \E g \in [0 .. layout.slots -> Int] :
           /\ g[0] = 0 /\ \A i \in WindowSlot : g[i + 1] = g[i] + f[i]
           /\ Total(f, layout.slots) = g[layout.slots]
<1> PICK n \in Nat : n = layout.slots OBVIOUS
<1> DEFINE round == [k \in 1 .. n |-> [x \in Int |-> x + f[k - 1]]]
<1>0. n \in Nat OBVIOUS
<1>1. \A k \in 1 .. n : \A x \in Int : round[k][x] \in Int
  <2>1. \A k \in 1 .. n : f[k - 1] \in Int BY DEF WindowSlot
  <2> QED BY <2>1
<1>2. PICK g \in [0 .. n -> Int] : g[0] = 0 /\ \A k \in 1 .. n : g[k] = round[k][g[k - 1]]
  <2> HIDE DEF round
  <2>1. Rounds(round, Int, n) BY <1>1 DEF Rounds
  <2>2. 0 \in Int /\ n \in Nat OBVIOUS
  <2>3. \E g : Looped(g, round, Int, n, 0) BY <2>1, <2>2, RoundsExist
  <2> QED BY <2>3 DEF Looped
<1>3. \A k \in 0 .. n : g[k] = IF k = 0 THEN 0 ELSE g[k - 1] + f[k - 1]
  <2> TAKE k \in 0 .. n
  <2>1. CASE k = 0 BY <1>2, <2>1
  <2>2. CASE k # 0
    <3>1. k \in 1 .. n /\ k - 1 \in 0 .. n BY <1>0, <2>2
    <3>2. g[k - 1] \in Int BY <3>1
    <3>3. round[k][g[k - 1]] = g[k - 1] + f[k - 1] BY <3>1, <3>2
    <3> HIDE DEF round
    <3> QED BY <1>2, <2>2, <3>1, <3>3
  <2> QED BY <2>1, <2>2
<1>4. IsSum(g, f)
  <2>1. g = [k \in 0 .. n |-> g[k]] OBVIOUS
  <2>2. [k \in 0 .. n |-> g[k]] = [k \in 0 .. n |-> IF k = 0 THEN 0 ELSE g[k - 1] + f[k - 1]] BY <1>3
  <2> QED BY <2>1, <2>2 DEF IsSum
<1> DEFINE s == CHOOSE h : IsSum(h, f)
<1>5. IsSum(s, f) BY <1>4
<1>6. Total(f, layout.slots) = s[n] BY DEF Total, IsSum
<1> HIDE DEF s, round
<1>7. \A k \in 0 .. n : s[k] = IF k = 0 THEN 0 ELSE s[k - 1] + f[k - 1]
  <2> DEFINE T == [k \in 0 .. n |-> IF k = 0 THEN 0 ELSE s[k - 1] + f[k - 1]]
  <2>1. s = T BY <1>5 DEF IsSum
  <2>2. \A k \in 0 .. n : T[k] = IF k = 0 THEN 0 ELSE s[k - 1] + f[k - 1] OBVIOUS
  <2> HIDE DEF T
  <2>3. \A k \in 0 .. n : s[k] = T[k] BY <2>1
  <2> QED BY <2>2, <2>3
<1>8. DOMAIN s = 0 .. n /\ s = [k \in 0 .. n |-> s[k]] BY <1>5 DEF IsSum
<1>9. s \in [0 .. n -> Int]
  <2> DEFINE T == {k \in 0 .. n : s[k] \notin Int}
  <2>1. T = {}
    <3> SUFFICES ASSUME T # {} PROVE FALSE OBVIOUS
    <3>1. T \subseteq Nat OBVIOUS
    <3>t. \A m : m \in T <=> m \in 0 .. n /\ s[m] \notin Int OBVIOUS
    <3> HIDE DEF T
    <3>2. PICK m \in T : \A y \in T : m <= y BY <3>1, LeastNatural
    <3>3. m \in 0 .. n /\ m # 0 BY <3>2, <3>t, <1>7
    <3>4. m - 1 \in 0 .. n /\ ~(m <= m - 1) BY <3>3
    <3>5. s[m - 1] \in Int BY <3>2, <3>4, <3>t
    <3>6. f[m - 1] \in Int BY <3>3 DEF WindowSlot
    <3>7. s[m] = s[m - 1] + f[m - 1] BY <3>3, <1>7
    <3> QED BY <3>2, <3>5, <3>6, <3>7, <3>t
  <2> QED BY <2>1, <1>8
<1>10. \A i \in WindowSlot : s[i + 1] = s[i] + f[i]
  <2> TAKE i \in WindowSlot
  <2>1. i + 1 \in 0 .. n /\ i + 1 # 0 /\ (i + 1) - 1 = i BY <1>0 DEF WindowSlot
  <2> QED BY <2>1, <1>7
<1>11. s[0] = 0 BY <1>7, <1>0
<1> QED BY <1>6, <1>9, <1>10, <1>11

\* A total is a number; one slot that changes changes it by the difference.
LEMMA TotalChanges ==
  ASSUME layout.slots \in Nat, NEW f \in [WindowSlot -> Int], NEW h \in [WindowSlot -> Int],
         NEW i \in WindowSlot, \A j \in WindowSlot : j # i => h[j] = f[j]
  PROVE  Total(f, layout.slots) \in Int /\ Total(h, layout.slots) = Total(f, layout.slots) + (h[i] - f[i])
<1> DEFINE n == layout.slots
<1>0. n \in Nat /\ i \in 0 .. n - 1 BY DEF WindowSlot
<1>1. PICK a \in [0 .. n -> Int] :
         a[0] = 0 /\ (\A j \in WindowSlot : a[j + 1] = a[j] + f[j]) /\ Total(f, layout.slots) = a[n] BY TotalIs
<1>2. PICK b \in [0 .. n -> Int] :
         b[0] = 0 /\ (\A j \in WindowSlot : b[j + 1] = b[j] + h[j]) /\ Total(h, layout.slots) = b[n] BY TotalIs
<1> PICK d \in Int : d = h[i] - f[i] OBVIOUS
<1> DEFINE Off(k) == b[k] # a[k] + (IF k > i THEN d ELSE 0)
           T == {k \in 0 .. n : Off(k)}
<1>3. T = {}
  <2> SUFFICES ASSUME T # {} PROVE FALSE OBVIOUS
  <2>1. T \subseteq Nat OBVIOUS
  <2>t. \A m : m \in T <=> m \in 0 .. n /\ Off(m) OBVIOUS
  <2> HIDE DEF T
  <2>2. PICK m \in T : \A y \in T : m <= y BY <2>1, LeastNatural
  <2>3. m \in 0 .. n BY <2>2, <2>t
  <2>4. m # 0
    <3>1. ~Off(0) BY <1>0, <1>1, <1>2
    <3> QED BY <2>2, <2>t, <3>1
  <2>5. m - 1 \in 0 .. n /\ ~(m <= m - 1) /\ m - 1 \in WindowSlot BY <2>3, <2>4, <1>0 DEF WindowSlot
  <2>6. ~Off(m - 1) BY <2>2, <2>5, <2>t
  <2>7. a[m] = a[m - 1] + f[m - 1] /\ b[m] = b[m - 1] + h[m - 1]
    <3>1. (m - 1) + 1 = m BY <2>3
    <3> QED BY <1>1, <1>2, <2>5, <3>1
  <2>8. a[m - 1] \in Int /\ f[m - 1] \in Int /\ h[m - 1] \in Int /\ d \in Int /\ b[m - 1] \in Int BY <2>5
  <2>9. CASE m - 1 = i
    <3>0. h[i] \in Int /\ f[i] \in Int OBVIOUS
    <3>1. h[m - 1] = f[m - 1] + d BY <2>9, <3>0
    <3>2. m > i /\ ~(m - 1 > i) BY <1>0, <2>3, <2>9
    <3>3. b[m - 1] = a[m - 1] + 0 BY <2>6, <3>2
    <3>4. b[m] = a[m] + d
      <4> QED BY <2>7, <2>8, <3>1, <3>3
    <3> QED BY <2>2, <2>t, <3>2, <3>4
  <2>10. CASE m - 1 # i
    <3>1. h[m - 1] = f[m - 1] BY <2>5, <2>10
    <3>2. m > i <=> m - 1 > i BY <1>0, <2>3, <2>10
    <3>3. b[m - 1] = a[m - 1] + (IF m - 1 > i THEN d ELSE 0) BY <2>6
    <3>4. b[m] = a[m] + (IF m > i THEN d ELSE 0)
      <4>1. CASE m > i BY <2>7, <2>8, <3>1, <3>2, <3>3, <4>1
      <4>2. CASE ~(m > i) BY <2>7, <2>8, <3>1, <3>2, <3>3, <4>2
      <4> QED BY <4>1, <4>2
    <3> QED BY <2>2, <2>t, <3>4
  <2> QED BY <2>9, <2>10
<1>4. n \in 0 .. n /\ n > i BY <1>0
<1>5. ~Off(n) BY <1>3, <1>4
<1>6. a[n] \in Int BY <1>4
<1> QED BY <1>1, <1>2, <1>4, <1>5, <1>6

\* Nothing in all slots is nothing in total.
LEMMA TotalOfNothing ==
  ASSUME layout.slots \in Nat, NEW f \in [WindowSlot -> Int], \A i \in WindowSlot : f[i] = 0
  PROVE  Total(f, layout.slots) = 0
<1> DEFINE n == layout.slots
<1>1. PICK a \in [0 .. n -> Int] :
         a[0] = 0 /\ (\A j \in WindowSlot : a[j + 1] = a[j] + f[j]) /\ Total(f, layout.slots) = a[n] BY TotalIs
<1> DEFINE T == {k \in 0 .. n : a[k] # 0}
<1>2. T = {}
  <2> SUFFICES ASSUME T # {} PROVE FALSE OBVIOUS
  <2>1. T \subseteq Nat OBVIOUS
  <2>t. \A m : m \in T <=> m \in 0 .. n /\ a[m] # 0 OBVIOUS
  <2> HIDE DEF T
  <2>2. PICK m \in T : \A y \in T : m <= y BY <2>1, LeastNatural
  <2>3. m \in 0 .. n /\ m # 0 BY <2>2, <2>t, <1>1
  <2>4. m - 1 \in 0 .. n /\ ~(m <= m - 1) /\ m - 1 \in WindowSlot /\ (m - 1) + 1 = m BY <2>3 DEF WindowSlot
  <2>5. a[m - 1] = 0 BY <2>2, <2>4, <2>t
  <2>6. a[m] = 0 BY <1>1, <2>4, <2>5
  <2> QED BY <2>2, <2>6, <2>t
<1>3. n \in 0 .. n OBVIOUS
<1> QED BY <1>1, <1>2, <1>3

-----------------------------------------------------------------------------
(* What a window holds.                                                    *)

\* The slots and the cursor, in any state of a click.
Holds == [slots : [WindowSlot -> Stack], cursor : Stack]

\* How many items of the kinds X there are in a stack, and in all of them.
Amount(item, X) == IF item # None /\ <<item.type_id, item.components>> \in X THEN item.count ELSE 0
Amounts(w, X) == Amount(w.cursor, X) + Total([i \in WindowSlot |-> Amount(w.slots[i], X)], layout.slots)

LEMMA AmountIs ==
  ASSUME NEW x \in Stack, NEW X
  PROVE  Amount(x, X) \in Nat
<1>1. x # None => x.count \in Nat
  <2> HAVE x # None
  <2>1. x.count \in 1 .. Size(x) /\ Size(x) \in 1 .. 64 BY StackShape
  <2> QED BY <2>1
<1> QED BY <1>1 DEF Amount

\* Another count of the same item.
LEMMA OtherCount ==
  ASSUME NEW x \in Stack, x # None, NEW n \in 1 .. Size(x)
  PROVE  /\ WithCount(x, n) \in Stack /\ WithCount(x, n) # None
         /\ WithCount(x, n).type_id = x.type_id /\ WithCount(x, n).components = x.components
         /\ WithCount(x, n).count = n
         /\ \A X : Amount(WithCount(x, n), X) = IF <<x.type_id, x.components>> \in X THEN n ELSE 0
<1>1. PICK k \in Identity : x.type_id = k.type_id /\ x.components = k.components BY StackShape
<1>2. WithCount(x, n) = [type_id |-> k.type_id, components |-> k.components, count |-> n]
  BY <1>1, StackShape DEF WithCount
<1>3. WithCount(x, n) \in Stack \ {None} BY <1>1, <1>2, StackShape DEF Size
<1> QED BY <1>1, <1>2, <1>3 DEF Amount

\* A window with one slot and the cursor replaced.
LEMMA SlotAndCursor ==
  ASSUME layout.slots \in Nat, NEW w \in Holds, NEW i \in WindowSlot, NEW x \in Stack, NEW y \in Stack,
         NEW X
  PROVE  /\ [slots |-> [w.slots EXCEPT ![i] = x], cursor |-> y] \in Holds
         /\ Amounts(w, X) \in Int
         /\ Amounts([slots |-> [w.slots EXCEPT ![i] = x], cursor |-> y], X)
              = Amounts(w, X) + (Amount(x, X) - Amount(w.slots[i], X)) + (Amount(y, X) - Amount(w.cursor, X))
<1> DEFINE v == [slots |-> [w.slots EXCEPT ![i] = x], cursor |-> y]
           f == [j \in WindowSlot |-> Amount(w.slots[j], X)]
           h == [j \in WindowSlot |-> Amount(v.slots[j], X)]
<1>1. w.slots \in [WindowSlot -> Stack] /\ w.cursor \in Stack BY DEF Holds
<1>2. v \in Holds BY <1>1 DEF Holds
<1>3. v.slots \in [WindowSlot -> Stack] /\ v.slots[i] = x /\ \A j \in WindowSlot : j # i => v.slots[j] = w.slots[j]
  BY <1>1
<1>4. v.cursor = y OBVIOUS
<1> HIDE DEF v
<1>5. f \in [WindowSlot -> Int] /\ h \in [WindowSlot -> Int]
  <2>1. \A j \in WindowSlot : Amount(w.slots[j], X) \in Int /\ Amount(v.slots[j], X) \in Int
    BY <1>1, <1>3, AmountIs
  <2> QED BY <2>1
<1>6. f[i] = Amount(w.slots[i], X) /\ h[i] = Amount(x, X) /\ \A j \in WindowSlot : j # i => h[j] = f[j] BY <1>3
<1>7. Amounts(w, X) = Amount(w.cursor, X) + Total(f, layout.slots) /\ Amounts(v, X) = Amount(y, X) + Total(h, layout.slots)
  BY <1>4 DEF Amounts
<1> HIDE DEF f, h
<1>8. Total(f, layout.slots) \in Int /\ Total(h, layout.slots) = Total(f, layout.slots) + (h[i] - f[i]) BY <1>5, <1>6, TotalChanges
<1>9. Amount(w.cursor, X) \in Int /\ Amount(y, X) \in Int /\ Amount(x, X) \in Int /\ Amount(w.slots[i], X) \in Int
  BY <1>1, AmountIs
<1>10. Amounts(v, X) = Amounts(w, X) + (Amount(x, X) - Amount(w.slots[i], X)) + (Amount(y, X) - Amount(w.cursor, X))
  BY <1>6, <1>7, <1>8, <1>9
<1>11. Amounts(w, X) \in Int BY <1>7, <1>8, <1>9
<1> QED BY <1>2, <1>10, <1>11 DEF v

\* A window with two slots replaced.
LEMMA TwoSlots ==
  ASSUME layout.slots \in Nat, NEW w \in Holds, NEW i \in WindowSlot, NEW j \in WindowSlot, i # j,
         NEW x \in Stack, NEW y \in Stack, NEW X,
         NEW v, v = [slots |-> [[w.slots EXCEPT ![i] = x] EXCEPT ![j] = y], cursor |-> w.cursor]
  PROVE  /\ v \in Holds
         /\ Amounts(v, X) = Amounts(w, X) + (Amount(x, X) - Amount(w.slots[i], X))
                                          + (Amount(y, X) - Amount(w.slots[j], X))
<1> DEFINE u == [slots |-> [w.slots EXCEPT ![i] = x], cursor |-> w.cursor]
<1>1. w.slots \in [WindowSlot -> Stack] /\ w.cursor \in Stack BY DEF Holds
<1>2. /\ u \in Holds /\ Amounts(w, X) \in Int
      /\ Amounts(u, X) = Amounts(w, X) + (Amount(x, X) - Amount(w.slots[i], X)) + (Amount(w.cursor, X) - Amount(w.cursor, X))
  BY <1>1, SlotAndCursor
<1>3. u.slots[j] = w.slots[j] /\ u.cursor = w.cursor /\ u.slots = [w.slots EXCEPT ![i] = x] BY <1>1
<1> HIDE DEF u
<1>4. v = [slots |-> [u.slots EXCEPT ![j] = y], cursor |-> u.cursor] BY <1>3
<1>5. /\ v \in Holds /\ Amounts(u, X) \in Int
      /\ Amounts(v, X) = Amounts(u, X) + (Amount(y, X) - Amount(u.slots[j], X)) + (Amount(u.cursor, X) - Amount(u.cursor, X))
  BY <1>1, <1>2, <1>3, <1>4, SlotAndCursor
<1>6. Amount(w.cursor, X) \in Int /\ Amount(y, X) \in Int /\ Amount(x, X) \in Int /\ Amount(w.slots[i], X) \in Int
         /\ Amount(w.slots[j], X) \in Int
  BY <1>1, AmountIs
<1>7. Amounts(v, X) = Amounts(w, X) + (Amount(x, X) - Amount(w.slots[i], X)) + (Amount(y, X) - Amount(w.slots[j], X))
  BY <1>2, <1>3, <1>5, <1>6
<1> QED BY <1>5, <1>7

\* A window with the cursor replaced.
LEMMA OnlyCursor ==
  ASSUME layout.slots \in Nat, NEW w \in Holds, NEW y \in Stack, NEW X
  PROVE  /\ [w EXCEPT !.cursor = y] \in Holds
         /\ Amounts(w, X) \in Int
         /\ Amounts([w EXCEPT !.cursor = y], X) = Amounts(w, X) + (Amount(y, X) - Amount(w.cursor, X))
<1> DEFINE f == [j \in WindowSlot |-> Amount(w.slots[j], X)]
           v == [w EXCEPT !.cursor = y]
<1>1. w.slots \in [WindowSlot -> Stack] /\ w.cursor \in Stack BY DEF Holds
<1>2. v \in Holds /\ v.slots = w.slots /\ v.cursor = y BY DEF Holds
<1>3. f \in [WindowSlot -> Int] BY <1>1, AmountIs
<1>4. Amounts(w, X) = Amount(w.cursor, X) + Total(f, layout.slots) /\ Amounts(v, X) = Amount(y, X) + Total(f, layout.slots)
  BY <1>2 DEF Amounts
<1> HIDE DEF f, v
<1>5. Total(f, layout.slots) \in Int
  <2>1. CASE WindowSlot = {}
    <3>1. \A j \in WindowSlot : f[j] = 0 BY <2>1
    <3>2. Total(f, layout.slots) = 0 BY <1>3, <3>1, TotalOfNothing
    <3> QED BY <3>2
  <2>2. CASE WindowSlot # {}
    <3>1. PICK j \in WindowSlot : TRUE BY <2>2
    <3> QED BY <1>3, <3>1, TotalChanges
  <2> QED BY <2>1, <2>2
<1>6. Amount(w.cursor, X) \in Int /\ Amount(y, X) \in Int BY <1>1, AmountIs
<1>7. Amounts(v, X) = Amounts(w, X) + (Amount(y, X) - Amount(w.cursor, X)) BY <1>4, <1>5, <1>6
<1>8. Amounts(w, X) \in Int BY <1>4, <1>5, <1>6
<1> QED BY <1>2, <1>7, <1>8 DEF v

-----------------------------------------------------------------------------
(* The clicks with the mouse: the amounts of every kind stay.              *)

\* Nothing is lost, nothing invented, and stacks stay stacks.
Keeps(w, v, X) == v \in Holds /\ Amounts(v, X) = Amounts(w, X)

\* What two counts of one item amount to, of any kinds.
SameItem(x, y) == x.type_id = y.type_id /\ x.components = y.components

LEMMA SwapKeeps ==
  ASSUME layout.slots \in Nat, NEW w \in Holds, NEW i \in WindowSlot, NEW X
  PROVE  Keeps(w, SwapSelected(w, i), X)
<1>1. w.slots[i] \in Stack /\ w.cursor \in Stack BY DEF Holds
<1>2. /\ SwapSelected(w, i) \in Holds /\ Amounts(w, X) \in Int
      /\ Amounts(SwapSelected(w, i), X)
           = Amounts(w, X) + (Amount(w.cursor, X) - Amount(w.slots[i], X)) + (Amount(w.slots[i], X) - Amount(w.cursor, X))
  BY <1>1, SlotAndCursor DEF SwapSelected
<1>3. Amount(w.cursor, X) \in Int /\ Amount(w.slots[i], X) \in Int BY <1>1, AmountIs
<1> QED BY <1>2, <1>3 DEF Keeps

\* The slot holds so many of the cursor's item.
Takes(w, i, into) ==
  \/ into = 0 /\ w.slots[i] = None
  \/ w.slots[i] # None /\ SameItem(w.slots[i], w.cursor) /\ w.slots[i].count = into

\* Some of the cursor's item moves onto a stack of it.
LEMMA PourKeeps ==
  ASSUME layout.slots \in Nat, NEW w \in Holds, NEW i \in WindowSlot, NEW X, NEW moved \in Nat,
         w.cursor # None, moved <= w.cursor.count,
         NEW into \in Nat, into + moved \in 1 .. Size(w.cursor),
         Takes(w, i, into)
  PROVE  Keeps(w, [slots |-> [w.slots EXCEPT ![i] = WithCount(w.cursor, into + moved)],
                   cursor |-> IF w.cursor.count - moved = 0 THEN None
                              ELSE WithCount(w.cursor, w.cursor.count - moved)], X)
<1>1. w.slots[i] \in Stack /\ w.cursor \in Stack BY DEF Holds
<1>2. w.cursor.count \in 1 .. Size(w.cursor) /\ Size(w.cursor) \in 1 .. 64 BY <1>1, StackShape
<1> DEFINE x == WithCount(w.cursor, into + moved)
           n == w.cursor.count - moved
           y == IF n = 0 THEN None ELSE WithCount(w.cursor, n)
           in == <<w.cursor.type_id, w.cursor.components>> \in X
<1>3. x \in Stack /\ Amount(x, X) = IF in THEN into + moved ELSE 0 BY <1>1, OtherCount
<1>4. n \in 0 .. Size(w.cursor) /\ n = w.cursor.count - moved /\ n \in Int BY <1>2
<1>5. y \in Stack /\ Amount(y, X) = IF in THEN n ELSE 0
  <2>1. CASE n = 0 BY <2>1 DEF Stack, Amount
  <2>2. CASE n # 0
    <3>1. n \in 1 .. Size(w.cursor) BY <1>2, <1>4, <2>2
    <3>2. y = WithCount(w.cursor, n) BY <2>2
    <3> HIDE DEF n, y
    <3> QED BY <1>1, <3>1, <3>2, OtherCount
  <2> QED BY <2>1, <2>2
<1>6. Amount(w.slots[i], X) = IF in THEN into ELSE 0 BY DEF Amount, SameItem, Takes
<1>7. Amount(w.cursor, X) = IF in THEN w.cursor.count ELSE 0 BY DEF Amount
<1> DEFINE v == [slots |-> [w.slots EXCEPT ![i] = x], cursor |-> y]
<1>8. /\ v \in Holds /\ Amounts(w, X) \in Int
      /\ Amounts(v, X) = Amounts(w, X) + (Amount(x, X) - Amount(w.slots[i], X)) + (Amount(y, X) - Amount(w.cursor, X))
  <2> HIDE DEF x, y
  <2> QED BY <1>3, <1>5, SlotAndCursor
<1>9. Amounts(v, X) = Amounts(w, X)
  <2> HIDE DEF v, x, y, in, n
  <2>1. CASE in BY <1>2, <1>3, <1>4, <1>5, <1>6, <1>7, <1>8, <2>1
  <2>2. CASE ~in BY <1>3, <1>5, <1>6, <1>7, <1>8, <2>2
  <2> QED BY <2>1, <2>2
<1> QED BY <1>8, <1>9 DEF Keeps

\* Min of two numbers.
LEMMA TwoMin ==
  ASSUME NEW a \in Int, NEW b \in Int
  PROVE  Min({a, b}) = IF a <= b THEN a ELSE b
<1>1. \E x \in {a, b} : \A y \in {a, b} : x <= y OBVIOUS
<1>2. Min({a, b}) \in {a, b} /\ \A y \in {a, b} : Min({a, b}) <= y
  <2> DEFINE T == {a, b}
  <2>1. \E x \in T : \A y \in T : x <= y BY <1>1
  <2> HIDE DEF T
  <2>2. Min(T) \in T /\ \A y \in T : Min(T) <= y BY <2>1 DEF Min
  <2> QED BY <2>2 DEF T
<1> QED BY <1>2

\* The slot holds some of the cursor's item, or is as if it held none of it.
Onto(w, i, u) ==
  \/ w.slots[i] = None /\ u.slots = [w.slots EXCEPT ![i] = WithCount(w.cursor, 0)]
  \/ w.slots[i] # None /\ SameItem(w.slots[i], w.cursor) /\ u.slots = w.slots

\* fill_slot_with_selected_item onto some of the item, or onto none of it.
LEMMA FillSelectedKeeps ==
  ASSUME layout.slots \in Nat, NEW w \in Holds, NEW i \in WindowSlot, NEW X, NEW all \in BOOLEAN,
         w.cursor # None, NEW u, u.cursor = w.cursor, Onto(w, i, u)
  PROVE  Keeps(w, FillWithSelected(u, i, all), X)
<1> DEFINE into == u.slots[i]
           n == into.count
           room == Size(into) - n
           all_or_one == IF all THEN w.cursor.count ELSE 1
           moved == Min({room, all_or_one})
           rest == w.cursor.count - moved
<1> USE DEF Onto, Takes
<1>1. w.slots \in [WindowSlot -> Stack] /\ w.slots[i] \in Stack /\ w.cursor \in Stack BY DEF Holds
<1>2. w.cursor.count \in 1 .. Size(w.cursor) /\ Size(w.cursor) \in 1 .. 64 BY <1>1, StackShape
<1>3. w.cursor = [type_id |-> w.cursor.type_id, components |-> w.cursor.components, count |-> w.cursor.count]
  BY <1>1, StackShape
<1>4. /\ into = [type_id |-> w.cursor.type_id, components |-> w.cursor.components, count |-> n]
      /\ Takes(w, i, n)
      /\ n \in 0 .. Size(w.cursor) /\ Size(into) = Size(w.cursor)
  <2>1. CASE w.slots[i] = None
    <3>1. u.slots[i] = WithCount(w.cursor, 0) BY <1>1, <2>1
    <3>2. WithCount(w.cursor, 0) = [type_id |-> w.cursor.type_id, components |-> w.cursor.components, count |-> 0]
      BY <1>3 DEF WithCount
    <3> QED BY <1>2, <2>1, <3>1, <3>2 DEF Size
  <2>2. CASE w.slots[i] # None
    <3>1. into = w.slots[i] /\ SameItem(into, w.cursor) BY <2>2
    <3>2. into = [type_id |-> into.type_id, components |-> into.components, count |-> into.count]
      BY <1>1, <2>2, <3>1, StackShape
    <3>3. into.count \in 1 .. Size(into) BY <1>1, <2>2, <3>1, StackShape
    <3>4. Size(into) = Size(w.cursor) BY <3>1 DEF SameItem, Size
    <3>5. n \in 0 .. Size(w.cursor) BY <1>2, <3>3, <3>4
    <3> QED BY <2>2, <3>1, <3>2, <3>4, <3>5 DEF SameItem
  <2> QED BY <2>1, <2>2
<1> HIDE DEF into
<1>5. room \in 0 .. 64 /\ all_or_one \in 1 .. w.cursor.count BY <1>2, <1>4
<1>6. moved = IF room <= all_or_one THEN room ELSE all_or_one
  <2>1. room \in Int /\ all_or_one \in Int BY <1>2, <1>5
  <2> HIDE DEF room, all_or_one
  <2> QED BY <2>1, TwoMin
<1>7. moved \in Nat /\ moved <= w.cursor.count /\ moved <= room BY <1>2, <1>5, <1>6, SMTT(40)
<1>8. n + moved \in 1 .. Size(w.cursor) /\ n \in Nat
  <2>1. n \in 0 .. Size(w.cursor) /\ room = Size(w.cursor) - n BY <1>4
  <2>2. n >= 1 \/ moved >= 1
    <3>1. CASE n = 0 BY <1>2, <1>5, <1>6, <2>1, <3>1
    <3>2. CASE n # 0 BY <2>1, <1>2, <3>2
    <3> QED BY <3>1, <3>2
  <2> HIDE DEF moved, room
  <2> QED BY <1>2, <1>7, <2>1, <2>2
<1>9. FillWithSelected(u, i, all)
        = [slots |-> [w.slots EXCEPT ![i] = WithCount(w.cursor, n + moved)],
           cursor |-> IF rest = 0 THEN None ELSE WithCount(w.cursor, rest)]
  <2>1. \A x : [u.slots EXCEPT ![i] = x] = [w.slots EXCEPT ![i] = x] BY <1>1
  <2>2. FillWithSelected(u, i, all)
          = [slots |-> [u.slots EXCEPT ![i] = WithCount(into, n + moved)],
             cursor |-> IF rest = 0 THEN None ELSE WithCount(w.cursor, rest)]
    BY DEF FillWithSelected, Size, into
  <2>3. \A k : WithCount(into, k) = WithCount(w.cursor, k)
    BY <1>3, <1>4 DEF WithCount
  <2> QED BY <2>1, <2>2, <2>3
<1>10. Takes(w, i, n)
  BY <1>4
<1> HIDE DEF n, moved
<1>11. Keeps(w, [slots |-> [w.slots EXCEPT ![i] = WithCount(w.cursor, n + moved)],
                 cursor |-> IF w.cursor.count - moved = 0 THEN None
                            ELSE WithCount(w.cursor, w.cursor.count - moved)], X)
  <2> HIDE DEF Takes
  <2> QED BY <1>7, <1>8, <1>10, PourKeeps
<1> QED BY <1>9, <1>11

\* The cursor holds so many of the slot's item.
Gathers(w, i, into) ==
  \/ into = 0 /\ w.cursor = None
  \/ w.cursor # None /\ SameItem(w.slots[i], w.cursor) /\ w.cursor.count = into

\* Some of the slot's item moves to the cursor, which holds some of it or nothing.
LEMMA LiftKeeps ==
  ASSUME layout.slots \in Nat, NEW w \in Holds, NEW i \in WindowSlot, NEW X, NEW moved \in Nat,
         w.slots[i] # None, moved <= w.slots[i].count,
         NEW into \in Nat, into + moved \in 1 .. Size(w.slots[i]), NEW y \in Stack, y # None,
         SameItem(y, w.slots[i]), y.count = into + moved, Gathers(w, i, into)
  PROVE  Keeps(w, [slots |-> [w.slots EXCEPT ![i] = IF w.slots[i].count - moved = 0 THEN None
                                                    ELSE WithCount(w.slots[i], w.slots[i].count - moved)],
                   cursor |-> y], X)
<1> DEFINE item == w.slots[i]
           n == item.count - moved
           x == IF n = 0 THEN None ELSE WithCount(item, n)
           in == <<item.type_id, item.components>> \in X
<1>1. item \in Stack /\ item # None /\ w.cursor \in Stack BY DEF Holds
<1>2. item.count \in 1 .. Size(item) /\ Size(item) \in 1 .. 64 BY <1>1, StackShape
<1>3. Amount(y, X) = IF in THEN into + moved ELSE 0 BY DEF Amount, SameItem
<1>4. n \in 0 .. Size(item) /\ n = item.count - moved /\ n \in Int BY <1>2
<1>5. x \in Stack /\ Amount(x, X) = IF in THEN n ELSE 0
  <2>1. CASE n = 0 BY <2>1 DEF Stack, Amount
  <2>2. CASE n # 0
    <3>1. n \in 1 .. Size(item) BY <1>2, <1>4, <2>2
    <3>2. x = WithCount(item, n) BY <2>2
    <3> HIDE DEF n, x, item
    <3> QED BY <1>1, <3>1, <3>2, OtherCount
  <2> QED BY <2>1, <2>2
<1>6. Amount(w.cursor, X) = IF in THEN into ELSE 0 BY DEF Amount, SameItem, Gathers
<1>7. Amount(item, X) = IF in THEN item.count ELSE 0 BY DEF Amount
<1> DEFINE v == [slots |-> [w.slots EXCEPT ![i] = x], cursor |-> y]
<1>8. /\ v \in Holds /\ Amounts(w, X) \in Int
      /\ Amounts(v, X) = Amounts(w, X) + (Amount(x, X) - Amount(w.slots[i], X)) + (Amount(y, X) - Amount(w.cursor, X))
  <2> HIDE DEF x
  <2> QED BY <1>5, SlotAndCursor
<1>9. Amounts(v, X) = Amounts(w, X)
  <2> HIDE DEF v, x, in, n
  <2>1. CASE in BY <1>2, <1>3, <1>4, <1>5, <1>6, <1>7, <1>8, <2>1
  <2>2. CASE ~in BY <1>3, <1>5, <1>6, <1>7, <1>8, <2>2
  <2> QED BY <2>1, <2>2
<1> QED BY <1>8, <1>9 DEF Keeps

LEMMA TakeResultKeeps ==
  ASSUME layout.slots \in Nat, NEW w \in Holds, NEW i \in WindowSlot, NEW X,
         w.slots[i] # None, w.cursor # None, SameItem(w.slots[i], w.cursor)
  PROVE  Keeps(w, TakeResult(w, i), X)
<1> DEFINE item == w.slots[i]
           room == StackSize[item.type_id] - w.cursor.count
           a == item.count
           moved == Min({a, room})
           into == w.cursor.count
           y == WithCount(w.cursor, into + moved)
<1>1. item \in Stack /\ item # None /\ w.cursor \in Stack BY DEF Holds
<1>2. /\ a \in 1 .. Size(item) /\ Size(item) \in 1 .. 64
      /\ into \in 1 .. Size(w.cursor) /\ Size(w.cursor) = Size(item)
  BY <1>1, StackShape DEF SameItem, Size
<1>3. room \in 0 .. 64 /\ room = Size(item) - into
  <2>1. StackSize[item.type_id] = Size(item) BY DEF Size
  <2>2. room = Size(item) - into BY <2>1
  <2> HIDE DEF room, into, item
  <2> QED BY <1>2, <2>2
<1>4. moved = IF a <= room THEN a ELSE room
  <2>1. a \in Int /\ room \in Int BY <1>2, <1>3
  <2> HIDE DEF a, room
  <2> QED BY <2>1, TwoMin
<1>5. moved \in Nat /\ moved <= a /\ moved <= room BY <1>2, <1>3, <1>4, SMTT(40)
<1>6. into + moved \in 1 .. Size(item) /\ into \in Nat
  <2> HIDE DEF moved, room, into
  <2> QED BY <1>2, <1>3, <1>5
<1>7. y \in Stack /\ y # None /\ SameItem(y, item) /\ y.count = into + moved
  <2>1. into + moved \in 1 .. Size(w.cursor) BY <1>2, <1>6
  <2> HIDE DEF moved, into, item
  <2>2. y \in Stack /\ y # None /\ SameItem(y, w.cursor) /\ y.count = into + moved
    BY <1>1, <2>1, OtherCount DEF SameItem
  <2>3. SameItem(item, w.cursor) BY DEF item
  <2> HIDE DEF y
  <2> QED BY <2>2, <2>3 DEF SameItem
<1>8. TakeResult(w, i)
        = [slots |-> [w.slots EXCEPT ![i] = IF w.slots[i].count - moved = 0 THEN None
                                            ELSE WithCount(w.slots[i], w.slots[i].count - moved)],
           cursor |-> y]
  BY DEF TakeResult
<1>9. Gathers(w, i, into) BY DEF Gathers
<1>10. into + moved \in 1 .. Size(w.slots[i]) /\ moved <= w.slots[i].count /\ SameItem(y, w.slots[i])
  BY <1>5, <1>6, <1>7
<1> HIDE DEF moved, into, y
<1>11. Keeps(w, [slots |-> [w.slots EXCEPT ![i] = IF w.slots[i].count - moved = 0 THEN None
                                                    ELSE WithCount(w.slots[i], w.slots[i].count - moved)],
                   cursor |-> y], X)
  BY <1>5, <1>6, <1>7, <1>9, <1>10, LiftKeeps
<1> QED BY <1>8, <1>11

LEMMA SplitKeeps ==
  ASSUME layout.slots \in Nat, NEW w \in Holds, NEW i \in WindowSlot, NEW X,
         w.slots[i] # None, w.cursor = None
  PROVE  Keeps(w, SplitSlot(w, i), X)
<1> DEFINE item == w.slots[i]
           a == item.count
           moved == (a + 1) \div 2
           y == WithCount(item, moved)
<1>1. item \in Stack /\ item # None BY DEF Holds
<1>2. a \in 1 .. Size(item) /\ Size(item) \in 1 .. 64 BY <1>1, StackShape
<1>3. moved \in 1 .. a
  <2>1. a \in 1 .. 64 BY <1>2
  <2> HIDE DEF a
  <2> QED BY <2>1
<1> PICK z \in Nat : z = 0 OBVIOUS
<1>4. moved \in 1 .. Size(item) /\ moved \in Nat /\ moved <= a /\ z + moved = moved
  <2> HIDE DEF moved, a
  <2> QED BY <1>2, <1>3
<1> HIDE DEF moved
<1>5. y \in Stack /\ y # None /\ SameItem(y, item) /\ y.count = z + moved
  <2> HIDE DEF item
  <2> QED BY <1>1, <1>4, OtherCount DEF SameItem
<1>6. SplitSlot(w, i)
        = [slots |-> [w.slots EXCEPT ![i] = IF w.slots[i].count - moved = 0 THEN None
                                            ELSE WithCount(w.slots[i], w.slots[i].count - moved)],
           cursor |-> y]
  BY DEF SplitSlot, moved
<1>7. z + moved \in 1 .. Size(w.slots[i]) /\ moved <= w.slots[i].count /\ SameItem(y, w.slots[i]) /\ Gathers(w, i, z)
  BY <1>4, <1>5 DEF Gathers
<1> HIDE DEF y
<1>8. Keeps(w, [slots |-> [w.slots EXCEPT ![i] = IF w.slots[i].count - moved = 0 THEN None
                                                    ELSE WithCount(w.slots[i], w.slots[i].count - moved)],
                   cursor |-> y], X)
  BY <1>4, <1>5, <1>7, LiftKeeps
<1> QED BY <1>6, <1>8

LEMMA SameKeeps == ASSUME NEW w \in Holds, NEW X PROVE Keeps(w, w, X)
BY DEF Keeps

LEMMA LeftKeeps ==
  ASSUME layout.slots \in Nat, NEW w \in Holds, NEW i \in WindowSlot, NEW X
  PROVE  Keeps(w, LeftClick(w, i), X)
<1> DEFINE swaps == None \in {w.slots[i], w.cursor} \/ ~ItemsEqual(w.slots[i], w.cursor)
<1>1. CASE swaps
  <2>1. LeftClick(w, i) = SwapSelected(w, i) BY <1>1 DEF LeftClick
  <2> QED BY <2>1, SwapKeeps
<1>2. CASE ~swaps
  <2>1. w.slots[i] # None /\ w.cursor # None /\ SameItem(w.slots[i], w.cursor)
    BY <1>2 DEF ItemsEqual, SameItem
  <2>2. CASE NotResult(i)
    <3>1. LeftClick(w, i) = FillWithSelected(w, i, TRUE) BY <1>2, <2>2, Zenon DEF LeftClick
    <3>2. Onto(w, i, w) BY <2>1 DEF Onto
    <3>3. Keeps(w, FillWithSelected(w, i, TRUE), X) BY <2>1, <3>2, FillSelectedKeeps
    <3> QED BY <3>1, <3>3
  <2>3. CASE ~NotResult(i)
    <3>1. LeftClick(w, i) = TakeResult(w, i) BY <1>2, <2>3, Zenon DEF LeftClick
    <3> QED BY <2>1, <3>1, TakeResultKeeps
  <2> QED BY <2>2, <2>3
<1> QED BY <1>1, <1>2

LEMMA RightKeeps ==
  ASSUME layout.slots \in Nat, NEW w \in Holds, NEW i \in WindowSlot, NEW X
  PROVE  Keeps(w, RightClick(w, i), X)
<1> DEFINE none == [w EXCEPT !.slots[i] = WithCount(w.cursor, 0)]
<1>1. CASE w.cursor # None /\ w.slots[i] = None
  <2>1. RightClick(w, i) = FillWithSelected(none, i, FALSE) BY <1>1 DEF RightClick
  <2>2. none.cursor = w.cursor /\ none.slots = [w.slots EXCEPT ![i] = WithCount(w.cursor, 0)] BY DEF Holds
  <2> HIDE DEF none
  <2>3. Onto(w, i, none) BY <1>1, <2>2 DEF Onto
  <2>4. Keeps(w, FillWithSelected(none, i, FALSE), X) BY <1>1, <2>2, <2>3, FillSelectedKeeps
  <2> QED BY <2>1, <2>4
<1>2. CASE w.cursor # None /\ w.slots[i] # None /\ ItemsEqual(w.slots[i], w.cursor)
  <2>1. RightClick(w, i) = FillWithSelected(w, i, FALSE) BY <1>2 DEF RightClick
  <2>2. Onto(w, i, w) BY <1>2 DEF ItemsEqual, SameItem, Onto
  <2>3. Keeps(w, FillWithSelected(w, i, FALSE), X) BY <1>2, <2>2, FillSelectedKeeps
  <2> QED BY <2>1, <2>3
<1>3. CASE w.cursor # None /\ w.slots[i] # None /\ ~ItemsEqual(w.slots[i], w.cursor)
  <2>1. RightClick(w, i) = SwapSelected(w, i) BY <1>3 DEF RightClick
  <2> QED BY <2>1, SwapKeeps
<1>4. CASE w.cursor = None /\ w.slots[i] # None /\ NotResult(i)
  <2>1. RightClick(w, i) = SplitSlot(w, i) BY <1>4 DEF RightClick
  <2> QED BY <1>4, <2>1, SplitKeeps
<1>5. CASE w.cursor = None /\ ~(w.slots[i] # None /\ NotResult(i))
  <2>1. RightClick(w, i) = w BY <1>5, Zenon DEF RightClick
  <2> QED BY <2>1, SameKeeps
<1> QED BY <1>1, <1>2, <1>3, <1>4, <1>5

-----------------------------------------------------------------------------
(* The clicks that merge by type: the amounts of every type stay.          *)

\* The kinds of a type.
Of(t) == {<<k.type_id, k.components>> : k \in {j \in Identity : j.type_id = t}}

LEMMA AmountOfType ==
  ASSUME NEW x \in Stack, NEW t
  PROVE  Amount(x, Of(t)) = CountOf(x, t)
<1>1. CASE x = None BY <1>1 DEF Amount, CountOf
<1>2. CASE x # None
  <2>1. PICK k \in Identity : x.type_id = k.type_id /\ x.components = k.components BY <1>2, StackShape
  <2>2. <<x.type_id, x.components>> \in Of(t) <=> x.type_id = t
    <3>1. x.type_id = t => k \in {j \in Identity : j.type_id = t} BY <2>1
    <3>2. x.type_id = t => <<x.type_id, x.components>> \in Of(t) BY <2>1, <3>1 DEF Of
    <3>3. ASSUME <<x.type_id, x.components>> \in Of(t) PROVE x.type_id = t
      <4>1. PICK j \in Identity : j.type_id = t /\ <<x.type_id, x.components>> = <<j.type_id, j.components>>
        BY <3>3 DEF Of
      <4> QED BY <4>1
    <3> QED BY <3>2, <3>3
  <2> QED BY <1>2, <2>2 DEF Amount, CountOf
<1> QED BY <1>1, <1>2

\* The amounts of each type stay; only the slots S change, what they hold
\* stays of its type, and only the source may become empty.
SameShape(w, v, i) == w.slots[i] = None <=> v.slots[i] = None
SameTypeAt(w, v, i) == w.slots[i] # None /\ v.slots[i] # None => v.slots[i].type_id = w.slots[i].type_id
Merges(w, v, S, source) ==
  /\ v \in Holds /\ v.cursor = w.cursor
  /\ \A t : Amounts(v, Of(t)) = Amounts(w, Of(t))
  /\ \A i \in WindowSlot : i # source => SameShape(w, v, i)
  /\ w.slots[source] = None => v.slots[source] = None
  /\ \A i \in WindowSlot : SameTypeAt(w, v, i)
  /\ \A i \in WindowSlot : i \notin S => v.slots[i] = w.slots[i]

LEMMA MergesSelf ==
  ASSUME NEW w \in Holds, NEW S, NEW source
  PROVE  Merges(w, w, S, source)
BY DEF Merges, SameShape, SameTypeAt

LEMMA MergesTwice ==
  ASSUME NEW w, NEW u, NEW v, NEW S, NEW R, NEW source \in WindowSlot,
         Merges(w, u, S, source), Merges(u, v, R, source)
  PROVE  Merges(w, v, S \cup R, source)
<1>1. \A i \in WindowSlot : i # source => SameShape(w, v, i) BY DEF Merges, SameShape
<1>2. \A i \in WindowSlot : SameTypeAt(w, v, i)
  <2> TAKE i \in WindowSlot
  <2>1. SameTypeAt(w, u, i) /\ SameTypeAt(u, v, i) BY DEF Merges
  <2>2. w.slots[i] # None /\ v.slots[i] # None => u.slots[i] # None BY DEF Merges, SameShape
  <2> QED BY <2>1, <2>2 DEF SameTypeAt
<1>3. \A i \in WindowSlot : i \notin S \cup R => v.slots[i] = w.slots[i] BY DEF Merges
<1> QED BY <1>1, <1>2, <1>3 DEF Merges

\* What does not fit is left behind.
LEMMA PourLeaves ==
  ASSUME NEW w, NEW fill, NEW take, None \notin {w.slots[fill], w.slots[take]},
         ~(w.slots[fill].count + w.slots[take].count - StackSize[w.slots[fill].type_id] <= 0)
  PROVE  FillSlotWithItem(w, fill, take)
           = [w EXCEPT !.slots[fill] = WithCount(w.slots[fill], StackSize[w.slots[fill].type_id]),
                       !.slots[take] = WithCount(w.slots[take], w.slots[fill].count + w.slots[take].count
                                                                  - StackSize[w.slots[fill].type_id])]
BY Zenon DEF FillSlotWithItem

\* One stack is poured onto another of its type.
LEMMA PourMerges ==
  ASSUME layout.slots \in Nat, NEW w \in Holds, NEW fill \in WindowSlot, NEW take \in WindowSlot,
         fill # take, SameTypeAt([w EXCEPT !.slots[fill] = w.slots[take]], w, fill)
  PROVE  Merges(w, FillSlotWithItem(w, fill, take), {fill, take}, take)
<1> DEFINE into == w.slots[fill]
           from == w.slots[take]
           size == StackSize[into.type_id]
           sum == into.count + from.count
           v == FillSlotWithItem(w, fill, take)
<1>1. w.slots \in [WindowSlot -> Stack] /\ w.cursor \in Stack /\ into \in Stack /\ from \in Stack BY DEF Holds
<1>2. CASE None \in {into, from}
  <2>1. v = w BY <1>2 DEF FillSlotWithItem
  <2> QED BY <2>1, MergesSelf
<1>3. CASE None \notin {into, from}
  <2>1. into # None /\ from # None BY <1>3
  <2>2. into.type_id = from.type_id
    <3>1. [w EXCEPT !.slots[fill] = w.slots[take]].slots[fill] = from BY <1>1 DEF Holds
    <3> QED BY <2>1, <3>1 DEF SameTypeAt
  <2>3. /\ into.count \in 1 .. size /\ from.count \in 1 .. size /\ size \in 1 .. 64 /\ size = Size(into) /\ size = Size(from)
    BY <1>1, <2>1, <2>2, StackShape DEF Size
  <2> PICK a \in Nat, b \in Nat :
         a = (IF sum - size <= 0 THEN sum ELSE size) /\ b = (IF sum - size <= 0 THEN 0 ELSE sum - size)
    <3>1. sum \in Nat /\ size \in Nat BY <2>3
    <3> HIDE DEF sum, size
    <3> QED BY <3>1
  <2>4. a \in 1 .. size /\ b \in 0 .. size /\ a + b = into.count + from.count BY <2>3
  <2> DEFINE x == WithCount(into, a)
             y == IF b = 0 THEN None ELSE WithCount(from, b)
  <2>5. v = [slots |-> [[w.slots EXCEPT ![fill] = x] EXCEPT ![take] = y], cursor |-> w.cursor]
    <3>1. CASE sum - size <= 0
      <4>1. v = [w EXCEPT !.slots[fill] = WithCount(into, into.count + from.count), !.slots[take] = None]
        BY <1>3, <2>3, <3>1 DEF FillSlotWithItem
      <4>2. a = into.count + from.count /\ b = 0 BY <3>1
      <4>3. v = [w EXCEPT !.slots[fill] = x, !.slots[take] = y] BY <4>1, <4>2
      <4> HIDE DEF v, x, y
      <4> QED BY <4>3 DEF Holds
    <3>2. CASE ~(sum - size <= 0)
      <4>1. v = [w EXCEPT !.slots[fill] = WithCount(into, size), !.slots[take] = WithCount(from, sum - size)]
        <5>0. into.count + from.count - size = sum - size
          <6>1. into.count \in Int /\ from.count \in Int /\ size \in Int BY <2>3
          <6> HIDE DEF into, from, size
          <6> QED BY <6>1
        <5>1. ~(w.slots[fill].count + w.slots[take].count - StackSize[w.slots[fill].type_id] <= 0)
          <6>1. ~(into.count + from.count - size <= 0)
            <7> HIDE DEF into, from, size, sum
            <7> QED BY <3>2, <5>0
          <6> QED BY <6>1
        <5>2. None \notin {w.slots[fill], w.slots[take]} BY <1>3
        <5>3. v = [w EXCEPT !.slots[fill] = WithCount(into, size),
                            !.slots[take] = WithCount(from, into.count + from.count - size)]
          BY <5>1, <5>2, PourLeaves
        <5> HIDE DEF v, into, from, size, sum
        <5> QED BY <5>0, <5>3, Zenon
      <4>2. a = size /\ b = sum - size /\ b # 0 BY <2>3, <3>2
      <4>3. v = [w EXCEPT !.slots[fill] = x, !.slots[take] = y] BY <4>1, <4>2
      <4> HIDE DEF v, x, y
      <4> QED BY <4>3 DEF Holds
    <3> QED BY <3>1, <3>2
  <2>6. x \in Stack /\ x # None /\ x.type_id = into.type_id
           /\ \A t : Amount(x, Of(t)) = IF into.type_id = t THEN a ELSE 0
    <3>1. a \in 1 .. Size(into) BY <2>3, <2>4
    <3> HIDE DEF into, size, sum
    <3>2. x \in Stack /\ x # None /\ x.type_id = into.type_id /\ x.count = a BY <1>1, <2>1, <3>1, OtherCount
    <3> HIDE DEF x
    <3> QED BY <3>2, AmountOfType DEF CountOf
  <2>7. y \in Stack /\ (y # None => y.type_id = from.type_id)
           /\ \A t : Amount(y, Of(t)) = IF into.type_id = t THEN b ELSE 0
    <3>1. CASE b = 0 BY <3>1 DEF Stack, Amount
    <3>2. CASE b # 0
      <4>1. b \in 1 .. Size(from) BY <2>3, <2>4, <3>2
      <4>2. y = WithCount(from, b) BY <3>2
      <4> HIDE DEF from, into, size, sum, y
      <4>3. y \in Stack /\ y # None /\ y.type_id = from.type_id /\ y.count = b BY <1>1, <2>1, <4>1, <4>2, OtherCount
      <4> QED BY <2>2, <4>3, AmountOfType DEF CountOf
    <3> QED BY <3>1, <3>2
  <2>8. \A t : /\ Amount(into, Of(t)) = (IF into.type_id = t THEN into.count ELSE 0)
               /\ Amount(from, Of(t)) = (IF into.type_id = t THEN from.count ELSE 0)
    <3> HIDE DEF into, from
    <3> QED BY <1>1, <2>1, <2>2, AmountOfType DEF CountOf
  <2> HIDE DEF x, y, v
  <2>9. v \in Holds /\ \A t : Amounts(v, Of(t)) = Amounts(w, Of(t))
    <3>1. ASSUME NEW t PROVE v \in Holds /\ Amounts(v, Of(t)) = Amounts(w, Of(t))
      <4>1. /\ v \in Holds
            /\ Amounts(v, Of(t)) = Amounts(w, Of(t)) + (Amount(x, Of(t)) - Amount(into, Of(t)))
                                                      + (Amount(y, Of(t)) - Amount(from, Of(t)))
        BY <2>5, <2>6, <2>7, TwoSlots
      <4>2. Amounts(w, Of(t)) \in Int BY <1>1, SlotAndCursor
      <4>3. into.count \in Int /\ from.count \in Int BY <2>3
      <4> HIDE DEF into, from
      <4>4. CASE into.type_id = t
        <5>1. Amount(x, Of(t)) = a /\ Amount(into, Of(t)) = into.count /\ Amount(y, Of(t)) = b /\ Amount(from, Of(t)) = from.count
          BY <2>6, <2>7, <2>8, <4>4
        <5> QED BY <2>4, <4>1, <4>2, <4>3, <5>1
      <4>5. CASE into.type_id # t
        <5>1. Amount(x, Of(t)) = 0 /\ Amount(into, Of(t)) = 0 /\ Amount(y, Of(t)) = 0 /\ Amount(from, Of(t)) = 0
          BY <2>6, <2>7, <2>8, <4>5
        <5> QED BY <4>1, <4>2, <5>1
      <4> QED BY <4>4, <4>5
    <3> QED BY <3>1
  <2>10. /\ v.cursor = w.cursor /\ v.slots[fill] = x /\ v.slots[take] = y
         /\ \A i \in WindowSlot : i # fill /\ i # take => v.slots[i] = w.slots[i]
    BY <1>1, <2>5
  <2> HIDE DEF into, from
  <2>11. w.slots[fill] = into /\ w.slots[take] = from BY DEF into, from
  <2>12. \A i \in WindowSlot : i # take => SameShape(w, v, i)
    BY <2>1, <2>6, <2>10, <2>11 DEF SameShape
  <2>13. \A i \in WindowSlot : SameTypeAt(w, v, i)
    BY <2>6, <2>7, <2>10, <2>11 DEF SameTypeAt
  <2>14. w.slots[take] = None => v.slots[take] = None BY <2>1, <2>11
  <2>15. \A i \in WindowSlot : i \notin {fill, take} => v.slots[i] = w.slots[i] BY <2>10
  <2>16. v.cursor = w.cursor BY <2>10
  <2>17. Merges(w, v, {fill, take}, take)
    <3> HIDE DEF SameShape, SameTypeAt
    <3> QED BY <2>9, <2>12, <2>13, <2>14, <2>15, <2>16, Zenon DEF Merges
  <2> QED BY <2>17 DEF v
<1> QED BY <1>2, <1>3

\* One slot may change that another may not.
LEMMA MergesWider ==
  ASSUME NEW w, NEW v, NEW S, NEW R, NEW source, Merges(w, v, S, source), S \subseteq R
  PROVE  Merges(w, v, R, source)
BY DEF Merges

\* The rounds of fill_slots_with_item.
Looked(k, last_to_first) == IF last_to_first THEN layout.slots - k ELSE k - 1
Poured(v, k, targets, source, last_to_first) ==
  IF Looked(k, last_to_first) \in targets THEN FillSlotWithItem(v, Looked(k, last_to_first), source) ELSE v
IsFilled(g, w, targets, source, last_to_first) ==
  g = [k \in 0 .. layout.slots |->
         IF k = 0 THEN w ELSE Poured(g[k - 1], k, targets, source, last_to_first)]

LEMMA FilledIs ==
  ASSUME NEW w, NEW targets, NEW source, NEW last_to_first
  PROVE  FillSlotsWithItem(w, targets, source, last_to_first)
           = (CHOOSE g : IsFilled(g, w, targets, source, last_to_first))[layout.slots]
BY DEF FillSlotsWithItem, IsFilled, Poured, Looked

\* Filling some slots of the source's type from it.
LEMMA FillMerges ==
  ASSUME layout.slots \in Nat, NEW w \in Holds, NEW source \in WindowSlot,
         NEW targets, targets \subseteq WindowSlot \ {source}, NEW last_to_first,
         \A i \in targets : w.slots[i] # None
                              /\ (w.slots[source] # None => w.slots[i].type_id = w.slots[source].type_id)
  PROVE  Merges(w, FillSlotsWithItem(w, targets, source, last_to_first), targets \cup {source}, source)
<1> DEFINE n == layout.slots
           R == targets \cup {source}
           V == {v \in Holds : Merges(w, v, R, source)}
           L(k) == Looked(k, last_to_first)
           round == [k \in 1 .. n |-> [v \in V |-> Poured(v, k, targets, source, last_to_first)]]
<1>0. n \in Nat OBVIOUS
<1>1. w \in V BY MergesSelf
<1>v. \A v : v \in V => v \in Holds /\ Merges(w, v, R, source) OBVIOUS
<1>w. \A v : v \in Holds /\ Merges(w, v, R, source) => v \in V OBVIOUS
<1> HIDE DEF V
<1>2. ASSUME NEW v \in V, NEW k PROVE Poured(v, k, targets, source, last_to_first) \in V
  <2>1. CASE L(k) \notin targets BY <2>1 DEF Poured
  <2>2. CASE L(k) \in targets
    <3> PICK i \in targets : i = L(k) BY <2>2
    <3>1. Poured(v, k, targets, source, last_to_first) = FillSlotWithItem(v, i, source) BY DEF Poured
    <3>2. i \in WindowSlot /\ i # source OBVIOUS
    <3>3. v \in Holds /\ Merges(w, v, R, source) BY <1>v
    <3>4. SameTypeAt([v EXCEPT !.slots[i] = v.slots[source]], v, i)
      <4>1. [v EXCEPT !.slots[i] = v.slots[source]].slots[i] = v.slots[source] BY <3>2, <3>3 DEF Holds
      <4>2. SameTypeAt(w, v, i) /\ SameTypeAt(w, v, source) /\ SameShape(w, v, i)
               /\ (w.slots[source] = None => v.slots[source] = None)
        BY <3>2, <3>3 DEF Merges
      <4>3. ASSUME v.slots[source] # None, v.slots[i] # None PROVE v.slots[i].type_id = v.slots[source].type_id
        <5>1. w.slots[i] # None /\ w.slots[source] # None BY <4>2, <4>3
        <5>2. w.slots[i].type_id = w.slots[source].type_id BY <5>1
        <5>3. v.slots[i].type_id = w.slots[i].type_id /\ v.slots[source].type_id = w.slots[source].type_id
          BY <4>2, <4>3, <5>1 DEF SameTypeAt
        <5> QED BY <5>2, <5>3
      <4> QED BY <4>1, <4>3 DEF SameTypeAt
    <3>5. Merges(v, FillSlotWithItem(v, i, source), {i, source}, source) BY <3>2, <3>3, <3>4, PourMerges
    <3>6. Merges(v, FillSlotWithItem(v, i, source), R, source) BY <3>5, MergesWider
    <3>7. Merges(w, FillSlotWithItem(v, i, source), R \cup R, source) BY <3>3, <3>6, MergesTwice
    <3>8. R \cup R = R OBVIOUS
    <3>9. FillSlotWithItem(v, i, source) \in Holds BY <3>5 DEF Merges
    <3> HIDE DEF R
    <3> QED BY <3>1, <3>7, <3>8, <3>9, <1>w
  <2> QED BY <2>1, <2>2
<1>3. Rounds(round, V, n) BY <1>2 DEF Rounds
<1>4. PICK g : Looped(g, round, V, n, w)
  <2> HIDE DEF round, n
  <2> QED BY <1>0, <1>1, <1>3, RoundsExist
<1>5. IsFilled(g, w, targets, source, last_to_first)
  <2>1. g \in [0 .. n -> V] /\ g[0] = w /\ \A k \in 1 .. n : g[k] = round[k][g[k - 1]]
    <3> HIDE DEF round, n
    <3> QED BY <1>4 DEF Looped
  <2>2. \A k \in 0 .. n : g[k] = IF k = 0 THEN w ELSE Poured(g[k - 1], k, targets, source, last_to_first)
    <3> TAKE k \in 0 .. n
    <3>1. CASE k = 0 BY <2>1, <3>1
    <3>2. CASE k # 0
      <4>1. k \in 1 .. n /\ k - 1 \in 0 .. n BY <1>0, <3>2
      <4>2. g[k - 1] \in V BY <2>1, <4>1
      <4>3. round[k][g[k - 1]] = Poured(g[k - 1], k, targets, source, last_to_first) BY <4>1, <4>2
      <4> HIDE DEF round
      <4> QED BY <2>1, <3>2, <4>1, <4>3
    <3> QED BY <3>1, <3>2
  <2>3. g = [k \in 0 .. n |-> g[k]] BY <2>1
  <2>4. [k \in 0 .. n |-> g[k]]
          = [k \in 0 .. n |-> IF k = 0 THEN w ELSE Poured(g[k - 1], k, targets, source, last_to_first)] BY <2>2
  <2> QED BY <2>3, <2>4 DEF IsFilled
<1> DEFINE s == CHOOSE h : IsFilled(h, w, targets, source, last_to_first)
<1>6. IsFilled(s, w, targets, source, last_to_first) BY <1>5
<1>7. FillSlotsWithItem(w, targets, source, last_to_first) = s[n] BY FilledIs
<1> HIDE DEF s, round
<1>8. \A k \in 0 .. n : s[k] = IF k = 0 THEN w ELSE Poured(s[k - 1], k, targets, source, last_to_first)
  <2> DEFINE T == [k \in 0 .. n |-> IF k = 0 THEN w ELSE Poured(s[k - 1], k, targets, source, last_to_first)]
  <2>1. s = T BY <1>6 DEF IsFilled
  <2>2. \A k \in 0 .. n : T[k] = IF k = 0 THEN w ELSE Poured(s[k - 1], k, targets, source, last_to_first) OBVIOUS
  <2> HIDE DEF T
  <2>3. \A k \in 0 .. n : s[k] = T[k] BY <2>1
  <2> QED BY <2>2, <2>3
<1>9. s[n] \in V
  <2> DEFINE T == {k \in 0 .. n : s[k] \notin V}
  <2>1. T = {}
    <3> SUFFICES ASSUME T # {} PROVE FALSE OBVIOUS
    <3>1. T \subseteq Nat OBVIOUS
    <3>t. \A m : m \in T <=> m \in 0 .. n /\ s[m] \notin V OBVIOUS
    <3> HIDE DEF T
    <3>2. PICK m \in T : \A y \in T : m <= y BY <3>1, LeastNatural
    <3>3. m \in 0 .. n /\ m # 0 BY <3>2, <3>t, <1>8, <1>1
    <3>4. m - 1 \in 0 .. n /\ ~(m <= m - 1) BY <3>3
    <3>5. s[m - 1] \in V BY <3>2, <3>4, <3>t
    <3>6. s[m] = Poured(s[m - 1], m, targets, source, last_to_first) BY <3>3, <1>8
    <3> QED BY <3>2, <3>5, <3>6, <3>t, <1>2
  <2>2. n \in 0 .. n BY <1>0
  <2> QED BY <2>1, <2>2
<1> QED BY <1>7, <1>9, <1>v

\* The amounts of each type stay, and only the slots R change.
Moves(w, v, R) ==
  /\ v \in Holds /\ v.cursor = w.cursor
  /\ \A t : Amounts(v, Of(t)) = Amounts(w, Of(t))
  /\ \A i \in WindowSlot : i \notin R => v.slots[i] = w.slots[i]

LEMMA MovesSelf == ASSUME NEW w \in Holds, NEW R PROVE Moves(w, w, R)
BY DEF Moves

LEMMA MovesTwice ==
  ASSUME NEW w, NEW u, NEW v, NEW R, NEW S, Moves(w, u, R), Moves(u, v, S)
  PROVE  Moves(w, v, R \cup S)
<1>1. \A i \in WindowSlot : i \notin R \cup S => v.slots[i] = w.slots[i] BY DEF Moves
<1> QED BY <1>1 DEF Moves

LEMMA MergesMoves ==
  ASSUME NEW w, NEW v, NEW R, NEW source, Merges(w, v, R, source)
  PROVE  Moves(w, v, R)
BY DEF Merges, Moves

\* A stack is moved from a slot to an empty one.
MovedTo(w, v, source, target) ==
  /\ Moves(w, v, {source, target})
  /\ v.slots[target] = w.slots[source]
  /\ v.slots[source] = w.slots[target]

\* Two slots are exchanged.
LEMMA Exchange ==
  ASSUME layout.slots \in Nat, NEW w \in Holds, NEW i \in WindowSlot, NEW j \in WindowSlot, i # j,
         NEW v, v = [slots |-> [[w.slots EXCEPT ![i] = w.slots[j]] EXCEPT ![j] = w.slots[i]], cursor |-> w.cursor]
  PROVE  /\ MovedTo(w, v, i, j)
         /\ \A X : Amounts(v, X) = Amounts(w, X)
<1>1. w.slots \in [WindowSlot -> Stack] /\ w.cursor \in Stack /\ w.slots[i] \in Stack /\ w.slots[j] \in Stack BY DEF Holds
<1>2. ASSUME NEW X PROVE v \in Holds /\ Amounts(v, X) = Amounts(w, X)
  <2>1. /\ v \in Holds
        /\ Amounts(v, X) = Amounts(w, X) + (Amount(w.slots[j], X) - Amount(w.slots[i], X))
                                         + (Amount(w.slots[i], X) - Amount(w.slots[j], X))
    BY <1>1, TwoSlots
  <2>2. Amounts(w, X) \in Int BY <1>1, SlotAndCursor
  <2>3. Amount(w.slots[i], X) \in Int /\ Amount(w.slots[j], X) \in Int BY <1>1, AmountIs
  <2> QED BY <2>1, <2>2, <2>3
<1>3. /\ v.cursor = w.cursor /\ v.slots[j] = w.slots[i] /\ v.slots[i] = w.slots[j]
      /\ \A k \in WindowSlot : k \notin {i, j} => v.slots[k] = w.slots[k]
  BY <1>1
<1> QED BY <1>2, <1>3 DEF MovedTo, Moves

\* dump_item finds an empty slot of the range, or does nothing.
LEMMA DumpMoves ==
  ASSUME layout.slots \in Nat, NEW w \in Holds, NEW source \in WindowSlot, w.slots[source] # None,
         NEW start \in Int, NEW end \in Int, NEW last \in BOOLEAN
  PROVE  \/ DumpItem(w, source, start, end, last) = w
         \/ \E target \in EmptySlots(w, start .. IF last THEN end ELSE end - 1) :
              NotResult(target) /\ target # source
                /\ MovedTo(w, DumpItem(w, source, start, end, last), source, target)
<1> DEFINE range == start .. IF last THEN end ELSE end - 1
           empty == EmptySlots(w, range)
           target == IF last THEN Max(empty) ELSE Min(empty)
           v == DumpItem(w, source, start, end, last)
<1>1. CASE ~(empty # {} /\ NotResult(target)) BY <1>1, Zenon DEF DumpItem
<1>2. CASE empty # {} /\ NotResult(target)
  <2>1. v = [w EXCEPT !.slots[target] = w.slots[source], !.slots[source] = None]
    BY <1>2, Zenon DEF DumpItem
  <2>2. empty \subseteq 0 .. layout.slots /\ empty \subseteq Nat BY DEF EmptySlots, WindowSlot
  <2>3. \A k \in empty : k \in WindowSlot /\ w.slots[k] = None BY DEF EmptySlots
  <2> HIDE DEF empty
  <2>4. Max(empty) \in empty
    <3>1. \E x \in empty : \A y \in empty : y <= x BY <1>2, <2>2, LargestNatural
    <3> QED BY <3>1, <2>2 DEF Max
  <2>5. Min(empty) \in empty BY <1>2, <2>2, MinIsLeast
  <2>6. target \in empty BY <2>4, <2>5
  <2> HIDE DEF target, v
  <2>7. target \in WindowSlot /\ w.slots[target] = None /\ target # source BY <2>3, <2>6
  <2>8. v = [slots |-> [[w.slots EXCEPT ![source] = w.slots[target]] EXCEPT ![target] = w.slots[source]],
             cursor |-> w.cursor]
    <3>1. w.slots \in [WindowSlot -> Stack] /\ w = [slots |-> w.slots, cursor |-> w.cursor] BY DEF Holds
    <3>2. v = [slots |-> [[w.slots EXCEPT ![target] = w.slots[source]] EXCEPT ![source] = None], cursor |-> w.cursor]
      BY <2>1, <3>1
    <3>3. [[w.slots EXCEPT ![target] = w.slots[source]] EXCEPT ![source] = None]
            = [[w.slots EXCEPT ![source] = w.slots[target]] EXCEPT ![target] = w.slots[source]]
      BY <2>7, <3>1
    <3> QED BY <3>2, <3>3
  <2>9. MovedTo(w, v, source, target) BY <2>7, <2>8, Exchange
  <2> QED BY <1>2, <2>6, <2>7, <2>9 DEF empty, v
<1> QED BY <1>1, <1>2

\* Where fill_and_dump puts things.
Reach(start, end, last) == start .. IF last THEN end ELSE end - 1

LEMMA FillAndDumpMoves ==
  ASSUME layout.slots \in Nat, NEW w \in Holds, NEW source \in WindowSlot, w.slots[source] # None,
         NEW start \in Int, NEW end \in Int, NEW last \in BOOLEAN, source \notin start .. end - 1
  PROVE  Moves(w, FillAndDump(w, source, start, end, last), Reach(start, end, last) \cup {source})
<1> DEFINE R == Reach(start, end, last) \cup {source}
           matching == {i \in FindItems(w, start, end, w.slots[source].type_id, TRUE) : NotResult(i)}
           filled == FillSlotsWithItem(w, matching, source, last)
<1>1. matching \subseteq WindowSlot \ {source}
         /\ \A i \in matching : w.slots[i] # None
                                  /\ (w.slots[source] # None => w.slots[i].type_id = w.slots[source].type_id)
  BY DEF FindItems
<1>2. matching \cup {source} \subseteq R
  <2>1. \A i \in matching : i \in start .. end - 1 BY DEF FindItems
  <2>2. \A i : i \in start .. end - 1 => i \in Reach(start, end, last) BY DEF Reach
  <2> QED BY <2>1, <2>2
<1>3. FillAndDump(w, source, start, end, last)
        = IF filled.slots[source] = None THEN filled ELSE DumpItem(filled, source, start, end, last)
  BY DEF FillAndDump
<1> HIDE DEF matching
<1>4. Merges(w, filled, matching \cup {source}, source) BY <1>1, FillMerges
<1> HIDE DEF filled, R
<1>5. Merges(w, filled, R, source) BY <1>2, <1>4, MergesWider
<1>6. Moves(w, filled, R) /\ filled \in Holds BY <1>5, MergesMoves DEF Merges
<1>7. CASE filled.slots[source] = None BY <1>3, <1>6, <1>7 DEF R
<1>8. CASE filled.slots[source] # None
  <2> DEFINE v == DumpItem(filled, source, start, end, last)
  <2>1. CASE v = filled BY <1>3, <1>6, <1>8, <2>1 DEF R
  <2>2. CASE v # filled
    <3>1. PICK target \in EmptySlots(filled, start .. IF last THEN end ELSE end - 1) :
            MovedTo(filled, v, source, target)
      BY <1>6, <1>8, <2>2, DumpMoves
    <3>2. target \in Reach(start, end, last) BY <3>1 DEF EmptySlots, Reach
    <3>3. Moves(filled, v, {source, target}) BY <3>1 DEF MovedTo
    <3> HIDE DEF v
    <3>4. Moves(w, v, R \cup {source, target}) BY <1>6, <3>3, MovesTwice
    <3>5. R \cup {source, target} = R BY <3>2 DEF R
    <3> QED BY <1>3, <1>8, <3>4, <3>5 DEF R, v
  <2> QED BY <2>1, <2>2
<1> QED BY <1>7, <1>8

LEMMA LayoutFacts ==
  ASSUME layout \in Layouts
  PROVE  /\ layout.slots \in Nat /\ layout.inventory_start \in Nat /\ layout.inventory_end \in Nat
         /\ layout.inventory_start + HotbarSize < layout.inventory_end
         /\ layout.inventory_end <= layout.slots
         /\ layout.crafting_result_slot \in Int /\ layout.crafting_result_slot < layout.inventory_start
         /\ HotbarSize \in Nat /\ hotbar_start \in Nat /\ hotbar_start + HotbarSize = layout.inventory_end
BY LayoutsAssumption, HotbarAssumption DEF hotbar_start

\* On the side of a slot, and on the side of a shift click's target.
OtherSide(i, slot) == ~(i < layout.inventory_start <=> slot < layout.inventory_start)

LEMMA ShiftMoves ==
  ASSUME layout \in Layouts, layout.kind # "minecraft:inventory", NEW w \in Holds, NEW slot \in WindowSlot
  PROVE  Moves(w, ShiftedFrom(w, slot), {i \in WindowSlot : OtherSide(i, slot)} \cup {slot})
<1> DEFINE S == {i \in WindowSlot : OtherSide(i, slot)} \cup {slot}
           first == slot < layout.inventory_start
           start == IF first THEN layout.inventory_start ELSE 0
           end == IF first THEN layout.inventory_end ELSE layout.inventory_start - 1
           last == first /\ (layout.crafting_result_slot = -1 \/ slot = layout.crafting_result_slot)
           v == FillAndDump(w, slot, start, end, last)
<1>1. CASE w.slots[slot] = None BY <1>1, MovesSelf DEF ShiftedFrom
<1>2. CASE w.slots[slot] # None
  <2>1. layout.slots \in Nat /\ start \in Int /\ end \in Int /\ last \in BOOLEAN /\ slot \in Int /\ layout.inventory_start \in Nat
    BY LayoutFacts DEF WindowSlot
  <2>2. ShiftedFrom(w, slot) = v
    <3>1. CASE first
      <4>1. ShiftTarget(slot) = <<start, end, last>> BY <3>1 DEF ShiftTarget
      <4> QED BY <1>2, <4>1 DEF ShiftedFrom
    <3>2. CASE ~first
      <4>1. ShiftTarget(slot) = <<start, end, last>> BY <3>2 DEF ShiftTarget
      <4> QED BY <1>2, <4>1 DEF ShiftedFrom
    <3> QED BY <3>1, <3>2
  <2>3. slot \notin start .. end - 1 BY <2>1
  <2>4. \A i \in Reach(start, end, last) : i \in WindowSlot => OtherSide(i, slot)
    BY <2>1 DEF Reach, OtherSide, WindowSlot
  <2> HIDE DEF start, end, last
  <2>5. Moves(w, v, Reach(start, end, last) \cup {slot}) BY <1>2, <2>1, <2>3, FillAndDumpMoves
  <2> QED BY <2>2, <2>4, <2>5 DEF Moves
<1> QED BY <1>1, <1>2

\* The crafting result in an occupied slot of the hotbar: what is dumped
\* from there is somewhere else, of its type, to be poured.
LEMMA ResultMoves ==
  ASSUME layout \in Layouts, NEW w \in Holds, NEW slot \in WindowSlot, NEW hotbar \in WindowSlot,
         slot # hotbar, slot = layout.crafting_result_slot, w.slots[slot] # None, w.slots[hotbar] # None
  PROVE  Moves(w, ResultToHotbar(w, slot, hotbar), WindowSlot)
<1> DEFINE old == w.slots[hotbar]
           d1 == DumpItem(w, hotbar, hotbar_start, layout.inventory_end, FALSE)
           d2 == IF d1.slots[hotbar] = None THEN d1
                 ELSE DumpItem(d1, hotbar, layout.inventory_start, hotbar_start - 1, FALSE)
           placed == [d2 EXCEPT !.slots[slot] = None, !.slots[hotbar] = w.slots[slot]]
           F == FindItems(placed, 0, layout.inventory_end, old.type_id, FALSE)
           first == Min(F)
           partial == FindItems(placed, hotbar_start, layout.inventory_end, old.type_id, TRUE) \ {first}
           others == FindItems(placed, layout.inventory_start, hotbar_start - 1, old.type_id, TRUE) \ {first}
           Sent(u) == \E target \in WindowSlot :
                        /\ target < layout.inventory_end /\ target # slot /\ target # hotbar
                        /\ w.slots[target] = None /\ MovedTo(w, u, hotbar, target)
<1>0. /\ layout.slots \in Nat /\ layout.inventory_start \in Int /\ layout.inventory_end \in Int
      /\ hotbar_start \in Int /\ hotbar_start - 1 \in Int /\ hotbar_start <= layout.inventory_end
  BY LayoutFacts
<1>1. d1 = w \/ Sent(d1)
  <2>1. \A target \in EmptySlots(w, hotbar_start .. layout.inventory_end - 1) :
          target \in WindowSlot /\ target < layout.inventory_end /\ w.slots[target] = None
    BY <1>0 DEF EmptySlots
  <2>2. \/ d1 = w
        \/ \E target \in EmptySlots(w, hotbar_start .. layout.inventory_end - 1) :
             NotResult(target) /\ target # hotbar /\ MovedTo(w, d1, hotbar, target)
    BY <1>0, DumpMoves
  <2> HIDE DEF d1
  <2> QED BY <2>1, <2>2 DEF NotResult
<1>2. d2 = w \/ Sent(d2)
  <2>1. CASE d1.slots[hotbar] = None BY <1>1, <2>1
  <2>2. CASE d1.slots[hotbar] # None
    <3>1. d1 = w
      <4> HIDE DEF d1
      <4> QED BY <1>1, <2>2 DEF MovedTo
    <3> DEFINE u == DumpItem(w, hotbar, layout.inventory_start, hotbar_start - 1, FALSE)
    <3>2. d2 = u
      <4> HIDE DEF d1
      <4> QED BY <2>2, <3>1
    <3>3. \A target \in EmptySlots(w, layout.inventory_start .. (hotbar_start - 1) - 1) :
            target \in WindowSlot /\ target < layout.inventory_end /\ w.slots[target] = None
      BY <1>0 DEF EmptySlots
    <3>4. \/ u = w
          \/ \E target \in EmptySlots(w, layout.inventory_start .. (hotbar_start - 1) - 1) :
               NotResult(target) /\ target # hotbar /\ MovedTo(w, u, hotbar, target)
      BY <1>0, DumpMoves
    <3> HIDE DEF u, d2
    <3> QED BY <3>2, <3>3, <3>4 DEF NotResult
  <2> QED BY <2>1, <2>2
<1>3. ResultToHotbar(w, slot, hotbar)
        = IF d2.slots[hotbar] # None THEN d2
          ELSE FillSlotsWithItem(FillSlotsWithItem(placed, partial, first, FALSE), others, first, FALSE)
  BY Zenon DEF ResultToHotbar
<1> HIDE DEF d1, d2
<1>4. CASE d2.slots[hotbar] # None
  <2>1. d2 = w BY <1>2, <1>4 DEF MovedTo
  <2> QED BY <1>3, <1>4, <2>1, MovesSelf
<1>5. CASE d2.slots[hotbar] = None
  <2>1. PICK target \in WindowSlot :
          /\ target < layout.inventory_end /\ target # slot /\ target # hotbar
          /\ w.slots[target] = None /\ MovedTo(w, d2, hotbar, target)
    BY <1>2, <1>5
  <2>2. d2 \in Holds /\ d2.slots[slot] = w.slots[slot] /\ d2.slots[target] = old BY <2>1 DEF MovedTo, Moves
  <2>3. placed = [slots |-> [[d2.slots EXCEPT ![slot] = d2.slots[hotbar]] EXCEPT ![hotbar] = d2.slots[slot]],
                  cursor |-> d2.cursor]
    <3> PICK x, y : x = None /\ y = w.slots[slot] OBVIOUS
    <3>1. placed = [d2 EXCEPT !.slots[slot] = x, !.slots[hotbar] = y] OBVIOUS
    <3> HIDE DEF placed
    <3>2. placed = [slots |-> [[d2.slots EXCEPT ![slot] = x] EXCEPT ![hotbar] = y], cursor |-> d2.cursor]
      BY <2>2, <3>1 DEF Holds
    <3>3. x = d2.slots[hotbar] /\ y = d2.slots[slot] BY <1>5, <2>2
    <3> QED BY <3>2, <3>3
  <2> HIDE DEF placed
  <2>4. MovedTo(d2, placed, slot, hotbar) BY <1>0, <2>2, <2>3, Exchange
  <2>5. placed \in Holds /\ placed.slots[target] = old BY <2>1, <2>2, <2>4 DEF MovedTo, Moves
  <2>6. target \in F
    <3>1. target \in 0 .. layout.inventory_end - 1 BY <1>0, <2>1 DEF WindowSlot
    <3> QED BY <2>5, <3>1 DEF FindItems
  <2>7. first \in F
    <3>1. F \subseteq Nat BY DEF FindItems, WindowSlot
    <3> HIDE DEF F
    <3> QED BY <2>6, <3>1, MinIsLeast
  <2>8. first \in WindowSlot /\ placed.slots[first] # None /\ placed.slots[first].type_id = old.type_id
    BY <2>7 DEF FindItems
  <2>9. partial \subseteq WindowSlot \ {first}
           /\ \A i \in partial : placed.slots[i] # None /\ placed.slots[i].type_id = placed.slots[first].type_id
    BY <2>8 DEF FindItems
  <2>10. others \subseteq WindowSlot \ {first}
           /\ \A i \in others : placed.slots[i] # None /\ placed.slots[i].type_id = placed.slots[first].type_id
    BY <2>8 DEF FindItems
  <2> HIDE DEF F, first, partial, others
  <2> DEFINE f == FillSlotsWithItem(placed, partial, first, FALSE)
             v == FillSlotsWithItem(f, others, first, FALSE)
  <2>11. Merges(placed, f, partial \cup {first}, first) BY <1>0, <2>5, <2>8, <2>9, FillMerges
  <2> HIDE DEF f
  <2>12. f \in Holds /\ \A i \in others :
           f.slots[i] # None /\ (f.slots[first] # None => f.slots[i].type_id = f.slots[first].type_id)
    <3>1. f \in Holds /\ SameTypeAt(placed, f, first) BY <2>8, <2>11 DEF Merges
    <3>2. ASSUME NEW i \in others
          PROVE  f.slots[i] # None /\ (f.slots[first] # None => f.slots[i].type_id = f.slots[first].type_id)
      <4>1. i \in WindowSlot /\ i # first /\ placed.slots[i] # None
               /\ placed.slots[i].type_id = placed.slots[first].type_id BY <2>10
      <4>2. SameShape(placed, f, i) /\ SameTypeAt(placed, f, i) BY <2>11, <4>1 DEF Merges
      <4> QED BY <2>8, <3>1, <4>1, <4>2 DEF SameShape, SameTypeAt
    <3> QED BY <3>1, <3>2
  <2>13. Merges(f, v, others \cup {first}, first) BY <1>0, <2>8, <2>10, <2>12, FillMerges
  <2> HIDE DEF v
  <2>14. Moves(w, d2, {hotbar, target}) /\ Moves(d2, placed, {slot, hotbar})
           /\ Moves(placed, f, partial \cup {first}) /\ Moves(f, v, others \cup {first})
    BY <2>1, <2>4, <2>11, <2>13, MergesMoves DEF MovedTo
  <2>15. Moves(w, v, WindowSlot)
    <3>1. v \in Holds /\ v.cursor = w.cursor BY <2>14 DEF Moves
    <3>2. \A t : Amounts(v, Of(t)) = Amounts(w, Of(t)) BY <2>14 DEF Moves
    <3> QED BY <3>1, <3>2 DEF Moves
  <2> QED BY <1>3, <1>5, <2>15 DEF f, v
<1> QED BY <1>4, <1>5

LEMMA NumberMoves ==
  ASSUME layout \in Layouts, NEW w \in Holds, NEW slot \in WindowSlot, NEW hotbar \in WindowSlot
  PROVE  Moves(w, NumberClicked(w, slot, hotbar), WindowSlot)
<1> DEFINE isResult == slot = layout.crafting_result_slot
           stays == w.cursor # None \/ slot = hotbar \/ (w.slots[slot] = None /\ isResult)
           exchanged == [w EXCEPT !.slots[slot] = w.slots[hotbar], !.slots[hotbar] = w.slots[slot]]
<1>0. layout.slots \in Nat BY LayoutFacts
<1>1. CASE stays
  <2>1. NumberClicked(w, slot, hotbar) = w BY <1>1, Zenon DEF NumberClicked
  <2> QED BY <2>1, MovesSelf
<1>2. CASE ~stays /\ isResult /\ w.slots[hotbar] # None
  <2>1. NumberClicked(w, slot, hotbar) = ResultToHotbar(w, slot, hotbar) BY <1>2, Zenon DEF NumberClicked
  <2> QED BY <1>2, <2>1, ResultMoves
<1>3. CASE ~stays /\ ~(isResult /\ w.slots[hotbar] # None)
  <2>1. NumberClicked(w, slot, hotbar) = exchanged BY <1>3, Zenon DEF NumberClicked
  <2>2. slot # hotbar BY <1>3
  <2>3. exchanged = [slots |-> [[w.slots EXCEPT ![slot] = w.slots[hotbar]] EXCEPT ![hotbar] = w.slots[slot]],
                     cursor |-> w.cursor]
    <3> PICK x, y : x = w.slots[hotbar] /\ y = w.slots[slot] OBVIOUS
    <3>1. exchanged = [w EXCEPT !.slots[slot] = x, !.slots[hotbar] = y] OBVIOUS
    <3> HIDE DEF exchanged
    <3>2. exchanged = [slots |-> [[w.slots EXCEPT ![slot] = x] EXCEPT ![hotbar] = y], cursor |-> w.cursor]
      BY <3>1 DEF Holds
    <3> QED BY <3>2
  <2> HIDE DEF exchanged
  <2>4. MovedTo(w, exchanged, slot, hotbar) BY <1>0, <2>2, <2>3, Exchange
  <2> QED BY <2>1, <2>4 DEF MovedTo, Moves
<1> QED BY <1>1, <1>2, <1>3

\* What the counts of Window are, of any type and of any kind.
LEMMA HeldIs ==
  ASSUME layout.slots \in Nat, NEW w \in Holds, NEW t
  PROVE  CountOf(w.cursor, t) + Total([i \in WindowSlot |-> CountOf(w.slots[i], t)], layout.slots)
           = Amounts(w, Of(t))
<1>1. \A i \in WindowSlot : CountOf(w.slots[i], t) = Amount(w.slots[i], Of(t)) BY AmountOfType DEF Holds
<1>2. CountOf(w.cursor, t) = Amount(w.cursor, Of(t)) BY AmountOfType DEF Holds
<1>3. [i \in WindowSlot |-> CountOf(w.slots[i], t)] = [i \in WindowSlot |-> Amount(w.slots[i], Of(t))] BY <1>1
<1> QED BY <1>2, <1>3 DEF Amounts

OfKind(k) == {<<k.type_id, k.components>>}

LEMMA HeldOfIs ==
  ASSUME layout.slots \in Nat, NEW w \in Holds, NEW k
  PROVE  CountOfKind(w.cursor, k) + Total([i \in WindowSlot |-> CountOfKind(w.slots[i], k)], layout.slots)
           = Amounts(w, OfKind(k))
<1>1. ASSUME NEW x PROVE CountOfKind(x, k) = Amount(x, OfKind(k)) BY DEF CountOfKind, Amount, OfKind
<1>2. [i \in WindowSlot |-> CountOfKind(w.slots[i], k)] = [i \in WindowSlot |-> Amount(w.slots[i], OfKind(k))] BY <1>1
<1>3. CountOfKind(w.cursor, k) = Amount(w.cursor, OfKind(k)) BY <1>1
<1> QED BY <1>2, <1>3 DEF Amounts

WindowInv == WindowTypeOK /\ ItemsConserved

LEMMA NowIs ==
  ASSUME WindowTypeOK
  PROVE  /\ layout.slots \in Nat /\ Now \in Holds /\ Now.slots = slots /\ Now.cursor = selected_item
         /\ \A t : Held(t) = Amounts(Now, Of(t))
         /\ \A k : HeldOf(k) = Amounts(Now, OfKind(k))
<1>1. layout.slots \in Nat BY LayoutFacts DEF WindowTypeOK
<1>2. Now \in Holds /\ Now.slots = slots /\ Now.cursor = selected_item BY DEF WindowTypeOK, Now, Holds
<1>3. \A t : Held(t) = Amounts(Now, Of(t)) BY <1>1, <1>2, HeldIs DEF Held
<1>4. \A k : HeldOf(k) = Amounts(Now, OfKind(k)) BY <1>1, <1>2, HeldOfIs DEF HeldOf
<1> QED BY <1>1, <1>2, <1>3, <1>4

\* What is held after a step.
LEMMA HeldNext ==
  ASSUME WindowTypeOK, NEW v \in Holds, Becomes(v)
  PROVE  /\ layout' = layout /\ WindowSlot' = WindowSlot
         /\ slots' \in [WindowSlot' -> Stack] /\ selected_item' \in Stack
         /\ \A t : Held(t)' = Amounts(v, Of(t))
         /\ \A k : HeldOf(k)' = Amounts(v, OfKind(k))
<1>1. slots' = v.slots /\ selected_item' = v.cursor /\ layout' = layout BY DEF Becomes
<1>2. WindowSlot' = WindowSlot BY <1>1 DEF WindowSlot
<1>3. layout.slots \in Nat BY NowIs
<1>4. ASSUME NEW t PROVE Held(t)' = Amounts(v, Of(t))
  <2>1. Held(t)' = CountOf(v.cursor, t) + Total([i \in WindowSlot |-> CountOf(v.slots[i], t)], layout.slots)
    BY <1>1, <1>2 DEF Held
  <2> QED BY <2>1, <1>3, HeldIs
<1>5. ASSUME NEW k PROVE HeldOf(k)' = Amounts(v, OfKind(k))
  <2>1. HeldOf(k)' = CountOfKind(v.cursor, k) + Total([i \in WindowSlot |-> CountOfKind(v.slots[i], k)], layout.slots)
    BY <1>1, <1>2 DEF HeldOf
  <2> QED BY <2>1, <1>3, HeldOfIs
<1> QED BY <1>1, <1>2, <1>4, <1>5 DEF Holds

\* A step that supplies as much as it adds.
LEMMA StepConserves ==
  ASSUME WindowInv, NEW v \in Holds, Becomes(v), supply' \in [ItemTypes -> Int],
         \A t \in ItemTypes : supply'[t] = supply[t] + (Amounts(v, Of(t)) - Amounts(Now, Of(t)))
  PROVE  WindowInv'
<1>1. WindowTypeOK' BY HeldNext DEF WindowInv, WindowTypeOK
<1>2. ASSUME NEW t \in ItemTypes PROVE Held(t)' = supply'[t]
  <2>1. Held(t)' = Amounts(v, Of(t)) BY HeldNext DEF WindowInv
  <2>2. Amounts(Now, Of(t)) = supply[t] BY NowIs DEF WindowInv, ItemsConserved
  <2>3. Amounts(v, Of(t)) \in Int BY NowIs, OnlyCursor DEF WindowInv, Holds
  <2>4. supply[t] \in Int BY DEF WindowInv, WindowTypeOK
  <2> QED BY <2>1, <2>2, <2>3, <2>4
<1> QED BY <1>1, <1>2 DEF WindowInv, ItemsConserved

\* A step that keeps what is there.
LEMMA KeepingConserves ==
  ASSUME WindowInv, NEW v \in Holds, Becomes(v), UNCHANGED supply,
         \A t \in ItemTypes : Amounts(v, Of(t)) = Amounts(Now, Of(t))
  PROVE  WindowInv'
<1>1. \A t \in ItemTypes : supply[t] \in Int BY DEF WindowInv, WindowTypeOK
<1>2. \A t \in ItemTypes : Amounts(v, Of(t)) \in Int BY NowIs, OnlyCursor DEF WindowInv, Holds
<1>3. \A t \in ItemTypes : supply'[t] = supply[t] + (Amounts(v, Of(t)) - Amounts(Now, Of(t))) BY <1>1, <1>2
<1>4. supply' \in [ItemTypes -> Int] BY DEF WindowInv, WindowTypeOK
<1> QED BY <1>3, <1>4, StepConserves

LEMMA MouseConserves ==
  ASSUME WindowInv, NEW slot \in WindowSlot, NEW button \in {0, 1}, MouseClick(button, slot)
  PROVE  WindowInv' /\ \A k \in Identity : HeldOf(k)' = HeldOf(k)
<1> DEFINE v == IF button = 0 THEN LeftClick(Now, slot) ELSE RightClick(Now, slot)
<1>1. layout.slots \in Nat /\ Now \in Holds BY NowIs DEF WindowInv
<1>2. ASSUME NEW X PROVE Keeps(Now, v, X)
  <2>1. Keeps(Now, LeftClick(Now, slot), X) BY <1>1, LeftKeeps
  <2>2. Keeps(Now, RightClick(Now, slot), X) BY <1>1, RightKeeps
  <2> QED BY <2>1, <2>2
<1>3. Becomes(v) /\ UNCHANGED supply BY DEF MouseClick
<1> HIDE DEF v
<1>4. v \in Holds /\ \A X : Amounts(v, X) = Amounts(Now, X) BY <1>2 DEF Keeps
<1>5. WindowInv' BY <1>3, <1>4, KeepingConserves
<1>6. ASSUME NEW k \in Identity PROVE HeldOf(k)' = HeldOf(k)
  <2>1. HeldOf(k)' = Amounts(v, OfKind(k)) BY <1>3, <1>4, HeldNext DEF WindowInv
  <2>2. HeldOf(k) = Amounts(Now, OfKind(k)) BY NowIs DEF WindowInv
  <2> QED BY <1>4, <2>1, <2>2
<1> QED BY <1>5, <1>6

\* A step that moves items only.
LEMMA MovingConserves ==
  ASSUME WindowInv, NEW v, NEW R, Moves(Now, v, R), Becomes(v), UNCHANGED supply
  PROVE  WindowInv'
BY KeepingConserves DEF Moves

LEMMA ShiftConserves ==
  ASSUME WindowInv, layout.kind # "minecraft:inventory", NEW slot \in WindowSlot, ShiftClick(slot)
  PROVE  /\ WindowInv'
         /\ \A i \in WindowSlot \ {slot} :
              (i < layout.inventory_start <=> slot < layout.inventory_start) => slots'[i] = slots[i]
<1> DEFINE S == {i \in WindowSlot : OtherSide(i, slot)} \cup {slot}
           v == ShiftedFrom(Now, slot)
<1>1. Now \in Holds /\ layout \in Layouts BY NowIs DEF WindowInv, WindowTypeOK
<1>2. Moves(Now, v, S) BY <1>1, ShiftMoves
<1>3. Becomes(v) /\ UNCHANGED supply
  <2>1. Spilled(slot) = 0 BY DEF Spilled
  <2>2. \A t \in ItemTypes : supply[t] \in Int BY DEF WindowInv, WindowTypeOK
  <2>3. supply' = [t \in ItemTypes |-> supply[t]]
    <3>1. \A t \in ItemTypes :
            (IF CountOf(slots[slot], t) = 0 THEN supply[t] ELSE supply[t] - Spilled(slot)) = supply[t]
      BY <2>1, <2>2
    <3> QED BY <3>1 DEF ShiftClick
  <2>4. supply \in [ItemTypes -> Int] BY DEF WindowInv, WindowTypeOK
  <2> QED BY <2>3, <2>4 DEF ShiftClick
<1>4. \A i : i \in S => i = slot \/ OtherSide(i, slot) OBVIOUS
<1> HIDE DEF v, S
<1>5. WindowInv' BY <1>2, <1>3, MovingConserves
<1>6. slots' = v.slots /\ Now.slots = slots BY <1>3, NowIs DEF Becomes, WindowInv
<1>7. \A i \in WindowSlot : i \notin S => slots'[i] = slots[i] BY <1>2, <1>6 DEF Moves
<1> QED BY <1>4, <1>5, <1>7 DEF OtherSide

LEMMA NumberConserves ==
  ASSUME WindowInv, NEW slot \in WindowSlot, NEW key \in 0 .. HotbarSize - 1, NumberClick(key, slot)
  PROVE  WindowInv'
<1>1. Now \in Holds /\ layout \in Layouts BY NowIs DEF WindowInv, WindowTypeOK
<1>2. hotbar_start + key \in WindowSlot BY <1>1, LayoutFacts DEF WindowSlot
<1>3. Moves(Now, NumberClicked(Now, slot, hotbar_start + key), WindowSlot) BY <1>1, <1>2, NumberMoves
<1> QED BY <1>3, MovingConserves DEF NumberClick

\* What the cursor may become, and what that supplies.
LEMMA CursorConserves ==
  ASSUME WindowInv, NEW y \in Stack, NEW v, v = [Now EXCEPT !.cursor = y], Becomes(v),
         supply' \in [ItemTypes -> Int],
         \A t \in ItemTypes : supply'[t] = supply[t] + (CountOf(y, t) - CountOf(selected_item, t))
  PROVE  WindowInv'
<1>1. layout.slots \in Nat /\ Now \in Holds /\ Now.cursor = selected_item /\ selected_item \in Stack
  BY NowIs DEF WindowInv, WindowTypeOK
<1>2. v \in Holds BY <1>1, OnlyCursor
<1>3. ASSUME NEW t \in ItemTypes PROVE supply'[t] = supply[t] + (Amounts(v, Of(t)) - Amounts(Now, Of(t)))
  <2>1. Amounts(Now, Of(t)) \in Int /\ Amounts(v, Of(t)) = Amounts(Now, Of(t)) + (Amount(y, Of(t)) - Amount(Now.cursor, Of(t)))
    BY <1>1, OnlyCursor
  <2>2. Amount(y, Of(t)) = CountOf(y, t) /\ Amount(Now.cursor, Of(t)) = CountOf(selected_item, t) BY <1>1, AmountOfType
  <2>3. Amount(y, Of(t)) \in Int /\ Amount(Now.cursor, Of(t)) \in Int BY <1>1, AmountIs
  <2>4. supply[t] \in Int BY DEF WindowInv, WindowTypeOK
  <2> QED BY <2>1, <2>2, <2>3, <2>4
<1> QED BY <1>2, <1>3, StepConserves

\* v is w but for one slot, which holds x.
OneSlot(w, v, i, x) == v = [slots |-> [w.slots EXCEPT ![i] = x], cursor |-> w.cursor]

LEMMA OnlySlot ==
  ASSUME layout.slots \in Nat, NEW w \in Holds, NEW i \in WindowSlot, NEW x \in Stack, NEW X,
         NEW v, OneSlot(w, v, i, x)
  PROVE  /\ v \in Holds
         /\ Amounts(w, X) \in Int
         /\ Amounts(v, X) = Amounts(w, X) + (Amount(x, X) - Amount(w.slots[i], X))
<1>1. w.cursor \in Stack BY DEF Holds
<1>2. /\ v \in Holds /\ Amounts(w, X) \in Int
      /\ Amounts(v, X) = Amounts(w, X) + (Amount(x, X) - Amount(w.slots[i], X)) + (Amount(w.cursor, X) - Amount(w.cursor, X))
  BY <1>1, SlotAndCursor DEF OneSlot
<1>3. Amount(w.cursor, X) \in Int /\ Amount(x, X) \in Int /\ Amount(w.slots[i], X) \in Int BY <1>1, AmountIs DEF Holds
<1> QED BY <1>2, <1>3

\* What one slot may become, and what that supplies.
LEMMA SlotConserves ==
  ASSUME WindowInv, NEW slot \in WindowSlot, NEW x \in Stack, NEW v, v = [Now EXCEPT !.slots[slot] = x], Becomes(v),
         supply' \in [ItemTypes -> Int],
         \A t \in ItemTypes : supply'[t] = supply[t] + (CountOf(x, t) - CountOf(slots[slot], t))
  PROVE  WindowInv'
<1>1. layout.slots \in Nat /\ Now \in Holds /\ Now.cursor = selected_item /\ selected_item \in Stack
         /\ Now.slots = slots /\ slots[slot] \in Stack
  BY NowIs DEF WindowInv, WindowTypeOK
<1>2. OneSlot(Now, v, slot, x) BY <1>1 DEF Now, OneSlot
<1>3. v \in Holds BY <1>1, <1>2, OnlySlot
<1>4. ASSUME NEW t \in ItemTypes PROVE supply'[t] = supply[t] + (Amounts(v, Of(t)) - Amounts(Now, Of(t)))
  <2>1. Amounts(Now, Of(t)) \in Int
        /\ Amounts(v, Of(t)) = Amounts(Now, Of(t)) + (Amount(x, Of(t)) - Amount(slots[slot], Of(t)))
    BY <1>1, <1>2, OnlySlot
  <2>2. Amount(x, Of(t)) = CountOf(x, t) /\ Amount(slots[slot], Of(t)) = CountOf(slots[slot], t) BY <1>1, AmountOfType
  <2>3. Amount(x, Of(t)) \in Int /\ Amount(slots[slot], Of(t)) \in Int /\ Amount(selected_item, Of(t)) \in Int BY <1>1, AmountIs
  <2>4. supply[t] \in Int BY DEF WindowInv, WindowTypeOK
  <2> QED BY <2>1, <2>2, <2>3, <2>4
<1> QED BY <1>3, <1>4, StepConserves

LEMMA CountIs == ASSUME NEW x \in Stack, NEW t PROVE CountOf(x, t) \in Nat
BY AmountIs, AmountOfType

\* The counts of one more or one less.
LEMMA OutsideConserves ==
  ASSUME WindowInv, NEW button \in {0, 1}, ClickOutside(button)
  PROVE  WindowInv'
<1> DEFINE w == Now
           lost == IF button = 0 THEN selected_item ELSE WithCount(selected_item, 1)
           v == DropSelected(w, button = 0)
           y == v.cursor
<1>1. w \in Holds /\ w.cursor = selected_item /\ selected_item \in Stack /\ selected_item # None
  BY NowIs DEF WindowInv, WindowTypeOK, ClickOutside
<1>2. selected_item.count \in 1 .. Size(selected_item) /\ Size(selected_item) \in 1 .. 64 BY <1>1, StackShape
<1>3. Becomes(v) /\ Supply(None, lost) BY DEF ClickOutside
<1>4. lost \in Stack /\ y \in Stack /\ v = [w EXCEPT !.cursor = y]
        /\ \A t : CountOf(y, t) = CountOf(selected_item, t) - CountOf(lost, t)
  <2>1. CASE button = 0 \/ selected_item.count = 1
    <3>1. v = [w EXCEPT !.cursor = None] BY <1>1, <2>1 DEF DropSelected
    <3>2. y = None BY <1>1, <3>1 DEF Holds
    <3>3. lost = selected_item
      <4>1. CASE button = 0 BY <4>1
      <4>2. CASE button # 0
        <5>1. selected_item.count = 1 BY <2>1, <4>2
        <5>2. selected_item = [type_id |-> selected_item.type_id, components |-> selected_item.components,
                               count |-> selected_item.count] BY <1>1, StackShape
        <5>3. WithCount(selected_item, 1) = selected_item BY <5>1, <5>2 DEF WithCount
        <5> QED BY <4>2, <5>3
      <4> QED BY <4>1, <4>2
    <3>4. \A t : CountOf(None, t) = 0 /\ CountOf(selected_item, t) \in Nat BY <1>1, CountIs DEF CountOf
    <3> HIDE DEF v, lost, y
    <3> QED BY <1>1, <3>1, <3>2, <3>3, <3>4 DEF Stack
  <2>2. CASE button # 0 /\ selected_item.count # 1
    <3> DEFINE n == selected_item.count - 1
               x == WithCount(selected_item, n)
    <3>1. n \in 1 .. Size(selected_item) /\ n + 1 = selected_item.count /\ 1 \in 1 .. Size(selected_item) BY <1>2, <2>2
    <3>2. v = [w EXCEPT !.cursor.count = @ - 1] BY <1>1, <2>2 DEF DropSelected
    <3>3. x = [selected_item EXCEPT !.count = @ - 1]
      <4>1. selected_item = [type_id |-> selected_item.type_id, components |-> selected_item.components,
                             count |-> selected_item.count] BY <1>1, StackShape
      <4> QED BY <4>1 DEF WithCount
    <3>4. v = [w EXCEPT !.cursor = x] BY <1>1, <3>2, <3>3 DEF Holds
    <3>5. y = x BY <1>1, <3>4 DEF Holds
    <3>6. lost = WithCount(selected_item, 1) BY <2>2
    <3> HIDE DEF n
    <3>7. /\ x \in Stack /\ x # None /\ x.type_id = selected_item.type_id /\ x.count = n
      BY <1>1, <3>1, OtherCount
    <3> HIDE DEF v, lost, y, x
    <3>8. /\ lost \in Stack /\ lost # None /\ lost.type_id = selected_item.type_id /\ lost.count = 1
      BY <1>1, <3>1, <3>6, OtherCount
    <3>9. \A t : CountOf(x, t) = CountOf(selected_item, t) - CountOf(lost, t)
      <4>1. n \in Int /\ selected_item.count - 1 = n BY <1>2, <3>1
      <4> QED BY <1>1, <3>7, <3>8, <4>1 DEF CountOf
    <3> QED BY <3>4, <3>5, <3>7, <3>8, <3>9
  <2> QED BY <2>1, <2>2
<1> HIDE DEF v, lost, y
<1>5. supply' \in [ItemTypes -> Int] /\ \A t \in ItemTypes : supply'[t] = supply[t] + (CountOf(y, t) - CountOf(selected_item, t))
  <2>1. \A t : CountOf(None, t) = 0 BY DEF CountOf
  <2>2. \A t \in ItemTypes : supply[t] \in Int /\ CountOf(lost, t) \in Int /\ CountOf(selected_item, t) \in Int
    BY <1>1, <1>4, CountIs DEF WindowInv, WindowTypeOK
  <2>3. supply' = [t \in ItemTypes |-> supply[t] + CountOf(None, t) - CountOf(lost, t)] BY <1>3 DEF Supply
  <2>4. \A t \in ItemTypes : supply[t] + CountOf(None, t) - CountOf(lost, t) = supply[t] - CountOf(lost, t)
    BY <2>1, <2>2
  <2>5. \A t \in ItemTypes : supply[t] + CountOf(None, t) - CountOf(lost, t) \in Int BY <2>2, <2>4
  <2>6. \A t \in ItemTypes : supply'[t] = supply[t] + (CountOf(y, t) - CountOf(selected_item, t))
    BY <1>4, <2>2, <2>3, <2>4
  <2> QED BY <2>3, <2>5, <2>6
<1> QED BY <1>3, <1>4, <1>5, CursorConserves

LEMMA SupplyIs ==
  ASSUME WindowInv, NEW more \in Stack, NEW less \in Stack, Supply(more, less)
  PROVE  /\ supply' \in [ItemTypes -> Int]
         /\ \A t \in ItemTypes : supply'[t] = supply[t] + (CountOf(more, t) - CountOf(less, t))
<1>1. \A t \in ItemTypes : supply[t] \in Int /\ CountOf(more, t) \in Int /\ CountOf(less, t) \in Int
  BY CountIs DEF WindowInv, WindowTypeOK
<1>2. supply' = [t \in ItemTypes |-> supply[t] + CountOf(more, t) - CountOf(less, t)] BY DEF Supply
<1>3. \A t \in ItemTypes : supply[t] + CountOf(more, t) - CountOf(less, t) = supply[t] + (CountOf(more, t) - CountOf(less, t))
  BY <1>1
<1>4. \A t \in ItemTypes : supply[t] + CountOf(more, t) - CountOf(less, t) \in Int BY <1>1
<1> QED BY <1>2, <1>3, <1>4

LEMMA MiddleConserves ==
  ASSUME WindowInv, NEW slot \in WindowSlot, MiddleClick(slot)
  PROVE  WindowInv'
<1> DEFINE stack == WithCount(slots[slot], StackSize[slots[slot].type_id])
           v == [Now EXCEPT !.cursor = stack]
<1>1. slots[slot] \in Stack /\ slots[slot] # None /\ selected_item = None /\ None \in Stack
  BY DEF WindowInv, WindowTypeOK, MiddleClick, Stack
<1>2. stack \in Stack
  <2>1. Size(slots[slot]) \in 1 .. Size(slots[slot]) BY <1>1, StackShape
  <2>2. stack = WithCount(slots[slot], Size(slots[slot])) BY DEF Size
  <2> QED BY <1>1, <2>1, <2>2, OtherCount
<1>3. Becomes(v) /\ Supply(stack, None) BY DEF MiddleClick
<1> HIDE DEF stack
<1>4. /\ supply' \in [ItemTypes -> Int]
      /\ \A t \in ItemTypes : supply'[t] = supply[t] + (CountOf(stack, t) - CountOf(selected_item, t))
  BY <1>1, <1>2, <1>3, SupplyIs
<1>5. v = [Now EXCEPT !.cursor = stack] OBVIOUS
<1> HIDE DEF v
<1> QED BY <1>2, <1>3, <1>4, <1>5, CursorConserves

LEMMA UpdateConserves ==
  ASSUME WindowInv, NEW slot \in WindowSlot, NEW x \in Stack, UpdateSlot(slot, x)
  PROVE  WindowInv'
<1> DEFINE v == [Now EXCEPT !.slots[slot] = x]
<1>1. slots[slot] \in Stack BY DEF WindowInv, WindowTypeOK
<1>2. Becomes(v) /\ Supply(x, slots[slot]) BY DEF UpdateSlot
<1>3. /\ supply' \in [ItemTypes -> Int]
      /\ \A t \in ItemTypes : supply'[t] = supply[t] + (CountOf(x, t) - CountOf(slots[slot], t))
  BY <1>1, <1>2, SupplyIs
<1>4. v = [Now EXCEPT !.slots[slot] = x] OBVIOUS
<1> HIDE DEF v
<1> QED BY <1>2, <1>3, <1>4, SlotConserves

LEMMA DropConserves ==
  ASSUME WindowInv, NEW slot \in WindowSlot, NEW button \in {0, 1}, DropClick(button, slot)
  PROVE  WindowInv'
<1> DEFINE v == DropClicked(Now, button, slot)
           stays == Now.cursor # None \/ Now.slots[slot] = None
           x == slots'[slot]
           rest == IF button = 0 THEN slots[slot].count - 1 ELSE 0
           left == IF rest = 0 THEN None ELSE WithCount(slots[slot], rest)
<1>1. Now \in Holds /\ Now.slots = slots /\ Now.cursor = selected_item /\ slots[slot] \in Stack
        /\ slots \in [WindowSlot -> Stack]
  BY NowIs DEF WindowInv, WindowTypeOK
<1>2. /\ Becomes(v)
      /\ supply' = [t \in ItemTypes |-> supply[t] - CountOf(slots[slot], t) + CountOf(slots'[slot], t)]
  BY DEF DropClick
<1>3. slots' = v.slots BY <1>2 DEF Becomes
<1>4. x \in Stack /\ v = [Now EXCEPT !.slots[slot] = x]
  <2>1. CASE stays
    <3>1. v = Now BY <2>1, Zenon DEF DropClicked
    <3>2. x = slots[slot] BY <1>1, <1>3, <3>1
    <3> HIDE DEF v, x
    <3>3. Now = [Now EXCEPT !.slots[slot] = x] BY <1>1, <3>2 DEF Holds
    <3> QED BY <1>1, <3>1, <3>2, <3>3
  <2>2. CASE ~stays
    <3>1. v = [Now EXCEPT !.slots[slot] = left] BY <1>1, <2>2 DEF DropClicked
    <3>2. x = left
      <4> HIDE DEF v, left
      <4> QED BY <1>1, <1>3, <3>1 DEF Holds
    <3>3. left \in Stack
      <4>1. slots[slot] # None BY <1>1, <2>2
      <4>2. slots[slot].count \in 1 .. Size(slots[slot]) /\ Size(slots[slot]) \in 1 .. 64 BY <1>1, <4>1, StackShape
      <4>3. CASE rest = 0 BY <4>3 DEF Stack
      <4>4. CASE rest # 0
        <5>1. rest \in 1 .. Size(slots[slot]) BY <4>2, <4>4
        <5>2. left = WithCount(slots[slot], rest) BY <4>4
        <5> HIDE DEF rest, left
        <5> QED BY <1>1, <4>1, <5>1, <5>2, OtherCount
      <4> QED BY <4>3, <4>4
    <3> HIDE DEF v, x, left
    <3> QED BY <3>1, <3>2, <3>3
  <2> QED BY <2>1, <2>2
<1>5. \A t \in ItemTypes : supply[t] \in Int /\ CountOf(x, t) \in Int /\ CountOf(slots[slot], t) \in Int
  BY <1>1, <1>4, CountIs DEF WindowInv, WindowTypeOK
<1>6. supply' = [t \in ItemTypes |-> supply[t] - CountOf(slots[slot], t) + CountOf(x, t)] BY <1>2
<1> HIDE DEF v, x
<1>7. \A t \in ItemTypes : supply[t] - CountOf(slots[slot], t) + CountOf(x, t) = supply[t] + (CountOf(x, t) - CountOf(slots[slot], t))
  BY <1>5
<1>8. \A t \in ItemTypes : supply[t] - CountOf(slots[slot], t) + CountOf(x, t) \in Int BY <1>5
<1>9. supply' \in [ItemTypes -> Int]
        /\ \A t \in ItemTypes : supply'[t] = supply[t] + (CountOf(x, t) - CountOf(slots[slot], t))
  BY <1>6, <1>7, <1>8
<1> QED BY <1>2, <1>4, <1>9, SlotConserves

\* In the player's own window the range of a shift click may hold the clicked
\* slot itself, which spills items; every other window of window_types is one
\* of these.
Containers == \A l \in Layouts : l.kind # "minecraft:inventory"

LEMMA WindowStarts == WindowInit => WindowInv
<1> SUFFICES ASSUME WindowInit PROVE WindowInv OBVIOUS
<1>1. None \in Stack BY DEF Stack
<1>2. WindowTypeOK BY <1>1 DEF WindowInit, WindowTypeOK
<1>3. ASSUME NEW t \in ItemTypes PROVE Held(t) = supply[t]
  <2> DEFINE f == [i \in WindowSlot |-> CountOf(slots[i], t)]
  <2>1. layout.slots \in Nat BY <1>2, NowIs
  <2>2. CountOf(None, t) = 0 BY DEF CountOf
  <2>3. f \in [WindowSlot -> Int] /\ \A i \in WindowSlot : f[i] = 0 BY <2>2 DEF WindowInit
  <2>4. Held(t) = 0 + Total(f, layout.slots) BY <2>2 DEF Held, WindowInit
  <2> HIDE DEF f
  <2>5. Total(f, layout.slots) = 0 BY <2>1, <2>3, TotalOfNothing
  <2>6. supply[t] = 0 BY DEF WindowInit
  <2> QED BY <2>4, <2>5, <2>6
<1> QED BY <1>2, <1>3 DEF WindowInv, ItemsConserved

LEMMA WindowSteps ==
  ASSUME Containers, WindowInv, [WindowNext]_windowVars
  PROVE  WindowInv'
<1>0. layout.kind # "minecraft:inventory" BY DEF Containers, WindowInv, WindowTypeOK
<1>1. ASSUME NEW slot \in WindowSlot, NEW button \in {0, 1}, MouseClick(button, slot) PROVE WindowInv'
  BY <1>1, MouseConserves
<1>2. ASSUME NEW button \in {0, 1}, ClickOutside(button) PROVE WindowInv' BY <1>2, OutsideConserves
<1>3. ASSUME NEW slot \in WindowSlot, ShiftClick(slot) PROVE WindowInv' BY <1>0, <1>3, ShiftConserves
<1>4. ASSUME NEW slot \in WindowSlot, NEW key \in 0 .. HotbarSize - 1, NumberClick(key, slot) PROVE WindowInv'
  BY <1>4, NumberConserves
<1>5. ASSUME NEW slot \in WindowSlot, MiddleClick(slot) PROVE WindowInv' BY <1>5, MiddleConserves
<1>6. ASSUME NEW slot \in WindowSlot, NEW button \in {0, 1}, DropClick(button, slot) PROVE WindowInv'
  BY <1>6, DropConserves
<1>7. ASSUME NEW slot \in WindowSlot, NEW item \in Stack, UpdateSlot(slot, item) PROVE WindowInv'
  BY <1>7, UpdateConserves
<1>8. CASE UNCHANGED windowVars
  <2>1. layout' = layout /\ slots' = slots /\ selected_item' = selected_item /\ supply' = supply
    BY <1>8 DEF windowVars
  <2>2. Becomes(Now) BY <2>1 DEF Becomes, Now
  <2>3. Now \in Holds BY NowIs DEF WindowInv
  <2> QED BY <2>1, <2>2, <2>3, KeepingConserves
<1> QED BY <1>1, <1>2, <1>3, <1>4, <1>5, <1>6, <1>7, <1>8 DEF WindowNext

\* inventory.rs 39: whatever sequence of clicks is predicted in a container
\* window, of whatever layout, and whatever the server puts into it, no item
\* is lost and none is invented.
THEOREM ClicksConserveItems == Containers => (WindowSpec => []ItemsConserved)
<1>1. WindowInv => ItemsConserved BY DEF WindowInv
<1>2. ASSUME Containers PROVE WindowSpec => []ItemsConserved
  <2>1. WindowInv /\ [WindowNext]_windowVars => WindowInv' BY <1>2, WindowSteps
  <2> QED BY <1>1, <2>1, WindowStarts, PTL DEF WindowSpec
<1> QED BY <1>2

\* window.rs: no stack is larger than its type allows, and none is of nothing.
THEOREM WindowStacks == Containers => (WindowSpec => []WindowTypeOK)
<1>1. WindowInv => WindowTypeOK BY DEF WindowInv
<1>2. ASSUME Containers PROVE WindowSpec => []WindowTypeOK
  <2>1. WindowInv /\ [WindowNext]_windowVars => WindowInv' BY <1>2, WindowSteps
  <2> QED BY <1>1, <2>1, WindowStarts, PTL DEF WindowSpec
<1> QED BY <1>2

\* window.rs 261: the mouse merges only what agrees in its components, so
\* that the numbers per type and components stay.
THEOREM ComponentsAreKept == Containers => (WindowSpec => MouseClicksKeepComponents)
<1> DEFINE A == (\E slot \in WindowSlot, button \in {0, 1} : MouseClick(button, slot))
                   => \A k \in Identity : HeldOf(k)' = HeldOf(k)
<1>1. WindowInv => A BY MouseConserves
<1>2. ASSUME Containers PROVE WindowSpec => MouseClicksKeepComponents
  <2>1. WindowInv /\ [WindowNext]_windowVars => WindowInv' BY <1>2, WindowSteps
  <2> QED BY <1>1, <2>1, WindowStarts, PTL DEF WindowSpec, MouseClicksKeepComponents
<1> QED BY <1>2

\* window.rs 324: a shift click in a container moves to the other side; the
\* rest of its own side stays as it is.
THEOREM ShiftClicksCross == Containers => (WindowSpec => ShiftClickCrosses)
<1> DEFINE A == \A slot \in WindowSlot : ShiftClick(slot) =>
                  \A i \in Beside(slot) : slots'[i] = slots[i]
<1>1. ASSUME Containers PROVE WindowInv => A
  <2>1. WindowInv => layout.kind # "minecraft:inventory" BY <1>1 DEF Containers, WindowInv, WindowTypeOK
  <2>2. ASSUME WindowInv, NEW slot \in WindowSlot, NEW i \in Beside(slot)
        PROVE  /\ i \in WindowSlot \ {slot}
               /\ i < layout.inventory_start <=> slot < layout.inventory_start
    BY <2>1, <2>2 DEF Beside
  <2> QED BY <2>1, <2>2, ShiftConserves
<1>2. ASSUME Containers PROVE WindowSpec => ShiftClickCrosses
  <2>1. WindowInv /\ [WindowNext]_windowVars => WindowInv' BY <1>2, WindowSteps
  <2>2. WindowInv => A BY <1>1, <1>2
  <2> QED BY <2>1, <2>2, WindowStarts, PTL DEF WindowSpec, ShiftClickCrosses
<1> QED BY <1>2
==============================================================================
