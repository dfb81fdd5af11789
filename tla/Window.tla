-------------------------------- MODULE Window --------------------------------
(***************************************************************************)
(* window.rs: an inventory window and the simulation of the clicks a       *)
(* player can make in it.  The bot shows the server the result of the      *)
(* simulation as its prediction, so what it loses or invents is lost or    *)
(* invented in the bot's idea of its inventory.                            *)
(*                                                                         *)
(* The click handlers are operators on w = [slots, cursor], composed in    *)
(* the order of the code.                                                  *)
(***************************************************************************)
EXTENDS Items

CONSTANTS
  Layouts,      \* the layouts of window_types the window may have
  HotbarSize,   \* 9 in the code
  MaxSupply     \* per type, bound on the items put into the window

ASSUME HotbarAssumption == HotbarSize \in Nat
ASSUME LayoutsAssumption ==
  \A l \in Layouts :
    /\ l.slots \in Nat /\ l.inventory_start \in Nat /\ l.inventory_end \in Nat
    /\ l.inventory_start + HotbarSize < l.inventory_end
    /\ l.inventory_end <= l.slots
    /\ l.crafting_result_slot \in -1 .. l.inventory_start - 1
ASSUME MaxSupplyAssumption == MaxSupply \in [ItemTypes -> Nat]

VARIABLES
  layout,          \* kind, inventory_start, inventory_end (exclusive),
                   \* slots and crafting_result_slot of struct Window
  slots,
  selected_item,   \* the cursor
  supply           \* history: what the server and creative mode put in, less
                   \* what was thrown out again and what shift clicks spill,
                   \* per type

windowVars == <<layout, slots, selected_item, supply>>

WindowSlot == 0 .. layout.slots - 1
hotbar_start == layout.inventory_end - HotbarSize

Now == [slots |-> slots, cursor |-> selected_item]

WindowInit ==
  /\ layout \in Layouts
  /\ slots = [i \in WindowSlot |-> None]
  /\ selected_item = None
  /\ supply = [t \in ItemTypes |-> 0]

-----------------------------------------------------------------------------
(* Searches.                                                               *)

\* find_items_range: with nbt None any components match.
FindItems(w, start, end, type, not_full) ==
  {i \in (start .. end - 1) \cap WindowSlot :
     /\ w.slots[i] # None
     /\ w.slots[i].type_id = type
     /\ not_full => ~Full(w.slots[i])}

NotResult(i) == i # layout.crafting_result_slot

EmptySlots(w, S) == {i \in S \cap WindowSlot : w.slots[i] = None}

-----------------------------------------------------------------------------
(* Fill and dump.                                                          *)

\* Mutant of FillSlotWithItem: what does not fit is not left behind.
FillSlotLosingRest(w, fill, take) ==
  IF None \in {w.slots[fill], w.slots[take]} THEN w
  ELSE LET into == w.slots[fill]
           room == StackSize[into.type_id] - into.count
           moved == Min({room, w.slots[take].count})
       IN  [w EXCEPT !.slots[fill] = WithCount(into, into.count + moved),
                     !.slots[take] = None]

\* fill_slot_with_item: pour one stack onto another, as far as it goes.
FillSlotWithItem(w, fill, take) ==
  IF None \in {w.slots[fill], w.slots[take]} THEN w
  ELSE LET into == w.slots[fill]
           from == w.slots[take]
           size == StackSize[into.type_id]
           leftover == into.count + from.count - size
       IN  IF leftover <= 0
           THEN [w EXCEPT !.slots[fill] = WithCount(into, into.count + from.count),
                          !.slots[take] = None]
           ELSE [w EXCEPT !.slots[fill] = WithCount(into, size),
                          !.slots[take] = WithCount(from, leftover)]

\* fill_slots_with_item: the targets from the lowest slot to the highest,
\* or from the highest to the lowest.
FillSlotsWithItem(w, targets, source, last_to_first) ==
  LET Looked(k) == IF last_to_first THEN layout.slots - k ELSE k - 1
      filled[k \in 0 .. layout.slots] ==
        IF k = 0 THEN w
        ELSE IF Looked(k) \in targets THEN FillSlotWithItem(filled[k - 1], Looked(k), source)
        ELSE filled[k - 1]
  IN  filled[layout.slots]

\* dump_item: to the first empty slot, or to the last one of a range that
\* includes its end; nothing is ever dumped onto the crafting result.
DumpItem(w, source, start, end, last_to_first) ==
  LET empty == EmptySlots(w, start .. IF last_to_first THEN end ELSE end - 1)
      target == IF last_to_first THEN Max(empty) ELSE Min(empty)
  IN  IF empty # {} /\ NotResult(target)
      THEN [w EXCEPT !.slots[target] = w.slots[source], !.slots[source] = None]
      ELSE w

FillAndDump(w, source, start, end, last_to_first) ==
  LET matching == {i \in FindItems(w, start, end, w.slots[source].type_id, TRUE) : NotResult(i)}
      filled == FillSlotsWithItem(w, matching, source, last_to_first)
  IN  IF filled.slots[source] = None THEN filled
      ELSE DumpItem(filled, source, start, end, last_to_first)

-----------------------------------------------------------------------------
(* The cursor.                                                             *)

\* Mutant of FillWithSelected: a stack that is full takes one more.
FillWithSelectedOver(w, slot, until_full) ==
  LET into == w.slots[slot]
      moved == IF until_full THEN w.cursor.count ELSE 1
      rest == w.cursor.count - moved
  IN  [slots |-> [w.slots EXCEPT ![slot] = WithCount(into, into.count + moved)],
       cursor |-> IF rest = 0 THEN None ELSE WithCount(w.cursor, rest)]

\* fill_slot_with_selected_item: all of the cursor as far as it goes, or one.
FillWithSelected(w, slot, until_full) ==
  LET into == w.slots[slot]
      room == StackSize[into.type_id] - into.count
      moved == Min({room, IF until_full THEN w.cursor.count ELSE 1})
      rest == w.cursor.count - moved
  IN  [slots |-> [w.slots EXCEPT ![slot] = WithCount(into, into.count + moved)],
       cursor |-> IF rest = 0 THEN None ELSE WithCount(w.cursor, rest)]

\* The crafting result is taken, never filled.
TakeResult(w, slot) ==
  LET item == w.slots[slot]
      moved == Min({item.count, StackSize[item.type_id] - w.cursor.count})
      rest == item.count - moved
  IN  [slots |-> [w.slots EXCEPT ![slot] = IF rest = 0 THEN None ELSE WithCount(item, rest)],
       cursor |-> WithCount(w.cursor, w.cursor.count + moved)]

\* Mutant of SplitSlot: both halves of an odd stack are rounded up.
SplitSlotUp(w, slot) ==
  LET half == (w.slots[slot].count + 1) \div 2
  IN  [slots |-> [w.slots EXCEPT ![slot] = WithCount(@, half)],
       cursor |-> WithCount(w.slots[slot], half)]

\* split_slot: the cursor takes the larger half.
SplitSlot(w, slot) ==
  LET item == w.slots[slot]
      taken == (item.count + 1) \div 2
      rest == item.count - taken
  IN  [slots |-> [w.slots EXCEPT ![slot] = IF rest = 0 THEN None ELSE WithCount(item, rest)],
       cursor |-> WithCount(item, taken)]

SwapSelected(w, slot) ==
  [slots |-> [w.slots EXCEPT ![slot] = w.cursor], cursor |-> w.slots[slot]]

\* drop_selected_item; until_empty is FALSE for any but the left button.
DropSelected(w, until_empty) ==
  IF w.cursor = None \/ until_empty \/ w.cursor.count = 1 THEN [w EXCEPT !.cursor = None]
  ELSE [w EXCEPT !.cursor.count = @ - 1]

-----------------------------------------------------------------------------
(* mouse_click, shift_click, number_click, middle_click and drop_click.    *)

LeftClick(w, slot) ==
  LET item == w.slots[slot]
  IN  IF None \in {item, w.cursor} \/ ~ItemsEqual(item, w.cursor) THEN SwapSelected(w, slot)
      ELSE IF NotResult(slot) THEN FillWithSelected(w, slot, TRUE)
      ELSE TakeResult(w, slot)

\* One item of the cursor is put on an empty slot as onto a stack of none.
RightClick(w, slot) ==
  LET item == w.slots[slot]
      none == [w EXCEPT !.slots[slot] = WithCount(w.cursor, 0)]
  IN  IF w.cursor # None
      THEN IF item = None THEN FillWithSelected(none, slot, FALSE)
           ELSE IF ItemsEqual(item, w.cursor) THEN FillWithSelected(w, slot, FALSE)
           ELSE SwapSelected(w, slot)
      ELSE IF item # None /\ NotResult(slot) THEN SplitSlot(w, slot)
      ELSE w

\* The sum of what f says of each of the first n slots.
Total(f, n) ==
  LET sum[i \in 0 .. n] == IF i = 0 THEN 0 ELSE sum[i - 1] + f[i - 1]
  IN  sum[n]

\* Where shift_click sends the item of a slot: start, end, last_to_first.
ShiftTarget(slot) ==
  LET start == layout.inventory_start
      end == layout.inventory_end
      isResult == slot = layout.crafting_result_slot
  IN  IF layout.kind = "minecraft:inventory"
      THEN IF slot < start THEN <<start, end, isResult>>
           ELSE IF slot < end - (HotbarSize + 1) THEN <<hotbar_start, end, FALSE>>
           ELSE <<start, end, FALSE>>
      ELSE IF slot < start
           THEN <<start, end, layout.crafting_result_slot = -1 \/ isResult>>
           ELSE <<0, start - 1, FALSE>>

\* Mutant of ShiftedFrom: the empty slot may be one of the clicked section.
ShiftedAnywhere(w, slot) ==
  IF w.slots[slot] = None THEN w
  ELSE FillAndDump(w, slot, 0, layout.inventory_end, FALSE)

ShiftedFrom(w, slot) ==
  IF w.slots[slot] = None THEN w
  ELSE LET target == ShiftTarget(slot)
       IN  FillAndDump(w, slot, target[1], target[2], target[3])

\* The crafting result goes to an occupied hotbar slot: what is there is
\* dumped elsewhere, and the stacks of its type are then filled from the
\* first of them there is, wherever it is.
ResultToHotbar(w, slot, hotbar) ==
  LET old == w.slots[hotbar]
      d1 == DumpItem(w, hotbar, hotbar_start, layout.inventory_end, FALSE)
      d2 == IF d1.slots[hotbar] = None THEN d1
            ELSE DumpItem(d1, hotbar, layout.inventory_start, hotbar_start - 1, FALSE)
      placed == [d2 EXCEPT !.slots[slot] = None, !.slots[hotbar] = w.slots[slot]]
      first == Min(FindItems(placed, 0, layout.inventory_end, old.type_id, FALSE))
      partial == FindItems(placed, hotbar_start, layout.inventory_end, old.type_id, TRUE) \ {first}
      others == FindItems(placed, layout.inventory_start, hotbar_start - 1, old.type_id, TRUE) \ {first}
  IN  IF d2.slots[hotbar] # None THEN d2
      ELSE FillSlotsWithItem(FillSlotsWithItem(placed, partial, first, FALSE), others, first, FALSE)

\* number_click: exchange with a hotbar slot.
NumberClicked(w, slot, hotbar) ==
  LET item == w.slots[slot]
      isResult == slot = layout.crafting_result_slot
      exchanged == [w EXCEPT !.slots[slot] = w.slots[hotbar], !.slots[hotbar] = item]
  IN  IF w.cursor # None \/ slot = hotbar \/ (item = None /\ isResult) THEN w
      ELSE IF isResult /\ w.slots[hotbar] # None THEN ResultToHotbar(w, slot, hotbar)
      ELSE exchanged

\* In the player's own window a slot of the hotbar, and the last one of the
\* main section (the comparison is with inventory_end - 10), is sent to a
\* range that it is in itself.  What the stacks before it have no room for
\* is poured onto itself, and fill_slot_with_item then clears or overwrites
\* the stack that it has just filled: that much is lost.
Spilled(slot) ==
  LET item == slots[slot]
      range == FindItems(Now, layout.inventory_start, layout.inventory_end, item.type_id, TRUE)
      size == StackSize[item.type_id]
      room == Total([i \in WindowSlot |->
                       IF i \in range /\ i < slot THEN size - slots[i].count ELSE 0], layout.slots)
      rest == item.count - Min({item.count, room})
  IN  IF /\ layout.kind = "minecraft:inventory"
         /\ item # None
         /\ slot \in range \ (0 .. hotbar_start - 2)
      THEN Min({rest, size - rest}) ELSE 0

-----------------------------------------------------------------------------
Becomes(w) == slots' = w.slots /\ selected_item' = w.cursor /\ UNCHANGED layout
CountOf(item, t) == IF item = None \/ item.type_id # t THEN 0 ELSE item.count
Supply(more, less) ==
  supply' = [t \in ItemTypes |-> supply[t] + CountOf(more, t) - CountOf(less, t)]

MouseClick(button, slot) ==
  /\ Becomes(IF button = 0 THEN LeftClick(Now, slot) ELSE RightClick(Now, slot))
  /\ UNCHANGED supply

ClickOutside(button) ==
  /\ selected_item # None
  /\ Becomes(DropSelected(Now, button = 0))
  /\ Supply(None, IF button = 0 THEN selected_item ELSE WithCount(selected_item, 1))

ShiftClick(slot) ==
  /\ Becomes(ShiftedFrom(Now, slot))
  /\ supply' = [t \in ItemTypes |->
                  IF CountOf(slots[slot], t) = 0 THEN supply[t] ELSE supply[t] - Spilled(slot)]

NumberClick(key, slot) ==
  /\ Becomes(NumberClicked(Now, slot, hotbar_start + key))
  /\ UNCHANGED supply

\* In creative mode the cursor gets a full stack of the item.
MiddleClick(slot) ==
  /\ selected_item = None
  /\ slots[slot] # None
  /\ LET stack == WithCount(slots[slot], StackSize[slots[slot].type_id])
     IN  Becomes([Now EXCEPT !.cursor = stack]) /\ Supply(stack, None)

\* drop_click: one item, or the stack.
DropClicked(w, button, slot) ==
  LET rest == IF button = 0 THEN w.slots[slot].count - 1 ELSE 0
  IN  IF w.cursor # None \/ w.slots[slot] = None THEN w
      ELSE [w EXCEPT !.slots[slot] = IF rest = 0 THEN None ELSE WithCount(@, rest)]

DropClick(button, slot) ==
  /\ Becomes(DropClicked(Now, button, slot))
  /\ supply' = [t \in ItemTypes |-> supply[t] - CountOf(slots[slot], t) + CountOf(slots'[slot], t)]

\* update_slot, when the server says what a slot holds.
UpdateSlot(slot, new_item) ==
  /\ Becomes([Now EXCEPT !.slots[slot] = new_item])
  /\ Supply(new_item, slots[slot])

Bounded == \A t \in ItemTypes : supply'[t] <= MaxSupply[t]

WindowNext ==
  \/ \E slot \in WindowSlot, button \in {0, 1} : MouseClick(button, slot)
  \/ \E button \in {0, 1} : ClickOutside(button)
  \/ \E slot \in WindowSlot : ShiftClick(slot)
  \/ \E slot \in WindowSlot, key \in 0 .. HotbarSize - 1 : NumberClick(key, slot)
  \/ \E slot \in WindowSlot : MiddleClick(slot) /\ Bounded
  \/ \E slot \in WindowSlot, button \in {0, 1} : DropClick(button, slot)
  \/ \E slot \in WindowSlot, item \in Stack : UpdateSlot(slot, item) /\ Bounded

WindowSpec == WindowInit /\ [][WindowNext]_windowVars

-----------------------------------------------------------------------------
\* No stack is larger than its type allows, and none is an empty stack --
\* right clicks put a stack of none into the slot on their way.
WindowTypeOK ==
  /\ layout \in Layouts
  /\ slots \in [WindowSlot -> Stack]
  /\ selected_item \in Stack
  /\ supply \in [ItemTypes -> Int]

Held(t) ==
  CountOf(selected_item, t) + Total([i \in WindowSlot |-> CountOf(slots[i], t)], layout.slots)

\* inventory.rs 39: whatever sequence of clicks the bot predicts, no item
\* is lost and none is invented: what the slots and the cursor hold of a
\* type is what was put in and not thrown out -- but for shift clicks in the
\* player's own window, which spill exactly what Spilled says and in any
\* other window nothing.
ItemsConserved == \A t \in ItemTypes : Held(t) = supply[t]

CountOfKind(item, k) ==
  IF item # None /\ item.type_id = k.type_id /\ item.components = k.components THEN item.count ELSE 0
HeldOf(k) ==
  CountOfKind(selected_item, k) + Total([i \in WindowSlot |-> CountOfKind(slots[i], k)], layout.slots)

\* Clicks with the mouse merge only what is really the same: not only the
\* numbers per type but those per type and components stay as they are.
MouseClicksKeepComponents ==
  [][(\E slot \in WindowSlot, button \in {0, 1} : MouseClick(button, slot))
       => \A k \in Identity : HeldOf(k)' = HeldOf(k)]_windowVars

\* The slots that a shift click on one has no business with: those of its
\* own side, in the player's window those that are not in the hotbar.  From
\* the hotbar of that window, and from the last slot of its main section,
\* the code goes anywhere in both, and leaves alone only what lies outside.
Beside(slot) ==
  {i \in WindowSlot \ {slot} :
     IF layout.kind # "minecraft:inventory" \/ slot < layout.inventory_start
     THEN i < layout.inventory_start <=> slot < layout.inventory_start
     ELSE /\ slot >= hotbar_start - 1 => i \notin layout.inventory_start .. hotbar_start - 1
          /\ i \notin hotbar_start .. layout.inventory_end - 1}

\* A shift click moves the clicked item to another section of the window;
\* the other items of its own stay where they are, as they are.
ShiftClickCrosses ==
  [][\A slot \in WindowSlot : ShiftClick(slot) =>
       \A i \in Beside(slot) : slots'[i] = slots[i]]_windowVars
=============================================================================
