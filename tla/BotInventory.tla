---------------------------- MODULE BotInventory ----------------------------
(***************************************************************************)
(* The bot's inventory and container windows (src/src/bot/inventory.rs and *)
(* the window packets of src/src/bot/mod.rs) against the server that owns  *)
(* the items.  The bot predicts what a click does, tells the server, and   *)
(* waits for a slot or content packet, or for a second; while it waits it  *)
(* handles whatever packets arrive.  A call of the bot is a sequence of    *)
(* clicks, each decided from the windows as they are by then.              *)
(*                                                                         *)
(* A window has one slot of its own -- a chest's, or for the player's      *)
(* window one of the 2x2 grid -- and then the inventory section, of which  *)
(* the last slot is the hotbar.  The clicks are those of Window.  The      *)
(* server is the external half: it applies a click that names the open     *)
(* window, and answers with what the bot does not show already.            *)
(***************************************************************************)
EXTENDS Items, FiniteSetsExt

CONSTANTS
  Contents,              \* what the server may come to put in a slot
  Stocks,                \* the items it may begin with, by slot
  NoWindow,
  InvSize,               \* slots of the inventory section
  Ops,                   \* the bot functions the program calls
  MaxCalls, MaxChanges, MaxWindows   \* bounds: calls of the bot, changes of
                         \* its own accord by the server, windows opened

ASSUME InvSizeAssumption == InvSize \in Nat \ {0}
ASSUME BoundsAssumption == MaxCalls \in Nat /\ MaxChanges \in Nat /\ MaxWindows \in Nat

VARIABLES
  inventory,     \* the player's window: id, slots, cursor, state_id, seeded
  current_window,\* the open container, or NoWindow
  bumped,        \* inv_revision has changed since the bot last looked at it
  call,          \* the bot function that is running, and where it is
  calls,         \* how many have been called
  toServer, toClient,
  items,         \* the server's items by place: Grid, the chest's, inventory
  shown,         \* what the server takes the bot to show
  carried,       \* the server's cursor, which each of its windows has
  menu,          \* the window open at the server
  stateId,       \* its last state id, per window
  opened,        \* how many windows the server has opened
  changes        \* how often it has changed something of its own accord

botVars == <<inventory, current_window, bumped, call, calls>>
serverVars == <<items, shown, carried, menu, stateId, opened, changes>>
vars == <<botVars, toServer, toClient, serverVars>>

Own == 0
Section == 1 .. InvSize
Hotbar == InvSize
Slot == {Own} \cup Section
Outside == -999

Layout == [kind |-> "minecraft:generic_9x1", inventory_start |-> 1,
           inventory_end |-> InvSize + 1, slots |-> InvSize + 1,
           crafting_result_slot |-> -1]

Click == INSTANCE Window WITH
  Layouts <- {Layout}, HotbarSize <- 1, MaxSupply <- StackSize,
  layout <- Layout, slots <- inventory.slots, selected_item <- inventory.cursor,
  supply <- StackSize

ASSUME StacksAssumption == Contents \subseteq Stack /\ Stocks \subseteq [0 .. InvSize -> Stack]

\* accept_click, modes 0 and 4.
Clicked(w, c) ==
  IF c.mode = 4 THEN Click!DropClicked(w, c.button, c.slot)
  ELSE IF c.slot = Outside THEN Click!DropSelected(w, c.button = 0)
  ELSE IF c.button = 0 THEN Click!LeftClick(w, c.slot)
  ELSE Click!RightClick(w, c.slot)

Idle == [op |-> "idle"]

\* The place of a slot: the grid is a place of its own, so that a chest and
\* the player's window have different first slots.
Grid == -1
Place == Slot \cup {Grid}
At(id, i) == IF i = Own /\ id = 0 THEN Grid ELSE i
View(f, id) == [i \in Slot |-> f[At(id, i)]]

\* The places of g, with f in the slots of window id that it has.
Overlay(f, id, g) ==
  [p \in Place |-> IF \E i \in DOMAIN f : p = At(id, i) THEN f[IF p = Grid THEN Own ELSE p] ELSE g[p]]

Init ==
  /\ \E stock \in Stocks : items = [p \in Place |-> IF p = Grid THEN None ELSE stock[p]]
  /\ shown = items
  /\ carried = [id \in 0 .. MaxWindows |-> None]
  /\ menu = 0
  /\ stateId = [id \in 0 .. MaxWindows |-> 0]
  /\ opened = 0
  /\ changes = 0
  /\ inventory = [id |-> 0, slots |-> View(items, 0), cursor |-> None, state_id |-> 0,
                  seeded |-> FALSE]
  /\ current_window = NoWindow
  /\ bumped = FALSE
  /\ call = Idle
  /\ calls = 0
  /\ toServer = <<>>
  /\ toClient = <<>>

-----------------------------------------------------------------------------
(* click_window and the functions made of clicks.                          *)

Active == IF current_window # NoWindow THEN current_window ELSE inventory

SetActive(w) ==
  IF current_window # NoWindow THEN current_window' = w /\ UNCHANGED inventory
  ELSE inventory' = w /\ UNCHANGED current_window

\* The slots that items_equal tells apart, counts included.
Changed(old, new) == {i \in Slot : old[i] # new[i]}

\* click_window up to its wait: predict, report, and look at inv_revision.
ClickWindow(slot, button, mode) ==
  LET c == [slot |-> slot, button |-> button, mode |-> mode]
      w == Active
      r == Clicked([slots |-> w.slots, cursor |-> w.cursor], c)
  IN  /\ SetActive([w EXCEPT !.slots = r.slots, !.cursor = r.cursor])
      /\ toServer' = Append(toServer,
           [kind |-> "click", id |-> w.id, state_id |-> w.state_id, click |-> c,
            changed |-> Restrict(r.slots, Changed(w.slots, r.slots)), cursor |-> r.cursor])
      /\ bumped' = FALSE
      /\ UNCHANGED <<toClient, serverVars>>

Called(op) ==
  /\ op \in Ops
  /\ call = Idle
  /\ calls < MaxCalls
  /\ calls' = calls + 1

\* Nothing but the bot's own control changes.
Only == UNCHANGED <<inventory, current_window, bumped, toServer, toClient, serverVars>>
Return == call' = Idle /\ UNCHANGED calls /\ Only

\* The last click of a call, or a click of the program's own.
LastClick == [op |-> "click"]

CallClick ==
  /\ Called("click")
  /\ \E slot \in Slot, button \in {0, 1} : ClickWindow(slot, button, 0)
  /\ call' = LastClick

\* However it ends -- with an update from the server or after a second.
ClickReturns == call.op = "click" /\ Return

CallPutAway(slot) ==
  /\ Called("put_away")
  /\ ClickWindow(slot, 0, 0)
  /\ call' = [op |-> "put_away", fallback |-> slot]

\* Mutant of Partial: a full stack is filled too.
PartialOrFull(w) == {i \in Section : w.slots[i] # None /\ SameType(w.slots[i], w.cursor)}

\* The slot put_selected_item_range clicks next: the first partial stack of
\* the cursor's type (it does not look at components), else the first
\* empty slot.
Partial(w) == {i \in Section : /\ w.slots[i] # None
                               /\ SameType(w.slots[i], w.cursor)
                               /\ ~Full(w.slots[i])}
Vacant(w) == {i \in Section : w.slots[i] = None}
Target(w) == IF Partial(w) # {} THEN Min(Partial(w)) ELSE Min(Vacant(w))

PutRange ==
  /\ call.op = "put_away"
  /\ Active.cursor # None
  /\ IF Partial(Active) \cup Vacant(Active) # {}
     THEN ClickWindow(Target(Active), 0, 0) /\ UNCHANGED call
     ELSE ClickWindow(call.fallback, 0, 0) /\ call' = [op |-> "toss_cursor"]
  /\ UNCHANGED calls

PutReturns ==
  /\ call.op = "put_away"
  /\ Active.cursor = None
  /\ Return

TossCursor ==
  /\ call.op = "toss_cursor"
  /\ ClickWindow(Outside, 0, 0)
  /\ call' = LastClick
  /\ UNCHANGED calls

CallMove(source, dest) ==
  /\ Called("move_slot_item")
  /\ ClickWindow(source, 0, 0)
  /\ call' = [op |-> "move_to", source |-> source, dest |-> dest]

MoveTo ==
  /\ call.op = "move_to"
  /\ ClickWindow(call.dest, 0, 0)
  /\ call' = [op |-> "move_back", source |-> call.source]
  /\ UNCHANGED calls

MoveBack ==
  /\ call.op = "move_back"
  /\ IF Active.cursor # None
     THEN ClickWindow(call.source, 0, 0) /\ call' = LastClick /\ UNCHANGED calls
     ELSE Return

\* equip looks in the player's window and clicks in the active one.
CallEquip(type, dest) ==
  /\ Called("equip")
  /\ LET found == {i \in Slot : inventory.slots[i] # None /\ inventory.slots[i].type_id = type}
     IN  IF found = {} THEN UNCHANGED call /\ Only
         ELSE ClickWindow(Min(found), 0, 0) /\ call' = [op |-> "equip", dest |-> dest]

EquipTo ==
  /\ call.op = "equip"
  /\ ClickWindow(call.dest, 0, 0)
  /\ call' = LastClick
  /\ UNCHANGED calls

\* toss: one drop click for each stack of the type, in order.
TossFrom(type, next, left) ==
  LET found == {i \in Slot : /\ i >= next
                             /\ inventory.slots[i] # None
                             /\ inventory.slots[i].type_id = type}
  IN  IF left = 0 \/ found = {} THEN call' = Idle /\ Only
      ELSE /\ ClickWindow(Min(found), 0, 4)
           /\ call' = [op |-> "toss", type |-> type, next |-> Min(found) + 1, left |-> left - 1]

CallToss(type, count) == Called("toss") /\ TossFrom(type, Own, count)
TossNext == call.op = "toss" /\ TossFrom(call.type, call.next, call.left) /\ UNCHANGED calls

-----------------------------------------------------------------------------
(* open_block and close_window.                                            *)

SendOnly(m) ==
  /\ toServer' = Append(toServer, m)
  /\ UNCHANGED <<toClient, serverVars>>

\* place_block clicks on the container; then wait for a window.
CallOpen ==
  /\ Called("open_block")
  /\ call' = [op |-> "open", until |-> "window"]
  /\ SendOnly([kind |-> "use"])
  /\ bumped' = FALSE
  /\ UNCHANGED <<inventory, current_window>>

\* Mutant of WindowSeen: inv_revision is read before the window has opened.
WindowSeenStale ==
  /\ call = [op |-> "open", until |-> "window"]
  /\ current_window # NoWindow
  /\ call' = [op |-> "open", until |-> "content"]
  /\ UNCHANGED <<calls, inventory, current_window, bumped, toServer, toClient, serverVars>>

\* A window is open: look at inv_revision and wait for it to change.
WindowSeen ==
  /\ call = [op |-> "open", until |-> "window"]
  /\ current_window # NoWindow
  /\ call' = [op |-> "open", until |-> "content"]
  /\ bumped' = FALSE
  /\ UNCHANGED <<calls, inventory, current_window, toServer, toClient, serverVars>>

\* After five seconds without a window, or after the content or two seconds.
OpenReturns ==
  /\ call.op = "open"
  /\ call.until = "window" => current_window = NoWindow
  /\ Return

\* sync_current_window: the inventory section goes back to the inventory.
Synced(w) == [inventory EXCEPT !.slots = [i \in Slot |-> IF i = Own THEN @[i] ELSE w.slots[i]]]

CallClose ==
  /\ Called("close_window")
  /\ current_window # NoWindow
  /\ inventory' = Synced(current_window)
  /\ current_window' = NoWindow
  /\ SendOnly([kind |-> "close", id |-> current_window.id])
  /\ UNCHANGED <<call, bumped>>

-----------------------------------------------------------------------------
(* Packets from the server.  They are handled by drive_tick, while a call  *)
(* of the bot waits or when the program drives the bot by itself.          *)

Driving ==
  \/ call = Idle
  \/ IF call = [op |-> "open", until |-> "window"] THEN current_window = NoWindow ELSE ~bumped

Receive(kind) ==
  /\ Driving
  /\ toClient # <<>>
  /\ Head(toClient).kind = kind
  /\ toClient' = Tail(toClient)
  /\ UNCHANGED <<call, calls, toServer, serverVars>>

WindowFor(id) ==
  IF id = 0 THEN "inventory"
  ELSE IF current_window # NoWindow /\ current_window.id = id THEN "current" ELSE "none"

\* handle_inventory_content moves what lies in the grid to the first empty
\* slot, here only.
GridCleared(slots) ==
  LET vacant == {i \in Section : slots[i] = None}
  IN  IF slots[Own] = None \/ vacant = {} THEN slots
      ELSE [slots EXCEPT ![Min(vacant)] = slots[Own], ![Own] = None]

\* Mutant of Filled: later content of a window is not taken.
FilledOnce(w, m) ==
  [w EXCEPT !.slots = IF w.seeded THEN m.slots ELSE @, !.state_id = m.state_id, !.seeded = FALSE]

Filled(w, m) == [w EXCEPT !.slots = m.slots, !.state_id = m.state_id, !.seeded = FALSE]

HandleContent ==
  /\ Receive("content")
  /\ bumped' = TRUE
  /\ LET m == Head(toClient)
     IN  /\ inventory' = IF WindowFor(m.id) # "inventory" THEN inventory
                         ELSE [Filled(inventory, m) EXCEPT !.slots = GridCleared(@)]
         /\ current_window' = IF WindowFor(m.id) # "current" THEN current_window
                              ELSE Filled(current_window, m)

Updated(w, m) == [w EXCEPT !.slots[m.slot] = m.item, !.state_id = m.state_id]

HandleSlot ==
  /\ Receive("slot")
  /\ bumped' = TRUE
  /\ LET m == Head(toClient)
     IN  /\ inventory' = IF WindowFor(m.id) # "inventory" THEN inventory ELSE Updated(inventory, m)
         /\ current_window' = IF WindowFor(m.id) # "current" THEN current_window
                              ELSE Updated(current_window, m)

\* set_player_inventory: the packet numbers the hotbar from 0, the handler
\* takes that number for a slot of the player's window, and inv_revision
\* stays as it is.
PacketIndex(i) == IF i = Hotbar THEN Own ELSE i

HandlePlayerInventory ==
  /\ Receive("player_inventory")
  /\ inventory' = [inventory EXCEPT !.slots[Head(toClient).slotId] = Head(toClient).item]
  /\ UNCHANGED <<current_window, bumped>>

\* handle_open_screen: the section starts with what the inventory shows.
HandleOpenScreen ==
  /\ Receive("open_screen")
  /\ current_window' = [id |-> Head(toClient).id, cursor |-> None, state_id |-> 0, seeded |-> TRUE,
                        slots |-> [i \in Slot |-> IF i = Own THEN None ELSE inventory.slots[i]]]
  /\ UNCHANGED <<inventory, bumped>>

HandleContainerClose ==
  /\ Receive("container_close")
  /\ inventory' = IF current_window = NoWindow THEN inventory ELSE Synced(current_window)
  /\ current_window' = NoWindow
  /\ UNCHANGED bumped

-----------------------------------------------------------------------------
(* The server.  What it sends is appended to toClient by Tell.             *)

ServerUnchanged == UNCHANGED botVars

\* Slot packets for what the open menu id holds and the bot does not show.
Differences(f, g, id) == SetToSeq({i \in Slot : f[At(id, i)] # g[At(id, i)]})
SlotPackets(f, g, id) ==
  [k \in DOMAIN Differences(f, g, id) |->
     LET i == Differences(f, g, id)[k]
     IN  [kind |-> "slot", id |-> id, state_id |-> stateId[id] + k, slot |-> i, item |-> f[At(id, i)]]]

\* The menu id sends what has changed; or everything it holds.
Broadcast(f, g, id, before) ==
  /\ toClient' = toClient \o before \o SlotPackets(f, g, id)
  /\ stateId' = [stateId EXCEPT ![id] = @ + Len(Differences(f, g, id))]
  /\ shown' = Overlay(View(f, id), id, g)
  /\ items' = f

SendContent(f, id, before) ==
  /\ toClient' = toClient \o before \o
       <<[kind |-> "content", id |-> id, state_id |-> stateId[id] + 1, slots |-> View(f, id)]>>
  /\ stateId' = [stateId EXCEPT ![id] = @ + 1]
  /\ shown' = Overlay(View(f, id), id, shown)
  /\ items' = f

ServerReceive(kind) ==
  /\ toServer # <<>>
  /\ Head(toServer).kind = kind
  /\ toServer' = Tail(toServer)
  /\ UNCHANGED <<botVars, changes>>

\* A click on a window that is not open is ignored.  Else it is applied; the
\* bot now shows the slots it has reported; it is sent all that the window
\* holds if it did not know its last state, else what it shows wrong.
ServerClick ==
  /\ ServerReceive("click")
  /\ UNCHANGED <<menu, opened>>
  /\ LET m == Head(toServer)
         r == Clicked([slots |-> View(items, menu), cursor |-> carried[menu]], m.click)
         after == Overlay(r.slots, menu, items)
         told == Overlay(m.changed, menu, shown)
     IN  IF m.id # menu THEN UNCHANGED <<toClient, items, shown, carried, stateId>>
         ELSE /\ carried' = [carried EXCEPT ![menu] = r.cursor]
              /\ IF m.state_id = stateId[menu] THEN Broadcast(after, told, menu, <<>>)
                 ELSE SendContent(after, menu, <<>>)

\* When a container closes, its cursor goes to the first vacant slot, of
\* which the bot is told by its number in the inventory; or it is dropped.
Back == LET vacant == {i \in Section : items[i] = None}
        IN  IF carried[menu] = None \/ vacant = {} THEN {} ELSE {Min(vacant)}
Returned == [p \in Place |-> IF p \in Back THEN carried[menu] ELSE items[p]]
BackPackets == [k \in 1 .. Cardinality(Back) |->
                  [kind |-> "player_inventory", slotId |-> PacketIndex(Min(Back)), item |-> carried[menu]]]

CloseMenu(before) ==
  /\ menu' = 0
  /\ carried' = [carried EXCEPT ![menu] = None]
  /\ Broadcast(Returned, shown, 0, BackPackets \o before)

ServerCloses ==
  /\ ServerReceive("close")
  /\ UNCHANGED opened
  /\ IF menu = 0 THEN UNCHANGED <<menu, carried, toClient, items, shown, stateId>>
     ELSE CloseMenu(<<>>)

\* The block that was clicked on is a container within reach, or not.
ServerOpens ==
  /\ ServerReceive("use")
  /\ \/ UNCHANGED <<menu, opened, carried, toClient, items, shown, stateId>>
     \/ /\ opened < MaxWindows
        /\ opened' = opened + 1
        /\ menu' = opened'
        /\ carried' = IF menu = 0 THEN carried ELSE [carried EXCEPT ![menu] = None]
        /\ LET kept == IF menu = 0 THEN items ELSE Returned
               close == IF menu = 0 THEN <<>>
                        ELSE BackPackets \o <<[kind |-> "container_close"]>>
           IN  SendContent(kept, opened', close \o <<[kind |-> "open_screen", id |-> opened']>>)

\* Items are picked up, used up, or moved by another player.
ServerChanges ==
  /\ changes < MaxChanges
  /\ changes' = changes + 1
  /\ \E p \in Place \ {Grid}, item \in Contents :
       Broadcast([items EXCEPT ![p] = item], shown, menu, <<>>)
  /\ UNCHANGED <<botVars, toServer, menu, opened, carried>>

\* The container is broken or out of reach.
ServerClosesMenu ==
  /\ changes < MaxChanges
  /\ changes' = changes + 1
  /\ menu # 0
  /\ CloseMenu(<<[kind |-> "container_close"]>>)
  /\ UNCHANGED <<botVars, toServer, opened>>

-----------------------------------------------------------------------------
Call ==
  \/ CallClick \/ CallOpen \/ CallClose
  \/ \E slot \in Slot : CallPutAway(slot)
  \/ \E source, dest \in Slot : CallMove(source, dest)
  \/ \E type \in DOMAIN StackSize, dest \in Slot : CallEquip(type, dest)
  \/ \E type \in DOMAIN StackSize, count \in 1 .. 2 : CallToss(type, count)

Continue ==
  \/ ClickReturns \/ PutRange \/ PutReturns \/ TossCursor
  \/ MoveTo \/ MoveBack \/ EquipTo \/ TossNext
  \/ WindowSeen \/ OpenReturns

Handle ==
  \/ HandleContent \/ HandleSlot \/ HandlePlayerInventory
  \/ HandleOpenScreen \/ HandleContainerClose

Server == ServerClick \/ ServerCloses \/ ServerOpens \/ ServerChanges \/ ServerClosesMenu

Next == Call \/ Continue \/ Handle \/ Server

Spec == Init /\ [][Next]_vars

\* Every wait of the bot ends after some time.
FairSpec == Spec /\ WF_vars(Continue)

-----------------------------------------------------------------------------
Windows == {inventory} \cup ({current_window} \ {NoWindow})

\* The windows keep their types and the containers their ids.
TypeOK ==
  /\ \A w \in Windows :
       /\ w.slots \in [Slot -> Item \cup {None}]
       /\ w.cursor \in Item \cup {None}
       /\ w.state_id \in 0 .. stateId[w.id]
  /\ inventory.id = 0
  /\ current_window # NoWindow => current_window.id \in 1 .. opened
  /\ menu \in 0 .. opened
  /\ call.op \in {"idle", "click", "put_away", "toss_cursor", "move_to", "move_back", "equip",
                   "toss", "open"}

\* inventory.rs 220-225, mod.rs 750-802: once everything under way has
\* arrived, a container window that is open on both sides shows what the
\* server holds in it, whatever the bot clicked and the server changed
\* meanwhile; and no packet of another window gets into it.
SlotsAgree ==
  /\ TypeOK
  /\ toServer = <<>> /\ toClient = <<>> /\ current_window # NoWindow /\ current_window.id = menu
       => current_window.slots = View(items, menu)

\* inventory.rs 220-225: when open_block returns because inv_revision has
\* changed, the window shows what the server has sent for it, not what the
\* bot seeded it with.
OpenedIsReal ==
  [][call = [op |-> "open", until |-> "content"] /\ call' = Idle /\ bumped
     /\ current_window # NoWindow => ~current_window.seeded]_vars

\* put_selected_item_range is about to click on a partial stack that looks
\* like the cursor to it, and not to items_equal: the two change places.
Swaps ==
  /\ call.op = "put_away"
  /\ Active.cursor # None
  /\ Partial(Active) # {}
  /\ ~ItemsEqual(Active.cursor, Active.slots[Target(Active)])

\* inventory.rs 110-111: every function of the bot returns; putting the
\* cursor away ends, by filling stacks, in an empty slot, or by tossing.
\* There is one way for a call never to end: to swap, for ever, two stacks
\* of one type whose components differ.
EveryCallReturns == ((call # Idle) ~> (call = Idle)) \/ []<>Swaps
=============================================================================
