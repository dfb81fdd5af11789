--------------------------- MODULE MCBotInventory ---------------------------
(* Small instances of BotInventory: an inventory section of two slots and   *)
(* one type of item, which stacks to two, with and without a name.          *)
EXTENDS BotInventory

CONSTANTS stone, plain, named

Of(components, n) == [type_id |-> stone, components |-> components, count |-> n]

MCIdentity == {[type_id |-> stone, components |-> plain], [type_id |-> stone, components |-> named]}
MCStackSize == stone :> 2
MCContents == {None, Of(plain, 1)}
MCStocks == {[i \in 0 .. 2 |-> Of(plain, 1)],
             [i \in 0 .. 2 |-> IF i = 1 THEN Of(plain, 1) ELSE None],
             [i \in 0 .. 2 |-> IF i = 0 THEN None ELSE Of(plain, 3 - i)],
             [i \in 0 .. 2 |-> IF i = 1 THEN Of(named, 1) ELSE IF i = 2 THEN Of(plain, 1) ELSE None]}
\* Two stacks that change places are followed for a few rounds.
FewSwaps == Swaps => /\ Len(toServer) <= 2
                     /\ \A id \in DOMAIN stateId : stateId[id] <= 2

MCOps == {"click", "put_away", "move_slot_item", "equip", "toss", "open_block", "close_window"}
=============================================================================
