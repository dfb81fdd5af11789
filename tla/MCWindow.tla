------------------------------- MODULE MCWindow -------------------------------
(* Small instances of Window: a hotbar of two slots, a stackable type with  *)
(* and without a custom component, and one that does not stack.             *)
EXTENDS Window

CONSTANTS stone, sword, plain, named

Layout(kind, start, end, n, result) ==
  [kind |-> kind, inventory_start |-> start, inventory_end |-> end, slots |-> n,
   crafting_result_slot |-> result]

\* A chest and a crafting table, each with two slots and more of its own,
\* and the player's window, with the off hand behind the hotbar.
MCLayouts == {Layout("minecraft:generic_9x1", 2, 6, 6, -1),
              Layout("minecraft:crafting", 3, 7, 7, 0),
              Layout("minecraft:inventory", 1, 6, 7, 0)}
MCIdentity == {[type_id |-> stone, components |-> plain],
               [type_id |-> stone, components |-> named],
               [type_id |-> sword, components |-> plain]}
MCStackSize == stone :> 2 @@ sword :> 1
MCMaxSupply == stone :> 3 @@ sword :> 1
=============================================================================
