--------------------------------- MODULE Items ---------------------------------
(***************************************************************************)
(* item.rs: the items of a window.  An item is a type, its components (nbt *)
(* and metadata are the same to every comparison but that of the finders,  *)
(* which ignore components) and a count.  The registry is at 1.9 or later. *)
(***************************************************************************)
EXTENDS Integers, SequencesExt

CONSTANTS
  Identity,     \* [type_id, components] of the items there are
  StackSize,    \* stack_size of each type
  None

ItemTypes == DOMAIN StackSize

\* The registry's stack sizes.
ASSUME StackSizeAssumption ==
  /\ StackSize \in [DOMAIN StackSize -> 1 .. 64]
  /\ \A k \in Identity : k.type_id \in DOMAIN StackSize

Item == {[type_id |-> k.type_id, components |-> k.components, count |-> n] :
           k \in Identity, n \in 1 .. Max({StackSize[t] : t \in ItemTypes})}

\* Option<Item>: there is an item, or not.
ASSUME NoneAssumption == None \notin Item

\* What a slot or a cursor may hold.
Stack == {None} \cup {item \in Item : item.count <= StackSize[item.type_id]}

WithCount(item, n) == [item EXCEPT !.count = n]
Full(item) == item.count >= StackSize[item.type_id]

\* Mutant of ItemsEqual: components are not compared.
SameType(a, b) == a.type_id = b.type_id
\* items_equal without counts: metadata, components and nbt must agree.
ItemsEqual(a, b) == a.type_id = b.type_id /\ a.components = b.components
=============================================================================
