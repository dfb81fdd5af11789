----------------------------- MODULE PacketCodec -----------------------------
(***************************************************************************)
(* struct PacketCodec of protocol/codec.rs, and what becomes of the things *)
(* that are written: a packet goes from one codec to another, which may    *)
(* write it once more; an NBT file goes from write_root to parse_nbt.      *)
(***************************************************************************)
EXTENDS Codec

CONSTANTS
  PacketIds, PacketTypes,   \* by the name of a packet, its number and its schema
  Sent,         \* what is written: packets, with their names and params, and
                \* NBT files, with their roots and formats
  OpenEnded,    \* the names of those whose last field takes all the rest
  OpenLists,    \* of those that end with a list the buffer's end may end
  OpenNbt,      \* and of those that may end with NBT the buffer's end may stand for
  OptionalFlags,    \* the names of the fields that are an option of a bool
  Rounded,      \* the names of packets with numbers that writing may round
  Tails         \* what may follow a packet

ReadPacket(buf) ==
  LET id == ReadVarInt(buf)
      names == {name \in DOMAIN PacketIds : PacketIds[name] = id.v}
      name == CHOOSE n \in names : TRUE
      params == Read(PacketTypes[name], From(buf, id.n), <<>>)
  IN  IF ~id.ok THEN Fail
      ELSE IF names = {} THEN Fail
      ELSE After(id.n, Mapped(params, LAMBDA v : [name |-> name, params |-> v]))

WritePacket(p) == PushVarInt(PacketIds[p.name]) \o Write(PacketTypes[p.name], p.params, <<>>)

IsPacket(p) == "params" \in DOMAIN p
Encoded(p) == IF IsPacket(p) THEN WritePacket(p) ELSE Nbt!WriteRoot(p.root, p.format)
Decoded(p, bytes) == IF IsPacket(p) THEN ReadPacket(bytes) ELSE Nbt!ParseNbt(bytes)

VARIABLES
  packet,   \* what was written
  wire,     \* the bytes that arrive
  change,   \* how they differ from those that were written
  got,      \* what is read from them
  again     \* what is read from the bytes that got is written as

vars == <<packet, wire, change, got, again>>

Unread == [ok |-> FALSE, unread |-> TRUE]

Init ==
  /\ packet \in Sent
  /\ wire = Encoded(packet)
  /\ change = "none"
  /\ got = Unread
  /\ again = Unread

\* The frame ends early.
Cut ==
  /\ change = "none" /\ got = Unread /\ IsPacket(packet)
  /\ \E n \in 0 .. Len(wire) - 1 : wire' = SubSeq(wire, 1, n)
  /\ change' = "cut"
  /\ UNCHANGED <<packet, got, again>>

\* The other side's version of the packet has more fields.
Extend ==
  /\ change = "none" /\ got = Unread
  /\ \E tail \in Tails : wire' = wire \o tail
  /\ change' = "more"
  /\ UNCHANGED <<packet, got, again>>

\* Another packet, which this side would have written in other bytes, or not at all.
Alter ==
  /\ change = "none" /\ got = Unread /\ IsPacket(packet)
  /\ \E i \in DOMAIN wire, b \in Byte : b # wire[i] /\ wire' = [wire EXCEPT ![i] = b]
  /\ change' = "other"
  /\ UNCHANGED <<packet, got, again>>

Receive ==
  /\ got = Unread
  /\ got' = Decoded(packet, wire)
  /\ UNCHANGED <<packet, wire, change, again>>

Forward ==
  /\ got.ok /\ again = Unread
  /\ LET bytes == Encoded(got.v)
         r == Decoded(got.v, bytes)
     IN  again' = IF r.ok THEN r @@ [left |-> Len(bytes) - r.n] ELSE r
  /\ UNCHANGED <<packet, wire, change, got>>

Next == Cut \/ Extend \/ Alter \/ Receive \/ Forward

Spec == Init /\ [][Next]_vars

-----------------------------------------------------------------------------
NoNbt == [nbt |-> <<>>]

\* codec.rs 777: of an option of a bool, a false one is written as none.
RECURSIVE Told(_)
Told(v) ==
  CASE "compound" \in DOMAIN v ->
         LET told(e) == IF e.key \in OptionalFlags /\ e.val = [bool |-> FALSE] THEN Void ELSE Told(e.val)
         IN  [compound |-> [i \in DOMAIN v.compound |-> [v.compound[i] EXCEPT !.val = told(v.compound[i])]]]
    [] "list" \in DOMAIN v -> [list |-> [i \in DOMAIN v.list |-> Told(v.list[i])]]
    [] OTHER -> v

Understood(p) == IF IsPacket(p) THEN [p EXCEPT !.params = Told(@)] ELSE p

\* codec.rs 89-1075: what one side writes, the other reads: the same packet,
\* from exactly the bytes it was written as, whatever follows them -- but for
\* a false that an option forgets.  Every switch, count and context leads
\* reader and writer the same way.  And nbt.rs 756-778: a file with a name is
\* read in the format it has.
ReadsBack ==
  got # Unread /\ change \in {"none", "more"} /\ (change = "more" /\ IsPacket(packet) => packet.name \notin OpenEnded) =>
    got = Ok(Understood(packet), Len(Encoded(packet)))

\* The NBT of a value, in the order of its bytes, and the rest of it.
RECURSIVE NbtIn(_)
NbtIn(v) ==
  CASE "nbt" \in DOMAIN v -> <<v>>
    [] "compound" \in DOMAIN v -> FlattenSeq([i \in DOMAIN v.compound |-> NbtIn(v.compound[i].val)])
    [] "list" \in DOMAIN v -> FlattenSeq([i \in DOMAIN v.list |-> NbtIn(v.list[i])])
    [] OTHER -> <<>>

RECURSIVE WithoutNbt(_)
WithoutNbt(v) ==
  CASE "nbt" \in DOMAIN v -> NoNbt
    [] "compound" \in DOMAIN v ->
         [compound |-> [i \in DOMAIN v.compound |-> [v.compound[i] EXCEPT !.val = WithoutNbt(@)]]]
    [] "list" \in DOMAIN v -> [list |-> [i \in DOMAIN v.list |-> WithoutNbt(v.list[i])]]
    [] OTHER -> v

\* a is b without the NBT that b ends with, or without the last of it.
LosesNbt(a, b) ==
  /\ WithoutNbt(a) = WithoutNbt(b)
  /\ \E n \in 0 .. Len(NbtIn(b)) :
       NbtIn(a) = [i \in DOMAIN NbtIn(b) |-> IF i <= n THEN NbtIn(b)[i] ELSE NoNbt]

\* b with fewer elements in the list it ends with.
Shortened(b) ==
  LET whole == AsList(Last(b.compound).val)
      ending(n) == [Last(b.compound) EXCEPT !.val = [list |-> SubSeq(whole, 1, n)]]
  IN  {[compound |-> Append(Front(b.compound), ending(n))] : n \in 0 .. Len(whole)}

\* codec.rs 82-85: a packet of which bytes are missing is refused, with an
\* error, never read as another one -- but for the lists that have no count
\* and no end of their own (408, 432), which lose their last elements, and
\* for optional NBT (192), which is none where the packet has ended.
CutIsRefused ==
  got # Unread /\ change = "cut" /\ packet.name \notin OpenEnded =>
    \/ got = Fail
    \/ /\ got.ok /\ got.v.name = packet.name
       /\ \E whole \in {Understood(packet).params} \cup
                       (IF packet.name \in OpenLists THEN Shortened(Understood(packet).params) ELSE {}) :
            \/ packet.name \in OpenLists /\ got.v.params = whole
            \/ packet.name \in OpenNbt /\ LosesNbt(got.v.params, whole)

\* codec.rs 987-1075: whatever bytes a packet was read from, writing it and
\* reading that gives the packet again, and nothing is left -- but for a false
\* that an option forgets: no other value that can be read is one that cannot
\* be written.
RereadsTheSame ==
  again # Unread =>
    /\ again.ok /\ again.left = 0
    /\ again.v = Understood(got.v) \/ (IsPacket(got.v) /\ got.v.name \in Rounded)
=============================================================================
