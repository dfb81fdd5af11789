--------------------------------- MODULE Nbt ---------------------------------
(***************************************************************************)
(* nbt.rs: trees of tagged values, in three formats on the wire.           *)
(*                                                                         *)
(* A tag is a record with one field, its type: [int |-> 3],                *)
(* [string |-> text], [list |-> [ty, items]], [compound |-> entries], the  *)
(* entries a sequence of [key, tag] in the order of insertion.  A floating *)
(* point number is its bits.  gzip and zlib are left out: the bytes are    *)
(* what decompress returns.                                                *)
(***************************************************************************)
EXTENDS Bytes

TagTypes == <<"byte", "short", "int", "long", "float", "double", "bytearray",
              "string", "list", "compound", "intarray", "longarray">>
TagId(ty) == IF ty = "end" THEN 0 ELSE CHOOSE i \in DOMAIN TagTypes : TagTypes[i] = ty
TypeOf(tag) == CHOOSE ty \in DOMAIN tag : TRUE

Insert(entries, key, tag) ==
  IF \E i \in DOMAIN entries : entries[i].key = key
  THEN LET first == Min({i \in DOMAIN entries : entries[i].key = key})
       IN  [entries EXCEPT ![first].tag = tag]
  ELSE Append(entries, [key |-> key, tag |-> tag])

-----------------------------------------------------------------------------
(* Numbers: big-endian, little-endian, or, for int and long, zig-zag        *)
(* varints.                                                                *)

Zigzag(v) == IF v >= 0 THEN 2 * v ELSE (-2) * v - 1
Unzigzag(raw) == IF raw % 2 = 0 THEN raw \div 2 ELSE (-(raw \div 2)) - 1

\* A varint of any length; what is beyond the word wraps around in it.
ReadUvarint(buf, bits) ==
  LET groups == Groups(buf)
  IN  IF groups = <<>> THEN Fail
      ELSE Ok(Joined(groups, LongBytes * ByteBits) % 2 ^ bits, Len(groups))

\* The most significant byte first.
Ordered(bytes, format) == IF format = "Big" THEN bytes ELSE Reverse(bytes)

ReadNumber(buf, bytes, zigzag, format) ==
  IF zigzag /\ format = "LittleVarint" THEN Mapped(ReadUvarint(buf, bytes * ByteBits), Unzigzag)
  ELSE Mapped(Take(buf, bytes), LAMBDA b : Signed(Unsigned(Ordered(b, format)), bytes * ByteBits))

WriteNumber(v, bytes, zigzag, format) ==
  IF format = "Big" THEN BigEndian(v, bytes)
  ELSE IF zigzag /\ format = "LittleVarint" THEN PushGroups(Zigzag(v))
  ELSE Reverse(BigEndian(v, bytes))

ReadInt(buf, format) == ReadNumber(buf, IntBytes, TRUE, format)
WriteInt(v, format) == WriteNumber(v, IntBytes, TRUE, format)

\* The width of a number and whether it may be a zig-zag varint.
Width(ty) ==
  CASE ty \in {"byte", "bytearray"} -> 1
    [] ty = "short" -> ShortBytes
    [] ty \in {"int", "float", "intarray"} -> IntBytes
    [] ty \in {"long", "double", "longarray"} -> LongBytes
Zigzags(ty) == ty \in {"int", "long", "intarray", "longarray"}
Numbers == {"byte", "short", "int", "long", "float", "double"}

ReadString(buf, format) ==
  LET len == IF format = "LittleVarint" THEN ReadUvarint(buf, LongBytes * ByteBits)
             ELSE Mapped(Take(buf, ShortBytes), LAMBDA b : Unsigned(Ordered(b, format)))
  IN  Then(len, buf, LAMBDA n, rest : Mapped(Take(rest, n), Text))

WriteString(text, format) ==
  LET bytes == TextBytes(text)
  IN  (IF format = "LittleVarint" THEN PushGroups(Len(bytes))
       ELSE WriteNumber(Len(bytes), ShortBytes, FALSE, format)) \o bytes

ReadArrayCount(buf, format) ==
  Then(ReadInt(buf, format), buf, LAMBDA n, rest : IF n >= 0 THEN Ok(n, 0) ELSE Fail)

-----------------------------------------------------------------------------
RECURSIVE ReadPayload(_, _, _), ReadItems(_, _, _, _), ReadNumbers(_, _, _, _), ReadEntries(_, _, _)

\* count payloads of one type.
ReadItems(ty, count, buf, format) ==
  IF count = 0 THEN Ok(<<>>, 0)
  ELSE Then(ReadPayload(ty, buf, format), buf, LAMBDA v, rest :
         Mapped(ReadItems(ty, count - 1, rest, format), LAMBDA vs : <<v>> \o vs))

\* count bare numbers, the contents of an array.
ReadNumbers(ty, count, buf, format) ==
  IF count = 0 THEN Ok(<<>>, 0)
  ELSE Then(ReadNumber(buf, Width(ty), Zigzags(ty), format), buf, LAMBDA v, rest :
         Mapped(ReadNumbers(ty, count - 1, rest, format), LAMBDA vs : <<v>> \o vs))

\* The entries up to the end tag, added to those read before.
ReadEntries(entries, buf, format) ==
  Then(Take(buf, 1), buf, LAMBDA id, rest :
    IF id[1] = 0 THEN Ok(entries, 0)
    ELSE IF id[1] \notin DOMAIN TagTypes THEN Fail
    ELSE Then(ReadString(rest, format), rest, LAMBDA name, body :
           Then(ReadPayload(TagTypes[id[1]], body, format), body, LAMBDA tag, more :
             ReadEntries(Insert(entries, name, tag), more, format))))

ReadList(buf, format) ==
  Then(Take(buf, 1), buf, LAMBDA id, rest :
    IF id[1] \notin {0} \cup DOMAIN TagTypes THEN Fail
    ELSE Then(ReadArrayCount(rest, format), rest, LAMBDA count, items :
           IF id[1] = 0 THEN Ok([ty |-> "end", items |-> <<>>], 0)
           ELSE Mapped(ReadItems(TagTypes[id[1]], count, items, format),
                       LAMBDA vs : [ty |-> TagTypes[id[1]], items |-> vs])))

ReadArray(ty, buf, format) ==
  Then(ReadArrayCount(buf, format), buf, LAMBDA count, rest : ReadNumbers(ty, count, rest, format))

ReadPayload(ty, buf, format) ==
  Mapped(CASE ty \in Numbers -> ReadNumber(buf, Width(ty), Zigzags(ty), format)
           [] ty = "string" -> ReadString(buf, format)
           [] ty = "list" -> ReadList(buf, format)
           [] ty = "compound" -> ReadEntries(<<>>, buf, format)
           [] OTHER -> ReadArray(ty, buf, format),
         LAMBDA v : (ty :> v))

-----------------------------------------------------------------------------
RECURSIVE WritePayload(_, _)

WriteArrayCount(items, format) == WriteInt(Len(items), format)

WriteEntries(entries, format) ==
  FlattenSeq([i \in DOMAIN entries |->
    <<TagId(TypeOf(entries[i].tag))>> \o WriteString(entries[i].key, format) \o WritePayload(entries[i].tag, format)])
  \o <<0>>

WriteList(list, format) ==
  <<TagId(list.ty)>> \o WriteArrayCount(list.items, format)
  \o FlattenSeq([i \in DOMAIN list.items |-> WritePayload(list.items[i], format)])

WriteArray(ty, items, format) ==
  WriteArrayCount(items, format)
  \o FlattenSeq([i \in DOMAIN items |->
       WriteNumber(items[i], Width(ty), Zigzags(ty), format)])

WritePayload(tag, format) ==
  LET ty == TypeOf(tag)
      v == tag[ty]
  IN  CASE ty \in Numbers -> WriteNumber(v, Width(ty), Zigzags(ty), format)
        [] ty = "string" -> WriteString(v, format)
        [] ty = "list" -> WriteList(v, format)
        [] ty = "compound" -> WriteEntries(v, format)
        [] OTHER -> WriteArray(ty, v, format)

-----------------------------------------------------------------------------
ReadRoot(buf, format) ==
  Then(Take(buf, 1), buf, LAMBDA id, rest :
    IF id[1] # TagId("compound") THEN Fail
    ELSE Then(ReadString(rest, format), rest, LAMBDA name, body :
           Mapped(ReadEntries(<<>>, body, format), LAMBDA entries : [name |-> name, value |-> entries])))

WriteRoot(root, format) ==
  <<TagId("compound")>> \o WriteString(root.name, format) \o WriteEntries(root.value, format)

\* A nameless tag: none, a compound, or another one, which is put into a
\* compound under the empty name.
ReadAnonymous(buf, format) ==
  Then(Take(buf, 1), buf, LAMBDA id, rest :
    IF id[1] = 0 THEN Ok(<<>>, 0)
    ELSE IF id[1] \notin DOMAIN TagTypes THEN Fail
    ELSE Mapped(ReadPayload(TagTypes[id[1]], rest, format), LAMBDA tag :
           IF id[1] = TagId("compound") THEN <<tag.compound>> ELSE <<(<<[key |-> <<>>, tag |-> tag]>>)>>))

WriteAnonymous(root, format) ==
  IF root = <<>> THEN <<0>> ELSE <<TagId("compound")>> \o WriteEntries(root[1], format)

\* A Bedrock level.dat has eight bytes before the root.
HasBedrockLevelHeader(data) == Len(data) >= 4 /\ \A i \in 2 .. 4 : data[i] = 0

ParseNbt(data) ==
  LET parsed(bytes, format) == Mapped(ReadRoot(bytes, format), LAMBDA root : [root |-> root, format |-> format])
      able == SelectSeq(<<"Big", "Little", "LittleVarint">>, LAMBDA format : parsed(data, format).ok)
  IN  IF HasBedrockLevelHeader(data) THEN parsed(From(data, 8), "Little")
      ELSE IF able = <<>> THEN Fail
      ELSE parsed(data, Head(able))
=============================================================================
