-------------------------------- MODULE Codec --------------------------------
(***************************************************************************)
(* protocol/codec.rs: an interpreter that reads and writes values by the   *)
(* schema of their type.                                                   *)
(*                                                                         *)
(* A schema is a record with its type and that type's parameters.  A value *)
(* is a record with one field: void, bool, num (every kind of integer, and *)
(* the bits of a floating point number), str (a name), text (the contents  *)
(* of a string), bytes, nbt, list, or compound, a sequence of [key, val].  *)
(* Contexts are the compounds that are being read or written, the          *)
(* innermost first; compareTo looks a value up in them.                    *)
(***************************************************************************)
EXTENDS Bytes

CONSTANTS
  Types,        \* struct TypeRegistry: the schemas of the named types
  UuidBytes     \* 16 in the code

Nbt == INSTANCE Nbt

Void == [void |-> TRUE]
Num(n) == [num |-> n]
AsNum(v) == IF "num" \in DOMAIN v THEN v.num ELSE 0
Count(v) == IF AsNum(v) > 0 THEN AsNum(v) ELSE 0
AsList(v) == IF "list" \in DOMAIN v THEN v.list ELSE <<>>
AsCompound(v) == IF "compound" \in DOMAIN v THEN v.compound ELSE <<>>

Has(map, key) == \E i \in DOMAIN map : map[i].key = key
Get(map, key) == IF Has(map, key) THEN map[Min({i \in DOMAIN map : map[i].key = key})].val ELSE Void

\* What a switch or a mapper compares: the value as text.
ToKey(v) ==
  CASE "num" \in DOMAIN v -> ToString(v.num)
    [] "bool" \in DOMAIN v -> IF v.bool THEN "true" ELSE "false"
    [] "str" \in DOMAIN v -> v.str
    [] "void" \in DOMAIN v -> "undefined"
    [] OTHER -> ""

\* Mutant of Resolve: "../" is not followed.
ResolveHere(ref, ctx) ==
  IF ctx = <<>> THEN Void
  ELSE FoldLeft(LAMBDA v, part : Get(AsCompound(v), part), [compound |-> Head(ctx)], ref.path)

\* ref has the number of "../" and the path after them; Void if there is nothing.
Resolve(ref, ctx) ==
  LET level == From(ctx, ref.up)
  IN  IF level = <<>> THEN Void
      ELSE FoldLeft(LAMBDA v, part : Get(AsCompound(v), part), [compound |-> Head(level)], ref.path)

None == [type |-> "none"]
SwitchType(s, ctx) ==
  LET key == ToKey(Resolve(s.compareTo, ctx))
  IN  IF key \in DOMAIN s.fields THEN s.fields[key] ELSE s.default

-----------------------------------------------------------------------------
(* Reading.                                                                *)

FixedWidth == [i8 |-> 1, u8 |-> 1, i16 |-> ShortBytes, u16 |-> ShortBytes, i32 |-> IntBytes,
               f32 |-> IntBytes, i64 |-> LongBytes, f64 |-> LongBytes]
IsUnsigned(name) == name \in {"u8", "u16"}
Primitives == DOMAIN FixedWidth \cup {"void", "bool", "varint", "varlong", "UUID", "restBuffer",
                                      "anonymousNbt", "anonOptionalNbt", "lpVec3"}

Tagged(tag, r) == Mapped(r, LAMBDA v : (tag :> v))

(* A velocity of low precision: six bytes, the least significant first,     *)
(* with the two low bits of the scale, a bit that says that a varint with  *)
(* the others follows, and three numbers of LpBits.  A coordinate is in    *)
(* units of the scale 1's precision, half a step.                          *)
LpBits == 2 * ByteBits - 1
LpMax == 2 ^ LpBits - 2
Vec(f) == [compound |-> [i \in 1 .. 3 |-> [key |-> <<"x", "y", "z">>[i], val |-> Num(f[i])]]]

ReadLpVec3(buf) ==
  LET six == Take(buf, 6)
      packed == Unsigned(Reverse(six.v))
      high == IF (packed \div 4) % 2 = 1 THEN ReadVarInt(From(buf, 6)) ELSE Ok(0, 0)
      scale == high.v * 4 + (packed % 4)
      number(i) == Min({(packed \div 2 ^ (3 + (i - 1) * LpBits)) % 2 ^ LpBits, LpMax})
  IN  IF buf # <<>> /\ Head(buf) = 0 THEN Ok(Vec([i \in 1 .. 3 |-> 0]), 1)
      ELSE IF ~six.ok \/ ~high.ok THEN Fail
      ELSE Ok(Vec([i \in 1 .. 3 |-> scale * (2 * number(i) - LpMax)]), 6 + high.n)

\* The least scale that the largest coordinate needs; numbers are rounded.
WriteLpVec3(v) ==
  LET f == [i \in 1 .. 3 |-> AsNum(Get(AsCompound(v), <<"x", "y", "z">>[i]))]
      most == Max({IF f[i] < 0 THEN -f[i] ELSE f[i] : i \in 1 .. 3})
      scale == (most + LpMax - 1) \div LpMax
      number(i) == (f[i] + scale * LpMax + scale) \div (2 * scale)
      header == (scale % 4) + (IF scale < 4 THEN 0 ELSE 4)
      packed == FoldLeft(LAMBDA n, i : n + number(i) * 2 ^ (3 + (i - 1) * LpBits), header, <<1, 2, 3>>)
  IN  IF most = 0 THEN <<0>>
      ELSE Reverse(BigEndian(packed, 6)) \o (IF scale < 4 THEN <<>> ELSE PushVarInt(scale \div 4))

ReadPrimitive(name, buf) ==
  CASE name = "void" -> Ok(Void, 0)
    [] name = "bool" -> Mapped(Take(buf, 1), LAMBDA b : [bool |-> b[1] # 0])
    [] name \in DOMAIN FixedWidth ->
         Tagged("num", IF IsUnsigned(name) THEN ReadUnsigned(buf, FixedWidth[name])
                       ELSE ReadSigned(buf, FixedWidth[name]))
    [] name = "varint" -> Tagged("num", ReadVarInt(buf))
    [] name = "varlong" -> Tagged("num", ReadVarLong(buf))
    [] name = "UUID" -> Tagged("bytes", Take(buf, UuidBytes))
    [] name = "restBuffer" -> Ok([bytes |-> buf], Len(buf))
    [] name = "anonymousNbt" -> Tagged("nbt", Nbt!ReadAnonymous(buf, "Big"))
    [] name = "lpVec3" -> ReadLpVec3(buf)
    [] name = "anonOptionalNbt" ->
         IF buf = <<>> THEN Ok([nbt |-> <<>>], 1) ELSE Tagged("nbt", Nbt!ReadAnonymous(buf, "Big"))

RECURSIVE Read(_, _, _), ReadMany(_, _, _, _), ReadFields(_, _, _, _),
          ReadMetadata(_, _, _), ReadTopBitSet(_, _, _)

\* count values of one type.
ReadMany(s, count, buf, ctx) ==
  IF count = 0 THEN Ok(<<>>, 0)
  ELSE Then(Read(s, buf, ctx), buf, LAMBDA v, rest :
         Mapped(ReadMany(s, count - 1, rest, ctx), LAMBDA vs : <<v>> \o vs))

\* The fields of a container, added to map; those of an anonymous one join it.
ReadFields(fields, map, buf, ctx) ==
  IF fields = <<>> THEN Ok([compound |-> map], 0)
  ELSE LET field == Head(fields)
       IN  Then(Read(field.schema, buf, <<map>> \o ctx), buf, LAMBDA v, rest :
             ReadFields(Tail(fields),
                        IF field.anon THEN map \o AsCompound(v) ELSE Append(map, [key |-> field.name, val |-> v]),
                        rest, ctx))

\* The fixed count of a buffer or the one before it.
ReadCount(s, buf, ctx) ==
  IF "count" \in DOMAIN s THEN Ok(s.count, 0) ELSE Mapped(Read(s.countType, buf, ctx), Count)

ReadBuffer(s, buf, ctx) ==
  Then(ReadCount(s, buf, ctx), buf, LAMBDA count, rest :
    Mapped(Take(rest, count), LAMBDA b : IF s.type = "pstring" THEN [text |-> Text(b)] ELSE [bytes |-> b]))

\* An array's count is a field read before, or comes before the elements.
ReadArray(s, buf, ctx) ==
  Then(IF "countField" \in DOMAIN s THEN Ok(Count(Resolve(s.countField, ctx)), 0)
       ELSE Mapped(Read(s.countType, buf, ctx), Count),
       buf, LAMBDA count, rest : Tagged("list", ReadMany(s.of, count, rest, ctx)))

\* A number without a name stays a number.
ReadMapper(s, buf, ctx) ==
  Mapped(Read(s.of, buf, ctx), LAMBDA v :
    IF AsNum(v) \in DOMAIN s.mappings THEN [str |-> s.mappings[AsNum(v)]] ELSE v)

ReadOption(s, buf, ctx) ==
  Then(Take(buf, 1), buf, LAMBDA present, rest :
    IF present[1] = 0 THEN Ok(Void, 0) ELSE Read(s.of, rest, ctx))

TotalBits(fields) == FoldLeft(LAMBDA n, f : n + f.size, 0, fields)
BitfieldBytes(fields) == (TotalBits(fields) + ByteBits - 1) \div ByteBits
\* How many bits of the field's bitfield come after it.
Offset(fields, i) == TotalBits(SubSeq(fields, i + 1, Len(fields)))

ReadBitfield(fields, buf) ==
  LET raw(bytes, i) == (Unsigned(bytes) \div 2 ^ Offset(fields, i)) % 2 ^ fields[i].size
      val(bytes, i) == IF fields[i].signed THEN Signed(raw(bytes, i), fields[i].size) ELSE raw(bytes, i)
  IN  Mapped(Take(buf, BitfieldBytes(fields)), LAMBDA bytes :
        [compound |-> [i \in DOMAIN fields |-> [key |-> fields[i].name, val |-> Num(val(bytes, i))]]])

\* Bits without a flag are left out.
ReadBitflags(s, buf, ctx) ==
  LET set(v, i) == (AsNum(v) \div 2 ^ (i - 1 + s.shift)) % 2 = 1
  IN  Mapped(Read(s.of, buf, ctx), LAMBDA v :
        [compound |-> [i \in DOMAIN s.flags |-> [key |-> s.flags[i], val |-> [bool |-> set(v, i)]]]])

\* Elements up to the end value, or to the end of the buffer, or to one that
\* takes no bytes.
ReadMetadata(s, buf, ctx) ==
  IF buf = <<>> THEN Ok(<<>>, 0)
  ELSE IF Head(buf) = s.endVal THEN Ok(<<>>, 1)
  ELSE Then(Read(s.of, buf, ctx), buf, LAMBDA v, rest :
         IF rest = buf THEN Ok(<<>>, 0)
         ELSE Mapped(ReadMetadata(s, rest, ctx), LAMBDA vs : <<v>> \o vs))

\* Elements as long as the top bit of the first byte is set, or up to the
\* end of the buffer.
ReadTopBitSet(s, buf, ctx) ==
  IF buf = <<>> THEN Ok(<<>>, 0)
  ELSE Then(Read(s.of, <<Head(buf) % Top>> \o Tail(buf), ctx), buf, LAMBDA v, rest :
         IF Head(buf) < Top THEN Ok(<<v>>, 0)
         ELSE Mapped(ReadTopBitSet(s, rest, ctx), LAMBDA vs : <<v>> \o vs))

\* 0 and the entry itself, or the entry's id after 1.
ReadHolder(s, buf, ctx) ==
  Then(ReadVarInt(buf), buf, LAMBDA id, rest :
    IF id # 0 THEN Ok([compound |-> <<[key |-> s.baseName, val |-> Num(id - 1)]>>], 0)
    ELSE Mapped(Read(s.otherwise, rest, ctx), LAMBDA v : [compound |-> <<[key |-> s.otherName, val |-> v]>>]))

\* 0 and a name, or one more than the number of entries, which follow.  Room
\* for all of them is asked for first: for a negative number, more than there is.
ReadHolderSet(s, buf, ctx) ==
  Then(ReadVarInt(buf), buf, LAMBDA disc, rest :
    IF disc < 0 THEN Panic
    ELSE IF disc = 0
    THEN Mapped(Read(s.base, rest, ctx), LAMBDA v : [compound |-> <<[key |-> s.baseName, val |-> v]>>])
    ELSE Mapped(ReadMany(s.otherwise, disc - 1, rest, ctx),
                LAMBDA vs : [compound |-> <<[key |-> s.otherName, val |-> [list |-> vs]]>>]))

Read(s, buf, ctx) ==
  CASE s.type \in Primitives -> ReadPrimitive(s.type, buf)
    [] s.type = "named" -> Read(Types[s.name], buf, ctx)
    [] s.type \in {"pstring", "buffer"} -> ReadBuffer(s, buf, ctx)
    [] s.type = "container" -> ReadFields(s.fields, <<>>, buf, ctx)
    [] s.type = "array" -> ReadArray(s, buf, ctx)
    [] s.type = "mapper" -> ReadMapper(s, buf, ctx)
    [] s.type = "switch" ->
         IF SwitchType(s, ctx) = None THEN Ok(Void, 0) ELSE Read(SwitchType(s, ctx), buf, ctx)
    [] s.type = "option" -> ReadOption(s, buf, ctx)
    [] s.type = "bitfield" -> ReadBitfield(s.fields, buf)
    [] s.type = "bitflags" -> ReadBitflags(s, buf, ctx)
    [] s.type = "entityMetadataLoop" -> Tagged("list", ReadMetadata(s, buf, ctx))
    [] s.type = "topBitSetTerminatedArray" -> Tagged("list", ReadTopBitSet(s, buf, ctx))
    [] s.type = "registryEntryHolder" -> ReadHolder(s, buf, ctx)
    [] s.type = "registryEntryHolderSet" -> ReadHolderSet(s, buf, ctx)

-----------------------------------------------------------------------------
(* Writing.                                                                *)

WritePrimitive(name, v) ==
  CASE name = "void" -> <<>>
    [] name = "bool" -> IF v = [bool |-> TRUE] THEN <<1>> ELSE <<0>>
    [] name \in DOMAIN FixedWidth -> BigEndian(AsNum(v), FixedWidth[name])
    [] name = "varint" -> PushVarInt(AsNum(v))
    [] name = "varlong" -> PushVarLong(AsNum(v))
    [] name = "lpVec3" -> WriteLpVec3(v)
    [] name \in {"UUID", "restBuffer"} -> IF "bytes" \in DOMAIN v THEN v.bytes ELSE <<>>
    [] name \in {"anonymousNbt", "anonOptionalNbt"} ->
         Nbt!WriteAnonymous(IF "nbt" \in DOMAIN v THEN v.nbt ELSE <<>>, "Big")

RECURSIVE Write(_, _, _)

WriteMany(s, list, ctx) == FlattenSeq([i \in DOMAIN list |-> Write(s, list[i], ctx)])
WriteCount(s, count, ctx) == Write(s.countType, Num(count), ctx)

WriteBuffer(s, v, ctx) ==
  LET bytes == IF "text" \in DOMAIN v THEN TextBytes(v.text) ELSE IF "bytes" \in DOMAIN v THEN v.bytes ELSE <<>>
  IN  (IF "count" \in DOMAIN s THEN <<>> ELSE WriteCount(s, Len(bytes), ctx)) \o bytes

WriteContainer(fields, v, ctx) ==
  LET map == AsCompound(v)
      val(f) == IF f.anon THEN v ELSE Get(map, f.name)
  IN  FlattenSeq([i \in DOMAIN fields |-> Write(fields[i].schema, val(fields[i]), <<map>> \o ctx)])

WriteArray(s, v, ctx) ==
  (IF "countField" \in DOMAIN s THEN <<>> ELSE WriteCount(s, Len(AsList(v)), ctx)) \o WriteMany(s.of, AsList(v), ctx)

\* Mutant of WriteMapper: what has no name is written as the first one.
WriteMapperNamed(s, v, ctx) ==
  LET named == {n \in DOMAIN s.mappings : s.mappings[n] = ToKey(v)}
  IN  Write(s.of, Num(IF named = {} THEN 0 ELSE Min(named)), ctx)

WriteMapper(s, v, ctx) ==
  LET named == {n \in DOMAIN s.mappings : s.mappings[n] = ToKey(v)}
  IN  Write(s.of, Num(IF named = {} THEN AsNum(v) ELSE Min(named)), ctx)

WriteOption(s, v, ctx) ==
  IF v \in {Void, [bool |-> FALSE]} THEN <<0>> ELSE <<1>> \o Write(s.of, v, ctx)

WriteBitfield(fields, v) ==
  LET val(f) == AsNum(Get(AsCompound(v), f.name)) % 2 ^ f.size
      raw == FoldLeft(LAMBDA n, f : n * 2 ^ f.size + val(f), 0, fields)
  IN  BigEndian(raw, BitfieldBytes(fields))

WriteBitflags(s, v, ctx) ==
  LET set(i) == Get(AsCompound(v), s.flags[i]) = [bool |-> TRUE]
  IN  Write(s.of, Num(FoldLeft(LAMBDA n, i : n + (IF set(i) THEN 2 ^ (i - 1 + s.shift) ELSE 0), 0,
                               [i \in DOMAIN s.flags |-> i])), ctx)

WriteTopBitSet(s, v, ctx) ==
  LET list == AsList(v)
      element(i) == Write(s.of, list[i], ctx)
      marked(bytes) == [bytes EXCEPT ![1] = (bytes[1] % Top) + Top]
  IN  FlattenSeq([i \in DOMAIN list |-> IF i < Len(list) THEN marked(element(i)) ELSE element(i)])

WriteHolder(s, v, ctx) ==
  LET map == AsCompound(v)
      id == Get(map, s.baseName)
  IN  IF "num" \in DOMAIN id THEN PushVarInt(id.num + 1)
      ELSE <<0>> \o Write(s.otherwise, Get(map, s.otherName), ctx)

WriteHolderSet(s, v, ctx) ==
  LET map == AsCompound(v)
      ids == AsList(Get(map, s.otherName))
  IN  IF Has(map, s.baseName) THEN <<0>> \o Write(s.base, Get(map, s.baseName), ctx)
      ELSE PushVarInt(Len(ids) + 1) \o WriteMany(s.otherwise, ids, ctx)

Write(s, v, ctx) ==
  CASE s.type \in Primitives -> WritePrimitive(s.type, v)
    [] s.type = "named" -> Write(Types[s.name], v, ctx)
    [] s.type \in {"pstring", "buffer"} -> WriteBuffer(s, v, ctx)
    [] s.type = "container" -> WriteContainer(s.fields, v, ctx)
    [] s.type = "array" -> WriteArray(s, v, ctx)
    [] s.type = "mapper" -> WriteMapper(s, v, ctx)
    [] s.type = "switch" -> IF SwitchType(s, ctx) = None THEN <<>> ELSE Write(SwitchType(s, ctx), v, ctx)
    [] s.type = "option" -> WriteOption(s, v, ctx)
    [] s.type = "bitfield" -> WriteBitfield(s.fields, v)
    [] s.type = "bitflags" -> WriteBitflags(s, v, ctx)
    [] s.type = "entityMetadataLoop" -> WriteMany(s.of, AsList(v), ctx) \o <<s.endVal>>
    [] s.type = "topBitSetTerminatedArray" -> WriteTopBitSet(s, v, ctx)
    [] s.type = "registryEntryHolder" -> WriteHolder(s, v, ctx)
    [] s.type = "registryEntryHolderSet" -> WriteHolderSet(s, v, ctx)

=============================================================================
