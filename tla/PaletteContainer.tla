--------------------------- MODULE PaletteContainer ---------------------------
(***************************************************************************)
(* chunk/palette_container.rs: the values of a section, stored as a single *)
(* value, as indices into a palette, or directly.  A container changes     *)
(* from one to the next when it has to, and never back.  config says how   *)
(* many bits an index has at first and at most, and how many a direct      *)
(* value has.  The network format is a sequence of numbers here: bytes,    *)
(* varints and longs.                                                      *)
(***************************************************************************)
EXTENDS BitArray

Single(v, config) == [kind |-> "single", value |-> v, config |-> config]
Indirect(palette, data, config) == [kind |-> "indirect", palette |-> palette, data |-> data, config |-> config]
Direct(data) == [kind |-> "direct", data |-> data]

Panic == -1   \* in place of a value: an index beyond the palette

Value(c, i) ==
  CASE c.kind = "single" -> c.value
    [] c.kind = "direct" -> Get(c.data, i)
    [] c.kind = "indirect" ->
         IF Get(c.data, i) < Len(c.palette) THEN c.palette[Get(c.data, i) + 1] ELSE Panic

-----------------------------------------------------------------------------
SetSingle(c, i, v) ==
  IF v = c.value THEN c
  ELSE Indirect(<<c.value, v>>, Put(NewArray(c.config.bits, c.config.capacity), i, 1), c.config)

\* Mutant of ConvertToDirect: the indices are taken for the values.
ConvertIndices(c, i, v) ==
  Direct(Put(Packed(c.config.global, c.data.capacity, LAMBDA k : Get(c.data, k)), i, v))

ConvertToDirect(c, i, v) ==
  Direct(Put(Packed(c.config.global, c.data.capacity, LAMBDA k : Value(c, k)), i, v))

\* Wide enough for the last index.
Widened(c) ==
  LET bits == NeededBits(Len(c.palette) - 1)
  IN  IF bits > c.data.bits THEN [c EXCEPT !.data = ResizeBits(@, bits)] ELSE c

SetIndirect(c, i, v) ==
  LET known == {k \in DOMAIN c.palette : c.palette[k] = v}
      grown == [c EXCEPT !.palette = Append(@, v)]
  IN  IF known # {} THEN [c EXCEPT !.data = Put(@, i, (CHOOSE k \in known : \A l \in known : k <= l) - 1)]
      ELSE IF NeededBits(Len(c.palette)) > c.data.bits /\ NeededBits(Len(c.palette)) > c.config.max
           THEN ConvertToDirect(grown, i, v)
           ELSE [Widened(grown) EXCEPT !.data = Put(@, i, Len(c.palette))]

SetValue(c, i, v) ==
  CASE c.kind = "single" -> SetSingle(c, i, v)
    [] c.kind = "indirect" -> SetIndirect(c, i, v)
    [] c.kind = "direct" -> [c EXCEPT !.data = Put(@, i, v)]

-----------------------------------------------------------------------------
WriteLongs(data, noLength) == (IF noLength THEN <<>> ELSE <<Len(data.longs)>>) \o data.longs

WriteContainer(c, noLength) ==
  CASE c.kind = "single" -> <<0, c.value>> \o (IF noLength THEN <<>> ELSE <<0>>)
    [] c.kind = "indirect" ->
         <<c.data.bits, Len(c.palette)>> \o c.palette \o WriteLongs(c.data, noLength)
    [] c.kind = "direct" -> <<c.data.bits>> \o WriteLongs(c.data, noLength)

\* The longs from position at on, and the position after them.
ReadLongs(buffer, at, bits, config, noLength) ==
  LET count == IF noLength THEN LongCount(bits, config.capacity) ELSE buffer[at]
      first == IF noLength THEN at ELSE at + 1
  IN  [data |-> [longs |-> SubSeq(buffer, first, first + count - 1), bits |-> bits, capacity |-> config.capacity],
       next |-> first + count]

ReadContainer(buffer, at, config, noLength) ==
  LET bits == buffer[at]
      after == at + 2 + buffer[at + 1]   \* of a palette
      direct == ReadLongs(buffer, at + 1, bits, config, noLength)
      indirect == ReadLongs(buffer, after, bits, config, noLength)
  IN  IF bits = 0
      THEN [container |-> Single(buffer[at + 1], config), next |-> at + (IF noLength THEN 2 ELSE 3)]
      ELSE IF bits > config.max THEN [container |-> Direct(direct.data), next |-> direct.next]
      ELSE [container |-> Indirect(SubSeq(buffer, at + 2, after - 1), indirect.data, config),
            next |-> indirect.next]
=============================================================================
