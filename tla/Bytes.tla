-------------------------------- MODULE Bytes --------------------------------
(***************************************************************************)
(* What the readers and writers of bytes share: numbers of fixed width,    *)
(* varints (varint.rs) and text.  A byte has ByteBits bits, so that small  *)
(* instances can go through all of them; its top bit is the one varints    *)
(* use to say that more follows.  A reader is given the bytes from its     *)
(* position to the end of the buffer, and answers with a value and the     *)
(* number of bytes it took, or fails.                                      *)
(***************************************************************************)
EXTENDS Integers, SequencesExt, Bitwise

CONSTANTS ByteBits, ShortBytes, IntBytes, LongBytes   \* 8 and 2, 4, 8 in the code

ASSUME WidthsAssumption ==
  /\ ByteBits \in Nat \ {0, 1}
  /\ {ShortBytes, IntBytes, LongBytes} \subseteq Nat \ {0}

Fail == [ok |-> FALSE]
\* Not even an error: the task that reads ends.
Panic == [ok |-> FALSE, panic |-> TRUE]
Ok(v, n) == [ok |-> TRUE, v |-> v, n |-> n]

Byte == 0 .. 2 ^ ByteBits - 1
Top == 2 ^ (ByteBits - 1)

From(buf, n) == SubSeq(buf, n + 1, Len(buf))

\* Mutant of Take: where only the last byte is missing, it is taken for zero.
TakeOneMore(buf, n) ==
  IF n <= Len(buf) + (IF buf = <<>> THEN 0 ELSE 1)
  THEN Ok([i \in 1 .. n |-> IF i <= Len(buf) THEN buf[i] ELSE 0], n) ELSE Fail

Take(buf, n) == IF n <= Len(buf) THEN Ok(SubSeq(buf, 1, n), n) ELSE Fail

\* A reader that makes something of what it read, and one that reads on from
\* there; both fail with what they begin with.
Mapped(r, Made(_)) == IF r.ok THEN Ok(Made(r.v), r.n) ELSE r
After(n, r) == IF r.ok THEN Ok(r.v, n + r.n) ELSE r
Then(r, buf, Rest(_, _)) == IF r.ok THEN After(r.n, Rest(r.v, From(buf, r.n))) ELSE r

-----------------------------------------------------------------------------
Unsigned(bytes) == FoldLeft(LAMBDA n, b : n * 2 ^ ByteBits + b, 0, bytes)
Signed(n, bits) == IF n >= 2 ^ (bits - 1) THEN n - 2 ^ bits ELSE n

\* The k bytes of an integer, the first one the most significant.
BigEndian(n, k) ==
  [i \in 1 .. k |-> ((n % 2 ^ (k * ByteBits)) \div 2 ^ (ByteBits * (k - i))) % 2 ^ ByteBits]

ReadUnsigned(buf, k) == Mapped(Take(buf, k), Unsigned)
ReadSigned(buf, k) == Mapped(Take(buf, k), LAMBDA bytes : Signed(Unsigned(bytes), k * ByteBits))

-----------------------------------------------------------------------------
(* Varints: groups of all bits of a byte but the top one, the least         *)
(* significant first.                                                      *)

RECURSIVE PushGroups(_)
PushGroups(u) == IF u < Top THEN <<u>> ELSE <<(u % Top) + Top>> \o PushGroups(u \div Top)

PushVarInt(v) == PushGroups(v % 2 ^ (IntBytes * ByteBits))
PushVarLong(v) == PushGroups(v % 2 ^ (LongBytes * ByteBits))

\* The groups up to the first byte without the top bit; none at the end of the buffer.
Groups(buf) ==
  LET ends == {i \in 1 .. Len(buf) : buf[i] < Top}
  IN  IF ends = {} THEN <<>> ELSE SubSeq(buf, 1, Min(ends))

\* The bits that leave a word of that width are lost.
Joined(groups, bits) ==
  FoldLeft(LAMBDA v, i : v | (((groups[i] % Top) * 2 ^ (((i - 1) * (ByteBits - 1)) % bits)) % 2 ^ bits),
           0, [i \in 1 .. Len(groups) |-> i])

\* A varint has no more groups than its word needs.
MostGroups(bits) == (bits + ByteBits - 2) \div (ByteBits - 1)

ReadVar(buf, bits) ==
  LET groups == Groups(buf)
  IN  IF groups = <<>> \/ Len(groups) > MostGroups(bits) THEN Fail
      ELSE Ok(Signed(Joined(groups, bits), bits), Len(groups))

ReadVarInt(buf) == ReadVar(buf, IntBytes * ByteBits)
ReadVarLong(buf) == ReadVar(buf, LongBytes * ByteBits)

-----------------------------------------------------------------------------
(* Text in UTF-8: the characters of one byte, and the one that stands for  *)
(* bytes that are no text, which has three.                                *)

Replacement == Top
ReplacementBytes == <<2 ^ ByteBits - 1, 2 ^ ByteBits - 2, 2 ^ ByteBits - 3>>

RECURSIVE Text(_)
Text(bytes) ==
  IF bytes = <<>> THEN <<>>
  ELSE IF Head(bytes) < Top THEN <<Head(bytes)>> \o Text(Tail(bytes))
  ELSE IF IsPrefix(ReplacementBytes, bytes) THEN <<Replacement>> \o Text(From(bytes, 3))
  ELSE <<Replacement>> \o Text(Tail(bytes))

TextBytes(text) ==
  FlattenSeq([i \in 1 .. Len(text) |-> IF text[i] = Replacement THEN ReplacementBytes ELSE <<text[i]>>])
=============================================================================
