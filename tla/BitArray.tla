------------------------------- MODULE BitArray -------------------------------
(***************************************************************************)
(* chunk/bit_array.rs: values of a few bits each, packed into longs; no    *)
(* value crosses the end of a long.  A long is a number below 2^LongBits.  *)
(***************************************************************************)
EXTENDS Integers, Sequences, SequencesExt

CONSTANT LongBits   \* 64

ASSUME LongBitsAssumption == LongBits \in Nat \ {0}

\* needed_bits: how many binary digits n has.
NeededBits(n) == CHOOSE b \in 0 .. n : n < 2 ^ b /\ \A c \in 0 .. b - 1 : n >= 2 ^ c

ValuesPerLong(bits) == LongBits \div bits
LongCount(bits, capacity) == (capacity + ValuesPerLong(bits) - 1) \div ValuesPerLong(bits)

NewArray(bits, capacity) ==
  [longs |-> [k \in 1 .. LongCount(bits, capacity) |-> 0], bits |-> bits, capacity |-> capacity]

\* As many values as the longs have room for.
FromLongs(longs, bits) ==
  [longs |-> longs, bits |-> bits, capacity |-> ValuesPerLong(bits) * Len(longs)]

Start(a, i) == i \div ValuesPerLong(a.bits) + 1
Offset(a, i) == (i % ValuesPerLong(a.bits)) * a.bits
Get(a, i) == (a.longs[Start(a, i)] \div 2 ^ Offset(a, i)) % 2 ^ a.bits

\* Mutant of Put: what was there is not cleared away.
PutOver(a, i, v) ==
  [a EXCEPT !.longs[Start(a, i)] =
     IF (v % 2 ^ a.bits) > Get(a, i)
     THEN @ + ((v % 2 ^ a.bits) - Get(a, i)) * 2 ^ Offset(a, i) ELSE @]

Put(a, i, v) ==
  [a EXCEPT !.longs[Start(a, i)] = @ + ((v % 2 ^ a.bits) - Get(a, i)) * 2 ^ Offset(a, i)]

\* An array that holds Value(i) at each i.
Packed(bits, capacity, Value(_)) ==
  FoldLeft(LAMBDA a, k : Put(a, k - 1, Value(k - 1)), NewArray(bits, capacity), [k \in 1 .. capacity |-> k])

ResizeBits(a, bits) == Packed(bits, a.capacity, LAMBDA i : Get(a, i))
=============================================================================
