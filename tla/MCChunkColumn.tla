---------------------------- MODULE MCChunkColumn ----------------------------
(* Two sections of two layers of three cells, longs of four bits: a        *)
(* palette of two, then of four values, then direct.  At one bit the six   *)
(* values of a section leave two places of the second long to spare, as    *)
(* the 4096 do in the code at five, six and seven bits.                    *)
EXTENDS ChunkColumn

MCMinY == -2
MCCoarse == [c \in 0 .. 2 |-> c]
MCBlockBits == [bits |-> 1, max |-> 2, global |-> 3]
MCBiomeBits == [bits |-> 1, max |-> 1, global |-> 2]

\* In the lower section two places, in the upper one and one outside.
MCBlockEdits ==
  {[y |-> -2, cell |-> 1, id |-> v] : v \in 0 .. 4} \cup {[y |-> -1, cell |-> 2, id |-> 2]}
  \cup {[y |-> 0, cell |-> 1, id |-> 3], [y |-> 2, cell |-> 0, id |-> 1]}
MCBiomeEdits == {[y |-> -1, cell |-> 0, id |-> v] : v \in 0 .. 2}
MCLightEdits == {[y |-> -1, cell |-> 1, value |-> v] : v \in {0, 3}}

\* A section with a palette and one that is direct, biomes alike.
MCReceived == {<<2, 2, 3, 0, 4, 2>> \o <<6, 0, 0>> \o <<1, 2, 0, 1>> \o <<5>>
               \o <<3, 3>> \o <<1, 0, 4, 2, 0, 0>> \o <<0, 2>>}
MCReceivedLight == {[mask |-> <<5>>, empty |-> <<2>>, data |-> <<<<1, 3, 0>>, <<8, 0, 4>>>>]}

\* Bound: light, which no action relates to blocks and biomes, is followed
\* in a column without any.
Apart == light = NewLight \/ (sections = NewSections /\ biomes = NewBiomes)
=============================================================================
