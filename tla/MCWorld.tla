-------------------------------- MODULE MCWorld --------------------------------
(* A small instance of World: two chunks, of which one can be generated.    *)
EXTENDS World, TLC

CONSTANTS c1, c2, v1, v2

MCChunk == {c1, c2}
MCVersion == {v1, v2}
MCGenerator == c1 :> v1 @@ c2 :> NoColumn
=============================================================================
