----------------------------- MODULE MCRegionFile -----------------------------
(***************************************************************************)
(* A small instance of RegionFile: two chunks of one or two sectors, which *)
(* may trade places, as may their two versions.                            *)
(***************************************************************************)
EXTENDS RegionFile, TLC

CONSTANTS c1, c2, v1, v2

MCChunk == {c1, c2}
MCVersion == {v1, v2}
MCSizes == {1, 2}

Symmetry == Permutations(MCChunk) \cup Permutations(MCVersion)

\* Bound: the first call on a handle that is hurt is followed through its
\* every step, crash and error; what comes after it is not.
OneMoreWrite == trust = "lost" => phase \in Writing
=============================================================================
