--------------------------- MODULE MCVectorEngine ---------------------------
(***************************************************************************)
(* Two vectors that may be exchanged for each other.                       *)
(***************************************************************************)
EXTENDS VectorEngine, TLC

CONSTANTS v, w

MCVectors == {v, w}
Exchange == Permutations(MCVectors)
=============================================================================
