---------------------------- MODULE VectorStore ----------------------------
(***************************************************************************)
(* What the vector engine promises: it stores vectors under ids, and an id *)
(* that is removed takes exactly its own vectors with it.                  *)
(***************************************************************************)
CONSTANTS
  Ids,      \* what a vector may be stored under
  Vectors

VARIABLE stored  \* the pairs <<id, vector>> that are stored

Init == stored = {}

Add(pairs) == stored' = stored \cup pairs

Remove(gone) == stored' = {p \in stored : p[1] \notin gone}

Clear == stored' = {}

Next ==
  \/ \E pairs \in SUBSET (Ids \X Vectors) : Add(pairs)
  \/ \E gone \in SUBSET Ids : Remove(gone)
  \/ Clear

Spec == Init /\ [][Next]_stored
=============================================================================
