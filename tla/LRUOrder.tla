------------------------------ MODULE LRUOrder ------------------------------
(***************************************************************************)
(* What the semantic cache promises about eviction: the cached keys are in *)
(* order of last use; storing a query in a full cache drops the least      *)
(* recently used key and nothing else does, except clearing the cache.     *)
(* Storing chunks never evicts.                                            *)
(***************************************************************************)
CONSTANTS
  Queries,  \* keys that are stored one by one
  Chunks,   \* keys that are stored together
  Full(_)   \* whether a set of keys is at the cache's limit

VARIABLES
  cached,  \* the cached keys
  older    \* <<j, k>> when j was last used before k

lru == <<cached, older>>

StrictOrders(S) ==
  {r \in SUBSET (S \X S) :
     /\ \A j, k \in S : j # k <=> (<<j, k>> \in r \/ <<k, j>> \in r)
     /\ \A j, k \in S : ~(<<j, k>> \in r /\ <<k, j>> \in r)
     /\ \A i, j, k \in S : <<i, j>> \in r /\ <<j, k>> \in r => <<i, k>> \in r}

\* The keys that remain, with those in used put last, in some order.
Refresh(keys, used) ==
  LET rest == keys \ used IN
  \E r \in StrictOrders(used) :
    older' = (older \cap (rest \X rest)) \cup (rest \X used) \cup r

Init == cached = {} /\ older = {}

Use(used) == used # {} /\ cached' = cached /\ Refresh(cached, used)

Oldest == {k \in cached : \A j \in cached : <<j, k>> \notin older}

Insert(q) ==
  \E gone \in IF Full(cached) THEN {{k} : k \in Oldest} ELSE {{}} :
    /\ cached' = (cached \ gone) \cup {q}
    /\ Refresh(cached', {q})

InsertChunks(chunks) ==
  /\ cached' = cached \cup chunks
  /\ Refresh(cached', chunks)

Clear == cached' = {} /\ older' = {}

Next ==
  \/ \E used \in SUBSET cached : Use(used)
  \/ \E q \in Queries : Insert(q)
  \/ \E chunks \in SUBSET Chunks : InsertChunks(chunks)
  \/ Clear

Spec == Init /\ [][Next]_lru
=============================================================================
