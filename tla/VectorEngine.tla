---------------------------- MODULE VectorEngine ----------------------------
(***************************************************************************)
(* VectorEngine (engines/vector_engine.py): rows of vectors with their ids *)
(* in a list beside them, an index that is built again before the first    *)
(* search after an insertion, and a block in the memory pool for the copy  *)
(* on the GPU.  Agents and the scheduler use the same pool in between.     *)
(*                                                                         *)
(* The calls are made one at a time.  A caller gives as many ids as        *)
(* vectors.  Scores are left out: a search is judged by the rows it ranks. *)
(* _count is the number of rows; a matrix of no rows and None are one.     *)
(***************************************************************************)
EXTENDS MemoryPool, Sequences

CONSTANTS
  Vectors,
  Ids,            \* the ids vectors may have
  MaxRows,        \* bound: rows stored
  BuildMin,       \* 100 in the code: smaller sets of rows get no FAISS index
  FaissAvailable, \* _faiss_available
  Cuda,           \* _torch_available
  NoIndex

BlockKey == "vector_index"

ASSUME VectorConstants ==
  /\ BlockKey \in Keys /\ 1 .. MaxRows \subseteq Sizes
  /\ MaxRows \in Nat /\ BuildMin \in Nat /\ Ids \subseteq Nat
  /\ 0 .. MaxRows - 1 \subseteq Ids
  /\ FaissAvailable \in BOOLEAN /\ Cuda \in BOOLEAN
  /\ NoIndex \notin Seq(Vectors)

VARIABLES
  vectors,  \* _vectors, a sequence of rows
  ids,      \* _ids
  index,    \* _index: the rows it was built of, or NoIndex
  dirty,    \* _dirty
  held      \* _memory_block is not None

engineVars == <<vectors, ids, index, dirty, held>>
vars == <<poolVars, engineVars>>

Count == Len(vectors)

Init ==
  /\ PoolInit
  /\ vectors = <<>> /\ ids = <<>> /\ index = NoIndex
  /\ dirty = FALSE /\ held = FALSE

\* What _build_index() may make of rows: a failure of FAISS leaves no index.
Built(rows) ==
  {NoIndex} \cup {r \in {rows} : FaissAvailable /\ Len(rows) >= BuildMin}

DefaultIds(n) == [i \in 1 .. n |-> Count + i - 1]

\* add()
Add(rows, given) ==
  /\ Count + Len(rows) <= MaxRows
  /\ vectors' = vectors \o rows /\ ids' = ids \o given
  /\ dirty' = TRUE
  /\ UNCHANGED <<poolVars, index, held>>

\* Mutant: the block is taken, but not remembered.
TakeBlockUnheld ==
  Allocate(BlockKey, Count) /\ UNCHANGED held

\* _allocate_vram(): the copy on the GPU may fail before the pool is asked, and
\* the pool may fail to spill; neither stops the search.
TakeBlock ==
  \/ UNCHANGED <<poolVars, held>>
  \/ SpillFails(BlockKey, Count) /\ UNCHANGED held
  \/ Allocate(BlockKey, Count) /\ held' = TRUE
  \/ Suffices(BlockKey, Count) /\ UNCHANGED poolVars /\ held' = TRUE

\* search() and search_batch() change something by _ensure_index() only.
Search ==
  /\ Count > 0 /\ dirty
  /\ index' \in Built(vectors)
  /\ IF Cuda THEN TakeBlock ELSE UNCHANGED <<poolVars, held>>
  /\ dirty' = FALSE
  /\ UNCHANGED <<vectors, ids>>

\* The positions of the rows that stay, in their order.
Kept(gone) ==
  LET stay == {i \in DOMAIN ids : ids[i] \notin gone} IN
  {at \in Bijection(1 .. Cardinality(stay), stay) :
     \A i, j \in DOMAIN at : i < j => at[i] < at[j]}

\* Mutants: the mask is left out for the ids, or the old index survives.
RemoveRowsOnly(gone) ==
  \E at \in Kept(gone) :
    /\ vectors' = [j \in DOMAIN at |-> vectors[at[j]]]
    /\ ids' = SubSeq(ids, 1, Len(at))
    /\ index' \in Built(vectors')
    /\ UNCHANGED <<poolVars, dirty, held>>
RemoveKeepsIndex(gone) ==
  \E at \in Kept(gone) :
    /\ vectors' = [j \in DOMAIN at |-> vectors[at[j]]]
    /\ ids' = [j \in DOMAIN at |-> ids[at[j]]]
    /\ UNCHANGED <<poolVars, index, dirty, held>>

\* remove(); the block keeps its size.
Remove(gone) ==
  \E at \in Kept(gone) :
    /\ vectors' = [j \in DOMAIN at |-> vectors[at[j]]]
    /\ ids' = [j \in DOMAIN at |-> ids[at[j]]]
    /\ index' \in Built(vectors')
    /\ UNCHANGED <<poolVars, dirty, held>>

\* shutdown(); the block may have been evicted by then.
Shutdown ==
  /\ IF held /\ BlockKey \in Allocated THEN Free(BlockKey) ELSE UNCHANGED poolVars
  /\ vectors' = <<>> /\ ids' = <<>> /\ index' = NoIndex
  /\ dirty' = FALSE /\ held' = FALSE

OthersUsePool == PoolUse(Keys \ {BlockKey}) /\ UNCHANGED engineVars

Next ==
  \/ \E n \in 1 .. MaxRows : \E rows \in [1 .. n -> Vectors] :
       \/ Add(rows, DefaultIds(n))
       \/ \E given \in [1 .. n -> Ids] : Add(rows, given)
  \/ Search
  \/ \E gone \in SUBSET Ids : Remove(gone)
  \/ Shutdown
  \/ OthersUsePool

Spec == Init /\ [][Next]_vars

-----------------------------------------------------------------------------
(* Properties.                                                             *)

TypeOK ==
  /\ PoolTypeOK
  /\ vectors \in Seq(Vectors) /\ ids \in Seq(Ids) /\ index \in Seq(Vectors) \cup {NoIndex}
  /\ dirty \in BOOLEAN /\ held \in BOOLEAN

\* Whenever a search need not build the index, the index ranks the rows that are
\* stored, and each row has the id the search reports it under.
SearchFaithful ==
  /\ Len(ids) = Count
  /\ dirty \/ index = NoIndex \/ index = vectors

\* A block the pool holds for the index is one that shutdown() gives back,
\* whatever was evicted, allocated again or refused in between.
BlockGivenBack == BlockKey \in Allocated => held

Stored == {<<ids[i], vectors[i]>> : i \in DOMAIN ids}

Pairs == INSTANCE VectorStore WITH stored <- Stored

\* Rows stay with their ids through every sequence of calls.
RefinesStore == Pairs!Spec
=============================================================================
