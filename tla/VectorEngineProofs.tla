------------------------- MODULE VectorEngineProofs -------------------------
(***************************************************************************)
(* Rows, ids and index stay aligned, and the engine uses the pool as the   *)
(* pool's specification allows, so that what is proved of the pool holds   *)
(* below it, for any vectors, ids and limits.                              *)
(***************************************************************************)
EXTENDS VectorEngine, MemoryPoolProofs

\* Vectors and ids are in step, and the index, unless it is built before the next
\* search, is of the rows that are stored.
Aligned ==
  /\ vectors \in Seq(Vectors) /\ ids \in Seq(Ids)
  /\ Count <= MaxRows
  /\ SearchFaithful

LEMMA AlignedInit == Init => Aligned
BY VectorConstants DEF Init, Aligned, SearchFaithful, Count

\* Appending a sequence.
LEMMA Appended ==
  ASSUME NEW S, NEW s \in Seq(S), NEW t \in Seq(S)
  PROVE  s \o t \in Seq(S) /\ Len(s \o t) = Len(s) + Len(t)
OBVIOUS

\* Rows after add().
LEMMA AddRows ==
  ASSUME Aligned, NEW n \in 1 .. MaxRows, NEW rows \in [1 .. n -> Vectors],
         NEW given, given \in [1 .. n -> Ids] \/ given = DefaultIds(n), Add(rows, given)
  PROVE  /\ Aligned'
         /\ given \in [1 .. n -> Ids]
         /\ Stored' = Stored \cup {<<given[i], rows[i]>> : i \in 1 .. n}
<1>0. n \in Nat /\ MaxRows \in Nat
      BY VectorConstants
<1>1. rows \in Seq(Vectors) /\ Len(rows) = n
      BY <1>0
<1>2. Count \in Nat /\ Len(ids) = Count /\ Count + n <= MaxRows
      BY <1>1 DEF Add, Aligned, SearchFaithful, Count
<1>3. given \in [1 .. n -> Ids]
  <2> SUFFICES ASSUME given = DefaultIds(n), NEW i \in 1 .. n PROVE Count + i - 1 \in Ids
      BY DEF DefaultIds
  <2>1. Count + i - 1 \in 0 .. MaxRows - 1
        BY <1>0, <1>2
  <2> QED BY <2>1, VectorConstants
<1>4. given \in Seq(Ids) /\ Len(given) = n
      BY <1>0, <1>3
<1>5. /\ vectors' = vectors \o rows /\ ids' = ids \o given /\ dirty'
      BY DEF Add
<1>6. /\ vectors' \in Seq(Vectors) /\ ids' \in Seq(Ids)
      /\ Len(vectors') = Count + n /\ Len(ids') = Count + n
  <2>1. vectors \in Seq(Vectors) /\ ids \in Seq(Ids)
        BY DEF Aligned
  <2>2. vectors' \in Seq(Vectors) /\ Len(vectors') = Count + n
        BY <1>1, <1>5, <2>1, Appended, Zenon DEF Count
  <2>3. ids' \in Seq(Ids) /\ Len(ids') = Count + n
        BY <1>2, <1>4, <1>5, <2>1, Appended, Zenon
  <2> QED BY <2>2, <2>3
<1>7. Aligned'
      BY <1>2, <1>5, <1>6 DEF Aligned, SearchFaithful, Count
<1>8. /\ \A i \in 1 .. Count : ids'[i] = ids[i] /\ vectors'[i] = vectors[i]
      /\ \A i \in 1 .. n : ids'[Count + i] = given[i] /\ vectors'[Count + i] = rows[i]
      BY <1>1, <1>2, <1>4, <1>5 DEF Aligned, Count
<1>9. Stored' = Stored \cup {<<given[i], rows[i]>> : i \in 1 .. n}
  <2>1. DOMAIN ids = 1 .. Count /\ DOMAIN ids' = 1 .. Count + n
        BY <1>2, <1>6 DEF Aligned
  <2>2. \A i \in 1 .. Count + n : i \in 1 .. Count \/ \E j \in 1 .. n : i = Count + j
    <3> SUFFICES ASSUME NEW i \in 1 .. Count + n, i \notin 1 .. Count
                 PROVE  \E j \in 1 .. n : i = Count + j
        OBVIOUS
    <3>1. i - Count \in 1 .. n /\ i = Count + (i - Count)
          BY <1>0, <1>2
    <3> QED BY <3>1
  <2>3. \A i \in 1 .. Count : i \in 1 .. Count + n
        BY <1>0, <1>2
  <2>4. \A j \in 1 .. n : Count + j \in 1 .. Count + n
        BY <1>0, <1>2
  <2>5. ASSUME NEW p \in Stored' PROVE p \in Stored \cup {<<given[i], rows[i]>> : i \in 1 .. n}
    <3>1. PICK i \in 1 .. Count + n : p = <<ids'[i], vectors'[i]>>
          BY <2>1 DEF Stored
    <3>2. CASE i \in 1 .. Count
          BY <1>8, <2>1, <3>1, <3>2 DEF Stored
    <3>3. ASSUME NEW j \in 1 .. n, i = Count + j PROVE p = <<given[j], rows[j]>>
          BY <1>8, <3>1, <3>3
    <3> QED BY <2>2, <3>2, <3>3
  <2>6. Stored \subseteq Stored'
    <3> SUFFICES ASSUME NEW i \in 1 .. Count PROVE <<ids[i], vectors[i]>> \in Stored'
        BY <2>1 DEF Stored
    <3> QED BY <1>8, <2>1, <2>3 DEF Stored
  <2>7. ASSUME NEW j \in 1 .. n PROVE <<given[j], rows[j]>> \in Stored'
        BY <1>8, <2>1, <2>4 DEF Stored
  <2> QED BY <2>5, <2>6, <2>7
<1> QED BY <1>3, <1>7, <1>9

\* Rows after remove().
LEMMA RemoveRows ==
  ASSUME Aligned, NEW gone \in SUBSET Ids, Remove(gone)
  PROVE  Aligned' /\ Stored' = {p \in Stored : p[1] \notin gone}
<1> DEFINE stay == {i \in DOMAIN ids : ids[i] \notin gone}
           m    == Cardinality(stay)
<1>0. Count \in Nat /\ DOMAIN ids = 1 .. Count /\ DOMAIN vectors = 1 .. Count
      BY DEF Aligned, SearchFaithful, Count
<1>1. m \in Nat /\ m <= Count
  <2>1. IsFiniteSet(1 .. Count) /\ Cardinality(1 .. Count) = Count
        BY <1>0, FS_Interval
  <2>2. IsFiniteSet(stay) /\ Cardinality(stay) <= Count
        BY <1>0, <2>1, FS_Subset
  <2> QED BY <2>2, FS_CardinalityType
<1>2. PICK at \in Bijection(1 .. m, stay) :
        /\ vectors' = [j \in DOMAIN at |-> vectors[at[j]]]
        /\ ids' = [j \in DOMAIN at |-> ids[at[j]]]
        /\ index' \in Built(vectors')
      BY DEF Remove, Kept
<1> HIDE DEF m
<1>3. /\ at \in [1 .. m -> stay]
      /\ \A i \in stay : \E j \in 1 .. m : at[j] = i
      BY DEF Bijection, Injection, Surjection
<1>4. /\ vectors' \in [1 .. m -> Vectors]
      /\ ids' \in [1 .. m -> Ids]
      BY <1>0, <1>2, <1>3 DEF Aligned
<1>5. /\ vectors' \in Seq(Vectors) /\ Len(vectors') = m
      /\ ids' \in Seq(Ids) /\ Len(ids') = m
      BY <1>1, <1>4
<1>6. Aligned'
  <2>1. m <= MaxRows
        BY <1>0, <1>1, VectorConstants DEF Aligned
  <2> QED BY <1>2, <1>5, <2>1 DEF Aligned, SearchFaithful, Count, Built
<1>7. \A p : p \in Stored' <=> p \in {r \in Stored : r[1] \notin gone}
      BY <1>2, <1>3, <1>4 DEF Stored
<1> QED BY <1>6, <1>7

\* What leaves vectors and ids alone leaves the pairs alone.
LEMMA SameRows == UNCHANGED <<vectors, ids>> => UNCHANGED Stored
BY DEF Stored

LEMMA SearchAligned ==
  ASSUME Aligned, Search
  PROVE  Aligned' /\ Stored' = Stored
<1>1. UNCHANGED <<vectors, ids>> /\ index' \in {NoIndex, vectors}
      BY DEF Search, Built
<1> QED BY <1>1, SameRows DEF Aligned, SearchFaithful, Count

LEMMA ShutdownAligned ==
  ASSUME Shutdown
  PROVE  Aligned' /\ Stored' = {}
BY VectorConstants DEF Shutdown, Aligned, SearchFaithful, Count, Stored

LEMMA OthersAligned ==
  ASSUME Aligned, OthersUsePool \/ UNCHANGED vars
  PROVE  Aligned' /\ Stored' = Stored
<1>1. UNCHANGED engineVars
      BY DEF OthersUsePool, vars
<1> QED BY <1>1, SameRows DEF engineVars, Aligned, SearchFaithful, Count

LEMMA AlignedStep == Aligned /\ [Next]_vars => Aligned'
BY AddRows, RemoveRows, SearchAligned, ShutdownAligned, OthersAligned DEF Next

LEMMA AlwaysAligned == Spec => []Aligned
BY AlignedInit, AlignedStep, PTL DEF Spec

\* A search that need not build the index ranks the stored rows and reports each
\* under its own id, after any sequence of additions, removals and failed builds.
THEOREM SearchesFaithful == Spec => []SearchFaithful
<1>1. Aligned => SearchFaithful
      BY DEF Aligned
<1> QED BY <1>1, AlwaysAligned, PTL

-----------------------------------------------------------------------------
(* Refinement.                                                             *)

\* The engine implements the abstract store: rows stay with their ids.
THEOREM ImplementsStore == Spec => RefinesStore
<1>1. Init => Pairs!Init
      BY DEF Init, Pairs!Init, Stored
<1>2. Aligned /\ [Next]_vars => [Pairs!Next]_Stored
  <2> SUFFICES ASSUME Aligned, [Next]_vars PROVE [Pairs!Next]_Stored
      OBVIOUS
  <2>1. ASSUME NEW n \in 1 .. MaxRows, NEW rows \in [1 .. n -> Vectors],
               NEW given, given \in [1 .. n -> Ids] \/ given = DefaultIds(n), Add(rows, given)
        PROVE  Pairs!Next
    <3> DEFINE pairs == {<<given[i], rows[i]>> : i \in 1 .. n}
    <3>1. given \in [1 .. n -> Ids] /\ Stored' = Stored \cup pairs
          BY <2>1, AddRows
    <3>2. pairs \in SUBSET (Ids \X Vectors)
          BY <3>1
    <3> QED BY <3>1, <3>2 DEF Pairs!Next, Pairs!Add
  <2>2. ASSUME NEW gone \in SUBSET Ids, Remove(gone) PROVE Pairs!Next
        BY <2>2, RemoveRows DEF Pairs!Next, Pairs!Remove
  <2>3. CASE Shutdown
        BY <2>3, ShutdownAligned DEF Pairs!Next, Pairs!Clear
  <2>4. CASE Search \/ OthersUsePool \/ UNCHANGED vars
        BY <2>4, SearchAligned, OthersAligned
  <2> QED BY <2>1, <2>2, <2>3, <2>4 DEF Next
<1> QED BY <1>1, <1>2, AlwaysAligned, PTL DEF Spec, RefinesStore, Pairs!Spec

-----------------------------------------------------------------------------
(* The pool.                                                               *)

\* The engine and the others together use the pool as its own specification
\* allows; so what is proved of the pool holds under the engine.
THEOREM UsesPool == Spec => PoolSpec
<1>1. Init => PoolInit
      BY DEF Init
<1>2. Aligned /\ [Next]_vars => [PoolNext]_poolVars
  <2> SUFFICES ASSUME Aligned, [Next]_vars PROVE [PoolNext]_poolVars
      OBVIOUS
  <2>1. ASSUME Search PROVE PoolNext \/ UNCHANGED poolVars
    <3>1. Count \in Sizes
          BY <2>1, VectorConstants DEF Aligned, Search, Count
    <3>2. TakeBlock \/ UNCHANGED poolVars
          BY <2>1 DEF Search
    <3>3. \/ UNCHANGED poolVars \/ SpillFails(BlockKey, Count) \/ Allocate(BlockKey, Count)
          BY <3>2 DEF TakeBlock
    <3> QED BY <3>1, <3>3, VectorConstants DEF PoolNext, PoolUse
  <2>2. ASSUME Shutdown PROVE PoolNext \/ UNCHANGED poolVars
    <3>1. Free(BlockKey) \/ UNCHANGED poolVars
          BY <2>2 DEF Shutdown
    <3> QED BY <3>1, VectorConstants DEF PoolNext, PoolUse
  <2>3. ASSUME OthersUsePool PROVE PoolNext
        BY <2>3 DEF OthersUsePool, PoolNext, PoolUse
  <2>4. ASSUME NEW rows, NEW given, Add(rows, given) PROVE UNCHANGED poolVars
        BY <2>4 DEF Add
  <2>5. ASSUME NEW gone, Remove(gone) PROVE UNCHANGED poolVars
        BY <2>5 DEF Remove
  <2> QED BY <2>1, <2>2, <2>3, <2>4, <2>5 DEF Next, vars
<1> QED BY <1>1, <1>2, AlwaysAligned, PTL DEF Spec, PoolSpec

\* Under the engine, too: VRAM is never overfull, ...
THEOREM VramNeverOverfullUnderEngine == Spec => []VramWithinTotal
BY UsesPool, VramNeverOverfull, PTL

\* ... the RAM counter never falls behind nor passes the limit, ...
THEOREM RamStaysAccountedUnderEngine == Spec => []RamAccounted
BY UsesPool, RamStaysAccounted, PTL

\* ... and a block loses its data only to a spill of its key that fails.
THEOREM DataLostOnlyByFailedSpillUnderEngine == Spec => SpilledDataKept
BY UsesPool, DataLostOnlyByFailedSpill, PTL

\* What is left of the engine's types beside the rows and the pool.
EngineTypeOK ==
  /\ index \in Seq(Vectors) \cup {NoIndex}
  /\ dirty \in BOOLEAN /\ held \in BOOLEAN

\* The state of the engine and of the pool below it keeps its types.
THEOREM EngineTypeCorrect == Spec => []TypeOK
<1>1. Init => EngineTypeOK
      BY DEF Init, EngineTypeOK
<1>2. Aligned /\ Aligned' /\ EngineTypeOK /\ [Next]_vars => EngineTypeOK'
  <2> SUFFICES ASSUME Aligned, Aligned', EngineTypeOK, [Next]_vars PROVE EngineTypeOK'
      OBVIOUS
  <2>1. vectors \in Seq(Vectors) /\ vectors' \in Seq(Vectors)
        BY DEF Aligned
  <2>2. ASSUME NEW rows, NEW given, Add(rows, given) PROVE EngineTypeOK'
        BY <2>2 DEF Add, EngineTypeOK
  <2>3. ASSUME Search PROVE EngineTypeOK'
    <3>1. held' \in BOOLEAN
          BY <2>3 DEF Search, TakeBlock, EngineTypeOK
    <3> QED BY <2>1, <2>3, <3>1 DEF Search, Built, EngineTypeOK
  <2>4. ASSUME NEW gone, Remove(gone) PROVE EngineTypeOK'
        BY <2>1, <2>4 DEF Remove, Built, EngineTypeOK
  <2>5. ASSUME Shutdown PROVE EngineTypeOK'
        BY <2>5 DEF Shutdown, EngineTypeOK
  <2>6. ASSUME UNCHANGED engineVars PROVE EngineTypeOK'
        BY <2>6 DEF engineVars, EngineTypeOK
  <2> QED BY <2>2, <2>3, <2>4, <2>5, <2>6 DEF Next, OthersUsePool, vars
<1>3. Spec => []EngineTypeOK
      BY <1>1, <1>2, AlwaysAligned, PTL DEF Spec
<1>4. Spec => []PoolTypeOK
      BY UsesPool, PoolTypeCorrect, PTL
<1>5. Aligned /\ EngineTypeOK /\ PoolTypeOK => TypeOK
      BY DEF Aligned, EngineTypeOK, TypeOK
<1> QED BY <1>3, <1>4, <1>5, AlwaysAligned, PTL

\* A block the pool holds for the index is given back by shutdown(), whatever was
\* evicted, refused or allocated again before.
THEOREM BlockIsGivenBack == Spec => []BlockGivenBack
<1>1. Init => BlockGivenBack
      BY DEF Init, PoolInit, BlockGivenBack, Allocated
<1>2. BlockGivenBack /\ [Next]_vars => BlockGivenBack'
  <2> SUFFICES ASSUME BlockGivenBack, [Next]_vars PROVE BlockGivenBack'
      OBVIOUS
  <2>1. ASSUME UNCHANGED <<poolVars, held>> PROVE BlockGivenBack'
        BY <2>1 DEF BlockGivenBack, Allocated, poolVars
  <2>2. ASSUME Search PROVE BlockGivenBack'
    <3>1. UNCHANGED <<poolVars, held>> \/ TakeBlock
          BY <2>2 DEF Search
    <3>2. CASE SpillFails(BlockKey, Count) /\ UNCHANGED held
          BY <3>2 DEF SpillFails, BlockGivenBack, Allocated
    <3> QED BY <2>1, <3>1, <3>2 DEF TakeBlock, BlockGivenBack
  <2>3. ASSUME NEW ks, FreeAll(ks), UNCHANGED held PROVE BlockGivenBack'
        BY <2>3 DEF FreeAll, Without, BlockGivenBack, Allocated
  <2>4. ASSUME Shutdown PROVE BlockGivenBack'
    <3>1. CASE held /\ BlockKey \in Allocated
          BY <2>4, <3>1 DEF Shutdown, Free, FreeAll, Without, BlockGivenBack, Allocated
    <3>2. CASE BlockKey \notin Allocated
          BY <2>4, <3>2 DEF Shutdown, BlockGivenBack, Allocated, poolVars
    <3> QED BY <3>1, <3>2 DEF BlockGivenBack
  <2>5. ASSUME OthersUsePool PROVE BlockGivenBack'
    <3>1. UNCHANGED held
          BY <2>5 DEF OthersUsePool, engineVars
    <3>2. ASSUME NEW k \in Keys \ {BlockKey}, NEW size \in Sizes,
                 Allocate(k, size) \/ SpillFails(k, size)
          PROVE  BlockGivenBack'
          BY <3>1, <3>2 DEF Allocate, Put, SpillFails, BlockGivenBack, Allocated
    <3> QED BY <2>3, <2>5, <3>1, <3>2 DEF OthersUsePool, PoolUse, Free, EvictLru, PoolShutdown
  <2> QED BY <2>1, <2>2, <2>4, <2>5 DEF Next, Add, Remove, vars, engineVars
<1> QED BY <1>1, <1>2, PTL DEF Spec
=============================================================================
