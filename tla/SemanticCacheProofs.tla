------------------------ MODULE SemanticCacheProofs ------------------------
(***************************************************************************)
(* Theorems about the semantic cache, for every set of keys, every         *)
(* similarity and bucket function and every limit; the last one, that it   *)
(* implements LRUOrder.                                                    *)
(***************************************************************************)
EXTENDS SemanticCache, FiniteSetTheorems, TLAPS

-----------------------------------------------------------------------------
(* Lemmas about the operators the actions are built from.                  *)

\* The timestamps after any operation are again in the counter's range.
LEMMA StampedType ==
  ASSUME TypeOK,
         NEW keys, NEW at, NEW n \in Nat, at \in [DOMAIN at -> 0 .. n],
         keys \subseteq Cached \cup DOMAIN at
  PROVE  Stamped(keys, at) \in [keys -> 0 .. MaxCycles - 1]
<1> SUFFICES ASSUME NEW k \in keys
             PROVE  Stamped(keys, at)[k] \in 0 .. MaxCycles - 1
    BY DEF Stamped
<1>1. CASE k \in DOMAIN at
  <2>1. at[k] \in Nat /\ cycle \in Nat
        BY <1>1, CacheConstants DEF TypeOK
  <2>2. (cycle + at[k]) % MaxCycles \in 0 .. MaxCycles - 1
        BY <2>1, CacheConstants
  <2> QED BY <1>1, <2>2 DEF Stamped
<1>2. CASE k \notin DOMAIN at
  <2>1. k \in Cached BY <1>2
  <2> QED BY <1>2, <2>1 DEF Stamped, TypeOK
<1> QED BY <1>1, <1>2

\* The counter stays in its range.
LEMMA AdvanceType ==
  ASSUME TypeOK, NEW n \in Nat, AdvanceCycle(n)
  PROVE  cycle' \in 0 .. MaxCycles - 1
BY CacheConstants DEF AdvanceCycle, TypeOK

\* Storing embeddings keeps every key's embedding one of the callers'.
LEMMA StoredType ==
  ASSUME TypeOK, NEW keys, NEW new, new \in [DOMAIN new -> Embeddings],
         keys \subseteq Cached \cup DOMAIN new
  PROVE  Stored(keys, new) \in [keys -> Embeddings]
BY DEF Stored, TypeOK, Cached

\* Filing new keys keeps the index a function from buckets to keys.
LEMMA ReindexedType ==
  ASSUME TypeOK, NEW gone, NEW new, DOMAIN new \subseteq Keys
  PROVE  [b \in Bucket |-> Reindexed(b, gone, new)] \in [Bucket -> SUBSET Keys]
BY DEF Reindexed, Cleaned, Filed, TypeOK

LEMMA RememberType ==
  ASSUME TypeOK, Remember
  PROVE  history' \in 0 .. PrefetchWindow
BY CacheConstants DEF Remember, TypeOK

-----------------------------------------------------------------------------
(* Type correctness.                                                       *)

LEMMA TypeInit == ASSUME Init PROVE TypeOK
<1>1. Cached = {} /\ embeddings \in [Cached -> Embeddings]
      BY DEF Init, Cached
<1>2. timestamps \in [Cached -> 0 .. MaxCycles - 1]
      BY <1>1 DEF Init
<1>3. cycle \in 0 .. MaxCycles - 1 /\ history \in 0 .. PrefetchWindow
      BY CacheConstants DEF Init
<1> QED BY <1>1, <1>2, <1>3 DEF Init, TypeOK

LEMMA TypeNext ==
  ASSUME TypeOK, [Next]_vars PROVE TypeOK'
<1>1. ASSUME NEW q \in Queries, NEW e \in EmbedsAs[q], Insert(q, e)
      PROVE  TypeOK'
  <2>1. PICK gone \in Victims :
          LET kept == (Cached \ gone) \cup {q}
              new  == [k \in {q} |-> e] IN
          /\ embeddings' = Stored(kept, new)
          /\ timestamps' = Stamped(kept, [k \in {q} |-> 0])
          /\ AdvanceCycle(1)
          /\ lshBucketIndex' = [b \in Bucket |-> Reindexed(b, gone, new)]
          /\ Remember
          /\ UNCHANGED queried
        BY <1>1 DEF Insert
  <2> DEFINE kept == (Cached \ gone) \cup {q}
             new == [k \in {q} |-> e]
             at == [k \in {q} |-> 0]
  <2>2. q \in Keys /\ e \in Embeddings
        BY CacheConstants DEF Keys
  <2>3. kept \subseteq Keys /\ kept \subseteq Cached \cup {q}
        BY <2>2 DEF TypeOK
  <2>4. embeddings' \in [kept -> Embeddings]
        BY <2>1, <2>2, <2>3, StoredType
  <2>5. Cached' = kept
        BY <2>4 DEF Cached
  <2>6. timestamps' \in [kept -> 0 .. MaxCycles - 1]
        BY <2>1, <2>3, StampedType, at \in [DOMAIN at -> 0 .. 0]
  <2>7. lshBucketIndex' \in [Bucket -> SUBSET Keys]
        BY <2>1, <2>2, ReindexedType
  <2>8. cycle' \in 0 .. MaxCycles - 1 /\ history' \in 0 .. PrefetchWindow
        BY <2>1, AdvanceType, RememberType
  <2> QED BY <2>1, <2>3, <2>4, <2>5, <2>6, <2>7, <2>8 DEF TypeOK
<1>2. ASSUME NEW d \in Documents, NEW n \in 1 .. MaxSentences,
             NEW embs \in [0 .. n - 1 -> Embeddings],
             InsertSentenceChunks(d, n, embs)
      PROVE  TypeOK'
  <2> DEFINE chunk == {d} \X (0 .. n - 1)
             kept == Cached \cup chunk
             new == [k \in chunk |-> embs[k[2]]]
             at == [k \in chunk |-> k[2]]
  <2>1. n \in Nat /\ chunk \subseteq Keys
        BY CacheConstants DEF Keys, Chunks
  <2>2. new \in [chunk -> Embeddings] /\ at \in [chunk -> 0 .. n]
        BY <2>1
  <2>3. kept \subseteq Keys
        BY <2>1 DEF TypeOK
  <2>4. embeddings' \in [kept -> Embeddings]
        BY <1>2, <2>2, StoredType DEF InsertSentenceChunks
  <2>5. Cached' = kept
        BY <2>4 DEF Cached
  <2>6. timestamps' \in [kept -> 0 .. MaxCycles - 1]
        BY <1>2, <2>1, <2>2, StampedType DEF InsertSentenceChunks
  <2>7. lshBucketIndex' \in [Bucket -> SUBSET Keys]
        BY <1>2, <2>1, <2>2, ReindexedType DEF InsertSentenceChunks
  <2>8. cycle' \in 0 .. MaxCycles - 1
        BY <1>2, <2>1, AdvanceType DEF InsertSentenceChunks
  <2> QED BY <1>2, <2>3, <2>4, <2>5, <2>6, <2>7, <2>8 DEF TypeOK, InsertSentenceChunks
<1>3. ASSUME NEW e \in Embeddings, Lookup(e)
      PROVE  TypeOK'
  <2>1. PICK k \in Outcomes(e) :
          /\ queried' = TRUE
          /\ Remember
          /\ UNCHANGED <<embeddings, lshBucketIndex>>
          /\ IF k \in Cached
               THEN timestamps' = Stamped(Cached, [j \in {k} |-> 0]) /\ AdvanceCycle(1)
               ELSE UNCHANGED <<timestamps, cycle>>
        BY <1>3 DEF Lookup, Answer
  <2> DEFINE at == [j \in {k} |-> 0]
  <2>2. at \in [DOMAIN at -> 0 .. 0]
        OBVIOUS
  <2>3. timestamps' \in [Cached -> 0 .. MaxCycles - 1] /\ cycle' \in 0 .. MaxCycles - 1
    <3>1. CASE k \in Cached
          BY <2>1, <2>2, <3>1, StampedType, AdvanceType
    <3>2. CASE k \notin Cached
          BY <2>1, <3>2 DEF TypeOK
    <3> QED BY <3>1, <3>2
  <2>4. Cached' = Cached
        BY <2>1 DEF Cached
  <2> QED BY <2>1, <2>3, <2>4, RememberType DEF TypeOK
<1>4. ASSUME NEW b \in Bucket, NEW n \in 1 .. PrefetchWindow,
             NEW touched \in SUBSET (lshBucketIndex[b] \cap Cached),
             NEW at \in [touched -> 0 .. n - 1],
             SpeculativePrefetch(b, n, touched, at)
      PROVE  TypeOK'
  <2>1. n \in Nat /\ at \in [DOMAIN at -> 0 .. n]
        BY CacheConstants
  <2>2. timestamps' \in [Cached -> 0 .. MaxCycles - 1]
        BY <1>4, <2>1, StampedType DEF SpeculativePrefetch
  <2>3. cycle' \in 0 .. MaxCycles - 1
        BY <1>4, <2>1, AdvanceType DEF SpeculativePrefetch
  <2> QED BY <1>4, <2>2, <2>3 DEF TypeOK, SpeculativePrefetch, Cached
<1>5. CASE Clear
      BY <1>5, CacheConstants DEF Clear, TypeOK, Cached
<1>6. CASE UNCHANGED vars
      BY <1>6 DEF vars, TypeOK, Cached
<1> QED BY <1>1, <1>2, <1>3, <1>4, <1>5, <1>6 DEF Next

\* The engine's dictionaries keep the same keys and its counters their ranges.
THEOREM TypeCorrect == Spec => []TypeOK
BY TypeInit, TypeNext, PTL DEF Spec
-----------------------------------------------------------------------------
(* The bucket index.                                                       *)

\* Cleaning the buckets of evicted keys and filing stored ones leaves every key
\* that remains under the bucket of the embedding it then has.
LEMMA ReindexedKeepsFiled ==
  ASSUME TypeOK, EntriesIndexed, LshEnabled,
         NEW gone, NEW new, new \in [DOMAIN new -> Embeddings],
         NEW kept, kept \subseteq (Cached \ gone) \cup DOMAIN new,
         NEW k \in kept
  PROVE  /\ BucketOf[Stored(kept, new)[k]] \in Bucket
         /\ k \in Reindexed(BucketOf[Stored(kept, new)[k]], gone, new)
<1>1. CASE k \in DOMAIN new
  <2>1. Stored(kept, new)[k] = new[k]
        BY <1>1 DEF Stored
  <2> QED BY <1>1, <2>1, CacheConstants DEF Reindexed, Filed
<1>2. CASE k \notin DOMAIN new
  <2>1. Stored(kept, new)[k] = embeddings[k] /\ k \in Cached \ gone
        BY <1>2 DEF Stored
  <2>2. k \in lshBucketIndex[BucketOf[embeddings[k]]] /\ embeddings[k] \in Embeddings
        BY <2>1 DEF EntriesIndexed, TypeOK
  <2> QED BY <2>1, <2>2, CacheConstants DEF Reindexed, Cleaned
<1> QED BY <1>1, <1>2

LEMMA IndexedInit == ASSUME Init PROVE EntriesIndexed
BY DEF Init, EntriesIndexed, Cached

LEMMA IndexedNext ==
  ASSUME TypeOK, EntriesIndexed, [Next]_vars PROVE EntriesIndexed'
<1> SUFFICES ASSUME LshEnabled, NEW k \in Cached'
             PROVE  k \in lshBucketIndex'[BucketOf[embeddings'[k]]]
    BY DEF EntriesIndexed
<1>1. ASSUME NEW q \in Queries, NEW e \in EmbedsAs[q], Insert(q, e)
      PROVE  k \in lshBucketIndex'[BucketOf[embeddings'[k]]]
  <2> DEFINE new == [j \in {q} |-> e]
  <2>1. PICK gone \in Victims :
          /\ embeddings' = Stored((Cached \ gone) \cup {q}, new)
          /\ lshBucketIndex' = [b \in Bucket |-> Reindexed(b, gone, new)]
        BY <1>1 DEF Insert
  <2>2. new \in [DOMAIN new -> Embeddings]
        BY CacheConstants DEF Keys
  <2>3. k \in (Cached \ gone) \cup {q}
        BY <2>1 DEF Cached, Stored
  <2> QED BY <2>1, <2>2, <2>3, ReindexedKeepsFiled
<1>2. ASSUME NEW d \in Documents, NEW n \in 1 .. MaxSentences,
             NEW embs \in [0 .. n - 1 -> Embeddings],
             InsertSentenceChunks(d, n, embs)
      PROVE  k \in lshBucketIndex'[BucketOf[embeddings'[k]]]
  <2> DEFINE chunk == {d} \X (0 .. n - 1)
             new == [j \in chunk |-> embs[j[2]]]
  <2>1. /\ embeddings' = Stored(Cached \cup chunk, new)
        /\ lshBucketIndex' = [b \in Bucket |-> Reindexed(b, {}, new)]
        BY <1>2 DEF InsertSentenceChunks
  <2>2. new \in [DOMAIN new -> Embeddings]
        OBVIOUS
  <2>3. k \in Cached \cup chunk
        BY <2>1 DEF Cached, Stored
  <2> QED BY <2>1, <2>2, <2>3, ReindexedKeepsFiled
<1>3. CASE UNCHANGED <<embeddings, lshBucketIndex>>
      BY <1>3 DEF EntriesIndexed, Cached
<1>4. CASE Clear
      BY <1>4 DEF Clear, Cached
<1> QED BY <1>1, <1>2, <1>3, <1>4 DEF Next, Lookup, Answer, SpeculativePrefetch, vars

\* Every cached key is filed where a search for its embedding looks.
THEOREM AlwaysIndexed == Spec => []EntriesIndexed
<1>1. Init => TypeOK /\ EntriesIndexed
      BY TypeInit, IndexedInit
<1>2. TypeOK /\ EntriesIndexed /\ [Next]_vars => (TypeOK /\ EntriesIndexed)'
      BY TypeNext, IndexedNext
<1> QED BY <1>1, <1>2, PTL DEF Spec

\* The key of a cached entry is near its own embedding.
LEMMA NearItself ==
  ASSUME TypeOK, EntriesIndexed, LshEnabled, NEW k \in Cached
  PROVE  k \in Nearby(embeddings[k])
<1>1. embeddings[k] \in Embeddings
      BY DEF TypeOK
<1>2. BucketOf[embeddings[k]] \in 0 .. Buckets - 1 /\ Buckets \in Nat \ {0}
      BY <1>1, CacheConstants DEF Bucket
<1>3. (BucketOf[embeddings[k]] + 0) % Buckets = BucketOf[embeddings[k]]
      BY <1>2
<1>4. k \in lshBucketIndex[BucketOf[embeddings[k]]]
      BY DEF EntriesIndexed
<1> QED BY <1>3, <1>4 DEF Nearby

\* Without a GPU, a lookup of the embedding an entry was stored with hits.
THEOREM ExactLookups == ASSUME ~GpuAvailable PROVE Spec => []ExactLookupHits
<1>1. ASSUME TypeOK, EntriesIndexed PROVE ExactLookupHits
  <2> SUFFICES ASSUME NEW k \in Cached PROVE NoKey \notin Outcomes(embeddings[k])
      BY DEF ExactLookupHits
  <2> DEFINE e == embeddings[k]
             similar == Similar(e, Candidates(e))
  <2>1. e \in Embeddings
        BY <1>1 DEF TypeOK
  <2>2. k \in Candidates(e)
    <3>1. CASE LshEnabled
          BY <1>1, <3>1, NearItself DEF Candidates
    <3>2. CASE ~LshEnabled
          BY <3>2 DEF Candidates
    <3> QED BY <3>1, <3>2
  <2>3. k \in similar
        BY <2>1, <2>2, CacheConstants DEF Similar
  <2>4. Outcomes(e) = Best(e, similar)
        BY <2>3 DEF Outcomes, OnGpu
  <2>5. Best(e, similar) \subseteq Keys
        BY <1>1 DEF Best, Similar, TypeOK
  <2> QED BY <2>4, <2>5, CacheConstants
<1> QED BY <1>1, TypeCorrect, AlwaysIndexed, PTL

\* A search for chunks ranks a cached chunk whose own embedding is searched for.
THEOREM ExactChunks == Spec => []ExactChunkFound
<1>1. ASSUME TypeOK, EntriesIndexed PROVE ExactChunkFound
  <2> SUFFICES ASSUME NEW k \in Cached \cap Chunks PROVE k \in ChunkMatches(embeddings[k])
      BY DEF ExactChunkFound
  <2> DEFINE e == embeddings[k]
             searched == IF LshEnabled /\ Nearby(e) # {} THEN Nearby(e) ELSE Cached
  <2>1. e \in Embeddings
        BY <1>1 DEF TypeOK
  <2>2. k \in searched
        BY <1>1, NearItself
  <2>3. k \in Similar(e, searched)
        BY <2>1, <2>2, CacheConstants DEF Similar
  <2> QED BY <2>3 DEF ChunkMatches
<1> QED BY <1>1, TypeCorrect, AlwaysIndexed, PTL

-----------------------------------------------------------------------------
(* Capacity.                                                               *)

LEMMA CachedFiniteInit == ASSUME Init PROVE IsFiniteSet(Cached)
<1>1. Cached = {}
      BY DEF Init, Cached
<1> QED BY <1>1, FS_EmptySet

\* What an operation that stores leaves cached.
LEMMA InsertStores ==
  ASSUME NEW q \in Queries, NEW e \in EmbedsAs[q], Insert(q, e)
  PROVE  \E gone \in Victims : Cached' = (Cached \ gone) \cup {q}
BY DEF Insert, Cached, Stored

LEMMA ChunksStored ==
  ASSUME NEW d \in Documents, NEW n \in 1 .. MaxSentences,
         NEW embs \in [0 .. n - 1 -> Embeddings], InsertSentenceChunks(d, n, embs)
  PROVE  Cached' = Cached \cup ({d} \X (0 .. n - 1))
BY DEF InsertSentenceChunks, Cached, Stored

LEMMA CachedFiniteNext ==
  ASSUME IsFiniteSet(Cached), [Next]_vars PROVE IsFiniteSet(Cached')
<1>1. ASSUME NEW q \in Queries, NEW e \in EmbedsAs[q], Insert(q, e)
      PROVE  IsFiniteSet(Cached')
  <2>1. PICK gone \in Victims : Cached' = (Cached \ gone) \cup {q}
        BY <1>1, InsertStores
  <2>2. IsFiniteSet(Cached \ gone)
        BY FS_Difference
  <2> QED BY <2>1, <2>2, FS_AddElement
<1>2. ASSUME NEW d \in Documents, NEW n \in 1 .. MaxSentences,
             NEW embs \in [0 .. n - 1 -> Embeddings], InsertSentenceChunks(d, n, embs)
      PROVE  IsFiniteSet(Cached')
  <2>1. IsFiniteSet({d}) /\ IsFiniteSet(0 .. n - 1)
    <3>1. n - 1 \in Int /\ 0 \in Int
          BY CacheConstants
    <3>2. IsFiniteSet({d})
          BY FS_Singleton
    <3> QED BY <3>1, <3>2, FS_Interval
  <2>2. IsFiniteSet({d} \X (0 .. n - 1))
        BY <2>1, FS_Product
  <2>3. Cached' = Cached \cup ({d} \X (0 .. n - 1))
        BY <1>2, ChunksStored
  <2> QED BY <2>2, <2>3, FS_Union, Zenon
<1>3. CASE UNCHANGED embeddings
      BY <1>3 DEF Cached
<1>4. CASE Clear
  <2>1. Cached' = {}
        BY <1>4 DEF Clear, Cached
  <2> QED BY <2>1, FS_EmptySet
<1> QED BY <1>1, <1>2, <1>3, <1>4 DEF Next, Lookup, Answer, SpeculativePrefetch, vars

\* A query that is new to the cache makes room for itself, for any limit and
\* whatever was evicted, re-inserted or filled by chunks before.
THEOREM InsertMakesRoom == Spec => InsertKeepsCapacity
<1> DEFINE Stores == \E q \in Queries : q \in Cached' \ Cached
           Kept == \/ Cardinality(Cached') <= MaxEntries
                   \/ Cardinality(Cached') <= Cardinality(Cached)
<1>1. ASSUME IsFiniteSet(Cached), [Next]_vars, NEW p \in Queries, p \in Cached' \ Cached
      PROVE  Kept
  <2>1. ASSUME NEW q \in Queries, NEW e \in EmbedsAs[q], Insert(q, e)
        PROVE  Kept
    <3>1. PICK gone \in Victims : Cached' = (Cached \ gone) \cup {q}
          BY <2>1, InsertStores
    <3>2. /\ IsFiniteSet(Cached \ gone) /\ Cardinality(Cached) \in Nat
          /\ Cardinality(Cached \ gone) \in Nat
          BY <1>1, FS_Difference, FS_CardinalityType
    <3>3. Cardinality(Cached') <= Cardinality(Cached \ gone) + 1
      <4>1. Cardinality(Cached') = IF q \in Cached \ gone THEN Cardinality(Cached \ gone)
                                                          ELSE Cardinality(Cached \ gone) + 1
            BY <3>1, <3>2, FS_AddElement
      <4> QED BY <3>2, <4>1
    <3>4. CASE Full(Cached)
      <4>1. PICK k \in LeastRecent : gone = {k}
            BY <3>1, <3>4 DEF Victims
      <4>2. Cardinality(Cached \ gone) = Cardinality(Cached) - 1
            BY <1>1, <4>1, FS_RemoveElement DEF LeastRecent
      <4>3. Cardinality(Cached') <= Cardinality(Cached)
        <5>1. (Cardinality(Cached) - 1) + 1 = Cardinality(Cached)
              BY <3>2
        <5> QED BY <3>3, <4>2, <5>1
      <4> QED BY <4>3
    <3>5. CASE ~Full(Cached)
      <4>1. gone = {}
            BY <3>1, <3>5 DEF Victims
      <4>2. Cached \ gone = Cached /\ Cardinality(Cached) < MaxEntries
            BY <3>2, <3>5, <4>1, CacheConstants DEF Full
      <4>3. IsFiniteSet(Cached') /\ Cardinality(Cached') \in Nat
            BY <1>1, CachedFiniteNext, FS_CardinalityType
      <4>4. MaxEntries \in Nat /\ Cardinality(Cached') <= Cardinality(Cached) + 1
        <5>1. MaxEntries \in Nat
              BY CacheConstants
        <5> QED BY <3>3, <4>2, <5>1
      <4> QED BY <3>2, <4>2, <4>3, <4>4
    <3> QED BY <3>4, <3>5
  <2>2. ASSUME NEW d \in Documents, NEW n \in 1 .. MaxSentences,
               NEW embs \in [0 .. n - 1 -> Embeddings], InsertSentenceChunks(d, n, embs)
        PROVE  FALSE
    <3>1. p \in {d} \X (0 .. n - 1)
          BY <1>1, <2>2, ChunksStored
    <3>2. p \in Chunks
          BY <3>1, CacheConstants DEF Chunks
    <3> QED BY <3>2, CacheConstants
  <2>3. CASE UNCHANGED embeddings
        BY <1>1, <2>3 DEF Cached
  <2>4. CASE Clear
        BY <1>1, <2>4 DEF Clear, Cached
  <2> QED BY <1>1, <2>1, <2>2, <2>3, <2>4 DEF Next, Lookup, Answer, SpeculativePrefetch, vars
<1>2. IsFiniteSet(Cached) /\ [Next]_vars => [Stores => Kept]_vars
      BY <1>1
<1>3. Init => IsFiniteSet(Cached)
      BY CachedFiniteInit
<1>4. IsFiniteSet(Cached) /\ [Next]_vars => IsFiniteSet(Cached)'
      BY CachedFiniteNext
<1> QED BY <1>2, <1>3, <1>4, PTL DEF Spec, InsertKeepsCapacity

-----------------------------------------------------------------------------
(* With a stable embedder, no dead key stays in the index.                 *)

\* The inductive form of NoDeadKeys: a cached key has the one embedding it is
\* ever inserted with, so storing it again does not move it to another bucket.
OwnEmbedding == \A k \in Cached : embeddings[k] \in EmbedsAs[k]

\* An operation that stores the embeddings new and evicts gone keeps each
\* bucket's keys cached and in their own bucket.
LEMMA StoreKeepsLive ==
  ASSUME TypeOK, NoDeadKeys, OwnEmbedding, StableEmbedder,
         NEW gone, NEW new,
         DOMAIN new \subseteq Keys,
         \A j \in DOMAIN new : new[j] \in EmbedsAs[j],
         embeddings' = Stored((Cached \ gone) \cup DOMAIN new, new),
         lshBucketIndex' = [b \in Bucket |-> Reindexed(b, gone, new)]
  PROVE  NoDeadKeys' /\ OwnEmbedding'
<1> DEFINE kept == (Cached \ gone) \cup DOMAIN new
<1>1. Cached' = kept
      BY DEF Cached, Stored
<1>2. OwnEmbedding'
      BY <1>1 DEF OwnEmbedding, Stored
<1>3. ASSUME NEW b \in Bucket, NEW k \in lshBucketIndex'[b]
      PROVE  k \in kept /\ BucketOf[embeddings'[k]] = b
  <2>1. k \in Reindexed(b, gone, new)
        OBVIOUS
  <2>2. CASE k \in Filed(b, new)
        BY <2>2 DEF Filed, Stored
  <2>3. CASE k \notin Filed(b, new)
    <3>1. k \in lshBucketIndex[b] /\ k \notin Cleaned(b, gone)
          BY <2>1, <2>3 DEF Reindexed
    <3>2. k \in Cached /\ BucketOf[embeddings[k]] = b
          BY <3>1 DEF NoDeadKeys
    <3>3. k \in kept
          BY <3>1, <3>2 DEF Cleaned
    <3>4. k \in DOMAIN new => new[k] = embeddings[k]
          BY <3>2 DEF OwnEmbedding, StableEmbedder
    <3> QED BY <3>2, <3>3, <3>4 DEF Stored
  <2> QED BY <2>2, <2>3
<1>4. NoDeadKeys'
      BY <1>1, <1>3 DEF NoDeadKeys
<1> QED BY <1>2, <1>4

LEMMA LiveNext ==
  ASSUME TypeOK, NoDeadKeys, OwnEmbedding, StableEmbedder, [Next]_vars
  PROVE  NoDeadKeys' /\ OwnEmbedding'
<1>1. ASSUME NEW q \in Queries, NEW e \in EmbedsAs[q], Insert(q, e)
      PROVE  NoDeadKeys' /\ OwnEmbedding'
  <2> DEFINE new == [j \in {q} |-> e]
  <2>1. PICK gone \in Victims :
          /\ embeddings' = Stored((Cached \ gone) \cup {q}, new)
          /\ lshBucketIndex' = [b \in Bucket |-> Reindexed(b, gone, new)]
        BY <1>1 DEF Insert
  <2>2. DOMAIN new = {q} /\ \A j \in DOMAIN new : new[j] \in EmbedsAs[j]
        OBVIOUS
  <2>3. DOMAIN new \subseteq Keys
        BY DEF Keys
  <2> HIDE DEF new
  <2> QED BY <2>1, <2>2, <2>3, StoreKeepsLive
<1>2. ASSUME NEW d \in Documents, NEW n \in 1 .. MaxSentences,
             NEW embs \in [0 .. n - 1 -> Embeddings],
             \A i \in 0 .. n - 1 : embs[i] \in EmbedsAs[<<d, i>>],
             InsertSentenceChunks(d, n, embs)
      PROVE  NoDeadKeys' /\ OwnEmbedding'
  <2> DEFINE chunk == {d} \X (0 .. n - 1)
             new == [j \in chunk |-> embs[j[2]]]
             gone == {}
  <2>1. DOMAIN new = chunk /\ (Cached \ gone) \cup chunk = Cached \cup chunk
        OBVIOUS
  <2>2. /\ embeddings' = Stored(Cached \cup chunk, new)
        /\ lshBucketIndex' = [b \in Bucket |-> Reindexed(b, gone, new)]
        BY <1>2 DEF InsertSentenceChunks
  <2>3. \A j \in chunk : j = <<d, j[2]>> /\ j[2] \in 0 .. n - 1
        OBVIOUS
  <2>4. \A j \in DOMAIN new : new[j] \in EmbedsAs[j]
        BY <1>2, <2>3
  <2>5. DOMAIN new \subseteq Keys
        BY CacheConstants DEF Keys, Chunks
  <2> HIDE DEF new, gone
  <2>6. embeddings' = Stored((Cached \ gone) \cup DOMAIN new, new)
        BY <2>1, <2>2
  <2> HIDE DEF chunk
  <2> QED BY <2>2, <2>4, <2>5, <2>6, StoreKeepsLive
<1>3. CASE UNCHANGED <<embeddings, lshBucketIndex>>
      BY <1>3 DEF NoDeadKeys, OwnEmbedding, Cached
<1>4. CASE Clear
      BY <1>4 DEF Clear, NoDeadKeys, OwnEmbedding, Cached
<1> QED BY <1>1, <1>2, <1>3, <1>4 DEF Next, Lookup, Answer, SpeculativePrefetch, vars

\* The index of a cache whose keys are never embedded anew holds cached keys only,
\* each in its own bucket.
THEOREM IndexStaysClean == ASSUME StableEmbedder PROVE Spec => []NoDeadKeys
<1>1. Init => TypeOK /\ NoDeadKeys /\ OwnEmbedding
      BY TypeInit DEF Init, NoDeadKeys, OwnEmbedding, Cached
<1>2. TypeOK /\ NoDeadKeys /\ OwnEmbedding /\ [Next]_vars
        => (TypeOK /\ NoDeadKeys /\ OwnEmbedding)'
      BY TypeNext, LiveNext
<1> QED BY <1>1, <1>2, PTL DEF Spec

\* Then a lookup, on the CPU or the GPU, answers with a most similar cached entry
\* that reaches the threshold, or with a miss.
THEOREM LookupsSound == ASSUME StableEmbedder PROVE Spec => []LookupSound
<1>1. ASSUME TypeOK, NoDeadKeys PROVE LookupSound
  <2> SUFFICES ASSUME NEW e \in Embeddings, NEW k \in Outcomes(e) \ {NoKey}
               PROVE  /\ k \in Cached
                      /\ Similarity[<<e, embeddings[k]>>] >= Threshold
                      /\ \A j \in Candidates(e) \cap Cached :
                           Similarity[<<e, embeddings[j]>>] <= Similarity[<<e, embeddings[k]>>]
      BY DEF LookupSound
  <2> DEFINE similar == Similar(e, Candidates(e))
  <2>1. Candidates(e) \subseteq Cached
    <3>1. \A d \in {0, 1, Buckets - 1} : (BucketOf[e] + d) % Buckets \in Bucket
          BY CacheConstants DEF Bucket
    <3>2. Nearby(e) \subseteq Cached
          BY <1>1, <3>1 DEF Nearby, NoDeadKeys
    <3> QED BY <3>2 DEF Candidates
  <2>2. k \in Best(e, similar)
        BY <2>1 DEF Outcomes
  <2>3. k \in similar
        BY <2>2 DEF Best
  <2>4. k \in Cached /\ Similarity[<<e, embeddings[k]>>] >= Threshold
        BY <2>3 DEF Similar
  <2>5. ASSUME NEW j \in Candidates(e) \cap Cached
        PROVE  Similarity[<<e, embeddings[j]>>] <= Similarity[<<e, embeddings[k]>>]
    <3>1. \A i \in Cached : Similarity[<<e, embeddings[i]>>] \in 0 .. 100
          BY <1>1, CacheConstants DEF TypeOK
    <3>2. CASE j \in similar
          BY <2>2, <3>2 DEF Best
    <3>3. CASE j \notin similar
      <4>1. ~(Similarity[<<e, embeddings[j]>>] >= Threshold)
            BY <3>3 DEF Similar
      <4> QED BY <2>4, <3>1, <4>1, CacheConstants
    <3> QED BY <3>2, <3>3
  <2> QED BY <2>4, <2>5
<1> QED BY <1>1, TypeCorrect, IndexStaysClean, PTL

-----------------------------------------------------------------------------
(* The order of use: the cache implements LRUOrder as long as its cycle    *)
(* counter does not wrap, for every set of keys and every limit.           *)

\* The counter stays below the modulus.
NoWrap == CycleBound < MaxCycles

\* The inductive strengthening: every timestamp lies behind the counter, so a
\* key that is used now becomes younger than all others.
Behind == \A k \in Cached : timestamps[k] < cycle

-----------------------------------------------------------------------------
(* An operation that uses the keys DOMAIN at, k as the at[k]-th, puts them *)
(* last in the order of the keys that remain.                              *)

LEMMA StampedValues ==
  ASSUME TypeOK, NoWrap,
         NEW n \in Nat, AdvanceCycle(n),
         NEW at, at \in [DOMAIN at -> 0 .. n - 1],
         NEW keys, keys \subseteq Cached \cup DOMAIN at,
         timestamps' = Stamped(keys, at)
  PROVE  /\ cycle' = cycle + n
         /\ \A k \in keys : k \in DOMAIN at => timestamps'[k] = cycle + at[k]
         /\ \A k \in keys : k \notin DOMAIN at =>
              k \in Cached /\ timestamps'[k] = timestamps[k]
<1>1. cycle \in Nat /\ MaxCycles \in Nat /\ cycle + n < MaxCycles
      BY CacheConstants DEF TypeOK, AdvanceCycle, NoWrap
<1>2. cycle' = cycle + n
      BY <1>1 DEF AdvanceCycle
<1>3. ASSUME NEW k \in keys, k \in DOMAIN at
      PROVE  timestamps'[k] = cycle + at[k]
  <2>1. at[k] \in 0 .. n - 1
        BY <1>3
  <2>2. (cycle + at[k]) % MaxCycles = cycle + at[k]
        BY <1>1, <2>1
  <2> QED BY <1>3, <2>2 DEF Stamped
<1>4. ASSUME NEW k \in keys, k \notin DOMAIN at
      PROVE  k \in Cached /\ timestamps'[k] = timestamps[k]
      BY <1>4 DEF Stamped
<1> QED BY <1>2, <1>3, <1>4

LEMMA UseRefreshes ==
  ASSUME TypeOK, Behind, NoWrap,
         NEW n \in Nat, AdvanceCycle(n),
         NEW at, at \in [DOMAIN at -> 0 .. n - 1],
         \A j, k \in DOMAIN at : at[j] = at[k] => j = k,
         NEW keys, keys \subseteq Cached \cup DOMAIN at, DOMAIN at \subseteq keys,
         timestamps' = Stamped(keys, at), Cached' = keys
  PROVE  LRU!Refresh(keys, DOMAIN at) /\ Behind'
<1> DEFINE used == DOMAIN at
           rest == keys \ used
           order == {p \in used \X used : at[p[1]] < at[p[2]]}
<1>1. /\ cycle' = cycle + n
      /\ \A k \in used : timestamps'[k] = cycle + at[k]
      /\ \A k \in rest : k \in Cached /\ timestamps'[k] = timestamps[k]
      BY StampedValues
<1>2. /\ cycle \in Nat
      /\ \A k \in used : at[k] \in 0 .. n - 1
      /\ \A k \in Cached : timestamps[k] \in Nat /\ timestamps[k] < cycle
      BY CacheConstants DEF TypeOK, Behind
<1>3. Behind'
      BY <1>1, <1>2 DEF Behind
<1>4. order \in LRU!StrictOrders(used)
  <2>1. \A j, k \in used : <<j, k>> \in order <=> at[j] < at[k]
        OBVIOUS
  <2>2. order \in SUBSET (used \X used)
        OBVIOUS
  <2>3. \A k \in used : at[k] \in Int
        BY <1>2
  <2> HIDE DEF used, order
  <2>4. ASSUME NEW j \in used, NEW k \in used
        PROVE  j # k <=> (<<j, k>> \in order \/ <<k, j>> \in order)
    <3>1. at[j] \in Int /\ at[k] \in Int
          BY <2>3
    <3>2. j # k <=> at[j] # at[k]
          BY DEF used
    <3>3. at[j] # at[k] <=> (at[j] < at[k] \/ at[k] < at[j])
          BY <3>1
    <3> QED BY <2>1, <3>2, <3>3
  <2>5. ASSUME NEW j \in used, NEW k \in used
        PROVE  ~(<<j, k>> \in order /\ <<k, j>> \in order)
    <3>1. at[j] \in Int /\ at[k] \in Int
          BY <2>3
    <3>2. ~(at[j] < at[k] /\ at[k] < at[j])
          BY <3>1
    <3> QED BY <2>1, <3>2
  <2>6. ASSUME NEW i \in used, NEW j \in used, NEW k \in used,
               <<i, j>> \in order, <<j, k>> \in order
        PROVE  <<i, k>> \in order
    <3>1. at[i] \in Int /\ at[j] \in Int /\ at[k] \in Int
          BY <2>3
    <3>2. at[i] < at[j] /\ at[j] < at[k]
          BY <2>1, <2>6
    <3>3. at[i] < at[k]
          BY <3>1, <3>2
    <3> QED BY <2>1, <3>3
  <2> QED BY <2>2, <2>4, <2>5, <2>6 DEF LRU!StrictOrders
<1>5. Older' = (Older \cap (rest \X rest)) \cup (rest \X used) \cup order
  <2> DEFINE later == (Older \cap (rest \X rest)) \cup (rest \X used) \cup order
  <2>1. Older' \subseteq keys \X keys /\ later \subseteq keys \X keys
        BY DEF Older
  <2>2. ASSUME NEW j \in keys, NEW k \in keys
        PROVE  <<j, k>> \in Older' <=> <<j, k>> \in later
    <3>1. <<j, k>> \in Older' <=> timestamps'[j] < timestamps'[k]
          BY DEF Older
    <3>2. CASE j \in used /\ k \in used
          BY <1>1, <1>2, <3>1, <3>2
    <3>3. CASE j \in rest /\ k \in used
          BY <1>1, <1>2, <3>1, <3>3
    <3>4. CASE j \in used /\ k \in rest
          BY <1>1, <1>2, <3>1, <3>4
    <3>5. CASE j \in rest /\ k \in rest
          BY <1>1, <1>2, <3>1, <3>5 DEF Older
    <3> QED BY <3>2, <3>3, <3>4, <3>5
  <2> HIDE DEF later
  <2>3. \A p \in keys \X keys : p \in Older' <=> p \in later
        BY <2>2
  <2> QED BY <2>1, <2>3 DEF later
<1>6. LRU!Refresh(keys, used)
      BY <1>4, <1>5 DEF LRU!Refresh
<1> QED BY <1>3, <1>6

\* The keys with the smallest timestamp are the least recently used ones.
LEMMA VictimsAreOldest == ASSUME TypeOK PROVE LeastRecent = LRU!Oldest
<1>1. \A j \in Cached : timestamps[j] \in Int
      BY CacheConstants DEF TypeOK
<1>2. \A j, k \in Cached : timestamps[k] <= timestamps[j] <=> <<j, k>> \notin Older
      BY <1>1 DEF Older
<1> QED BY <1>2 DEF LeastRecent, LRU!Oldest

-----------------------------------------------------------------------------
(* Every step is a step of LRUOrder or leaves keys and order alone.        *)

LEMMA StepRefines ==
  ASSUME TypeOK, Behind, NoWrap, [Next]_vars
  PROVE  [LRU!Next]_<<Cached, Older>> /\ Behind'
<1>1. ASSUME NEW q \in Queries, NEW e \in EmbedsAs[q], Insert(q, e)
      PROVE  LRU!Insert(q) /\ Behind'
  <2> DEFINE at == [k \in {q} |-> 0]
  <2>1. PICK gone \in Victims :
          LET kept == (Cached \ gone) \cup {q}
              new  == [k \in {q} |-> e] IN
          /\ embeddings' = Stored(kept, new)
          /\ timestamps' = Stamped(kept, at)
          /\ AdvanceCycle(1)
        BY <1>1 DEF Insert
  <2> DEFINE kept == (Cached \ gone) \cup {q}
  <2>2. Cached' = kept
        BY <2>1 DEF Cached, Stored
  <2> DEFINE choices == IF Full(Cached) THEN {{k} : k \in LRU!Oldest} ELSE {{}}
  <2>3. gone \in choices
        BY <2>1, VictimsAreOldest DEF Victims
  <2>4. /\ timestamps' = Stamped(kept, at) /\ AdvanceCycle(1)
        /\ DOMAIN at = {q} /\ at \in [DOMAIN at -> 0 .. 1 - 1]
        /\ \A j, k \in DOMAIN at : at[j] = at[k] => j = k
        /\ kept \subseteq Cached \cup DOMAIN at /\ DOMAIN at \subseteq kept
        BY <2>1
  <2> HIDE DEF at, kept
  <2>5. LRU!Refresh(kept, {q}) /\ Behind'
        BY <2>2, <2>4, UseRefreshes
  <2> HIDE DEF choices
  <2>6. \E g \in choices : Cached' = (Cached \ g) \cup {q} /\ LRU!Refresh(Cached', {q})
        BY <2>2, <2>3, <2>5 DEF kept
  <2> QED BY <2>5, <2>6 DEF LRU!Insert, choices
<1>2. ASSUME NEW d \in Documents, NEW n \in 1 .. MaxSentences,
             NEW embs \in [0 .. n - 1 -> Embeddings],
             InsertSentenceChunks(d, n, embs)
      PROVE  (\E chunks \in SUBSET Chunks : LRU!InsertChunks(chunks)) /\ Behind'
  <2> DEFINE chunk == {d} \X (0 .. n - 1)
             kept == Cached \cup chunk
             at == [k \in chunk |-> k[2]]
  <2>1. n \in Nat /\ chunk \in SUBSET Chunks
        BY CacheConstants DEF Chunks
  <2>2. Cached' = kept
        BY <1>2 DEF InsertSentenceChunks, Cached, Stored
  <2>3. /\ timestamps' = Stamped(kept, at) /\ AdvanceCycle(n)
        /\ DOMAIN at = chunk /\ at \in [DOMAIN at -> 0 .. n - 1]
        /\ \A j, k \in DOMAIN at : at[j] = at[k] => j = k
        /\ kept \subseteq Cached \cup DOMAIN at /\ DOMAIN at \subseteq kept
        BY <1>2 DEF InsertSentenceChunks
  <2> HIDE DEF at, kept, chunk
  <2>4. LRU!Refresh(kept, chunk) /\ Behind'
        BY <2>1, <2>2, <2>3, UseRefreshes
  <2> QED BY <2>1, <2>2, <2>4 DEF LRU!InsertChunks, kept
<1>3. ASSUME NEW e \in Embeddings, Lookup(e)
      PROVE  /\ \/ \E used \in SUBSET Cached : LRU!Use(used)
                \/ UNCHANGED <<Cached, Older>>
             /\ Behind'
  <2>1. PICK k \in Outcomes(e) :
          /\ UNCHANGED <<embeddings, lshBucketIndex>>
          /\ IF k \in Cached
               THEN timestamps' = Stamped(Cached, [j \in {k} |-> 0]) /\ AdvanceCycle(1)
               ELSE UNCHANGED <<timestamps, cycle>>
        BY <1>3 DEF Lookup, Answer
  <2>2. Cached' = Cached
        BY <2>1 DEF Cached
  <2>3. CASE k \in Cached
    <3> DEFINE at == [j \in {k} |-> 0]
    <3>1. /\ timestamps' = Stamped(Cached, at) /\ AdvanceCycle(1)
          /\ DOMAIN at = {k} /\ at \in [DOMAIN at -> 0 .. 1 - 1]
          /\ \A i, j \in DOMAIN at : at[i] = at[j] => i = j
          /\ Cached \subseteq Cached \cup DOMAIN at /\ DOMAIN at \subseteq Cached
          BY <2>1, <2>3
    <3> HIDE DEF at
    <3>2. LRU!Refresh(Cached, {k}) /\ Behind'
          BY <2>2, <3>1, UseRefreshes
    <3> QED BY <2>2, <2>3, <3>2 DEF LRU!Use
  <2>4. CASE k \notin Cached
    <3>1. UNCHANGED <<Cached, timestamps, cycle>>
          BY <2>1, <2>2, <2>4
    <3> QED BY <3>1 DEF Older, Behind
  <2> QED BY <2>3, <2>4
<1>4. ASSUME NEW b \in Bucket, NEW n \in 1 .. PrefetchWindow,
             NEW touched \in SUBSET (lshBucketIndex[b] \cap Cached),
             NEW at \in [touched -> 0 .. n - 1],
             SpeculativePrefetch(b, n, touched, at)
      PROVE  (\E used \in SUBSET Cached : LRU!Use(used)) /\ Behind'
  <2>1. n \in Nat /\ Cached' = Cached /\ touched # {}
        BY <1>4, CacheConstants DEF SpeculativePrefetch, Cached
  <2>2. /\ timestamps' = Stamped(Cached, at) /\ AdvanceCycle(n)
        /\ DOMAIN at = touched /\ at \in [DOMAIN at -> 0 .. n - 1]
        /\ \A j, k \in DOMAIN at : at[j] = at[k] => j = k
        /\ Cached \subseteq Cached \cup DOMAIN at /\ DOMAIN at \subseteq Cached
        BY <1>4 DEF SpeculativePrefetch
  <2>3. LRU!Refresh(Cached, touched) /\ Behind'
        BY <2>1, <2>2, UseRefreshes
  <2> QED BY <2>1, <2>3 DEF LRU!Use
<1>5. ASSUME Clear PROVE LRU!Clear /\ Behind'
      BY <1>5 DEF Clear, LRU!Clear, Cached, Older, Behind
<1>6. ASSUME UNCHANGED vars PROVE UNCHANGED <<Cached, Older>> /\ Behind'
      BY <1>6 DEF vars, Cached, Older, Behind
<1> QED BY <1>1, <1>2, <1>3, <1>4, <1>5, <1>6 DEF Next, LRU!Next

\* While its counter does not wrap, the cache keeps its keys in order of last
\* use and evicts the least recently used one only when insert() meets a full
\* cache.
THEOREM ImplementsLRU == ASSUME NoWrap PROVE Spec => RefinesLRU
<1>1. Init => LRU!Init /\ Behind
      BY DEF Init, LRU!Init, Cached, Older, Behind
<1>2. TypeOK /\ Behind /\ [Next]_vars => [LRU!Next]_<<Cached, Older>> /\ Behind'
      BY StepRefines
<1> QED BY <1>1, <1>2, TypeCorrect, PTL DEF Spec, RefinesLRU, LRU!Spec, LRU!lru
=============================================================================
