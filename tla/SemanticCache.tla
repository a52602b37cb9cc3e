--------------------------- MODULE SemanticCache ---------------------------
(***************************************************************************)
(* SemanticCacheEngine (engines/cache_engine.py): responses keyed by a     *)
(* query hash or by a (document, sentence) pair, found again by cosine     *)
(* similarity, indexed by LSH bucket and evicted least recently used by a  *)
(* wrapping cycle counter.                                                 *)
(*                                                                         *)
(* One action per operation; the operations run one at a time, on the      *)
(* event loop's thread.  Embeddings are opaque: what the code computes     *)
(* from them (similarity, bucket) is given by the constants Similarity and *)
(* BucketOf.  A bucket's key list is the set of its keys: its order and    *)
(* duplicates matter only to SpeculativePrefetch, which may therefore      *)
(* touch any keys of the bucket in any order.  Responses and the counters  *)
(* that only stats() reports are left out.                                 *)
(***************************************************************************)
EXTENDS Integers, FiniteSets

CONSTANTS
  Queries,         \* hashes of the prompts inserted with insert()
  Documents,       \* hashes of the documents inserted in chunks
  MaxSentences,    \* bound: sentences of a document
  Embeddings,      \* the embeddings the callers use
  EmbedsAs,        \* key -> the embeddings it may be inserted with
  Similarity,      \* <<embedding, embedding>> -> 0..100, cosine in percent
  Threshold,       \* similarity_threshold, in percent
  LshEnabled,      \* enable_lsh
  Buckets,         \* lsh_buckets: buckets are 0 .. Buckets - 1
  BucketOf,        \* embedding -> its LSH bucket
  MaxEntries,      \* max_entries
  MaxCycles,       \* max_cycles: the cycle counter is taken modulo this
  LshMin,          \* 50 in the code: larger caches are searched by bucket
  GpuMin,          \* 100 in the code: more candidates go to the GPU
  GpuAvailable,    \* torch.cuda.is_available()
  PrefetchEnabled, \* enable_prefetch
  PrefetchWindow,  \* prefetch_window
  CycleBound,      \* bound: the cycle counter stops here
  NoKey            \* the outcome of a lookup that misses

Chunks == Documents \X (0 .. MaxSentences - 1)
Keys == Queries \cup Chunks
Bucket == 0 .. Buckets - 1

ASSUME CacheConstants ==
  /\ MaxSentences \in Nat /\ Buckets \in Nat \ {0} /\ Threshold \in 1 .. 100
  /\ MaxEntries \in Nat \ {0} /\ MaxCycles \in Nat \ {0}
  /\ LshMin \in Nat /\ GpuMin \in Nat
  /\ PrefetchWindow \in Nat /\ CycleBound \in Nat
  /\ LshEnabled \in BOOLEAN /\ GpuAvailable \in BOOLEAN
  /\ PrefetchEnabled \in BOOLEAN
  /\ BucketOf \in [Embeddings -> Bucket]
  /\ EmbedsAs \in [Keys -> SUBSET Embeddings]
  /\ Similarity \in [Embeddings \X Embeddings -> 0 .. 100]
  /\ \A e \in Embeddings : Similarity[<<e, e>>] = 100
  /\ NoKey \notin Keys
  /\ Queries \cap Chunks = {}   \* a chunk's key is longer than a hash

VARIABLES
  embeddings,      \* _embeddings: cached key -> its embedding
  timestamps,      \* _timestamps: cached key -> cycle of its last use
  lshBucketIndex,  \* _lsh_bucket_index: bucket -> keys filed under it
  cycle,           \* _cycle
  history,         \* len(_query_history)
  queried          \* _last_query_emb is not None

vars == <<embeddings, timestamps, lshBucketIndex, cycle, history, queried>>

Cached == DOMAIN embeddings

Init ==
  /\ embeddings = [k \in {} |-> NoKey]
  /\ timestamps = [k \in {} |-> 0]
  /\ lshBucketIndex = [b \in Bucket |-> {}]
  /\ cycle = 0
  /\ history = 0
  /\ queried = FALSE

-----------------------------------------------------------------------------
(* Recency: a key used as the i-th of an operation (from 0) is stamped     *)
(* with the cycle counter, which then advances by one.                     *)

\* The timestamps of keys after those in DOMAIN at were used, each at[k]-th.
Stamped(keys, at) ==
  [k \in keys |-> IF k \in DOMAIN at THEN (cycle + at[k]) % MaxCycles
                                     ELSE timestamps[k]]

AdvanceCycle(n) ==
  /\ cycle + n <= CycleBound
  /\ cycle' = (cycle + n) % MaxCycles

\* Mutant: evicts a most recently used key.
MostRecent == {k \in Cached : \A j \in Cached : timestamps[j] <= timestamps[k]}

LeastRecent == {k \in Cached : \A j \in Cached : timestamps[k] <= timestamps[j]}

\* Mutant: evicts only when the cache is over its limit already.
VictimsOverLimit ==
  IF Cardinality(Cached) > MaxEntries THEN {{k} : k \in LeastRecent} ELSE {{}}

Full(keys) == Cardinality(keys) >= MaxEntries

\* What insert() evicts before it stores: nothing, or one of the keys with the
\* smallest timestamp (the first one in dictionary order).
Victims == IF Full(Cached) THEN {{k} : k \in LeastRecent} ELSE {{}}

\* Mutant: a deque without maxlen.
RememberAll == history' = history + 1

\* The deque of recent query embeddings after one more, maxlen PrefetchWindow.
Remember == history' = IF history < PrefetchWindow THEN history + 1 ELSE history

-----------------------------------------------------------------------------
(* Insertion.                                                              *)

\* The embeddings of keys after those in new were stored.
Stored(keys, new) ==
  [k \in keys |-> IF k \in DOMAIN new THEN new[k] ELSE embeddings[k]]

\* Mutant: a key that is stored again is filed where it was before.
FiledAsBefore(b, new) ==
  {k \in DOMAIN new : LshEnabled /\
     BucketOf[IF k \in Cached THEN embeddings[k] ELSE new[k]] = b}

\* The newly stored keys that are appended to bucket b.
Filed(b, new) == {k \in DOMAIN new : LshEnabled /\ BucketOf[new[k]] = b}

\* Mutants: eviction leaves the index alone, or cleans the next bucket.
CleanedNever(b, gone) == {}
CleanedBeside(b, gone) == {g \in gone : BucketOf[embeddings[g]] + 1 = b}

\* The evicted keys that are removed from bucket b: only the bucket of the
\* victim's own embedding is cleaned.
Cleaned(b, gone) == {g \in gone : BucketOf[embeddings[g]] = b}

\* Mutant: the victim is removed from the index after the new key was added.
ReindexedLate(b, gone, new) == (lshBucketIndex[b] \cup Filed(b, new)) \ Cleaned(b, gone)

Reindexed(b, gone, new) == (lshBucketIndex[b] \ Cleaned(b, gone)) \cup Filed(b, new)

\* insert()
Insert(q, e) ==
  \E gone \in Victims :
    LET kept == (Cached \ gone) \cup {q}
        new  == [k \in {q} |-> e] IN
    /\ embeddings' = Stored(kept, new)
    /\ timestamps' = Stamped(kept, [k \in {q} |-> 0])
    /\ AdvanceCycle(1)
    /\ lshBucketIndex' = [b \in Bucket |-> Reindexed(b, gone, new)]
    /\ Remember
    /\ UNCHANGED queried

\* insert_sentence_chunks() of a document of n sentences, embedded as embs.
InsertSentenceChunks(d, n, embs) ==
  LET chunk == {d} \X (0 .. n - 1)
      kept  == Cached \cup chunk
      new   == [k \in chunk |-> embs[k[2]]] IN
  /\ embeddings' = Stored(kept, new)
  /\ timestamps' = Stamped(kept, [k \in chunk |-> k[2]])
  /\ AdvanceCycle(n)
  /\ lshBucketIndex' = [b \in Bucket |-> Reindexed(b, {}, new)]
  /\ UNCHANGED <<history, queried>>

-----------------------------------------------------------------------------
(* Lookup.                                                                 *)

\* Mutant: looks into the two adjacent buckets only.
Beside(e) ==
  UNION {lshBucketIndex[(BucketOf[e] + d) % Buckets] : d \in {1, Buckets - 1}}

\* The keys filed under the bucket of e and the two buckets beside it.
Nearby(e) ==
  UNION {lshBucketIndex[(BucketOf[e] + d) % Buckets] : d \in {0, 1, Buckets - 1}}

Candidates(e) ==
  IF LshEnabled /\ Cardinality(Cached) > LshMin THEN Nearby(e) ELSE Cached

Similar(e, keys) ==
  {k \in keys \cap Cached : Similarity[<<e, embeddings[k]>>] >= Threshold}

Best(e, keys) ==
  {k \in keys : \A j \in keys : Similarity[<<e, embeddings[j]>>] <= Similarity[<<e, embeddings[k]>>]}

OnGpu(e) == GpuAvailable /\ Cardinality(Candidates(e)) > GpuMin

\* What lookup(e) may answer with.  On the GPU path the similarities are of the
\* live candidates only, but the winning position is looked up in the list of
\* all of them (cache_engine.py:171-173): with a dead key among the candidates,
\* which stands at any place of the set's order, any candidate may stand there.
\* A CUDA failure makes the batch None, which is a miss.
Outcomes(e) ==
  LET similar == Similar(e, Candidates(e)) IN
  IF similar = {} THEN {NoKey}
  ELSE (IF OnGpu(e) /\ ~(Candidates(e) \subseteq Cached)
          THEN Candidates(e) ELSE Best(e, similar))
         \cup {k \in {NoKey} : OnGpu(e)}

\* What lookup() does when it found k: a hit touches its key; a key that is not
\* cached raises KeyError.
Answer(k) ==
  /\ queried' = TRUE
  /\ Remember
  /\ UNCHANGED <<embeddings, lshBucketIndex>>
  /\ IF k \in Cached
       THEN timestamps' = Stamped(Cached, [j \in {k} |-> 0]) /\ AdvanceCycle(1)
       ELSE UNCHANGED <<timestamps, cycle>>

\* lookup(), and fuzzy_contains(), which is a lookup whose answer is compared.
Lookup(e) == \E k \in Outcomes(e) : Answer(k)

\* The keys lookup_sentence_chunks(e) ranks, best five first; it changes nothing.
ChunkMatches(e) ==
  Similar(e, IF LshEnabled /\ Nearby(e) # {} THEN Nearby(e) ELSE Cached)
    \cap Chunks

\* speculative_prefetch(): touches the first PrefetchWindow keys filed under the
\* bucket of an extrapolation of the last two queries, those that are cached:
\* n touches, after which at[k] is the place of the last touch of k.
SpeculativePrefetch(b, n, touched, at) ==
  /\ PrefetchEnabled /\ queried /\ history >= 2
  /\ touched \subseteq lshBucketIndex[b] \cap Cached
  /\ \A j, k \in touched : at[j] = at[k] => j = k
  /\ \E k \in touched : at[k] = n - 1
  /\ timestamps' = Stamped(Cached, at)
  /\ AdvanceCycle(n)
  /\ UNCHANGED <<embeddings, lshBucketIndex, history, queried>>

\* clear() and shutdown(); _last_query_emb survives.
Clear ==
  /\ embeddings' = [k \in {} |-> NoKey]
  /\ timestamps' = [k \in {} |-> 0]
  /\ lshBucketIndex' = [b \in Bucket |-> {}]
  /\ cycle' = 0
  /\ history' = 0
  /\ UNCHANGED queried

Next ==
  \/ \E q \in Queries : \E e \in EmbedsAs[q] : Insert(q, e)
  \/ \E d \in Documents, n \in 1 .. MaxSentences :
       \E embs \in [0 .. n - 1 -> Embeddings] :
         /\ \A i \in 0 .. n - 1 : embs[i] \in EmbedsAs[<<d, i>>]
         /\ InsertSentenceChunks(d, n, embs)
  \/ \E e \in Embeddings : Lookup(e)
  \/ \E b \in Bucket, n \in 1 .. PrefetchWindow :
       \E touched \in SUBSET (lshBucketIndex[b] \cap Cached) :
         \E at \in [touched -> 0 .. n - 1] :
           SpeculativePrefetch(b, n, touched, at)
  \/ Clear

Spec == Init /\ [][Next]_vars

-----------------------------------------------------------------------------
(* Properties.                                                             *)

\* The two dictionaries hold the same keys and the counters are in range.
TypeOK ==
  /\ Cached \subseteq Keys /\ embeddings \in [Cached -> Embeddings]
  /\ timestamps \in [Cached -> 0 .. MaxCycles - 1]
  /\ lshBucketIndex \in [Bucket -> SUBSET Keys]
  /\ cycle \in 0 .. MaxCycles - 1
  /\ history \in 0 .. PrefetchWindow
  /\ queried \in BOOLEAN

\* Whatever was evicted, re-embedded or cleared before, a cached key is filed
\* under the bucket of the embedding it has now, so a bucket search can see it.
EntriesIndexed ==
  LshEnabled => \A k \in Cached : k \in lshBucketIndex[BucketOf[embeddings[k]]]

\* A key's embedding never changes: the embedder is a function of the text and
\* no document is indexed twice with other sentences.
StableEmbedder == \A k \in Keys : \A e, f \in EmbedsAs[k] : e = f

\* With a stable embedder the bucket index holds cached keys only, each in its
\* own bucket: evict_lru leaves no dead key behind.
NoDeadKeys ==
  \A b \in Bucket : \A k \in lshBucketIndex[b] :
    k \in Cached /\ BucketOf[embeddings[k]] = b

\* A lookup of the embedding a cached entry was stored with is never a miss,
\* by whichever of the three searches it is made.
ExactLookupHits == \A k \in Cached : NoKey \notin Outcomes(embeddings[k])

\* lookup_sentence_chunks finds a cached chunk by its own embedding.
ExactChunkFound == \A k \in Cached \cap Chunks : k \in ChunkMatches(embeddings[k])

\* lookup() answers with a miss or with the response of a cached entry whose
\* similarity reaches the threshold and is the one it returns, the largest among
\* the candidates; it never picks a key that is not cached.
LookupSound ==
  \A e \in Embeddings : \A k \in Outcomes(e) \ {NoKey} :
    /\ k \in Cached
    /\ Similarity[<<e, embeddings[k]>>] >= Threshold
    /\ \A j \in Candidates(e) \cap Cached :
         Similarity[<<e, embeddings[j]>>] <= Similarity[<<e, embeddings[k]>>]

\* A step that stores a query the cache did not hold does not leave it larger
\* than max_entries, nor larger than it was when chunks had filled it further.
InsertKeepsCapacity ==
  [][(\E q \in Queries : q \in Cached' \ Cached) =>
       \/ Cardinality(Cached') <= MaxEntries
       \/ Cardinality(Cached') <= Cardinality(Cached)]_vars

\* The order in which timestamps put the cached keys.
Older == {p \in Cached \X Cached : timestamps[p[1]] < timestamps[p[2]]}

LRU == INSTANCE LRUOrder WITH cached <- Cached, older <- Older

\* Every operation is one of a cache that keeps its keys in order of last use
\* and evicts the least recent one, and only when insert() meets a full cache.
RefinesLRU == LRU!Spec
=============================================================================
