---------------------------- MODULE FabricProofs ----------------------------
(***************************************************************************)
(* The fabric uses its cache as the cache's specification allows, so what  *)
(* is proved of the cache holds under re-entrant queries; and the windows  *)
(* of its telemetry agree with the counters.                               *)
(***************************************************************************)
EXTENDS Fabric, SemanticCacheProofs, SumTheorems

-----------------------------------------------------------------------------
(* Telemetry.                                                              *)

\* A tracker's window after one more sample.
LEMMA PushedWindow ==
  ASSUME NEW buf \in Seq(Samples), NEW ms \in Samples, Len(buf) <= WindowMax
  PROVE  /\ Pushed(buf, ms) \in Seq(Samples)
         /\ Len(Pushed(buf, ms)) = IF Len(buf) < WindowMax THEN Len(buf) + 1 ELSE WindowMax
<1>1. CASE Len(buf) < WindowMax
      BY <1>1 DEF Pushed
<1>2. CASE Len(buf) = WindowMax
  <2>1. buf # <<>> /\ Len(buf) \in Nat
        BY <1>2, TelemetryConstants
  <2>2. Tail(buf) \in Seq(Samples) /\ Len(Tail(buf)) = Len(buf) - 1
        BY <2>1
  <2> QED BY <1>2, <2>1, <2>2 DEF Pushed
<1> QED BY <1>1, <1>2, TelemetryConstants

\* The telemetry's part of a query: one sample and one count more.
LEMMA OneMoreLookup ==
  ASSUME TelemetryTypeOK, LatencyPerLookup,
         NEW ms \in Samples, RecordLatency("cache_lookup", ms),
         NEW name \in Counters, Increment(name)
  PROVE  TelemetryTypeOK' /\ LatencyPerLookup'
<1> DEFINE buf == latencies["cache_lookup"]
<1>1. buf \in Seq(Samples) /\ Len(buf) <= WindowMax
      BY FabricConstants DEF TelemetryTypeOK
<1>2. latencies' = [latencies EXCEPT !["cache_lookup"] = Pushed(buf, ms)]
      BY DEF RecordLatency
<1>3. latencies'["cache_lookup"] = Pushed(buf, ms)
      BY <1>2, FabricConstants DEF TelemetryTypeOK
<1>4. TelemetryTypeOK'
  <2>1. counters' \in [Counters -> Nat]
        BY DEF TelemetryTypeOK, Increment
  <2>2. latencies' \in [Timers -> Seq(Samples)]
        BY <1>1, <1>2, PushedWindow DEF TelemetryTypeOK
  <2>3. Len(latencies'["cache_lookup"]) <= WindowMax
        BY <1>1, <1>3, PushedWindow, TelemetryConstants
  <2> QED BY <2>1, <2>2, <2>3, FabricConstants DEF TelemetryTypeOK
<1>5. Counted \in Nat /\ Counted' = Counted + 1
      BY FabricConstants DEF TelemetryTypeOK, Increment, Counted
<1>6. LatencyPerLookup'
      BY <1>1, <1>3, <1>5, PushedWindow, TelemetryConstants DEF LatencyPerLookup
<1> QED BY <1>4, <1>6

\* What holds of the telemetry and of the waiting queries in every state.
Accounted == TelemetryTypeOK /\ LatencyPerLookup /\ asked \in Seq(Calls) /\ Len(asked) <= MaxDepth

LEMMA AccountedInit == FabricInit => Accounted
<1> SUFFICES ASSUME FabricInit PROVE Accounted
    OBVIOUS
<1>1. TelemetryTypeOK
      BY TelemetryConstants DEF FabricInit, TelemetryInit, TelemetryTypeOK
<1>2. Counted = 0 /\ Len(latencies["cache_lookup"]) = 0
      BY FabricConstants DEF FabricInit, TelemetryInit, Counted
<1> QED BY <1>1, <1>2, TelemetryConstants, FabricConstants
        DEF FabricInit, Accounted, LatencyPerLookup

LEMMA AccountedStep == Accounted /\ [FabricNext]_fabricVars => Accounted'
<1> SUFFICES ASSUME Accounted, [FabricNext]_fabricVars PROVE Accounted'
    OBVIOUS
<1>1. ASSUME NEW q \in Queries, Query(q) PROVE Accounted'
  <2>1. CASE UNCHANGED <<telemetryVars, asked>>
        BY <2>1 DEF Accounted, TelemetryTypeOK, LatencyPerLookup, Counted, telemetryVars
  <2>2. CASE ~UNCHANGED <<telemetryVars, asked>>
    <3>1. PICK e \in EmbedsAs[q], ms \in Samples, hit \in BOOLEAN :
            /\ RecordLatency("cache_lookup", ms)
            /\ Increment(IF hit THEN "cache_hits" ELSE "cache_misses")
            /\ asked' = IF hit THEN asked ELSE Append(asked, <<q, e>>)
          BY <1>1, <2>2 DEF Query
    <3>2. <<q, e>> \in Calls
          BY CacheConstants DEF Calls, Keys
    <3>3. TelemetryTypeOK' /\ LatencyPerLookup'
          BY <3>1, OneMoreLookup, FabricConstants DEF Accounted
    <3>4. asked' \in Seq(Calls) /\ Len(asked') <= MaxDepth
          BY <1>1, <3>1, <3>2, FabricConstants DEF Accounted, Query
    <3> QED BY <3>3, <3>4 DEF Accounted
  <2> QED BY <2>1, <2>2
<1>2. CASE LlmAnswers
  <2>1. asked' \in Seq(Calls) /\ Len(asked') <= MaxDepth
        BY <1>2, FabricConstants DEF LlmAnswers, Accounted
  <2> QED BY <1>2, <2>1
          DEF LlmAnswers, Accounted, TelemetryTypeOK, LatencyPerLookup, Counted, telemetryVars
<1>3. CASE UNCHANGED <<telemetryVars, asked>>
      BY <1>3 DEF Accounted, TelemetryTypeOK, LatencyPerLookup, Counted, telemetryVars
<1>4. CASE TelemetryReset /\ UNCHANGED <<vars, asked>>
  <2>1. TelemetryTypeOK'
        BY <1>4, TelemetryConstants DEF TelemetryReset, TelemetryTypeOK
  <2>2. Counted' = 0 /\ Len(latencies'["cache_lookup"]) = 0
        BY <1>4, FabricConstants DEF TelemetryReset, Counted
  <2> QED BY <1>4, <2>1, <2>2, TelemetryConstants DEF Accounted, LatencyPerLookup
<1> QED BY <1>1, <1>2, <1>3, <1>4 DEF FabricNext, CacheOnly, fabricVars

LEMMA AlwaysAccounted == FabricSpec => []Accounted
BY AccountedInit, AccountedStep, PTL DEF FabricSpec

\* The window of the lookups' latencies holds one sample for each query counted
\* since the last reset, or is full, however queries, resets and answers of the
\* LLM are nested.
THEOREM LatenciesCounted == FabricSpec => []LatencyPerLookup
<1>1. Accounted => LatencyPerLookup
      BY DEF Accounted
<1> QED BY <1>1, AlwaysAccounted, PTL

\* The rank percentile() reads is one of the window's, and is the nearest rank
\* or the one before, for every percentage and number of samples.
THEOREM RankNearest ==
  ASSUME NEW n \in Nat \ {0}, NEW p \in 1 .. 100
  PROVE  /\ Rank(n, p) \in 1 .. n
         /\ (Rank(n, p) - 1) * 100 < p * n
         /\ (Rank(n, p) + 1) * 100 >= p * n
<1> DEFINE m == n * p
<1>1. m \in Nat /\ m = p * n /\ m <= 100 * n /\ m > 0
      OBVIOUS
<1> HIDE DEF m
<1>2. /\ m \div 100 \in Nat
      /\ 100 * (m \div 100) <= m
      /\ m < 100 * (m \div 100) + 100
      BY <1>1
<1> QED BY <1>1, <1>2 DEF Rank, m

\* Some sample stands at each rank of a window.
LEMMA SampleAtRank ==
  ASSUME NEW buf \in Seq(Samples), NEW r \in 1 .. Len(buf)
  PROVE  \E v \in Samples : Below(buf, v) < r /\ r <= UpTo(buf, v)
<1> DEFINE D == DOMAIN buf
           P == {i \in D : Below(buf, buf[i]) < r}
<1>1. IsFiniteSet(D) /\ Cardinality(D) = Len(buf) /\ D # {} /\ r \in Nat /\ r > 0
  <2>1. Len(buf) \in Nat /\ D = 1 .. Len(buf)
        OBVIOUS
  <2>2. IsFiniteSet(1 .. Len(buf)) /\ Cardinality(1 .. Len(buf)) = Len(buf)
    <3>1. Cardinality(1 .. Len(buf)) = IF 1 > Len(buf) THEN 0 ELSE Len(buf) - 1 + 1
          BY <2>1, FS_Interval
    <3> QED BY <2>1, <3>1, FS_Interval
  <2>3. r \in Nat /\ r > 0 /\ r \in D
        BY <2>1
  <2> HIDE DEF D
  <2> QED BY <2>1, <2>2, <2>3
<1>2. \A i \in D : buf[i] \in Samples /\ buf[i] \in Int
  <2>1. ASSUME NEW i \in D PROVE buf[i] \in Samples
        OBVIOUS
  <2>2. \A v \in Samples : v \in Int
        BY TelemetryConstants
  <2> HIDE DEF D
  <2> QED BY <2>1, <2>2
<1>3. P # {}
  <2>1. PICK a \in D : \A j \in D : buf[a] <= buf[j]
    <3> HIDE DEF D
    <3> QED BY <1>1, <1>2, LeastValue
  <2>2. {j \in DOMAIN buf : buf[j] < buf[a]} = {}
        BY <1>2, <2>1
  <2>3. Below(buf, buf[a]) = 0
        BY <2>2, FS_EmptySet DEF Below
  <2> QED BY <1>1, <2>3
<1>4. PICK i \in P : \A j \in P : buf[j] <= buf[i]
  <2>1. IsFiniteSet(P) /\ \A j \in P : buf[j] \in Int
        BY <1>1, <1>2, FS_Subset
  <2> HIDE DEF P
  <2> QED BY <1>3, <2>1, GreatestValue
<1>5. r <= UpTo(buf, buf[i])
  <2> DEFINE U == {j \in DOMAIN buf : buf[j] <= buf[i]}
  <2>1. IsFiniteSet(U) /\ Cardinality(U) \in Nat /\ UpTo(buf, buf[i]) = Cardinality(U)
        BY <1>1, FS_Subset, FS_CardinalityType DEF UpTo
  <2>2. SUFFICES ASSUME Cardinality(U) < r PROVE FALSE
        BY <1>1, <2>1
  <2>3. D \ U # {}
    <3>1. Cardinality(U) # Cardinality(D)
          BY <1>1, <2>1, <2>2
    <3> QED BY <3>1
  <2>4. PICK w \in D \ U : \A j \in D \ U : buf[w] <= buf[j]
    <3>1. IsFiniteSet(D \ U) /\ \A j \in D \ U : buf[j] \in Int
          BY <1>1, <1>2, FS_Subset
    <3> HIDE DEF D, U
    <3> QED BY <2>3, <3>1, LeastValue
  <2>5. buf[w] > buf[i]
        BY <1>2, <1>4, <2>4
  <2>6. {j \in DOMAIN buf : buf[j] < buf[w]} = U
    <3>1. ASSUME NEW j \in DOMAIN buf, buf[j] < buf[w] PROVE j \in U
      <4>1. SUFFICES ASSUME j \notin U PROVE FALSE
            OBVIOUS
      <4>2. buf[w] <= buf[j] /\ buf[w] \in Int /\ buf[j] \in Int
            BY <1>2, <2>4, <4>1
      <4> QED BY <3>1, <4>2
    <3>2. ASSUME NEW j \in U PROVE buf[j] < buf[w]
      <4>1. buf[j] <= buf[i] /\ buf[i] \in Int /\ buf[j] \in Int /\ buf[w] \in Int
            BY <1>2, <1>4, <2>4
      <4> QED BY <2>5, <4>1
    <3> QED BY <3>1, <3>2
  <2>7. w \in P
        BY <2>2, <2>4, <2>6 DEF Below
  <2> QED BY <1>2, <1>4, <2>5, <2>7
<1> QED BY <1>2, <1>4, <1>5

\* A reported percentile is never above that of the nearest-rank definition and
\* no more than one sample below it, for windows of any length.
THEOREM PercentilesStayNear == FabricSpec => []PercentilesNear
<1>1. ASSUME NEW buf \in Seq(Samples), buf # <<>>, NEW p \in Percents
      PROVE  /\ Below(buf, Percentile(buf, p)) * 100 < p * Len(buf)
             /\ (UpTo(buf, Percentile(buf, p)) + 1) * 100 >= p * Len(buf)
  <2> DEFINE n == Len(buf)
             r == Rank(n, p)
             v == Percentile(buf, p)
  <2>1. n \in Nat \ {0} /\ p \in 1 .. 100
        BY <1>1 DEF Percents
  <2>2. r \in 1 .. n /\ (r - 1) * 100 < p * n /\ (r + 1) * 100 >= p * n
        BY <2>1, RankNearest
  <2>3. Below(buf, v) < r /\ r <= UpTo(buf, v)
    <3>1. \E x \in Samples : Below(buf, x) < r /\ r <= UpTo(buf, x)
          BY <2>2, SampleAtRank
    <3> QED BY <3>1 DEF Percentile
  <2>4. Below(buf, v) \in Nat /\ UpTo(buf, v) \in Nat
    <3>1. IsFiniteSet(DOMAIN buf)
          BY FS_Interval
    <3> QED BY <3>1, FS_Subset, FS_CardinalityType DEF Below, UpTo
  <2> HIDE DEF r, v
  <2>5. Below(buf, v) * 100 <= (r - 1) * 100 /\ (UpTo(buf, v) + 1) * 100 >= (r + 1) * 100
        BY <2>2, <2>3, <2>4
  <2>6. p * n \in Int /\ r \in Int
        BY <2>1, <2>2
  <2>7. Below(buf, v) * 100 < p * n /\ (UpTo(buf, v) + 1) * 100 >= p * n
        BY <2>2, <2>4, <2>5, <2>6
  <2> QED BY <2>7 DEF v
<1>2. Accounted => PercentilesNear
      BY <1>1 DEF Accounted, TelemetryTypeOK, PercentilesNear
<1> QED BY <1>2, AlwaysAccounted, PTL

-----------------------------------------------------------------------------
(* Composition.                                                            *)

\* Every step of the fabric is one of the cache, or leaves the cache alone: a
\* query is a lookup, and an answer of the LLM an insertion, whatever the LLM
\* did with the fabric in between.
THEOREM UsesCache == FabricSpec => Spec
<1>1. FabricInit => Init
      BY DEF FabricInit
<1>2. Accounted /\ [FabricNext]_fabricVars => [Next]_vars
  <2> SUFFICES ASSUME Accounted, FabricNext PROVE [Next]_vars
      BY DEF fabricVars
  <2>1. ASSUME NEW q \in Queries, Query(q) PROVE Next
    <3>1. PICK e \in EmbedsAs[q] : Lookup(e)
          BY <2>1 DEF Query, Lookup
    <3>2. e \in Embeddings
          BY <3>1, CacheConstants DEF Keys
    <3> QED BY <3>1, <3>2 DEF Next
  <2>2. CASE LlmAnswers
    <3>1. asked[Len(asked)] \in Calls
          BY <2>2 DEF LlmAnswers, Accounted
    <3>2. PICK q \in Queries : \E e \in EmbedsAs[q] : Insert(q, e)
          BY <2>2, <3>1 DEF LlmAnswers, Calls
    <3> QED BY <3>2 DEF Next
  <2>3. ASSUME NEW e \in Embeddings, CacheOnly(Lookup(e)) PROVE Next
        BY <2>3 DEF CacheOnly, Next
  <2>4. ASSUME NEW d \in Documents, NEW n \in 1 .. MaxSentences,
               NEW embs \in [0 .. n - 1 -> Embeddings],
               \A i \in 0 .. n - 1 : embs[i] \in EmbedsAs[<<d, i>>],
               CacheOnly(InsertSentenceChunks(d, n, embs))
        PROVE  Next
        BY <2>4 DEF CacheOnly, Next
  <2>5. ASSUME NEW b \in Bucket, NEW n \in 1 .. PrefetchWindow,
               NEW touched \in SUBSET (lshBucketIndex[b] \cap Cached),
               NEW at \in [touched -> 0 .. n - 1],
               CacheOnly(SpeculativePrefetch(b, n, touched, at))
        PROVE  Next
        BY <2>5 DEF CacheOnly, Next
  <2>6. CASE CacheOnly(Clear)
        BY <2>6 DEF CacheOnly, Next
  <2>7. CASE TelemetryReset /\ UNCHANGED <<vars, asked>>
        BY <2>7
  <2> QED BY <2>1, <2>2, <2>3, <2>4, <2>5, <2>6, <2>7 DEF FabricNext
<1> QED BY <1>1, <1>2, AlwaysAccounted, PTL DEF FabricSpec, Spec

\* The types of the whole fabric.
THEOREM FabricTypeCorrect == FabricSpec => []FabricTypeOK
<1>1. TypeOK /\ Accounted => FabricTypeOK
      BY DEF Accounted, FabricTypeOK
<1> QED BY <1>1, UsesCache, TypeCorrect, AlwaysAccounted, PTL

\* With a stable embedder no dead key is left in the bucket index and every lookup
\* is sound, also those of queries the LLM makes while another waits for it.
THEOREM NestedLookupsSound ==
  ASSUME StableEmbedder
  PROVE  FabricSpec => [](NoDeadKeys /\ LookupSound)
BY UsesCache, IndexStaysClean, LookupsSound, PTL
=============================================================================
