------------------------------- MODULE Fabric -------------------------------
(***************************************************************************)
(* VRAMFabric (core/fabric.py) over its cache and its telemetry: query()   *)
(* looks a prompt up, asks the LLM on a miss and stores the answer.  The   *)
(* LLM is a function of the caller's (set_llm_backend), which may use the  *)
(* fabric before it answers: the queries that wait for it are a stack.     *)
(*                                                                         *)
(* All calls are made on one thread, as by the handlers of api/routes.py,  *)
(* which await nothing.  The REST API's shutdown also drops the fabric:    *)
(* the next request builds one, in its initial state.                      *)
(***************************************************************************)
EXTENDS SemanticCache, Telemetry

CONSTANTS
  MaxDepth,    \* bound: queries that wait for the LLM
  LookupBound  \* bound: queries counted by the telemetry

ASSUME FabricConstants ==
  /\ MaxDepth \in Nat /\ LookupBound \in Nat
  /\ Counters = {"cache_hits", "cache_misses"} /\ Timers = {"cache_lookup"}

VARIABLE asked  \* the calls of query() that wait for the LLM: prompts, embedded

fabricVars == <<vars, telemetryVars, asked>>

Calls == {c \in Queries \X Embeddings : c[2] \in EmbedsAs[c[1]]}

Counted == counters["cache_hits"] + counters["cache_misses"]

FabricInit == Init /\ TelemetryInit /\ asked = <<>>

\* query() up to its answer from the cache, or to the call of the LLM.
Query(q) ==
  /\ Len(asked) < MaxDepth /\ Counted < LookupBound
  /\ \E e \in EmbedsAs[q] : \E k \in Outcomes(e) :
       /\ Answer(k)
       /\ IF k \in Keys \ Cached THEN UNCHANGED <<telemetryVars, asked>>
          ELSE \E ms \in Samples :
            /\ RecordLatency("cache_lookup", ms)
            /\ Increment(IF k = NoKey THEN "cache_misses" ELSE "cache_hits")
            /\ asked' = IF k = NoKey THEN Append(asked, <<q, e>>) ELSE asked

\* The LLM answers the query that asked last, or fails and a placeholder is its
\* answer: query() goes on and stores it under the
\* embedding it made before.
LlmAnswers ==
  /\ asked # <<>>
  /\ LET call == asked[Len(asked)] IN Insert(call[1], call[2])
  /\ asked' = SubSeq(asked, 1, Len(asked) - 1)
  /\ UNCHANGED telemetryVars

CacheOnly(op) == op /\ UNCHANGED <<telemetryVars, asked>>

FabricNext ==
  \/ \E q \in Queries : Query(q)
  \/ LlmAnswers
  \/ \E e \in Embeddings : CacheOnly(Lookup(e))
  \/ \E d \in Documents, n \in 1 .. MaxSentences :
       \E embs \in [0 .. n - 1 -> Embeddings] :
         /\ \A i \in 0 .. n - 1 : embs[i] \in EmbedsAs[<<d, i>>]
         /\ CacheOnly(InsertSentenceChunks(d, n, embs))
  \/ \E b \in Bucket, n \in 1 .. PrefetchWindow :
       \E touched \in SUBSET (lshBucketIndex[b] \cap Cached) :
         \E at \in [touched -> 0 .. n - 1] :
           CacheOnly(SpeculativePrefetch(b, n, touched, at))
  \/ CacheOnly(Clear)
  \/ TelemetryReset /\ UNCHANGED <<vars, asked>>

FabricSpec == FabricInit /\ [][FabricNext]_fabricVars

-----------------------------------------------------------------------------
(* Properties.                                                             *)

FabricTypeOK ==
  /\ TypeOK
  /\ TelemetryTypeOK
  /\ asked \in Seq(Calls) /\ Len(asked) <= MaxDepth

\* Whatever the LLM does with the fabric while a query waits for it, a reset of
\* the telemetry included, each query that is counted as a hit or a miss has its
\* latency in the window, as far as that reaches, and no other has.
LatencyPerLookup ==
  Len(latencies["cache_lookup"]) = IF Counted < WindowMax THEN Counted ELSE WindowMax
=============================================================================
