# vram-fabric in TLA+

A verification project for the Python package `src/src/vram_fabric`: TLA+ modules
translated from its source, TLC configurations that check them on small instances, and
theorems about them that TLAPS checks for every value of the constants. File names below
are relative to `src/src/vram_fabric`.

## 1. Inventory

vram-fabric keeps a semantic response cache, a vector index and a set of agents on one GPU.
One process runs two kinds of thread: the caller's thread (the asyncio event loop of the
REST API, whose handlers call the engines synchronously and one at a time) and the
scheduler's daemon thread. The scheduler's lock guards its own shares; the pool, which both
threads use, has none.

| Component | State | Operations | What makes it correct |
|---|---|---|---|
| Semantic cache, `engines/cache_engine.py` | entries (response, embedding, timestamp) by key, LSH bucket index, cycle counter, ring of recent query embeddings | `insert`, `insert_sentence_chunks`, `lookup`, `lookup_sentence_chunks`, `fuzzy_contains`, `speculative_prefetch`, `clear`, `shutdown` | the index and the entries agree although each is updated separately; a lookup returns an entry that is cached and similar; eviction is in order of last use and keeps the limit |
| Agent runtime, `engines/agent_runtime.py` | registered agents, instances, active count, cache pressure, time of the last admission, LLM backend | `register`, `spawn`, `run_task`, `run_workflow`, `collect`, `set_cache_pressure`, `set_llm_backend`, `shutdown` | admission is bounded and gives capacity back; a workflow respects its dependencies, neither loses nor repeats a task, reports what became of each, and ends |
| Memory pool, `memory/pool.py` | blocks by key in three tiers (VRAM, RAM, files), the RAM and disk counters | `allocate`, `free`, `get`, `evict_lru`, `stats`, `shutdown` | VRAM and RAM stay within their limits, a spilled block keeps its data as long as no spill over its file fails |
| Scheduler, `scheduler/dynamic.py` | the running flag and thread, shares, integrals, occupancy, throttled flag | `start`, `stop`, `_tick` (PI control, `_check_vram_pressure`), `set_policy` | loops do not pile up, end when stopped and tick when not; shares add up to one and starve no engine; every tick ends, the thread survives, eviction spares critical blocks |
| Vector engine, `engines/vector_engine.py` | vectors, ids, count, dirty flag, FAISS index, copy of the vectors on the GPU, pool block `vector_index` | `add`, `search`, `search_batch`, `remove`, `shutdown` | a row found is the vector of the id it is reported as, also after `remove`; the index is of the rows that are stored; the pool's block is given back |
| Fabric, `core/fabric.py` | the engines, the LLM backend | `query`, `index_documents`, `index_sentence_chunks`, `run`, `update_cache_pressure`, `set_llm_backend`, `shutdown` | the engines' invariants survive their composition and re-entrant queries |
| Telemetry, `telemetry/__init__.py` | counters, gauges, bounded latency windows | `increment`, `gauge`, `record_latency`, `snapshot`, `reset` | a percentile is a sample of the window, next to the rank asked for; windows and counters agree |
| REST API, `api/routes.py` | the app's fabric | handlers | each handler is one call of the fabric |
| Types and configuration, `core/types.py`, `config.py` | records and parameters | none that changes state | - |

Interactions:

- `fabric.query` looks a prompt up in the cache, calls the LLM on a miss and inserts the answer.
  The cache's steps of two queries can therefore only alternate as whole operations.
- `update_cache_pressure` hands the cache's miss ratio to the runtime, which stops admitting above
  the threshold.
- When CUDA is there, the runtime's `register` allocates `agent_state_<name>` in the pool and the
  vector engine `vector_index`; both free theirs at shutdown.
- The scheduler's thread reads and evicts pool blocks while the event loop's thread allocates
  and frees them. All fabrics of a process share the one pool `vram_pool`.
- The LLM backend is the caller's function. While it runs, it may call back into the runtime, or
  into the fabric: the queries that wait for it are a stack.

Hard behaviours, each listed with its line in `PROJECT.json` under `hazards`: interleavings
of the scheduler with the pool's users; a read counter stored after the other thread changed
it; iteration over a dictionary that changes; the wrap of the cycle counter; index entries that
outlive the embedding they were filed by; positions in one list used in another; retries of
rejected tasks; a loop that `stop()` did not wait for; a controller that clamps before it normalises;
capacity that is counted by a number but held by objects; spill writes that fail half-way.

## 2. Modules

| Module | Models | Extends |
|---|---|---|
| `SemanticCache` | the cache, one action per operation | - |
| `LRUOrder` | what the cache promises about eviction: a set of keys and their order of last use | - |
| `AgentRuntime` | registration, instances, admission | - |
| `Workflow` | `run_workflow`, interleaved with callers and the LLM backend | `AgentRuntime` |
| `MemoryPool` | the pool used by one thread | - |
| `VramPressure` | the pool used by two threads at CPython's switch points, one of them the scheduler's VRAM check | `MemoryPool` |
| `VectorEngine` | the vector engine over the pool, which agents and the scheduler use in between | `MemoryPool` |
| `VectorStore` | what the vector engine promises: a set of pairs of an id and a vector | - |
| `Scheduler` | `start`, `stop`, the loops, `set_policy` and the PI controller | - |
| `Telemetry` | counters and windows of latencies | - |
| `Fabric` | `query`, re-entered by the LLM function, over cache and telemetry | `SemanticCache`, `Telemetry` |
| `MCSemanticCache`, `MCWorkflow`, `MCVectorEngine`, `MCScheduler`, `MCFabric` | the instances TLC checks | |
| `SemanticCacheProofs`, `WorkflowProofs`, `MemoryPoolProofs`, `VramPressureProofs`, `VectorEngineProofs`, `SchedulerProofs`, `FabricProofs` | theorems about the module each is named after; `SemanticCacheProofs` has the refinement of `LRUOrder`, `WorkflowProofs` the lemmas about `AgentRuntime`, `FabricProofs` those about `Telemetry` | that module; pool and scheduler also `SumTheorems` |
| `SumTheorems` | lemmas about sums over finite sets | - |

How state and actions correspond to the code:

- **SemanticCache.** `embeddings`, `timestamps`, `lshBucketIndex`, `cycle` are the engine's fields
  of the same names; `history` is the length of the deque of recent query embeddings, `queried` whether
  `_last_query_emb` is set. Similarity and bucket are functions of embeddings (constants), since
  the properties depend on nothing else about the vectors. `Insert` includes the eviction
  it does first, with the victim's removal from the bucket index; `Lookup` covers the linear, the
  bucket and the GPU search. `Outcomes` is the GPU search as written: similarities of the live
  candidates, positions in the list of all candidates.
- **AgentRuntime, Workflow.** `instances` are those a caller of `spawn()` holds, `taskStream` is the
  instance of the task in the LLM backend, `stale` counts the instances `run_task` leaves in
  `_instances`. `Iterate` is one turn of `run_workflow`'s loop; it is cut at the call of the backend
  (`LlmReturns` is the second half), because the backend may spawn and collect (`Caller`).
  `Settle` is the common end of the turn: record the outcome, then make ready all that became
  eligible. `Retry` is the `continue` that requeues the rejected tasks.
- **MemoryPool.** `blocks` is `_blocks` with each block's size and tier; `ramBlocks` and
  `spillFiles` are where the data is: a key is in `spillFiles` when its file was written to the end.
  `Allocate` replaces a block that is too small without freeing it, as the code does. `SpillFails` is a
  write that fails after `open(..., "wb")`, which has emptied the file the key may have had: the old block stays
  in `_blocks`, its data is gone. A failure before that changes nothing and is no action; what is
  left of a file that no block refers to is never read and is written anew by the next spill of its key.
- **VramPressure.** Each thread has a `pc` and the local variables of the calls it is in. A step
  is what runs between two of CPython's switch points (function calls, the ends of loop turns);
  a dictionary that changed size under an iteration raises, which ends the client's call or the
  scheduler's thread. The subtraction in `free()` is split into the read (`Release`) and the
  write (`StoreCounter`).
- **VectorEngine.** `vectors`, `ids`, `index`, `dirty` are the engine's fields, `held` says whether
  `_memory_block` is set; `index` is the sequence of rows it was built of. `Search` is what a search
  changes: `_ensure_index` builds the index, which FAISS may refuse (`Built`), and asks the pool
  for the block (`TakeBlock`), which may have none to give. `Remove` filters rows and ids by one mask and
  builds the index at once. `OthersUsePool` is every operation of the pool by anybody else,
  eviction and another fabric's shutdown included, which may take the engine's block away.
- **Scheduler.** `pc` holds one control point for each loop that `start` began, since a `stop()` that
  gives up after five seconds (`Joined`, counted in `timeouts`) leaves a loop behind that a later `start` runs
  beside. A tick is two steps under `lock`: `BeginTick` samples and clamps, `EndTick` normalises, and
  then the check of VRAM pressure succeeds or raises. Shares are whole numbers of
  hundredths of a percent rounded down, so the gains are the factors 5 and 1 of an error in percent. The code
  adjusts one engine after the other; as the clamped share of one depends on no other, that is one
  function of all.
- **Telemetry, Fabric.** `latencies` has the window of each timer, `counters` the counts. `asked` is the
  stack of calls of `query()` that wait for the LLM, each with its prompt and the embedding made
  before the lookup. `Query` is `query()` up to the answer or the call, `LlmAnswers` the rest; any
  operation of the fabric may come between. A lookup that raises leaves the telemetry alone.

Definitions marked "Mutant" are not part of the models. Each is a plausible mistake in a definition
above or below it and must make a property fail when it is put in that definition's place
(`PROJECT.json`, `mutants`).

## 3. Runs

Runs that pass:

| Run | What it asks |
|---|---|
| `cache_cpu` | Without a GPU, and with a document that is indexed again with other sentences: is every cached entry found again by its own embedding (`EntriesIndexed`, `ExactLookupHits`, `ExactChunkFound`), is the limit kept (`InsertKeepsCapacity`), is the engine an LRU cache (`RefinesLRU`, a refinement of `LRUOrder`)? |
| `fabric` | Queries whose LLM function queries again, indexes, clears the cache or resets the telemetry before it answers, with a GPU and an embedder that is a function of the key: does the index hold live keys only (`NoDeadKeys`), so that the GPU search answers with the entry it found (`LookupSound`)? Does each counted query have its latency in the window (`LatencyPerLookup`), and is a percentile next to the nearest rank (`PercentilesNear`)? |
| `workflow_safety` | A join, a chain and a workflow with a dependency that does not exist, with callers that spawn and collect in between and texts that look like rejections: admission is bounded, the count never exceeds the instances in use, tasks respect their dependencies, are in one place each, are never forgotten, and have an outcome at the end. |
| `workflow_liveness` | If nobody collects a finished task's instance and no text contains the rejection phrase: instances in use stay within the limit, and a workflow ends unless one of its agents stays unregistered or capacity is never given back. |
| `vector` | The vector engine shares a pool of three tiers with agents and the scheduler, with spill writes and index builds that fail: is an index only used while it is of the rows stored (`SearchFaithful`), do rows stay with their ids (`RefinesStore`, a refinement of `VectorStore`), is the block the pool holds one that `shutdown()` frees (`BlockGivenBack`), do the pool's limits hold, and does a spilled block lose its data only to a failed spill over its file (`SpilledDataKept`)? |
| `scheduler` | Start and stop, also a stop that gives up, against ticks that change shares and raise: are there never more loops than one and those left behind (`LoopsBounded`), does every loop end once the scheduler stays off (`LoopsEnd`), does it tick as long as it stays on (`TicksGoOn`)? Do shares add up to one (`SharesNormalized`), is no engine starved (`NoneStarves`) or overtaken by one that was never less busy (`OrderKept`; on the direction, see below)? |
| `pressure` | Two threads: VRAM is not overcommitted, and every tick ends. |

Runs in which TLC refutes what the repository says (`findings`):

| Run | Statement refuted | What happens |
|---|---|---|
| `cache_gpu_stale` | a lookup returns the response it found (`LookupSound`) | A document indexed again with another sentence leaves a dead key in its old bucket; once evicted, it shifts the positions of the GPU search. |
| `workflow_hang` | `run_workflow` returns a result with the errors (`WorkflowTerminates`) | A task of an unregistered agent is made ready again after each failure, for ever. |
| `streams_shared` | a dedicated stream per agent (`StreamsIsolated`) | The stream is the active count modulo the streams; after a collection out of order it is one in use. |
| `agent_state_evicted` | critical blocks are kept (`SparesCriticalBlocks`) | A block allocated between the computation of `keep_keys` and the snapshot of the keys is evicted. |
| `scheduler_dies` | the feedback loop runs every interval (`SchedulerLives`) | A client's allocation during the scheduler's iteration raises in its thread, which nothing catches. |

### Where the documents and the code disagree without a run

- *The direction of the controller.* `dynamic.py:80` computes the error as target minus occupancy, so the
  engine that is less busy gains. `PRD.md:420` has the same formula, but the requirement in `PRD.md:216`
  (`if vector_occupancy > 0.8: vector_share += 0.05`) has the opposite effect, that the busy engine gains: with equal
  shares and the vector engine alone at 100 percent, the code lowers its share. The PRD contradicts itself, so it is
  not said here which of the two is meant. `OrderKept` states, and `OrderIsKept` proves, the direction of
  the code and of `PRD.md:420`; under `PRD.md:216` both would have to be reversed.
- *Limits per engine.* `PRD.md:217` gives LLM 50-80, vector 5-30, agent 5-25 and cache 2-15 percent. The code, like
  `PRD.md:423`, clamps every share to 2-80 percent before it normalises. `NoneStarves` is the bound this
  leaves, which is much weaker: with four engines at least 0.8 percent, after normalisation.

### Bounds and why they are enough

- Cache: three queries and one document of up to two sentences, three embeddings in four buckets,
  so that there are similar entries in neighbouring, in distant and in wrapped-around buckets, and
  more keys than the limit of two. `LshMin` and `GpuMin`
  are 1 where the code has 50 and 100: the properties do not depend on the thresholds' values,
  and 1 makes both sides of each reachable with five keys. `CycleBound` = 8 ends a behaviour after eight uses,
  enough to fill, hit, evict and refill; `MaxCycles` = 100 means no wrap.
- Fabric: the cache's instance with one document and `CycleBound` = 6; two queries may wait at once, so
  that one is asked inside another, and four are counted, one more than the window holds, so that it
  drops a sample.
- Workflow: three workflows of up to three tasks, two agents, two caller-held instances and
  two active agents. `StaleBound` caps a count that only enables `CollectStale`: 2 lets the count
  fall below the instances in use twice, 0 says that nobody collects them.
- Vector engine: two vectors, exchangeable, and three ids, so that ids are used again after a removal
  and one id may have several rows; an index is built from two rows on. In the pool,
  VRAM of 1, RAM of 3 and sizes 1 to 3 for two owners, so that each tier is full at times and the engine's
  block moves through all three. `FreeTarget` stands for the 512 MB at which eviction stops, and
  `ssdUsed` saturates at `SsdBound`, as no decision depends on it.
- Pressure: two keys and `SsdBound` = 0: it asks about VRAM and the threads' control only; the two
  runs of the module that look for a refutation have three keys.
- Scheduler: two engines, policies at both limits, above one in total and without one engine, three
  occupancies on both sides of two targets. Three loops and one `stop()` that gives up let a loop be left
  behind, with two more started after it. After `TickBound` = 2 ticks with changing shares, from
  any of these policies and after any `set_policy`, ticks go on but leave shares alone; without this the
  integral, which the code does not bound, would make the model infinite.
- Deadlock is checked in every run.

### Fairness

`workflow_liveness` and `workflow_hang` assume that the thread in `run_workflow` keeps running
(weak fairness of `Iterate` and `Finish`), that the LLM backend answers each call
(`LlmReturns`) and that time passes (`Cooldown`). None of these depends on what the callers do:
no fairness is assumed of spawning, collecting, registering or lowering the pressure.
`pressure` assumes that the operating system schedules the scheduler's thread and that its sleep ends;
nothing is assumed of the client, which may stop anywhere, also while it changes the pool.
`scheduler` assumes of each loop's thread that it goes on (weak fairness of `LoopStep`): the operating
system schedules it, its sleep ends, and a tick, which waits for nothing, ends or raises. The lock is
held by one loop at a time and always given back, so weak fairness is enough. Nothing is assumed
of the caller of `start` and `stop`.

## 4. Proofs

Assumptions are those on the constants, named in the modules (`CacheConstants`,
`RuntimeConstants`, `WorkflowConstants`, `PoolConstants`, `VectorConstants`,
`SchedulerConstants`, `TelemetryConstants`, `FabricConstants`) and evaluated by TLC, and those a
theorem names: `~GpuAvailable`, `StableEmbedder`, `NoWrap`, `StaleBound = 0`.

- **SemanticCacheProofs.** `TypeCorrect`; `AlwaysIndexed` (`EntriesIndexed`): the type invariant and
  `EntriesIndexed` together are inductive, because the victim's bucket is cleaned before the new key is filed and the key
  that is stored again gets a second place, not a wrong one. `ExactLookups` follows from them: an exact
  entry is in the bucket searched (`NearItself`), has similarity 100, and the threshold is at most that;
  `ExactChunks` (`ExactChunkFound`) likewise. `ExactLookups`
  assumes no GPU, since a failing GPU makes a lookup a miss. `IndexStaysClean`
  (`NoDeadKeys`) needs more than itself: that each entry's embedding is *the* one its key may have
  (`OwnEmbedding`), since otherwise `insert` files a key twice. `LookupsSound` follows.
  `InsertMakesRoom` (`InsertKeepsCapacity`) counts: a full cache gives up one key before it stores
  one. It needs that the cached keys are finitely many, and that no chunk's key is a query's (16 hexadecimal
  digits; a chunk's key appends its place to such a hash), since chunks are stored without eviction.
  `ImplementsLRU`: `Spec => RefinesLRU`, for every size of cache, document
  and embedder, as long as the counter does not wrap (`NoWrap`: `CycleBound < MaxCycles`). The inductive
  invariant `Behind` says that every timestamp is smaller than the counter;
  with it a used key becomes the newest. Each
  operation is mapped to one of `LRUOrder`, and a lookup that misses to a stutter.
- **WorkflowProofs.** `WInv` is the conjunction of `TypeOK`, the two facts about the count
  (`Counted`), what holds at each control point (`Phase`: no task is current outside the backend, and
  nothing waits when the run is over without throttling) and the facts about queues (`Placed`).
  From it: `TypeCorrect`, `AdmissionHolds`, `CountIsNoMoreThanLive`, `DependenciesHold`,
  `OneTaskOnePlace`, `NothingRunnableIsLost` (`RunnableNotForgotten`), `OutcomesReported`. `Placed` is needed as a whole: that nothing is lost
  rests on dependencies being complete when a task is queued, and on a task being in one
  place only. `CapacityHolds` (`LiveWithinLimit`)
  adds that every instance in use is counted (`AllCounted`), which only the collection of a stale instance
  breaks, so it assumes `StaleBound = 0`: such instances are never collected. The module begins with the
  lemmas about single operations of the runtime.
- **SumTheorems.** The pool's bytes and the scheduler's total are sums, `SumFunctionOnSet` of the community
  module `Functions`, which is defined by a recursive function over subsets. The lemmas say that a sum exists,
  is a natural number, does not depend on the order, splits, grows with the set and keeps linear inequalities
  between values. The library's induction theorems cannot be instantiated here, so each proof takes the
  smallest set that would be a counterexample (`SmallestSubset`, from the library's theorem that strict inclusion is
  well-founded on the subsets of a finite set) and removes one element. `LeastValue` and `GreatestValue` follow the same way.
- **MemoryPoolProofs.** `PoolInv` (types, `VramWithinTotal`, `RamAccounted`) is inductive: a block enters VRAM only
  if it fits beside the bytes there, in which the block it replaces is still counted; the RAM counter grows by what is
  put and shrinks by no more than is taken. Hence `PoolTypeCorrect`, `VramNeverOverfull` and `RamStaysAccounted`.
  `DataLostOnlyByFailedSpill` (`SpilledDataKept`) needs no invariant: `Put` and `Store` give a block its data and take no other's
  (`PutKeepsData`), freeing takes that of the freed (`FreeKeepsData`), and a failed spill that of its key only.
- **VramPressureProofs.** Both threads at once, for any keys, sizes and limits: `TwoThreadsTypeCorrect` (`TypeOK`), where what
  the local variables hold depends on each thread's control point, and `VramNeverOverfullUnderPressure`
  (`VramWithinTotal`). The invariant `Room` says that an allocation which has found room still has it when it stores
  its block: between the two steps the scheduler only takes blocks away.
- **VectorEngineProofs.** `Aligned` (rows and ids of one length, `SearchFaithful`) is inductive;
  appending and filtering by one mask keep every row with its id, which gives `SearchesFaithful` and, action
  by action, `ImplementsStore` (`RefinesStore`). `UsesPool` shows that each step of the engine is one of
  the pool or none, so `DataLostOnlyByFailedSpillUnderEngine`,
  `VramNeverOverfullUnderEngine`, `RamStaysAccountedUnderEngine` and the pool's part of `EngineTypeCorrect` (`TypeOK`) are its theorems cited.
  `BlockIsGivenBack` needs only that the block enters the pool with `held` and that
  shutdown, if it does not find the block, leaves none.
- **SchedulerProofs.** `LoopsStayBounded` (`LoopsBounded`): the inductive
  invariant `LeftBehind` counts the loops other than the latest that are still active: those are at most `timeouts`, and
  the latest may be active as well only while the scheduler runs, or until a `stop()` has waited for it.
  The controller, for any set of engines, policies and occupancies: `SchedulerTypeCorrect` (`TypeOK`).
  `SharesStayNormalized` (`SharesNormalized`) sums the rounding of each quotient (`NormalizedTotal`): shares are only
  changed without normalization while the lock is held. `OrderIsKept` (`OrderKept`) because both clamping and rounded
  division are monotone. `NoEngineStarves` (`NoneStarves`) rests on `WithinLimitsInTick`, that shares are within
  `MinShare` and `MaxShare` from the sampling to the end of a tick, and on `NormalizedLeast`, which bounds the
  total of the others by their number times `MaxShare`.
- **FabricProofs.** `UsesCache`: `FabricSpec => Spec`, so the cache's theorems hold under re-entrant
  queries (`NestedLookupsSound`). `LatenciesCounted` (`LatencyPerLookup`) rests on the window's length after
  a push (`PushedWindow`) and on `reset()` forgetting both. `RankNearest` is the arithmetic of the
  percentile's rank, for every percentage and window; `SampleAtRank` that a sample stands at each rank, the greatest with fewer
  samples below it than the rank; `PercentilesStayNear` (`PercentilesNear`) follows.

Model-checked only: the liveness properties (`TerminatesWhenServed`, `LoopsEnd`, `TicksGoOn`, `TickEnds`), since fairness
and ENABLED are out of the prover's reach. Every invariant and every action property of the passing runs is
stated by a theorem; of `ExactLookupHits`, `NoDeadKeys`, `LookupSound`, `RefinesLRU` and `LiveWithinLimit`
under the assumption named above, which is that of the run.

## 5. What is left out

- Cache: response texts, statistics, logging; duplicates and order within a bucket list, for which
  prefetching may touch any keys of the bucket. The abstract cache allows a lookup to leave the
  order as it is, so `RefinesLRU` alone does not say that a hit refreshes its entry.
- Cache: what happens after the cycle counter has wrapped. `max_cycles` is 1000000 by default, so it
  takes that many insertions and hits; the entries used after the wrap then have the smallest timestamps
  and are evicted first, which is not the order of use that `engines/cache_engine.py:28` promises.
  `RefinesLRU` is checked and proved up to the wrap.
- Runtime: an LLM backend that itself calls `run_task` or `run_workflow`, and a shutdown while a
  workflow runs.
- Pool: the fall-back to the CPU when a CUDA allocation fails, the tensors themselves, and that of a spilled block
  above 1 GiB only the first GiB is written (`pool.py:118`).
- Scheduler: the flag `throttled`, which only `stats()` reads, the reads of `stats()` and `get_share()`, which
  take no lock, and rounding of floating point numbers. No code of the package registers an
  occupancy callback, so all occupancies are 0 and all errors equal: shares move towards each other
  whatever the policy asked for. That is the model's case of equal occupancies.
  Policies with shares outside 0..1, which the REST API hands to `set_policy` unchecked, are excluded by
  assumption (`SchedulerConstants`).
- Vector engine: scores and the choice of the k best, `argpartition` with k equal to the number of
  rows included (it raises, with nothing left behind); callers that give fewer ids than vectors;
  the tensor on the GPU, which stays when the pool evicts its block.
- Fabric: `search` and `index_documents`, which embed and call the vector engine; the pressure
  that `update_cache_pressure` computes from the cache's hits and misses, for which `AgentRuntime` admits
  any; two fabrics with one block `vector_index` in the one pool.
- Telemetry: gauges, means and the uptime.
- REST API: the handlers await nothing, so they are calls of the fabric, one after the other. `/shutdown`
  drops the fabric and the next request builds one, in its initial state.

## 6. Plan

In the order of importance; all but the last two are done.

1. Semantic cache and its abstract LRU order, with proofs. (done)
2. Runtime and workflow, with proofs. (done)
3. Pool, alone and under the scheduler's thread, with proofs. (done)
4. `VectorEngine` over the pool, refining `VectorStore`, with proofs. (done)
5. `Scheduler`: start and stop racing the loops, and the PI controller. (done, with proofs)
6. `Telemetry` and `Fabric`: `query` with a backend that calls the fabric again. (done, with proofs)
7. Composition of two fabrics over one pool, and of the cache's hit ratio with admission.
8. Under two threads: that the scheduler spares the critical blocks it saw, as a property and a theorem.
