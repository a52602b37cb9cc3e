---------------------------- MODULE VramPressure ----------------------------
(***************************************************************************)
(* The memory pool shared by two threads without a lock: a client, on the  *)
(* event loop, allocates and frees, while the scheduler's daemon thread    *)
(* (scheduler/dynamic.py, _check_vram_pressure) looks for pressure and     *)
(* evicts.                                                                 *)
(*                                                                         *)
(* CPython 3.10 switches threads at function calls and at the end of a     *)
(* loop's turn; a step is what runs between two such points.  Iterating    *)
(* over _blocks raises RuntimeError when its size has changed since the    *)
(* iteration began.  An exception leaves the client's call and, uncaught,  *)
(* ends the scheduler's thread.                                            *)
(***************************************************************************)
EXTENDS MemoryPool, FiniteSetsExt

VARIABLES
  pc,      \* thread -> where it is
  local    \* thread -> the local variables of the calls it is in

vars == <<poolVars, pc, local>>

Threads == {"client", "scheduler"}

Fresh ==
  [key   |-> "none",                        \* the key being worked on
   block |-> [size |-> 0, tier |-> "vram"], \* the block popped, or to put
   used  |-> 0,       \* the counter's new value, not yet stored
   count |-> 0,       \* size of _blocks when the iteration began
   seen  |-> {},      \* keys the iteration has visited
   bytes |-> 0,       \* bytes of VRAM the iteration found taken, or left free
   keep  |-> {},      \* keep_keys
   todo  |-> {}]      \* the rest of evict_lru's snapshot of the keys

\* free_ratio < 0.10 when this many bytes of VRAM are taken
Low(used) == 10 * Minus(TotalBytes, used) < Max({TotalBytes, 1})

Init ==
  /\ PoolInit
  /\ pc = [t \in Threads |-> IF t = "client" THEN "idle" ELSE "sleep"]
  /\ local = [t \in Threads |-> Fresh]

Goto(t, p) == pc' = [pc EXCEPT ![t] = p]

\* The end of a call (or of the thread): its local variables are gone.
Leave(t, p) == Goto(t, p) /\ local' = [local EXCEPT ![t] = Fresh]

-----------------------------------------------------------------------------
(* Iterating over _blocks.                                                 *)

Resized(t) == Cardinality(Allocated) # local[t].count

Iterating(t) ==
  [local[t] EXCEPT !.count = Cardinality(Allocated), !.seen = {}, !.bytes = 0]
Iterated(t) == [local[t] EXCEPT !.count = 0, !.seen = {}, !.bytes = 0]

\* The iteration visits one more key.
Visit(t, k) ==
  /\ ~Resized(t)
  /\ k \in Allocated \ local[t].seen
  /\ local' = [local EXCEPT
       ![t].seen  = @ \cup {k},
       ![t].bytes = @ + (IF blocks[k].tier = "vram" THEN blocks[k].size ELSE 0)]
  /\ UNCHANGED <<poolVars, pc>>

Exhausted(t) == ~Resized(t) /\ Allocated \subseteq local[t].seen

-----------------------------------------------------------------------------
(* free(), in whichever thread runs it; it then goes on at p.              *)

Freed(t) == IF t = "client" THEN "idle" ELSE "freed"

Pop(t, k) ==
  IF k \notin Allocated
    THEN Goto(t, Freed(t)) /\ UNCHANGED <<poolVars, local>>
    ELSE /\ blocks' = Without({k})
         /\ local' = [local EXCEPT ![t].key = k, ![t].block = blocks[k]]
         /\ Goto(t, "release")
         /\ UNCHANGED <<ramBlocks, ramUsed, spillFiles, ssdUsed>>

\* Mutant: the counter may fall below zero.
ReleaseFreely(t) ==
  /\ pc[t] = "release"
  /\ LET b == local[t].block IN
       local' = [local EXCEPT
         ![t].used = (IF b.tier = "ram" THEN ramUsed ELSE ssdUsed) - b.size]
  /\ Goto(t, "store")
  /\ UNCHANGED poolVars

\* The data goes, and max(0, used - size) is computed.
Release(t) ==
  /\ pc[t] = "release"
  /\ LET k == local[t].key
         b == local[t].block
         counter == IF b.tier = "ram" THEN ramUsed ELSE ssdUsed
     IN /\ ramBlocks' = ramBlocks \ {j \in {k} : b.tier = "ram"}
        /\ spillFiles' = spillFiles \ {j \in {k} : b.tier = "ssd"}
        /\ local' = [local EXCEPT ![t].used = Minus(counter, b.size)]
  /\ Goto(t, "store")
  /\ UNCHANGED <<blocks, ramUsed, ssdUsed>>

\* Only now is it stored: what the other thread did to the counter is lost.
StoreCounter(t) ==
  /\ pc[t] = "store"
  /\ ramUsed' = IF local[t].block.tier = "ram" THEN local[t].used ELSE ramUsed
  /\ ssdUsed' = IF local[t].block.tier = "ssd" THEN local[t].used ELSE ssdUsed
  /\ local' = [local EXCEPT ![t].key = "none", ![t].block = Fresh.block, ![t].used = 0]
  /\ Goto(t, Freed(t))
  /\ UNCHANGED <<blocks, ramBlocks, spillFiles>>

-----------------------------------------------------------------------------
(* The client's calls.                                                     *)

\* allocate() of a size its block does not have begins to add up used bytes.
CallAllocate(k, size) ==
  /\ pc["client"] = "idle"
  /\ ~Suffices(k, size)
  /\ local' = [local EXCEPT !["client"] =
       [Iterating("client") EXCEPT !.key = k, !.block = [size |-> size, tier |-> "vram"]]]
  /\ Goto("client", "sum")
  /\ UNCHANGED poolVars

\* Meanwhile the other thread can only remove blocks, which the iteration
\* notices: unless it raises, its sum is that of the blocks at its end.
SumUsed ==
  /\ pc["client"] = "sum"
  /\ IF Resized("client")
       THEN Leave("client", "idle")
       ELSE /\ local' = [local EXCEPT !["client"] =
                  [Iterated("client") EXCEPT !.bytes = FreeBytes(blocks)]]
            /\ Goto("client", "place")
  /\ UNCHANGED poolVars

\* _allocate_vram or _allocate_spillover, up to the block's own creation.
Place ==
  /\ pc["client"] = "place"
  /\ LET size == local["client"].block.size
         tier == TierFor(size, local["client"].bytes)
     IN /\ Store(local["client"].key, size, tier)
        /\ local' = [local EXCEPT !["client"].block.tier = tier]
  /\ Goto("client", "put")
  /\ UNCHANGED blocks

PutBlock ==
  /\ pc["client"] = "put"
  /\ Put(local["client"].key, local["client"].block.size, local["client"].block.tier)
  /\ Leave("client", "idle")
  /\ UNCHANGED <<ramBlocks, ramUsed, spillFiles, ssdUsed>>

CallFree(k) ==
  /\ pc["client"] = "idle"
  /\ k \in Allocated
  /\ Pop("client", k)

ClientReturns == Release("client") \/ StoreCounter("client")

-----------------------------------------------------------------------------
(* A tick of the scheduler.                                                *)

In(p) == pc["scheduler"] = p
mine == local["scheduler"]

\* The interval has passed, or a block was freed: used bytes are added up.
BeginSum(from, to) ==
  /\ In(from)
  /\ local' = [local EXCEPT !["scheduler"] = Iterating("scheduler")]
  /\ Goto("scheduler", to)
  /\ UNCHANGED poolVars

\* An iteration of the scheduler goes on, or raises and ends the thread.
Iterate ==
  /\ In("stats") \/ In("keep") \/ In("recheck")
  /\ \/ \E k \in Keys : Visit("scheduler", k)
     \/ Resized("scheduler") /\ Leave("scheduler", "dead") /\ UNCHANGED poolVars

\* stats() adds up the used bytes a second time, for a field nobody reads here.
SumAgain ==
  /\ In("stats") /\ Exhausted("scheduler")
  /\ local' = [local EXCEPT !["scheduler"] =
                [Iterating("scheduler") EXCEPT !.bytes = mine.bytes]]
  /\ Goto("scheduler", "again")
  /\ UNCHANGED poolVars

\* Unless that raised: without pressure the tick is over, otherwise keep_keys is
\* computed.
CheckPressure ==
  /\ In("again")
  /\ IF Resized("scheduler") THEN Leave("scheduler", "dead")
     ELSE IF Low(mine.bytes)
       THEN /\ local' = [local EXCEPT !["scheduler"] = Iterating("scheduler")]
            /\ Goto("scheduler", "keep")
       ELSE Leave("scheduler", "sleep")
  /\ UNCHANGED poolVars

ComputeKeep ==
  /\ In("keep") /\ Exhausted("scheduler")
  /\ local' = [local EXCEPT !["scheduler"] =
                [Iterated("scheduler") EXCEPT !.keep = mine.seen \cap KeepKeys]]
  /\ Goto("scheduler", "snapshot")
  /\ UNCHANGED poolVars

\* evict_lru(): list(self._blocks.keys())
Snapshot ==
  /\ In("snapshot")
  /\ local' = [local EXCEPT !["scheduler"].todo = Allocated \ mine.keep]
  /\ Goto("scheduler", "pick")
  /\ UNCHANGED poolVars

\* Mutant: a key whose block is gone is skipped but stays in the snapshot.
PickAgain ==
  /\ In("pick")
  /\ IF mine.todo = {} THEN Leave("scheduler", "sleep")
     ELSE \E k \in mine.todo \cap Allocated :
            /\ local' = [local EXCEPT !["scheduler"].key = k,
                                      !["scheduler"].todo = @ \ {k}]
            /\ Goto("scheduler", "pop")
  /\ UNCHANGED poolVars

\* The next key of the snapshot: KeyError when its block is gone by now.
Pick ==
  /\ In("pick")
  /\ IF mine.todo = {} THEN Leave("scheduler", "sleep")
     ELSE \E k \in mine.todo :
            IF k \in Allocated
              THEN /\ local' = [local EXCEPT !["scheduler"].key = k,
                                             !["scheduler"].todo = @ \ {k}]
                   /\ Goto("scheduler", "pop")
              ELSE Leave("scheduler", "dead")
  /\ UNCHANGED poolVars

Evict == In("pop") /\ Pop("scheduler", mine.key)

\* Enough is free again, or the loop goes on.
Recheck ==
  /\ In("recheck") /\ Exhausted("scheduler")
  /\ IF Minus(TotalBytes, mine.bytes) > FreeTarget
       THEN Leave("scheduler", "sleep")
       ELSE /\ Goto("scheduler", "pick")
            /\ local' = [local EXCEPT !["scheduler"] = Iterated("scheduler")]
  /\ UNCHANGED poolVars

Wake == BeginSum("sleep", "stats")

TickStep ==
  \/ Iterate
  \/ SumAgain
  \/ CheckPressure
  \/ ComputeKeep
  \/ Snapshot
  \/ Pick
  \/ Evict
  \/ Release("scheduler")
  \/ StoreCounter("scheduler")
  \/ BeginSum("freed", "recheck")
  \/ Recheck

Next ==
  \/ \E k \in Keys, size \in Sizes : CallAllocate(k, size)
  \/ \E k \in Keys : CallFree(k)
  \/ SumUsed
  \/ Place
  \/ PutBlock
  \/ ClientReturns
  \/ Wake
  \/ TickStep

\* The operating system schedules the thread; its sleep ends.
Spec == Init /\ [][Next]_vars /\ WF_vars(Wake) /\ WF_vars(TickStep)

-----------------------------------------------------------------------------
(* Properties.                                                             *)

TypeOK ==
  /\ PoolTypeOK
  /\ pc["client"] \in {"idle", "sum", "place", "put", "release", "store"}
  /\ pc["scheduler"] \in {"sleep", "stats", "again", "keep", "snapshot", "pick", "pop",
                          "release", "store", "freed", "recheck", "dead"}
  /\ \A t \in Threads :
       /\ local[t].key \in Keys \cup {"none"}
       /\ local[t].used \in Nat /\ local[t].bytes \in Nat
       /\ local[t].count \in 0 .. Cardinality(Keys)
       /\ local[t].seen \cup local[t].keep \cup local[t].todo \subseteq Keys

\* A tick always ends, however the client's calls fall between its steps: the
\* thread sleeps again or, when an iteration raised, is dead.
TickEnds == ~(In("sleep") \/ In("dead")) ~> (In("sleep") \/ In("dead"))

\* The scheduler evicts no agent's state and not the LLM's weights.
SparesCriticalBlocks ==
  In("release") => mine.key \notin KeepKeys

\* The feedback loop runs every tick_interval_ms as long as the process does: no
\* exception of a tick ends its thread.
SchedulerLives == ~In("dead")
=============================================================================
