------------------------- MODULE VramPressureProofs -------------------------
(***************************************************************************)
(* The pool under two threads, for any keys, sizes and limits: although no *)
(* lock keeps the scheduler's evictions out of allocate(), VRAM is never   *)
(* overfull and no counter falls below zero.  What makes it so is that the *)
(* other thread only ever removes blocks: the free bytes the client has    *)
(* counted are still free when it puts its block.                          *)
(***************************************************************************)
EXTENDS VramPressure, MemoryPoolProofs

Tiers == {"vram", "ram", "ssd"}

ClientAt == {"idle", "sum", "place", "put", "release", "store"}
SchedulerAt == {"sleep", "stats", "again", "keep", "snapshot", "pick", "pop",
                "release", "store", "freed", "recheck", "dead"}

LocalVariables ==
  [key : Keys \cup {"none"}, block : [size : Nat, tier : Tiers], used : Nat,
   count : 0 .. Cardinality(Keys), seen : SUBSET Keys, bytes : Nat,
   keep : SUBSET Keys, todo : SUBSET Keys]

\* While the client allocates, its key and size are those it was called with.
Allocating ==
  pc["client"] \in {"sum", "place", "put"} =>
    local["client"].key \in Keys /\ local["client"].block.size \in Sizes

Typed ==
  /\ PoolTypeOK
  /\ pc \in [Threads -> ClientAt \cup SchedulerAt]
  /\ pc["client"] \in ClientAt /\ pc["scheduler"] \in SchedulerAt
  /\ local \in [Threads -> LocalVariables]
  /\ Allocating

-----------------------------------------------------------------------------
(* The types.                                                              *)

LEMMA FreshTyped == Fresh \in LocalVariables
<1>1. Cardinality(Keys) \in Nat
      BY Amounts, FS_CardinalityType
<1> QED BY <1>1 DEF Fresh, LocalVariables, Tiers

LEMMA CountTyped ==
  ASSUME PoolTypeOK
  PROVE  /\ Cardinality(Keys) \in Nat
         /\ Cardinality(Allocated) \in 0 .. Cardinality(Keys)
<1>1. Allocated \in SUBSET Keys
      BY DEF PoolTypeOK
<1>2. /\ IsFiniteSet(Allocated) /\ Cardinality(Allocated) <= Cardinality(Keys)
      BY <1>1, Amounts, FS_Subset
<1> QED BY <1>2, Amounts, FS_CardinalityType

\* A counter that is stored again, or a pool left alone, keeps the pool's types.
LEMMA SameBlocksTyped ==
  ASSUME PoolTypeOK, UNCHANGED blocks, ramBlocks' \subseteq Keys, spillFiles' \subseteq Keys,
         ramUsed' \in Nat, ssdUsed' \in Nat
  PROVE  PoolTypeOK'
BY DEF PoolTypeOK, Allocated

LEMMA SamePoolTyped == ASSUME PoolTypeOK, UNCHANGED poolVars PROVE PoolTypeOK'
BY DEF poolVars, PoolTypeOK, Allocated

\* One thread's step: its place and its variables change, the other's do not.
LEMMA StepTyped ==
  ASSUME Typed, PoolTypeOK', NEW t \in Threads, NEW p, NEW v \in LocalVariables,
         pc' = [pc EXCEPT ![t] = p], local' = [local EXCEPT ![t] = v],
         IF t = "client" THEN p \in ClientAt ELSE p \in SchedulerAt,
         t = "client" /\ p \in {"sum", "place", "put"} => v.key \in Keys /\ v.block.size \in Sizes
  PROVE  Typed'
<1>1. /\ pc' \in [Threads -> ClientAt \cup SchedulerAt]
      /\ pc'["client"] \in ClientAt /\ pc'["scheduler"] \in SchedulerAt
      BY DEF Typed, Threads
<1>2. local' \in [Threads -> LocalVariables]
      BY DEF Typed
<1>3. Allocating'
  <2>1. CASE t = "client"
        BY <2>1 DEF Allocating, Typed, Threads
  <2>2. CASE t = "scheduler"
        BY <2>2 DEF Allocating, Typed, Threads
  <2> QED BY <2>1, <2>2 DEF Threads
<1> QED BY <1>1, <1>2, <1>3 DEF Typed

LEMMA PopTyped ==
  ASSUME Typed, NEW t \in Threads, NEW k \in Keys, Pop(t, k)
  PROVE  Typed'
<1>1. CASE k \notin Allocated
  <2>1. pc' = [pc EXCEPT ![t] = Freed(t)] /\ local' = [local EXCEPT ![t] = local[t]]
        BY <1>1 DEF Pop, Goto, Typed
  <2>2. PoolTypeOK'
        BY <1>1, SamePoolTyped DEF Pop, Typed
  <2>3. local[t] \in LocalVariables
        BY DEF Typed
  <2> QED BY <2>1, <2>2, <2>3, StepTyped DEF Freed, ClientAt, SchedulerAt, Threads
<1>2. CASE k \in Allocated
  <2> DEFINE v == [local[t] EXCEPT !.key = k, !.block = blocks[k]]
  <2>1. blocks[k] \in [size : Nat, tier : Tiers]
        BY <1>2, Amounts DEF Typed, PoolTypeOK, Tiers
  <2>2. v \in LocalVariables
        BY <2>1 DEF Typed, LocalVariables
  <2>3. pc' = [pc EXCEPT ![t] = "release"] /\ local' = [local EXCEPT ![t] = v]
        BY <1>2 DEF Pop, Goto, Typed
  <2>4. PoolTypeOK'
        BY <1>2 DEF Pop, Without, Typed, PoolTypeOK, Allocated
  <2> HIDE DEF v
  <2> QED BY <2>2, <2>3, <2>4, StepTyped DEF ClientAt, SchedulerAt, Threads
<1> QED BY <1>1, <1>2

LEMMA ReleaseTyped ==
  ASSUME Typed, NEW t \in Threads, Release(t)
  PROVE  Typed'
<1> DEFINE b == local[t].block
           n == Minus(IF b.tier = "ram" THEN ramUsed ELSE ssdUsed, b.size)
           v == [local[t] EXCEPT !.used = n]
<1>1. ramUsed \in Nat /\ ssdUsed \in Nat /\ b.size \in Nat
      BY DEF Typed, PoolTypeOK, LocalVariables
<1>2. n \in Nat
      BY <1>1 DEF Minus
<1> HIDE DEF n
<1>3. v \in LocalVariables
      BY <1>2 DEF Typed, LocalVariables
<1>4. pc' = [pc EXCEPT ![t] = "store"] /\ local' = [local EXCEPT ![t] = v]
      BY DEF Release, Goto, Typed, n
<1>5. PoolTypeOK'
      BY <1>1, SameBlocksTyped DEF Release, Typed, PoolTypeOK
<1> HIDE DEF v
<1> QED BY <1>3, <1>4, <1>5, StepTyped DEF ClientAt, SchedulerAt, Threads

LEMMA StoreCounterTyped ==
  ASSUME Typed, NEW t \in Threads, StoreCounter(t)
  PROVE  Typed'
<1> DEFINE v == [local[t] EXCEPT !.key = "none", !.block = Fresh.block, !.used = 0]
<1>1. v \in LocalVariables
      BY FreshTyped DEF Typed, LocalVariables
<1>2. pc' = [pc EXCEPT ![t] = Freed(t)] /\ local' = [local EXCEPT ![t] = v]
      BY DEF StoreCounter, Goto, Typed
<1>3. local[t].used \in Nat
      BY DEF Typed, LocalVariables
<1>4. PoolTypeOK'
      BY <1>3, SameBlocksTyped DEF StoreCounter, Typed, PoolTypeOK
<1> HIDE DEF v
<1> QED BY <1>1, <1>2, <1>4, StepTyped DEF Freed, ClientAt, SchedulerAt, Threads

\* A thread that leaves its call, or dies, forgets its variables.
LEMMA LeaveTyped ==
  ASSUME Typed, NEW t \in Threads, NEW p, Leave(t, p), PoolTypeOK',
         IF t = "client" THEN p = "idle" ELSE p \in {"sleep", "dead"}
  PROVE  Typed'
BY FreshTyped, StepTyped DEF Leave, Goto, ClientAt, SchedulerAt

\* An iteration begins and ends with typed variables.
LEMMA IterationTyped ==
  ASSUME Typed, NEW t \in Threads
  PROVE  /\ Iterating(t) \in LocalVariables /\ Iterated(t) \in LocalVariables
         /\ Iterated(t).key = local[t].key /\ Iterated(t).block = local[t].block
<1>1. ASSUME NEW n \in 0 .. Cardinality(Keys), NEW r \in LocalVariables,
             NEW v, v = [r EXCEPT !.count = n, !.seen = {}, !.bytes = 0]
      PROVE  v \in LocalVariables
      BY <1>1 DEF LocalVariables
<1>2. /\ local[t] \in LocalVariables
      /\ Cardinality(Allocated) \in 0 .. Cardinality(Keys) /\ 0 \in 0 .. Cardinality(Keys)
      BY CountTyped DEF Typed
<1>3. /\ Iterating(t) = [local[t] EXCEPT !.count = Cardinality(Allocated), !.seen = {}, !.bytes = 0]
      /\ Iterated(t) = [local[t] EXCEPT !.count = 0, !.seen = {}, !.bytes = 0]
      BY DEF Iterating, Iterated
<1>4. Iterating(t) \in LocalVariables
      BY <1>1, <1>2, <1>3, Zenon
<1>5. Iterated(t) \in LocalVariables
      BY <1>1, <1>2, <1>3, Zenon
<1>6. Iterated(t).key = local[t].key /\ Iterated(t).block = local[t].block
      BY <1>2 DEF Iterated, LocalVariables
<1> QED BY <1>4, <1>5, <1>6

LEMMA CallAllocateTyped ==
  ASSUME Typed, NEW k \in Keys, NEW size \in Sizes, CallAllocate(k, size)
  PROVE  Typed'
<1> DEFINE v == [Iterating("client") EXCEPT !.key = k, !.block = [size |-> size, tier |-> "vram"]]
<1>1. "client" \in Threads /\ local["client"] \in LocalVariables
      BY DEF Typed, Threads
<1>2. v \in LocalVariables /\ v.key \in Keys /\ v.block.size \in Sizes
      BY <1>1, Amounts, CountTyped DEF Typed, Iterating, LocalVariables, Tiers
<1>3. pc' = [pc EXCEPT !["client"] = "sum"] /\ local' = [local EXCEPT !["client"] = v]
      BY DEF CallAllocate, Goto
<1>4. PoolTypeOK'
      BY SamePoolTyped DEF CallAllocate, Typed
<1> HIDE DEF v
<1> QED BY <1>1, <1>2, <1>3, <1>4, StepTyped DEF ClientAt

LEMMA SumUsedTyped == ASSUME Typed, SumUsed PROVE Typed'
<1>1. "client" \in Threads /\ local["client"] \in LocalVariables /\ PoolTypeOK'
      BY SamePoolTyped DEF SumUsed, Typed, Threads
<1>2. CASE Resized("client")
      BY <1>1, <1>2, LeaveTyped DEF SumUsed
<1>3. CASE ~Resized("client")
  <2> DEFINE v == [Iterated("client") EXCEPT !.bytes = FreeBytes(blocks)]
  <2>1. FreeBytes(blocks) \in Nat
        BY Amounts, PoolTyped, TierBytesType DEF FreeBytes, Minus, Typed
  <2>2. v \in LocalVariables /\ v.key = local["client"].key /\ v.block = local["client"].block
    <3>1. Iterated("client") \in LocalVariables
          BY <1>1, IterationTyped
    <3>2. v \in LocalVariables /\ v.key = Iterated("client").key
                              /\ v.block = Iterated("client").block
          BY <2>1, <3>1 DEF LocalVariables
    <3> QED BY <1>1, <3>2, IterationTyped
  <2>3. v.key \in Keys /\ v.block.size \in Sizes
        BY <2>2 DEF Typed, Allocating, SumUsed
  <2>4. pc' = [pc EXCEPT !["client"] = "place"] /\ local' = [local EXCEPT !["client"] = v]
        BY <1>3 DEF SumUsed, Goto
  <2> HIDE DEF v
  <2> QED BY <1>1, <2>2, <2>3, <2>4, StepTyped DEF ClientAt
<1> QED BY <1>2, <1>3

LEMMA PlaceTyped == ASSUME Typed, Place PROVE Typed'
<1> DEFINE size == local["client"].block.size
           tier == TierFor(size, local["client"].bytes)
           v == [local["client"] EXCEPT !.block.tier = tier]
<1>1. "client" \in Threads /\ local["client"] \in LocalVariables
      BY DEF Typed, Threads
<1>2. tier \in Tiers /\ local["client"].key \in Keys /\ size \in Sizes /\ size \in Nat
      BY Amounts DEF TierFor, Tiers, Place, Typed, Allocating
<1>3. v \in LocalVariables /\ v.key = local["client"].key /\ v.block.size = size
      BY <1>1, <1>2 DEF LocalVariables
<1>4. pc' = [pc EXCEPT !["client"] = "put"] /\ local' = [local EXCEPT !["client"] = v]
      BY <1>1 DEF Place, Goto, Typed
<1>5. Store(local["client"].key, size, tier) /\ UNCHANGED blocks
      BY DEF Place
<1>6. PoolTypeOK'
  <2> HIDE DEF tier, size
  <2>1. ramUsed \in Nat /\ ssdUsed \in Nat
        BY DEF Typed, PoolTypeOK
  <2>2. ramUsed' \in Nat /\ ssdUsed' \in Nat
        BY <1>2, <1>5, <2>1 DEF Store, RamCharge
  <2>3. ramBlocks' \subseteq Keys /\ spillFiles' \subseteq Keys
        BY <1>2, <1>5 DEF Store, Typed, PoolTypeOK
  <2> QED BY <1>5, <2>2, <2>3, SameBlocksTyped DEF Typed
<1> HIDE DEF v, size
<1> QED BY <1>1, <1>2, <1>3, <1>4, <1>6, StepTyped DEF ClientAt

LEMMA PutBlockTyped == ASSUME Typed, PutBlock PROVE Typed'
<1>1. /\ "client" \in Threads /\ local["client"].block.tier \in Tiers
      /\ local["client"].key \in Keys /\ local["client"].block.size \in Sizes
      BY DEF Typed, Threads, LocalVariables, Allocating, PutBlock
<1>2. PoolTypeOK'
      BY <1>1 DEF PutBlock, Put, Typed, PoolTypeOK, Allocated, Tiers
<1> QED BY <1>1, <1>2, LeaveTyped DEF PutBlock

\* The scheduler's steps between the blocks it frees leave the pool alone.
LEMMA TickTyped ==
  ASSUME Typed,
         \/ Wake \/ Iterate \/ SumAgain \/ CheckPressure \/ ComputeKeep \/ Snapshot
         \/ Pick \/ BeginSum("freed", "recheck") \/ Recheck
  PROVE  Typed'
<1>1. "scheduler" \in Threads /\ mine \in LocalVariables
      BY DEF Typed, Threads, mine
<1>2. PoolTypeOK'
      BY SamePoolTyped DEF Typed, Wake, Iterate, Visit, SumAgain, CheckPressure, ComputeKeep,
                           Snapshot, Pick, BeginSum, Recheck
<1>3. Iterating("scheduler") \in LocalVariables /\ Iterated("scheduler") \in LocalVariables
      BY <1>1, IterationTyped
<1>4. ASSUME NEW p \in SchedulerAt, NEW v \in LocalVariables,
             pc' = [pc EXCEPT !["scheduler"] = p], local' = [local EXCEPT !["scheduler"] = v]
      PROVE  Typed'
      BY <1>1, <1>2, <1>4, StepTyped
<1>5. ASSUME NEW p \in {"sleep", "dead"}, Leave("scheduler", p) PROVE Typed'
      BY <1>1, <1>2, <1>5, LeaveTyped
<1>6. ASSUME NEW from, NEW to \in SchedulerAt, BeginSum(from, to) PROVE Typed'
      BY <1>3, <1>4, <1>6 DEF BeginSum, Goto
<1>7. ASSUME NEW k \in Keys, Visit("scheduler", k) PROVE Typed'
  <2> DEFINE n == mine.bytes + (IF blocks[k].tier = "vram" THEN blocks[k].size ELSE 0)
             v == [mine EXCEPT !.seen = @ \cup {k}, !.bytes = n]
  <2>1. n \in Nat
    <3>1. blocks[k].size \in Nat /\ mine.bytes \in Nat
          BY <1>1, <1>7, Amounts DEF Visit, Typed, PoolTypeOK, LocalVariables
    <3> QED BY <3>1
  <2>2. local' = [local EXCEPT !["scheduler"] = v]
        BY <1>7 DEF Visit, mine, Typed
  <2> HIDE DEF n
  <2>3. v \in LocalVariables
        BY <1>1, <2>1 DEF LocalVariables
  <2>4. pc' = [pc EXCEPT !["scheduler"] = pc["scheduler"]] /\ pc["scheduler"] \in SchedulerAt
        BY <1>7 DEF Visit, Typed
  <2> HIDE DEF v
  <2> QED BY <1>4, <2>2, <2>3, <2>4
<1>8. CASE Iterate
      BY <1>5, <1>7, <1>8 DEF Iterate
<1>9. CASE SumAgain
  <2>1. [Iterating("scheduler") EXCEPT !.bytes = mine.bytes] \in LocalVariables
        BY <1>1, <1>3 DEF LocalVariables
  <2> QED BY <1>4, <1>9, <2>1 DEF SumAgain, Goto, SchedulerAt
<1>10. CASE CheckPressure
       BY <1>3, <1>4, <1>5, <1>10 DEF CheckPressure, Goto, SchedulerAt
<1>11. CASE ComputeKeep
  <2>1. [Iterated("scheduler") EXCEPT !.keep = mine.seen \cap KeepKeys] \in LocalVariables
        BY <1>1, <1>3 DEF LocalVariables
  <2> QED BY <1>4, <1>11, <2>1 DEF ComputeKeep, Goto, SchedulerAt
<1>12. CASE Snapshot
  <2> DEFINE v == [mine EXCEPT !.todo = Allocated \ mine.keep]
  <2>1. v \in LocalVariables
        BY <1>1 DEF LocalVariables, Typed, PoolTypeOK
  <2>2. local' = [local EXCEPT !["scheduler"] = v] /\ pc' = [pc EXCEPT !["scheduler"] = "pick"]
        BY <1>12 DEF Snapshot, Goto, mine
  <2> HIDE DEF v
  <2> QED BY <1>4, <2>1, <2>2 DEF SchedulerAt
<1>13. CASE Pick
  <2>1. ASSUME NEW k \in mine.todo,
               local' = [local EXCEPT !["scheduler"].key = k, !["scheduler"].todo = @ \ {k}],
               pc' = [pc EXCEPT !["scheduler"] = "pop"]
        PROVE  Typed'
    <3> DEFINE v == [mine EXCEPT !.key = k, !.todo = @ \ {k}]
    <3>1. v \in LocalVariables
          BY <1>1, <2>1 DEF LocalVariables
    <3>2. local' = [local EXCEPT !["scheduler"] = v]
          BY <2>1 DEF mine, Typed, Threads
    <3> HIDE DEF v
    <3> QED BY <1>4, <2>1, <3>1, <3>2 DEF SchedulerAt
  <2> QED BY <1>5, <1>13, <2>1 DEF Pick, Goto
<1>14. CASE Recheck
       BY <1>3, <1>4, <1>5, <1>14 DEF Recheck, Goto, SchedulerAt
<1> QED BY <1>6, <1>8, <1>9, <1>10, <1>11, <1>12, <1>13, <1>14 DEF Wake, SchedulerAt

LEMMA TypedInit == Init => Typed
<1> SUFFICES ASSUME Init PROVE Typed
    OBVIOUS
<1>1. PoolTypeOK
      BY PoolInvInit DEF Init, PoolInv
<1> QED BY <1>1, FreshTyped DEF Init, Typed, Threads, ClientAt, SchedulerAt, Allocating

LEMMA TypedStep == Typed /\ [Next]_vars => Typed'
<1> SUFFICES ASSUME Typed, [Next]_vars PROVE Typed'
    OBVIOUS
<1>1. "client" \in Threads /\ "scheduler" \in Threads
      BY DEF Threads
<1>2. ASSUME NEW k \in Keys, CallFree(k) PROVE Typed'
      BY <1>1, <1>2, PopTyped DEF CallFree
<1>3. CASE ClientReturns
      BY <1>1, <1>3, ReleaseTyped, StoreCounterTyped DEF ClientReturns
<1>4. CASE Evict
  <2>1. CASE mine.key \in Keys
        BY <1>1, <1>4, <2>1, PopTyped DEF Evict
  <2>2. CASE mine.key \notin Keys
    <3>1. mine.key \notin Allocated
          BY <2>2 DEF Typed, PoolTypeOK
    <3>2. pc' = [pc EXCEPT !["scheduler"] = "freed"] /\ UNCHANGED <<poolVars, local>>
          BY <1>4, <3>1 DEF Evict, Pop, Goto, Freed
    <3>3. PoolTypeOK' /\ local' = [local EXCEPT !["scheduler"] = mine] /\ mine \in LocalVariables
          BY <1>1, <3>2, SamePoolTyped DEF Typed, mine
    <3> QED BY <1>1, <3>2, <3>3, StepTyped DEF SchedulerAt
  <2> QED BY <2>1, <2>2
<1>5. CASE Release("scheduler") \/ StoreCounter("scheduler")
      BY <1>1, <1>5, ReleaseTyped, StoreCounterTyped
<1>6. CASE UNCHANGED vars
      BY <1>6, SamePoolTyped DEF vars, Typed, Allocating
<1> QED BY <1>2, <1>3, <1>4, <1>5, <1>6, CallAllocateTyped, SumUsedTyped, PlaceTyped,
           PutBlockTyped, TickTyped DEF Next, TickStep

\* Every variable of the pool and of both threads keeps its type at every point
\* where CPython may switch: no counter falls below zero.
THEOREM TwoThreadsTypeCorrect == Spec => []TypeOK
<1>1. Typed => TypeOK
      BY DEF Typed, TypeOK, LocalVariables, ClientAt, SchedulerAt
<1> QED BY <1>1, TypedInit, TypedStep, PTL DEF Spec

-----------------------------------------------------------------------------
(* VRAM.                                                                   *)

\* What the client has counted or chosen still holds when it comes to use it.
Room ==
  /\ VramWithinTotal
  /\ pc["client"] = "place" => local["client"].bytes <= FreeBytes(blocks)
  /\ pc["client"] = "put" /\ local["client"].block.tier = "vram" =>
       local["client"].block.size <= FreeBytes(blocks)

LEMMA FreeingMakesRoom ==
  ASSUME PoolTypeOK, NEW ks \in SUBSET Allocated, blocks' = Without(ks)
  PROVE  /\ FreeBytes(blocks) \in Nat /\ FreeBytes(blocks') \in Nat
         /\ FreeBytes(blocks) <= FreeBytes(blocks')
         /\ VramWithinTotal => VramWithinTotal'
<1> DEFINE freed == TierBytes("vram", [k \in ks |-> blocks[k]])
<1>1. freed \in Nat /\ TierBytes("vram", blocks) = TierBytes("vram", blocks') + freed
      BY FreeTakesOut
<1>2. IsPool(blocks')
      BY PoolTyped DEF IsPool, Without, Allocated
<1>3. TierBytes("vram", blocks') \in Nat
      BY <1>2, TierBytesType
<1> HIDE DEF freed
<1> QED BY <1>1, <1>3, Amounts DEF FreeBytes, Minus, VramWithinTotal

\* A step that leaves the client's call alone and at most frees blocks keeps it.
LEMMA RoomKept ==
  ASSUME Typed, Room, pc'["client"] = pc["client"], local'["client"] = local["client"],
         UNCHANGED blocks \/ \E ks \in SUBSET Allocated : blocks' = Without(ks)
  PROVE  Room'
<1>1. CASE UNCHANGED blocks
      BY <1>1 DEF Room, VramWithinTotal
<1>2. CASE \E ks \in SUBSET Allocated : blocks' = Without(ks)
  <2>1. /\ FreeBytes(blocks) \in Nat /\ FreeBytes(blocks') \in Nat
        /\ FreeBytes(blocks) <= FreeBytes(blocks') /\ VramWithinTotal'
        BY <1>2, FreeingMakesRoom DEF Typed, Room
  <2>2. local["client"].bytes \in Nat /\ local["client"].block.size \in Nat
        BY DEF Typed, LocalVariables, Threads
  <2> QED BY <2>1, <2>2 DEF Room
<1> QED BY <1>1, <1>2

LEMMA RoomOfScheduler == ASSUME Typed, Room, Wake \/ TickStep PROVE Room'
<1>1. UNCHANGED blocks \/ \E ks \in SUBSET Allocated : blocks' = Without(ks)
  <2>1. CASE Evict
        BY <2>1 DEF Evict, Pop, poolVars
  <2> QED BY <2>1 DEF Wake, TickStep, Iterate, Visit, SumAgain, CheckPressure, ComputeKeep,
             Snapshot, Pick, Release, StoreCounter, BeginSum, Recheck, poolVars
<1>2. \/ UNCHANGED pc
      \/ \E p : pc' = [pc EXCEPT !["scheduler"] = p]
      BY DEF Wake, TickStep, Iterate, Visit, SumAgain, CheckPressure, ComputeKeep, Snapshot,
             Pick, Evict, Pop, Release, StoreCounter, BeginSum, Recheck, Goto, Leave
<1>3. local'["client"] = local["client"]
  <2>1. local \in [Threads -> LocalVariables] /\ "client" \in Threads
        BY DEF Typed, Threads
  <2>2. CASE Wake \/ Iterate \/ SumAgain \/ CheckPressure \/ ComputeKeep \/ Snapshot
        BY <2>1, <2>2 DEF Wake, Iterate, Visit, SumAgain, CheckPressure, ComputeKeep, Snapshot,
                          BeginSum, Leave
  <2>3. CASE Pick \/ Evict \/ Release("scheduler") \/ StoreCounter("scheduler")
             \/ BeginSum("freed", "recheck") \/ Recheck
        BY <2>1, <2>3 DEF Pick, Evict, Pop, Release, StoreCounter, BeginSum, Recheck, Leave
  <2> QED BY <2>2, <2>3 DEF TickStep
<1>4. pc'["client"] = pc["client"]
      BY <1>2 DEF Typed, Threads
<1> QED BY <1>1, <1>3, <1>4, RoomKept

LEMMA RoomOfFree ==
  ASSUME Typed, Room, ClientReturns \/ \E k \in Keys : CallFree(k)
  PROVE  Room'
<1>1. pc'["client"] \notin {"place", "put"}
      BY DEF ClientReturns, Release, StoreCounter, CallFree, Pop, Goto, Freed, Typed, Threads
<1>2. UNCHANGED blocks \/ \E ks \in SUBSET Allocated : blocks' = Without(ks)
      BY DEF ClientReturns, Release, StoreCounter, CallFree, Pop, poolVars
<1>3. VramWithinTotal'
      BY <1>2, FreeingMakesRoom DEF Typed, Room, VramWithinTotal
<1> QED BY <1>1, <1>3 DEF Room

LEMMA RoomOfAllocate ==
  ASSUME Typed, Room,
         SumUsed \/ Place \/ \E k \in Keys, size \in Sizes : CallAllocate(k, size)
  PROVE  Room'
<1>0. /\ UNCHANGED blocks
      /\ "client" \in Threads /\ local["client"] \in LocalVariables
      BY DEF SumUsed, Place, CallAllocate, poolVars, Typed, Threads
<1>1. VramWithinTotal'
      BY <1>0 DEF Room, VramWithinTotal
<1>2. CASE \E k \in Keys, size \in Sizes : CallAllocate(k, size)
  <2>1. pc'["client"] = "sum"
        BY <1>2 DEF CallAllocate, Goto, Typed, Threads
  <2> QED BY <1>1, <2>1 DEF Room
<1>3. CASE SumUsed
  <2>1. FreeBytes(blocks) \in Nat
        BY Amounts, PoolTyped, TierBytesType DEF FreeBytes, Minus, Typed
  <2>2. CASE Resized("client")
    <3>1. pc'["client"] = "idle"
          BY <1>3, <2>2 DEF SumUsed, Leave, Goto, Typed, Threads
    <3> QED BY <1>1, <3>1 DEF Room
  <2>3. CASE ~Resized("client")
    <3>1. pc'["client"] = "place"
          BY <1>3, <2>3 DEF SumUsed, Goto, Typed, Threads
    <3>2. local'["client"].bytes = FreeBytes(blocks)
      <4>1. Iterated("client") \in LocalVariables
            BY <1>0, IterationTyped
      <4>2. local'["client"] = [Iterated("client") EXCEPT !.bytes = FreeBytes(blocks)]
            BY <1>0, <1>3, <2>3 DEF SumUsed, Typed
      <4> QED BY <4>1, <4>2 DEF LocalVariables
    <3> QED BY <1>0, <1>1, <2>1, <3>1, <3>2 DEF Room
  <2> QED BY <2>2, <2>3
<1>4. CASE Place
  <2> DEFINE size == local["client"].block.size
             tier == TierFor(size, local["client"].bytes)
  <2>1. pc["client"] = "place" /\ pc'["client"] = "put"
        BY <1>4 DEF Place, Goto, Typed, Threads
  <2>2. local'["client"].block = [local["client"].block EXCEPT !.tier = tier]
        BY <1>0, <1>4 DEF Place, Typed, LocalVariables
  <2>3. local'["client"].block.size = size /\ local'["client"].block.tier = tier
        BY <1>0, <2>2 DEF LocalVariables
  <2>4. tier = "vram" => size <= local["client"].bytes
        BY DEF TierFor
  <2>5. local["client"].bytes <= FreeBytes(blocks)
        BY <2>1 DEF Room
  <2>6. size \in Nat /\ local["client"].bytes \in Nat /\ FreeBytes(blocks) \in Nat
        BY <1>0, Amounts, PoolTyped, TierBytesType DEF FreeBytes, Minus, Typed, LocalVariables
  <2> HIDE DEF tier, size
  <2>7. tier = "vram" => size <= FreeBytes(blocks)
        BY <2>4, <2>5, <2>6
  <2> QED BY <1>0, <1>1, <2>1, <2>3, <2>7 DEF Room
<1> QED BY <1>2, <1>3, <1>4

LEMMA RoomOfPut == ASSUME Typed, Room, PutBlock PROVE Room'
<1> DEFINE k == local["client"].key
           size == local["client"].block.size
           tier == local["client"].block.tier
<1>1. k \in Keys /\ size \in Sizes /\ size \in Nat
      BY Amounts DEF Typed, Allocating, PutBlock
<1>2. Put(k, size, tier)
      BY DEF PutBlock
<1>3. IsPool(blocks')
      BY <1>1, <1>2, PoolTyped DEF Put, IsPool, Typed, Allocated
<1>4. TierBytes("vram", blocks) \in Nat /\ TierBytes("vram", blocks') \in Nat
      BY <1>3, PoolTyped, TierBytesType DEF Typed
<1>5. TierBytes("vram", blocks') <= TierBytes("vram", blocks) + (IF tier = "vram" THEN size ELSE 0)
  <2> HIDE DEF k, size, tier
  <2> QED BY <1>1, <1>2, PutAddsAtMost DEF Typed
<1>6. tier = "vram" => TierBytes("vram", blocks) + size <= TotalBytes
  <2>1. tier = "vram" => size <= FreeBytes(blocks)
        BY DEF Room, PutBlock
  <2> QED BY <1>1, <2>1, Fits DEF Typed
<1>7. pc'["client"] = "idle"
      BY DEF PutBlock, Leave, Goto, Typed, Threads
<1> HIDE DEF size, tier
<1>8. VramWithinTotal'
      BY <1>1, <1>4, <1>5, <1>6, Amounts DEF Room, VramWithinTotal
<1> QED BY <1>7, <1>8 DEF Room

LEMMA RoomInit == Init => Room
<1> SUFFICES ASSUME Init PROVE Room
    OBVIOUS
<1>1. VramWithinTotal
      BY PoolInvInit DEF Init, PoolInv
<1> QED BY <1>1 DEF Init, Room, Threads

LEMMA RoomStep == Typed /\ Room /\ [Next]_vars => Room'
<1> SUFFICES ASSUME Typed, Room, [Next]_vars PROVE Room'
    OBVIOUS
<1>1. CASE UNCHANGED vars
      BY <1>1, RoomKept DEF vars, poolVars
<1> QED BY <1>1, RoomOfScheduler, RoomOfFree, RoomOfAllocate, RoomOfPut DEF Next

\* VRAM is never overfull, wherever the scheduler's evictions fall between the
\* steps of an allocation.
THEOREM VramNeverOverfullUnderPressure == Spec => []VramWithinTotal
<1>1. Room => VramWithinTotal
      BY DEF Room
<1> QED BY <1>1, TypedInit, TypedStep, RoomInit, RoomStep, PTL DEF Spec
=============================================================================
