-------------------------- MODULE MemoryPoolProofs --------------------------
(***************************************************************************)
(* What the pool counts, for any keys, sizes and limits, when one thread   *)
(* uses it: VRAM is never overfull, the RAM counter never falls behind the *)
(* RAM that is held, and a spilled block keeps its data.                   *)
(***************************************************************************)
EXTENDS MemoryPool, SumTheorems

-----------------------------------------------------------------------------
(* How much a tier holds.                                                  *)

LEMMA Amounts ==
  /\ IsFiniteSet(Keys) /\ \A size \in Sizes : size \in Nat /\ size > 0
  /\ TotalBytes \in Nat /\ RamLimit \in Nat /\ SsdBound \in Nat
BY PoolConstants

\* The blocks of any dictionary of the pool's kind, in whichever tier.
IsPool(bs) ==
  /\ DOMAIN bs \subseteq Keys
  /\ \A k \in DOMAIN bs : bs[k].size \in Sizes

LEMMA TierSummable ==
  ASSUME NEW bs, IsPool(bs), NEW tier
  PROVE  /\ IsFiniteSet(InTier(tier, bs))
         /\ \A k \in InTier(tier, bs) : SizeOf(bs)[k] \in Nat
<1>1. InTier(tier, bs) \in SUBSET Keys
      BY DEF InTier, IsPool
<1>2. IsFiniteSet(InTier(tier, bs))
      BY <1>1, Amounts, FS_Subset
<1> QED BY <1>2, Amounts DEF InTier, IsPool, SizeOf

LEMMA TierBytesType ==
  ASSUME NEW bs, IsPool(bs), NEW tier
  PROVE  TierBytes(tier, bs) \in Nat
BY TierSummable, SumType DEF TierBytes

LEMMA PoolTyped == ASSUME PoolTypeOK PROVE IsPool(blocks)
BY DEF PoolTypeOK, IsPool, Allocated

\* A block put under a key adds at most its size to its own tier, and nothing to
\* the others, whatever block it replaces.
LEMMA PutAddsAtMost ==
  ASSUME PoolTypeOK, NEW k \in Keys, NEW size \in Sizes, NEW into, Put(k, size, into),
         NEW tier
  PROVE  TierBytes(tier, blocks') <= TierBytes(tier, blocks) + (IF into = tier THEN size ELSE 0)
<1> DEFINE now == InTier(tier, blocks')
           old == now \ {k}
<1>1. /\ DOMAIN blocks' = DOMAIN blocks \cup {k}
      /\ blocks'[k].size = size /\ blocks'[k].tier = into
      /\ \A j \in DOMAIN blocks \ {k} : blocks'[j] = blocks[j]
      BY DEF Put, Allocated
<1>2. IsPool(blocks) /\ IsPool(blocks')
      BY <1>1, PoolTyped DEF IsPool
<1>3. /\ IsFiniteSet(now) /\ \A j \in now : SizeOf(blocks')[j] \in Nat
      /\ IsFiniteSet(InTier(tier, blocks))
      /\ \A j \in InTier(tier, blocks) : SizeOf(blocks)[j] \in Nat
      BY <1>2, TierSummable
<1>4. old \in SUBSET InTier(tier, blocks)
      BY <1>1 DEF InTier
<1>5. \A j \in old : SizeOf(blocks')[j] = SizeOf(blocks)[j]
      BY <1>1, <1>4 DEF InTier, SizeOf
<1>6. SumFunctionOnSet(SizeOf(blocks'), old) = SumFunctionOnSet(SizeOf(blocks), old)
  <2> HIDE DEF old
  <2> QED BY <1>3, <1>4, <1>5, FS_Subset, SumSame
<1>7. SumFunctionOnSet(SizeOf(blocks), old) <= TierBytes(tier, blocks)
  <2> HIDE DEF old
  <2> QED BY <1>3, <1>4, SumMonotone DEF TierBytes
<1>8. TierBytes(tier, blocks) \in Nat /\ SumFunctionOnSet(SizeOf(blocks), old) \in Nat
  <2>1. IsFiniteSet(old) /\ \A j \in old : SizeOf(blocks)[j] \in Nat
        BY <1>3, <1>4, FS_Subset
  <2> HIDE DEF old
  <2> QED BY <1>2, <2>1, TierBytesType, SumType
<1>9. CASE into = tier
  <2>1. k \in now /\ SizeOf(blocks')[k] = size
        BY <1>1, <1>9 DEF InTier, SizeOf
  <2>2. TierBytes(tier, blocks') = size + SumFunctionOnSet(SizeOf(blocks'), old)
    <3> HIDE DEF now
    <3> QED BY <1>3, <2>1, SumRemove DEF TierBytes, now
  <2> QED BY <1>6, <1>7, <1>8, <1>9, <2>2, Amounts
<1>10. CASE into # tier
  <2>1. old = now
        BY <1>1, <1>10 DEF InTier
  <2>2. TierBytes(tier, blocks') = SumFunctionOnSet(SizeOf(blocks'), old)
        BY <2>1 DEF TierBytes
  <2> QED BY <1>6, <1>7, <1>8, <1>10, <2>2
<1> QED BY <1>9, <1>10

\* Freeing blocks takes their sizes out of their tiers.
LEMMA FreeTakesOut ==
  ASSUME PoolTypeOK, NEW ks \in SUBSET Allocated, blocks' = Without(ks), NEW tier
  PROVE  LET freed == TierBytes(tier, [k \in ks |-> blocks[k]])
         IN freed \in Nat /\ TierBytes(tier, blocks) = TierBytes(tier, blocks') + freed
<1> DEFINE all   == InTier(tier, blocks)
           gone  == [k \in ks |-> blocks[k]]
           taken == InTier(tier, gone)
<1>1. IsPool(blocks) /\ IsPool(blocks') /\ IsPool(gone)
      BY PoolTyped DEF IsPool, Without, Allocated
<1>2. taken \in SUBSET all /\ InTier(tier, blocks') = all \ taken
      BY DEF InTier, Without, Allocated
<1>3. /\ IsFiniteSet(all) /\ \A k \in all : SizeOf(blocks)[k] \in Nat
      /\ IsFiniteSet(taken) /\ IsFiniteSet(all \ taken)
      BY <1>1, <1>2, TierSummable, FS_Subset
<1>4. /\ \A k \in taken : SizeOf(gone)[k] = SizeOf(blocks)[k]
      /\ \A k \in all \ taken : SizeOf(blocks')[k] = SizeOf(blocks)[k]
      BY DEF InTier, SizeOf, Without, Allocated
<1>5. TierBytes(tier, gone) = SumFunctionOnSet(SizeOf(blocks), taken)
  <2> HIDE DEF gone
  <2> QED BY <1>3, <1>4, SumSame DEF TierBytes
<1>6. TierBytes(tier, blocks') = SumFunctionOnSet(SizeOf(blocks), all \ taken)
  <2> HIDE DEF all, taken
  <2> QED BY <1>2, <1>3, <1>4, SumSame DEF TierBytes
<1>7. TierBytes(tier, blocks) = SumFunctionOnSet(SizeOf(blocks), taken)
                              + SumFunctionOnSet(SizeOf(blocks), all \ taken)
  <2> HIDE DEF taken, all
  <2> QED BY <1>2, <1>3, SumSplit DEF TierBytes, all
<1>8. TierBytes(tier, gone) \in Nat /\ TierBytes(tier, blocks') \in Nat
      BY <1>1, TierBytesType
<1> HIDE DEF gone
<1> QED BY <1>5, <1>6, <1>7, <1>8 DEF gone

\* What FreeBytes() leaves room for fits.
LEMMA Fits ==
  ASSUME PoolTypeOK, NEW size \in Sizes, size <= FreeBytes(blocks)
  PROVE  TierBytes("vram", blocks) + size <= TotalBytes
BY PoolTyped, TierBytesType, Amounts DEF FreeBytes, Minus

-----------------------------------------------------------------------------
(* The counters and the limits.                                            *)

PoolInv == PoolTypeOK /\ VramWithinTotal /\ RamAccounted

LEMMA PoolInvInit == PoolInit => PoolInv
<1> SUFFICES ASSUME PoolInit PROVE PoolInv
    OBVIOUS
<1>1. PoolTypeOK
      BY DEF PoolInit, PoolTypeOK, Allocated
<1>2. \A tier : TierBytes(tier, blocks) = 0
  <2> TAKE tier
  <2>1. InTier(tier, blocks) = {}
        BY DEF PoolInit, InTier
  <2> QED BY <2>1, SumEmpty DEF TierBytes
<1> QED BY <1>1, <1>2, Amounts DEF PoolInit, PoolInv, VramWithinTotal, RamAccounted

LEMMA AllocateKeepsPool ==
  ASSUME PoolInv, NEW k \in Keys, NEW size \in Sizes, Allocate(k, size)
  PROVE  PoolInv'
<1> DEFINE tier == TierFor(size, FreeBytes(blocks))
<1>0. /\ PoolTypeOK /\ tier \in {"vram", "ram", "ssd"}
      /\ size \in Nat /\ ramUsed \in Nat /\ ssdUsed \in Nat
      /\ \A t : TierBytes(t, blocks) \in Nat
      BY Amounts, PoolTyped, TierBytesType DEF PoolInv, PoolTypeOK, TierFor
<1>1. Put(k, size, tier) /\ Store(k, size, tier)
      BY DEF Allocate
<1>2. PoolTypeOK'
  <2>1. ramBlocks' \subseteq Keys /\ spillFiles' \subseteq Keys
        BY <1>0, <1>1 DEF Store, PoolTypeOK
  <2>2. ramUsed' \in Nat /\ ssdUsed' \in Nat
        BY <1>0, <1>1 DEF Store, RamCharge
  <2>3. /\ Allocated' \subseteq Keys
        /\ blocks' \in [Allocated' -> [size : Sizes, tier : {"vram", "ram", "ssd"}]]
    <3> HIDE DEF tier
    <3> QED BY <1>0, <1>1 DEF Put, PoolTypeOK, Allocated
  <2> QED BY <2>1, <2>2, <2>3 DEF PoolTypeOK
<1>3. \A t : /\ TierBytes(t, blocks') \in Nat
             /\ TierBytes(t, blocks') <= TierBytes(t, blocks) + (IF tier = t THEN size ELSE 0)
  <2> HIDE DEF tier
  <2>1. IsPool(blocks')
        BY <1>2 DEF PoolTypeOK, IsPool, Allocated
  <2> QED BY <1>0, <1>1, <2>1, PutAddsAtMost, TierBytesType
<1>4. tier = "vram" => TierBytes("vram", blocks) + size <= TotalBytes
  <2>1. tier = "vram" => size <= FreeBytes(blocks)
        BY DEF TierFor
  <2> QED BY <1>0, <2>1, Fits
<1>5. tier = "ram" => size + ramUsed <= RamLimit
      BY DEF TierFor
<1>6. ramUsed' = ramUsed + (IF tier = "ram" THEN size ELSE 0)
      BY <1>1 DEF Store, RamCharge
<1> HIDE DEF tier
<1>7. VramWithinTotal'
      BY <1>0, <1>3, <1>4, Amounts DEF PoolInv, VramWithinTotal
<1>8. RamAccounted'
      BY <1>0, <1>3, <1>5, <1>6, Amounts DEF PoolInv, RamAccounted
<1> QED BY <1>2, <1>7, <1>8 DEF PoolInv

LEMMA FreeKeepsPool ==
  ASSUME PoolInv, NEW ks \in SUBSET Allocated, FreeAll(ks)
  PROVE  PoolInv'
<1> DEFINE freed(t) == TierBytes(t, [k \in ks |-> blocks[k]])
<1>1. PoolTypeOK /\ blocks' = Without(ks)
      BY DEF PoolInv, FreeAll
<1>2. \A t : freed(t) \in Nat /\ TierBytes(t, blocks) = TierBytes(t, blocks') + freed(t)
      BY <1>1, FreeTakesOut
<1>3. ramUsed' = Minus(ramUsed, freed("ram")) /\ ssdUsed' = Minus(ssdUsed, freed("ssd"))
      BY DEF FreeAll
<1>4. ramUsed \in Nat /\ ssdUsed \in Nat
      BY <1>1 DEF PoolTypeOK
<1>5. IsPool(blocks') /\ \A t : TierBytes(t, blocks') \in Nat
  <2>1. IsPool(blocks')
        BY <1>1, PoolTyped DEF IsPool, Without, Allocated
  <2> QED BY <2>1, TierBytesType
<1>6. PoolTypeOK'
  <2>1. ramUsed' \in Nat /\ ssdUsed' \in Nat
    <3> HIDE DEF freed
    <3> QED BY <1>2, <1>3, <1>4 DEF Minus
  <2>2. ramBlocks' \subseteq Keys /\ spillFiles' \subseteq Keys
        BY <1>1 DEF FreeAll, PoolTypeOK
  <2>3. /\ Allocated' \subseteq Keys
        /\ blocks' \in [Allocated' -> [size : Sizes, tier : {"vram", "ram", "ssd"}]]
        BY <1>1 DEF Without, PoolTypeOK, Allocated
  <2> QED BY <2>1, <2>2, <2>3 DEF PoolTypeOK
<1> HIDE DEF freed
<1>7. VramWithinTotal'
      BY <1>2, <1>5, Amounts DEF PoolInv, VramWithinTotal
<1>8. RamAccounted'
      BY <1>2, <1>3, <1>4, <1>5, Amounts DEF PoolInv, RamAccounted, Minus
<1> QED BY <1>6, <1>7, <1>8 DEF PoolInv

LEMMA PoolInvStep == PoolInv /\ [PoolNext]_poolVars => PoolInv'
<1> SUFFICES ASSUME PoolInv, [PoolNext]_poolVars PROVE PoolInv'
    OBVIOUS
<1>1. ASSUME NEW k \in Keys, NEW size \in Sizes, Allocate(k, size) PROVE PoolInv'
      BY <1>1, AllocateKeepsPool
<1>2. ASSUME NEW k \in Keys, NEW size \in Sizes, SpillFails(k, size) PROVE PoolInv'
      BY <1>2 DEF SpillFails, PoolInv, PoolTypeOK, Allocated, VramWithinTotal, RamAccounted
<1>3. ASSUME NEW k \in Keys, Free(k) PROVE PoolInv'
      BY <1>3, FreeKeepsPool DEF Free
<1>4. CASE EvictLru(KeepKeys)
      BY <1>4, FreeKeepsPool DEF EvictLru
<1>5. CASE PoolShutdown
      BY <1>5, FreeKeepsPool DEF PoolShutdown
<1>6. CASE UNCHANGED poolVars
      BY <1>6 DEF poolVars, PoolInv, PoolTypeOK, Allocated, VramWithinTotal, RamAccounted
<1> QED BY <1>1, <1>2, <1>3, <1>4, <1>5, <1>6 DEF PoolNext, PoolUse

LEMMA PoolInvariant == PoolSpec => []PoolInv
BY PoolInvInit, PoolInvStep, PTL DEF PoolSpec

\* The pool's state keeps its types.
THEOREM PoolTypeCorrect == PoolSpec => []PoolTypeOK
<1>1. PoolInv => PoolTypeOK
      BY DEF PoolInv
<1> QED BY <1>1, PoolInvariant, PTL

\* The blocks in VRAM fit in it, for any sizes and whatever is reallocated,
\* spilled, freed and evicted.
THEOREM VramNeverOverfull == PoolSpec => []VramWithinTotal
<1>1. PoolInv => VramWithinTotal
      BY DEF PoolInv
<1> QED BY <1>1, PoolInvariant, PTL

\* The RAM counter is never behind the RAM that blocks hold, and never above
\* the limit.
THEOREM RamStaysAccounted == PoolSpec => []RamAccounted
<1>1. PoolInv => RamAccounted
      BY DEF PoolInv
<1> QED BY <1>1, PoolInvariant, PTL

-----------------------------------------------------------------------------
(* The data of spilled blocks.                                             *)

\* What SpilledDataKept says of one step.
DataKept ==
  \A k \in Unbacked' :
    /\ k \in Allocated /\ blocks'[k] = blocks[k]
    /\ \/ k \in Unbacked
       \/ /\ blocks[k].tier = "ssd" /\ Unbacked' \subseteq Unbacked \cup {k}
          /\ UNCHANGED <<blocks, ramBlocks, ramUsed, ssdUsed>>

\* Allocating a block stores the data its tier needs and removes no other's.
LEMMA PutKeepsData ==
  ASSUME NEW k, NEW size, NEW tier, Store(k, size, tier), Put(k, size, tier)
  PROVE  DataKept
<1>1. /\ Allocated' = Allocated \cup {k}
      /\ blocks'[k].tier = tier
      /\ \A j \in Allocated \ {k} : blocks'[j] = blocks[j]
      BY DEF Put, Allocated
<1>2. k \notin Unbacked'
      BY <1>1 DEF Unbacked, InTier, Store
<1>3. ASSUME NEW j \in Unbacked' PROVE j \in Unbacked /\ j \in Allocated /\ blocks'[j] = blocks[j]
  <2>1. j \in Allocated /\ blocks'[j] = blocks[j]
        BY <1>1, <1>2, <1>3 DEF Unbacked, InTier, Allocated
  <2>2. ramBlocks \subseteq ramBlocks' /\ spillFiles \subseteq spillFiles'
        BY DEF Store
  <2> QED BY <1>3, <2>1, <2>2 DEF Unbacked, InTier, Allocated
<1> QED BY <1>3 DEF DataKept

\* Freeing blocks removes the data of none that stays.
LEMMA FreeKeepsData ==
  ASSUME NEW ks, FreeAll(ks)
  PROVE  DataKept
<1>1. \A j \in DOMAIN blocks' : j \in DOMAIN blocks \ ks /\ blocks'[j] = blocks[j]
      BY DEF FreeAll, Without, Allocated
<1>2. ASSUME NEW j \in Unbacked' PROVE j \in Unbacked /\ j \in Allocated /\ blocks'[j] = blocks[j]
  <2>1. j \in Allocated \ ks /\ blocks'[j] = blocks[j]
        BY <1>1, <1>2 DEF Unbacked, InTier, Allocated
  <2>2. ramBlocks \ ks \subseteq ramBlocks' /\ spillFiles \ ks \subseteq spillFiles'
        BY DEF FreeAll
  <2> QED BY <1>2, <2>1, <2>2 DEF Unbacked, InTier, Allocated
<1> QED BY <1>2 DEF DataKept

\* A failed spill costs the data of a block on disk under its key, no other's.
LEMMA FailedSpillKeepsData ==
  ASSUME NEW k, NEW size, SpillFails(k, size)
  PROVE  DataKept
<1>1. UNCHANGED <<blocks, ramBlocks, ramUsed, ssdUsed>>
      BY DEF SpillFails
<1>2. ASSUME NEW j \in Unbacked' \ Unbacked PROVE j = k /\ blocks[j].tier = "ssd"
      BY <1>1, <1>2 DEF SpillFails, Unbacked, InTier
<1>3. Unbacked' \subseteq Allocated
      BY <1>1 DEF Unbacked, InTier, Allocated
<1> QED BY <1>1, <1>2, <1>3 DEF DataKept

\* Whatever is allocated again, freed or evicted, a block loses its data only
\* to a spill that fails to put a larger one in its file.
THEOREM DataLostOnlyByFailedSpill == PoolSpec => SpilledDataKept
<1>1. ASSUME PoolNext PROVE DataKept
  <2>1. ASSUME NEW k \in Keys, NEW size \in Sizes, Allocate(k, size) PROVE DataKept
        BY <2>1, PutKeepsData DEF Allocate
  <2>2. ASSUME NEW k \in Keys, NEW size \in Sizes, SpillFails(k, size) PROVE DataKept
        BY <2>2, FailedSpillKeepsData
  <2>3. ASSUME NEW k \in Keys, Free(k) PROVE DataKept
        BY <2>3, FreeKeepsData DEF Free
  <2>4. CASE EvictLru(KeepKeys)
        BY <2>4, FreeKeepsData DEF EvictLru
  <2>5. CASE PoolShutdown
        BY <2>5, FreeKeepsData DEF PoolShutdown
  <2> QED BY <1>1, <2>1, <2>2, <2>3, <2>4, <2>5 DEF PoolNext, PoolUse
<1>2. [PoolNext]_poolVars => [DataKept]_poolVars
      BY <1>1
<1> QED BY <1>2, PTL DEF PoolSpec, SpilledDataKept, DataKept
=============================================================================
