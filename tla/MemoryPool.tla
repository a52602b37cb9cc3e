----------------------------- MODULE MemoryPool -----------------------------
(***************************************************************************)
(* VRAMMemoryPool (memory/pool.py): blocks of VRAM by key, spilled to RAM  *)
(* and then to files when VRAM is short.  Each operation here is one       *)
(* action, as when one thread alone uses the pool; module VramPressure has *)
(* the scheduler's thread evict while another allocates.                   *)
(*                                                                         *)
(* A block is always in use once allocated.  Sizes are in arbitrary units, *)
(* and a dictionary's order is arbitrary.                                  *)
(***************************************************************************)
EXTENDS Integers, FiniteSets, Functions

CONSTANTS
  Keys,         \* "vector_index", "agent_state_<name>", ...
  KeepKeys,     \* those of agent states and of the LLM's weights
  Sizes,        \* the sizes callers ask for
  TotalBytes,   \* _total_bytes
  RamLimit,     \* ram_spillover_limit_bytes
  FreeTarget,   \* 512 MB in the code: evict_lru stops above it
  SsdBound      \* bound: _ssd_used is not counted further

ASSUME PoolConstants ==
  /\ IsFiniteSet(Keys) /\ KeepKeys \subseteq Keys
  /\ Sizes \subseteq Nat \ {0}
  /\ TotalBytes \in Nat /\ RamLimit \in Nat /\ FreeTarget \in Nat /\ SsdBound \in Nat

VARIABLES
  blocks,       \* _blocks: key -> size and tier of its block
  ramBlocks,    \* keys of _ram_blocks
  ramUsed,      \* _ram_used
  spillFiles,   \* keys whose .spill file was written to the end
  ssdUsed       \* _ssd_used

poolVars == <<blocks, ramBlocks, ramUsed, spillFiles, ssdUsed>>

Allocated == DOMAIN blocks
InTier(tier, bs) == {k \in DOMAIN bs : bs[k].tier = tier}
SizeOf(bs) == [k \in DOMAIN bs |-> bs[k].size]
TierBytes(tier, bs) == SumFunctionOnSet(SizeOf(bs), InTier(tier, bs))
Minus(m, n) == IF m > n THEN m - n ELSE 0

\* free_bytes() when the pool's blocks are bs
FreeBytes(bs) == Minus(TotalBytes, TierBytes("vram", bs))

Without(ks) == [j \in Allocated \ ks |-> blocks[j]]

PoolInit ==
  /\ blocks = [k \in {} |-> {}]
  /\ ramBlocks = {} /\ ramUsed = 0
  /\ spillFiles = {} /\ ssdUsed = 0

\* allocate() returns the block it has when that is large enough.
Suffices(k, size) == k \in Allocated /\ blocks[k].size >= size

\* Mutant: VRAM is taken as long as any is free.
TierForAny(size, free) ==
  IF free > 0 THEN "vram"
  ELSE IF size + ramUsed <= RamLimit THEN "ram" ELSE "ssd"

\* Where a block of this size goes when free bytes of VRAM were counted.
TierFor(size, free) ==
  IF size <= free THEN "vram"
  ELSE IF size + ramUsed <= RamLimit THEN "ram" ELSE "ssd"

\* Mutant: a key that holds RAM already is not charged again.
RamChargeOnce(k, size, tier) == IF tier = "ram" /\ k \notin ramBlocks THEN size ELSE 0

RamCharge(k, size, tier) == IF tier = "ram" THEN size ELSE 0

\* What allocating k in a tier stores outside _blocks.
Store(k, size, tier) ==
  /\ ramBlocks' = ramBlocks \cup {j \in {k} : tier = "ram"}
  /\ ramUsed' = ramUsed + RamCharge(k, size, tier)
  /\ spillFiles' = spillFiles \cup {j \in {k} : tier = "ssd"}
  /\ ssdUsed' = IF tier = "ssd" /\ ssdUsed + size <= SsdBound
                THEN ssdUsed + size ELSE ssdUsed

\* The block put under k; one it replaces is forgotten, not freed.
Put(k, size, tier) ==
  blocks' = [j \in Allocated \cup {k} |->
               IF j = k THEN [size |-> size, tier |-> tier] ELSE blocks[j]]

Allocate(k, size) ==
  /\ ~Suffices(k, size)
  /\ LET tier == TierFor(size, FreeBytes(blocks)) IN
       Store(k, size, tier) /\ Put(k, size, tier)

\* Mutants: a failed spill leaves its block behind, or refunds bytes of RAM that
\* it never took.
SpillFailsRecorded(k, size) ==
  /\ ~Suffices(k, size)
  /\ TierFor(size, FreeBytes(blocks)) = "ssd"
  /\ spillFiles' = spillFiles \ {k}
  /\ Put(k, size, "ssd")
  /\ UNCHANGED <<ramBlocks, ramUsed, ssdUsed>>
SpillFailsRefunded(k, size) ==
  /\ ~Suffices(k, size)
  /\ TierFor(size, FreeBytes(blocks)) = "ssd"
  /\ spillFiles' = spillFiles \ {k}
  /\ ramUsed' = ramUsed - size
  /\ UNCHANGED <<blocks, ramBlocks, ssdUsed>>

\* The file is opened, which empties one that is there, and cannot be written:
\* OSError.  No block is recorded, but one that k has already stays in _blocks.
SpillFails(k, size) ==
  /\ ~Suffices(k, size)
  /\ TierFor(size, FreeBytes(blocks)) = "ssd"
  /\ spillFiles' = spillFiles \ {k}
  /\ UNCHANGED <<blocks, ramBlocks, ramUsed, ssdUsed>>

\* free() of all of ks, one after the other.
FreeAll(ks) ==
  /\ blocks' = Without(ks)
  /\ ramBlocks' = ramBlocks \ (ks \cap InTier("ram", blocks))
  /\ ramUsed' = Minus(ramUsed, TierBytes("ram", [k \in ks |-> blocks[k]]))
  /\ spillFiles' = spillFiles \ (ks \cap InTier("ssd", blocks))
  /\ ssdUsed' = Minus(ssdUsed, TierBytes("ssd", [k \in ks |-> blocks[k]]))

Free(k) == k \in Allocated /\ FreeAll({k})

\* evict_lru(keep): frees keys outside keep until enough VRAM is free, the last
\* one included, or none is left.
EvictLru(keep) ==
  \E gone \in SUBSET (Allocated \ keep) :
    /\ \E last \in gone :
         gone = {last} \/ FreeBytes(Without(gone \ {last})) <= FreeTarget
    /\ gone = Allocated \ keep \/ FreeBytes(Without(gone)) > FreeTarget
    /\ FreeAll(gone)

\* shutdown()
PoolShutdown == FreeAll(Allocated)

\* Every use of the pool by owners of the keys ks, by the scheduler, and by a
\* fabric that shuts down.
PoolUse(ks) ==
  \/ \E k \in ks, size \in Sizes : Allocate(k, size)
  \/ \E k \in ks, size \in Sizes : SpillFails(k, size)
  \/ \E k \in ks : Free(k)
  \/ EvictLru(KeepKeys)
  \/ PoolShutdown

PoolNext == PoolUse(Keys)

PoolSpec == PoolInit /\ [][PoolNext]_poolVars

-----------------------------------------------------------------------------
PoolTypeOK ==
  /\ Allocated \subseteq Keys
  /\ blocks \in [Allocated -> [size : Sizes, tier : {"vram", "ram", "ssd"}]]
  /\ ramBlocks \subseteq Keys /\ spillFiles \subseteq Keys
  /\ ramUsed \in Nat /\ ssdUsed \in Nat

\* The blocks the pool says are in VRAM fit in it, whatever was reallocated
\* under the same key, spilled, freed and evicted before.
VramWithinTotal == TierBytes("vram", blocks) <= TotalBytes

\* The RAM counter may leak upwards, when a block is replaced, but it never
\* falls behind the RAM really held, so the RAM limit is never passed.
RamAccounted ==
  /\ TierBytes("ram", blocks) <= ramUsed
  /\ ramUsed <= RamLimit

\* The spilled blocks that do not have their data, in RAM or in a file.
Unbacked == (InTier("ram", blocks) \ ramBlocks) \cup (InTier("ssd", blocks) \ spillFiles)

\* No operation puts a block without its data, or takes the data of a block it
\* leaves.  The one exception is a spill that fails: it destroys the file of a
\* smaller block of its key, and of no other, and changes no block or counter.
SpilledDataKept ==
  [][\A k \in Unbacked' :
       /\ k \in Allocated /\ blocks'[k] = blocks[k]
       /\ \/ k \in Unbacked
          \/ /\ blocks[k].tier = "ssd" /\ Unbacked' \subseteq Unbacked \cup {k}
             /\ UNCHANGED <<blocks, ramBlocks, ramUsed, ssdUsed>>]_poolVars
=============================================================================
