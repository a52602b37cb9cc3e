----------------------------- MODULE Scheduler -----------------------------
(***************************************************************************)
(* DynamicScheduler (scheduler/dynamic.py): start() and stop(), called by  *)
(* one thread, the feedback loops they start and end, and the PI           *)
(* controller of the engines' shares that a tick runs under a lock.        *)
(*                                                                         *)
(* A share is counted in 1/10000 and rounded down, an occupancy in percent *)
(* and an integral in the sum of such errors, so _Kp = 0.05 and _Ki = 0.01 *)
(* are the factors 5 and 1.  What the VRAM check of a tick does is in      *)
(* module VramPressure; here it succeeds or raises.                        *)
(***************************************************************************)
EXTENDS Integers, FiniteSets, FiniteSetsExt, Functions

CONSTANTS
  Engines,      \* names of engines
  Policies,     \* what __init__() and set_policy() get: engine -> share
  Targets,      \* values of target_occupancy
  Occupancies,  \* what a callback answers; 0 if there is none or it fails
  MaxLoops,     \* bound: calls of start() that start a loop
  MaxTimeouts,  \* bound: calls of stop() that give up after five seconds
  TickBound     \* bound: later ticks leave the shares as they are

One == 10000
MinShare == 200
MaxShare == 8000
Loops == 1 .. MaxLoops

ASSUME SchedulerConstants ==
  /\ IsFiniteSet(Engines)
  /\ \A p \in Policies : DOMAIN p \subseteq Engines /\ p \in [DOMAIN p -> 0 .. One]
  /\ Targets \subseteq 0 .. 100 /\ Occupancies \subseteq 0 .. 100
  /\ MaxLoops \in Nat /\ MaxTimeouts \in Nat /\ TickBound \in Nat

VARIABLES
  running,     \* _running
  pc,          \* loop -> where its thread is
  latest,      \* the loop of _thread, 0 before the first
  stopping,    \* the caller waits in stop()
  timeouts,    \* history: how often stop() gave up
  lock,        \* the loop that holds _lock, or 0
  shares,      \* _shares
  integral,    \* _integral
  occupancy,   \* _occupancy
  target,      \* _policy.target_occupancy
  adjustments  \* _adjustments, up to TickBound

threadVars == <<running, pc, latest, stopping, timeouts, lock>>
shareVars == <<shares, integral, occupancy, target, adjustments>>
vars == <<threadVars, shareVars>>

Active == {l \in Loops : pc[l] \in {"check", "sleep", "tick"}}
Died == {l \in Loops : pc[l] = "died"}

Total(s) == SumFunctionOnSet(s, DOMAIN s)

\* _normalize_shares()
Normalized(s) ==
  IF Total(s) > 0 THEN [e \in DOMAIN s |-> (s[e] * One) \div Total(s)] ELSE s

Init ==
  /\ running = FALSE /\ pc = [l \in Loops |-> "none"] /\ latest = 0
  /\ stopping = FALSE /\ timeouts = 0 /\ lock = 0
  /\ shares \in Policies /\ integral = [e \in DOMAIN shares |-> 0]
  /\ occupancy = [e \in Engines |-> 0]
  /\ target \in Targets /\ adjustments = 0

-----------------------------------------------------------------------------
(* The caller.                                                             *)

\* Mutant: a loop that was stopped is taken to go on.
StartOnce ==
  /\ ~stopping /\ ~running
  /\ running' = TRUE
  /\ latest' = 1
  /\ pc' = [pc EXCEPT ![1] = IF latest = 0 THEN "check" ELSE @]
  /\ UNCHANGED <<stopping, timeouts, lock, shareVars>>

\* start(), when it starts a loop
Start ==
  /\ ~stopping /\ ~running /\ latest < MaxLoops
  /\ running' = TRUE
  /\ latest' = latest + 1
  /\ pc' = [pc EXCEPT ![latest + 1] = "check"]
  /\ UNCHANGED <<stopping, timeouts, lock, shareVars>>

\* Mutant: stop() does not wait.
StopAtOnce ==
  /\ ~stopping
  /\ running' = FALSE
  /\ UNCHANGED <<pc, latest, stopping, timeouts, lock, shareVars>>

\* stop() and shutdown() up to the call of join().
Stop ==
  /\ ~stopping
  /\ running' = FALSE
  /\ stopping' = (latest > 0)
  /\ UNCHANGED <<pc, latest, timeouts, lock, shareVars>>

\* join() returns: the latest loop has ended, or five seconds have passed.
Joined ==
  /\ stopping
  /\ IF latest \in Active
       THEN timeouts < MaxTimeouts /\ timeouts' = timeouts + 1
       ELSE UNCHANGED timeouts
  /\ stopping' = FALSE
  /\ UNCHANGED <<running, pc, latest, lock, shareVars>>

\* set_policy(), of shares or of the target
SetPolicy ==
  /\ ~stopping /\ lock = 0
  /\ \/ \E p \in Policies :
          shares' = Normalized(p) /\ integral' = [e \in DOMAIN p |-> 0] /\ UNCHANGED target
     \/ target' \in Targets /\ UNCHANGED <<shares, integral>>
  /\ UNCHANGED <<threadVars, occupancy, adjustments>>

-----------------------------------------------------------------------------
(* A loop.                                                                 *)

\* The condition of _loop()'s while, and the sleep.
Check(l) ==
  /\ pc[l] = "check"
  /\ pc' = [pc EXCEPT ![l] = IF running THEN "sleep" ELSE "ended"]
  /\ UNCHANGED <<running, latest, stopping, timeouts, lock, shareVars>>

Error(e, occ) == target - occ[e]

\* Mutants: the error with the wrong sign, a share below the minimum or above
\* the maximum.
AdjustedAgainst(e, occ) ==
  Max({MinShare, Min({MaxShare, shares[e] - 5 * Error(e, occ) - integral[e]})})
AdjustedFreely(e, occ) ==
  Min({MaxShare, shares[e] + 5 * Error(e, occ) + integral[e] + Error(e, occ)})
AdjustedUncapped(e, occ) ==
  Max({MinShare, shares[e] + 5 * Error(e, occ) + integral[e] + Error(e, occ)})

\* The PI controller's new share of e, before all are normalized.
Adjusted(e, occ) ==
  Max({MinShare, Min({MaxShare, shares[e] + 5 * Error(e, occ) + integral[e] + Error(e, occ)})})

\* What _sample_occupancy() may answer for the engines of the shares.
Sampled == [DOMAIN shares -> Occupancies]

\* _tick() takes the lock, samples and adjusts.
BeginTick(l) ==
  /\ pc[l] = "sleep" /\ lock = 0
  /\ lock' = l
  /\ pc' = [pc EXCEPT ![l] = "tick"]
  /\ IF adjustments = TickBound THEN UNCHANGED <<shares, integral, occupancy>>
     ELSE \E sampled \in Sampled :
            /\ occupancy' = [e \in Engines |->
                 IF e \in DOMAIN shares THEN sampled[e] ELSE occupancy[e]]
            /\ integral' = [e \in DOMAIN shares |-> integral[e] + Error(e, sampled)]
            /\ shares' = [e \in DOMAIN shares |-> Adjusted(e, sampled)]
  /\ UNCHANGED <<running, latest, stopping, timeouts, target, adjustments>>

\* Mutants: the pressure is checked before the shares are normalized, or a
\* tick that raised is made again at once.
EndTickCheckFirst(l) ==
  /\ lock = l
  /\ lock' = 0
  /\ \/ pc' = [pc EXCEPT ![l] = "check"] /\ shares' = Normalized(shares)
     \/ pc' = [pc EXCEPT ![l] = "died"] /\ UNCHANGED shares
  /\ adjustments' = Min({adjustments + 1, TickBound})
  /\ UNCHANGED <<running, latest, stopping, timeouts, integral, occupancy, target>>
EndTickRetried(l) ==
  /\ lock = l
  /\ shares' = Normalized(shares)
  /\ adjustments' = Min({adjustments + 1, TickBound})
  /\ lock' = 0
  /\ pc' \in {[pc EXCEPT ![l] = next] : next \in {"check", "sleep"}}
  /\ UNCHANGED <<running, latest, stopping, timeouts, integral, occupancy, target>>

\* The rest of _tick(): the shares are normalized, then _check_vram_pressure()
\* may raise, which releases the lock and ends the thread.
EndTick(l) ==
  /\ lock = l
  /\ shares' = Normalized(shares)
  /\ adjustments' = Min({adjustments + 1, TickBound})
  /\ lock' = 0
  /\ pc' \in {[pc EXCEPT ![l] = next] : next \in {"check", "died"}}
  /\ UNCHANGED <<running, latest, stopping, timeouts, integral, occupancy, target>>

LoopStep(l) == Check(l) \/ BeginTick(l) \/ EndTick(l)

Next ==
  \/ Start
  \/ Stop
  \/ Joined
  \/ SetPolicy
  \/ \E l \in Loops : LoopStep(l)

\* The operating system schedules every thread, and no tick lasts for ever.
Spec == Init /\ [][Next]_vars /\ \A l \in Loops : WF_vars(LoopStep(l))

-----------------------------------------------------------------------------
(* Properties.                                                             *)

ThreadsTypeOK ==
  /\ running \in BOOLEAN /\ stopping \in BOOLEAN
  /\ pc \in [Loops -> {"none", "check", "sleep", "tick", "ended", "died"}]
  /\ latest \in 0 .. MaxLoops /\ \A l \in Loops : l > latest <=> pc[l] = "none"
  /\ timeouts \in 0 .. MaxTimeouts
  /\ lock \in Loops \cup {0} /\ \A l \in Loops : lock = l <=> pc[l] = "tick"

TypeOK ==
  /\ ThreadsTypeOK
  /\ shares \in [DOMAIN shares -> 0 .. One] /\ DOMAIN shares \subseteq Engines
  /\ integral \in [DOMAIN shares -> Int]
  /\ occupancy \in [Engines -> 0 .. 100] /\ target \in 0 .. 100
  /\ adjustments \in 0 .. TickBound

\* Two loops run side by side only after a stop() that gave up: there is never
\* more than one loop beside those such calls left behind.
LoopsBounded == Cardinality(Active) <= 1 + timeouts

\* Once the scheduler is stopped for good every loop ends, those included that
\* stop() did not wait for, and whatever a tick of another loop raised.
LoopsEnd == <>[]~running => <>[](Active = {})

\* A scheduler that stays on goes on ticking, unless a tick raised in its loop.
TicksGoOn == <>[]running => \/ []<>(lock # 0)
                            \/ <>[](latest \in Died)

\* Whoever takes the lock finds shares that add up to one, up to rounding, also
\* after a tick that raised.  Before the first tick they are what __init__() got.
SharesNormalized ==
  lock = 0 /\ (adjustments > 0) /\ Total(shares) > 0 =>
    Total(shares) \in One - Cardinality(DOMAIN shares) .. One

\* The controller gives to the engine that is less busy, as dynamic.py:80 and
\* PRD.md:420 have it, while PRD.md:216 raises the share of one that is busy:
\* a tick never lets an engine overtake another one that had no smaller share,
\* is no busier and was no busier over time.
OrderKept ==
  [][lock' # lock =>
       \A e, f \in DOMAIN shares :
         /\ shares[e] >= shares[f]
         /\ integral[e] >= integral[f]
         /\ occupancy'[e] <= occupancy'[f]
         => shares'[e] >= shares'[f]]_vars

\* No engine starves: after a tick its share is no less than that of an engine
\* at the minimum while all others are at the maximum.  The higher limits that
\* PRD.md:217 sets for each engine are not in the code.
NoneStarves ==
  [][lock' # lock /\ lock' = 0 /\ adjustments < TickBound =>
       \A e \in DOMAIN shares :
         shares'[e] >= (MinShare * One) \div
                         (MinShare + (Cardinality(DOMAIN shares) - 1) * MaxShare)]_vars
=============================================================================
