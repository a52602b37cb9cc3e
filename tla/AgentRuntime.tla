---------------------------- MODULE AgentRuntime ----------------------------
(***************************************************************************)
(* AgentRuntime (engines/agent_runtime.py): registered agents, the         *)
(* instances spawned of them, and the admission control in front of        *)
(* spawn().  The steps of run_workflow are in module Workflow.             *)
(*                                                                         *)
(* run_task() spawns an instance that it never removes from _instances:    *)
(* while the task runs its stream is taskStream, afterwards it is one of   *)
(* the stale instances, which only collect() and shutdown() remove.        *)
(* Cache pressure is either above the admission threshold or not, and      *)
(* _throttled says the same, since set_cache_pressure() writes both.  The  *)
(* state tensors that register() and shutdown() allocate and free in the   *)
(* memory pool, on a machine with CUDA only, are blocks of MemoryPool.     *)
(***************************************************************************)
EXTENDS Integers, FiniteSets

CONSTANTS
  Agents,          \* agent names
  InstanceIds,     \* bound: ids of instances that callers of spawn() hold
  MaxInstances,    \* max_instances: the number of streams
  MaxActive,       \* max_active_agents
  StaleBound       \* bound: stale instances beyond this many are not counted

ASSUME RuntimeConstants ==
  /\ MaxInstances \in Nat \ {0} /\ MaxActive \in Nat \ {0}
  /\ StaleBound \in Nat /\ IsFiniteSet(InstanceIds)

VARIABLES
  agents,          \* names in _agents
  instances,       \* instances held by callers: id -> stream_id
  stale,           \* how many finished tasks' instances _instances holds
  taskStream,      \* stream_id of the task in the LLM backend, or NoStream
  activeCount,     \* _active_count
  throttled,       \* _throttled, and cache pressure above the threshold
  cooling,         \* the last admission is less than cooldown_ms ago
  hasLlm           \* _llm_call is not None

runtimeVars == <<agents, instances, stale, taskStream, activeCount, throttled,
                 cooling, hasLlm>>

Streams == 0 .. MaxInstances - 1
NoStream == -1

RuntimeInit ==
  /\ agents = {}
  /\ instances = [i \in {} |-> NoStream]
  /\ stale = 0
  /\ taskStream = NoStream
  /\ activeCount = 0
  /\ throttled = FALSE
  /\ cooling = FALSE
  /\ hasLlm = FALSE

\* register() of a name that is not taken.
Register(a) ==
  /\ a \notin agents
  /\ agents' = agents \cup {a}
  /\ UNCHANGED <<instances, stale, taskStream, activeCount, throttled, cooling, hasLlm>>

SetLlmBackend ==
  /\ ~hasLlm
  /\ hasLlm' = TRUE
  /\ UNCHANGED <<agents, instances, stale, taskStream, activeCount, throttled, cooling>>

SetCachePressure(high) ==
  /\ throttled' = high
  /\ UNCHANGED <<agents, instances, stale, taskStream, activeCount, cooling, hasLlm>>

\* cooldown_ms pass after an admission.
CooldownExpires ==
  /\ cooling
  /\ cooling' = FALSE
  /\ UNCHANGED <<agents, instances, stale, taskStream, activeCount, throttled, hasLlm>>

\* Mutant: the limit is compared one too late.
ShouldAdmitOneMore ==
  /\ activeCount <= MaxActive
  /\ ~throttled
  /\ activeCount > 0 => ~cooling

\* _should_admit()
ShouldAdmit ==
  /\ activeCount < MaxActive
  /\ ~throttled
  /\ activeCount > 0 => ~cooling

NextStream == activeCount % MaxInstances

\* spawn() that admits; one that rejects raises and changes nothing.
Spawn(a, i) ==
  /\ a \in agents
  /\ ShouldAdmit
  /\ i \notin DOMAIN instances
  /\ instances' = [j \in DOMAIN instances \cup {i} |->
                     IF j = i THEN NextStream ELSE instances[j]]
  /\ activeCount' = activeCount + 1
  /\ cooling' = TRUE
  /\ UNCHANGED <<agents, stale, taskStream, throttled, hasLlm>>

\* Mutant: the count is not kept from falling below zero.
DecrementedFreely == activeCount - 1

Decremented == IF activeCount > 0 THEN activeCount - 1 ELSE 0

\* collect() of an instance its caller holds.
Collect(i) ==
  /\ i \in DOMAIN instances
  /\ instances' = [j \in DOMAIN instances \ {i} |-> instances[j]]
  /\ activeCount' = Decremented
  /\ UNCHANGED <<agents, stale, taskStream, throttled, cooling, hasLlm>>

\* collect() of an instance run_task() left behind.
CollectStale ==
  /\ stale > 0
  /\ stale' = stale - 1
  /\ activeCount' = Decremented
  /\ UNCHANGED <<agents, instances, taskStream, throttled, cooling, hasLlm>>

OneMoreStale == stale' = IF stale < StaleBound THEN stale + 1 ELSE stale

\* Mutant: a task is admitted without being counted.
StartTaskUncounted(a) ==
  /\ a \in agents /\ ShouldAdmit /\ hasLlm
  /\ taskStream' = NextStream
  /\ cooling' = TRUE
  /\ UNCHANGED <<agents, instances, stale, activeCount, throttled, hasLlm>>

\* run_task() up to its call of the LLM backend.
StartTask(a) ==
  /\ a \in agents
  /\ ShouldAdmit
  /\ hasLlm
  /\ taskStream' = NextStream
  /\ activeCount' = activeCount + 1
  /\ cooling' = TRUE
  /\ UNCHANGED <<agents, instances, stale, throttled, hasLlm>>

\* Mutant: the count is left as it was when the backend is done.
FinishTaskUncounted ==
  /\ taskStream' = NoStream
  /\ OneMoreStale
  /\ UNCHANGED <<agents, instances, activeCount, throttled, cooling, hasLlm>>

\* run_task() after the backend returned or raised.
FinishTask ==
  /\ taskStream' = NoStream
  /\ activeCount' = Decremented
  /\ OneMoreStale
  /\ UNCHANGED <<agents, instances, throttled, cooling, hasLlm>>

\* All of run_task() when there is no backend: counted up and down again.
TaskWithoutLlm(a) ==
  /\ a \in agents
  /\ ShouldAdmit
  /\ ~hasLlm
  /\ cooling' = TRUE
  /\ OneMoreStale
  /\ UNCHANGED <<agents, instances, taskStream, activeCount, throttled, hasLlm>>

\* shutdown()
RuntimeShutdown ==
  /\ agents' = {}
  /\ instances' = [i \in {} |-> NoStream]
  /\ stale' = 0
  /\ activeCount' = 0
  /\ UNCHANGED <<taskStream, throttled, cooling, hasLlm>>

\* What a caller may do between two calls of the runtime, and an LLM backend,
\* which is the caller's function, while a task waits for it.
CallerStep ==
  \/ \E a \in Agents : Register(a)
  \/ SetLlmBackend
  \/ \E high \in BOOLEAN : SetCachePressure(high)
  \/ \E a \in Agents, i \in InstanceIds : Spawn(a, i)
  \/ \E i \in InstanceIds : Collect(i)
  \/ CollectStale

-----------------------------------------------------------------------------
RuntimeTypeOK ==
  /\ agents \subseteq Agents
  /\ DOMAIN instances \subseteq InstanceIds
  /\ instances \in [DOMAIN instances -> Streams]
  /\ stale \in 0 .. StaleBound
  /\ taskStream \in Streams \cup {NoStream}
  /\ activeCount \in Nat
  /\ throttled \in BOOLEAN /\ cooling \in BOOLEAN /\ hasLlm \in BOOLEAN

\* The instances that really are in use: those callers hold, and the task's.
Live == Cardinality(DOMAIN instances) + (IF taskStream = NoStream THEN 0 ELSE 1)

\* Admission control never lets the count of active agents pass its limit.
AdmissionBound == activeCount <= MaxActive

\* The count never includes an instance nobody uses any more, so capacity that
\* was given back can be used again.
NeverOvercounts == activeCount <= Live

\* No more instances are in use than max_active_agents allows.
LiveWithinLimit == Live <= MaxActive

\* Every instance in use has a stream of its own.
StreamsIsolated ==
  /\ \A i, j \in DOMAIN instances : instances[i] = instances[j] => i = j
  /\ \A i \in DOMAIN instances : instances[i] # taskStream
=============================================================================
