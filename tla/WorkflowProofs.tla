--------------------------- MODULE WorkflowProofs ---------------------------
(***************************************************************************)
(* Theorems about run_workflow on top of the runtime, for any number of    *)
(* tasks, agents and instances and for every dependency relation.          *)
(***************************************************************************)
EXTENDS Workflow, FiniteSetTheorems, SequenceTheorems, TLAPS

-----------------------------------------------------------------------------
(* What each operation of the runtime does to its types and its counter.   *)

\* What admission control keeps: the count stays within its limit and counts
\* nothing that is not in use.
Counted == AdmissionBound /\ NeverOvercounts

\* The set of held instances is finite, whoever spawns or collects.
LEMMA HeldFinite ==
  ASSUME RuntimeTypeOK
  PROVE  IsFiniteSet(DOMAIN instances) /\ Cardinality(DOMAIN instances) \in Nat
BY FS_Subset, FS_CardinalityType, RuntimeConstants DEF RuntimeTypeOK

\* A stream id is always that of an existing stream.
LEMMA StreamExists == ASSUME RuntimeTypeOK PROVE NextStream \in Streams
<1>1. activeCount \in Nat /\ MaxInstances \in Nat \ {0}
      BY RuntimeConstants DEF RuntimeTypeOK
<1>2. activeCount % MaxInstances \in 0 .. MaxInstances - 1
      BY <1>1
<1> QED BY <1>2 DEF NextStream, Streams

\* Counting down never leaves the naturals and takes off at most one.
LEMMA CountDown ==
  ASSUME RuntimeTypeOK
  PROVE  /\ Decremented \in Nat /\ Decremented <= activeCount
         /\ \A n \in Nat : activeCount <= n + 1 => Decremented <= n
BY DEF RuntimeTypeOK, Decremented

LEMMA StaleType ==
  ASSUME RuntimeTypeOK, OneMoreStale PROVE stale' \in 0 .. StaleBound
BY RuntimeConstants DEF RuntimeTypeOK, OneMoreStale

LEMMA InitCounted == ASSUME RuntimeInit PROVE RuntimeTypeOK /\ Counted
<1>1. DOMAIN instances = {} /\ taskStream = NoStream /\ activeCount = 0
      BY DEF RuntimeInit
<1>2. Cardinality(DOMAIN instances) = 0
      BY <1>1, FS_EmptySet
<1>3. RuntimeTypeOK
  <2>1. instances \in [DOMAIN instances -> Streams]
        BY <1>1 DEF RuntimeInit
  <2>2. stale \in 0 .. StaleBound
        BY RuntimeConstants DEF RuntimeInit
  <2>3. throttled \in BOOLEAN /\ cooling \in BOOLEAN /\ hasLlm \in BOOLEAN
        BY DEF RuntimeInit
  <2>4. agents \subseteq Agents /\ DOMAIN instances \subseteq InstanceIds
        BY <1>1 DEF RuntimeInit
  <2>5. activeCount \in Nat /\ taskStream \in Streams \cup {NoStream}
        BY <1>1
  <2> QED BY <2>1, <2>2, <2>3, <2>4, <2>5 DEF RuntimeTypeOK
<1> QED BY <1>1, <1>2, <1>3, RuntimeConstants
        DEF Counted, AdmissionBound, NeverOvercounts, Live

-----------------------------------------------------------------------------
(* The operations of callers.                                              *)

LEMMA SpawnCounted ==
  ASSUME RuntimeTypeOK, Counted, NEW a \in Agents, NEW i \in InstanceIds, Spawn(a, i)
  PROVE  RuntimeTypeOK' /\ Counted'
<1>1. DOMAIN instances' = DOMAIN instances \cup {i} /\ i \notin DOMAIN instances
      BY DEF Spawn
<1>2. Cardinality(DOMAIN instances') = Cardinality(DOMAIN instances) + 1
      BY <1>1, HeldFinite, FS_AddElement
<1>3. instances' \in [DOMAIN instances' -> Streams]
      BY <1>1, StreamExists DEF Spawn, RuntimeTypeOK
<1>4. RuntimeTypeOK'
      BY <1>1, <1>3 DEF Spawn, RuntimeTypeOK
<1>5. activeCount' = activeCount + 1 /\ activeCount < MaxActive /\ UNCHANGED taskStream
      BY DEF Spawn, ShouldAdmit
<1>6. activeCount \in Nat /\ activeCount <= Live
      BY DEF RuntimeTypeOK, Counted, NeverOvercounts
<1>7. Live' = Live + 1
      BY <1>2, <1>5, HeldFinite DEF Live
<1>8. Live \in Nat
      BY HeldFinite DEF Live
<1>9. Counted'
      BY <1>5, <1>6, <1>7, <1>8, RuntimeConstants DEF Counted, AdmissionBound, NeverOvercounts
<1> QED BY <1>4, <1>9

LEMMA CollectCounted ==
  ASSUME RuntimeTypeOK, Counted, NEW i \in InstanceIds, Collect(i)
  PROVE  RuntimeTypeOK' /\ Counted'
<1>1. DOMAIN instances' = DOMAIN instances \ {i} /\ i \in DOMAIN instances
      BY DEF Collect
<1>2. Cardinality(DOMAIN instances') = Cardinality(DOMAIN instances) - 1
      BY <1>1, HeldFinite, FS_RemoveElement
<1>3. instances' \in [DOMAIN instances' -> Streams]
      BY <1>1 DEF Collect, RuntimeTypeOK
<1>4. RuntimeTypeOK'
      BY <1>1, <1>3, CountDown DEF Collect, RuntimeTypeOK
<1>5. Cardinality(DOMAIN instances) # 0
      BY <1>1, HeldFinite, FS_EmptySet
<1>6. Live' \in Nat /\ Live = Live' + 1
      BY <1>2, <1>5, HeldFinite DEF Live, Collect
<1>7. activeCount' <= Live' /\ activeCount' <= activeCount
      BY <1>6, CountDown DEF Collect, Counted, NeverOvercounts
<1>8. activeCount \in Nat /\ activeCount' \in Nat /\ activeCount <= MaxActive
      BY <1>4 DEF RuntimeTypeOK, Counted, AdmissionBound
<1>9. Counted'
      BY <1>7, <1>8, RuntimeConstants DEF Counted, AdmissionBound, NeverOvercounts
<1> QED BY <1>4, <1>9

\* Collecting a stale instance counts down although none in use is given back:
\* the count may then fall behind, never ahead.
LEMMA CollectStaleCounted ==
  ASSUME RuntimeTypeOK, Counted, CollectStale
  PROVE  RuntimeTypeOK' /\ Counted'
<1>1. RuntimeTypeOK'
      BY CountDown, RuntimeConstants DEF CollectStale, RuntimeTypeOK
<1>2. Live' = Live /\ Live \in Nat
      BY HeldFinite DEF CollectStale, Live
<1>3. activeCount' \in Nat /\ activeCount \in Nat /\ activeCount' <= activeCount
      BY <1>1, CountDown DEF CollectStale, RuntimeTypeOK
<1>4. Counted'
      BY <1>2, <1>3, RuntimeConstants DEF Counted, AdmissionBound, NeverOvercounts
<1> QED BY <1>1, <1>4

LEMMA CallerCounted ==
  ASSUME RuntimeTypeOK, Counted, CallerStep
  PROVE  RuntimeTypeOK' /\ Counted' /\ UNCHANGED taskStream
<1>1. ASSUME NEW a \in Agents, Register(a)
      PROVE  RuntimeTypeOK' /\ Counted' /\ UNCHANGED taskStream
      BY <1>1 DEF Register, RuntimeTypeOK, Counted, AdmissionBound, NeverOvercounts, Live
<1>2. CASE SetLlmBackend
      BY <1>2 DEF SetLlmBackend, RuntimeTypeOK, Counted, AdmissionBound, NeverOvercounts, Live
<1>3. ASSUME NEW high \in BOOLEAN, SetCachePressure(high)
      PROVE  RuntimeTypeOK' /\ Counted' /\ UNCHANGED taskStream
      BY <1>3 DEF SetCachePressure, RuntimeTypeOK, Counted, AdmissionBound, NeverOvercounts, Live
<1>4. ASSUME NEW a \in Agents, NEW i \in InstanceIds, Spawn(a, i)
      PROVE  RuntimeTypeOK' /\ Counted' /\ UNCHANGED taskStream
      BY <1>4, SpawnCounted DEF Spawn
<1>5. ASSUME NEW i \in InstanceIds, Collect(i)
      PROVE  RuntimeTypeOK' /\ Counted' /\ UNCHANGED taskStream
      BY <1>5, CollectCounted DEF Collect
<1>6. CASE CollectStale
      BY <1>6, CollectStaleCounted DEF CollectStale
<1> QED BY <1>1, <1>2, <1>3, <1>4, <1>5, <1>6 DEF CallerStep

-----------------------------------------------------------------------------
(* The parts of run_task(), and the rest.                                  *)

LEMMA StartTaskCounted ==
  ASSUME RuntimeTypeOK, Counted, taskStream = NoStream, NEW a \in Agents, StartTask(a)
  PROVE  RuntimeTypeOK' /\ Counted' /\ taskStream' # NoStream
<1>1. taskStream' \in Streams /\ taskStream' # NoStream
      BY StreamExists, RuntimeConstants DEF StartTask, Streams, NoStream
<1>2. RuntimeTypeOK'
      BY <1>1 DEF StartTask, RuntimeTypeOK
<1>3. Live' = Live + 1 /\ Live \in Nat
      BY <1>1, HeldFinite DEF StartTask, Live
<1>4. activeCount' = activeCount + 1 /\ activeCount < MaxActive
      BY DEF StartTask, ShouldAdmit
<1>5. Counted'
      BY <1>3, <1>4, RuntimeConstants
      DEF RuntimeTypeOK, Counted, AdmissionBound, NeverOvercounts
<1> QED BY <1>1, <1>2, <1>5

LEMMA FinishTaskCounted ==
  ASSUME RuntimeTypeOK, Counted, taskStream # NoStream, FinishTask
  PROVE  RuntimeTypeOK' /\ Counted' /\ taskStream' = NoStream
<1>1. RuntimeTypeOK' /\ taskStream' = NoStream
      BY CountDown, StaleType DEF FinishTask, RuntimeTypeOK
<1>2. Live = Live' + 1 /\ Live' \in Nat
      BY <1>1, HeldFinite DEF FinishTask, Live
<1>3. activeCount' <= Live' /\ activeCount' <= activeCount
      BY <1>2, CountDown DEF FinishTask, Counted, NeverOvercounts
<1>4. Counted'
      BY <1>1, <1>3, RuntimeConstants
      DEF RuntimeTypeOK, Counted, AdmissionBound, NeverOvercounts
<1> QED BY <1>1, <1>4

LEMMA TaskWithoutLlmCounted ==
  ASSUME RuntimeTypeOK, Counted, NEW a \in Agents, TaskWithoutLlm(a)
  PROVE  RuntimeTypeOK' /\ Counted' /\ UNCHANGED taskStream
<1>1. RuntimeTypeOK'
      BY StaleType DEF TaskWithoutLlm, RuntimeTypeOK
<1>2. Counted'
      BY DEF TaskWithoutLlm, Counted, AdmissionBound, NeverOvercounts, Live
<1> QED BY <1>1, <1>2 DEF TaskWithoutLlm

LEMMA ShutdownCounted ==
  ASSUME RuntimeTypeOK, Counted, RuntimeShutdown
  PROVE  RuntimeTypeOK' /\ Counted' /\ UNCHANGED taskStream
<1>1. DOMAIN instances' = {} /\ activeCount' = 0 /\ UNCHANGED taskStream
      BY DEF RuntimeShutdown
<1>2. RuntimeTypeOK'
      BY <1>1, RuntimeConstants DEF RuntimeShutdown, RuntimeTypeOK
<1>3. Cardinality(DOMAIN instances') = 0
      BY <1>1, FS_EmptySet
<1>4. Live' \in Nat
      BY <1>3 DEF Live
<1> QED BY <1>1, <1>2, <1>4, RuntimeConstants DEF Counted, AdmissionBound, NeverOvercounts

LEMMA CooldownCounted ==
  ASSUME RuntimeTypeOK, Counted, CooldownExpires
  PROVE  RuntimeTypeOK' /\ Counted' /\ UNCHANGED taskStream
BY DEF CooldownExpires, RuntimeTypeOK, Counted, AdmissionBound, NeverOvercounts, Live

LEMMA StutterCounted ==
  ASSUME RuntimeTypeOK, Counted, UNCHANGED runtimeVars
  PROVE  RuntimeTypeOK' /\ Counted' /\ UNCHANGED taskStream
BY DEF runtimeVars, RuntimeTypeOK, Counted, AdmissionBound, NeverOvercounts, Live

-----------------------------------------------------------------------------
(* When the instance of a finished task is never collected.                *)

\* Every instance in use is counted.
AllCounted == Live <= activeCount

LEMMA AllCountedInit == ASSUME RuntimeInit PROVE AllCounted
<1>1. DOMAIN instances = {} /\ taskStream = NoStream /\ activeCount = 0
      BY DEF RuntimeInit
<1>2. Cardinality(DOMAIN instances) = 0
      BY <1>1, FS_EmptySet
<1> QED BY <1>1, <1>2 DEF AllCounted, Live

LEMMA AllCountedFrame ==
  ASSUME AllCounted, UNCHANGED <<instances, taskStream, activeCount>> PROVE AllCounted'
BY DEF AllCounted, Live

LEMMA OneLess ==
  ASSUME NEW live \in Nat, NEW left \in Nat, NEW count \in Nat, live = left + 1, live <= count
  PROVE  left <= IF count > 0 THEN count - 1 ELSE 0
OBVIOUS

\* Callers give back what they take, and no more.
LEMMA AllCountedCaller ==
  ASSUME RuntimeTypeOK, AllCounted, StaleBound = 0, CallerStep PROVE AllCounted'
<1>1. activeCount \in Nat /\ Live \in Nat /\ Live <= activeCount
      BY HeldFinite DEF RuntimeTypeOK, AllCounted, Live
<1>2. ASSUME NEW a \in Agents, NEW i \in InstanceIds, Spawn(a, i) PROVE AllCounted'
  <2>1. DOMAIN instances' = DOMAIN instances \cup {i} /\ i \notin DOMAIN instances
        BY <1>2 DEF Spawn
  <2>2. Cardinality(DOMAIN instances') = Cardinality(DOMAIN instances) + 1
        BY <2>1, HeldFinite, FS_AddElement
  <2>3. Live' = Live + 1
        BY <1>2, <2>2, HeldFinite DEF Live, Spawn
  <2> QED BY <1>1, <1>2, <2>3 DEF AllCounted, Spawn
<1>3. ASSUME NEW i \in InstanceIds, Collect(i) PROVE AllCounted'
  <2>1. DOMAIN instances' = DOMAIN instances \ {i} /\ i \in DOMAIN instances
        BY <1>3 DEF Collect
  <2>2. Cardinality(DOMAIN instances') = Cardinality(DOMAIN instances) - 1
        BY <2>1, HeldFinite, FS_RemoveElement
  <2>3. Cardinality(DOMAIN instances) # 0
        BY <2>1, HeldFinite, FS_EmptySet
  <2>4. Live = Live' + 1 /\ Live' \in Nat
        BY <1>3, <2>2, <2>3, HeldFinite DEF Live, Collect
  <2>5. activeCount' = IF activeCount > 0 THEN activeCount - 1 ELSE 0
        BY <1>3 DEF Collect, Decremented
  <2>6. Live' <= activeCount'
        BY <1>1, <2>4, <2>5, OneLess
  <2> QED BY <2>6 DEF AllCounted
<1>4. ASSUME CollectStale PROVE FALSE
      BY <1>4 DEF CollectStale, RuntimeTypeOK
<1>5. CASE UNCHANGED <<instances, taskStream, activeCount>>
      BY <1>5, AllCountedFrame
<1> QED BY <1>2, <1>3, <1>4, <1>5 DEF CallerStep, Register, SetLlmBackend, SetCachePressure

LEMMA AllCountedStart ==
  ASSUME RuntimeTypeOK, AllCounted, taskStream = NoStream, NEW a, StartTask(a)
  PROVE  AllCounted'
<1>1. Live' = Live + 1 /\ Live \in Nat
  <2>1. taskStream' # NoStream
        BY StreamExists DEF StartTask, Streams, NoStream
  <2> QED BY <2>1, HeldFinite DEF StartTask, Live
<1> QED BY <1>1 DEF AllCounted, StartTask, RuntimeTypeOK

LEMMA AllCountedFinish ==
  ASSUME RuntimeTypeOK, AllCounted, taskStream # NoStream, FinishTask PROVE AllCounted'
<1>1. Live = Live' + 1 /\ Live' \in Nat
      BY HeldFinite DEF FinishTask, Live
<1> QED BY <1>1 DEF AllCounted, FinishTask, Decremented, RuntimeTypeOK

LEMMA AllCountedShutdown ==
  ASSUME taskStream = NoStream, RuntimeShutdown PROVE AllCounted'
<1>1. DOMAIN instances' = {} /\ activeCount' = 0 /\ taskStream' = NoStream
      BY DEF RuntimeShutdown
<1>2. Cardinality(DOMAIN instances') = 0
      BY <1>1, FS_EmptySet
<1> QED BY <1>1, <1>2 DEF AllCounted, Live

-----------------------------------------------------------------------------
(* Queues of tasks.                                                        *)

\* No task stands in the queue twice.
Once(s) == \A i, j \in 1 .. Len(s) : s[i] = s[j] => i = j

\* A listing of a finite set is a sequence of all its elements, each once.
LEMMA OrderingIsListing ==
  ASSUME NEW S, IsFiniteSet(S), NEW s \in Orderings(S)
  PROVE  s \in Seq(S) /\ Range(s) = S /\ Once(s)
<1>1. Cardinality(S) \in Nat
      BY FS_CardinalityType
<1>2. s \in [1 .. Cardinality(S) -> S]
      BY DEF Orderings, Bijection, Injection
<1>3. s \in Seq(S) /\ Len(s) = Cardinality(S)
      BY <1>1, <1>2
<1>4. Once(s)
      BY <1>2, <1>3 DEF Orderings, Bijection, Injection, IsInjective, Once
<1>5. Range(s) = S
      BY <1>2 DEF Orderings, Bijection, Surjection, Range
<1> QED BY <1>3, <1>4, <1>5

\* Taking the first task leaves the others, in a queue without it.
LEMMA HeadLeavesTail ==
  ASSUME NEW S, NEW s \in Seq(S), s # <<>>, Once(s)
  PROVE  /\ Head(s) \in S /\ Tail(s) \in Seq(S) /\ Once(Tail(s))
         /\ Range(s) = Range(Tail(s)) \cup {Head(s)}
         /\ Head(s) \notin Range(Tail(s))
<1> DEFINE t == Tail(s)
<1>1. /\ Len(s) \in Nat \ {0} /\ Head(s) = s[1] /\ Head(s) \in S
      /\ t \in Seq(S) /\ Len(t) = Len(s) - 1
      /\ \A i \in 1 .. Len(t) : t[i] = s[i + 1]
      BY HeadTailProperties, EmptySeq
<1>2. DOMAIN s = 1 .. Len(s) /\ DOMAIN t = 1 .. Len(t)
      BY <1>1, LenProperties
<1> HIDE DEF t
<1>3. Once(t)
      BY <1>1 DEF Once
<1>4. Range(s) = Range(t) \cup {Head(s)}
  <2>1. \A x \in Range(s) : x = s[1] \/ \E i \in 1 .. Len(t) : x = t[i]
    <3> SUFFICES ASSUME NEW i \in 1 .. Len(s), i # 1
                 PROVE  \E k \in 1 .. Len(t) : s[i] = t[k]
        BY <1>2 DEF Range
    <3>1. i - 1 \in 1 .. Len(t) /\ t[i - 1] = s[i - 1 + 1] /\ i - 1 + 1 = i
          BY <1>1
    <3> QED BY <3>1
  <2>2. \A i \in 1 .. Len(t) : t[i] \in Range(s)
        BY <1>1, <1>2 DEF Range
  <2>3. s[1] \in Range(s)
        BY <1>1, <1>2 DEF Range
  <2> QED BY <1>1, <1>2, <2>1, <2>2, <2>3 DEF Range
<1>5. Head(s) \notin Range(t)
  <2>1. \A i \in 1 .. Len(t) : i + 1 \in 1 .. Len(s) /\ i + 1 # 1 /\ 1 \in 1 .. Len(s)
        BY <1>1
  <2>2. \A i \in 1 .. Len(t) : t[i] # s[1]
        BY <1>1, <2>1 DEF Once
  <2> QED BY <1>1, <1>2, <2>2 DEF Range
<1> QED BY <1>1, <1>3, <1>4, <1>5 DEF t

\* Queueing tasks that are not in the queue behind it.
LEMMA QueueBehind ==
  ASSUME NEW S, NEW r \in Seq(S), NEW s \in Seq(S), Once(r), Once(s),
         Range(r) \cap Range(s) = {}
  PROVE  /\ r \o s \in Seq(S) /\ Once(r \o s)
         /\ Range(r \o s) = Range(r) \cup Range(s)
<1> DEFINE q == r \o s
<1>1. /\ q \in Seq(S) /\ Len(q) = Len(r) + Len(s)
      /\ \A i \in 1 .. Len(r) + Len(s) :
           q[i] = IF i <= Len(r) THEN r[i] ELSE s[i - Len(r)]
      /\ Len(r) \in Nat /\ Len(s) \in Nat
      BY ConcatProperties, LenProperties
<1>2. DOMAIN r = 1 .. Len(r) /\ DOMAIN s = 1 .. Len(s)
      BY LenProperties
<1>3. Range(q) = Range(r) \cup Range(s)
      BY RangeConcatenation
<1> HIDE DEF q
<1>4. ASSUME NEW i \in 1 .. Len(q), NEW j \in 1 .. Len(q), q[i] = q[j]
      PROVE  i = j
  <2>1. \A k \in 1 .. Len(r) : r[k] \in Range(r)
        BY <1>2 DEF Range
  <2>2. \A k \in 1 .. Len(s) : s[k] \in Range(s)
        BY <1>2 DEF Range
  <2>3. CASE i <= Len(r) /\ j <= Len(r)
        BY <1>1, <1>4, <2>3 DEF Once
  <2>4. CASE i > Len(r) /\ j > Len(r)
    <3>1. i - Len(r) \in 1 .. Len(s) /\ j - Len(r) \in 1 .. Len(s)
          BY <1>1, <2>4
    <3>2. s[i - Len(r)] = s[j - Len(r)]
          BY <1>1, <1>4, <2>4
    <3>3. i - Len(r) = j - Len(r)
          BY <3>1, <3>2 DEF Once
    <3> QED BY <1>1, <3>3
  <2>5. CASE i <= Len(r) /\ j > Len(r)
    <3>1. j - Len(r) \in 1 .. Len(s) /\ i \in 1 .. Len(r)
          BY <1>1, <2>5
    <3>2. q[i] \in Range(r) /\ q[j] \in Range(s)
          BY <1>1, <2>1, <2>2, <2>5, <3>1
    <3> QED BY <1>4, <3>2
  <2>6. CASE i > Len(r) /\ j <= Len(r)
    <3>1. i - Len(r) \in 1 .. Len(s) /\ j \in 1 .. Len(r)
          BY <1>1, <2>6
    <3>2. q[j] \in Range(r) /\ q[i] \in Range(s)
          BY <1>1, <2>1, <2>2, <2>6, <3>1
    <3> QED BY <1>4, <3>2
  <2> QED BY <1>1, <2>3, <2>4, <2>5, <2>6
<1>5. Once(q)
      BY <1>4 DEF Once
<1> QED BY <1>1, <1>3, <1>5 DEF q

-----------------------------------------------------------------------------
(* The inductive invariant.                                                *)

\* The backend runs if and only if the loop waits for it, and nothing is
\* queued while no workflow runs.
Phase ==
  /\ pc = "llm" <=> taskStream # NoStream
  /\ pc = "llm" <=> current # NoTask
  /\ pc = "idle" => ready = <<>>
  /\ rejected \subseteq DOMAIN errors

Placed == DependenciesRespected /\ OnePlaceEach /\ RunnableNotForgotten

WInv == TypeOK /\ Counted /\ Phase /\ Placed

\* What holds when the loop has taken task t, with the rest of the queue and
\* the tasks that wait for another try.
Taken(t, rest, waiting) ==
  /\ t \in workflow.tasks /\ rest \in Seq(workflow.tasks) /\ Once(rest)
  /\ waiting \subseteq workflow.tasks
  /\ waiting \subseteq DOMAIN errors
  /\ t \notin Range(rest) \cup waiting \cup completed
  /\ Range(rest) \cap (waiting \cup completed) = {}
  /\ waiting \cap completed = {}
  /\ \A x \in Range(rest) \cup waiting \cup completed \cup {t} :
       workflow.deps[x] \subseteq completed

\* A workflow's tasks are finitely many and NoTask is none of them.
LEMMA TasksFinite ==
  ASSUME TypeOK
  PROVE  /\ NoTask \notin workflow.tasks
         /\ \A S \in SUBSET workflow.tasks : IsFiniteSet(S)
<1>1. workflow.tasks \subseteq Tasks
      BY WorkflowConstants DEF TypeOK, EmptyWorkflow
<1> QED BY <1>1, WorkflowConstants, FS_Subset

-----------------------------------------------------------------------------
(* Settling a task.                                                        *)

\* However task t ended, the workflow's part of the invariant holds behind it.
LEMMA SettlePlaces ==
  ASSUME TypeOK, NEW t, NEW rest, NEW waiting, Taken(t, rest, waiting),
         NEW outcome \in {"result", "rejected", "unregistered"},
         Settle(t, outcome, rest, waiting)
  PROVE  /\ workflow' = workflow /\ pc' = "loop" /\ current' = NoTask
         /\ ready' \in Seq(workflow.tasks)
         /\ rejected' \subseteq workflow.tasks /\ completed' \subseteq workflow.tasks
         /\ DOMAIN errors' \subseteq workflow.tasks
         /\ errors' \in [DOMAIN errors' -> {"rejected", "unregistered"}]
         /\ rejected' \subseteq DOMAIN errors'
         /\ Placed'
<1> DEFINE eligible == Eligible(t, completed', rejected', rest)
<1>1. PICK s \in Orderings(eligible) : ready' = rest \o s
      BY DEF Settle
<1>2. /\ workflow' = workflow /\ pc' = "loop" /\ current' = NoTask
      /\ completed' = completed \cup {x \in {t} : outcome = "result"}
      /\ rejected' = waiting \cup {x \in {t} : outcome = "rejected"}
      /\ errors' = ErrorsAfter(t, outcome)
      BY DEF Settle
<1>3. /\ completed' \subseteq workflow.tasks /\ rejected' \subseteq workflow.tasks
      /\ completed \subseteq completed' /\ completed' \cap rejected' = {}
      /\ Range(rest) \cap (completed' \cup rejected') = {}
      BY <1>2 DEF Taken, TypeOK
<1>4. eligible \subseteq workflow.tasks /\ IsFiniteSet(eligible)
      BY TasksFinite DEF Eligible
<1>5. s \in Seq(workflow.tasks) /\ Range(s) = eligible /\ Once(s)
      BY <1>1, <1>4, OrderingIsListing, SeqMonotonic
<1>6. Range(rest) \cap Range(s) = {}
      BY <1>5 DEF Eligible
<1>7. /\ ready' \in Seq(workflow.tasks) /\ Once(ready')
      /\ Range(ready') = Range(rest) \cup eligible
      BY <1>1, <1>5, <1>6, QueueBehind DEF Taken
<1>8. DOMAIN ready' = 1 .. Len(ready')
      BY <1>7, LenProperties
<1>9. /\ DOMAIN errors' \subseteq workflow.tasks
      /\ errors' \in [DOMAIN errors' -> {"rejected", "unregistered"}]
      /\ rejected' \subseteq DOMAIN errors'
      BY <1>2 DEF ErrorsAfter, Taken, TypeOK
<1>10. DependenciesRespected'
  <2>1. \A x \in eligible : workflow.deps[x] \subseteq completed'
        BY DEF Eligible
  <2>2. \A x \in Range(rest) \cup rejected' \cup completed' :
          workflow.deps[x] \subseteq completed'
        BY <1>2, <1>3 DEF Taken
  <2> QED BY <1>2, <1>7, <2>1, <2>2 DEF DependenciesRespected
<1>11. OnePlaceEach'
  <2>1. \A i, j \in DOMAIN ready' : ready'[i] = ready'[j] => i = j
        BY <1>7, <1>8 DEF Once
  <2>2. Range(ready') \cap (rejected' \cup completed' \cup {current'}) = {}
        BY <1>2, <1>3, <1>4, <1>7, TasksFinite, RangeOfSeq DEF Eligible
  <2>3. rejected' \cap (completed' \cup {current'}) = {} /\ current' \notin completed'
        BY <1>2, <1>3, TasksFinite
  <2> QED BY <2>1, <2>2, <2>3 DEF OnePlaceEach
<1>12. RunnableNotForgotten'
      BY <1>2, <1>7 DEF RunnableNotForgotten, Eligible
<1> QED BY <1>2, <1>3, <1>7, <1>9, <1>10, <1>11, <1>12 DEF Placed

\* The task at the head of the queue is taken from it alone.
LEMMA TakeReady ==
  ASSUME WInv, pc = "loop", ready # <<>>
  PROVE  Taken(Head(ready), Tail(ready), rejected)
<1>1. ready \in Seq(workflow.tasks) /\ DOMAIN ready = 1 .. Len(ready)
      BY LenProperties DEF WInv, TypeOK
<1>2. Once(ready)
      BY <1>1 DEF WInv, Placed, OnePlaceEach, Once
<1>3. /\ Head(ready) \in workflow.tasks /\ Tail(ready) \in Seq(workflow.tasks)
      /\ Once(Tail(ready))
      /\ Range(ready) = Range(Tail(ready)) \cup {Head(ready)}
      /\ Head(ready) \notin Range(Tail(ready))
      BY <1>1, <1>2, HeadLeavesTail
<1> QED BY <1>3
        DEF Taken, WInv, TypeOK, Phase, Placed, OnePlaceEach, DependenciesRespected

\* So is the first of the rejected tasks when they are queued again.
LEMMA TakeRejected ==
  ASSUME WInv, pc = "loop", Retry, NEW s \in Orderings(rejected)
  PROVE  s # <<>> /\ Taken(Head(s), Tail(s), {})
<1>1. IsFiniteSet(rejected) /\ rejected # {}
      BY TasksFinite DEF WInv, TypeOK, Retry
<1>2. s \in Seq(rejected) /\ Range(s) = rejected /\ Once(s)
      BY <1>1, OrderingIsListing
<1>3. s # <<>>
      BY <1>1, <1>2 DEF Range
<1>4. s \in Seq(workflow.tasks)
      BY <1>2, SeqMonotonic DEF WInv, TypeOK
<1>5. /\ Head(s) \in workflow.tasks /\ Tail(s) \in Seq(workflow.tasks)
      /\ Once(Tail(s))
      /\ rejected = Range(Tail(s)) \cup {Head(s)}
      /\ Head(s) \notin Range(Tail(s))
      BY <1>2, <1>3, <1>4, HeadLeavesTail
<1> QED BY <1>3, <1>5
        DEF Taken, WInv, TypeOK, Placed, OnePlaceEach, DependenciesRespected

-----------------------------------------------------------------------------
(* Every step keeps the invariant.                                         *)

LEMMA WInvInit == ASSUME Init PROVE WInv
<1>1. RuntimeTypeOK /\ Counted
      BY InitCounted DEF Init
<1>2. workflow.tasks = {} /\ ready = <<>> /\ Range(ready) = {}
      BY DEF Init, EmptyWorkflow, Range
<1>3. TypeOK
      BY <1>1, <1>2, EmptySeq DEF Init, TypeOK
<1>4. Phase
      BY DEF Init, RuntimeInit, Phase
<1>5. Placed
      BY <1>2 DEF Init, Placed, DependenciesRespected, OnePlaceEach, RunnableNotForgotten
<1> QED BY <1>1, <1>3, <1>4, <1>5 DEF WInv

\* A step that leaves the workflow alone and keeps the runtime's part.
LEMMA WInvRuntimeStep ==
  ASSUME WInv, UNCHANGED workflowVars, RuntimeTypeOK', Counted', UNCHANGED taskStream
  PROVE  WInv'
<1>1. TypeOK'
      BY DEF WInv, workflowVars, TypeOK
<1>2. Phase'
      BY DEF WInv, workflowVars, Phase
<1>3. Placed'
      BY DEF WInv, workflowVars, Placed, DependenciesRespected, OnePlaceEach,
             RunnableNotForgotten
<1> QED BY <1>1, <1>2, <1>3 DEF WInv

LEMMA WInvSettle ==
  ASSUME WInv, NEW t, NEW rest, NEW waiting, Taken(t, rest, waiting),
         NEW outcome \in {"result", "rejected", "unregistered"},
         Settle(t, outcome, rest, waiting),
         RuntimeTypeOK', Counted', taskStream' = NoStream
  PROVE  WInv'
<1>1. TypeOK
      BY DEF WInv
<1>2. /\ workflow' = workflow /\ pc' = "loop" /\ current' = NoTask
      /\ ready' \in Seq(workflow.tasks)
      /\ rejected' \subseteq workflow.tasks /\ completed' \subseteq workflow.tasks
      /\ DOMAIN errors' \subseteq workflow.tasks
      /\ errors' \in [DOMAIN errors' -> {"rejected", "unregistered"}]
      /\ rejected' \subseteq DOMAIN errors'
      /\ Placed'
      BY <1>1, SettlePlaces
<1>3. TypeOK'
      BY <1>1, <1>2 DEF TypeOK
<1>4. Phase'
      BY <1>2 DEF Phase
<1> QED BY <1>2, <1>3, <1>4 DEF WInv

\* One iteration of the loop, whichever of its ways it takes.
LEMMA WInvRunTask ==
  ASSUME WInv, pc = "loop", NEW t, NEW rest, NEW waiting, Taken(t, rest, waiting),
         waiting \cup Range(rest) \cup {t} = rejected \cup Range(ready),
         RunTask(t, rest, waiting)
  PROVE  WInv'
<1> DEFINE a == workflow.agent[t]
<1>1. /\ RuntimeTypeOK /\ Counted /\ taskStream = NoStream /\ a \in Agents
      BY WorkflowConstants DEF WInv, TypeOK, Phase, Taken, EmptyWorkflow
<1>2. CASE Settle(t, "unregistered", rest, waiting) /\ UNCHANGED runtimeVars
      BY <1>1, <1>2, StutterCounted, WInvSettle
<1>3. CASE Settle(t, "rejected", rest, waiting) /\ UNCHANGED runtimeVars
      BY <1>1, <1>3, StutterCounted, WInvSettle
<1>4. ASSUME TaskWithoutLlm(a), NEW phrase \in Answers,
             Settle(t, OutcomeOf(phrase), rest, waiting)
      PROVE  WInv'
      BY <1>1, <1>4, TaskWithoutLlmCounted, WInvSettle DEF OutcomeOf
<1>5. CASE /\ StartTask(a) /\ current' = t /\ ready' = rest /\ rejected' = waiting
           /\ pc' = "llm" /\ UNCHANGED <<workflow, completed, errors>>
  <2>1. RuntimeTypeOK' /\ Counted' /\ taskStream' # NoStream
        BY <1>1, <1>5, StartTaskCounted
  <2>2. TypeOK'
        BY <1>5, <2>1 DEF WInv, TypeOK, Taken
  <2>3. Phase'
        BY <1>5, <2>1, TasksFinite DEF WInv, Phase, Taken
  <2>4. DOMAIN rest = 1 .. Len(rest)
        BY LenProperties DEF Taken
  <2>5. OnePlaceEach'
        BY <1>5, <2>4 DEF OnePlaceEach, Taken, Once
  <2>6. DependenciesRespected'
        BY <1>5 DEF DependenciesRespected, Taken
  <2>7. RunnableNotForgotten'
        BY <1>5, TasksFinite DEF WInv, Phase, Placed, RunnableNotForgotten
  <2> QED BY <2>1, <2>2, <2>3, <2>5, <2>6, <2>7 DEF WInv, Placed
<1> QED BY <1>2, <1>3, <1>4, <1>5 DEF RunTask

LEMMA WInvSubmit ==
  ASSUME WInv, NEW w \in Workflows, Submit(w)
  PROVE  WInv'
<1> DEFINE first == {t \in w.tasks : w.deps[t] = {}}
<1>1. PICK s \in Orderings(first) : ready' = s
      BY DEF Submit
<1>2. w.tasks \subseteq Tasks /\ w.deps \in [w.tasks -> SUBSET Tasks]
      BY WorkflowConstants
<1>3. IsFiniteSet(first)
      BY <1>2, WorkflowConstants, FS_Subset
<1>4. ready' \in Seq(w.tasks) /\ Range(ready') = first /\ Once(ready')
      BY <1>1, <1>3, OrderingIsListing, SeqMonotonic
<1>5. DOMAIN ready' = 1 .. Len(ready')
      BY <1>4, LenProperties
<1>6. /\ pc = "idle" /\ workflow' = w /\ pc' = "loop" /\ rejected' = {}
      /\ completed' = {} /\ errors' = [t \in {} |-> "rejected"]
      /\ UNCHANGED <<runtimeVars, current>>
      BY DEF Submit
<1>7. current = NoTask /\ taskStream = NoStream
      BY <1>6 DEF WInv, Phase
<1>8. RuntimeTypeOK' /\ Counted' /\ UNCHANGED taskStream
      BY <1>6, StutterCounted DEF WInv, TypeOK
<1>9. TypeOK'
      BY <1>4, <1>6, <1>7, <1>8 DEF TypeOK
<1>10. Phase'
      BY <1>6, <1>7, <1>8 DEF Phase
<1>11. Placed'
  <2>1. DependenciesRespected'
        BY <1>4, <1>6, <1>7 DEF DependenciesRespected
  <2>2. OnePlaceEach'
        BY <1>2, <1>4, <1>5, <1>6, <1>7, WorkflowConstants DEF OnePlaceEach, Once
  <2>3. RunnableNotForgotten'
        BY <1>4, <1>6 DEF RunnableNotForgotten
  <2> QED BY <2>1, <2>2, <2>3 DEF Placed
<1> QED BY <1>8, <1>9, <1>10, <1>11 DEF WInv

LEMMA WInvFinish == ASSUME WInv, Finish PROVE WInv'
<1>1. RuntimeTypeOK' /\ Counted' /\ UNCHANGED taskStream
      BY StutterCounted DEF Finish, WInv, TypeOK
<1>2. TypeOK'
      BY <1>1 DEF Finish, WInv, TypeOK
<1>3. Phase'
      BY <1>1 DEF Finish, WInv, Phase
<1>4. Placed'
      BY DEF Finish, WInv, Placed, DependenciesRespected, OnePlaceEach, RunnableNotForgotten
<1> QED BY <1>1, <1>2, <1>3, <1>4 DEF WInv

LEMMA WInvLlmReturns == ASSUME WInv, LlmReturns PROVE WInv'
<1>1. PICK phrase \in Answers : Settle(current, OutcomeOf(phrase), ready, rejected)
      BY DEF LlmReturns
<1>2. FinishTask /\ taskStream # NoStream /\ current # NoTask
      BY DEF LlmReturns, WInv, Phase
<1>3. RuntimeTypeOK' /\ Counted' /\ taskStream' = NoStream
      BY <1>2, FinishTaskCounted DEF WInv, TypeOK
<1>4. DOMAIN ready = 1 .. Len(ready)
      BY LenProperties DEF WInv, TypeOK
<1>5. Taken(current, ready, rejected)
      BY <1>2, <1>4
      DEF Taken, Once, WInv, TypeOK, Phase, Placed, OnePlaceEach, DependenciesRespected
<1> QED BY <1>1, <1>3, <1>5, WInvSettle DEF OutcomeOf

LEMMA WInvIterate == ASSUME WInv, Iterate PROVE WInv'
<1>1. CASE ready # <<>> /\ RunTask(Head(ready), Tail(ready), rejected)
  <2>1. pc = "loop" /\ Taken(Head(ready), Tail(ready), rejected)
        BY <1>1, TakeReady DEF Iterate
  <2>2. Range(ready) = Range(Tail(ready)) \cup {Head(ready)}
    <3>1. ready \in Seq(workflow.tasks) /\ DOMAIN ready = 1 .. Len(ready)
          BY LenProperties DEF WInv, TypeOK
    <3>2. Once(ready)
          BY <3>1 DEF WInv, Placed, OnePlaceEach, Once
    <3> QED BY <1>1, <3>1, <3>2, HeadLeavesTail
  <2> QED BY <1>1, <2>1, <2>2, WInvRunTask
<1>2. ASSUME Retry, NEW s \in Orderings(rejected), RunTask(Head(s), Tail(s), {})
      PROVE  WInv'
  <2>1. pc = "loop" /\ s # <<>> /\ Taken(Head(s), Tail(s), {})
        BY <1>2, TakeRejected DEF Iterate
  <2>2. s \in Seq(rejected) /\ Range(s) = rejected /\ Once(s)
        BY TasksFinite, OrderingIsListing DEF WInv, TypeOK
  <2>3. Range(s) = Range(Tail(s)) \cup {Head(s)}
        BY <2>1, <2>2, HeadLeavesTail
  <2>4. Range(ready) = {}
        BY <1>2 DEF Retry, Range
  <2> QED BY <1>2, <2>1, <2>2, <2>3, <2>4, WInvRunTask
<1> QED BY <1>1, <1>2 DEF Iterate

LEMMA WInvNext == ASSUME WInv, [Next]_vars PROVE WInv'
<1> USE DEF WInv, TypeOK
<1>1. CASE Caller
      BY <1>1, CallerCounted, WInvRuntimeStep DEF Caller
<1>2. CASE Shutdown
      BY <1>2, ShutdownCounted, WInvRuntimeStep DEF Shutdown
<1>3. CASE Cooldown
      BY <1>3, CooldownCounted, WInvRuntimeStep DEF Cooldown
<1>4. CASE UNCHANGED vars
      BY <1>4, StutterCounted, WInvRuntimeStep DEF vars
<1> QED BY <1>1, <1>2, <1>3, <1>4, WInvSubmit, WInvIterate, WInvLlmReturns, WInvFinish
        DEF Next

LEMMA Invariant == Spec => []WInv
BY WInvInit, WInvNext, PTL DEF Spec

-----------------------------------------------------------------------------
(* The theorems.                                                           *)

\* The runtime's and the loop's variables keep their types.
THEOREM TypeCorrect == Spec => []TypeOK
BY Invariant, PTL DEF WInv

\* Whatever callers, backend and loop do, at most max_active_agents are counted.
THEOREM AdmissionHolds == Spec => []AdmissionBound
<1>1. WInv => AdmissionBound
      BY DEF WInv, Counted
<1> QED BY <1>1, Invariant, PTL

\* Capacity that was given back is never still counted as taken.
THEOREM CountIsNoMoreThanLive == Spec => []NeverOvercounts
<1>1. WInv => NeverOvercounts
      BY DEF WInv, Counted
<1> QED BY <1>1, Invariant, PTL

\* No task is queued, run or completed before all it depends on completed.
THEOREM DependenciesHold == Spec => []DependenciesRespected
<1>1. WInv => DependenciesRespected
      BY DEF WInv, Placed
<1> QED BY <1>1, Invariant, PTL

\* No task is queued twice, run twice at once or run again after it completed.
THEOREM OneTaskOnePlace == Spec => []OnePlaceEach
<1>1. WInv => OnePlaceEach
      BY DEF WInv, Placed
<1> QED BY <1>1, Invariant, PTL

\* A task whose dependencies are met is never dropped while the workflow runs:
\* it waits, runs or has its outcome, however often it was rejected.
THEOREM NothingRunnableIsLost == Spec => []RunnableNotForgotten
<1>1. WInv => RunnableNotForgotten
      BY DEF WInv, Placed, RunnableNotForgotten
<1> QED BY <1>1, Invariant, PTL

\* When run_workflow returns, every task that could run has a result or an
\* error, also when the queue was given up.
THEOREM OutcomesReported == Spec => []OutcomeReported
<1>1. WInv => OutcomeReported
  <2>1. ASSUME WInv, pc = "idle"
        PROVE  Range(ready) = {} /\ current = NoTask /\ rejected \subseteq DOMAIN errors
        BY <2>1 DEF WInv, Phase, Range
  <2> QED BY <2>1, TasksFinite DEF WInv, Placed, RunnableNotForgotten, OutcomeReported
<1> QED BY <1>1, Invariant, PTL

\* When the instance of a finished task is never collected, the agents in use,
\* and not just those counted, are at most max_active_agents.
THEOREM CapacityHolds == ASSUME StaleBound = 0 PROVE Spec => []LiveWithinLimit
<1>1. Init => AllCounted
      BY AllCountedInit DEF Init
<1>2. WInv /\ AllCounted /\ [Next]_vars => AllCounted'
  <2> SUFFICES ASSUME WInv, AllCounted, [Next]_vars PROVE AllCounted'
      OBVIOUS
  <2>1. RuntimeTypeOK /\ Phase
        BY DEF WInv, TypeOK
  <2>2. CASE Iterate
    <3>1. PICK t, rest, waiting : RunTask(t, rest, waiting)
          BY <2>2 DEF Iterate
    <3>2. taskStream = NoStream
          BY <2>1, <2>2 DEF Iterate, Phase
    <3>3. CASE StartTask(workflow.agent[t])
          BY <2>1, <3>2, <3>3, AllCountedStart
    <3>4. CASE UNCHANGED <<instances, taskStream, activeCount>>
          BY <3>4, AllCountedFrame
    <3> QED BY <3>1, <3>3, <3>4 DEF RunTask, TaskWithoutLlm, runtimeVars
  <2>3. CASE LlmReturns
        BY <2>1, <2>3, AllCountedFinish DEF LlmReturns, Phase
  <2>4. CASE Caller
        BY <2>1, <2>4, AllCountedCaller DEF Caller
  <2>5. CASE Shutdown
    <3>1. taskStream = NoStream
          BY <2>1, <2>5 DEF Shutdown, Phase
    <3> QED BY <2>5, <3>1, AllCountedShutdown DEF Shutdown
  <2>6. CASE UNCHANGED <<instances, taskStream, activeCount>>
        BY <2>6, AllCountedFrame
  <2> QED BY <2>2, <2>3, <2>4, <2>5, <2>6
          DEF Next, Submit, Finish, Cooldown, CooldownExpires, vars, runtimeVars
<1>3. WInv /\ AllCounted => LiveWithinLimit
  <2> SUFFICES ASSUME WInv, AllCounted PROVE LiveWithinLimit
      OBVIOUS
  <2>1. RuntimeTypeOK /\ AdmissionBound
        BY DEF WInv, TypeOK, Counted
  <2>2. Live \in Nat
        BY <2>1, HeldFinite DEF Live
  <2> QED BY <2>1, <2>2, RuntimeConstants
          DEF RuntimeTypeOK, AdmissionBound, AllCounted, LiveWithinLimit
<1> QED BY <1>1, <1>2, <1>3, Invariant, PTL DEF Spec
=============================================================================
