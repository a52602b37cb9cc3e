------------------------------ MODULE Workflow ------------------------------
(***************************************************************************)
(* run_workflow() of AgentRuntime: a loop that takes ready tasks one by    *)
(* one, runs each through admission control and the LLM backend, queues    *)
(* the rejected ones for another try, and makes ready the tasks whose      *)
(* dependencies have completed.                                            *)
(*                                                                         *)
(* The loop is one thread: a step is an iteration, cut in two where the    *)
(* backend is called, which may call the runtime itself.  A workflow is    *)
(* its task map (tasks of equal id are one already); _results holds the    *)
(* completed tasks and nothing else.  Where the code appends to ready in   *)
(* the order of the task map or of a set, the order is arbitrary.          *)
(***************************************************************************)
EXTENDS AgentRuntime, Sequences, Functions

CONSTANTS
  Tasks,       \* task ids
  Workflows,   \* records of tasks, and their deps and agent: see below
  Answers,     \* whether a task's text contains "Admission rejected"
  NoTask

ASSUME WorkflowConstants ==
  /\ IsFiniteSet(Tasks) /\ NoTask \notin Tasks
  /\ \A w \in Workflows :
       /\ w.tasks \in SUBSET Tasks
       /\ w.deps \in [w.tasks -> SUBSET Tasks]
       /\ w.agent \in [w.tasks -> Agents]
  /\ Answers \in SUBSET BOOLEAN

VARIABLES
  workflow,    \* the workflow being run, or run last
  pc,          \* "idle", at the loop's head "loop", in the backend "llm"
  ready,       \* ready: sequence of task ids
  rejected,    \* rejected
  completed,   \* completed, and the keys of results
  errors,      \* errors: task id -> "rejected" or "unregistered"
  current      \* tid, while the backend runs it

workflowVars == <<workflow, pc, ready, rejected, completed, errors, current>>
vars == <<runtimeVars, workflowVars>>

\* The sequences that list each element of S once.
Orderings(S) == Bijection(1 .. Cardinality(S), S)

EmptyWorkflow ==
  [tasks |-> {}, deps |-> [t \in {} |-> {}], agent |-> [t \in {} |-> NoTask]]

Init ==
  /\ RuntimeInit
  /\ workflow = EmptyWorkflow
  /\ pc = "idle"
  /\ ready = <<>>
  /\ rejected = {}
  /\ completed = {}
  /\ errors = [t \in {} |-> "rejected"]
  /\ current = NoTask

\* run_workflow() is called.
Submit(w) ==
  /\ pc = "idle"
  /\ workflow' = w
  /\ pc' = "loop"
  /\ \E s \in Orderings({t \in w.tasks : w.deps[t] = {}}) : ready' = s
  /\ rejected' = {}
  /\ completed' = {}
  /\ errors' = [t \in {} |-> "rejected"]
  /\ UNCHANGED <<runtimeVars, current>>

\* Mutant: retries whether or not admission is throttled.
RetryAlways == ready = <<>> /\ rejected # {}

\* Rejected tasks are tried again once nothing else is ready and admission is
\* not throttled; when it is, the loop breaks.
Retry == ready = <<>> /\ rejected # {} /\ ~throttled

Finish ==
  /\ pc = "loop"
  /\ ready = <<>> /\ ~Retry
  /\ pc' = "idle"
  /\ UNCHANGED <<runtimeVars, workflow, ready, rejected, completed, errors, current>>

\* Mutants: one completed dependency is enough; a task may be queued twice; only
\* tasks that depend on the one just settled are looked at.
EligibleByAnyDependency(t, done, waiting, rest) ==
  {x \in workflow.tasks \ (done \cup waiting) :
     /\ workflow.deps[x] = {} \/ workflow.deps[x] \cap done # {}
     /\ x \notin Range(rest)}
EligibleAgain(t, done, waiting, rest) ==
  {x \in workflow.tasks \ (done \cup waiting) : workflow.deps[x] \subseteq done}
EligibleSuccessors(t, done, waiting, rest) ==
  {x \in workflow.tasks \ (done \cup waiting) :
     t \in workflow.deps[x] /\ workflow.deps[x] \subseteq done /\ x \notin Range(rest)}

\* The tasks that are made ready after t was settled.
Eligible(t, done, waiting, rest) ==
  {x \in workflow.tasks \ (done \cup waiting) :
     workflow.deps[x] \subseteq done /\ x \notin Range(rest)}

\* Mutant: a rejection is not recorded as an error.
ErrorsUnlessRejected(t, outcome) ==
  IF outcome # "unregistered" THEN errors
  ELSE [x \in DOMAIN errors \cup {t} |-> IF x = t THEN outcome ELSE errors[x]]

\* errors once t was settled; a later result does not remove an earlier error.
ErrorsAfter(t, outcome) ==
  IF outcome = "result" THEN errors
  ELSE [x \in DOMAIN errors \cup {t} |-> IF x = t THEN outcome ELSE errors[x]]

\* The end of an iteration: what became of task t, and the tasks this makes
\* ready, put behind rest.
Settle(t, outcome, rest, waiting) ==
  /\ completed' = completed \cup {x \in {t} : outcome = "result"}
  /\ rejected' = waiting \cup {x \in {t} : outcome = "rejected"}
  /\ errors' = ErrorsAfter(t, outcome)
  /\ \E s \in Orderings(Eligible(t, completed', rejected', rest)) :
       ready' = rest \o s
  /\ pc' = "loop"
  /\ current' = NoTask
  /\ UNCHANGED workflow

\* What run_workflow makes of a text: the phrase in it means rejection.
OutcomeOf(phrase) == IF phrase THEN "rejected" ELSE "result"

\* One iteration on task t, with the rest of the queue and the tasks that wait.
RunTask(t, rest, waiting) ==
  LET a == workflow.agent[t] IN
  \/ /\ a \notin agents
     /\ Settle(t, "unregistered", rest, waiting)
     /\ UNCHANGED runtimeVars
  \/ /\ a \in agents /\ ~ShouldAdmit
     /\ Settle(t, "rejected", rest, waiting)
     /\ UNCHANGED runtimeVars
  \/ /\ TaskWithoutLlm(a)
     /\ \E phrase \in Answers : Settle(t, OutcomeOf(phrase), rest, waiting)
  \/ /\ StartTask(a)
     /\ current' = t
     /\ ready' = rest
     /\ rejected' = waiting
     /\ pc' = "llm"
     /\ UNCHANGED <<workflow, completed, errors>>

Iterate ==
  /\ pc = "loop"
  /\ \/ /\ ready # <<>>
        /\ RunTask(Head(ready), Tail(ready), rejected)
     \/ /\ Retry
        /\ \E s \in Orderings(rejected) : RunTask(Head(s), Tail(s), {})

\* The backend returns a text, or raises one: both are the task's result.
LlmReturns ==
  /\ pc = "llm"
  /\ FinishTask
  /\ \E phrase \in Answers : Settle(current, OutcomeOf(phrase), ready, rejected)

Caller ==
  /\ pc \in {"idle", "llm"}
  /\ CallerStep
  /\ UNCHANGED workflowVars

Shutdown ==
  /\ pc = "idle"
  /\ RuntimeShutdown
  /\ UNCHANGED workflowVars

Cooldown == CooldownExpires /\ UNCHANGED workflowVars

Next ==
  \/ \E w \in Workflows : Submit(w)
  \/ Iterate
  \/ LlmReturns
  \/ Finish
  \/ Caller
  \/ Shutdown
  \/ Cooldown

Spec == Init /\ [][Next]_vars

\* The thread in run_workflow keeps running, the backend answers every call and
\* time passes.
Fairness ==
  /\ WF_vars(Iterate) /\ WF_vars(Finish) /\ WF_vars(LlmReturns)
  /\ WF_vars(Cooldown)

FairSpec == Spec /\ Fairness

-----------------------------------------------------------------------------
(* Properties.                                                             *)

TypeOK ==
  /\ RuntimeTypeOK
  /\ workflow \in Workflows \cup {EmptyWorkflow}
  /\ pc \in {"idle", "loop", "llm"}
  /\ ready \in Seq(workflow.tasks)
  /\ rejected \subseteq workflow.tasks
  /\ completed \subseteq workflow.tasks
  /\ DOMAIN errors \subseteq workflow.tasks
  /\ errors \in [DOMAIN errors -> {"rejected", "unregistered"}]
  /\ current \in workflow.tasks \cup {NoTask}

\* A task is queued, run or completed only when all it depends on completed.
DependenciesRespected ==
  \A t \in Range(ready) \cup rejected \cup completed \cup ({current} \ {NoTask}) :
    workflow.deps[t] \subseteq completed

\* A task is in one place at a time, and once in the queue: no completed or
\* rejected task is run behind the caller's back, none is run twice.
OnePlaceEach ==
  /\ \A i, j \in DOMAIN ready : ready[i] = ready[j] => i = j
  /\ Range(ready) \cap (rejected \cup completed \cup {current}) = {}
  /\ rejected \cap (completed \cup {current}) = {}
  /\ current \notin completed

\* A task whose dependencies have all completed is never forgotten: it has
\* completed, runs, is queued or waits for another try.
RunnableNotForgotten ==
  \A t \in workflow.tasks :
    workflow.deps[t] \subseteq completed =>
      t \in completed \cup rejected \cup Range(ready) \cup {current}

\* When run_workflow returns, a task it could have run is in the results or has
\* an error, and without results only because admission was throttled.
OutcomeReported ==
  pc = "idle" =>
    \A t \in workflow.tasks :
      workflow.deps[t] \subseteq completed =>
        t \in completed \/ (t \in rejected /\ t \in DOMAIN errors)

\* Every workflow that is submitted comes to an end.
WorkflowTerminates == pc # "idle" ~> pc = "idle"

Unregistered == \E t \in workflow.tasks : workflow.agent[t] \notin agents

\* When no text contains the phrase that means rejection, a workflow comes to an
\* end unless one of its agents stays unregistered or, from some time on, all
\* capacity is taken by instances that nobody collects.
TerminatesWhenServed ==
  []<>(pc = "idle") \/ <>[](Unregistered \/ activeCount >= MaxActive)
=============================================================================
