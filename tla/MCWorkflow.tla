----------------------------- MODULE MCWorkflow -----------------------------
(***************************************************************************)
(* Workflows of up to three tasks: a diamond's half with a join, a chain,  *)
(* a task whose dependency does not exist beside one that can run.         *)
(***************************************************************************)
EXTENDS Workflow, TLC

CONSTANTS a1, a2, i1, i2, i3, t1, t2, t3

MCAgents == {a1, a2}
MCInstanceIds == {i1, i2}
MCThreeInstanceIds == {i1, i2, i3}
MCTasks == {t1, t2, t3}

Join ==
  [tasks |-> {t1, t2, t3},
   deps  |-> (t1 :> {}) @@ (t2 :> {}) @@ (t3 :> {t1, t2}),
   agent |-> (t1 :> a1) @@ (t2 :> a2) @@ (t3 :> a1)]

Chain ==
  [tasks |-> {t1, t2},
   deps  |-> (t1 :> {}) @@ (t2 :> {t1}),
   agent |-> (t1 :> a1) @@ (t2 :> a1)]

Dangling ==
  [tasks |-> {t1, t2},
   deps  |-> (t1 :> {}) @@ (t2 :> {t3}),
   agent |-> (t1 :> a2) @@ (t2 :> a1)]

MCWorkflows == {Join, Chain, Dangling}
MCOneWorkflow == {Chain}
=============================================================================
