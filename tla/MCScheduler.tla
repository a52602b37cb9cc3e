---------------------------- MODULE MCScheduler ----------------------------
(***************************************************************************)
(* Shares near both limits, shares that do not add up to one, and a policy *)
(* that leaves an engine out.                                              *)
(***************************************************************************)
EXTENDS Scheduler, TLC

MCPolicies ==
  {("llm" :> 9800) @@ ("vector" :> 200),
   ("llm" :> 6000) @@ ("vector" :> 5500),
   ("vector" :> 5000)}
=============================================================================
