-------------------------- MODULE MCDynamicDispatch --------------------------
(***************************************************************************)
(* A plan of one dispatch step and a reviewer step beside it.              *)
(***************************************************************************)
EXTENDS DynamicDispatch, TLC

CONSTANTS tool, review

PlanKind        == tool :> "dispatch" @@ review :> "reviewer"
PlanDependsOn   == tool :> {} @@ review :> {}
PlanMaxAttempts == tool :> 1 @@ review :> 1
PlanExpires     == tool :> 1

PlanBudgets ==
    [provider_attempts |-> 1, check_attempts |-> 0, dispatch_attempts |-> 1,
     repair_iterations |-> 0, concurrent_steps |-> 2, runtime_seconds |-> 1,
     event_bytes |-> 0, artifact_bytes |-> 2, artifact_edges |-> 2,
     external_operations |-> 0]

=============================================================================
