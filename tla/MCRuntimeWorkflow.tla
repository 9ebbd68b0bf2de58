-------------------------- MODULE MCRuntimeWorkflow --------------------------
(***************************************************************************)
(* A plan of a builder step, the check of what it built, and a reviewer    *)
(* step that needs neither: two attempts of the builder, one of the others.*)
(***************************************************************************)
EXTENDS RuntimeWorkflow, TLC

CONSTANTS build, verify, review

PlanKind        == build :> "builder" @@ verify :> "check" @@ review :> "reviewer"
PlanDependsOn   == build :> {} @@ verify :> {build} @@ review :> {}
PlanMaxAttempts == build :> 2 @@ verify :> 1 @@ review :> 1

PlanBudgets ==
    [provider_attempts |-> 3, check_attempts |-> 1, dispatch_attempts |-> 0,
     repair_iterations |-> 0, concurrent_steps |-> 2, runtime_seconds |-> 3,
     event_bytes |-> 1, artifact_bytes |-> 1, artifact_edges |-> 1,
     external_operations |-> 1]

==============================================================================
