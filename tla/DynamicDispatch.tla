--------------------------- MODULE DynamicDispatch ---------------------------
(***************************************************************************)
(* Governed dispatch steps of a runtime workflow.  A policy is registered  *)
(* for the step, a decision is imported under it, an activation allocates  *)
(* a Run B, and a worker process executes it: one transaction to claim it, *)
(* the call of the registered executor outside of any transaction, one     *)
(* read to see whether it was asked to cancel, and one transaction that    *)
(* writes the receipt, the step and the parent workflow.  Other workers,   *)
(* a revocation and every operation of the parent workflow step in         *)
(* between; a worker may die anywhere.                                     *)
(*                                                                         *)
(* A dispatch step has at most one activation here: the step leaves        *)
(* "pending" with the first, and nothing returns it there.                 *)
(***************************************************************************)
EXTENDS RuntimeWorkflow

CONSTANTS
    Worker,         \* the processes that call run_next_activation
    PolicyExpires,  \* expires_at of each dispatch step's policy
    ReceiptBytes,   \* the size of a dispatch receipt
    OutputBytes,    \* the size of an executor's output
    MaxDeaths       \* bound: the number of worker deaths

ASSUME DispatchConstantsOK ==
    /\ PolicyExpires \in [DispatchStep -> Nat]
    /\ ReceiptBytes \in Nat
    /\ OutputBytes \in Nat
    /\ MaxDeaths \in Nat

VARIABLES
    policy,         \* policy_status of each dispatch step's policy
    decision,       \* the dispatch steps whose decision is recorded
    activation,     \* the dynamic_dispatch_activations row of each step
    worker,         \* each worker: where it is in execute_activation
    executed,       \* history: how often each step's executor was called
    deaths          \* bound: the number of worker deaths so far

dispatchVars == <<policy, decision, activation, worker, executed, deaths>>
allVars      == <<vars, dispatchVars>>

-----------------------------------------------------------------------------
(* Records                                                                 *)

Results  == {"output", "invalid_output"}
Statuses == {"completed", "executed_output_invalid", "executor_failed",
             "cancelled"}

\* What a receipt says: its status and execution_occurred.
NoVerdict == [status |-> None, occurred |-> FALSE]
Verdict   == [status : Statuses, occurred : BOOLEAN]

\* An abort that claims the tool was running (a mutant).
AbortedRunning == [status |-> "cancelled", occurred |-> TRUE]

Aborted == [status |-> "cancelled", occurred |-> FALSE]
Cancelled == [status |-> "cancelled", occurred |-> TRUE]
Raised == [status |-> "executor_failed", occurred |-> TRUE]
NoTool == [status |-> "executor_failed", occurred |-> FALSE]
Ran(result) ==
    [status |-> IF result = "output" THEN "completed"
                                     ELSE "executed_output_invalid",
     occurred |-> TRUE]

NotStarted == -1

NoActivation == [status |-> "absent", cancel |-> FALSE, started |-> NotStarted,
                 receipt |-> NoVerdict]

Allocated == [NoActivation EXCEPT !.status = "activated"]

Unfinished(d) ==
    activation[d].status # "absent" /\ activation[d].receipt = NoVerdict

Idle == [pc |-> "idle", at |-> None, result |-> None, verdict |-> NoVerdict]

\* The status of the dispatch step and of its step receipt.
StepOutcome(v) ==
    CASE v.status = "completed" -> "succeeded"
      [] v.status = "cancelled" -> "cancelled"
      [] OTHER -> "failed"

-----------------------------------------------------------------------------
(* Control plane                                                           *)

\* register_policy: once for a step, whatever the workflow's state.
RegisterPolicy(d) ==
    /\ workflow.state # "absent"
    /\ policy[d] = None
    /\ policy' = [policy EXCEPT ![d] = "active"]
    /\ UNCHANGED <<vars, decision, activation, worker, executed, deaths>>

\* import_decision: once for a step, under the policy's current epoch, which a
\* revoked policy has too.
ImportDecision(d) ==
    /\ policy[d] # None
    /\ d \notin decision
    /\ decision' = decision \cup {d}
    /\ UNCHANGED <<vars, policy, activation, worker, executed, deaths>>

\* The activations revoke_policy asks to cancel.
Revocable(d) == activation[d].status \in {"activated", "executing"}

\* revoke_policy
RevokePolicy(d) ==
    /\ policy[d] = "active"
    /\ policy' = [policy EXCEPT ![d] = "revoked"]
    /\ activation' = [activation EXCEPT ![d] =
            IF Revocable(d)
            THEN [@ EXCEPT !.cancel = TRUE, !.status = "cancellation_requested"]
            ELSE @]
    /\ UNCHANGED <<vars, decision, worker, executed, deaths>>

DispatchSpent(d) ==
    \/ counters.dispatch_attempts >= Budgets.dispatch_attempts
    \/ counters.active_steps >= Budgets.concurrent_steps
    \/ step[d].attempts >= MaxAttempts[d]

\* activate under a new idempotency key: everything refused leaves no trace.
ActivateDispatch(d) ==
    /\ workflow.state \in ActiveStates
    /\ policy[d] = "active"
    /\ clock < PolicyExpires[d]
    /\ d \in decision
    /\ Ready(d)
    /\ ~DispatchSpent(d)
    /\ activation' = [activation EXCEPT ![d] = Allocated]
    /\ counters' = [counters EXCEPT !.dispatch_attempts = @ + 1,
                                    !.active_dispatches = @ + 1,
                                    !.active_steps = @ + 1]
    /\ step' = [step EXCEPT ![d] =
            [state |-> "running", attempts |-> @.attempts + 1]]
    /\ workflow' = [workflow EXCEPT !.state = "running"]
    /\ UNCHANGED <<clock, claim, edge, ended, policy, decision, worker,
                   executed, deaths>>

-----------------------------------------------------------------------------
(* Workers                                                                 *)

\* The compare-and-set on the status is dropped (a mutant).
StartableTwice(d) == activation[d].status \in {"activated", "executing"}

Startable(d) == activation[d].status = "activated"

\* execute_activation, first transaction: an activation that was asked to
\* cancel goes to its receipt, whoever asked it and whoever may be running it;
\* an activated one is claimed.  (One with a receipt is returned, one that is
\* executing is refused.)
Begin(x, d) ==
    /\ worker[x].pc = "idle"
    /\ Unfinished(d)
    /\ \/ /\ Startable(d)
          /\ activation' = [activation EXCEPT
                    ![d].status = "executing", ![d].started = clock]
          /\ worker' = [worker EXCEPT ![x] = [Idle EXCEPT !.pc = "claimed", !.at = d]]
       \/ /\ ~Startable(d)
          /\ activation[d].status = "cancellation_requested"
          /\ worker' = [worker EXCEPT ![x] =
                [Idle EXCEPT !.pc = "finish", !.at = d, !.verdict = Aborted]]
          /\ UNCHANGED activation
    /\ UNCHANGED <<vars, policy, decision, executed, deaths>>

Worked(x) == UNCHANGED <<vars, policy, decision, activation, deaths>>

\* The registry of the worker's process does not hold the tool.
ToolMissing(x) ==
    /\ worker[x].pc = "claimed"
    /\ worker' = [worker EXCEPT ![x].pc = "finish", ![x].verdict = NoTool]
    /\ UNCHANGED executed
    /\ Worked(x)

\* tool.executor(arguments) is called ...
Invoke(x) ==
    /\ worker[x].pc = "claimed"
    /\ executed' = [executed EXCEPT ![worker[x].at] = @ + 1]
    /\ worker' = [worker EXCEPT ![x].pc = "running"]
    /\ Worked(x)

\* ... and returns,
Return(x, result) ==
    /\ worker[x].pc = "running"
    /\ worker' = [worker EXCEPT ![x].pc = "look", ![x].result = result]
    /\ UNCHANGED executed
    /\ Worked(x)

\* ... or raises.
Raise(x) ==
    /\ worker[x].pc = "running"
    /\ worker' = [worker EXCEPT ![x].pc = "finish", ![x].verdict = Raised]
    /\ UNCHANGED executed
    /\ Worked(x)

\* The read transaction after the executor's return.
Look(x) ==
    /\ worker[x].pc = "look"
    /\ worker' = [worker EXCEPT
            ![x].pc = "finish",
            ![x].verdict = IF activation[worker[x].at].cancel
                           THEN Cancelled ELSE Ran(worker[x].result)]
    /\ UNCHANGED executed
    /\ Worked(x)

\* A worker writes its receipt whatever is there (a mutant).
FinishableAlways(d) == TRUE

\* A worker writes its receipt only while its claim stands (a mutant).
FinishableExecuting(d) == activation[d].status = "executing"

Finishable(d) == Unfinished(d)

\* Dispatches stay counted as active (a mutant).
FinishedCountersKept(d, v) == [counters EXCEPT !.active_steps = @ - 1]

FinishedCounters(d, v) ==
    LET started == activation[d].started
        elapsed == IF started = NotStarted THEN 0 ELSE clock - started
        outputs == IF v.status = "completed" THEN 1 ELSE 0
    IN  [counters EXCEPT
            !.active_dispatches = @ - 1,
            !.active_steps = @ - 1,
            !.dispatch_runtime = @ + elapsed,
            !.runtime_seconds = @ + elapsed,
            !.artifact_bytes = @ + ReceiptBytes + outputs * OutputBytes,
            !.artifact_edges = @ + 1 + outputs]

DispatchEdges(d, v) ==
    {[step |-> d, attempt |-> step[d].attempts, role |-> role] :
        role \in {"dispatch_receipt"}
                \cup (IF v.status = "completed" THEN {"dispatch_output"} ELSE {})}

\* The outcome of the step as the parent's state (a mutant).
ParentStateCopied(v) == StepOutcome(v)

\* The parent's state after a dispatch, which _finish_activation writes
\* without a look at the state the parent is in.
ParentState(v) ==
    IF v.status = "completed" THEN "running" ELSE StepOutcome(v)

\* _finish_activation: the first worker to come here writes the receipt.
Finish(x) ==
    /\ worker[x].pc = "finish"
    /\ worker' = [worker EXCEPT ![x] = Idle]
    /\ LET d == worker[x].at
           v == worker[x].verdict
           c == FinishedCounters(d, v)
           en == [ended EXCEPT ![d] = StepOutcome(v)]
           ed == edge \cup DispatchEdges(d, v)
       IN  IF Finishable(d)
           THEN /\ activation' = [activation EXCEPT
                        ![d].status = v.status, ![d].receipt = v]
                /\ counters' = c
                /\ ended' = en
                /\ edge' = ed
                /\ step' = [step EXCEPT ![d].state = StepOutcome(v)]
                /\ workflow' = Entering(ParentState(v), c, claim, en, ed)
                /\ UNCHANGED <<clock, claim>>
           ELSE UNCHANGED <<vars, activation>>
    /\ UNCHANGED <<policy, decision, executed, deaths>>

\* A worker process ends anywhere in execute_activation (or leaves it with the
\* error of a service without a registry), and another is started.
Die(x) ==
    /\ deaths < MaxDeaths
    /\ worker[x].pc # "idle"
    /\ deaths' = deaths + 1
    /\ worker' = [worker EXCEPT ![x] = Idle]
    /\ UNCHANGED <<vars, policy, decision, activation, executed>>

-----------------------------------------------------------------------------

DispatchInit ==
    /\ Init
    /\ policy = [d \in DispatchStep |-> None]
    /\ decision = {}
    /\ activation = [d \in DispatchStep |-> NoActivation]
    /\ worker = [x \in Worker |-> Idle]
    /\ executed = [d \in DispatchStep |-> 0]
    /\ deaths = 0

WorkerStep(x) ==
    \/ ToolMissing(x)
    \/ Invoke(x)
    \/ \E result \in Results : Return(x, result)
    \/ Raise(x)
    \/ Look(x)
    \/ Finish(x)

DispatchNext ==
    \/ Next /\ UNCHANGED dispatchVars
    \/ \E d \in DispatchStep :
        \/ RegisterPolicy(d)
        \/ ImportDecision(d)
        \/ RevokePolicy(d)
        \/ ActivateDispatch(d)
        \/ \E x \in Worker : Begin(x, d)
    \/ \E x \in Worker : WorkerStep(x) \/ Die(x)

\* A worker that has begun goes on: the executor returns or raises.
DispatchFairness == \A x \in Worker : WF_allVars(WorkerStep(x))

DispatchSpec == DispatchInit /\ [][DispatchNext]_allVars /\ DispatchFairness

-----------------------------------------------------------------------------
(* Properties                                                              *)

DispatchTypeOK ==
    /\ TypeOK
    /\ policy \in [DispatchStep -> {None, "active", "revoked"}]
    /\ decision \subseteq DispatchStep
    /\ activation \in [DispatchStep ->
            [status : {"absent", "activated", "executing",
                       "cancellation_requested"} \cup Statuses,
             cancel : BOOLEAN, started : {NotStarted} \cup 0 .. MaxClock,
             receipt : {NoVerdict} \cup Verdict]]
    /\ worker \in [Worker ->
            [pc : {"idle", "claimed", "running", "look", "finish"},
             at : {None} \cup DispatchStep, result : {None} \cup Results,
             verdict : {NoVerdict} \cup Verdict]]

\* However many workers compete for an activation, die in it and come back,
\* and whatever is revoked meanwhile, the executor is called at most once.
ExecutedOnce == \A d \in DispatchStep : executed[d] <= 1

\* A receipt that says execution occurred has an executor's call behind it, and
\* the step, its step receipt, the artifact edges and the counters shared with
\* the provider claims say what the receipts say: a success is a completed
\* dispatch with its output recorded, active_dispatches counts the activations
\* without a receipt, dispatch_attempts all of them, and active_steps, until the
\* workflow has its receipt, both claims and dispatches.
DispatchAgrees ==
    LET unfinished == Cardinality({d \in DispatchStep : Unfinished(d)})
    IN  /\ \A d \in DispatchStep :
            LET v == activation[d].receipt
                roles == {e.role : e \in {f \in edge : f.step = d}}
            IN  IF v = NoVerdict
                THEN ended[d] = None /\ roles = {}
                ELSE /\ v.occurred => executed[d] = 1
                     /\ ended[d] = StepOutcome(v)
                     /\ step[d].state = StepOutcome(v)
                     /\ "dispatch_output" \in roles <=> v.status = "completed"
                     /\ "dispatch_receipt" \in roles
        /\ counters.active_dispatches = unfinished
        /\ counters.dispatch_attempts =
            Cardinality({d \in DispatchStep : activation[d].status # "absent"})
        /\ workflow.receipt = NoReceipt =>
            counters.active_steps = unfinished + Cardinality(ActiveClaims(claim))

\* Receipts are written once: a second worker's verdict on the same activation
\* changes neither its receipt nor the step receipt, and a dispatch that
\* finishes after the workflow has its frozen receipt does not rewrite that
\* (_freeze_receipt and _freeze_parent_receipt return early).
ReceiptsAreFinal ==
    [][ /\ \A d \in DispatchStep : activation[d].receipt # NoVerdict =>
            /\ activation'[d] = activation[d]
            /\ ended'[d] = ended[d]
        /\ workflow.receipt # NoReceipt => workflow'.receipt = workflow.receipt
      ]_allVars

\* Once a worker has claimed an activation it gets its receipt, unless a worker
\* dies; the cancellation of what is executing does not leave it without one.
ClaimedDispatchEnds ==
    \A d \in DispatchStep :
        (Unfinished(d) /\ activation[d].started # NotStarted)
            ~> (~Unfinished(d) \/ deaths > 0)

\* "not_started: execution_occurred=false, clean abort"
\* (docs/dynamic-dispatch/SEMANTICS.md): a receipt that says so is right.
NotStartedIsTrue ==
    \A d \in DispatchStep : activation[d].receipt = Aborted => executed[d] = 0

\* "Later updates/artifacts/outcomes ... never advance workflow state"
\* (docs/runtime-provider-workflow/README.md): a terminal state stays.
TerminalIsFinal ==
    [][workflow.state \in Terminal => workflow'.state = workflow.state]_allVars

=============================================================================
