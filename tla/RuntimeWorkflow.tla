--------------------------- MODULE RuntimeWorkflow ---------------------------
(***************************************************************************)
(* One runtime-provider workflow: the plan's steps, the attempts (claims)  *)
(* a host control plane activates for them under a lease, the metered      *)
(* budgets of the whole workflow, and the receipt frozen when it ends.     *)
(*                                                                         *)
(* Every operation of RuntimeWorkflowService is one BEGIN IMMEDIATE        *)
(* transaction, so each is one action.  Its clock reading is taken before  *)
(* the transaction has its lock: an operation may run with a reading that  *)
(* is up to Lag seconds old, whatever others did in between.               *)
(*                                                                         *)
(* The workflow is of contract version 2: the tables of its dispatch steps *)
(* (module DynamicDispatch) appear here as far as the receipt reads them.  *)
(***************************************************************************)
EXTENDS Integers, Sequences, FiniteSets, Functions

CONSTANTS
    Step,           \* the workflow_step_ids of the plan
    Kind,           \* their step_kind
    DependsOn,      \* their depends_on
    MaxAttempts,    \* their max_attempts
    Budgets,        \* the budgets of the plan
    LeaseSeconds,   \* the leases a claim or a renewal may ask for
    EventBytes,     \* the sizes of an event's payload
    ReportBytes,    \* the sizes of a check report
    MaxClock,       \* bound: the last instant of the clock
    Lag             \* bound: how old the clock reading of an operation may be

Kinds == {"builder", "reviewer", "repair", "check", "dispatch"}

IsA(s, kind) == Kind[s] = kind
ProviderStep == {s \in Step : Kind[s] \notin {"check", "dispatch"}}
CheckStep    == {s \in Step : IsA(s, "check")}
DispatchStep == {s \in Step : IsA(s, "dispatch")}
RepairStep   == {s \in Step : IsA(s, "repair")}

AttemptsOf(S) == SumFunctionOnSet(MaxAttempts, S)

\* validate_plan, as far as budgets and dependencies go: no plan that fails it
\* is stored.  The dependencies have no cycle: no set of steps in which each
\* waits for another of the set.  A repair repairs what a step it depends on
\* found.  The artifact edges are those of the plans modelled here: a report of
\* each check, a receipt and an output of each dispatch.
PlanIsValid ==
    /\ \A s \in Step : DependsOn[s] \subseteq Step
    /\ \A S \in SUBSET Step \ {{}} : \E s \in S : DependsOn[s] \cap S = {}
    /\ AttemptsOf(ProviderStep) <= Budgets.provider_attempts
    /\ AttemptsOf(CheckStep) <= Budgets.check_attempts
    /\ AttemptsOf(DispatchStep) <= Budgets.dispatch_attempts
    /\ Cardinality(RepairStep) <= Budgets.repair_iterations
    /\ \A s \in RepairStep :
            \E p \in DependsOn[s] : Kind[p] \in {"reviewer", "repair"}
    /\ Cardinality(CheckStep) + 2 * Cardinality(DispatchStep)
            <= Budgets.artifact_edges

ASSUME ConstantsOK ==
    /\ Step # {} /\ IsFiniteSet(Step)
    /\ Kind \in [Step -> Kinds]
    /\ DependsOn \in [Step -> SUBSET Step]
    /\ MaxAttempts \in [Step -> Nat \ {0}]
    /\ Budgets \in [provider_attempts : Nat, check_attempts : Nat,
            dispatch_attempts : Nat, repair_iterations : Nat,
            concurrent_steps : Nat \ {0}, runtime_seconds : Nat,
            event_bytes : Nat, artifact_bytes : Nat, artifact_edges : Nat,
            external_operations : Nat]
    /\ LeaseSeconds \subseteq Nat
    /\ EventBytes \subseteq Nat
    /\ ReportBytes \subseteq Nat
    /\ MaxClock \in Nat
    /\ Lag \in Nat

ASSUME PlanOK == PlanIsValid

VARIABLES
    clock,          \* time.time()
    workflow,       \* the runtime_workflows row: state and frozen receipt
    counters,       \* its counters_json
    step,           \* the runtime_workflow_steps table
    claim,          \* the runtime_workflow_claims table, in rowid order
    edge,           \* the runtime_artifact_edges table
    ended           \* parent_step_receipt_json of each dispatch step

tables == <<workflow, counters, step, claim, edge, ended>>
vars   == <<clock, workflow, counters, step, claim, edge, ended>>

-----------------------------------------------------------------------------
(* Records                                                                 *)

ActiveStates == {"pending", "running"}
Terminal     == {"completed", "failed", "cancelled", "timed_out"}
Outcomes     == {"succeeded", "failed", "cancelled", "timed_out", "unsupported"}
StepStates   == {"pending", "running"} \cup Outcomes
None         == "none"

Zero == [provider_attempts |-> 0, check_attempts |-> 0, active_steps |-> 0,
         repair_iterations |-> 0, runtime_seconds |-> 0, event_bytes |-> 0,
         artifact_bytes |-> 0, artifact_edges |-> 0, external_operations |-> 0,
         dispatch_attempts |-> 0, active_dispatches |-> 0,
         dispatch_runtime |-> 0]

\* A claim.  `bytes' and `tools' sum up the event records stored under it,
\* `outcome' is the status of its terminal record.
Claim == [step : Step, attempt : Nat,
          status : {"active", "stale_rejected"} \cup Outcomes,
          started : Nat, accounted : Nat, expires : Nat, sequence : Nat,
          bytes : Nat, tools : Nat, outcome : {None} \cup Outcomes]

NewClaim(s, attempt, now, lease) ==
    [step |-> s, attempt |-> attempt, status |-> "active", started |-> now,
     accounted |-> 0, expires |-> now + lease, sequence |-> 0, bytes |-> 0,
     tools |-> 0, outcome |-> None]

NoReceipt == [status |-> None]

ActiveClaims(cl) == {i \in DOMAIN cl : cl[i].status = "active"}

\* UPDATE runtime_workflow_claims ... WHERE status = 'active'
Withdrawn(cl, status) ==
    [i \in DOMAIN cl |->
        IF cl[i].status = "active" THEN [cl[i] EXCEPT !.status = status]
                                   ELSE cl[i]]

\* The clock readings an operation may run with.
Readings == {t \in 0 .. clock : clock - t <= Lag}

-----------------------------------------------------------------------------
(* The receipt                                                             *)

\* The step receipts: the terminal record of a claim, and of a dispatch.
StepReceipts(cl, en) ==
    {[step |-> cl[i].step, status |-> cl[i].outcome] :
            i \in {k \in DOMAIN cl : cl[k].outcome # None}}
      \cup {[step |-> s, status |-> en[s]] : s \in {d \in Step : en[d] # None}}

ReceiptOf(state, c, cl, en, ed) ==
    [status |-> state, steps |-> StepReceipts(cl, en), edges |-> ed,
     counters |-> c]

\* Freezing again at every terminal state (a mutant).
EnteringAnew(state, c, cl, en, ed) ==
    [state |-> state,
     receipt |-> IF state \in Terminal THEN ReceiptOf(state, c, cl, en, ed)
                                       ELSE workflow.receipt]

\* The workflow row in its new state; _freeze_receipt keeps the first receipt.
Entering(state, c, cl, en, ed) ==
    [state |-> state,
     receipt |-> IF state \in Terminal /\ workflow.receipt = NoReceipt
                 THEN ReceiptOf(state, c, cl, en, ed)
                 ELSE workflow.receipt]

-----------------------------------------------------------------------------
(* Metering                                                                *)

\* The running time of claim i that an operation at `now' has to account for.
Elapsed(i, now) == IF now > claim[i].started THEN now - claim[i].started ELSE 0

\* All of the elapsed time every time (a mutant).
DeltaFromStart(i, now) == Elapsed(i, now)

Delta(i, now) ==
    IF Elapsed(i, now) > claim[i].accounted
    THEN Elapsed(i, now) - claim[i].accounted ELSE 0

DeltaOf(I, now) == SumFunction([i \in I |-> Delta(i, now)])

\* Time charged by dispatches may have passed the budget already: that ends
\* nothing as long as no claim has time to account for.
OverRuntime(I, now) ==
    /\ DeltaOf(I, now) > 0
    /\ counters.runtime_seconds + DeltaOf(I, now) > Budgets.runtime_seconds

MeteredCounters(I, now) ==
    [counters EXCEPT !.runtime_seconds = @ + DeltaOf(I, now)]

MeteredClaims(I, now) ==
    [i \in DOMAIN claim |->
        IF i \in I
        THEN [claim[i] EXCEPT !.accounted = @ + Delta(i, now)]
        ELSE claim[i]]

\* _budget_exhausted: the workflow fails, and the transaction commits although
\* the caller gets an error.  c and cl are what it has changed before.
Exhaust(c, cl) ==
    LET c0 == [c EXCEPT !.active_steps = 0]
        cl0 == Withdrawn(cl, "stale_rejected")
    IN  /\ counters' = c0
        /\ claim' = cl0
        /\ workflow' = Entering("failed", c0, cl0, ended, edge)
        /\ UNCHANGED <<edge, ended>>

-----------------------------------------------------------------------------
(* Operations                                                              *)

\* create: the row, its counters and its steps.
Create ==
    /\ workflow.state = "absent"
    /\ workflow' = [workflow EXCEPT !.state = "pending"]
    /\ UNCHANGED <<clock, counters, step, claim, edge, ended>>

DependenciesMet(s) == \A d \in DependsOn[s] : step[d].state = "succeeded"

Ready(s) == step[s].state = "pending" /\ DependenciesMet(s)

AttemptCounter(s) ==
    IF s \in CheckStep THEN "check_attempts" ELSE "provider_attempts"

\* The attempts of the step itself are not looked at (a mutant).
AttemptsSpentInAll(s) ==
    \/ counters[AttemptCounter(s)] >= Budgets[AttemptCounter(s)]
    \/ Cardinality(ActiveClaims(claim)) >= Budgets.concurrent_steps

AttemptsSpent(s) ==
    \/ counters[AttemptCounter(s)] >= Budgets[AttemptCounter(s)]
    \/ Cardinality(ActiveClaims(claim)) >= Budgets.concurrent_steps
    \/ step[s].attempts >= MaxAttempts[s]

\* _activate under a new idempotency key.  (The same key again returns the
\* claim it made, and changes nothing.)
Activate(s, now, lease) ==
    /\ workflow.state \in ActiveStates
    /\ s \notin DispatchStep
    /\ Ready(s)
    /\ UNCHANGED clock
    /\ IF AttemptsSpent(s)
       THEN Exhaust(counters, claim) /\ UNCHANGED step
       ELSE /\ claim' = Append(claim,
                            NewClaim(s, step[s].attempts + 1, now, lease))
            /\ counters' = [counters EXCEPT
                    ![AttemptCounter(s)] = @ + 1,
                    !.active_steps = @ + 1,
                    !.repair_iterations = IF IsA(s, "repair") THEN @ + 1 ELSE @]
            /\ step' = [step EXCEPT ![s] =
                    [state |-> "running", attempts |-> @.attempts + 1]]
            /\ workflow' = [workflow EXCEPT !.state = "running"]
            /\ UNCHANGED <<edge, ended>>

\* Without the look at the claim's status (a mutant).
HoldsAnyStatus(i, now) ==
    /\ workflow.state \in ActiveStates
    /\ claim[i].outcome = None

\* _checked_claim: the workflow is active, the claim is, and its lease has not
\* run out.  The token makes the caller the one the claim was made for.
Holds(i, now) ==
    /\ workflow.state \in ActiveStates
    /\ claim[i].status = "active"
    /\ ~(claim[i].expires < now)

\* renew
Renew(i, now, lease) ==
    /\ Holds(i, now)
    /\ UNCHANGED <<clock, step>>
    /\ IF OverRuntime({i}, now)
       THEN Exhaust(counters, claim)
       ELSE /\ counters' = MeteredCounters({i}, now)
            /\ claim' = [MeteredClaims({i}, now) EXCEPT ![i].expires = now + lease]
            /\ UNCHANGED <<workflow, edge, ended>>

\* update with a record stored before: it is only metered.
Replay(i, now) ==
    /\ Holds(i, now)
    /\ claim[i].sequence > 0
    /\ UNCHANGED <<clock, step>>
    /\ IF OverRuntime({i}, now)
       THEN Exhaust(counters, claim)
       ELSE /\ counters' = MeteredCounters({i}, now)
            /\ claim' = MeteredClaims({i}, now)
            /\ UNCHANGED <<workflow, edge, ended>>

\* update with the next event.  The event's bytes are counted before the tool
\* summary is refused, and _budget_exhausted stores the counters.
Event(i, now, size, tool) ==
    /\ Holds(i, now)
    /\ tool => claim[i].step \notin CheckStep
    /\ UNCHANGED <<clock, step>>
    /\ LET cl == MeteredClaims({i}, now)
           c1 == MeteredCounters({i}, now)
           c2 == [c1 EXCEPT !.event_bytes = @ + size]
       IN  CASE OverRuntime({i}, now) -> Exhaust(counters, claim)
             [] ~OverRuntime({i}, now)
                /\ c2.event_bytes > Budgets.event_bytes -> Exhaust(c1, cl)
             [] ~OverRuntime({i}, now)
                /\ c2.event_bytes <= Budgets.event_bytes
                /\ tool /\ c2.external_operations >= Budgets.external_operations
                    -> Exhaust(c2, cl)
             [] OTHER ->
                LET n == IF tool THEN 1 ELSE 0
                IN  /\ counters' = [c2 EXCEPT !.external_operations = @ + n]
                    /\ claim' = [cl EXCEPT ![i].sequence = @ + 1,
                                           ![i].bytes = @ + size,
                                           ![i].tools = @ + n]
                    /\ UNCHANGED <<workflow, edge, ended>>

\* The outcome of the step as the state of the workflow (a mutant).
AfterOutcomeCopied(s, status) == status

\* Complete when every claimed step has succeeded (a mutant).
AfterOutcomeOfClaimed(s, status) ==
    CASE status = "succeeded" ->
            IF \A r \in Step \ {s} : step[r].state \in {"succeeded", "pending"}
            THEN "completed" ELSE "running"
      [] status \in {"cancelled", "timed_out"} -> status
      [] OTHER -> "failed"

\* _complete_attempt: the state the workflow enters when claim i's step ends.
AfterOutcome(s, status) ==
    CASE status = "succeeded" ->
            IF \A r \in Step \ {s} : step[r].state = "succeeded"
            THEN "completed" ELSE "running"
      [] status \in {"cancelled", "timed_out"} -> status
      [] OTHER -> "failed"

CheckReport(i) ==
    [step |-> claim[i].step, attempt |-> claim[i].attempt, role |-> "check_report"]

\* update with the outcome.  A check that succeeds, or whose outcome carries a
\* conformance binding, registers its report: `size' is the report's, 0 where
\* there is none.
Outcome(i, now, status, reported, size) ==
    /\ Holds(i, now)
    /\ claim[i].step \in CheckStep /\ status = "succeeded" => reported
    /\ reported => claim[i].step \in CheckStep
    /\ UNCHANGED clock
    /\ LET s  == claim[i].step
           cl == MeteredClaims({i}, now)
           c1 == MeteredCounters({i}, now)
           c2 == [c1 EXCEPT !.active_steps = @ - 1,
                            !.artifact_bytes = @ + (IF reported THEN size ELSE 0),
                            !.artifact_edges = @ + (IF reported THEN 1 ELSE 0)]
           done == [cl EXCEPT ![i].status = status, ![i].outcome = status,
                              ![i].sequence = @ + 1]
           ed == edge \cup (IF reported THEN {CheckReport(i)} ELSE {})
           noRoom == /\ reported
                     /\ \/ c2.artifact_bytes > Budgets.artifact_bytes
                        \/ c1.artifact_edges >= Budgets.artifact_edges
       IN  CASE OverRuntime({i}, now) ->
                    Exhaust(counters, claim) /\ UNCHANGED step
             [] ~OverRuntime({i}, now) /\ noRoom ->
                    Exhaust(c1, cl) /\ UNCHANGED step
             [] OTHER ->
                    /\ counters' = c2
                    /\ claim' = done
                    /\ edge' = ed
                    /\ step' = [step EXCEPT ![s].state = status]
                    /\ workflow' = Entering(AfterOutcome(s, status), c2, done,
                                            ended, ed)
                    /\ UNCHANGED ended

\* cancel
Cancel ==
    LET c == [counters EXCEPT !.active_steps = 0]
        cl == Withdrawn(claim, "cancelled")
    IN  /\ workflow.state \in ActiveStates
        /\ counters' = c
        /\ claim' = cl
        /\ workflow' = Entering("cancelled", c, cl, ended, edge)
        /\ UNCHANGED <<clock, step, edge, ended>>

\* Expired from the second of its expiry on (a mutant).
ExpiredEarly(now) ==
    {i \in ActiveClaims(claim) : claim[i].expires <= now}

Expired(now) ==
    {i \in ActiveClaims(claim) : claim[i].expires < now}

\* The steps of the claims of I go back to pending.
Reopened(I) ==
    [s \in Step |->
        IF step[s].state = "running" /\ \E i \in I : claim[i].step = s
        THEN [step[s] EXCEPT !.state = "pending"] ELSE step[s]]

\* The claims of I, metered and rejected as stale.
Rejected(I, now) ==
    [i \in DOMAIN claim |->
        IF i \in I
        THEN [MeteredClaims(I, now)[i] EXCEPT !.status = "stale_rejected"]
        ELSE claim[i]]

\* Leaving the counter of the active steps as it is (a mutant).
RejectedCountersKept(I, now) == MeteredCounters(I, now)

RejectedCounters(I, now) ==
    [MeteredCounters(I, now) EXCEPT !.active_steps = @ - Cardinality(I)]

\* reconcile: the expired claims are metered and rejected one by one in row
\* order; the first that does not fit the runtime budget fails the workflow,
\* and what was done for those before it stays.
Reconcile(now) ==
    /\ workflow.state \in ActiveStates
    /\ Expired(now) # {}
    /\ UNCHANGED clock
    /\ LET upTo(i) == {k \in Expired(now) : k <= i}
           over == {i \in Expired(now) : OverRuntime(upTo(i), now)}
           fit == Expired(now) \ over
       IN  /\ step' = Reopened(fit)
           /\ IF over = {}
              THEN /\ counters' = RejectedCounters(fit, now)
                   /\ claim' = Rejected(fit, now)
                   /\ UNCHANGED <<workflow, edge, ended>>
              ELSE Exhaust(RejectedCounters(fit, now), Rejected(fit, now))

Tick ==
    /\ clock < MaxClock
    /\ clock' = clock + 1
    /\ UNCHANGED tables

-----------------------------------------------------------------------------

Init ==
    /\ clock = 0
    /\ workflow = [state |-> "absent", receipt |-> NoReceipt]
    /\ counters = Zero
    /\ step = [s \in Step |-> [state |-> "pending", attempts |-> 0]]
    /\ claim = <<>>
    /\ edge = {}
    /\ ended = [s \in Step |-> None]

Next ==
    \/ Create
    \/ Cancel
    \/ Tick
    \/ \E now \in Readings :
        \/ Reconcile(now)
        \/ \E s \in Step, lease \in LeaseSeconds : Activate(s, now, lease)
        \/ \E i \in DOMAIN claim :
            \/ Replay(i, now)
            \/ \E lease \in LeaseSeconds : Renew(i, now, lease)
            \/ \E size \in EventBytes, tool \in BOOLEAN :
                    Event(i, now, size, tool)
            \/ \E status \in Outcomes, reported \in BOOLEAN,
                  size \in ReportBytes : Outcome(i, now, status, reported, size)

Spec == Init /\ [][Next]_vars

-----------------------------------------------------------------------------
(* Properties                                                              *)

TypeOK ==
    /\ clock \in 0 .. MaxClock
    /\ workflow.state \in {"absent"} \cup ActiveStates \cup Terminal
    /\ workflow.receipt.status \in {None} \cup Terminal
    /\ \A c \in DOMAIN Zero : counters[c] \in Int
    /\ step \in [Step -> [state : StepStates, attempts : Nat]]
    /\ claim \in Seq(Claim)
    /\ \A e \in edge : e.step \in Step
    /\ ended \in [Step -> {None} \cup Outcomes]

\* While the workflow is active, a step is running exactly when its latest
\* attempt, and no other, is an active claim, and active_steps counts them:
\* through expiry, reconciliation and new attempts (activate_*, update and
\* reconcile keep three tables in step).
ClaimsAgree ==
    /\ \A i, k \in ActiveClaims(claim) :
            claim[i].step = claim[k].step => i = k
    /\ workflow.state \in ActiveStates =>
        /\ \A s \in ProviderStep \cup CheckStep :
            (step[s].state = "running") <=>
                \E i \in ActiveClaims(claim) :
                    claim[i].step = s /\ claim[i].attempt = step[s].attempts
        /\ counters.active_steps =
                Cardinality(ActiveClaims(claim)) + counters.active_dispatches

\* The runtime charged to the workflow is what was accounted to its claims,
\* second by second and once, whatever mix of renewals, replays, late clock
\* readings and reconciliations metered it, and never exceeds the budget; the
\* artifacts and edges counted are those recorded.
Metered ==
    /\ counters.runtime_seconds =
            SumFunction([i \in DOMAIN claim |-> claim[i].accounted])
                + counters.dispatch_runtime
    /\ counters.runtime_seconds - counters.dispatch_runtime
            <= Budgets.runtime_seconds
    /\ \A i \in DOMAIN claim : claim[i].accounted <= clock - claim[i].started
    /\ counters.artifact_edges = Cardinality(edge)

\* A step is attempted at most max_attempts times, however often its claims
\* expire and are reconciled, and only after every step it depends on has
\* succeeded, which stays so.
AttemptsInOrder ==
    \A i \in DOMAIN claim :
        /\ claim[i].attempt <= MaxAttempts[claim[i].step]
        /\ \A d \in DependsOn[claim[i].step] : step[d].state = "succeeded"

\* The workflow is terminal exactly when it has a receipt, and the receipt
\* tells what the tables hold: the state, the outcome of every step that ended,
\* the counters.  A completed workflow has one success for each of its steps.
ReceiptTells ==
    /\ workflow.receipt # NoReceipt <=> workflow.state \in Terminal
    /\ workflow.receipt # NoReceipt =>
        /\ workflow.receipt =
            ReceiptOf(workflow.state, counters, claim, ended, edge)
        /\ workflow.state = "completed" =>
            workflow.receipt.steps = [step : Step, status : {"succeeded"}]

\* A claim that is no longer active (it expired and was reconciled, it ended,
\* or the workflow did) is never written again: the late answer of a worker
\* cannot reach the attempt that replaced its own.
SupersededStays ==
    [][\A i \in DOMAIN claim : claim[i].status # "active" => claim'[i] = claim[i]]_vars

\* A claim is taken away from its holder by reconcile only after its lease has
\* run out, by the latest clock: an attempt is replaced only then.
LeaseIsKept ==
    [][\A i \in ActiveClaims(claim) :
        /\ claim'[i].status = "stale_rejected"
        /\ workflow'.state \in ActiveStates
        => claim[i].expires < clock]_vars

=============================================================================
