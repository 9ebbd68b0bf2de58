------------------------- MODULE ExternalOperation -------------------------
(***************************************************************************)
(* Governed external operations (ExternalOperationService): an effect at a *)
(* provider outside the engine that must not happen twice.  A dispatch     *)
(* step of a v3 workflow is bound to an operation subject; activating the  *)
(* step allocates the subject's only operation, submitting it persists the *)
(* only permit and then calls the provider outside the transaction, and    *)
(* whatever happens to that call, the outcome is learned from observations *)
(* (answers to read-only queries, or manual attestations), never by        *)
(* submitting again.                                                       *)
(*                                                                         *)
(* Every handler runs in one BEGIN IMMEDIATE transaction, so it is one     *)
(* step.  The provider call that follows the permit, and the query between *)
(* the two transactions of reconcile, run outside any transaction: they    *)
(* are processes of their own here, which any other step may overtake and  *)
(* a crash may end.                                                        *)
(*                                                                         *)
(* The parent workflow is modelled as far as an operation can notice: its  *)
(* state, its counters, its other steps and the frozen terminal receipt.   *)
(***************************************************************************)
EXTENDS Naturals, FiniteSets, Functions

CONSTANTS
    Workflow,       \* workflow_job_id of v3 workflows
    Step,           \* workflow steps, each of one workflow
    ExtStep,        \* the dispatch steps with an external_operation_binding
    Subject,        \* operation subjects
    ObsId,          \* observation ids
    Remote,         \* provider_operation_id values
    NoStep, NoRemote,   \* None
    Unseen,         \* an observation id that is not stored
    WorkflowOf,     \* the workflow of each step
    DependsOn,      \* depends_on of each step
    SubjectOf,      \* the operation_subject_id each external step is bound to
    Expires,        \* expires_at of the approval each external step is bound to
    ManualOnly,     \* the subjects whose provider profile is manual_only
    MaxConcurrent,  \* budgets.max_concurrent_steps
    MaxProviderAttempts, MaxCalls,                  \* budgets
    MaxOperations,  \* the smaller of the operation and the dispatch attempt budget
    MaxQueries,     \* 20 queries per operation
    MaxExecution,   \* 600 seconds of query execution per operation
    QuerySeconds,   \* what one query reserves
    MaxRecords,     \* 64 query observations per operation
    MaxManual,      \* 16 records per manual case
    Horizon,        \* 86400 seconds from activation to the last query
    Freshness,      \* 30 seconds
    MaxEpoch,       \* bound: the last issuer epoch
    MaxClock        \* bound: the last instant of the clock

ASSUME PlanOK ==
    /\ ExtStep \subseteq Step
    /\ NoStep \notin Step
    /\ NoRemote \notin Remote
    /\ Unseen \notin Remote \cup {NoRemote}
    /\ WorkflowOf \in [Step -> Workflow]
    /\ DependsOn \in [Step -> SUBSET Step]
    /\ SubjectOf \in [ExtStep -> Subject]
    /\ Expires \in [ExtStep -> Nat]
    /\ \A s, t \in ExtStep :        \* parent_plan
           WorkflowOf[s] = WorkflowOf[t] /\ SubjectOf[s] = SubjectOf[t] => s = t

ASSUME BudgetsOK ==
    /\ MaxQueries \in Nat /\ MaxExecution \in Nat /\ QuerySeconds \in Nat \ {0}
    /\ MaxRecords \in Nat /\ MaxManual \in Nat /\ MaxCalls \in Nat
    /\ MaxOperations \in Nat /\ MaxProviderAttempts \in Nat
    /\ MaxConcurrent \in Nat \ {0}
    /\ Horizon \in Nat /\ Freshness \in Nat /\ MaxEpoch \in Nat \ {0} /\ MaxClock \in Nat

VARIABLES
    clock,          \* ExternalOperationService.clock()
    issuer,         \* issuer_state: epoch and the asserted freshness
    wf,             \* runtime_workflows
    step,           \* runtime_workflow_steps: the state of each step
    op,             \* external_operations: one row per subject
    observed,       \* external_observations: the remote id each report named
    submitting,     \* how many adapter.submit calls are about to be made
    submitted,      \* history: how often the provider was called
    query           \* the reconcile calls between their two transactions

vars == <<clock, issuer, wf, step, op, observed, submitting, submitted, query>>

-----------------------------------------------------------------------------
(* Workflows and operations                                                *)

ActiveStates == {"pending", "running"}
Ended        == {"completed", "failed", "blocked", "cancelled", "timed_out"}
StepState    == {"pending", "running", "succeeded", "failed"}

\* The outcomes of each channel; `unknown' stands for pending too, which no
\* condition tells from it.
Confirmed     == {"confirmed_succeeded", "confirmed_failed", "confirmed_not_executed"}
QueryOutcome  == {"unknown", "confirmed_succeeded", "confirmed_failed"}
ManualOutcome == Confirmed

StepsOf(w) == {s \in Step : WorkflowOf[s] = w}
ExtOf(w)   == {s \in ExtStep : WorkflowOf[s] = w}

NoReceipt == [status |-> "none", rows |-> <<>>]
NoClaim   == [fence |-> 0, deadline |-> 0]

NewWorkflow ==
    [state |-> "pending", receipt |-> NoReceipt, active |-> 0, dispatches |-> 0,
     attempts |-> 0, operations |-> 0, calls |-> 0, queries |-> 0]

\* The row of a subject: no operation yet, or the operation of one step.
NoOperation ==
    [step |-> NoStep, permits |-> 0, evidence |-> "not_started",
     outcome |-> "unobserved", recon |-> FALSE, remote |-> NoRemote,
     seq |-> 0, fence |-> 0, claim |-> NoClaim, queries |-> 0, reserved |-> 0,
     records |-> 0, case |-> FALSE, manual |-> 0, conflicts |-> 0,
     attached |-> FALSE, created |-> 0]

\* _snapshot: one more receipt in the operation's chain.
Snapshot(o) == [o EXCEPT !.seq = @ + 1]

Init ==
    /\ clock = 0
    /\ issuer = [epoch |-> 1, observed |-> 0, until |-> 0]
    /\ wf = [w \in Workflow |-> NewWorkflow]
    /\ step = [s \in Step |-> "pending"]
    /\ op = [s \in Subject |-> NoOperation]
    /\ observed = [s \in Subject |-> [i \in ObsId |-> Unseen]]
    /\ submitting = [s \in Subject |-> 0]
    /\ submitted = [s \in Subject |-> 0]
    /\ query = {}

Tick ==
    /\ clock < MaxClock
    /\ clock' = clock + 1
    /\ UNCHANGED <<issuer, wf, step, op, observed, submitting, submitted, query>>

-----------------------------------------------------------------------------
(* The terminal receipt of the parent                                      *)

\* Forgetting that the parent may have ended (a mutant).
NeverEnds(w) == TRUE

Active(w) == wf[w].state \in ActiveStates
Ready(s)  == step[s] = "pending" /\ \A d \in DependsOn[s] : step[d] = "succeeded"

HasOp(s, ops)     == ops[SubjectOf[s]].step = s
Resolved(s, ops)  ==
    /\ HasOp(s, ops)
    /\ ops[SubjectOf[s]].outcome = "confirmed_succeeded"
    /\ ~ops[SubjectOf[s]].recon

\* Completing without asking for the operations (a mutant).
CompletesAlways(w, ops) == TRUE

\* parent_completion_ready
CompletionReady(w, ops) ==
    \A s \in ExtOf(w) : Resolved(s, ops) /\ ops[SubjectOf[s]].conflicts = 0

\* parent_step_receipts
StepReceipts(w, ops) ==
    [s \in ExtOf(w) |-> IF ~HasOp(s, ops) THEN "unallocated"
                        ELSE IF Resolved(s, ops) THEN "succeeded" ELSE "failed"]

\* Freezing without attaching the receipt to the operations (a mutant).
AttachNothing(w, ops) == ops

\* attach_parent_terminal
Attached(w, ops) ==
    [s \in Subject |->
        IF ops[s].step \in StepsOf(w) /\ ~ops[s].attached
        THEN Snapshot([ops[s] EXCEPT !.attached = TRUE]) ELSE ops[s]]

\* _freeze_receipt, reached with the workflow row f already terminal: a
\* completed workflow is blocked unless all its operations are resolved, the
\* receipt is stored once, and each operation gets one snapshot that names it.
Freeze(w, f, ops) ==
    LET status == IF f.state = "completed" /\ ~CompletionReady(w, ops)
                  THEN "blocked" ELSE f.state
    IN  IF f.receipt # NoReceipt
        THEN wf' = [wf EXCEPT ![w] = f] /\ op' = ops
        ELSE /\ wf' = [wf EXCEPT ![w] = [f EXCEPT !.state = status,
                    !.receipt = [status |-> status, rows |-> StepReceipts(w, ops)]]]
             /\ op' = Attached(w, ops)

-----------------------------------------------------------------------------
(* The authority: issuer_freshness and authorization_revoke                *)

\* The issuer asserts its epoch for at most 30 seconds, never backwards.
IssuerFreshness(e, from, until) ==
    /\ e >= issuer.epoch
    /\ from >= issuer.observed /\ from <= clock
    /\ until > clock /\ until <= from + Freshness
    /\ issuer' = [epoch |-> e, observed |-> from, until |-> until]
    /\ UNCHANGED <<clock, wf, step, op, observed, submitting, submitted, query>>

\* Revoking an approval moves the issuer to a later epoch, which ends every
\* approval of the earlier ones.
Revoke(e) ==
    /\ e > issuer.epoch
    /\ issuer' = [issuer EXCEPT !.epoch = e]
    /\ UNCHANGED <<clock, wf, step, op, observed, submitting, submitted, query>>

\* engine_activation, for an approval registered in epoch 1.
Approved(s) ==
    /\ clock < Expires[s]
    /\ issuer.epoch = 1
    /\ issuer.observed <= clock /\ clock < issuer.until

-----------------------------------------------------------------------------
(* activate and submit                                                     *)

\* Allocation that replaces another workflow's operation (a mutant).
SubjectAlwaysFree(s) == TRUE

SubjectFree(s) == op[s].step = NoStep

\* The operation that is allocated to a step.
Allocated(s) == Snapshot([NoOperation EXCEPT !.step = s, !.created = clock])

Activate(s) ==
    LET w == WorkflowOf[s] IN
    /\ SubjectFree(SubjectOf[s])
    /\ Active(w) /\ Ready(s) /\ Approved(s)
    /\ wf[w].operations < MaxOperations
    /\ wf[w].active < MaxConcurrent
    /\ op' = [op EXCEPT ![SubjectOf[s]] = Allocated(s)]
    /\ step' = [step EXCEPT ![s] = "running"]
    /\ wf' = [wf EXCEPT ![w].state = "running", ![w].operations = @ + 1,
                        ![w].dispatches = @ + 1, ![w].active = @ + 1]
    /\ UNCHANGED <<clock, issuer, observed, submitting, submitted, query>>

\* A permit for every call of submit (a mutant).
PermitsForever(o) == TRUE

\* A second submit of the same operation only returns its projection.
PermitLeft(o) == o.permits = 0

\* An operation with its permit: from here on the provider may have been called.
Permitted(o) ==
    Snapshot([o EXCEPT !.permits = 1, !.evidence = "possibly_submitted",
                       !.outcome = "unknown", !.recon = TRUE, !.fence = @ + 1])

Permit(s) ==
    LET o == op[s]
        w == WorkflowOf[o.step]
    IN  /\ o.step # NoStep
        /\ PermitLeft(o)
        /\ Approved(o.step) /\ Active(w)
        /\ wf[w].calls < MaxCalls
        /\ op' = [op EXCEPT ![s] = Permitted(o)]
        /\ wf' = [wf EXCEPT ![w].calls = @ + 1]
        /\ submitting' = [submitting EXCEPT ![s] = @ + 1]
        /\ UNCHANGED <<clock, issuer, step, observed, submitted, query>>

\* adapter.submit: the provider is called; its answer, or the exception it
\* raises, is not looked at.
Submit(s) ==
    /\ submitting[s] > 0
    /\ submitting' = [submitting EXCEPT ![s] = @ - 1]
    /\ submitted' = [submitted EXCEPT ![s] = @ + 1]
    /\ UNCHANGED <<clock, issuer, wf, step, op, observed, query>>

\* The worker dies between the permit and the call.
SubmitterDies(s) ==
    /\ submitting[s] > 0
    /\ submitting' = [submitting EXCEPT ![s] = @ - 1]
    /\ UNCHANGED <<clock, issuer, wf, step, op, observed, submitted, query>>

-----------------------------------------------------------------------------
(* observe                                                                 *)

Report ==
    [channel : {"query"}, outcome : QueryOutcome, remote : Remote \cup {NoRemote}]
    \cup
    [channel : {"manual"}, outcome : ManualOutcome, remote : Remote \cup {NoRemote}]

\* The report names the operation the provider is known to have made of it.
SameRemote(o, b) == o.remote # NoRemote => b.remote = o.remote

\* Believing an attestation that the submitter may outlive (a mutant).
ProvenAlways(s, b) == TRUE

\* confirmed_not_executed needs the verifier's word that nothing was executed
\* and that the submitter cannot send any more.  The verifier is asked before
\* the transaction; what it finds of an operation with a permit stays true.
Proven(s, b) ==
    b.outcome = "confirmed_not_executed" => submitting[s] = 0 /\ submitted[s] = 0

Disposition(o, b) ==
    IF o.outcome \notin Confirmed \/ b.outcome = o.outcome THEN "accepted"
    ELSE IF b.outcome \in Confirmed THEN "conflict" ELSE "retain_confirmed"

\* A confirmed report ends the reconciliation of a conflict (a mutant).
StillOpenUnlessConfirmed(o, b) == b.outcome \notin Confirmed

\* A confirmed report never ends the reconciliation (a mutant).
StillOpenAlways(o, b) == TRUE

StillOpen(o, b) == b.outcome \notin Confirmed \/ o.conflicts > 0

\* The operation with the report taken in.
Informed(o, b) ==
    LET d == Disposition(o, b) IN
    Snapshot([o EXCEPT
        !.outcome = IF d = "accepted" THEN b.outcome ELSE @,
        !.conflicts = IF d = "conflict" THEN @ + 1 ELSE @,
        !.recon = CASE d = "conflict" -> TRUE
                    [] d = "accepted" -> StillOpen(o, b)
                    [] OTHER -> @,
        !.remote = IF b.remote # NoRemote THEN b.remote ELSE @,
        !.evidence = IF b.remote # NoRemote THEN "provider_accepted" ELSE @,
        !.records = IF b.channel = "query" THEN @ + 1 ELSE @,
        !.manual = IF b.channel = "manual" THEN @ + 1 ELSE @])

\* What observe requires of a report under an id that is not stored yet.
Acceptable(s, i, b) ==
    LET o == op[s] IN
    /\ o.step # NoStep
    /\ observed[s][i] = Unseen
    /\ SameRemote(o, b)
    /\ Proven(s, b)
    /\ o.permits = 1
    /\ b.channel = "manual" => o.case /\ o.manual < MaxManual
    /\ b.channel = "query" => o.records < MaxRecords

\* Leaving the step in active_steps when it ends (a mutant).
StepKeepsCounting(f) == f

\* The parent's counters when the operation's step ends.
StepEnds(f) == [f EXCEPT !.active = @ - 1, !.dispatches = @ - 1]

\* _advance_parent, for the operation o and all operations ops.
AdvanceParent(o, ops) ==
    LET s      == o.step
        w      == WorkflowOf[s]
        status == IF o.outcome = "confirmed_succeeded" THEN "succeeded" ELSE "failed"
        steps  == IF step[s] = "running" THEN [step EXCEPT ![s] = status] ELSE step
        f      == IF step[s] = "running" THEN StepEnds(wf[w]) ELSE wf[w]
        last   == \A t \in StepsOf(w) : steps[t] = "succeeded"
    IN  IF ~Active(w) \/ o.outcome \notin Confirmed \/ o.recon
        THEN op' = ops /\ UNCHANGED <<wf, step>>
        ELSE /\ step' = steps
             /\ IF status = "failed" \/ last
                THEN Freeze(w, [f EXCEPT !.state = IF status = "succeeded"
                                                   THEN "completed" ELSE "failed"],
                            ops)
                ELSE wf' = [wf EXCEPT ![w] = f] /\ op' = ops

TakeIn(s, i, b) ==
    /\ Acceptable(s, i, b)
    /\ observed' = [observed EXCEPT ![s][i] = b.remote]
    /\ AdvanceParent(Informed(op[s], b), [op EXCEPT ![s] = Informed(op[s], b)])

\* The observations route: an adapter's or a manual reconciler's report.
Observe(s, i, b) ==
    /\ TakeIn(s, i, b)
    /\ UNCHANGED <<clock, issuer, submitting, submitted, query>>

RegisterManualCase(s) ==
    /\ op[s].step # NoStep
    /\ ~op[s].case
    /\ op' = [op EXCEPT ![s] = Snapshot([@ EXCEPT !.case = TRUE])]
    /\ UNCHANGED <<clock, issuer, wf, step, observed, submitting, submitted, query>>

-----------------------------------------------------------------------------
(* reconcile                                                               *)

Smaller(a, b) == IF a <= b THEN a ELSE b
Reserve(o)    == Smaller(QuerySeconds, MaxExecution - o.reserved)

\* A query that is not counted as an external call (a mutant).
QueryCountedOnly(f) == [f EXCEPT !.queries = @ + 1]

\* The parent's counters when a query is claimed.
QueryCharged(f) == [f EXCEPT !.calls = @ + 1, !.queries = @ + 1]

\* No query that may still be answered is claimed.
Unclaimed(o) == o.claim = NoClaim \/ clock >= o.claim.deadline

\* The first transaction: the query is paid for in full and claimed.
BeginQuery(s) ==
    LET o == op[s]
        w == WorkflowOf[o.step]
        c == [fence |-> o.fence + 1, deadline |-> clock + Reserve(o)]
    IN  /\ o.step # NoStep
        /\ s \notin ManualOnly
        /\ o.queries < MaxQueries /\ o.reserved < MaxExecution
        /\ clock - o.created < Horizon
        /\ o.outcome \notin Confirmed \/ o.recon
        /\ o.permits = 1
        /\ o.records < MaxRecords
        /\ Unclaimed(o)
        /\ wf[w].calls < MaxCalls
        /\ wf' = [wf EXCEPT ![w] = QueryCharged(@)]
        /\ op' = [op EXCEPT ![s] = Snapshot([o EXCEPT
               !.queries = @ + 1, !.reserved = @ + Reserve(o),
               !.fence = @ + 1, !.claim = c])]
        /\ query' = query \cup {[subject |-> s, claim |-> c, pc |-> "asked"]}
        /\ UNCHANGED <<clock, issuer, step, observed, submitting, submitted>>

Settle(q) == query' = (query \ {q}) \cup {[q EXCEPT !.pc = "settled"]}

\* The answer is recorded only under the claim it was asked under, in time.
Fenced(q) == op[q.subject].claim = q.claim /\ clock < q.claim.deadline

QueryAnswered(q, i, b) ==
    /\ q.pc = "asked"
    /\ b.channel = "query"
    /\ Fenced(q)
    /\ TakeIn(q.subject, i, b)
    /\ Settle(q)
    /\ UNCHANGED <<clock, issuer, submitting, submitted>>

\* The query times out, the adapter raises, or the answer is one that is
\* stored already.
QueryUnanswered(q) ==
    /\ q.pc = "asked"
    /\ Settle(q)
    /\ UNCHANGED <<clock, issuer, wf, step, op, observed, submitting, submitted>>

\* Clearing whatever claim there is (a mutant).
AnyClaim(q) == TRUE

OwnClaim(q) == op[q.subject].claim = q.claim

\* The second transaction.
EndQuery(q) ==
    /\ q.pc = "settled"
    /\ op' = IF OwnClaim(q) THEN [op EXCEPT ![q.subject].claim = NoClaim] ELSE op
    /\ query' = query \ {q}
    /\ UNCHANGED <<clock, issuer, wf, step, observed, submitting, submitted>>

\* The answer is refused, or the process dies: the claim stays.
QueryAborts(q) ==
    /\ query' = query \ {q}
    /\ UNCHANGED <<clock, issuer, wf, step, op, observed, submitting, submitted>>

-----------------------------------------------------------------------------
(* The rest of the parent workflow                                         *)

\* _activate of a provider or check step.  Out of attempts, or with as many
\* claims as max_concurrent_steps, the whole workflow fails.
ProviderActivates(s) ==
    LET w == WorkflowOf[s]
        claims == Cardinality({t \in StepsOf(w) \ ExtStep : step[t] = "running"})
        spent  == wf[w].attempts >= MaxProviderAttempts \/ claims >= MaxConcurrent
    IN  /\ s \notin ExtStep
        /\ Active(w) /\ Ready(s)
        /\ IF spent
           THEN /\ Freeze(w, [wf[w] EXCEPT !.state = "failed", !.active = 0], op)
                /\ UNCHANGED step
           ELSE /\ wf' = [wf EXCEPT ![w].state = "running",
                              ![w].attempts = @ + 1, ![w].active = @ + 1]
                /\ step' = [step EXCEPT ![s] = "running"]
                /\ UNCHANGED op
        /\ UNCHANGED <<clock, issuer, observed, submitting, submitted, query>>

\* _complete_attempt
ProviderEnds(s, outcome) ==
    LET w     == WorkflowOf[s]
        f     == [wf[w] EXCEPT !.active = @ - 1]
        steps == [step EXCEPT ![s] = outcome]
        last  == \A t \in StepsOf(w) : steps[t] = "succeeded"
    IN  /\ s \notin ExtStep
        /\ Active(w) /\ step[s] = "running"
        /\ step' = steps
        /\ IF outcome = "failed" \/ last
           THEN Freeze(w, [f EXCEPT !.state = IF outcome = "failed"
                                              THEN "failed" ELSE "completed"], op)
           ELSE wf' = [wf EXCEPT ![w] = f] /\ UNCHANGED op
        /\ UNCHANGED <<clock, issuer, observed, submitting, submitted, query>>

\* RuntimeWorkflowService.reconcile, when the leases of the claims on the steps
\* lost have run out.
ProviderExpires(w, lost) ==
    /\ Active(w)
    /\ \A s \in lost : step[s] = "running"
    /\ step' = [s \in Step |-> IF s \in lost THEN "pending" ELSE step[s]]
    /\ wf' = [wf EXCEPT ![w].active = @ - Cardinality(lost)]
    /\ UNCHANGED <<clock, issuer, op, observed, submitting, submitted, query>>

\* Cancelling leaves the operations, and active_dispatches, as they are.
Cancel(w) ==
    /\ Active(w)
    /\ Freeze(w, [wf[w] EXCEPT !.state = "cancelled", !.active = 0], op)
    /\ UNCHANGED <<clock, issuer, step, observed, submitting, submitted, query>>

-----------------------------------------------------------------------------
Authority ==
    \/ \E e \in 1..MaxEpoch, from, until \in 0..MaxClock + 1 :
           IssuerFreshness(e, from, until)
    \/ \E e \in 1..MaxEpoch : Revoke(e)

Parent ==
    \/ \E s \in Step :
           \/ ProviderActivates(s)
           \/ \E outcome \in {"succeeded", "failed"} : ProviderEnds(s, outcome)
    \/ \E w \in Workflow :
           \/ \E lost \in SUBSET (StepsOf(w) \ ExtStep) : ProviderExpires(w, lost)
           \/ Cancel(w)

Next ==
    \/ Tick
    \/ Authority
    \/ Parent
    \/ \E s \in ExtStep : Activate(s)
    \/ \E s \in Subject :
           \/ Permit(s)
           \/ Submit(s)
           \/ SubmitterDies(s)
           \/ RegisterManualCase(s)
           \/ BeginQuery(s)
           \/ \E i \in ObsId, b \in Report : Observe(s, i, b)
    \/ \E q \in query :
           \/ \E i \in ObsId, b \in Report : QueryAnswered(q, i, b)
           \/ QueryUnanswered(q)
           \/ EndQuery(q)
           \/ QueryAborts(q)

Spec == Init /\ [][Next]_vars

-----------------------------------------------------------------------------
(* Properties                                                              *)

Operation ==
    [step : ExtStep \cup {NoStep}, permits : Nat,
     evidence : {"not_started", "possibly_submitted", "provider_accepted"},
     outcome : {"unobserved"} \cup QueryOutcome \cup ManualOutcome,
     recon : BOOLEAN, remote : Remote \cup {NoRemote}, seq : Nat, fence : Nat,
     claim : [fence : Nat, deadline : Nat], queries : Nat, reserved : Nat,
     records : Nat, case : BOOLEAN, manual : Nat, conflicts : Nat,
     attached : BOOLEAN, created : Nat]

Row == {"unallocated", "succeeded", "failed"}

TypeOK ==
    /\ clock \in 0..MaxClock
    /\ issuer \in [epoch : 1..MaxEpoch, observed : Nat, until : Nat]
    /\ \A w \in Workflow :
          /\ wf[w].state \in ActiveStates \cup Ended
          /\ wf[w].receipt = NoReceipt
             \/ wf[w].receipt \in [status : Ended, rows : [ExtOf(w) -> Row]]
          /\ \A c \in {"active", "dispatches", "attempts", "operations",
                       "calls", "queries"} : wf[w][c] \in Nat
    /\ step \in [Step -> StepState]
    /\ op \in [Subject -> Operation]
    /\ observed \in [Subject -> [ObsId -> Remote \cup {NoRemote, Unseen}]]
    /\ submitting \in [Subject -> Nat]
    /\ submitted \in [Subject -> Nat]
    /\ query \in SUBSET [subject : Subject, pc : {"asked", "settled"},
                         claim : [fence : Nat, deadline : Nat]]

\* What the row o of a subject, whose provider was called n times, is to the
\* callers: how far the submission has come, and the confirmed outcome.
PhaseOf(o, n) ==
    IF o.step = NoStep THEN "free"
    ELSE IF o.permits = 0 THEN "reserved"
    ELSE IF n = 0 THEN "permitted" ELSE "called"

VerdictOf(o) == IF o.outcome \in Confirmed THEN o.outcome ELSE "open"

Phases   == [s \in Subject |-> PhaseOf(op[s], submitted[s])]
Verdicts == [s \in Subject |-> VerdictOf(op[s])]

Promise == INSTANCE OneSubmission WITH phase <- Phases, verdict <- Verdicts

\* The service keeps the promise of OneSubmission: one provider call per
\* subject, ever, over every workflow that names the subject, whatever
\* crashes, retries and observations come between.
KeepsPromise == Promise!ASpec

\* At most one adapter.submit call is made or about to be made for a subject,
\* and only under the permit that was persisted before it.
OneSubmit == \A s \in Subject : submitting[s] + submitted[s] <= op[s].permits
                                /\ op[s].permits <= 1

\* A finding that the provider executed nothing is never overtaken by a call
\* of a submitter that was still on its way.
NotExecutedIsTrue ==
    \A s \in Subject : op[s].outcome = "confirmed_not_executed" =>
                           submitting[s] = 0 /\ submitted[s] = 0

\* Evidence only accumulates: no report, in whatever order reports arrive,
\* replaces a confirmed outcome, takes back a conflict, or closes the
\* reconciliation of an operation that has one.
EvidenceIsSticky ==
    [][\A s \in Subject :
          /\ op[s].outcome \in Confirmed => op'[s].outcome = op[s].outcome
          /\ op'[s].conflicts >= op[s].conflicts
          /\ op'[s].conflicts > 0 => op'[s].recon]_op

\* The provider is never asked by two queries at once whose answers would both
\* still be taken: a query that lost its claim cannot clear its successor's.
OneLiveQuery ==
    \A p, q \in query :
        /\ p.subject = q.subject
        /\ p.pc = "asked" /\ q.pc = "asked"
        /\ clock < p.claim.deadline /\ clock < q.claim.deadline
        => p = q

\* Every call made or claimed to the provider is paid for by the parent, never
\* beyond its budget, and the operation's own limits on queries hold: a query
\* that is lost, late or killed gives nothing back.
CallsPaid ==
    /\ \A w \in Workflow :
          LET ops == {s \in Subject : op[s].step \in StepsOf(w)} IN
          /\ wf[w].calls = SumFunction([s \in ops |-> op[s].permits + op[s].queries])
          /\ wf[w].queries = SumFunction([s \in ops |-> op[s].queries])
          /\ wf[w].calls <= MaxCalls
    /\ \A s \in Subject :
          /\ op[s].queries <= MaxQueries
          /\ op[s].reserved <= MaxExecution
          /\ Cardinality({q \in query : q.subject = s}) <= op[s].queries

\* While a parent is active its counters are the steps that run: no outcome is
\* counted twice or forgotten between the two services that update them.
CountersAgree ==
    \A w \in Workflow : Active(w) =>
        /\ wf[w].active = Cardinality({s \in StepsOf(w) : step[s] = "running"})
        /\ wf[w].dispatches = Cardinality({s \in ExtOf(w) : step[s] = "running"})

\* A parent counts as completed, and its receipt calls an operation's step
\* succeeded, only if the provider confirmed it.
CompletedIsConfirmed ==
    \A w \in Workflow : ~Active(w) =>
        /\ wf[w].state = "completed" =>
              \A s \in ExtOf(w) : wf[w].receipt.rows[s] = "succeeded"
        /\ \A s \in ExtOf(w) : wf[w].receipt.rows[s] = "succeeded" =>
              op[SubjectOf[s]].step = s
              /\ op[SubjectOf[s]].outcome = "confirmed_succeeded"

\* A parent that ended stays as it ended: its receipt was frozen in the same
\* step, every operation it had names that receipt, recovery that goes on
\* after the end changes neither state nor receipt, and no operation of it
\* gets a permit any more.
EndIsFinal ==
    [][\A w \in Workflow :
          /\ ~Active(w)' <=> wf'[w].receipt # NoReceipt
          /\ \A s \in Subject : op'[s].step \in StepsOf(w) =>
                                    (op'[s].attached <=> ~Active(w)')
          /\ ~Active(w) =>
                /\ wf'[w].state = wf[w].state
                /\ wf'[w].receipt = wf[w].receipt
                /\ \A s \in Subject : op[s].step \in StepsOf(w) =>
                                          op'[s].permits = op[s].permits]_vars

\* No step is left running behind a confirmed outcome: the observation that
\* confirms an operation also ends its step, unless the parent ended before.
ConfirmedEndsStep ==
    \A s \in ExtStep :
        /\ HasOp(s, op)
        /\ op[SubjectOf[s]].outcome \in Confirmed
        /\ Active(WorkflowOf[s])
        => step[s] \in {"succeeded", "failed"}

=============================================================================
