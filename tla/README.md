# TLA+ models of the PDX artifact engine

This directory holds TLA+ specifications of the parts of the engine in which
several actors share durable state, the TLC configurations that check them on
small instances, and TLAPS proofs of the main properties for every instance.
Every definition is written from the Python code; `PROJECT.json` ("map") names
the lines each one stands for.

    tlc -config JobQueue_races.cfg MCJobQueue.tla       model-check one run
    tlapm JobQueue_proofs.tla                           check one proof module

## 1. The system

The engine runs document jobs for a control plane. `runtime/` is one HTTP server
(`ThreadingHTTPServer`: one thread per request) and any number of worker
processes over SQLite databases; `packages/pdx_artifact_core` is a library of
value objects and small state machines; `adapters/` wrap external converters.

| Component (code) | State it keeps | Operations | Talks to |
|---|---|---|---|
| Job queue (`jobs/`, `worker.py`, `staging/`) | one row per job in SQLite (state, lease, attempt count, result), payload files in a staging directory | create, cancel, reconcile; claim, renew, finalize, retry | request threads and workers share rows and files; workers call kernel operations |
| External operations (`external_operations/`) | operations, observations, approvals, issuer freshness | activate, submit, observe, register case, reconcile (query) | provider adapters, outside any transaction; updates the parent workflow in its own tables |
| Runtime provider workflow (`runtime_workflows/`) | workflows, steps, claims, counters, frozen receipts | create, activate, renew, update, cancel, reconcile | asks external operations before completing; freezes their receipts |
| Dynamic dispatch (`dynamic_dispatch/`) | policies, decisions, activations, a content store | register, revoke, import, activate, execute | executors outside transactions; writes workflow rows |
| Continuable extraction (`continuable_extraction/`) | one session row per operation with its accepted ranges, coverage and receipt; staged ranges | create, execute next, accept staged, reconcile, retry, give up | a Kernel over HTTP, outside any transaction; the core transition `accept_extraction_range` |
| Core state (`pdx_artifact_core`) | run snapshots with a version (compare and set), checkpoints, the approval ledger | transitions, decisions, checkpoints | used by the hosts that run plans |
| Dispatcher and runtime (`dispatcher.py`, `runtime.py`) | one run in memory and its manifest | validate, order, execute, resume a plan | executors, verifiers, artifact storage; the snapshot and the decision a host hands it |
| HTTP, auth, CLI, planners, adapters | none of their own | parse, authenticate, convert | all of the above |

What is hard here, and where:

* **Interleaving.** A request handler reads a row, works, and writes it several
  statements later; workers do the same around a kernel call. Only SQLite
  statements and short transactions are atomic.
* **Leases and time.** Leases, payload files, deadlines, query claims and
  approvals run out while their holder is still working.
* **Crashes.** A worker or the server may die between any two statements, and in
  particular between a persisted permit and the provider call it allows.
* **Late, repeated and contradictory messages.** Observations of a provider come
  through two channels, in any order.
* **Two services over one row.** External operations and workflow steps update
  one set of counters and may each find that they ended the workflow.
* **Work that is taken up again.** A staged range outlives the thread that asked
  for it; a plan stopped at an approval is resumed by another host, later, from a
  snapshot that others may have claimed, cancelled or recovered meanwhile.

The correctness of each component, in a sentence: the queue runs each job at most
`max_attempts` times, keeps one coherent row per job, never lets a stale actor
overwrite a newer result, never reopens a terminal job, and ends every job that is
reconciled; the external operations call the provider at most once per subject and
never lose or replace evidence; a workflow ends once, with a receipt that agrees
with its steps and operations; a dispatch runs its executor at most once and
cannot revive an ended workflow; an extraction accepts an unbroken sequence of
ranges, each once, within its budgets, and its receipt tells every loss; of the
hosts that write one snapshot version one wins, a checkpoint is decided once, no
completed step is executed again, and a run's status agrees with what its steps
and checks did. `PROJECT.json` ("hazards") lists what could break these, line by line.

## 2. Modules

| Module | What it is |
|---|---|
| `JobQueue` | the job queue, its handlers and its workers |
| `MCJobQueue` | instances of it for TLC |
| `JobQueue_proofs` | its inductive invariant and the theorems about it |
| `OneSubmission` | the abstract promise of the external-operation service |
| `ExternalOperation` | the external-operation service and its parent workflow |
| `MCExternalOperation` | instances of it for TLC |
| `ExternalOperation_proofs` | the invariants of operations, of parents, of query claims and of what calls cost, the theorems about them and the refinement proof |
| `RuntimeWorkflow` | the steps, claims, budgets and receipt of one workflow |
| `MCRuntimeWorkflow` | an instance of it for TLC |
| `RuntimeWorkflow_proofs` | its inductive invariant and the theorems about it |
| `DynamicDispatch` | extends `RuntimeWorkflow` with dispatch steps and the workers that execute them |
| `MCDynamicDispatch` | an instance of it for TLC |
| `DynamicDispatch_proofs` | the invariant of the composition and the theorems about it |
| `SourceProjection` | the abstract promise of a continuable extraction: an unbroken sequence of ranges, closed once |
| `ContinuableExtraction` | one extraction operation, its staged ranges and its request threads |
| `MCContinuableExtraction` | an instance of it for TLC |
| `ContinuableExtraction_proofs` | its inductive invariants, the theorems about them and the refinement proof |
| `PlanOrder` | the dependency graph of a plan: the validator's cycle check, and `order_steps` |
| `PlanDispatch` | what `Dispatcher.run` does to a run, as operators on a record |
| `ResumableRun` | hosts that run, stop, decide, claim, recover and resume a plan over one snapshot |
| `MCResumableRun` | instances of it for TLC |
| `PlanOrder_proofs` | what the depth-first searches of `PlanOrder` compute, for every graph |
| `ResumableRun_proofs` | its inductive invariant and the theorems about it |
| `Sums_proofs` | lemmas about sums over finite sets, and induction over the subsets of one |

### JobQueue

State: `row` is the jobs table, with the columns control flow depends on (`run` is
the run id of the status document, `result` the claim that produced the stored
result); `staging` the payload files present; `worker` and `request` give each
process or thread its place in the code and *what it has read* (`seen`, `now`,
`fence`), which is what makes stale writes possible; `clock` is `time.time()`.
`claims` only counts, for the properties.

| Code | Action |
|---|---|
| `JobStore.claim_next` | `Claim` (select and update are one step: the update repeats the conditions of the select) |
| `JobWorker._process`, `_process_locked` | `CheckLease`, `Fetch`, `Load`, `KernelAnswers`/`KernelFails`, `Refetch`, `WriteOutcome`, `DiscardPayload` |
| the heartbeat thread, `renew_lease` | `Heartbeat` |
| `JobService.create` | `BeginCreate`, `CheckJobId`, `StagePayload`, `InsertRow` |
| `JobService.cancel` | `BeginCancel`, `FinalizeRow`, `UnlinkPayload` |
| `JobService.reconcile` | `BeginReconcile`, `ProbeStaging`, then `ReleaseLease` or `FinalizeRow`, `UnlinkPayload` |
| a process dies | `WorkerCrash`, `RequestCrash` |

A worker's kernel call has no effect on the queue besides answering or raising, so
its content is left out; the branch for a payload whose digest differs cannot be
taken because staged files are never rewritten. `completed_with_review` is not
produced by this code. Read-only routes change nothing.

### ExternalOperation and OneSubmission

`op` has one row per operation *subject*, because the table has a unique index on
it; `observed` holds, for each stored observation id, the provider id it named;
`submitting` counts `adapter.submit` calls that are about to be made and
`submitted` those made; `query` is the set of reconcile calls between their two
transactions. `wf` and `step` are the parent tables.

| Code | Action |
|---|---|
| `activate`, `submit` (transaction / call) | `Activate`, `Permit` / `Submit`, `SubmitterDies` |
| `observe` | `Observe`, by way of `TakeIn`, `Informed`, `AdvanceParent` |
| `register_manual_case` | `RegisterManualCase` |
| `reconcile` (transaction / query / observe / transaction) | `BeginQuery`, `QueryAnswered` or `QueryUnanswered`, `EndQuery`, `QueryAborts` |
| `register` of freshness and revocations | `IssuerFreshness`, `Revoke` |
| the workflow service | `ProviderActivates`, `ProviderEnds`, `ProviderExpires`, `Cancel`; `Freeze` is `_freeze_receipt` with the calls it makes back into the operation service |

Abstractions. Subjects and approvals are registered before the workflow is
created and never change, so the expiry of an approval is a constant and all
belong to issuer epoch 1; a revocation is the move to a later epoch. Conditions
that can only refuse (tool registry, dispatch policy, evidence sizes, expected
sequence, request idempotency) are left out: refusing changes nothing. `unknown`
stands for `pending` as well, and `failed` for every unsuccessful provider
outcome. The verifier's facts about a submitter are read before the transaction of
`observe`; `Proven` evaluates them in it, which is the same because once a permit
exists "terminated and not executed" stays true. Provider claims are abstracted to
the state of their step: attempts, renewals and the runtime and byte budgets are
in the module `RuntimeWorkflow`.

`OneSubmission` says what callers rely on: per subject, one reservation, one
permit, at most one provider call, at most one confirmed outcome, and no call
after it was confirmed that nothing was executed. `ExternalOperation!Promise` is
the refinement mapping; `KeepsPromise` is checked by TLC and proved by `PromiseKept`.

### RuntimeWorkflow

The variables are the tables of one workflow: `workflow` (state and frozen
receipt), `counters`, `step`, `claim` (in row order), `edge`, and `ended`, the
step receipts of dispatches, which only `DynamicDispatch` fills. Every operation
of the service is one `BEGIN IMMEDIATE` transaction and so one action. Its clock
reading is taken before the lock: `Readings` are the instants up to `Lag` old.

| Code | Action |
|---|---|
| `create` | `Create` |
| `activate_provider`, `activate_check` | `Activate`: a new claim, or the end of the workflow when the attempts are spent (`AttemptsSpent`) |
| `renew` | `Renew` |
| `update` | `Replay` (a record stored before), `Event`, `Outcome` with the preflight and the edge of a check's report |
| `cancel`, `reconcile` | `Cancel`, `Reconcile` |
| `_checked_claim`, `_meter_runtime` | `Holds`; `Delta`, `OverRuntime`, `MeteredCounters`, `MeteredClaims` |
| `_budget_exhausted`, `_freeze_receipt` | `Exhaust`, `Entering` |

A budget found spent fails the workflow in a transaction that *commits*, so what
the operation had changed before is an argument of `Exhaust`; that order is what
several properties are about. A refused request changes nothing and is left out.
`reconcile` meters expired claims one after another and may run out of budget
between two: `fit` are those before the first that does not fit. The module is
of contract version 2; the blocked and unresolved ends of version 3 are in
`ExternalOperation`.

### DynamicDispatch

`policy`, `decision` and `activation` are the three tables, one row per dispatch
step (a step never returns to pending, so it has one activation); `worker` is
where each worker is in `execute_activation` and the verdict it holds; `executed`
counts the executor's calls, for the properties.

| Code | Action |
|---|---|
| `register_policy`, `import_decision`, `revoke_policy`, `activate` | `RegisterPolicy`, `ImportDecision`, `RevokePolicy`, `ActivateDispatch` |
| `run_next_activation`, `execute_activation` up to the first commit | `Begin` |
| the executor's call, outside of any transaction | `ToolMissing`, or `Invoke` and then `Return` or `Raise` |
| the read of `cancellation_requested` | `Look` |
| `_finish_activation`, `_freeze_parent_receipt` | `Finish` |
| a worker process ends | `Die` |

`DispatchNext` interleaves these with every operation of `RuntimeWorkflow`. `Begin`
does not choose the oldest row: a worker may be given any activation that
`run_next_activation` could have selected before others moved. Input and output
schemas enter as the result of the executor (valid or not).

### ContinuableExtraction and SourceProjection

One operation: operations share nothing but the table. `session` is its row,
`receipt` the receipt column, `staged` the staged ranges in the order of
`staged_at`; `caller` is where each request thread is and what it read before it
called the Kernel.

| Code | Action |
|---|---|
| `create`, `create_from_kernel` | `Create` |
| `execute_next`: the read, the Kernel call (answer, failure, 413), the staging | `ExecuteNext`; `StageRange`, `KernelFails`, `SourceTooLarge` |
| `accept_staged` | `AcceptStaged`, by way of `Acceptable`, `Extended`, `Accumulate` (`accept_extraction_range`) |
| `reconcile` | `Reconcile`, then `AcceptStaged` of the oldest waiting row |
| `record_retry` | `RecordRetry` |
| `cancel`, `time_out`, `fail` | `GiveUp` |
| `_terminal_coverage`, `_receipt` | `TerminalCoverage`, `ReceiptOf` |
| a request thread dies | `Die` |

The Kernel's answer and its staging are one step, because the answer is the
thread's own until it is staged. The two reads of `reconcile` are one step: a pick
that is stale by the second ends in `AcceptStaged` like any other. Replaying an
accepted key inside `accept_extraction_range` is left out, since staging refuses
the key first. Descriptors and digests are positions; bytes are left out because
blocks have the same budget rule. `SourceProjection` says what a consumer of the
projection relies on; `ContinuableExtraction!Promise` is the refinement mapping.

### PlanOrder, PlanDispatch and ResumableRun

`PlanOrder` has the two readings of a plan's dependency graph, the cycle check of
the validator and `order_steps`. Both are one depth-first search (`Visits`), along
different edges: a step is grey while it is on the path of the search and black when
the search has left it. The validator asks whether a grey step was met,
`order_steps` also for the order in which steps were left. `PlanDispatch` describes
a run as a record (`todo`, `done`, `called`, `reports`, `outputs`, `results`,
`checks`, `status`) and each thing a step may do to it as an operator.
`ResumableRun` gives every host a place, the copy of the snapshot it read and such a
run; the hosts share the snapshot repository, the approval ledger and the artifact
storage (`stored`).

| Code | Action |
|---|---|
| `put_if_absent`, `get` | `Begin`, `Read` |
| `compare_and_set` | `Claim`, `Cancel`, `Recover`, `Save`, `SaveRefused`, by way of `Writes` and `CompareAndSet` |
| `ApprovalLedger.record` | `Decide` |
| `resume_snapshot`, `resume_plan` | `ResumeSnapshot`, `ResumePlan`, by way of `Resumes` and `Pending` |
| `Dispatcher.run`, one step | `InputMissing`, `Approval`, `Verify`, `Transform`, `NoExecutor`, `Execute` |
| the checks of the plan, the status, the manifests | `Finish` |
| the storage loses an artifact; a host dies or a verifier raises | `Lose`; `Drop` |

The repository holds the parts, not a host: when a snapshot is claimed, saved or
recovered is taken from `tests/test_approval_resume.py`,
`tests/test_snapshot_resume.py` and `examples/contracts/run_snapshot_v1.json`, and
is marked external in the map. Where these leave it open (whether the approval
that stopped a run counts as a completed step or as one to come) both are
possible. A refused plan ends its run as blocked instead of failed when the text of
the error has the word "expert" in it (dispatcher.py:354). `Refusals` says what that
text may be: schema errors quote the kind of a step, which settles the status, and the
other errors quote ids, in which the word may or may not be, so that both are possible.
Only keyed references exist; mock executors do not raise; a verifier registered under
a built-in's name is left out; a verifier that raises is a run that ends without a
result (`Drop`).

## 3. Runs

| Run | Instance and bounds | What it shows |
|---|---|---|
| `JobQueue_races` | 2 workers, 2 request threads, 1 job, 2 attempts, 2 instants, leases of length 0, payloads of length 1, deadline 0 | `TypeOK`, `RowCoherent`, `PayloadHeld`, `ResultOfLastClaim`, `AttemptBudget`, `TerminalNeverReopens` under every race of two workers and two requests (1,876,823 states) |
| `JobQueue_live` | 1 worker, 1 thread, 2 jobs that share an idempotency key, one of an unsupported operation, 3 instants, leases of length 0, payloads of length 1 | `ReconcileConverges`: jobs end although the worker may die or hang (48,813 states) |
| `JobQueue_reconcile` | as above with one job | a counterexample to `ReconcileSparesNewClaims` (section 5) |
| `ExternalOperation_recovery` | 1 workflow, 1 external step, 3 observation ids, 1 provider id or none, 4 instants, 3 queries of 2 seconds of a total of 5, 4 external calls | `TypeOK`, `OneSubmit`, `NotExecutedIsTrue`, `OneLiveQuery`, `CallsPaid`, `EvidenceIsSticky` (361,308 states) |
| `ExternalOperation_shared` | 2 workflows whose external steps name the same subject, a provider step in the first, 2 observation ids, 2 epochs, 2 instants | `CountersAgree`, `CompletedIsConfirmed`, `ConfirmedEndsStep`, `EndIsFinal`, `KeepsPromise` (198,152 states) |
| `RuntimeWorkflow_claims` | a builder (2 attempts), its check, an independent reviewer; 3 instants, readings up to 1 old, leases of 1, 2 steps at once, 3 units of runtime, one event, one report of 1 or 2 bytes where 1 fits | `TypeOK`, `ClaimsAgree`, `Metered`, `AttemptsInOrder`, `ReceiptTells`, `SupersededStays`, `LeaseIsKept` (842,934 states) |
| `DynamicDispatch_workers` | a dispatch and a reviewer step, 2 workers, one death, 3 instants, a policy that expires at the second | `DispatchTypeOK`, `ExecutedOnce`, `DispatchAgrees`, `ReceiptsAreFinal`, `ClaimedDispatchEnds` (61,099 states) |
| `DynamicDispatch_abort` | the same | a counterexample to `NotStartedIsTrue` (section 5) |
| `DynamicDispatch_reopen` | the same | a counterexample to `TerminalIsFinal` (section 5) |
| `ContinuableExtraction_ranges` | 2 pages, 3 answers of the Kernel (clean, known omission, not projectable), 2 ranges, 3 blocks, 1 retry, 2 threads, 2 keys, 1 death, endings cancelled and failed | `TypeOK`, `Accounted`, `CoverageTold`, `KeepsPromise`, `StagedIsDrained` (92,547 states) |
| `ResumableRun_hosts` | 2 hosts, 2 keys, 5 versions; 139 setups: a plan with an approval between two effects, one with checks of every kind, a lenient one, version-0 plans, an expert step in a version-1 plan, every dependency graph of three steps, a dangling dependency | `TypeOK`, `InOrder`, `ReportTells`, `OneWriterWins`, `NotRepeated` (311,464 states) |
| `ResumableRun_checks` | the plan of tests/test_approval_resume.py with an approval between its steps and a check on the first, 1 host | a counterexample to `CheckTellsTrue` (section 5) |

Why these bounds. Two workers and two threads are the smallest number in which a
stale actor meets a new claim and another stale actor; one job is enough for the
safety properties because rows interact only through the order of the queue and the
idempotency key, which the live run has. A lease of length 0 or a payload of length
1, taken at the first of two instants, has run out at the second, so every read of
the clock can fall on either side of every expiry. In the recovery run three queries
overlap in every way two claims and a third can, the last query has less than a full
reservation left, and three observations allow a confirmation, a conflict and a late
report after both. The shared run has the smallest plans in which each of the two
services can be the one that ends the workflow, with a competing workflow for the
subject. In the claims run a builder that loses its lease is attempted again while
its first holder still answers, the reviewer runs beside both, and every budget can
be the one that is spent; an instant there is any number of seconds, since only the
order of a reading, a start and an expiry counts. Two workers and a death are enough
for an activation to be claimed, lost, found again and finished twice. In the
extraction run two large ranges exceed the blocks and two ranges the count, so each
acceptance can be refused for either reason; two keys let two threads stage the same
page, one of them dying in between. In the hosts run five versions are begin, claim,
stop, claim again and end, with a second host that lags behind at each of them;
graphs of three steps have every kind of cycle, and more steps add no kind of
dependency. Bounds that are not in the code (`MaxClock`, `Lag`, `MaxHandles`,
`MaxEpoch`, `MaxDeaths`, `MaxVersion`) only stop clocks, ids, deaths and versions;
`Lag` is how long a request may wait for its lock. Deadlock is not checked: when the
bounds are used up nothing is left to do, and a queue without jobs rests as well.

Fairness is used in three runs. `FairSpec` of `JobQueue` assumes that time
passes, that a request thread finishes or dies, that the control plane repeats
reconcile for the jobs it created, and that a repeated request is not killed at
the same step each time. It assumes nothing of workers: no heartbeat, no answer of
a kernel call, no restart. `DispatchSpec` assumes that a worker that has begun an
activation goes on, which is a thread running the code: the executor returns or
raises. It does not assume that anyone calls `run_next_activation`, `reconcile` or
any other operation, since that is the host's decision; `ClaimedDispatchEnds`
therefore speaks of claimed activations, and excuses the death of a worker, after
which the code really leaves the activation as it is. `FairSpec` of
`ContinuableExtraction` assumes that a Kernel call ends (the client gives up after
60 seconds, http_client.py:63), that a thread that has staged goes on to accept,
and that the control plane repeats reconcile; the last is strong fairness, since
other calls may make the row unavailable in between. `StagedIsDrained` excuses a
row that cannot be accepted (`Jammed`): see section 5.

For each property of each passing run `PROJECT.json` ("mutants") gives a
plausible bug (a comment in the module marks the definition) that TLC finds with
that property.

## 4. Proofs

Every invariant and every action property of the passing runs is a theorem, for all
values of the constants. The head of each proof module sketches its argument;
this section says which invariants it needs and why.

**`JobQueue_proofs`**: `TypeOK`, `RowCoherent`, `ResultOfLastClaim`, `AttemptBudget`,
`TerminalNeverReopens` and `PayloadHeld`, for all jobs, workers, threads, bounds and
deadlines. Whole rows are written from what an actor read earlier, so none of the
properties is inductive. `IndInv` says of every actor's memory (`WorkerOK`,
`RequestOK`) what it says of the row (`RowOK`): a token that is held, seen or used as
a fence was drawn before; the row read under a token *is* the claim of that
token, as long as the token is the row's; what a worker is about to write is
consistent with the claim it works under; a fence is the token of the row that was
read. With that, an update that applies carries the row's own claim. `PayloadInv`
adds the files: a payload belongs to one job from its insertion on, every copy of
a row names the payload of its own job (`Owns`), and who is about to delete one has
it of a job that is over. Since terminal jobs do not reopen (`RowsKept`), no deletion
that comes late hits a payload somebody will read.

**`ExternalOperation_proofs`** has four invariants, each resting on those before.

* `IndInv`, for `OneSubmit`, `NotExecutedIsTrue`, `EvidenceIsSticky` and the refinement
  of `OneSubmission` (`PromiseKept`), relates the row of one subject to the calls
  about to be made and made: without a permit nothing was called and nothing
  observed, a conflict is open and its outcome confirmed, and a confirmed
  non-execution has no call, made or coming. The parent does not occur in it:
  `StepChanges` shows that every step allocates, permits, calls, loses the caller,
  learns from a report, or leaves all evidence alone (`Quiet`), which covers every way
  a parent may end. Each theorem then needs one case per kind of change; for the
  refinement, `StepKeepsPromise` maps each kind to a step of `OneSubmission` or to a
  stutter.
* `ParentInv`, for `CompletedIsConfirmed`, `ConfirmedEndsStep` and `EndIsFinal`: two
  services end parents, and the operation of a step may belong to another workflow.
  A workflow has a receipt exactly when it has ended; an operation names the receipt
  exactly when its own workflow has ended; a step with an operation has started,
  and ended if the outcome is confirmed. A step of the system leaves each workflow
  as it is (`Same`), goes on with it (`Goes`) or ends it with a receipt (`Ends`); `GoOn`
  and `OneEnds` show once what that preserves.
* `CountersInv`, for `CountersAgree` and `TypeOK`, counts the running steps of active
  parents, and with it no subtraction falls below zero.
* `QueryInv`, for `OneLiveQuery`: queries of one operation hold different fences, none
  later than the operation's, and a query that may still be answered holds the
  operation's claim. `PaidInv`, for `CallsPaid`: a parent's bill is the sum of what its
  operations were permitted and asked, and the queries on their way are no more than
  those that were paid for. That a parent has finitely many operations follows from
  `ParentInv`, because no step has two.

The theorems about counters, types and bills assume finitely many steps, as every
plan has.

**`RuntimeWorkflow_proofs`**: `TypeOK`, `ClaimsAgree`, `Metered`, `AttemptsInOrder`,
`ReceiptTells`, `SupersededStays` and `LeaseIsKept`, for every valid plan, all budgets,
leases, clocks and lags. `StepChanges` shows that each operation, with all the ends it
may find for the workflow, does one of four things to the tables: it admits a claim
(`Admits`), rejects expired ones (`Rejects`; none, if it only meters), ends one with
the outcome of its step (`Ends`), or stops the workflow (`Stops`). `IndInv` relates the
tables while the workflow is open: a step runs exactly when its latest attempt
is the one active claim for it, `active_steps` counts those, and outcomes are
successes, one for each succeeded step; that is what makes the receipt of a
completed workflow complete. `BookInv` is about the books: the runtime
charged is the sum of what was accounted to claims (`Ledger`), attempts are numbered
so that no check's report is registered twice (`Numbered`, `Reported`). Reconcile
charges any number of claims at once, which is where the sums of `Sums_proofs` come in.

**`DynamicDispatch_proofs`**: `DispatchTypeOK`, `ExecutedOnce`, `DispatchAgrees`,
`ReceiptsAreFinal` and, of the composition, `Metered`, for any number of workers and
deaths and all plans, policies and outputs. Of the operations on workflows it uses
`StepChanges` and what the four changes do to counters, claims and books. A worker
writes a verdict it reached from what it read before, so `DispatchInv` says of each
worker what its place tells of executor calls: claimed means not called and nobody
else claimed, running means called, a verdict with `occurred` has a call behind it.
Of each row it says that an activation nobody began has no worker on its way; so the
one transition out of `activated` is taken once.

**`ContinuableExtraction_proofs`**: `TypeOK`, `Accounted`, `CoverageTold` and the
refinement of `SourceProjection` (`PromiseKept`), for every source, all answers of
the Kernel, budgets, threads and deaths. `IndInv` says that a pending operation's
`next` is a position and the one its last range ended at; of what threads and staged
rows remember it needs only that it is an answer the Kernel gave to some position,
of whatever age, since acceptance compares positions and revisions again. `Books`
matches each accepted range to one staged row and the revision to the history;
`Told` relates the coverage that is accumulated range by range (`Accumulate`) to all
ranges at once: the disposition is that of the last lossy range, the worst OCR the
greatest of all.

**`PlanOrder_proofs`**: for every sequence of steps with unique ids and known
dependencies, the validator's cycle check and `order_steps` both refuse exactly the
graphs without a topological order, and `order_steps` otherwise returns one
(`GraphsAreRead`). The search is a recursive function that passes over the nodes
next to one with a fold. `Passes` and `Trace` say what a fold over a sequence is
after each element, `VisitsExist` that the recursion of the search has a solution (a
path grows, and there are finitely many nodes), and `VisitDoes` what a search does
to what was found before it (`Does`): one that meets no cycle leaves every node it
reached after those next to it (`Leaves`), and where a rank of the nodes falls along
every edge, as a topological order gives one, it meets none (`Ranks`).

**`ResumableRun_proofs`**: `TypeOK`, `InOrder`, `ReportTells`, `OneWriterWins` and
`NotRepeated`, for all plans, hosts, keys and versions. `IndInv` is about what hosts
keep in mind: a copy, or what the host replaced its copy by when it claimed, is older
than the snapshot or is the snapshot; and a checkpoint without a decision is under no
key, any other under exactly one. `DataOK` says what a run is at any of its steps
(`RunOK`): its plan goes on from what was completed before (`Fits`); its steps are in
an order in which dependencies come first, by `GraphsAreRead`; it has reported a
prefix of that order, of which it passed all but at most the last (`Behind`), and its
status agrees with that (`OnItsWay`, `Stopped`, `Tells`); or it ended before its first
step (`Unbegun`), because the plan was refused or has an expert step (`ExpertsBlock`),
since what the validator accepts is never refused by `order_steps` (`AcceptedIs`).
Every way a step may go reports that step, so one lemma (`ReportedOK`) covers them
all. `ClaimsOK` says who may call: at most one host at a time has claimed the snapshot
with steps left and no unknown outcome, it takes everything completed so far to be
done, and while it may call nobody can claim. `NotRepeated` needs all three: the
version tells that a claim is exclusive, the prefix that a call is of a step not done.

**Induction over data.** The library's induction theorems take an operator for the
property, which the provers cannot instantiate. `SubsetInduction` (`Sums_proofs`)
and `UpInduction` (`PlanOrder_proofs`) take a set instead, the elements that have
the property; they are proved by a least counterexample: strict inclusion is
well-founded on the subsets of a finite set, and a finite set of numbers has a
greatest. That is enough for the sums and folds of the community modules
(`SumFunctionOnSet`, `FoldLeft`) and for the recursive functions of this project;
the lemmas on each show first that the recursion has a solution (`SumsExist`,
`PassesExist`, `VisitsExist`) and then what it returns.

**Only model-checked**: `ReconcileConverges`, `ClaimedDispatchEnds` and
`StagedIsDrained`, which are liveness under fairness and out of the prover's reach.

The assumptions on constants say what the code checks or fixes: positive limits,
a plan that `validate_plan` accepts (`PlanOK` of `RuntimeWorkflow`), in
`parent_plan`, that no two steps of one workflow name the same subject, and in
`InstanceOK` of `ResumableRun`, that the plans given have the form the schema fixes
(any steps, valid or not). TLC evaluates them in every run.

## 5. Where the code and its documents disagree

* `JobQueue_reconcile`: tests/test_phase3_release_gates.py:216 wants a reconcile
  that read an older attempt never to "wipe worker B's new claim". A row read as
  *running* is fenced by its token (jobs/service.py:645); a row read as *pending*
  is not, so a worker that claims the job between the read and the write loses a
  fresh claim.
* `DynamicDispatch_abort`: docs/dynamic-dispatch/SEMANTICS.md:136 gives a "clean
  abort" `execution_occurred=false`; a policy revoked while the executor runs
  lets a second worker write that receipt (dynamic_dispatch/service.py:821), and
  the first worker's result is dropped.
* `DynamicDispatch_reopen`: docs/runtime-provider-workflow/README.md:60 says that
  what comes after a cancellation will "never advance workflow state"; a dispatch
  that finishes later writes `failed` or even `running` over it
  (dynamic_dispatch/service.py:1148).
* `ResumableRun_checks`: schemas/plan.schema.json:80 supports `step_completed:<id>`
  as a check of a plan, and README.md:47 a "Replay-safe pending-only snapshot
  resume". The resumed run has the pending steps only but all checks of the plan
  (dispatcher.py:103), so a check on a step completed before the checkpoint fails.
  In the run's plan an approval lies between `already_written` and `after_approval`,
  and the plan checks that `already_written` is completed, with `fail_action: stop` as
  in examples/plans/execution_plan_v1_minimal.json:40. Resumed after the approval, with
  `already_written` and the approval as completed, the run completes `after_approval`,
  its last step, and ends as `failed` by that check alone. (The example plan itself has
  nothing to do after its approval, and does not get that far: see the end of this
  section.)

Two more were met while modelling and have no run:
docs/external-operations/CONTRACT.md:65 promises that "Identical replay is
idempotent", but a report stored with no provider id is refused when it is replayed
after another report named the id (contracts/external_operations/validation.py:271);
and docs/runtime-provider-workflow/README.md:52 counts event bytes "in the same
transaction as the metered record", but a tool event refused for the
external-operation budget has its bytes in the counters and in the receipt
(runtime_workflows/service.py:594) and is never stored.

The models also show behaviour that no document speaks against, which is why
no run is about it: a job whose last lease ran out waits as pending, with no
attempt left, for its deadline; a failed step ends the workflow but leaves the
claims of other steps active in the table and in `active_steps` (they can do
nothing any more); provider steps are admitted by counting claims and dispatch
steps by `active_steps`, so both kinds together may pass `max_concurrent_steps`;
runtime of dispatches is added to the total without a comparison with a budget; a
dispatch that is the last step to succeed leaves the workflow `running`; a worker
may claim an activation after its workflow was cancelled; an activation whose
worker died while executing keeps that status and has no receipt. Of extractions:
an oldest staged row that does not fit the budgets makes every reconcile raise,
until a retry or an end changes the revision; ranges with known omissions before
the last one may still end `completed`, with the omissions listed; a last range
with a known omission replaces the disposition of an earlier unknown loss, not the
loss itself; an operation cancelled between the read and the Kernel call still
makes the call. Of plan runs: a checkpoint that keeps the approval among its
pending steps, as the example snapshot does, blocks again after the approval; one
that counts it as completed with nothing else pending resumes a plan without
steps, which fails; `approval_required` on a tool step is not looked at;
a resume drops dependencies on unknown steps, which a first run refuses; one
decision resumed twice by hosts that do not claim the snapshot executes twice
(CAPABILITY_REQUESTS.md:144 leaves that to the host); checks inside a version-0
verification step always translate to a plan the validator refuses.

## 6. Not modelled

The plan is done: the eight specifications above, the two abstract ones
(`OneSubmission`, `SourceProjection`) and eight modules of proofs, which state every
invariant and action property of the runs. What is left out, and why:

* **In modelled components.** `JobQueue`: the kernel operation a worker runs, and
  digests of payloads. `ExternalOperation`: registration of subjects and approvals,
  which happens before the workflow exists and never changes, and the checks that
  can only refuse. `ResumableRun`: `events.py` (an append-only list in memory),
  `storage.py` (a protocol), and `InMemoryDecisionRepository`, whose `record_once` has
  the rule of `ApprovalLedger.record`. `PlanDispatch`: loading of plans and registries,
  what executors do, and what manifests say beyond statuses. `RuntimeWorkflow` is
  run with plans without a repair step.
* **Documents** of the core and of the contracts: immutable values, validated
  by JSON schemas; only the semantic checks of plans are modelled.
* **HTTP routing, parsing, authentication**: no state of their own. That each request
  is a thread is in every module that has callers.
* **Planners, manifests, command line**: sequential file I/O that calls the
  other components once.
* **Adapters**: stateless conversion by external programs.

Four hazards of `PROJECT.json` have no property: losing the race of `create` after
staging (jobs/service.py:273), which leaves a file to the expiry of the staging
directory; a cancel that finalizes from a row read earlier (jobs/service.py:521),
where no document says which should win; the two limits on concurrent steps
(runtime_workflows/service.py:444); and a dispatch as the last step
(runtime_workflows/service.py:689), which leaves the workflow running with no
document that promises otherwise. Their notes say more. What would come next is an
abstract specification of dispatches, and of one snapshot that hosts share.
