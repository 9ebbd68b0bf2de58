---------------------------- MODULE ResumableRun ----------------------------
(***************************************************************************)
(* Runs of one plan that stop for an approval and are resumed              *)
(* (runtime.py, approval.py and snapshots.py of the core, over             *)
(* Dispatcher.run).                                                        *)
(*                                                                         *)
(* Hosts share a snapshot repository with optimistic versions, a decision  *)
(* ledger and the artifact storage.  What a host does between those calls  *)
(* is its own: this one claims the snapshot before it works on the plan,   *)
(* writes what came of it, and another that finds a run left behind writes *)
(* the outcome of its pending steps as unknown.  Beside it anybody with a  *)
(* checkpoint and an approved decision may call resume_plan.               *)
(***************************************************************************)
EXTENDS PlanDispatch

CONSTANTS
    Setups,     \* what a host may have set up: [plan, mock, missing]
    Host,
    Key,        \* idempotency keys of decisions
    MaxVersion  \* bound: versions of the snapshot

ASSUME InstanceOK ==
    /\ Setups \subseteq [plan : Plans, mock : BOOLEAN, missing : {"fail", "review"}]
    /\ MaxVersion \in Nat \ {0}

VARIABLES
    setup,
    snapshot,   \* the snapshot in the repository
    checkpoints,\* the checkpoints made so far; the id of one is its place
    byKey,      \* the ledger
    byCheckpoint,
    stored,     \* steps whose artifacts are in the storage, as they were
    host,       \* where each host is, its copy of the snapshot, its run
    finished    \* steps that a run under the snapshot's claim has completed

vars == <<setup, snapshot, checkpoints, byKey, byCheckpoint, stored, host, finished>>

-----------------------------------------------------------------------------
(* Data                                                                    *)

StepIds == IdsOf(setup.plan.steps)

NoDecision == [verdict |-> "none", checkpoint |-> 0]

NoSnapshot == [version |-> 0]

\* The transitions between run states that a host's writes keep to.
CanTransition(src, dst) ==
    dst \in
        CASE src = "running" ->
                {"awaiting_tool", "awaiting_approval", "completed",
                 "completed_with_review", "failed", "blocked", "cancelled", "timed_out"}
          [] src = "awaiting_approval" ->
                {"running", "completed_with_review", "failed", "blocked",
                 "cancelled", "timed_out"}
          [] OTHER -> {}

\* Only the steps that can be next are pending (a mutant).
CheckpointOfNext(completed) ==
    [completed |-> completed,
     pending |-> {s \in StepIds \ completed :
                    ToSet(DepsOf(setup.plan.steps, s)) \subseteq completed}]

\* create_checkpoint, for completed steps of the plan.
Checkpoint(completed) == [completed |-> completed, pending |-> StepIds \ completed]

\* create_run_snapshot: receipts tell which steps were successful, which have
\* an unknown outcome, and for which outputs are bound to artifacts.
Snapshot(version, state, id, checkpoint, unknown, bound) ==
    [version |-> version, state |-> state, id |-> id, status |-> "pending",
     checkpoint |-> checkpoint, unknown |-> unknown, bound |-> bound]

\* validate_run_snapshot (its checks across fields).
ValidSnapshot(s) ==
    /\ s.checkpoint.completed \cap s.checkpoint.pending = {}
    /\ s.unknown \cap s.checkpoint.completed = {}
    /\ s.bound \subseteq s.checkpoint.completed

Idle == [pc |-> "idle", copy |-> NoSnapshot, mode |-> "none",
         run |-> NewRun([version |-> "none"], {})]

-----------------------------------------------------------------------------
(* The repository and the ledger                                           *)

\* compare_and_set on whatever version is there (a mutant).
CompareAndSetAnyVersion(expected, new) ==
    /\ ValidSnapshot(new)
    /\ snapshot # NoSnapshot
    /\ snapshot' = [new EXCEPT !.version = snapshot.version + 1]

\* compare_and_set that returns true: the version is the expected one, and the
\* new one the next.
CompareAndSet(expected, new) ==
    /\ ValidSnapshot(new)
    /\ snapshot # NoSnapshot /\ snapshot.version = expected
    /\ new.version = expected + 1
    /\ snapshot' = new

\* It returns false.
Overtaken(expected) == snapshot.version # expected

\* ApprovalLedger.record, for a decision that fits its checkpoint; replays and
\* conflicts change nothing.
Decide(key, id, verdict) ==
    /\ byKey[key] = NoDecision
    /\ byCheckpoint[id] = NoDecision
    /\ byKey' = [byKey EXCEPT ![key] = [verdict |-> verdict, checkpoint |-> id]]
    /\ byCheckpoint' = [byCheckpoint EXCEPT ![id] = [verdict |-> verdict, checkpoint |-> id]]
    /\ UNCHANGED <<setup, snapshot, checkpoints, stored, host, finished>>

\* The artifact of a step is lost from the storage, or is no longer what the
\* snapshot says.
Lose(s) ==
    /\ s \in stored
    /\ snapshot # NoSnapshot /\ s \in snapshot.bound
    /\ stored' = stored \ {s}
    /\ UNCHANGED <<setup, snapshot, checkpoints, byKey, byCheckpoint, host, finished>>

-----------------------------------------------------------------------------
(* Resuming                                                                *)

\* The elements of s that are in keep, in their order.
Kept(s, keep) ==
    Through([x \in ToSet(s) |-> [kept \in Seq(ToSet(s)) |->
                IF x \in keep THEN Append(kept, x) ELSE kept]],
            <<>>, s)

\* The resumed plan still holds the completed steps (a mutant).
PendingWithCompleted(plan, checkpoint) == plan

\* build_resumed_plan, for an approved decision on this checkpoint of this plan.
Pending(plan, checkpoint) ==
    LET left == Kept(plan.steps, {step \in ToSet(plan.steps) :
                                    step.id \in checkpoint.pending})
    IN  [plan EXCEPT !.steps = [i \in DOMAIN left |->
            [left[i] EXCEPT !.deps = Kept(@, checkpoint.pending)]]]

\* _materialize_completed_value over all inputs: references to completed steps
\* become values, the others stay.
Materialized(plan, completed) ==
    [plan EXCEPT !.steps = [i \in DOMAIN plan.steps |->
        [plan.steps[i] EXCEPT !.needs = @ \ completed]]]

\* Ambiguous outcomes are not looked for (a mutant).
ResumesAnyOutcome(s, plan) ==
    /\ ValidSnapshot(s)
    /\ s.state = "awaiting_approval" /\ s.status = "pending"
    /\ byCheckpoint[s.id].verdict = "approved"
    /\ s.bound \subseteq stored

\* resume_snapshot raises nothing before it runs the plan: the snapshot waits
\* for an approval which was given, no outcome is ambiguous, the bound artifacts
\* are what they were, and hold what pending steps refer to.
Resumes(s, plan) ==
    /\ ValidSnapshot(s)
    /\ s.state = "awaiting_approval" /\ s.status = "pending"
    /\ s.unknown = {}
    /\ byCheckpoint[s.id].verdict = "approved"
    /\ s.bound \subseteq stored
    /\ \A i \in DOMAIN plan.steps :
        plan.steps[i].id \in s.checkpoint.pending =>
            plan.steps[i].needs \cap s.checkpoint.completed \subseteq s.bound

-----------------------------------------------------------------------------
(* Hosts                                                                   *)

Goto(h, pc) == host' = [host EXCEPT ![h].pc = pc]

Leave(h) == host' = [host EXCEPT ![h] = Idle]

\* The first host to put the snapshot runs the plan.
Begin(h) ==
    LET first == Snapshot(1, "running", 1, Checkpoint({}), {}, {})
    IN  /\ host[h] = Idle
        /\ snapshot = NoSnapshot
        /\ ValidSnapshot(first)
        /\ snapshot' = first
        /\ checkpoints' = <<first.checkpoint>>
        /\ \E run \in Started(setup.plan, setup.mock, {}) :
                host' = [host EXCEPT ![h] =
                    [pc |-> "running", copy |-> first, mode |-> "claimed", run |-> run]]
        /\ UNCHANGED <<setup, byKey, byCheckpoint, stored, finished>>

Read(h) ==
    /\ host[h] = Idle
    /\ snapshot # NoSnapshot
    /\ host' = [host EXCEPT ![h].pc = "deciding", ![h].copy = snapshot]
    /\ UNCHANGED <<setup, snapshot, checkpoints, byKey, byCheckpoint, stored, finished>>

\* A host writes the snapshot that follows its copy, or finds it overtaken.
Writes(h, new, pc) ==
    LET copy == host[h].copy
    IN  /\ CanTransition(copy.state, new.state)
        /\ copy.version < MaxVersion
        /\ \/ CompareAndSet(copy.version, new) /\ Goto(h, pc)
           \/ Overtaken(copy.version) /\ Leave(h) /\ UNCHANGED snapshot

\* A run that waits for its approval is claimed, with a decision at hand.
Claim(h) ==
    LET copy == host[h].copy
    IN  /\ host[h].pc = "deciding"
        /\ copy.state = "awaiting_approval"
        /\ byCheckpoint[copy.id].verdict = "approved"
        /\ Writes(h, [copy EXCEPT !.version = @ + 1, !.state = "running"], "claimed")
        /\ UNCHANGED <<setup, checkpoints, byKey, byCheckpoint, stored, finished>>

Cancel(h) ==
    LET copy == host[h].copy
    IN  /\ host[h].pc = "deciding"
        /\ Writes(h, [copy EXCEPT !.version = @ + 1, !.state = "cancelled",
                                  !.status = "cancelled"], "over")
        /\ UNCHANGED <<setup, checkpoints, byKey, byCheckpoint, stored, finished>>

\* A run that is nobody's any more, as far as the host can tell: each step it
\* may have called has an unknown outcome.
Recover(h) ==
    LET copy == host[h].copy
    IN  /\ host[h].pc = "deciding"
        /\ copy.state = "running"
        /\ Writes(h, [copy EXCEPT !.version = @ + 1, !.state = "awaiting_approval",
                                  !.unknown = copy.checkpoint.pending], "over")
        /\ UNCHANGED <<setup, checkpoints, byKey, byCheckpoint, stored, finished>>

\* resume_snapshot, with the copy the host has claimed.
ResumeSnapshot(h) ==
    LET copy == host[h].copy
        done == copy.checkpoint.completed
        resumed == Materialized(Pending(setup.plan, copy.checkpoint), done)
    IN  /\ host[h].pc = "claimed"
        /\ \E run \in IF Resumes(copy, setup.plan)
                       THEN Started(resumed, setup.mock, done) ELSE {host[h].run} :
            host' = [host EXCEPT
                ![h].copy.version = @ + 1,
                ![h].copy.state = "running",
                ![h].pc = IF Resumes(copy, setup.plan) THEN "running" ELSE "refused",
                ![h].mode = "claimed",
                ![h].run = run]
        /\ UNCHANGED <<setup, snapshot, checkpoints, byKey, byCheckpoint, stored, finished>>

\* resume_plan, with a checkpoint somebody kept.
ResumePlan(h, id) ==
    /\ host[h] = Idle
    /\ byCheckpoint[id].verdict = "approved"
    /\ \E run \in Started(Pending(setup.plan, checkpoints[id]), setup.mock,
                          checkpoints[id].completed) :
            host' = [host EXCEPT ![h].pc = "running", ![h].mode = "free", ![h].run = run]
    /\ UNCHANGED <<setup, snapshot, checkpoints, byKey, byCheckpoint, stored, finished>>

\* The host writes what came of its run.  A run that stopped at an approval
\* waits for it at a new checkpoint; whether the approval is a step to come or
\* one that the decision completes is the host's to say.
Save(h) ==
    LET copy == host[h].copy
        run == host[h].run
        done == run.base \cup run.done
        gates == {s \in StepIds \ done : StepOf(setup.plan.steps, s).kind
                                            \in {"approval", "human_input"}
                        /\ [id |-> s, status |-> "blocked"] \in ToSet(run.reports)}
    IN  /\ host[h].pc = "running" /\ host[h].mode = "claimed" /\ run.ended
        /\ IF run.status = "blocked" /\ gates # {}
           THEN \E passed \in {{}, gates} :
                    LET id == Len(checkpoints) + 1
                        new == Snapshot(copy.version + 1, "awaiting_approval", id,
                                        Checkpoint(done \cup passed), {},
                                        copy.bound \cup run.outputs)
                    IN  /\ Writes(h, new, "over")
                        /\ checkpoints' = IF snapshot' = snapshot THEN checkpoints
                                          ELSE Append(checkpoints, new.checkpoint)
           ELSE /\ Writes(h, [copy EXCEPT !.version = @ + 1, !.state = run.status], "over")
                /\ UNCHANGED checkpoints
        /\ UNCHANGED <<setup, byKey, byCheckpoint, stored, finished>>

\* resume_snapshot raised: the run failed before it began.
SaveRefused(h) ==
    /\ host[h].pc = "refused"
    /\ Writes(h, [host[h].copy EXCEPT !.version = @ + 1, !.state = "failed"], "over")
    /\ UNCHANGED <<setup, checkpoints, byKey, byCheckpoint, stored, finished>>

\* A host dies, a verifier raises in its run, or it is done and comes back.
Drop(h) ==
    /\ host[h] # Idle
    /\ Leave(h)
    /\ UNCHANGED <<setup, snapshot, checkpoints, byKey, byCheckpoint, stored, finished>>

-----------------------------------------------------------------------------
(* The steps of a run                                                      *)

AtStep(h) == host[h].pc = "running" /\ host[h].run.todo # <<>>

NextStep(h) == Head(host[h].run.todo)

\* The run goes on as new; what it completes under a claim is remembered.
Goes(h, new) ==
    /\ host' = [host EXCEPT ![h].run = new]
    /\ finished' = IF host[h].mode = "claimed" THEN finished \cup new.done ELSE finished
    /\ UNCHANGED <<setup, snapshot, checkpoints, byKey, byCheckpoint, stored>>

InputMissing(h) ==
    /\ AtStep(h)
    /\ ~Resolved(host[h].run)
    /\ Goes(h, Break(host[h].run, "failed"))

Approval(h) ==
    LET run == host[h].run
    IN  /\ AtStep(h) /\ Resolved(run)
        /\ NextStep(h).kind = "approval"
        /\ Goes(h, IF setup.mock \/ ~ApprovalRequired(NextStep(h), run.plan)
                   THEN Passed(run, "mocked") ELSE Break(run, "blocked"))

Verify(h) ==
    LET run == host[h].run
    IN  /\ AtStep(h) /\ Resolved(run)
        /\ NextStep(h).kind = "verify"
        /\ \E results \in Evaluations(NextStep(h).checks, run.done, setup.missing) :
                Goes(h, Verified(run, results))

Transform(h) ==
    LET run == host[h].run
    IN  /\ AtStep(h) /\ Resolved(run)
        /\ NextStep(h).kind = "transform"
        /\ Goes(h, IF setup.mock THEN Passed(run, "mocked") ELSE Break(run, "failed"))

\* A tool without an executor: mocked if that is allowed, or the run fails.
NoExecutor(h) ==
    LET run == host[h].run
    IN  /\ AtStep(h) /\ Resolved(run)
        /\ NextStep(h).kind = "tool" /\ NextStep(h).tool # "executor"
        /\ Goes(h, IF Mockable(NextStep(h), setup.mock)
                   THEN Passed(run, "mocked") ELSE Break(run, "failed"))

Execute(h) ==
    /\ AtStep(h) /\ Resolved(host[h].run)
    /\ NextStep(h).kind = "tool" /\ NextStep(h).tool = "executor"
    /\ \E outcome \in {"ok", "short", "raises", "bad_refs"} :
            Goes(h, Executed(host[h].run, outcome))

\* The checks of the plan, the status and the manifests.
Finish(h) ==
    LET run == host[h].run
    IN  /\ host[h].pc = "running" /\ ~run.ended /\ run.todo = <<>>
        /\ \E results \in Evaluations(run.plan.checks, run.done, setup.missing) :
                Goes(h, Ended(run, results))

-----------------------------------------------------------------------------

Init ==
    /\ setup \in Setups
    /\ snapshot = NoSnapshot
    /\ checkpoints = <<>>
    /\ byKey = [k \in Key |-> NoDecision]
    /\ byCheckpoint = [id \in 1 .. MaxVersion |-> NoDecision]
    /\ stored = StepIds
    /\ host = [h \in Host |-> Idle]
    /\ finished = {}

Dispatch(h) ==
    \/ InputMissing(h)
    \/ Approval(h)
    \/ Verify(h)
    \/ Transform(h)
    \/ NoExecutor(h)
    \/ Execute(h)
    \/ Finish(h)

Next ==
    \/ \E k \in Key, id \in DOMAIN checkpoints, verdict \in {"approved", "rejected"} :
            Decide(k, id, verdict)
    \/ \E s \in stored : Lose(s)
    \/ \E h \in Host :
        \/ Begin(h)
        \/ Read(h)
        \/ Claim(h)
        \/ Cancel(h)
        \/ Recover(h)
        \/ ResumeSnapshot(h)
        \/ \E id \in DOMAIN checkpoints : ResumePlan(h, id)
        \/ Dispatch(h)
        \/ Save(h)
        \/ SaveRefused(h)
        \/ Drop(h)

Spec == Init /\ [][Next]_vars

-----------------------------------------------------------------------------
(* Properties                                                              *)

\* Checkpoints are partitions of the plan, snapshots are valid, and runs report
\* each step once.
TypeOK ==
    /\ snapshot.version \in 0 .. MaxVersion
    /\ snapshot # NoSnapshot =>
        /\ ValidSnapshot(snapshot)
        /\ snapshot.checkpoint = checkpoints[snapshot.id]
    /\ \A id \in DOMAIN checkpoints :
        /\ checkpoints[id].completed \cup checkpoints[id].pending = StepIds
        /\ checkpoints[id].completed \cap checkpoints[id].pending = {}
    /\ finished \subseteq StepIds
    /\ \A h \in Host :
        LET run == host[h].run
        IN  /\ run.status \in RunStatus
            /\ \A i, j \in DOMAIN run.reports :
                /\ run.reports[i].status \in StepStatus
                /\ run.reports[i].id = run.reports[j].id => i = j

\* Whatever is resumed from whichever checkpoint, no step is called or passed
\* before all steps it depends on in the plan as the host gave it.  (A resume
\* drops dependencies on steps that do not exist, which a first run refuses.)
InOrder ==
    /\ snapshot = NoSnapshot => GraphIsRead(setup.plan.steps)
    /\ \A h \in Host :
        LET run == host[h].run
            passed(i) == {run.reports[j].id : j \in 1 .. i}
        IN  /\ run.done \cup run.called \subseteq passed(Len(run.reports))
            /\ \A i \in DOMAIN run.reports :
                run.reports[i].id \in run.done \cup run.called =>
                    ToSet(DepsOf(setup.plan.steps, run.reports[i].id)) \cap StepIds
                        \subseteq run.base \cup (passed(i - 1) \cap run.done)

\* The status in a run's manifest agrees with its reports and checks: completed
\* means that every step of the plan was really executed and every check
\* passed, and anything short of that that is not an end is marked for review.
\* A run with reports is blocked exactly if its last step is; one without any
\* had a plan that is refused, since order_steps raises on no other; and a plan
\* with an expert step nobody may stand in for is always blocked.
ReportTells ==
    \A h \in Host :
        LET run == host[h].run
            n == Len(run.reports)
            passed == {i \in 1 .. n : run.reports[i].status \in {"completed", "mocked"}}
            verdicts == ToSet(run.results) \cup ToSet(run.checks)
            stopped == \E i \in DOMAIN run.checks :
                            run.checks[i] = "fail" /\ run.plan.checks[i].stop
            whole == /\ run.plan.steps # <<>>
                     /\ {run.reports[i].id : i \in passed} = IdsOf(run.plan.steps)
            clean == /\ \A i \in passed : run.reports[i].status = "completed"
                     /\ verdicts \subseteq {"pass"}
        IN  run.ended =>
            /\ run.status = "completed" <=> whole /\ clean
            /\ run.status = "completed_with_review" <=> whole /\ ~clean /\ ~stopped
            /\ n > 0 => (run.status = "blocked" <=> run.reports[n].status = "blocked")
            /\ n = 0 => run.status \in {"failed", "blocked"} /\ Refused(run.plan)
            /\ Experts(run.plan) # {} /\ (run.plan.version = "v1" \/ ~setup.mock) =>
                    run.status = "blocked"
            /\ passed \in {1 .. n, 1 .. n - 1}
            /\ run.done = {run.reports[i].id : i \in passed}

\* The snapshot is replaced by its next version, by a host that has read it.
Replaced ==
    snapshot' # snapshot =>
        \/ snapshot = NoSnapshot
        \/ /\ snapshot'.version = snapshot.version + 1
           /\ \E h \in Host : host[h].copy = snapshot /\ host'[h] # host[h]

\* A decision stays, and is the only one for its key and for its checkpoint.
DecidedOnce ==
    /\ \A k \in Key : byKey[k] # NoDecision => byKey'[k] = byKey[k]
    /\ \A id \in DOMAIN byCheckpoint :
        /\ byCheckpoint[id] # NoDecision => byCheckpoint'[id] = byCheckpoint[id]
        /\ Cardinality({k \in Key : byKey'[k].checkpoint = id}) =
                IF byCheckpoint'[id] = NoDecision THEN 0 ELSE 1

\* Of the hosts that write the snapshot from one version, one does, and it has
\* read what it replaces; a decision is one for its checkpoint and its key, and
\* stays.
OneWriterWins == [][Replaced /\ DecidedOnce]_vars

\* A step that a host calls in this step was not completed before its run, nor by
\* another that claimed the snapshot.
CallsOnce ==
    \A h \in Host, s \in StepIds :
        s \in host'[h].run.called \ host[h].run.called =>
            /\ s \notin host[h].run.base
            /\ host[h].mode = "claimed" => s \notin finished

\* No run calls the executor of a step its checkpoint has as completed; and
\* among the runs that claim the snapshot first, whichever hosts die, recover
\* or come late, none calls that of a step another has completed.
NotRepeated == [][CallsOnce]_vars

\* When a run has ended as failed although, with what was completed before it,
\* all steps of the plan are completed, a check failed it that is not about the
\* completion of one of these steps.
CheckTellsTrue ==
    \A h \in Host :
        LET run == host[h].run
            completed == run.base \cup run.done
        IN  run.ended /\ run.status = "failed" /\ run.reports # <<>> /\ completed = StepIds =>
                \E i \in DOMAIN run.checks :
                    LET check == run.plan.checks[i]
                    IN  /\ run.checks[i] = "fail" /\ check.stop
                        /\ ~(check.kind = "step_completed" /\ check.step \in completed)
=============================================================================
