---------------------------- MODULE PlanDispatch ----------------------------
(***************************************************************************)
(* Dispatcher.run (dispatcher.py): one plan, one thread, one step after    *)
(* the other.  What a run has come to is a record; the operators below     *)
(* give the record after each thing that can happen in a run.              *)
(***************************************************************************)
EXTENDS PlanOrder

\* What the host has set up: the plan it was given, whether mocks are allowed,
\* and the policy for checks nobody registered a verifier for.
\*   [plan : [version, steps, checks, default], mock : BOOLEAN,
\*    missing : {"fail", "review"}]
\* A step is [id, kind, deps, needs, policy, tool, checks]: needs are the steps
\* whose named outputs its inputs refer to, tool tells what is registered for
\* its tool: an "executor", only a "skill", or nothing ("unknown"); a step may name
\* none ("unnamed").  A check is [kind, step, stop].

StepKinds == {"tool", "approval", "transform", "verify"}

LegacyKinds == {"skill", "fixture", "human_input", "verification", "expert"}

Verdicts == {"pass", "fail", "review"}

PlanChecks ==
    [kind : {"step_completed", "file_exists", "always_review", "verifier", "unregistered"},
     step : STRING, stop : BOOLEAN]

PlanSteps ==
    [id : STRING, kind : StepKinds \cup LegacyKinds, deps : Seq(STRING),
     needs : SUBSET STRING, policy : {"none", "yes", "no"},
     tool : {"executor", "skill", "stand_in", "unknown", "unnamed"},
     checks : Seq(PlanChecks)]

Plans ==
    [version : {"v0", "v1"}, steps : Seq(PlanSteps), checks : Seq(PlanChecks),
     default : {"none", "yes", "no"}]

RunStatus == {"completed", "completed_with_review", "failed", "blocked"}

StepStatus == {"completed", "mocked", "failed", "blocked"}

\* A run at its beginning; base is what was completed before it.
NewRun(plan, base) ==
    [plan |-> plan, base |-> base, todo |-> <<>>, done |-> {}, outputs |-> {},
     called |-> {}, reports |-> <<>>, results |-> <<>>, checks |-> <<>>,
     status |-> "completed", ended |-> FALSE]

-----------------------------------------------------------------------------
(* Before the first step                                                   *)

\* translate_plan_v0_to_v1.  The checks of a verification step are not taken
\* along, so that the translated plan is invalid.
TranslatedStep(step) ==
    [step EXCEPT
        !.kind = CASE step.kind \in {"skill", "fixture"} -> "tool"
                   [] step.kind = "human_input" -> "approval"
                   [] step.kind = "verification" -> "verify",
        !.policy = IF step.kind = "human_input" THEN "yes" ELSE "none",
        !.checks = <<>>]

\* The demo rewrite of experts that normalize_plan_to_v1 makes with mocks.
Rewritten(step) ==
    IF step.kind # "expert" THEN step
    ELSE [step EXCEPT !.kind = "skill",
                      !.tool = IF @ = "unnamed" THEN "stand_in" ELSE @]

\* No CompatError: the translation knows each kind, and tools have a name.
Translatable(steps) ==
    \A i \in DOMAIN steps :
        /\ steps[i].kind \in LegacyKinds \ {"expert"}
        /\ steps[i].kind \in {"skill", "fixture"} => steps[i].tool # "unnamed"

Experts(plan) == {i \in DOMAIN plan.steps : plan.steps[i].kind = "expert"}

\* normalize_plan_to_v1 for a plan it does not refuse.
Normalized(plan) ==
    IF plan.version = "v1" THEN plan
    ELSE [plan EXCEPT
            !.version = "v1",
            !.default = "none",
            !.steps = [i \in DOMAIN plan.steps |->
                        TranslatedStep(Rewritten(plan.steps[i]))]]

Untranslatable(plan) ==
    /\ plan.version = "v0"
    /\ ~Translatable([i \in DOMAIN plan.steps |-> Rewritten(plan.steps[i])])

\* normalize_plan_to_v1 raises.
Refused(plan) == Untranslatable(plan) \/ ~Valid(Normalized(plan).steps)

\* A refused plan fails (a mutant).
RefusalFails(plan) == {"failed"}

\* The statuses of a run whose plan is refused: blocked if the word "expert" is
\* in the text of the error.  A schema error names the kind of the step and not
\* its id; the other errors name ids, in which the word may be.
Refusals(plan) ==
    IF plan.version = "v1" /\ Experts(plan) # {} THEN {"blocked"}
    ELSE IF ~Untranslatable(plan) /\ ~WellFormed(Normalized(plan).steps) THEN {"failed"}
    ELSE {"failed", "blocked"}

\* _empty_failure: a manifest without verification.
EmptyFailure(run, status, reports) ==
    [run EXCEPT !.status = status, !.reports = reports, !.ended = TRUE]

\* What Dispatcher.run has come to before its loop: the runs it can be.
Started(plan, mock, base) ==
    LET run == NewRun(plan, base)
    IN  IF plan.version = "v0" /\ ~mock /\ Experts(plan) # {}
        THEN {EmptyFailure(run, "blocked",
                <<[id |-> plan.steps[Min(Experts(plan))].id, status |-> "blocked"]>>)}
        ELSE IF Refused(plan)
        THEN {EmptyFailure(run, status, <<>>) : status \in Refusals(plan)}
        ELSE IF Unordered(Normalized(plan).steps)
        THEN {EmptyFailure(run, "failed", <<>>)}
        ELSE {[run EXCEPT !.plan = Normalized(plan),
                          !.todo = Sorted(Normalized(plan).steps)]}

-----------------------------------------------------------------------------
(* One step                                                                *)

Resolved(run) == Head(run.todo).needs \subseteq run.outputs

ApprovalRequired(step, plan) ==
    IF step.policy # "none" THEN step.policy = "yes"
    ELSE IF plan.default # "none" THEN plan.default = "yes"
    ELSE step.kind = "approval"

\* The step ends the run.
Break(run, status) ==
    [run EXCEPT !.status = status, !.todo = <<>>,
                !.reports = Append(@, [id |-> Head(run.todo).id, status |-> status])]

\* At most the status of a run that was completed so far.
Reviewed(status) == IF status = "completed" THEN "completed_with_review" ELSE status

\* The step is behind the run, and its outputs can be referred to.
Passed(run, status) ==
    LET id == Head(run.todo).id
    IN  [run EXCEPT !.done = @ \cup {id}, !.todo = Tail(@),
                    !.outputs = @ \cup {id},
                    !.status = IF status = "mocked" THEN Reviewed(@) ELSE @,
                    !.reports = Append(@, [id |-> id, status |-> status])]

\* _evaluate_check: the statuses a check can have.  A file may exist or not; a
\* registered verifier says what it likes, and fails the check when its result
\* is malformed or another's.
Statuses(check, done, missing) ==
    CASE check.kind = "step_completed" -> {IF check.step \in done THEN "pass" ELSE "fail"}
      [] check.kind = "file_exists" -> {"pass", "fail"}
      [] check.kind = "always_review" -> {"review"}
      [] check.kind = "verifier" -> {"pass", "fail", "review"}
      [] check.kind = "unregistered" -> {missing}

Evaluations(checks, done, missing) ==
    {f \in [DOMAIN checks -> Verdicts] :
        \A i \in DOMAIN checks : f[i] \in Statuses(checks[i], done, missing)}

\* A verify step whose checks came out as results says.
Verified(run, results) ==
    LET seen == [run EXCEPT !.results = @ \o results]
    IN  IF "fail" \in ToSet(results) THEN Break(seen, "failed")
        ELSE [Passed(seen, "completed") EXCEPT
                !.outputs = run.outputs,
                !.status = IF "review" \in ToSet(results) THEN Reviewed(@) ELSE @]

\* An executor was called for the step, and came back with outcome: "ok", "short"
\* (the outputs others refer to are not among its own), "raises" or "bad_refs"
\* (artifacts without a valid storage identity, or not in the storage).
Executed(run, outcome) ==
    LET called == [run EXCEPT !.called = @ \cup {Head(run.todo).id}]
    IN  CASE outcome = "ok" -> Passed(called, "completed")
          [] outcome = "short" -> [Passed(called, "completed") EXCEPT !.outputs = run.outputs]
          [] outcome \in {"raises", "bad_refs"} -> Break(called, "failed")

Mockable(step, mock) == mock /\ step.tool \in {"skill", "stand_in"}

-----------------------------------------------------------------------------
(* After the last step                                                     *)

\* Every failed check fails the run (a mutant).
FinalStatusStrict(run, results) ==
    LET all == ToSet(run.results) \cup ToSet(results)
        clean == run.status \in {"completed", "completed_with_review"}
    IN  IF "fail" \in all THEN IF clean THEN "failed" ELSE run.status
        ELSE IF "review" \in all THEN Reviewed(run.status)
        ELSE run.status

\* What the run's status becomes when the checks of the plan came out as
\* results says.
FinalStatus(run, results) ==
    LET all == ToSet(run.results) \cup ToSet(results)
        stopping == \E i \in DOMAIN results :
                        results[i] = "fail" /\ run.plan.checks[i].stop
        clean == run.status \in {"completed", "completed_with_review"}
    IN  IF "fail" \in all
        THEN IF ~clean THEN run.status
             ELSE IF stopping THEN "failed" ELSE "completed_with_review"
        ELSE IF "review" \in all THEN Reviewed(run.status)
        ELSE run.status

Ended(run, results) ==
    [run EXCEPT !.checks = results, !.status = FinalStatus(run, results), !.ended = TRUE]
=============================================================================
