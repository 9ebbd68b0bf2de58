--------------------------- MODULE MCResumableRun ---------------------------
(* Small instances of ResumableRun for TLC. *)
EXTENDS ResumableRun

\* A step of any kind, one that calls an executor, and a check.
AStep(id, kind, deps, tool) ==
    [id |-> id, kind |-> kind, deps |-> deps, needs |-> {}, policy |-> "none",
     tool |-> tool, checks |-> <<>>]

Tool(id, deps, needs) == [AStep(id, "tool", deps, "executor") EXCEPT !.needs = needs]

Check(kind, step, stop) == [kind |-> kind, step |-> step, stop |-> stop]

Plan(version, steps, checks) ==
    [version |-> version, steps |-> steps, checks |-> checks, default |-> "none"]

With(plan, mock, missing) == [plan |-> plan, mock |-> mock, missing |-> missing]

\* Two effects with an approval between them; the second needs the first.
Gated ==
    Plan("v1",
         <<Tool("publish", <<"gate">>, {"draft"}),
           AStep("gate", "approval", <<"draft">>, "unknown"),
           Tool("draft", <<>>, {})>>,
         <<Check("verifier", "draft", FALSE)>>)

\* The checks of every kind, within and after the steps.
Checked ==
    Plan("v1",
         <<AStep("draft", "tool", <<>>, "skill"),
           [AStep("audit", "verify", <<"draft">>, "unknown") EXCEPT
                !.checks = <<Check("step_completed", "draft", FALSE),
                             Check("unregistered", "draft", FALSE)>>],
           AStep("render", "transform", <<"audit">>, "unknown")>>,
         <<Check("always_review", "render", FALSE), Check("file_exists", "render", TRUE)>>)

\* An approval that the plan does not ask for, beside a missing tool.
Lenient ==
    [Plan("v1", <<AStep("gate", "approval", <<>>, "unknown"),
                  [Tool("draft", <<"gate">>, {"gate"}) EXCEPT !.tool = "unknown"]>>, <<>>)
        EXCEPT !.default = "no"]

Legacy ==
    {Plan("v0", <<AStep("draft", "skill", <<>>, "executor"),
                  AStep("gate", "human_input", <<"draft">>, "unnamed"),
                  AStep("review", kind, <<"gate">>, tool)>>,
          <<Check("step_completed", "draft", TRUE)>>) :
        <<kind, tool>> \in {<<"fixture", "executor">>, <<"expert", "unnamed">>,
                            <<"verification", "unnamed">>}}

\* All dependencies between three steps that need no executor.
Graphs ==
    {Plan("v1", <<AStep("a", "transform", SetToSeq(deps["a"]), "unknown"),
                  AStep("b", "transform", SetToSeq(deps["b"]), "unknown"),
                  AStep("c", "transform", SetToSeq(deps["c"]), "unknown")>>, <<>>) :
        deps \in {d \in [{"a", "b", "c"} -> SUBSET {"a", "b", "c"}] :
                    \A x \in {"a", "b", "c"} : x \in d[x] => Cardinality(d[x]) = 3}}

Dangling ==
    Plan("v1", <<AStep("a", "transform", <<"z">>, "unknown")>>, <<>>)

\* An expert step in a plan of the new version.
Foreign ==
    Plan("v1", <<AStep("draft", "transform", <<>>, "unknown"),
                 AStep("review", "expert", <<"draft">>, "unnamed")>>, <<>>)

MCSetups ==
    {With(Gated, FALSE, "fail")}
        \cup {With(Checked, TRUE, missing) : missing \in {"fail", "review"}}
        \cup {With(Lenient, mock, "fail") : mock \in BOOLEAN}
        \cup {With(plan, mock, "review") : plan \in Legacy \cup {Foreign}, mock \in BOOLEAN}
        \cup {With(plan, TRUE, "fail") : plan \in Graphs \cup {Dangling}}

\* The plan of tests/test_approval_resume.py with an approval between its steps,
\* and the check of examples/plans/execution_plan_v1_minimal.json on its first.
MCExample ==
    {With(Plan("v1",
               <<Tool("already_written", <<>>, {}),
                 [AStep("human_gate", "approval", <<"already_written">>, "unknown")
                    EXCEPT !.policy = "yes"],
                 Tool("after_approval", <<"already_written", "human_gate">>, {})>>,
               <<Check("step_completed", "already_written", TRUE)>>),
          FALSE, "fail")}

Symmetry == Permutations(Host) \cup Permutations(Key)
=============================================================================
