----------------------- MODULE ContinuableExtraction -----------------------
(***************************************************************************)
(* The durable continuable extraction of one source                        *)
(* (continuable_extraction/service.py over its SQLite store, and the core  *)
(* transition accept_extraction_range).                                    *)
(*                                                                         *)
(* A request thread asks the Kernel for the next range outside of any      *)
(* transaction, stages what it got in a second transaction and accepts it  *)
(* in a third; between any two of them others cancel, time out, record a   *)
(* retry, run the same step or die.  What was staged and not accepted is   *)
(* left to reconcile.  Operations share nothing, so one is modelled.       *)
(***************************************************************************)
EXTENDS Integers, Sequences, FiniteSets, SequencesExt, FiniteSetsExt

CONSTANTS
    Pages,      \* places in the source where a range may begin
    Reports,    \* what the Kernel may report of a range: [disposition,
                \* omissions, ocr, blocks]
    Limits,     \* [ranges, blocks, retries]
    Caller,     \* request threads
    Key,        \* idempotency keys
    NoKey,
    Endings,    \* how the host may end the operation: [state, reason]
    MaxDeaths   \* bound: deaths of request threads

Position == 1 .. Pages
First == 1
Over == 0       \* no next range

Disposition == {"complete", "partial_known", "partial_unknown", "unsupported"}

\* The priority of the five OCR dispositions.
Ocr == 0 .. 4

ASSUME InstanceOK ==
    /\ Pages \in Nat \ {0}
    /\ NoKey \notin Key
    /\ Limits \in [ranges : Nat, blocks : Nat, retries : Nat]
    /\ MaxDeaths \in Nat
    /\ \A e \in Endings : e.state \in {"cancelled", "timed_out", "failed"}
    /\ \A r \in Reports :
        r.disposition \in Disposition /\ r.ocr \in Ocr /\ r.blocks \in Nat

VARIABLES
    session,    \* the row of the operation
    receipt,    \* its receipt column
    staged,     \* the staged ranges, in the order of staged_at
    caller,     \* where each request thread is, and what it has read
    deaths

vars == <<session, receipt, staged, caller, deaths>>

-----------------------------------------------------------------------------
(* State                                                                   *)

NoCoverage == [disposition |-> "none"]

NoReceipt == [state |-> "none"]

Terminal == {"completed", "failed", "cancelled", "timed_out"}

NewSession ==
    [state |-> "pending", revision |-> 0, next |-> First, ranges |-> <<>>,
     coverage |-> [disposition |-> "complete", omissions |-> {}, ocr |-> 0],
     terminal |-> NoCoverage, reason |-> "none", blocks |-> 0, retries |-> 0]

Idle == [pc |-> "idle", revision |-> 0, at |-> Over, key |-> NoKey]

Staged(key) == [Idle EXCEPT !.pc = "staged", !.key = key]

\* The Kernel's answers to a request for the range at p: the caller's
\* range_limit decides how far one goes.
Responses(p) ==
    {[from |-> p, next |-> n, report |-> r] :
        n \in (p + 1) .. Pages \cup {Over}, r \in Reports}

-----------------------------------------------------------------------------
(* The transitions of the core                                             *)

\* Whatever the last range reports is the coverage of the whole (a mutant).
LastReportWins(coverage, response) ==
    [disposition |-> response.report.disposition,
     omissions |-> coverage.omissions \cup response.report.omissions,
     ocr |-> IF response.report.ocr > coverage.ocr
             THEN response.report.ocr ELSE coverage.ocr]

\* A projection is complete as a whole only if its last range says so, with
\* nothing omitted; of the others the loss stays, and worst OCR wins.
Accumulate(coverage, response) ==
    LET r == response.report
    IN  [disposition |->
            IF \/ r.disposition \in {"unsupported", "partial_unknown"}
               \/ r.disposition = "partial_known" /\ response.next = Over
            THEN r.disposition
            ELSE coverage.disposition,
         omissions |-> coverage.omissions \cup r.omissions,
         ocr |-> IF r.ocr > coverage.ocr THEN r.ocr ELSE coverage.ocr]

WithinLimits(s) ==
    /\ Len(s.ranges) <= Limits.ranges
    /\ s.blocks <= Limits.blocks

\* The range that a staged row becomes.
RangeOf(row) ==
    [key |-> row.key, from |-> row.response.from, next |-> row.response.next,
     report |-> row.response.report]

\* The next range begins one after where the last one says (a mutant).
ExtendedPastNext(s, row) ==
    LET r == row.response
    IN  [s EXCEPT
            !.revision = @ + 1,
            !.ranges = Append(@, RangeOf(row)),
            !.blocks = @ + r.report.blocks,
            !.next = IF r.next = Over THEN Over ELSE r.next + 1]

\* accept_extraction_range.  The branch for a key that was accepted before is
\* not taken: such a row is no longer staged.
Extended(s, row) ==
    LET r == row.response
        coverage == Accumulate(s.coverage, r)
        complete == /\ r.report.disposition = "complete"
                    /\ coverage.disposition = "complete"
    IN  [s EXCEPT
            !.revision = @ + 1,
            !.ranges = Append(@, RangeOf(row)),
            !.blocks = @ + r.report.blocks,
            !.coverage = coverage,
            !.next = r.next,
            !.terminal = IF r.next = Over THEN coverage ELSE NoCoverage,
            !.state = IF r.next # Over THEN "pending"
                      ELSE IF complete THEN "completed" ELSE "failed",
            !.reason = IF r.next # Over THEN "none"
                       ELSE IF complete THEN "COMPLETED"
                       ELSE IF coverage.disposition = "unsupported"
                       THEN "UNSUPPORTED_PROJECTION"
                       ELSE "INCOMPLETE_PROJECTION"]

\* Any staged range of a pending operation is accepted (a mutant).
AcceptableLate(s, row) == s.state = "pending" /\ WithinLimits(Extended(s, row))

Acceptable(s, row) ==
    /\ s.state = "pending"
    /\ row.revision = s.revision
    /\ row.response.from = s.next
    /\ row.response.report.disposition = "complete" =>
            row.response.next = Over /\ row.response.report.omissions = {}
    /\ WithinLimits(Extended(s, row))

TerminalOmission(reason) ==
    CASE reason = "CANCELLED" -> "cancelled_before_completion"
      [] reason = "TIME_LIMIT" -> "time_limit_exhausted"
      [] reason = "RETRY_BUDGET_EXHAUSTED" -> "retry_budget_exhausted"
      [] reason = "SOURCE_TOO_LARGE" -> "source_too_large"
      [] OTHER -> "unaccepted_ranges"

TerminalCoverage(s, reason) ==
    [s.coverage EXCEPT !.disposition = "partial_unknown",
                       !.omissions = @ \cup {TerminalOmission(reason)}]

Terminated(s, state, reason) ==
    [s EXCEPT !.revision = @ + 1, !.state = state, !.reason = reason,
              !.terminal = TerminalCoverage(s, reason), !.next = Over]

Retried(s) ==
    IF s.retries >= Limits.retries
    THEN Terminated(s, "failed", "RETRY_BUDGET_EXHAUSTED")
    ELSE [s EXCEPT !.revision = @ + 1, !.retries = @ + 1]

ReceiptOf(s) ==
    IF s.state \notin Terminal THEN NoReceipt
    ELSE [state |-> s.state, reason |-> s.reason, coverage |-> s.terminal,
          revision |-> s.revision, ranges |-> s.ranges,
          blocks |-> s.blocks, retries |-> s.retries]

-----------------------------------------------------------------------------
(* Staged ranges                                                           *)

RowsOf(key) == {i \in DOMAIN staged : staged[i].key = key}

\* The rows reconcile selects from, and the one it takes.
Waiting ==
    {i \in DOMAIN staged :
        /\ staged[i].status = "staged"
        /\ staged[i].revision = session.revision}

OldestWaiting == Min(Waiting)

-----------------------------------------------------------------------------
(* Operations                                                              *)

\* Every write of the operation's row writes its receipt column with it.
Write(s) ==
    /\ session' = s
    /\ receipt' = ReceiptOf(s)

Create ==
    /\ session.state = "absent"
    /\ Write(NewSession)
    /\ UNCHANGED <<staged, caller, deaths>>

\* execute_next up to the call of the Kernel.
ExecuteNext(x) ==
    /\ caller[x] = Idle
    /\ session.state = "pending"
    /\ caller' = [caller EXCEPT ![x] =
            [Idle EXCEPT !.pc = "asking", !.revision = session.revision,
                         !.at = session.next]]
    /\ UNCHANGED <<session, receipt, staged, deaths>>

\* The call raises, or the answer or its artifact is refused.
KernelFails(x) ==
    /\ caller[x].pc = "asking"
    /\ caller' = [caller EXCEPT ![x] = Idle]
    /\ UNCHANGED <<session, receipt, staged, deaths>>

\* The Kernel answers 413: the caller fails the operation, if it still is at
\* the revision the caller has read.
SourceTooLarge(x) ==
    /\ caller[x].pc = "asking"
    /\ IF session.state = "pending" /\ session.revision = caller[x].revision
       THEN Write(Terminated(session, "failed", "SOURCE_TOO_LARGE"))
       ELSE UNCHANGED <<session, receipt>>
    /\ caller' = [caller EXCEPT ![x] = Idle]
    /\ UNCHANGED <<staged, deaths>>

\* The Kernel answers, the response is validated, stored as an artifact and
\* staged.  stage_range looks neither at the state nor at the revision of the
\* operation; a key used before has to come with the same range again.
StageRange(x, key, response) ==
    LET c == caller[x]
        same == {i \in RowsOf(key) :
                    /\ staged[i].revision = c.revision
                    /\ staged[i].response = response}
    IN  /\ c.pc = "asking"
        /\ \/ /\ RowsOf(key) = {}
              /\ staged' = Append(staged,
                    [key |-> key, revision |-> c.revision,
                     response |-> response, status |-> "staged"])
              /\ caller' = [caller EXCEPT ![x] = Staged(key)]
           \/ /\ same # {}
              /\ caller' = [caller EXCEPT ![x] = Staged(key)]
              /\ UNCHANGED staged
           \/ /\ RowsOf(key) # {} /\ same = {}
              /\ caller' = [caller EXCEPT ![x] = Idle]
              /\ UNCHANGED staged
        /\ UNCHANGED <<session, receipt, deaths>>

\* The row is not marked in the transaction that accepts it (a mutant).
AcceptStagedUnmarked(x) ==
    /\ caller[x].pc = "staged"
    /\ \E i \in RowsOf(caller[x].key) :
        IF staged[i].status = "staged" /\ Acceptable(session, staged[i])
        THEN Write(Extended(session, staged[i]))
        ELSE UNCHANGED <<session, receipt>>
    /\ caller' = [caller EXCEPT ![x] = Idle]
    /\ UNCHANGED <<staged, deaths>>

\* accept_staged, for execute_next and for reconcile: the row becomes a range
\* of the operation in the transaction that marks it, or nothing changes.
AcceptStaged(x) ==
    /\ caller[x].pc = "staged"
    /\ \E i \in RowsOf(caller[x].key) :
        IF staged[i].status = "staged" /\ Acceptable(session, staged[i])
        THEN /\ Write(Extended(session, staged[i]))
             /\ staged' = [staged EXCEPT ![i].status = "accepted"]
        ELSE UNCHANGED <<session, receipt, staged>>
    /\ caller' = [caller EXCEPT ![x] = Idle]
    /\ UNCHANGED deaths

\* The oldest staged row is taken, of whatever revision (a mutant).
ReconcileAnyRevision(x) ==
    /\ caller[x] = Idle
    /\ session.state = "pending"
    /\ Waiting # {}
    /\ LET left == {i \in DOMAIN staged : staged[i].status = "staged"}
       IN  caller' = [caller EXCEPT ![x] = Staged(staged[Min(left)].key)]
    /\ UNCHANGED <<session, receipt, staged, deaths>>

\* One round of reconcile up to accept_staged.
Reconcile(x) ==
    /\ caller[x] = Idle
    /\ session.state = "pending"
    /\ Waiting # {}
    /\ caller' = [caller EXCEPT ![x] = Staged(staged[OldestWaiting].key)]
    /\ UNCHANGED <<session, receipt, staged, deaths>>

\* cancel, time_out and fail, at the revision the client names.
GiveUp(end) ==
    /\ session.state = "pending"
    /\ Write(Terminated(session, end.state, end.reason))
    /\ UNCHANGED <<staged, caller, deaths>>

RecordRetry ==
    /\ session.state = "pending"
    /\ Write(Retried(session))
    /\ UNCHANGED <<staged, caller, deaths>>

\* A request thread, or the server with it, dies.
Die(x) ==
    /\ deaths < MaxDeaths
    /\ caller[x] # Idle
    /\ deaths' = deaths + 1
    /\ caller' = [caller EXCEPT ![x] = Idle]
    /\ UNCHANGED <<session, receipt, staged>>

-----------------------------------------------------------------------------

Init ==
    /\ session = [NewSession EXCEPT !.state = "absent"]
    /\ receipt = NoReceipt
    /\ staged = <<>>
    /\ caller = [x \in Caller |-> Idle]
    /\ deaths = 0

KernelReturns(x) ==
    \/ \E key \in Key, r \in Responses(caller[x].at) : StageRange(x, key, r)
    \/ KernelFails(x)
    \/ SourceTooLarge(x)

Next ==
    \/ Create
    \/ \E x \in Caller :
        \/ ExecuteNext(x)
        \/ KernelReturns(x)
        \/ AcceptStaged(x)
        \/ Reconcile(x)
        \/ Die(x)
    \/ \E end \in Endings : GiveUp(end)
    \/ RecordRetry

Spec == Init /\ [][Next]_vars

\* A request thread goes on or dies, the Kernel client gives up after its
\* timeout, and the control plane repeats reconcile until it is served.
Fairness ==
    /\ \A x \in Caller :
        /\ WF_vars(KernelReturns(x))
        /\ WF_vars(AcceptStaged(x))
    /\ SF_vars(\E x \in Caller : Reconcile(x))

FairSpec == Spec /\ Fairness

-----------------------------------------------------------------------------
(* Properties                                                              *)

TypeOK ==
    /\ session.state \in {"absent", "pending"} \cup Terminal
    /\ session.revision \in Nat
    /\ session.next \in Position \cup {Over}
    /\ session.coverage.disposition \in Disposition
    /\ \A i \in DOMAIN staged : staged[i].status \in {"staged", "accepted"}
    /\ \A x \in Caller :
        caller[x].pc \in {"idle", "asking", "staged"}
    /\ deaths \in 0 .. MaxDeaths

\* The ranges cover the source: nothing follows the last one.
Ended(R) == R # <<>> /\ R[Len(R)].next = Over

\* The ranges that lost something: unknown, or known where the source ends.
LossyIn(R) ==
    {j \in DOMAIN R :
        \/ R[j].report.disposition \in {"partial_unknown", "unsupported"}
        \/ R[j].next = Over /\ R[j].report.disposition = "partial_known"}

OmittedIn(R) == UNION {R[j].report.omissions : j \in DOMAIN R}

OcrIn(R) == {R[j].report.ocr : j \in DOMAIN R} \cup {0}

Blocks(R) == SumFunction([j \in DOMAIN R |-> R[j].report.blocks])

\* Whoever stages, dies, retries or reconciles in whatever order, each staged
\* range is a range of the operation at most once, exactly the accepted ones
\* are, and the revision and the counters tell the history: one revision for
\* each range, retry and abandonment, never a budget exceeded.
Accounted ==
    LET R == session.ranges
        accepted == {i \in DOMAIN staged : staged[i].status = "accepted"}
    IN  /\ \A i, k \in DOMAIN staged : staged[i].key = staged[k].key => i = k
        /\ Cardinality(accepted) = Len(R)
        /\ \A i \in accepted : \E j \in DOMAIN R : R[j] = RangeOf(staged[i])
        /\ session.revision = Len(R) + session.retries
                + (IF session.state \in Terminal /\ ~Ended(R) THEN 1 ELSE 0)
        /\ session.blocks = Blocks(R)
        /\ WithinLimits(session) /\ session.retries <= Limits.retries

\* What the receipt tells of coverage is true of the ranges, whatever order
\* losses came in: completed means that the ranges cover the source, the last
\* one is complete and no earlier one lost anything unknown; every omission
\* reported is listed, the worst OCR is told, and an abandoned operation
\* never looks like a complete one.
CoverageTold ==
    LET R == session.ranges
    IN  /\ receipt = ReceiptOf(session)
        /\ session.state = "completed" <=> Ended(R) /\ LossyIn(R) = {}
        /\ session.state \in Terminal =>
            /\ session.terminal.ocr = Max(OcrIn(R))
            /\ session.terminal.disposition =
                IF ~Ended(R) THEN "partial_unknown"
                ELSE IF LossyIn(R) = {} THEN "complete"
                ELSE R[Max(LossyIn(R))].report.disposition
            /\ session.terminal.omissions = OmittedIn(R) \cup
                (IF Ended(R) THEN {} ELSE {TerminalOmission(session.reason)})

\* The operation keeps what SourceProjection promises: an unbroken sequence of
\* ranges, closed once.
Promise == INSTANCE SourceProjection WITH
    ranges <- [j \in DOMAIN session.ranges |->
                [from |-> session.ranges[j].from, next |-> session.ranges[j].next]],
    outcome <- IF session.state \in Terminal THEN session.state ELSE "open"

KeepsPromise == Promise!Spec

\* The oldest waiting row cannot be accepted (it does not fit the budgets, or
\* its evidence is refused): reconcile raises at it again and again.
Jammed == Waiting # {} /\ ~Acceptable(session, staged[OldestWaiting])

\* A range that was staged by a thread that died is accepted all the same, or
\* overtaken, unless the oldest row of the revision jams reconcile.
StagedIsDrained ==
    \A key \in Key :
        (session.state = "pending" /\ \E i \in Waiting : staged[i].key = key)
            ~> (\/ session.state # "pending"
                \/ ~\E i \in Waiting : staged[i].key = key
                \/ Jammed)
=============================================================================
