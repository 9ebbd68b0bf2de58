---------------------- MODULE ExternalOperation_proofs ----------------------
(***************************************************************************)
(* Theorems about governed external operations, for all workflows, plans,  *)
(* subjects and budgets.                                                   *)
(*                                                                         *)
(* IndInv speaks of one operation at a time: RowOK relates its row to the  *)
(* calls that are about to be made for it and those made.  The parent      *)
(* workflow never appears in it.  That is the point of the argument:       *)
(* whatever parents do to an operation keeps its evidence (Kept), so no    *)
(* plan and no way of ending a parent matters to what was submitted.       *)
(*                                                                         *)
(* Two services end parents and their steps, in the order in which reports *)
(* and attempts come.  ParentInv says of each workflow what having ended   *)
(* means for its receipt, of each subject that its operation names that    *)
(* receipt from then on, and of each step bound to an operation how far    *)
(* the operation has brought it.  That outcomes stay what they were is     *)
(* taken from the operations.  CountersInv counts the steps that run,      *)
(* which needs finitely many of them, and with it no counter of TypeOK     *)
(* falls below zero.                                                       *)
(*                                                                         *)
(* A claim to query is known by its fence, which the operation never gives *)
(* twice.  QueryInv says that queries of one operation hold different      *)
(* fences, and that a query whose answer may still be taken holds the      *)
(* operation's claim: so there is one of them.  PaidInv adds up, over the  *)
(* operations of a parent, the permits and queries they have had, and      *)
(* bounds the queries on their way by those that were paid for.            *)
(***************************************************************************)
EXTENDS ExternalOperation, Sums_proofs

\* The row o of a subject, with p calls about to be made and n calls made.
RowOK(o, p, n) ==
    /\ o.permits \in {0, 1}
    /\ p + n <= o.permits
    /\ o.step = NoStep => o.permits = 0
    /\ o.permits = 0 => o.outcome = "unobserved" /\ o.conflicts = 0
    /\ o.outcome = "confirmed_not_executed" => p = 0 /\ n = 0
    /\ o.conflicts > 0 => o.recon /\ o.outcome \in Confirmed

IndInv ==
    /\ clock \in Nat
    /\ op \in [Subject -> Operation]
    /\ submitting \in [Subject -> Nat]
    /\ submitted \in [Subject -> Nat]
    /\ query \in SUBSET [subject : Subject, pc : {"asked", "settled"},
                         claim : [fence : Nat, deadline : Nat]]
    /\ \A s \in Subject : RowOK(op[s], submitting[s], submitted[s])

\* The rows o and p of a subject carry the same evidence.
SameEvidence(o, p) ==
    /\ p.step = o.step
    /\ p.permits = o.permits
    /\ p.outcome = o.outcome
    /\ p.conflicts = o.conflicts
    /\ p.recon = o.recon

\* The rows ops became the rows new without touching any evidence.
Kept(ops, new) ==
    /\ new \in [Subject -> Operation]
    /\ \A s \in Subject : SameEvidence(ops[s], new[s])

-----------------------------------------------------------------------------
(* The rows that are written                                               *)

\* A snapshot adds a receipt and nothing else.
LEMMA SnapshotKeeps ==
    ASSUME NEW o \in Operation
    PROVE  Snapshot(o) \in Operation /\ SameEvidence(o, Snapshot(o))
<1>1. o.seq + 1 \in Nat
  BY DEF Operation
<1>2. Snapshot(o) \in Operation
  BY <1>1, Zenon DEF Snapshot, Operation
<1>3. SameEvidence(o, Snapshot(o))
  BY DEF Snapshot, SameEvidence, Operation
<1> QED
  BY <1>2, <1>3

\* attach_parent_terminal only names the parent's receipt.
LEMMA AttachedKeeps ==
    ASSUME NEW w, NEW ops \in [Subject -> Operation]
    PROVE  Kept(ops, Attached(w, ops))
<1> SUFFICES ASSUME NEW s \in Subject
             PROVE  /\ Attached(w, ops)[s] \in Operation
                    /\ SameEvidence(ops[s], Attached(w, ops)[s])
  BY DEF Kept, Attached
<1> DEFINE o == [ops[s] EXCEPT !.attached = TRUE]
<1>1. ops[s] \in Operation
  OBVIOUS
<1>2. o \in Operation
  BY <1>1, Zenon DEF Operation
<1>3. SameEvidence(ops[s], o)
  BY <1>1 DEF SameEvidence, Operation
<1>4. Attached(w, ops)[s] = Snapshot(o) \/ Attached(w, ops)[s] = ops[s]
  BY DEF Attached
<1>5. Snapshot(o) \in Operation /\ SameEvidence(o, Snapshot(o))
  <2> HIDE DEF o
  <2> QED
    BY <1>2, SnapshotKeeps
<1> HIDE DEF o
<1> QED
  BY <1>1, <1>3, <1>4, <1>5 DEF SameEvidence

\* Whatever way a parent ends, the evidence of its operations stays.
LEMMA FreezeKeeps ==
    ASSUME NEW w, NEW f, NEW ops \in [Subject -> Operation], Freeze(w, f, ops)
    PROVE  Kept(ops, op')
<1>1. op' = ops \/ op' = Attached(w, ops)
  BY DEF Freeze
<1>2. Kept(ops, ops)
  BY DEF Kept, SameEvidence
<1> QED
  BY <1>1, <1>2, AttachedKeeps

LEMMA AdvanceKeeps ==
    ASSUME NEW o, NEW ops \in [Subject -> Operation], AdvanceParent(o, ops)
    PROVE  Kept(ops, op')
<1>1. op' = ops \/ \E w, f : Freeze(w, f, ops)
  BY DEF AdvanceParent
<1>2. Kept(ops, ops)
  BY DEF Kept, SameEvidence
<1> QED
  BY <1>1, <1>2, FreezeKeeps

\* A new operation.
LEMMA AllocatedRow ==
    ASSUME clock \in Nat, NEW s \in ExtStep
    PROVE  /\ Allocated(s) \in Operation
           /\ Allocated(s).step = s
           /\ Allocated(s).permits = 0
           /\ Allocated(s).outcome = "unobserved"
           /\ Allocated(s).conflicts = 0
<1> DEFINE o == [NoOperation EXCEPT !.step = s, !.created = clock]
<1>1. NoOperation \in Operation
  <2>1. 0 \in Nat
    OBVIOUS
  <2>2. NoClaim \in [fence : Nat, deadline : Nat]
    BY DEF NoClaim
  <2> QED
    BY <2>1, <2>2, Zenon DEF NoOperation, Operation
<1>2. o \in Operation
  BY <1>1, Zenon DEF Operation
<1>3. /\ o.step = s /\ o.permits = 0 /\ o.outcome = "unobserved"
      /\ o.conflicts = 0
  BY DEF NoOperation
<1>4. Allocated(s) = Snapshot(o)
  BY DEF Allocated
<1> HIDE DEF o
<1>5. Snapshot(o) \in Operation /\ SameEvidence(o, Snapshot(o))
  BY <1>2, SnapshotKeeps
<1> QED
  BY <1>3, <1>4, <1>5 DEF SameEvidence

\* An operation that is given its permit.
LEMMA PermittedRow ==
    ASSUME NEW o \in Operation
    PROVE  /\ Permitted(o) \in Operation
           /\ Permitted(o).step = o.step
           /\ Permitted(o).permits = 1
           /\ Permitted(o).outcome = "unknown"
           /\ Permitted(o).conflicts = o.conflicts
<1> DEFINE r == [o EXCEPT !.permits = 1, !.evidence = "possibly_submitted",
                          !.outcome = "unknown", !.recon = TRUE, !.fence = @ + 1]
<1>1. r \in Operation
  <2>1. 1 \in Nat /\ o.fence + 1 \in Nat
    BY DEF Operation
  <2>2. "unknown" \in {"unobserved"} \cup QueryOutcome \cup ManualOutcome
    BY DEF QueryOutcome
  <2> QED
    BY <2>1, <2>2, Zenon DEF Operation
<1>2. /\ r.step = o.step /\ r.permits = 1 /\ r.outcome = "unknown"
      /\ r.conflicts = o.conflicts
  BY DEF Operation
<1>3. Permitted(o) = Snapshot(r)
  BY DEF Permitted
<1> HIDE DEF r
<1>4. Snapshot(r) \in Operation /\ SameEvidence(r, Snapshot(r))
  BY <1>1, SnapshotKeeps
<1> QED
  BY <1>2, <1>3, <1>4 DEF SameEvidence

\* What a report does to what is known of an operation.
Learned(o, b, p) ==
    /\ p.step = o.step
    /\ p.permits = o.permits
    /\ \/ p.outcome = o.outcome
       \/ o.outcome \notin Confirmed /\ p.outcome = b.outcome
    /\ p.conflicts \in Nat /\ p.conflicts >= o.conflicts
    /\ p.conflicts > 0 => p.recon /\ p.outcome \in Confirmed

LEMMA InformedLearns ==
    ASSUME NEW o \in Operation, NEW b \in Report,
           o.conflicts > 0 => o.recon /\ o.outcome \in Confirmed
    PROVE  Informed(o, b) \in Operation /\ Learned(o, b, Informed(o, b))
<1> DEFINE d == Disposition(o, b)
           outcome == IF d = "accepted" THEN b.outcome ELSE o.outcome
           conflicts == IF d = "conflict" THEN o.conflicts + 1 ELSE o.conflicts
           recon == CASE d = "conflict" -> TRUE
                      [] d = "accepted" -> StillOpen(o, b)
                      [] OTHER -> o.recon
           remote == IF b.remote # NoRemote THEN b.remote ELSE o.remote
           evidence == IF b.remote # NoRemote THEN "provider_accepted"
                       ELSE o.evidence
           records == IF b.channel = "query" THEN o.records + 1 ELSE o.records
           manual == IF b.channel = "manual" THEN o.manual + 1 ELSE o.manual
           r == [o EXCEPT !.outcome = outcome, !.conflicts = conflicts,
                    !.recon = recon, !.remote = remote, !.evidence = evidence,
                    !.records = records, !.manual = manual]
<1>1. Informed(o, b) = Snapshot(r)
  BY DEF Informed
<1>2. /\ b.outcome \in QueryOutcome \cup ManualOutcome
      /\ b.remote \in Remote \cup {NoRemote}
  BY DEF Report
<1>3. d \in {"accepted", "conflict", "retain_confirmed"}
  BY DEF Disposition
<1>4. /\ outcome \in {"unobserved"} \cup QueryOutcome \cup ManualOutcome
      /\ conflicts \in Nat
      /\ remote \in Remote \cup {NoRemote}
      /\ evidence \in {"not_started", "possibly_submitted", "provider_accepted"}
      /\ records \in Nat
      /\ manual \in Nat
  BY <1>2 DEF Operation
<1>5. recon \in BOOLEAN
  BY <1>3 DEF Operation, StillOpen
<1>6. Learned(o, b, [step |-> o.step, permits |-> o.permits, outcome |-> outcome,
                     conflicts |-> conflicts, recon |-> recon])
  <2>1. CASE d = "accepted"
    <3>1. o.outcome \notin Confirmed \/ b.outcome = o.outcome
      BY <2>1 DEF Disposition
    <3> QED
      BY <2>1, <3>1 DEF Learned, StillOpen, Operation
  <2>2. CASE d = "conflict"
    <3>1. o.outcome \in Confirmed
      BY <2>2 DEF Disposition
    <3> QED
      BY <2>2, <3>1 DEF Learned, Operation
  <2>3. CASE d = "retain_confirmed"
    BY <2>3 DEF Learned, Operation
  <2> QED
    BY <1>3, <2>1, <2>2, <2>3
<1> HIDE DEF outcome, conflicts, recon, remote, evidence, records, manual
<1>7. r \in Operation
  BY <1>4, <1>5, Zenon DEF Operation
<1>8. /\ r.step = o.step /\ r.permits = o.permits /\ r.outcome = outcome
      /\ r.conflicts = conflicts /\ r.recon = recon
  BY DEF Operation
<1> HIDE DEF r
<1>9. Snapshot(r) \in Operation /\ SameEvidence(r, Snapshot(r))
  BY <1>7, SnapshotKeeps
<1> QED
  BY <1>1, <1>6, <1>8, <1>9 DEF Learned, SameEvidence

-----------------------------------------------------------------------------
(* What a step does to the operations                                      *)

\* Parents, clocks, issuers, manual cases and queries without an answer.
Quiet == Kept(op, op') /\ UNCHANGED <<submitting, submitted>>

\* A report is taken in, by either channel.
Learns(s) ==
    /\ \E i \in ObsId, b \in Report :
          /\ Acceptable(s, i, b)
          /\ Kept([op EXCEPT ![s] = Informed(op[s], b)], op')
    /\ UNCHANGED <<submitting, submitted>>

Changes ==
    \/ Quiet
    \/ \E s \in ExtStep : Activate(s)
    \/ \E s \in Subject : Permit(s) \/ Submit(s) \/ SubmitterDies(s) \/ Learns(s)

\* The parts of IndInv that do not speak of operations.
Frame ==
    /\ clock \in Nat
    /\ query \in SUBSET [subject : Subject, pc : {"asked", "settled"},
                         claim : [fence : Nat, deadline : Nat]]

LEMMA KeptSame ==
    ASSUME op \in [Subject -> Operation]
    PROVE  Kept(op, op)
  BY DEF Kept, SameEvidence

\* The first transaction of reconcile charges the query and claims it.
LEMMA BeginQueryQuiet ==
    ASSUME BudgetsOK, IndInv, NEW s \in Subject, BeginQuery(s)
    PROVE  Quiet /\ Frame'
<1> DEFINE o == op[s]
           c == [fence |-> o.fence + 1, deadline |-> clock + Reserve(o)]
           r == [o EXCEPT !.queries = @ + 1, !.reserved = @ + Reserve(o),
                          !.fence = @ + 1, !.claim = c]
<1>1. o \in Operation
  BY DEF IndInv
<1>2. /\ o.queries + 1 \in Nat
      /\ o.reserved + Reserve(o) \in Nat
      /\ o.fence + 1 \in Nat
      /\ clock + Reserve(o) \in Nat
  BY <1>1 DEF BeginQuery, Reserve, Smaller, BudgetsOK, Operation, IndInv
<1>3. c \in [fence : Nat, deadline : Nat]
  BY <1>2
<1>4. r \in Operation
  <2> HIDE DEF c
  <2>1. o.queries + 1 \in Nat /\ o.reserved + Reserve(o) \in Nat /\ o.fence + 1 \in Nat
    BY <1>2
  <2> HIDE DEF o
  <2> QED
    BY <1>1, <1>3, <2>1, Zenon DEF Operation
<1>5. SameEvidence(o, r)
  BY <1>1 DEF SameEvidence, Operation
<1>6. op' = [op EXCEPT ![s] = Snapshot(r)]
  BY DEF BeginQuery
<1>7. query' = query \cup {[subject |-> s, claim |-> c, pc |-> "asked"]}
  BY DEF BeginQuery
<1>8. clock' = clock /\ UNCHANGED <<submitting, submitted>>
  BY DEF BeginQuery
<1> HIDE DEF r, c
<1>9. Snapshot(r) \in Operation /\ SameEvidence(r, Snapshot(r))
  BY <1>4, SnapshotKeeps
<1>10. Kept(op, op')
  BY <1>5, <1>6, <1>9 DEF Kept, SameEvidence, IndInv
<1>11. Frame'
  BY <1>3, <1>7, <1>8 DEF Frame, IndInv
<1> QED
  BY <1>8, <1>10, <1>11 DEF Quiet

\* The last transaction of reconcile clears at most the query's own claim.
LEMMA EndQueryQuiet ==
    ASSUME IndInv, NEW q \in query, EndQuery(q)
    PROVE  Quiet /\ Frame'
<1>1. q.subject \in Subject
  BY DEF IndInv
<1> DEFINE r == [op[q.subject] EXCEPT !.claim = NoClaim]
<1>2. op[q.subject] \in Operation
  BY <1>1 DEF IndInv
<1>3. r \in Operation
  <2>1. NoClaim \in [fence : Nat, deadline : Nat]
    BY DEF NoClaim
  <2> QED
    BY <1>2, <2>1, Zenon DEF Operation
<1>4. SameEvidence(op[q.subject], r)
  BY <1>2 DEF SameEvidence, Operation
<1>5. op' = op \/ op' = [op EXCEPT ![q.subject] = r]
  BY DEF EndQuery
<1> HIDE DEF r
<1>6. Kept(op, op')
  BY <1>1, <1>3, <1>4, <1>5 DEF Kept, SameEvidence, IndInv
<1>7. Frame'
  BY DEF EndQuery, Frame, IndInv
<1> QED
  BY <1>6, <1>7 DEF EndQuery, Quiet

LEMMA RegisterQuiet ==
    ASSUME IndInv, NEW s \in Subject, RegisterManualCase(s)
    PROVE  Quiet /\ Frame'
<1> DEFINE r == [op[s] EXCEPT !.case = TRUE]
<1>1. op[s] \in Operation
  BY DEF IndInv
<1>2. r \in Operation
  BY <1>1, Zenon DEF Operation
<1>3. SameEvidence(op[s], r)
  BY <1>1 DEF SameEvidence, Operation
<1>4. op' = [op EXCEPT ![s] = Snapshot(r)]
  BY DEF RegisterManualCase
<1> HIDE DEF r
<1>5. Snapshot(r) \in Operation /\ SameEvidence(r, Snapshot(r))
  BY <1>2, SnapshotKeeps
<1>6. Kept(op, op')
  BY <1>3, <1>4, <1>5 DEF Kept, SameEvidence, IndInv
<1> QED
  BY <1>6 DEF RegisterManualCase, Quiet, Frame, IndInv

\* Taking a report in: the row learns it, and the parent may end with it.
LEMMA TakeInLearns ==
    ASSUME IndInv, NEW s \in Subject, NEW i \in ObsId, NEW b \in Report,
           TakeIn(s, i, b), UNCHANGED <<submitting, submitted>>
    PROVE  Learns(s)
<1> DEFINE ops == [op EXCEPT ![s] = Informed(op[s], b)]
<1>1. op[s] \in Operation
  BY DEF IndInv
<1>2. Informed(op[s], b) \in Operation
  BY <1>1, InformedLearns DEF IndInv, RowOK
<1>3. ops \in [Subject -> Operation]
  BY <1>2 DEF IndInv
<1>4. AdvanceParent(Informed(op[s], b), ops) /\ Acceptable(s, i, b)
  BY DEF TakeIn
<1>5. ops = [op EXCEPT ![s] = Informed(op[s], b)]
  OBVIOUS
<1> HIDE DEF ops
<1>6. Kept(ops, op')
  BY <1>3, <1>4, AdvanceKeeps
<1> QED
  BY <1>4, <1>5, <1>6 DEF Learns

\* Parents may do to an operation what they like: its evidence stays.
LEMMA ParentQuiet ==
    ASSUME IndInv, Parent
    PROVE  Quiet /\ Frame'
<1>0. op \in [Subject -> Operation]
  BY DEF IndInv
<1>1. ASSUME NEW s \in Step, ProviderActivates(s)
      PROVE  Kept(op, op') /\ UNCHANGED <<clock, submitting, submitted, query>>
  <2>1. op' = op \/ \E w, f : Freeze(w, f, op)
    BY <1>1 DEF ProviderActivates
  <2> QED
    BY <1>0, <1>1, <2>1, KeptSame, FreezeKeeps DEF ProviderActivates
<1>2. ASSUME NEW s \in Step, NEW outcome, ProviderEnds(s, outcome)
      PROVE  Kept(op, op') /\ UNCHANGED <<clock, submitting, submitted, query>>
  <2>1. op' = op \/ \E w, f : Freeze(w, f, op)
    BY <1>2 DEF ProviderEnds
  <2> QED
    BY <1>0, <1>2, <2>1, KeptSame, FreezeKeeps DEF ProviderEnds
<1>3. ASSUME NEW w \in Workflow, NEW lost, ProviderExpires(w, lost)
      PROVE  Kept(op, op') /\ UNCHANGED <<clock, submitting, submitted, query>>
  BY <1>0, <1>3, KeptSame DEF ProviderExpires
<1>4. ASSUME NEW w \in Workflow, Cancel(w)
      PROVE  Kept(op, op') /\ UNCHANGED <<clock, submitting, submitted, query>>
  BY <1>0, <1>4, FreezeKeeps DEF Cancel
<1>5. Kept(op, op') /\ UNCHANGED <<clock, submitting, submitted, query>>
  BY <1>1, <1>2, <1>3, <1>4 DEF Parent
<1> QED
  BY <1>5 DEF Quiet, Frame, IndInv

\* Every step is one of six kinds, as far as operations are concerned.
LEMMA StepChanges ==
    ASSUME PlanOK, BudgetsOK, IndInv, [Next]_vars
    PROVE  Changes /\ Frame'
<1>0. op \in [Subject -> Operation] /\ Frame
  BY DEF IndInv, Frame
<1>1. CASE Tick
  BY <1>0, <1>1, KeptSame DEF Tick, Changes, Quiet, Frame
<1>2. CASE Authority
  BY <1>0, <1>2, KeptSame DEF Authority, IssuerFreshness, Revoke, Changes, Quiet, Frame
<1>3. CASE Parent
  BY <1>3, ParentQuiet DEF Changes
<1>4. ASSUME NEW s \in ExtStep, Activate(s)
      PROVE  Changes /\ Frame'
  BY <1>0, <1>4 DEF Activate, Changes, Frame
<1>5. ASSUME NEW s \in Subject, Permit(s) \/ Submit(s) \/ SubmitterDies(s)
      PROVE  Changes /\ Frame'
  BY <1>0, <1>5 DEF Permit, Submit, SubmitterDies, Changes, Frame
<1>6. ASSUME NEW s \in Subject, RegisterManualCase(s) \/ BeginQuery(s)
      PROVE  Changes /\ Frame'
  BY <1>6, RegisterQuiet, BeginQueryQuiet DEF Changes
<1>7. ASSUME NEW s \in Subject, NEW i \in ObsId, NEW b \in Report, Observe(s, i, b)
      PROVE  Changes /\ Frame'
  <2>1. Learns(s)
    BY <1>7, TakeInLearns DEF Observe
  <2> QED
    BY <1>0, <1>7, <2>1 DEF Observe, Changes, Frame
<1>8. ASSUME NEW q \in query, Settle(q)
      PROVE  query' \in SUBSET [subject : Subject, pc : {"asked", "settled"},
                               claim : [fence : Nat, deadline : Nat]]
  BY <1>0, <1>8 DEF Settle, Frame
<1>9. ASSUME NEW q \in query, NEW i \in ObsId, NEW b \in Report,
             QueryAnswered(q, i, b)
      PROVE  Changes /\ Frame'
  <2>1. q.subject \in Subject
    BY <1>0 DEF Frame
  <2>2. Learns(q.subject)
    BY <1>9, <2>1, TakeInLearns DEF QueryAnswered
  <2> QED
    BY <1>0, <1>8, <1>9, <2>1, <2>2 DEF QueryAnswered, Changes, Frame
<1>10. ASSUME NEW q \in query, QueryUnanswered(q) \/ QueryAborts(q)
       PROVE  Changes /\ Frame'
  BY <1>0, <1>8, <1>10, KeptSame
     DEF QueryUnanswered, QueryAborts, Changes, Quiet, Frame
<1>11. ASSUME NEW q \in query, EndQuery(q)
       PROVE  Changes /\ Frame'
  BY <1>11, EndQueryQuiet DEF Changes
<1>12. CASE UNCHANGED vars
  BY <1>0, <1>12, KeptSame DEF vars, Changes, Quiet, Frame
<1> QED
  BY <1>1, <1>2, <1>3, <1>4, <1>5, <1>6, <1>7, <1>9, <1>10, <1>11, <1>12 DEF Next

-----------------------------------------------------------------------------
(* The invariant                                                           *)

LEMMA InitInv == Init => IndInv
<1> SUFFICES ASSUME Init PROVE IndInv
  OBVIOUS
<1>1. NoOperation \in Operation
  <2>1. 0 \in Nat
    OBVIOUS
  <2>2. NoClaim \in [fence : Nat, deadline : Nat]
    BY DEF NoClaim
  <2> QED
    BY <2>1, <2>2, Zenon DEF NoOperation, Operation
<1>2. RowOK(NoOperation, 0, 0)
  BY DEF RowOK, NoOperation
<1> QED
  BY <1>1, <1>2 DEF Init, IndInv

\* A row that only keeps its evidence stays right under the same counts.
LEMMA KeptRowOK ==
    ASSUME NEW o, NEW p, SameEvidence(o, p), NEW g, NEW n, RowOK(o, g, n)
    PROVE  RowOK(p, g, n)
  BY DEF SameEvidence, RowOK

\* An accepted report leaves every row right under the same counts.
LEMMA LearnedRowOK ==
    ASSUME NEW s \in Subject, IndInv, Learns(s)
    PROVE  /\ op' \in [Subject -> Operation]
           /\ \A t \in Subject : RowOK(op'[t], submitting'[t], submitted'[t])
<1>1. PICK i \in ObsId, b \in Report :
          /\ Acceptable(s, i, b)
          /\ Kept([op EXCEPT ![s] = Informed(op[s], b)], op')
  BY DEF Learns
<1> DEFINE r == Informed(op[s], b)
           ops == [op EXCEPT ![s] = r]
<1>2. op[s] \in Operation /\ RowOK(op[s], submitting[s], submitted[s])
  BY DEF IndInv
<1>3. r \in Operation /\ Learned(op[s], b, r)
  BY <1>2, InformedLearns DEF RowOK
<1>4. op[s].step # NoStep /\ op[s].permits = 1 /\ Proven(s, b)
  BY <1>1 DEF Acceptable
<1>5. RowOK(r, submitting[s], submitted[s])
  <2> HIDE DEF r
  <2> QED
    BY <1>2, <1>3, <1>4 DEF RowOK, Learned, Proven
<1> HIDE DEF r
<1>6. \A t \in Subject : RowOK(ops[t], submitting[t], submitted[t])
  BY <1>5 DEF IndInv
<1>7. UNCHANGED <<submitting, submitted>>
  BY DEF Learns
<1>8. Kept(ops, op')
  BY <1>1 DEF r
<1> HIDE DEF ops
<1> QED
  BY <1>6, <1>7, <1>8, KeptRowOK DEF Kept

LEMMA NextInv == ASSUME PlanOK, BudgetsOK PROVE IndInv /\ [Next]_vars => IndInv'
<1> SUFFICES ASSUME IndInv, [Next]_vars
             PROVE  /\ op' \in [Subject -> Operation]
                    /\ submitting' \in [Subject -> Nat]
                    /\ submitted' \in [Subject -> Nat]
                    /\ \A s \in Subject :
                          RowOK(op'[s], submitting'[s], submitted'[s])
  BY StepChanges DEF IndInv, Frame
<1>0. /\ op \in [Subject -> Operation]
      /\ submitting \in [Subject -> Nat] /\ submitted \in [Subject -> Nat]
      /\ \A s \in Subject : RowOK(op[s], submitting[s], submitted[s])
  BY DEF IndInv
<1>1. Changes
  BY StepChanges
<1>2. CASE Quiet
  BY <1>0, <1>2, KeptRowOK DEF Quiet, Kept
<1>3. ASSUME NEW e \in ExtStep, Activate(e)
      PROVE  /\ op' \in [Subject -> Operation]
             /\ UNCHANGED <<submitting, submitted>>
             /\ \A s \in Subject : RowOK(op'[s], submitting'[s], submitted'[s])
  <2> DEFINE r == Allocated(e)
             s == SubjectOf[e]
  <2>1. s \in Subject /\ e # NoStep
    BY <1>3 DEF PlanOK
  <2>2. op' = [op EXCEPT ![s] = r] /\ UNCHANGED <<submitting, submitted>>
    BY <1>3 DEF Activate
  <2>3. r \in Operation /\ r.step = e /\ r.permits = 0 /\ r.outcome = "unobserved"
        /\ r.conflicts = 0
    BY AllocatedRow DEF IndInv
  <2>4. op[s].step = NoStep
    BY <1>3 DEF Activate, SubjectFree
  <2>5. submitting[s] + submitted[s] <= 0
    BY <1>0, <2>1, <2>4 DEF RowOK
  <2> HIDE DEF r
  <2>6. RowOK(r, submitting[s], submitted[s])
    BY <2>1, <2>3, <2>5 DEF RowOK
  <2> QED
    BY <1>0, <2>1, <2>2, <2>3, <2>6
<1>4. ASSUME NEW s \in Subject, Permit(s)
      PROVE  /\ op' \in [Subject -> Operation]
             /\ submitting' \in [Subject -> Nat]
             /\ submitted' \in [Subject -> Nat]
             /\ \A t \in Subject : RowOK(op'[t], submitting'[t], submitted'[t])
  <2> DEFINE r == Permitted(op[s])
  <2>1. /\ op' = [op EXCEPT ![s] = r]
        /\ submitting' = [submitting EXCEPT ![s] = @ + 1]
        /\ submitted' = submitted
        /\ op[s].permits = 0 /\ op[s].step # NoStep
    BY <1>4 DEF Permit, PermitLeft
  <2>2. /\ r \in Operation
        /\ r.step = op[s].step /\ r.permits = 1 /\ r.outcome = "unknown"
        /\ r.conflicts = op[s].conflicts
    BY <1>0, PermittedRow
  <2> HIDE DEF r
  <2>3. RowOK(op[s], submitting[s], submitted[s])
    BY <1>0
  <2>4. submitting[s] + submitted[s] <= 0 /\ op[s].conflicts = 0
    BY <2>1, <2>3 DEF RowOK
  <2>5. RowOK(r, submitting[s] + 1, submitted[s])
    BY <1>0, <2>1, <2>2, <2>4 DEF RowOK
  <2> QED
    BY <1>0, <2>1, <2>2, <2>5
<1>5. ASSUME NEW s \in Subject, Submit(s)
      PROVE  /\ op' \in [Subject -> Operation]
             /\ submitting' \in [Subject -> Nat]
             /\ submitted' \in [Subject -> Nat]
             /\ \A t \in Subject : RowOK(op'[t], submitting'[t], submitted'[t])
  <2>1. RowOK(op[s], submitting[s] - 1, submitted[s] + 1)
    BY <1>0, <1>5 DEF RowOK, Submit
  <2> QED
    BY <1>0, <1>5, <2>1 DEF Submit
<1>6. ASSUME NEW s \in Subject, SubmitterDies(s)
      PROVE  /\ op' \in [Subject -> Operation]
             /\ submitting' \in [Subject -> Nat]
             /\ submitted' \in [Subject -> Nat]
             /\ \A t \in Subject : RowOK(op'[t], submitting'[t], submitted'[t])
  <2>1. RowOK(op[s], submitting[s] - 1, submitted[s])
    BY <1>0, <1>6 DEF RowOK, SubmitterDies
  <2> QED
    BY <1>0, <1>6, <2>1 DEF SubmitterDies
<1>7. ASSUME NEW s \in Subject, Learns(s)
      PROVE  /\ op' \in [Subject -> Operation]
             /\ UNCHANGED <<submitting, submitted>>
             /\ \A t \in Subject : RowOK(op'[t], submitting'[t], submitted'[t])
  BY <1>7, LearnedRowOK DEF Learns
<1> QED
  BY <1>0, <1>1, <1>2, <1>3, <1>4, <1>5, <1>6, <1>7 DEF Changes, Quiet, Kept

\* IndInv holds in every reachable state.
THEOREM Invariance == ASSUME PlanOK, BudgetsOK PROVE Spec => []IndInv
  BY InitInv, NextInv, PTL DEF Spec

-----------------------------------------------------------------------------
(* What follows from it                                                    *)

\* No subject is ever submitted twice, or without a permit.
THEOREM SubmittedOnce == ASSUME PlanOK, BudgetsOK PROVE Spec => []OneSubmit
<1>1. IndInv => OneSubmit
  BY DEF IndInv, RowOK, OneSubmit, Operation
<1> QED
  BY <1>1, Invariance, PTL

\* Nothing was submitted, nor will be, for an operation found not executed.
THEOREM NotExecutedHolds == ASSUME PlanOK, BudgetsOK PROVE Spec => []NotExecutedIsTrue
<1>1. IndInv => NotExecutedIsTrue
  BY DEF IndInv, RowOK, NotExecutedIsTrue
<1> QED
  BY <1>1, Invariance, PTL

\* Confirmed outcomes and conflicts are never taken back.
THEOREM EvidenceStays == ASSUME PlanOK, BudgetsOK PROVE Spec => EvidenceIsSticky
<1> DEFINE Sticky == \A s \in Subject :
          /\ op[s].outcome \in Confirmed => op'[s].outcome = op[s].outcome
          /\ op'[s].conflicts >= op[s].conflicts
          /\ op'[s].conflicts > 0 => op'[s].recon
<1>1. ASSUME IndInv, [Next]_vars PROVE Sticky
  <2>0. /\ op \in [Subject -> Operation]
        /\ \A s \in Subject : RowOK(op[s], submitting[s], submitted[s])
        /\ \A s \in Subject : op[s].conflicts \in Nat
    BY <1>1 DEF IndInv, Operation
  <2>1. Changes
    BY <1>1, StepChanges
  <2>2. CASE Quiet
    BY <2>0, <2>2 DEF Quiet, Kept, SameEvidence, RowOK
  <2>3. ASSUME NEW e \in ExtStep, Activate(e) PROVE Sticky
    <3> DEFINE r == Allocated(e)
               s == SubjectOf[e]
    <3>1. op' = [op EXCEPT ![s] = r]
      BY <2>3 DEF Activate
    <3>2. r.conflicts = 0
      BY <1>1, AllocatedRow DEF IndInv
    <3>3. s \in Subject /\ op[s].step = NoStep
      BY <2>3 DEF Activate, SubjectFree, PlanOK
    <3>4. op[s].outcome = "unobserved" /\ op[s].conflicts = 0
      BY <2>0, <3>3 DEF RowOK
    <3> HIDE DEF r
    <3> QED
      BY <2>0, <3>1, <3>2, <3>3, <3>4 DEF RowOK, Confirmed
  <2>4. ASSUME NEW s \in Subject, Permit(s) PROVE Sticky
    <3> DEFINE r == Permitted(op[s])
    <3>1. op' = [op EXCEPT ![s] = r] /\ op[s].permits = 0
      BY <2>4 DEF Permit, PermitLeft
    <3>2. r.conflicts = op[s].conflicts
      BY <2>0, PermittedRow
    <3>3. op[s].outcome = "unobserved" /\ op[s].conflicts = 0
      BY <2>0, <3>1 DEF RowOK
    <3> HIDE DEF r
    <3> QED
      BY <2>0, <3>1, <3>2, <3>3 DEF RowOK, Confirmed
  <2>5. ASSUME NEW s \in Subject, Submit(s) \/ SubmitterDies(s) PROVE Sticky
    BY <2>0, <2>5 DEF Submit, SubmitterDies, RowOK
  <2>6. ASSUME NEW s \in Subject, Learns(s) PROVE Sticky
    <3>1. PICK i \in ObsId, b \in Report :
              Kept([op EXCEPT ![s] = Informed(op[s], b)], op')
      BY <2>6 DEF Learns
    <3> DEFINE r == Informed(op[s], b)
               ops == [op EXCEPT ![s] = r]
    <3>2. Learned(op[s], b, r)
      BY <2>0, InformedLearns DEF RowOK
    <3>3. Kept(ops, op')
      BY <3>1
    <3> HIDE DEF r
    <3>4. \A t \in Subject :
              /\ op[t].outcome \in Confirmed => ops[t].outcome = op[t].outcome
              /\ ops[t].conflicts >= op[t].conflicts
              /\ ops[t].conflicts > 0 => ops[t].recon
      BY <2>0, <3>2 DEF Learned, RowOK
    <3> HIDE DEF ops
    <3> QED
      BY <3>3, <3>4 DEF Kept, SameEvidence
  <2> HIDE DEF Sticky
  <2> QED
    BY <2>1, <2>2, <2>3, <2>4, <2>5, <2>6 DEF Changes
<1>2. IndInv /\ [Next]_vars => [Sticky]_op
  BY <1>1
<1> HIDE DEF Sticky
<1>3. Spec => [][Sticky]_op
  BY <1>2, Invariance, PTL DEF Spec
<1> QED
  BY <1>3 DEF EvidenceIsSticky, Sticky

-----------------------------------------------------------------------------
(* The promise                                                             *)

\* The subject s moves from one phase and verdict to the next; the others stay.
Moves(s, x, v) ==
    /\ \A t \in Subject \ {s} :
          /\ PhaseOf(op'[t], submitted'[t]) = PhaseOf(op[t], submitted[t])
          /\ VerdictOf(op'[t]) = VerdictOf(op[t])
    /\ PhaseOf(op'[s], submitted'[s]) = x
    /\ VerdictOf(op'[s]) = v

LEMMA MoveIsExcept ==
    ASSUME NEW s \in Subject, NEW x, NEW v, Moves(s, x, v)
    PROVE  /\ Phases' = [Phases EXCEPT ![s] = x]
           /\ Verdicts' = [Verdicts EXCEPT ![s] = v]
  BY DEF Moves, Phases, Verdicts

LEMMA MoveKeepsVerdict ==
    ASSUME NEW s \in Subject, NEW x, Moves(s, x, VerdictOf(op[s]))
    PROVE  Verdicts' = Verdicts
  BY DEF Moves, Verdicts

LEMMA MoveKeepsPhase ==
    ASSUME NEW s \in Subject, NEW v, Moves(s, PhaseOf(op[s], submitted[s]), v)
    PROVE  Phases' = Phases
  BY DEF Moves, Phases

LEMMA ValuesAt ==
    ASSUME NEW s \in Subject
    PROVE  Phases[s] = PhaseOf(op[s], submitted[s]) /\ Verdicts[s] = VerdictOf(op[s])
  BY DEF Phases, Verdicts

\* Without a permit nothing was called; with a call on its way, neither.
LEMMA RowsAdd ==
    ASSUME NEW o, NEW p \in Nat, NEW n \in Nat, RowOK(o, p, n)
    PROVE  /\ o.permits = 0 => n = 0
           /\ p > 0 => n = 0 /\ o.permits = 1 /\ o.step # NoStep
<1>1. o.permits \in {0, 1} /\ p + n <= o.permits /\ (o.step = NoStep => o.permits = 0)
  BY DEF RowOK
<1> QED
  BY <1>1

\* Every step of the service is a step of the promise, or none.
LEMMA StepKeepsPromise ==
    ASSUME PlanOK, BudgetsOK, IndInv, [Next]_vars
    PROVE  [Promise!ANext]_(Promise!avars)
<1>0. /\ op \in [Subject -> Operation]
      /\ submitting \in [Subject -> Nat] /\ submitted \in [Subject -> Nat]
      /\ \A s \in Subject : RowOK(op[s], submitting[s], submitted[s])
  BY DEF IndInv
<1>1. Changes
  BY StepChanges
<1>2. ASSUME \A s \in Subject :
                /\ PhaseOf(op'[s], submitted'[s]) = PhaseOf(op[s], submitted[s])
                /\ VerdictOf(op'[s]) = VerdictOf(op[s])
      PROVE  UNCHANGED Promise!avars
  BY <1>2 DEF Promise!avars, Phases, Verdicts
<1>3. CASE Quiet
  BY <1>2, <1>3 DEF Quiet, Kept, SameEvidence, PhaseOf, VerdictOf
<1>4. ASSUME NEW e \in ExtStep, Activate(e)
      PROVE  Promise!ANext
  <2> DEFINE s == SubjectOf[e]
             r == Allocated(e)
  <2>1. s \in Subject /\ e # NoStep
    BY DEF PlanOK
  <2>2. /\ op' = [op EXCEPT ![s] = r] /\ submitted' = submitted
        /\ op[s].step = NoStep
    BY <1>4 DEF Activate, SubjectFree
  <2>3. r.step = e /\ r.permits = 0 /\ r.outcome = "unobserved"
    BY AllocatedRow DEF IndInv
  <2> HIDE DEF r
  <2>4. VerdictOf(op[s]) = "open" /\ PhaseOf(op[s], submitted[s]) = "free"
    BY <1>0, <2>1, <2>2 DEF RowOK, VerdictOf, PhaseOf, Confirmed
  <2>5. Moves(s, "reserved", VerdictOf(op[s]))
    BY <1>0, <2>1, <2>2, <2>3, <2>4 DEF Moves, PhaseOf, VerdictOf, Confirmed
  <2> HIDE DEF s
  <2>6. Promise!Reserve(s)
    BY <2>1, <2>4, <2>5, MoveIsExcept, MoveKeepsVerdict, ValuesAt DEF Promise!Reserve
  <2> QED
    BY <2>1, <2>6 DEF Promise!ANext
<1>5. ASSUME NEW s \in Subject, Permit(s)
      PROVE  Promise!ANext
  <2> DEFINE r == Permitted(op[s])
  <2>1. /\ op' = [op EXCEPT ![s] = r] /\ submitted' = submitted
        /\ op[s].step # NoStep /\ op[s].permits = 0
    BY <1>5 DEF Permit, PermitLeft
  <2>2. r.step = op[s].step /\ r.permits = 1 /\ r.outcome = "unknown"
    BY <1>0, PermittedRow
  <2> HIDE DEF r
  <2>3. submitted[s] = 0
    BY <1>0, <2>1, RowsAdd
  <2>4. VerdictOf(op[s]) = "open" /\ PhaseOf(op[s], submitted[s]) = "reserved"
    BY <1>0, <2>1 DEF RowOK, VerdictOf, PhaseOf, Confirmed
  <2>5. Moves(s, "permitted", VerdictOf(op[s]))
    BY <1>0, <2>1, <2>2, <2>3, <2>4 DEF Moves, PhaseOf, VerdictOf, Confirmed
  <2>6. Promise!Grant(s)
    BY <2>4, <2>5, MoveIsExcept, MoveKeepsVerdict, ValuesAt DEF Promise!Grant
  <2> QED
    BY <2>6 DEF Promise!ANext
<1>6. ASSUME NEW s \in Subject, Submit(s)
      PROVE  Promise!ANext
  <2>1. /\ op' = op /\ submitted' = [submitted EXCEPT ![s] = @ + 1]
        /\ submitting[s] > 0
    BY <1>6 DEF Submit
  <2>2. /\ submitted[s] = 0 /\ op[s].permits = 1 /\ op[s].step # NoStep
        /\ op[s].outcome # "confirmed_not_executed"
    BY <1>0, <2>1, RowsAdd DEF RowOK
  <2>3. /\ PhaseOf(op[s], submitted[s]) = "permitted"
        /\ VerdictOf(op[s]) # "confirmed_not_executed"
    BY <2>2 DEF PhaseOf, VerdictOf
  <2>4. Moves(s, "called", VerdictOf(op[s]))
    BY <1>0, <2>1, <2>2 DEF Moves, PhaseOf
  <2>5. Promise!Call(s)
    BY <2>3, <2>4, MoveIsExcept, MoveKeepsVerdict, ValuesAt DEF Promise!Call
  <2> QED
    BY <2>5 DEF Promise!ANext
<1>7. ASSUME NEW s \in Subject, SubmitterDies(s)
      PROVE  UNCHANGED Promise!avars
  BY <1>2, <1>7 DEF SubmitterDies
<1>8. ASSUME NEW s \in Subject, Learns(s)
      PROVE  [Promise!ANext]_(Promise!avars)
  <2>1. PICK i \in ObsId, b \in Report :
            /\ Acceptable(s, i, b)
            /\ Kept([op EXCEPT ![s] = Informed(op[s], b)], op')
    BY <1>8 DEF Learns
  <2> DEFINE r == Informed(op[s], b)
             ops == [op EXCEPT ![s] = r]
  <2>2. Learned(op[s], b, r)
    BY <1>0, InformedLearns DEF RowOK
  <2>3. /\ submitted' = submitted /\ op[s].step # NoStep /\ op[s].permits = 1
        /\ Proven(s, b)
    BY <1>8, <2>1 DEF Learns, Acceptable
  <2>4. Kept(ops, op')
    BY <2>1
  <2> HIDE DEF r
  <2>5. \A t \in Subject \ {s} : SameEvidence(op[t], op'[t])
    BY <2>4 DEF Kept
  <2>6. SameEvidence(r, op'[s])
    BY <1>0, <2>4 DEF Kept
  <2> HIDE DEF ops
  <2>7. /\ op'[s].step = op[s].step /\ op'[s].permits = 1
        /\ \/ op'[s].outcome = op[s].outcome
           \/ op[s].outcome \notin Confirmed /\ op'[s].outcome = b.outcome
    BY <2>2, <2>3, <2>6 DEF Learned, SameEvidence
  <2>8. \A t \in Subject \ {s} :
            /\ PhaseOf(op'[t], submitted'[t]) = PhaseOf(op[t], submitted[t])
            /\ VerdictOf(op'[t]) = VerdictOf(op[t])
    BY <2>3, <2>5 DEF SameEvidence, PhaseOf, VerdictOf
  <2>9. PhaseOf(op'[s], submitted'[s]) = PhaseOf(op[s], submitted[s])
    BY <2>3, <2>7 DEF PhaseOf
  <2>10. CASE VerdictOf(op'[s]) = VerdictOf(op[s])
    BY <1>2, <2>8, <2>9, <2>10
  <2>11. CASE VerdictOf(op'[s]) # VerdictOf(op[s])
    <3>1. /\ op[s].outcome \notin Confirmed /\ op'[s].outcome = b.outcome
          /\ b.outcome \in Confirmed
      BY <2>7, <2>11 DEF VerdictOf
    <3>2. VerdictOf(op[s]) = "open" /\ VerdictOf(op'[s]) = b.outcome
      BY <3>1 DEF VerdictOf
    <3>3. /\ PhaseOf(op[s], submitted[s]) \in {"permitted", "called"}
          /\ b.outcome = "confirmed_not_executed" =>
                PhaseOf(op[s], submitted[s]) = "permitted"
      BY <2>3 DEF PhaseOf, Proven
    <3>4. Moves(s, PhaseOf(op[s], submitted[s]), b.outcome)
      BY <2>8, <2>9, <3>2 DEF Moves
    <3>5. Promise!Settle(s, b.outcome)
      BY <3>2, <3>3, <3>4, MoveIsExcept, MoveKeepsPhase, ValuesAt DEF Promise!Settle
    <3>6. b.outcome \in Promise!Settled
      BY <3>1 DEF Promise!Settled, Confirmed
    <3> QED
      BY <3>5, <3>6 DEF Promise!ANext
  <2> QED
    BY <2>10, <2>11
<1> QED
  BY <1>1, <1>3, <1>2, <1>4, <1>5, <1>6, <1>7, <1>8 DEF Changes

\* The service implements OneSubmission: whatever happens, callers see one
\* reservation, one permit, at most one provider call and one verdict.
THEOREM PromiseKept == ASSUME PlanOK, BudgetsOK PROVE Spec => KeepsPromise
<1>1. Init => Promise!AInit
  BY DEF Init, Promise!AInit, NoOperation, Phases, Verdicts, PhaseOf, VerdictOf, Confirmed
<1>2. IndInv /\ [Next]_vars => [Promise!ANext]_(Promise!avars)
  BY StepKeepsPromise
<1> QED
  BY <1>1, <1>2, Invariance, PTL DEF Spec, KeepsPromise, Promise!ASpec

-----------------------------------------------------------------------------
(* Parents that end                                                        *)

ConfirmedFor(s) ==
    /\ op[SubjectOf[s]].step = s
    /\ op[SubjectOf[s]].outcome = "confirmed_succeeded"

WorkflowOK(w) ==
    /\ DOMAIN wf[w] = DOMAIN NewWorkflow
    /\ ~Active(w) <=> wf[w].receipt # NoReceipt
    /\ ~Active(w) =>
        /\ wf[w].state = "completed" =>
                \A s \in ExtOf(w) : wf[w].receipt.rows[s] = "succeeded"
        /\ \A s \in ExtOf(w) :
                wf[w].receipt.rows[s] = "succeeded" => ConfirmedFor(s)

StepOK(s) ==
    HasOp(s, op) =>
        /\ step[s] # "pending"
        /\ op[SubjectOf[s]].outcome \in Confirmed /\ Active(WorkflowOf[s]) =>
                step[s] \in {"succeeded", "failed"}

SubjectOK(s) ==
    op[s].step # NoStep =>
        /\ SubjectOf[op[s].step] = s
        /\ op[s].attached <=> ~Active(WorkflowOf[op[s].step])

ParentInv ==
    /\ DOMAIN wf = Workflow
    /\ step \in [Step -> StepState]
    /\ \A w \in Workflow : WorkflowOK(w)
    /\ \A s \in ExtStep : StepOK(s)
    /\ \A s \in Subject : SubjectOK(s)

\* A workflow keeps its state and receipt, or goes on, or ends with a receipt
\* that says what the operations say.
Same(w) == wf'[w].state = wf[w].state /\ wf'[w].receipt = wf[w].receipt

Goes(w) ==
    Active(w) /\ wf'[w].state \in ActiveStates /\ wf'[w].receipt = wf[w].receipt

Ends(w) ==
    /\ Active(w)
    /\ wf'[w].state \in Ended
    /\ wf'[w].receipt # NoReceipt
    /\ wf'[w].state = "completed" =>
            \A s \in ExtOf(w) : wf'[w].receipt.rows[s] = "succeeded"
    /\ \A s \in ExtOf(w) : wf'[w].receipt.rows[s] = "succeeded" => ConfirmedFor(s)'

\* Operations stay with their step, and outcomes stay confirmed.
Stays ==
    \A s \in Subject : op[s].step # NoStep =>
        /\ op'[s].step = op[s].step
        /\ op[s].outcome \in Confirmed => op'[s].outcome = op[s].outcome
        /\ op'[s].permits = op[s].permits \/ Active(WorkflowOf[op[s].step])

\* What every step keeps: the invariant, and workflows that have ended.
Keeps == ParentInv' /\ \A w \in Workflow : Active(w) \/ Same(w)

-----------------------------------------------------------------------------
(* Operations                                                              *)

LEMMA StepOfOperation ==
    ASSUME PlanOK, IndInv, NEW s \in Subject
    PROVE  /\ op[s] \in Operation
           /\ op[s].step # NoStep =>
                /\ op[s].step \in ExtStep /\ op[s].step \in Step
                /\ WorkflowOf[op[s].step] \in Workflow
<1>1. op[s] \in Operation
  BY DEF IndInv
<1>2. op[s].step \in ExtStep \cup {NoStep}
  BY <1>1 DEF Operation
<1>. QED  BY <1>1, <1>2 DEF PlanOK

LEMMA ExtSteps ==
    ASSUME PlanOK, NEW s \in ExtStep
    PROVE  /\ s \in Step /\ s # NoStep
           /\ WorkflowOf[s] \in Workflow /\ SubjectOf[s] \in Subject
BY DEF PlanOK

LEMMA StatesApart ==
    /\ \A x : ~(x \in ActiveStates /\ x \in Ended)
    /\ "unobserved" \notin Confirmed /\ "unknown" \notin Confirmed
BY DEF ActiveStates, Ended, Confirmed

LEMMA OperationsStay ==
    ASSUME PlanOK, BudgetsOK, IndInv, Next PROVE Stays
<1>1. Changes
  BY StepChanges
<1>2. CASE Quiet
  BY <1>2 DEF Quiet, Kept, SameEvidence, Stays
<1>3. ASSUME NEW e \in ExtStep, Activate(e) PROVE Stays
  <2>1. /\ op' = [op EXCEPT ![SubjectOf[e]] = Allocated(e)]
        /\ op[SubjectOf[e]].step = NoStep
    BY <1>3 DEF Activate, SubjectFree
  <2>. QED  BY <2>1 DEF Stays, IndInv
<1>4. ASSUME NEW s \in Subject, Permit(s) PROVE Stays
  <2>1. /\ op' = [op EXCEPT ![s] = Permitted(op[s])]
        /\ op[s].permits = 0 /\ Active(WorkflowOf[op[s].step])
    BY <1>4 DEF Permit, PermitLeft
  <2>2. op[s] \in Operation /\ op[s].outcome = "unobserved"
    BY <2>1 DEF IndInv, RowOK
  <2>3. Permitted(op[s]).step = op[s].step
    BY <2>2, PermittedRow
  <2>. QED  BY <2>1, <2>2, <2>3, StatesApart DEF Stays, IndInv
<1>5. ASSUME NEW s \in Subject, Submit(s) \/ SubmitterDies(s) PROVE Stays
  BY <1>5 DEF Submit, SubmitterDies, Stays
<1>6. ASSUME NEW s \in Subject, Learns(s) PROVE Stays
  <2>1. PICK i \in ObsId, b \in Report :
            Kept([op EXCEPT ![s] = Informed(op[s], b)], op')
    BY <1>6 DEF Learns
  <2>. DEFINE r == Informed(op[s], b)
              ops == [op EXCEPT ![s] = r]
  <2>2. Learned(op[s], b, r)
    BY InformedLearns DEF IndInv, RowOK
  <2>3. \A t \in Subject : ops[t] = IF t = s THEN r ELSE op[t]
    BY DEF IndInv
  <2>. HIDE DEF r
  <2>4. Kept(ops, op')
    BY <2>1 DEF r
  <2>. HIDE DEF ops
  <2>. QED  BY <2>2, <2>3, <2>4 DEF Stays, Kept, SameEvidence, Learned
<1>. QED  BY <1>1, <1>2, <1>3, <1>4, <1>5, <1>6 DEF Changes

\* attach_parent_terminal names the receipt in the operations of w only.
LEMMA AttachedFlags ==
    ASSUME NEW w, NEW ops \in [Subject -> Operation], NEW s \in Subject
    PROVE  Attached(w, ops)[s].attached =
                (ops[s].attached \/ ops[s].step \in StepsOf(w))
<1>1. ops[s] \in Operation /\ ops[s].attached \in BOOLEAN
  BY DEF Operation
<1>2. [ops[s] EXCEPT !.attached = TRUE].attached
  BY <1>1 DEF Operation
<1>3. \A o : Snapshot(o).attached = o.attached
  BY DEF Snapshot
<1>. QED  BY <1>1, <1>2, <1>3 DEF Attached

-----------------------------------------------------------------------------
(* Workflows that stay or go on, and one that ends                         *)

LEMMA WorkflowStays ==
    ASSUME PlanOK, ParentInv, Stays, NEW w \in Workflow,
           DOMAIN wf'[w] = DOMAIN wf[w],
           Same(w) \/ Goes(w) \/ Ends(w)
    PROVE  WorkflowOK(w)'
<1>1. WorkflowOK(w) /\ DOMAIN wf'[w] = DOMAIN NewWorkflow
  BY DEF ParentInv, WorkflowOK
<1>2. CASE Same(w)
  <2>1. Active(w)' <=> Active(w)
    BY <1>2 DEF Same, Active
  <2>2. ASSUME NEW s \in ExtOf(w), ConfirmedFor(s) PROVE ConfirmedFor(s)'
    <3>1. SubjectOf[s] \in Subject /\ s # NoStep
      BY ExtSteps DEF ExtOf
    <3>. QED  BY <2>2, <3>1 DEF ConfirmedFor, Stays, Confirmed
  <2>. QED  BY <1>1, <1>2, <2>1, <2>2 DEF Same, WorkflowOK
<1>3. CASE Goes(w)
  BY <1>1, <1>3, StatesApart DEF Goes, WorkflowOK, Active
<1>4. CASE Ends(w)
  BY <1>1, <1>4, StatesApart DEF Ends, WorkflowOK, Active
<1>. QED  BY <1>2, <1>3, <1>4

\* No workflow ends, and an operation that is allocated is one of an active one.
LEMMA GoOn ==
    ASSUME PlanOK, IndInv, ParentInv, Stays,
           step' \in [Step -> StepState], DOMAIN wf' = Workflow,
           \A w \in Workflow : DOMAIN wf'[w] = DOMAIN wf[w] /\ (Same(w) \/ Goes(w)),
           \A s \in Subject :
              \/ op'[s].step = op[s].step /\ op'[s].attached = op[s].attached
              \/ /\ SubjectOf[op'[s].step] = s /\ ~op'[s].attached
                 /\ WorkflowOf[op'[s].step] \in Workflow
                 /\ wf'[WorkflowOf[op'[s].step]].state \in ActiveStates,
           \A s \in ExtStep : StepOK(s)'
    PROVE  Keeps
<1>1. \A w \in Workflow : WorkflowOK(w)' /\ (Active(w) \/ Same(w))
  BY WorkflowStays DEF Goes
<1>2. ASSUME NEW s \in Subject PROVE SubjectOK(s)'
  <2>1. SubjectOK(s)
    BY DEF ParentInv
  <2>2. CASE op'[s].step = op[s].step /\ op'[s].attached = op[s].attached
    <3>1. SUFFICES ASSUME op[s].step # NoStep
                   PROVE  SubjectOf[op[s].step] = s
                          /\ (op[s].attached <=> ~Active(WorkflowOf[op[s].step])')
      BY <2>2 DEF SubjectOK
    <3>2. WorkflowOf[op[s].step] \in Workflow
      BY <3>1, StepOfOperation
    <3>3. Active(WorkflowOf[op[s].step])' <=> Active(WorkflowOf[op[s].step])
      BY <2>2, <3>2 DEF Same, Goes, Active
    <3>. QED  BY <2>1, <3>1, <3>3 DEF SubjectOK
  <2>3. CASE /\ SubjectOf[op'[s].step] = s /\ ~op'[s].attached
             /\ wf'[WorkflowOf[op'[s].step]].state \in ActiveStates
    BY <2>3 DEF SubjectOK, Active
  <2>. QED  BY <2>2, <2>3
<1>. QED  BY <1>1, <1>2 DEF Keeps, ParentInv

\* _freeze_receipt, for an active workflow.
LEMMA FreezeEnds ==
    ASSUME PlanOK, NEW w \in Workflow, Active(w), DOMAIN wf = Workflow,
           NEW f, DOMAIN f = DOMAIN NewWorkflow, f.receipt = NoReceipt,
           f.state \in {"completed", "failed", "cancelled"},
           NEW ops \in [Subject -> Operation], Freeze(w, f, ops)
    PROVE  /\ Ends(w) /\ DOMAIN wf' = Workflow
           /\ DOMAIN wf'[w] = DOMAIN NewWorkflow
           /\ \A u \in Workflow \ {w} : wf'[u] = wf[u]
           /\ op' = Attached(w, ops)
<1>. DEFINE status == IF f.state = "completed" /\ ~CompletionReady(w, ops)
                      THEN "blocked" ELSE f.state
            receipt == [status |-> status, rows |-> StepReceipts(w, ops)]
            g == [f EXCEPT !.state = status, !.receipt = receipt]
<1>1. wf' = [wf EXCEPT ![w] = g] /\ op' = Attached(w, ops)
  BY DEF Freeze
<1>2. /\ receipt.status = status /\ receipt.rows = StepReceipts(w, ops)
      /\ status \in {"completed", "failed", "cancelled", "blocked"}
  OBVIOUS
<1>3. receipt # NoReceipt
  <2>1. NoReceipt.status = "none"
    BY DEF NoReceipt
  <2>. QED  BY <1>2, <2>1
<1>4. status = "completed" => CompletionReady(w, ops)
  OBVIOUS
<1>. HIDE DEF receipt, status
<1>5. /\ DOMAIN g = DOMAIN NewWorkflow
      /\ g.state = status /\ g.receipt = receipt
  BY DEF NewWorkflow
<1>. HIDE DEF g
<1>6. wf'[w] = g
  BY <1>1
<1>7. \A s \in ExtOf(w) :
            /\ StepReceipts(w, ops)[s] = "succeeded" <=> Resolved(s, ops)
            /\ Resolved(s, ops) => ConfirmedFor(s)'
  <2>. TAKE s \in ExtOf(w)
  <2>1. SubjectOf[s] \in Subject
    BY ExtSteps DEF ExtOf
  <2>2. SameEvidence(ops[SubjectOf[s]], op'[SubjectOf[s]])
    BY <1>1, <2>1, AttachedKeeps DEF Kept
  <2>3. StepReceipts(w, ops)[s] = "succeeded" <=> Resolved(s, ops)
    BY DEF StepReceipts, Resolved
  <2>4. Resolved(s, ops) => ConfirmedFor(s)'
    BY <2>2 DEF Resolved, HasOp, SameEvidence, ConfirmedFor
  <2>. QED  BY <2>3, <2>4
<1>8. status = "completed" => \A s \in ExtOf(w) : StepReceipts(w, ops)[s] = "succeeded"
  BY <1>4, <1>7 DEF CompletionReady
<1>9. Ends(w)
  BY <1>2, <1>3, <1>5, <1>6, <1>7, <1>8 DEF Ends, Ended
<1>. QED  BY <1>1, <1>5, <1>6, <1>9

\* One workflow ends, with the operations ops.
LEMMA OneEnds ==
    ASSUME PlanOK, IndInv, ParentInv, Stays, step' \in [Step -> StepState],
           NEW w \in Workflow, Active(w),
           NEW f, DOMAIN f = DOMAIN NewWorkflow, f.receipt = wf[w].receipt,
           f.state \in {"completed", "failed", "cancelled"},
           NEW ops \in [Subject -> Operation],
           \A s \in Subject :
                ops[s].step = op[s].step /\ ops[s].attached = op[s].attached,
           Freeze(w, f, ops),
           \A s \in ExtStep : WorkflowOf[s] # w => StepOK(s)',
           \A s \in ExtStep : HasOp(s, op) => step'[s] # "pending"
    PROVE  Keeps
<1>1. f.receipt = NoReceipt
  BY DEF ParentInv, WorkflowOK
<1>2. /\ Ends(w) /\ DOMAIN wf' = Workflow
      /\ DOMAIN wf'[w] = DOMAIN NewWorkflow
      /\ \A u \in Workflow \ {w} : wf'[u] = wf[u]
      /\ op' = Attached(w, ops)
  BY <1>1, FreezeEnds DEF ParentInv
<1>3. \A u \in Workflow : WorkflowOK(u)' /\ (Active(u) \/ Same(u))
  <2>1. \A u \in Workflow : DOMAIN wf'[u] = DOMAIN wf[u]
    BY <1>2 DEF ParentInv, WorkflowOK
  <2>2. \A u \in Workflow : u = w \/ Same(u)
    BY <1>2 DEF Same
  <2>. QED  BY <1>2, <2>1, <2>2, WorkflowStays
<1>4. ~Active(w)'
  BY <1>2, StatesApart DEF Ends, Active
<1>5. ASSUME NEW s \in Subject
      PROVE  /\ op'[s].step = op[s].step
             /\ op'[s].attached = (op[s].attached \/ op[s].step \in StepsOf(w))
  BY <1>2, <1>5, AttachedFlags, AttachedKeeps DEF Kept, SameEvidence
<1>6. ASSUME NEW s \in Subject PROVE SubjectOK(s)'
  <2>1. SubjectOK(s)
    BY DEF ParentInv
  <2>2. SUFFICES ASSUME op[s].step # NoStep
                 PROVE  SubjectOf[op[s].step] = s
                        /\ (op'[s].attached <=> ~Active(WorkflowOf[op[s].step])')
    BY <1>5 DEF SubjectOK
  <2>3. /\ WorkflowOf[op[s].step] \in Workflow
        /\ op[s].step \in StepsOf(w) <=> WorkflowOf[op[s].step] = w
    BY <2>2, StepOfOperation DEF StepsOf
  <2>4. CASE WorkflowOf[op[s].step] = w
    BY <1>4, <1>5, <2>1, <2>2, <2>3, <2>4 DEF SubjectOK
  <2>5. CASE WorkflowOf[op[s].step] # w
    <3>1. Active(WorkflowOf[op[s].step])' <=> Active(WorkflowOf[op[s].step])
      BY <1>2, <1>5, <2>3, <2>5 DEF Active
    <3>. QED  BY <1>5, <2>1, <2>2, <2>3, <2>5, <3>1 DEF SubjectOK
  <2>. QED  BY <2>4, <2>5
<1>7. ASSUME NEW s \in ExtStep PROVE StepOK(s)'
  <2>1. CASE WorkflowOf[s] # w
    BY <2>1
  <2>2. CASE WorkflowOf[s] = w
    <3>1. HasOp(s, op)' => HasOp(s, op)
      BY <1>5, ExtSteps DEF HasOp
    <3>. QED  BY <1>4, <2>2, <3>1 DEF StepOK
  <2>. QED  BY <2>1, <2>2
<1>. QED  BY <1>2, <1>3, <1>6, <1>7 DEF Keeps, ParentInv

\* A step bound to an operation that nobody moved, while no workflow revived.
LEMMA StepStays ==
    ASSUME ParentInv, NEW s \in ExtStep, step'[s] = step[s],
           SameEvidence(op[SubjectOf[s]], op'[SubjectOf[s]]),
           Active(WorkflowOf[s])' => Active(WorkflowOf[s])
    PROVE  StepOK(s)'
<1>1. StepOK(s)
  BY DEF ParentInv
<1>. QED  BY <1>1 DEF StepOK, HasOp, SameEvidence

-----------------------------------------------------------------------------
(* Actions that leave the states of workflows and steps alone              *)

LEMMA Untouched ==
    ASSUME PlanOK, IndInv, ParentInv, Stays, Kept(op, op'), step' = step,
           DOMAIN wf' = Workflow,
           \A w \in Workflow : DOMAIN wf'[w] = DOMAIN wf[w] /\ Same(w),
           \A s \in Subject : op'[s].attached = op[s].attached
    PROVE  Keeps
<1>1. step' \in [Step -> StepState]
  BY DEF ParentInv
<1>2. \A s \in Subject : SameEvidence(op[s], op'[s])
  BY DEF Kept
<1>3. ASSUME NEW s \in ExtStep PROVE StepOK(s)'
  <2>1. WorkflowOf[s] \in Workflow /\ SubjectOf[s] \in Subject
    BY ExtSteps
  <2>2. Active(WorkflowOf[s])' => Active(WorkflowOf[s])
    BY <2>1 DEF Same, Active
  <2>. QED  BY <1>2, <2>1, <2>2, StepStays
<1>. QED  BY <1>1, <1>2, <1>3, GoOn DEF SameEvidence

LEMMA Unchanged ==
    ASSUME PlanOK, IndInv, ParentInv, Stays, UNCHANGED <<op, wf, step>>
    PROVE  Keeps
<1>1. Kept(op, op')
  BY KeptSame DEF IndInv
<1>. QED  BY <1>1, Untouched DEF Same, ParentInv

LEMMA RegisterKeeps ==
    ASSUME PlanOK, IndInv, ParentInv, Stays, NEW s \in Subject, RegisterManualCase(s)
    PROVE  Keeps
<1>1. Kept(op, op')
  BY RegisterQuiet DEF Quiet
<1>2. op' = [op EXCEPT ![s] = Snapshot([@ EXCEPT !.case = TRUE])]
  BY DEF RegisterManualCase
<1>3. Snapshot([op[s] EXCEPT !.case = TRUE]).attached = op[s].attached
  BY DEF Snapshot, IndInv, Operation
<1>4. \A t \in Subject : op'[t].attached = op[t].attached
  BY <1>2, <1>3 DEF IndInv
<1>. QED  BY <1>1, <1>4, Untouched DEF RegisterManualCase, Same, ParentInv

LEMMA EndQueryKeeps ==
    ASSUME PlanOK, IndInv, ParentInv, Stays, NEW q \in query, EndQuery(q)
    PROVE  Keeps
<1>1. Kept(op, op')
  BY EndQueryQuiet DEF Quiet
<1>2. op' = op \/ op' = [op EXCEPT ![q.subject].claim = NoClaim]
  BY DEF EndQuery
<1>3. q.subject \in Subject
  BY DEF IndInv
<1>4. \A t \in Subject : op'[t].attached = op[t].attached
  BY <1>2, <1>3 DEF IndInv, Operation
<1>. QED  BY <1>1, <1>4, Untouched DEF EndQuery, Same, ParentInv

\* Charging a query moves the parent's counters only, even of one that ended.
LEMMA BeginQueryKeeps ==
    ASSUME PlanOK, BudgetsOK, IndInv, ParentInv, Stays, NEW s \in Subject, BeginQuery(s)
    PROVE  Keeps
<1>1. Kept(op, op')
  BY BeginQueryQuiet DEF Quiet
<1>. DEFINE w == WorkflowOf[op[s].step]
<1>2. w \in Workflow
  BY StepOfOperation DEF BeginQuery
<1>3. wf' = [wf EXCEPT ![w] = QueryCharged(@)] /\ step' = step
  BY DEF BeginQuery
<1>4. DOMAIN wf = Workflow /\ \A u \in Workflow : DOMAIN wf[u] = DOMAIN NewWorkflow
  BY DEF ParentInv, WorkflowOK
<1>. HIDE DEF w
<1>5. /\ DOMAIN QueryCharged(wf[w]) = DOMAIN wf[w]
      /\ QueryCharged(wf[w]).state = wf[w].state
      /\ QueryCharged(wf[w]).receipt = wf[w].receipt
  BY <1>2, <1>4 DEF QueryCharged, NewWorkflow
<1>6. \A u \in Workflow : DOMAIN wf'[u] = DOMAIN wf[u] /\ Same(u)
  BY <1>2, <1>3, <1>4, <1>5 DEF Same
<1>. DEFINE o == op[s]
            c == [fence |-> o.fence + 1, deadline |-> clock + Reserve(o)]
            r == [o EXCEPT !.queries = @ + 1, !.reserved = @ + Reserve(o),
                           !.fence = @ + 1, !.claim = c]
<1>7. op' = [op EXCEPT ![s] = Snapshot(r)]
  BY DEF BeginQuery
<1>8. r.attached = op[s].attached
  BY DEF IndInv, Operation
<1>. HIDE DEF r
<1>9. Snapshot(r).attached = op[s].attached
  BY <1>8 DEF Snapshot
<1>10. \A t \in Subject : op'[t].attached = op[t].attached
  BY <1>7, <1>9 DEF IndInv
<1>. QED  BY <1>1, <1>3, <1>4, <1>6, <1>10, Untouched

-----------------------------------------------------------------------------
(* Allocating and submitting                                               *)

LEMMA ActivateKeeps ==
    ASSUME PlanOK, IndInv, ParentInv, Stays, NEW s \in ExtStep, Activate(s)
    PROVE  Keeps
<1>. DEFINE w == WorkflowOf[s]
<1>1. w \in Workflow /\ SubjectOf[s] \in Subject /\ s \in Step /\ s # NoStep
  BY ExtSteps
<1>2. /\ op' = [op EXCEPT ![SubjectOf[s]] = Allocated(s)]
      /\ step' = [step EXCEPT ![s] = "running"]
      /\ wf' = [wf EXCEPT ![w].state = "running", ![w].operations = @ + 1,
                          ![w].dispatches = @ + 1, ![w].active = @ + 1]
      /\ Active(w)
  BY DEF Activate
<1>3. /\ DOMAIN wf = Workflow /\ step \in [Step -> StepState]
      /\ \A u \in Workflow : DOMAIN wf[u] = DOMAIN NewWorkflow
  BY DEF ParentInv, WorkflowOK
<1>4. step' \in [Step -> StepState]
  BY <1>2, <1>3 DEF StepState
<1>5. /\ DOMAIN wf' = Workflow
      /\ \A u \in Workflow \ {w} : wf'[u] = wf[u]
      /\ DOMAIN wf'[w] = DOMAIN wf[w]
      /\ wf'[w].state = "running" /\ wf'[w].receipt = wf[w].receipt
  BY <1>1, <1>2, <1>3 DEF NewWorkflow
<1>6. \A u \in Workflow : DOMAIN wf'[u] = DOMAIN wf[u] /\ (Same(u) \/ Goes(u))
  BY <1>2, <1>5 DEF Same, Goes, ActiveStates
<1>7. /\ Allocated(s).step = s /\ Allocated(s).outcome = "unobserved"
      /\ ~Allocated(s).attached
  <2>1. ~Allocated(s).attached
    BY DEF Allocated, Snapshot, NoOperation
  <2>. QED  BY <2>1, AllocatedRow DEF IndInv
<1>8. \A t \in Subject : op'[t] = IF t = SubjectOf[s] THEN Allocated(s) ELSE op[t]
  BY <1>2 DEF IndInv
<1>9. \A t \in Subject :
          \/ op'[t].step = op[t].step /\ op'[t].attached = op[t].attached
          \/ /\ SubjectOf[op'[t].step] = t /\ ~op'[t].attached
             /\ WorkflowOf[op'[t].step] \in Workflow
             /\ wf'[WorkflowOf[op'[t].step]].state \in ActiveStates
  <2>. TAKE t \in Subject
  <2>1. CASE t = SubjectOf[s]
    BY <1>1, <1>5, <1>7, <1>8, <2>1 DEF ActiveStates
  <2>. QED  BY <1>8, <2>1
<1>10. ASSUME NEW t \in ExtStep PROVE StepOK(t)'
  <2>1. SubjectOf[t] \in Subject /\ WorkflowOf[t] \in Workflow /\ t \in Step
    BY ExtSteps
  <2>2. CASE t = s
    <3>1. step'[t] = "running"
      BY <1>1, <1>2, <1>3, <2>2
    <3>2. op'[SubjectOf[t]].outcome \notin Confirmed
      BY <1>7, <1>8, <2>1, <2>2, StatesApart DEF Confirmed
    <3>. QED  BY <3>1, <3>2 DEF StepOK
  <2>3. CASE t # s /\ SubjectOf[t] = SubjectOf[s]
    BY <1>7, <1>8, <2>1, <2>3 DEF StepOK, HasOp
  <2>4. CASE SubjectOf[t] # SubjectOf[s]
    <3>1. SameEvidence(op[SubjectOf[t]], op'[SubjectOf[t]])
      BY <1>8, <2>1, <2>4 DEF SameEvidence
    <3>2. step'[t] = step[t]
      BY <1>2, <1>3, <2>1, <2>4
    <3>3. Active(WorkflowOf[t])' => Active(WorkflowOf[t])
      BY <1>6, <2>1 DEF Same, Goes, Active
    <3>. QED  BY <3>1, <3>2, <3>3, StepStays
  <2>. QED  BY <2>2, <2>3, <2>4
<1>. HIDE DEF w
<1>. QED  BY <1>4, <1>5, <1>6, <1>9, <1>10, GoOn

LEMMA PermitKeeps ==
    ASSUME PlanOK, IndInv, ParentInv, Stays, NEW s \in Subject, Permit(s)
    PROVE  Keeps
<1>. DEFINE w == WorkflowOf[op[s].step]
<1>1. w \in Workflow /\ op[s] \in Operation
  BY StepOfOperation DEF Permit
<1>2. /\ op' = [op EXCEPT ![s] = Permitted(op[s])]
      /\ wf' = [wf EXCEPT ![w].calls = @ + 1]
      /\ step' = step
  BY DEF Permit
<1>3. /\ DOMAIN wf = Workflow /\ step \in [Step -> StepState]
      /\ \A u \in Workflow : DOMAIN wf[u] = DOMAIN NewWorkflow
  BY DEF ParentInv, WorkflowOK
<1>. HIDE DEF w
<1>4. /\ DOMAIN wf' = Workflow
      /\ \A u \in Workflow : DOMAIN wf'[u] = DOMAIN wf[u] /\ Same(u)
  BY <1>1, <1>2, <1>3 DEF NewWorkflow, Same
<1>5. Permitted(op[s]).attached = op[s].attached
  BY <1>1 DEF Permitted, Snapshot, Operation
<1>6. Permitted(op[s]).step = op[s].step /\ Permitted(op[s]).outcome = "unknown"
  BY <1>1, PermittedRow
<1>7. \A t \in Subject : op'[t] = IF t = s THEN Permitted(op[s]) ELSE op[t]
  BY <1>2 DEF IndInv
<1>8. \A t \in Subject : op'[t].step = op[t].step /\ op'[t].attached = op[t].attached
  BY <1>5, <1>6, <1>7
<1>9. ASSUME NEW t \in ExtStep PROVE StepOK(t)'
  <2>1. SubjectOf[t] \in Subject /\ WorkflowOf[t] \in Workflow
    BY ExtSteps
  <2>2. StepOK(t)
    BY DEF ParentInv
  <2>3. CASE SubjectOf[t] = s
    BY <1>2, <1>6, <1>7, <2>1, <2>2, <2>3, StatesApart DEF StepOK, HasOp
  <2>4. CASE SubjectOf[t] # s
    <3>1. SameEvidence(op[SubjectOf[t]], op'[SubjectOf[t]])
      BY <1>7, <2>1, <2>4 DEF SameEvidence
    <3>2. Active(WorkflowOf[t])' => Active(WorkflowOf[t])
      BY <1>4, <2>1 DEF Same, Active
    <3>. QED  BY <1>2, <3>1, <3>2, StepStays
  <2>. QED  BY <2>3, <2>4
<1>. QED  BY <1>2, <1>3, <1>4, <1>8, <1>9, GoOn

-----------------------------------------------------------------------------
(* The runtime service                                                     *)

\* It never touches the steps that are bound to an operation: the workflow w
\* ends, goes on, or stays.
LEMMA RuntimeEnds ==
    ASSUME PlanOK, IndInv, ParentInv, Stays, step' \in [Step -> StepState],
           \A s \in ExtStep : step'[s] = step[s],
           NEW w \in Workflow, Active(w),
           NEW f, DOMAIN f = DOMAIN NewWorkflow, f.receipt = wf[w].receipt,
           f.state \in {"completed", "failed", "cancelled"},
           Freeze(w, f, op)
    PROVE  Keeps
<1>1. op \in [Subject -> Operation]
  BY DEF IndInv
<1>2. f.receipt = NoReceipt
  BY DEF ParentInv, WorkflowOK
<1>3. \A u \in Workflow \ {w} : wf'[u] = wf[u]
  BY <1>1, <1>2, FreezeEnds DEF ParentInv
<1>4. Kept(op, op')
  BY <1>1, FreezeKeeps
<1>5. ASSUME NEW s \in ExtStep, WorkflowOf[s] # w PROVE StepOK(s)'
  <2>1. SubjectOf[s] \in Subject /\ WorkflowOf[s] \in Workflow
    BY ExtSteps
  <2>2. Active(WorkflowOf[s])' => Active(WorkflowOf[s])
    BY <1>3, <1>5, <2>1 DEF Active
  <2>. QED  BY <1>4, <2>1, <2>2, StepStays DEF Kept
<1>6. \A s \in ExtStep : HasOp(s, op) => step'[s] # "pending"
  BY DEF ParentInv, StepOK
<1>. QED  BY <1>1, <1>5, <1>6, OneEnds

LEMMA RuntimeGoesOn ==
    ASSUME PlanOK, IndInv, ParentInv, Stays, step' \in [Step -> StepState],
           \A s \in ExtStep : step'[s] = step[s], op' = op,
           NEW w \in Workflow, Active(w),
           NEW f, DOMAIN f = DOMAIN NewWorkflow, f.receipt = wf[w].receipt,
           f.state \in ActiveStates,
           wf' = [wf EXCEPT ![w] = f]
    PROVE  Keeps
<1>1. DOMAIN wf = Workflow /\ DOMAIN wf[w] = DOMAIN NewWorkflow
  BY DEF ParentInv, WorkflowOK
<1>2. /\ DOMAIN wf' = Workflow
      /\ \A u \in Workflow : DOMAIN wf'[u] = DOMAIN wf[u] /\ (Same(u) \/ Goes(u))
  BY <1>1 DEF Same, Goes
<1>3. ASSUME NEW s \in ExtStep PROVE StepOK(s)'
  <2>1. SubjectOf[s] \in Subject /\ WorkflowOf[s] \in Workflow
    BY ExtSteps
  <2>2. SameEvidence(op[SubjectOf[s]], op'[SubjectOf[s]])
    BY DEF SameEvidence
  <2>3. Active(WorkflowOf[s])' => Active(WorkflowOf[s])
    BY <1>2, <2>1 DEF Same, Goes, Active
  <2>. QED  BY <2>2, <2>3, StepStays
<1>. QED  BY <1>2, <1>3, GoOn

LEMMA ProviderActivatesKeeps ==
    ASSUME PlanOK, IndInv, ParentInv, Stays, NEW s \in Step, ProviderActivates(s)
    PROVE  Keeps
<1>. DEFINE w == WorkflowOf[s]
            f == [wf[w] EXCEPT !.state = "failed", !.active = 0]
            g == [wf[w] EXCEPT !.state = "running", !.attempts = @ + 1,
                               !.active = @ + 1]
<1>1. /\ w \in Workflow /\ Active(w) /\ s \notin ExtStep
      /\ DOMAIN wf[w] = DOMAIN NewWorkflow /\ DOMAIN wf = Workflow
      /\ step \in [Step -> StepState]
  BY DEF ParentInv, WorkflowOK, ProviderActivates, PlanOK
<1>2. \/ Freeze(w, f, op) /\ step' = step
      \/ /\ wf' = [wf EXCEPT ![w] = g] /\ op' = op
         /\ step' = [step EXCEPT ![s] = "running"]
  <2>1. [wf EXCEPT ![w].state = "running", ![w].attempts = @ + 1,
                   ![w].active = @ + 1] = [wf EXCEPT ![w] = g]
    BY <1>1 DEF NewWorkflow
  <2>. QED  BY <2>1 DEF ProviderActivates
<1>3. /\ DOMAIN f = DOMAIN NewWorkflow /\ f.receipt = wf[w].receipt
      /\ f.state \in {"completed", "failed", "cancelled"}
  BY <1>1 DEF NewWorkflow
<1>4. /\ DOMAIN g = DOMAIN NewWorkflow /\ g.receipt = wf[w].receipt
      /\ g.state \in ActiveStates
  BY <1>1 DEF NewWorkflow, ActiveStates
<1>. HIDE DEF f, g, w
<1>5. /\ step' \in [Step -> StepState]
      /\ \A t \in ExtStep : step'[t] = step[t]
  BY <1>1, <1>2 DEF StepState, PlanOK
<1>. QED  BY <1>1, <1>2, <1>3, <1>4, <1>5, RuntimeEnds, RuntimeGoesOn

LEMMA ProviderEndsKeeps ==
    ASSUME PlanOK, IndInv, ParentInv, Stays, NEW s \in Step,
           NEW outcome \in {"succeeded", "failed"}, ProviderEnds(s, outcome)
    PROVE  Keeps
<1>. DEFINE w == WorkflowOf[s]
            g == [wf[w] EXCEPT !.active = @ - 1]
            f == [g EXCEPT !.state = IF outcome = "failed" THEN "failed" ELSE "completed"]
<1>1. /\ w \in Workflow /\ Active(w) /\ s \notin ExtStep
      /\ DOMAIN wf[w] = DOMAIN NewWorkflow
      /\ step \in [Step -> StepState] /\ step' = [step EXCEPT ![s] = outcome]
  BY DEF ParentInv, WorkflowOK, ProviderEnds, PlanOK
<1>2. Freeze(w, f, op) \/ (wf' = [wf EXCEPT ![w] = g] /\ op' = op)
  BY DEF ProviderEnds
<1>3. /\ DOMAIN f = DOMAIN NewWorkflow /\ f.receipt = wf[w].receipt
      /\ f.state \in {"completed", "failed", "cancelled"}
  BY <1>1 DEF NewWorkflow
<1>4. /\ DOMAIN g = DOMAIN NewWorkflow /\ g.receipt = wf[w].receipt
      /\ g.state \in ActiveStates
  BY <1>1 DEF NewWorkflow, Active
<1>. HIDE DEF f, g, w
<1>5. /\ step' \in [Step -> StepState]
      /\ \A t \in ExtStep : step'[t] = step[t]
  BY <1>1 DEF StepState, PlanOK
<1>. QED  BY <1>1, <1>2, <1>3, <1>4, <1>5, RuntimeEnds, RuntimeGoesOn

LEMMA ProviderExpiresKeeps ==
    ASSUME PlanOK, IndInv, ParentInv, Stays, NEW w \in Workflow,
           NEW lost \in SUBSET (StepsOf(w) \ ExtStep), ProviderExpires(w, lost)
    PROVE  Keeps
<1>. DEFINE g == [wf[w] EXCEPT !.active = @ - Cardinality(lost)]
<1>1. /\ Active(w) /\ DOMAIN wf[w] = DOMAIN NewWorkflow /\ DOMAIN wf = Workflow
      /\ step \in [Step -> StepState] /\ op' = op
  BY DEF ParentInv, WorkflowOK, ProviderExpires
<1>2. wf' = [wf EXCEPT ![w] = g]
  BY DEF ProviderExpires
<1>3. /\ DOMAIN g = DOMAIN NewWorkflow /\ g.receipt = wf[w].receipt
      /\ g.state \in ActiveStates
  BY <1>1 DEF NewWorkflow, Active
<1>. HIDE DEF g
<1>4. /\ step' \in [Step -> StepState]
      /\ \A t \in ExtStep : step'[t] = step[t]
  BY <1>1 DEF StepState, PlanOK, ProviderExpires
<1>. QED  BY <1>1, <1>2, <1>3, <1>4, RuntimeGoesOn

LEMMA CancelKeeps ==
    ASSUME PlanOK, IndInv, ParentInv, Stays, NEW w \in Workflow, Cancel(w)
    PROVE  Keeps
<1>. DEFINE f == [wf[w] EXCEPT !.state = "cancelled", !.active = 0]
<1>1. /\ Active(w) /\ DOMAIN wf[w] = DOMAIN NewWorkflow
      /\ step \in [Step -> StepState] /\ step' = step
  BY DEF ParentInv, WorkflowOK, Cancel
<1>2. Freeze(w, f, op)
  BY DEF Cancel
<1>3. /\ DOMAIN f = DOMAIN NewWorkflow /\ f.receipt = wf[w].receipt
      /\ f.state \in {"completed", "failed", "cancelled"}
  BY <1>1 DEF NewWorkflow
<1>. HIDE DEF f
<1>. QED  BY <1>1, <1>2, <1>3, RuntimeEnds

-----------------------------------------------------------------------------
(* Reports                                                                 *)

\* An outcome that a report confirms for the first time is not reconciled.
LEMMA InformedFacts ==
    ASSUME NEW o \in Operation, NEW b \in Report,
           o.conflicts > 0 => o.recon /\ o.outcome \in Confirmed
    PROVE  /\ Informed(o, b).attached = o.attached
           /\ Informed(o, b).outcome \in Confirmed /\ o.outcome \notin Confirmed =>
                ~Informed(o, b).recon
<1>1. Informed(o, b).attached = o.attached
  BY DEF Informed, Snapshot, Operation
<1>2. ASSUME o.outcome \notin Confirmed, Informed(o, b).outcome \in Confirmed
      PROVE  ~Informed(o, b).recon
  <2>1. Disposition(o, b) = "accepted"
    BY <1>2 DEF Disposition
  <2>2. Informed(o, b).outcome = b.outcome /\ Informed(o, b).recon = StillOpen(o, b)
    BY <2>1 DEF Informed, Snapshot, Operation
  <2>3. ~(o.conflicts > 0)
    BY <1>2
  <2>. QED  BY <1>2, <2>2, <2>3 DEF StillOpen
<1>. QED  BY <1>1, <1>2

LEMMA TakeInKeeps ==
    ASSUME PlanOK, IndInv, ParentInv, Stays,
           NEW s \in Subject, NEW i \in ObsId, NEW b \in Report, TakeIn(s, i, b)
    PROVE  Keeps
<1>0. PICK x \in ExtStep : x = op[s].step
  BY StepOfOperation DEF TakeIn, Acceptable
<1>. DEFINE w == WorkflowOf[x]
            r == Informed(op[s], b)
            ops == [op EXCEPT ![s] = r]
<1>1. /\ x = op[s].step /\ x \in Step /\ w \in Workflow /\ SubjectOf[x] = s
      /\ op[s] \in Operation
  BY <1>0, StepOfOperation DEF TakeIn, Acceptable, ParentInv, SubjectOK
<1>2. /\ DOMAIN wf = Workflow /\ step \in [Step -> StepState]
      /\ \A u \in Workflow : DOMAIN wf[u] = DOMAIN NewWorkflow
      /\ \A t \in ExtStep : StepOK(t)
  BY DEF ParentInv, WorkflowOK
<1>3. /\ r \in Operation /\ r.step = x /\ r.attached = op[s].attached
      /\ r.outcome \in Confirmed /\ op[s].outcome \notin Confirmed => ~r.recon
  BY <1>1, InformedLearns, InformedFacts DEF IndInv, RowOK, Learned
<1>4. AdvanceParent(r, ops)
  BY DEF TakeIn
<1>. HIDE DEF r
<1>5. /\ ops \in [Subject -> Operation]
      /\ \A t \in Subject : ops[t] = IF t = s THEN r ELSE op[t]
  BY <1>3 DEF IndInv
<1>6. Kept(ops, op')
  BY <1>4, <1>5, AdvanceKeeps
<1>. HIDE DEF ops
<1>7. ASSUME NEW t \in ExtStep, t # x, step'[t] = step[t],
             Active(WorkflowOf[t])' => Active(WorkflowOf[t])
      PROVE  StepOK(t)'
  <2>1. SubjectOf[t] \in Subject
    BY ExtSteps
  <2>2. CASE SubjectOf[t] = s
    BY <1>3, <1>5, <1>6, <1>7, <2>1, <2>2 DEF StepOK, HasOp, Kept, SameEvidence
  <2>3. CASE SubjectOf[t] # s
    <3>1. SameEvidence(op[SubjectOf[t]], op'[SubjectOf[t]])
      BY <1>5, <1>6, <2>1, <2>3 DEF Kept, SameEvidence
    <3>. QED  BY <1>7, <3>1, StepStays
  <2>. QED  BY <2>2, <2>3
<1>8. step[x] # "pending" /\ HasOp(x, op)
  BY <1>1, <1>2 DEF StepOK, HasOp
\* The report changes nothing of the parent.
<1>9. CASE op' = ops /\ wf' = wf /\ step' = step
           /\ (~Active(w) \/ r.outcome \notin Confirmed \/ r.recon)
  <2>1. StepOK(x)'
    <3>1. op'[s] = r
      BY <1>5, <1>9
    <3>2. ASSUME r.outcome \in Confirmed, Active(w)
          PROVE  step[x] \in {"succeeded", "failed"}
      <4>1. op[s].outcome \in Confirmed
        BY <1>3, <1>9, <3>2
      <4>. QED  BY <1>1, <1>2, <1>8, <3>2, <4>1 DEF StepOK
    <3>. QED  BY <1>1, <1>8, <1>9, <3>1, <3>2 DEF StepOK, Active
  <2>2. \A t \in ExtStep : StepOK(t)'
    BY <1>7, <1>9, <2>1 DEF Active
  <2>3. \A t \in Subject : op'[t].step = op[t].step /\ op'[t].attached = op[t].attached
    BY <1>1, <1>3, <1>5, <1>9
  <2>4. \A u \in Workflow : DOMAIN wf'[u] = DOMAIN wf[u] /\ Same(u)
    BY <1>9 DEF Same
  <2>. QED  BY <1>2, <1>9, <2>2, <2>3, <2>4, GoOn
\* The report ends the step.
<1>10. CASE Active(w) /\ r.outcome \in Confirmed /\ ~r.recon
  <2>. DEFINE status == IF r.outcome = "confirmed_succeeded" THEN "succeeded"
                        ELSE "failed"
              steps == IF step[x] = "running" THEN [step EXCEPT ![x] = status] ELSE step
              f == IF step[x] = "running" THEN StepEnds(wf[w]) ELSE wf[w]
              g == [f EXCEPT !.state = IF status = "succeeded" THEN "completed"
                                       ELSE "failed"]
  <2>1. /\ step' = steps
        /\ Freeze(w, g, ops) \/ (wf' = [wf EXCEPT ![w] = f] /\ op' = ops)
    BY <1>3, <1>4, <1>10 DEF AdvanceParent
  <2>2. /\ step' \in [Step -> StepState]
        /\ step'[x] \in {"succeeded", "failed"}
        /\ \A t \in Step : t # x => step'[t] = step[t]
    BY <1>1, <1>2, <1>8, <2>1 DEF StepState
  <2>3. /\ DOMAIN f = DOMAIN NewWorkflow
        /\ f.receipt = wf[w].receipt /\ f.state = wf[w].state
    BY <1>1, <1>2 DEF StepEnds, NewWorkflow
  <2>. HIDE DEF f, steps, status
  <2>4. /\ DOMAIN g = DOMAIN NewWorkflow /\ g.receipt = wf[w].receipt
        /\ g.state \in {"completed", "failed", "cancelled"}
    BY <2>3 DEF NewWorkflow
  <2>. HIDE DEF g
  <2>5. StepOK(x)'
    BY <2>2 DEF StepOK
  <2>6. \A t \in Subject : ops[t].step = op[t].step /\ ops[t].attached = op[t].attached
    BY <1>1, <1>3, <1>5
  <2>7. CASE wf' = [wf EXCEPT ![w] = f] /\ op' = ops
    <3>1. /\ DOMAIN wf' = Workflow
          /\ \A u \in Workflow : DOMAIN wf'[u] = DOMAIN wf[u] /\ (Same(u) \/ Goes(u))
      BY <1>1, <1>2, <1>10, <2>3, <2>7 DEF Same, Goes, Active
    <3>2. ASSUME NEW t \in ExtStep PROVE StepOK(t)'
      <4>1. Active(WorkflowOf[t])' => Active(WorkflowOf[t])
        BY <3>1, ExtSteps DEF Same, Goes, Active
      <4>. QED  BY <1>7, <2>2, <2>5, <4>1, ExtSteps
    <3>. QED  BY <2>2, <2>6, <2>7, <3>1, <3>2, GoOn
  <2>8. CASE Freeze(w, g, ops)
    <3>1. \A u \in Workflow \ {w} : wf'[u] = wf[u]
      <4>1. wf[w].receipt = NoReceipt
        BY <1>1, <1>10 DEF ParentInv, WorkflowOK
      <4>. QED  BY <1>1, <1>2, <1>5, <1>10, <2>4, <2>8, <4>1, FreezeEnds
    <3>2. ASSUME NEW t \in ExtStep, WorkflowOf[t] # w PROVE StepOK(t)'
      <4>1. Active(WorkflowOf[t])' => Active(WorkflowOf[t])
        BY <3>1, <3>2, ExtSteps DEF Active
      <4>. QED  BY <1>7, <2>2, <3>2, <4>1, ExtSteps
    <3>3. \A t \in ExtStep : HasOp(t, op) => step'[t] # "pending"
      BY <1>2, <2>2, ExtSteps DEF StepOK
    <3>. HIDE DEF w
    <3>. QED  BY <1>1, <1>5, <1>10, <2>2, <2>4, <2>6, <2>8, <3>2, <3>3, OneEnds
  <2>. QED  BY <2>1, <2>7, <2>8
<1>. QED  BY <1>3, <1>4, <1>9, <1>10 DEF AdvanceParent

-----------------------------------------------------------------------------
(* The invariant                                                           *)

LEMMA InitParents == ASSUME PlanOK, Init PROVE ParentInv
<1>1. DOMAIN wf = Workflow /\ step \in [Step -> StepState]
  BY DEF Init, StepState
<1>2. ASSUME NEW w \in Workflow PROVE WorkflowOK(w)
  <2>1. wf[w] = NewWorkflow
    BY DEF Init
  <2>2. NewWorkflow.state \in ActiveStates /\ NewWorkflow.receipt = NoReceipt
    BY DEF NewWorkflow, ActiveStates
  <2>. QED  BY <2>1, <2>2 DEF WorkflowOK, Active
<1>3. \A s \in Subject : op[s].step = NoStep
  BY DEF Init, NoOperation
<1>4. \A s \in ExtStep : ~HasOp(s, op)
  BY <1>3, ExtSteps DEF HasOp
<1>. QED  BY <1>1, <1>2, <1>3, <1>4 DEF ParentInv, StepOK, SubjectOK

LEMMA StepKeeps ==
    ASSUME PlanOK, BudgetsOK, IndInv, ParentInv, Next PROVE Keeps
<1>1. Stays
  BY OperationsStay
<1>2. CASE Tick \/ Authority
  BY <1>1, <1>2, Unchanged DEF Tick, Authority, IssuerFreshness, Revoke
<1>3. CASE Parent
  BY <1>1, <1>3, ProviderActivatesKeeps, ProviderEndsKeeps, ProviderExpiresKeeps,
     CancelKeeps DEF Parent
<1>4. ASSUME NEW s \in ExtStep, Activate(s) PROVE Keeps
  BY <1>1, <1>4, ActivateKeeps
<1>5. ASSUME NEW s \in Subject, Permit(s) PROVE Keeps
  BY <1>1, <1>5, PermitKeeps
<1>6. ASSUME NEW s \in Subject, Submit(s) \/ SubmitterDies(s) PROVE Keeps
  BY <1>1, <1>6, Unchanged DEF Submit, SubmitterDies
<1>7. ASSUME NEW s \in Subject, RegisterManualCase(s) PROVE Keeps
  BY <1>1, <1>7, RegisterKeeps
<1>8. ASSUME NEW s \in Subject, BeginQuery(s) PROVE Keeps
  BY <1>1, <1>8, BeginQueryKeeps
<1>9. ASSUME NEW s \in Subject, NEW i \in ObsId, NEW b \in Report, Observe(s, i, b)
      PROVE  Keeps
  BY <1>1, <1>9, TakeInKeeps DEF Observe
<1>10. ASSUME NEW q \in query, NEW i \in ObsId, NEW b \in Report, QueryAnswered(q, i, b)
       PROVE  Keeps
  <2>1. q.subject \in Subject
    BY DEF IndInv
  <2>. QED  BY <1>1, <1>10, <2>1, TakeInKeeps DEF QueryAnswered
<1>11. ASSUME NEW q \in query, QueryUnanswered(q) \/ QueryAborts(q) PROVE Keeps
  BY <1>1, <1>11, Unchanged DEF QueryUnanswered, QueryAborts
<1>12. ASSUME NEW q \in query, EndQuery(q) PROVE Keeps
  BY <1>1, <1>12, EndQueryKeeps
<1>. QED  BY <1>2, <1>3, <1>4, <1>5, <1>6, <1>7, <1>8, <1>9, <1>10, <1>11, <1>12 DEF Next

LEMMA StutterKeeps ==
    ASSUME ParentInv, UNCHANGED vars PROVE ParentInv'
BY DEF vars, ParentInv, WorkflowOK, StepOK, SubjectOK, Active, HasOp, ConfirmedFor

\* ParentInv holds beside the invariant of the operations.
LEMMA ParentInvariance == ASSUME PlanOK, BudgetsOK PROVE Spec => [](IndInv /\ ParentInv)
<1>1. Init => IndInv /\ ParentInv
  BY InitInv, InitParents
<1>2. IndInv /\ ParentInv /\ [Next]_vars => (IndInv /\ ParentInv)'
  BY NextInv, StepKeeps, StutterKeeps DEF Keeps
<1>. QED  BY <1>1, <1>2, PTL DEF Spec

-----------------------------------------------------------------------------
(* The theorems                                                            *)

\* A parent is completed, and its frozen receipt calls the step of an operation
\* succeeded, only if the provider confirmed that operation: whoever ends the
\* parent asks for its operations (parent_completion_ready), and no report that
\* comes after the receipt takes the confirmation back.
THEOREM CompletedConfirmed == ASSUME PlanOK, BudgetsOK PROVE Spec => []CompletedIsConfirmed
<1>1. ParentInv => CompletedIsConfirmed
  BY DEF ParentInv, WorkflowOK, ConfirmedFor, CompletedIsConfirmed
<1>. QED  BY <1>1, ParentInvariance, PTL

\* The report that confirms an operation ends its step with it (_advance_parent),
\* and the runtime service, which also moves steps, never takes that back: no
\* active parent waits for a step whose outcome is known.
THEOREM ConfirmedEnds == ASSUME PlanOK, BudgetsOK PROVE Spec => []ConfirmedEndsStep
<1>1. ParentInv => ConfirmedEndsStep
  BY DEF ParentInv, StepOK, ConfirmedEndsStep
<1>. QED  BY <1>1, ParentInvariance, PTL

\* A parent ends once: whichever of the two services ends it freezes the receipt
\* (_freeze_receipt) and names it in the parent's operations and no other's
\* (attach_parent_terminal); what goes on after the end, queries and reports,
\* changes neither, and submits nothing more.
THEOREM EndFinal == ASSUME PlanOK, BudgetsOK PROVE Spec => EndIsFinal
<1>. DEFINE A(w) ==
          /\ ~Active(w)' <=> wf'[w].receipt # NoReceipt
          /\ \A s \in Subject : op'[s].step \in StepsOf(w) =>
                                    (op'[s].attached <=> ~Active(w)')
          /\ ~Active(w) =>
                /\ wf'[w].state = wf[w].state
                /\ wf'[w].receipt = wf[w].receipt
                /\ \A s \in Subject : op[s].step \in StepsOf(w) =>
                                          op'[s].permits = op[s].permits
<1>1. ASSUME PlanOK, ParentInv', NEW w \in Workflow
      PROVE  /\ ~Active(w)' <=> wf'[w].receipt # NoReceipt
             /\ \A s \in Subject : op'[s].step \in StepsOf(w) =>
                                       (op'[s].attached <=> ~Active(w)')
  <2>1. WorkflowOK(w)' /\ \A s \in Subject : SubjectOK(s)'
    BY <1>1 DEF ParentInv
  <2>2. NoStep \notin StepsOf(w)
    BY <1>1 DEF StepsOf, PlanOK
  <2>. QED  BY <2>1, <2>2 DEF WorkflowOK, SubjectOK, StepsOf, Active
<1>2. ASSUME PlanOK, BudgetsOK, IndInv, ParentInv, Next, NEW w \in Workflow PROVE A(w)
  <2>1. Keeps /\ Stays
    BY <1>2, StepKeeps, OperationsStay
  <2>2. NoStep \notin StepsOf(w)
    BY <1>2 DEF StepsOf, PlanOK
  <2>3. ~Active(w) =>
          /\ wf'[w].state = wf[w].state /\ wf'[w].receipt = wf[w].receipt
          /\ \A s \in Subject : op[s].step \in StepsOf(w) => op'[s].permits = op[s].permits
    BY <2>1, <2>2 DEF Keeps, Same, Stays, StepsOf
  <2>. QED  BY <1>1, <1>2, <2>1, <2>3 DEF Keeps
<1>3. ASSUME PlanOK, BudgetsOK PROVE IndInv /\ ParentInv /\ [Next]_vars =>
          [\A w \in Workflow : A(w)]_vars
  BY <1>2, <1>3
<1>4. EndIsFinal <=> [][\A w \in Workflow : A(w)]_vars
  BY DEF EndIsFinal
<1>. QED  BY <1>3, <1>4, ParentInvariance, PTL DEF Spec

-----------------------------------------------------------------------------
(* The counters of a parent                                                *)

\* The steps of w that run, and those of them that are bound to an operation.
Running(w, st)    == {s \in StepsOf(w) : st[s] = "running"}
RunningExt(w, st) == {s \in ExtOf(w) : st[s] = "running"}

CountersOK(w) ==
    Active(w) =>
        /\ wf[w].active = Cardinality(Running(w, step))
        /\ wf[w].dispatches = Cardinality(RunningExt(w, step))

CountersInv == \A w \in Workflow : CountersOK(w)

LEMMA RunningFinite ==
    ASSUME PlanOK, IsFiniteSet(Step), NEW w, NEW st
    PROVE  /\ IsFiniteSet(Running(w, st)) /\ IsFiniteSet(RunningExt(w, st))
           /\ Cardinality(Running(w, st)) \in Nat
           /\ Cardinality(RunningExt(w, st)) \in Nat
<1>1. Running(w, st) \in SUBSET Step /\ RunningExt(w, st) \in SUBSET Step
  BY DEF PlanOK, Running, RunningExt, StepsOf, ExtOf
<1>. QED  BY <1>1, FS_Subset, FS_CardinalityType

\* A step starts, or a running step stops.
LEMMA OneStarts ==
    ASSUME PlanOK, IsFiniteSet(Step), step \in [Step -> StepState],
           NEW x \in Step, step[x] # "running", step' = [step EXCEPT ![x] = "running"],
           NEW w, w = WorkflowOf[x]
    PROVE  /\ Cardinality(Running(w, step')) = Cardinality(Running(w, step)) + 1
           /\ Cardinality(RunningExt(w, step')) =
                Cardinality(RunningExt(w, step)) + (IF x \in ExtStep THEN 1 ELSE 0)
<1>1. /\ Running(w, step') = Running(w, step) \cup {x} /\ x \notin Running(w, step)
      /\ x \notin RunningExt(w, step)
  BY DEF Running, RunningExt, StepsOf
<1>2. RunningExt(w, step') = IF x \in ExtStep THEN RunningExt(w, step) \cup {x}
                           ELSE RunningExt(w, step)
  BY DEF RunningExt, ExtOf, PlanOK
<1>3. Cardinality(Running(w, step')) = Cardinality(Running(w, step)) + 1
  BY <1>1, RunningFinite, FS_AddElement
<1>4. CASE x \in ExtStep
  <2>1. Cardinality(RunningExt(w, step) \cup {x}) = Cardinality(RunningExt(w, step)) + 1
    BY <1>1, RunningFinite, FS_AddElement
  <2>. QED  BY <1>2, <1>3, <1>4, <2>1
<1>5. CASE x \notin ExtStep
  BY <1>2, <1>3, <1>5, RunningFinite
<1>. QED  BY <1>4, <1>5

LEMMA OneStops ==
    ASSUME PlanOK, IsFiniteSet(Step), step \in [Step -> StepState],
           NEW x \in Step, step[x] = "running",
           NEW v, v # "running", step' = [step EXCEPT ![x] = v],
           NEW w, w = WorkflowOf[x]
    PROVE  /\ Cardinality(Running(w, step')) = Cardinality(Running(w, step)) - 1
           /\ Cardinality(RunningExt(w, step')) =
                Cardinality(RunningExt(w, step)) - (IF x \in ExtStep THEN 1 ELSE 0)
<1>1. Running(w, step') = Running(w, step) \ {x} /\ x \in Running(w, step)
  BY DEF Running, StepsOf
<1>2. /\ RunningExt(w, step') = IF x \in ExtStep THEN RunningExt(w, step) \ {x}
                              ELSE RunningExt(w, step)
      /\ x \in ExtStep => x \in RunningExt(w, step)
  <2>1. RunningExt(w, step') = RunningExt(w, step) \ {x}
    BY DEF RunningExt, ExtOf, PlanOK
  <2>. QED  BY <2>1 DEF RunningExt, ExtOf, PlanOK
<1>3. Cardinality(Running(w, step')) = Cardinality(Running(w, step)) - 1
  <2>1. IsFiniteSet(Running(w, step))
    BY RunningFinite
  <2>2. Cardinality(Running(w, step) \ {x}) = Cardinality(Running(w, step)) - 1
    BY <1>1, <2>1, FS_RemoveElement
  <2>. QED  BY <1>1, <2>2
<1>4. CASE x \in ExtStep
  <2>1. Cardinality(RunningExt(w, step) \ {x}) = Cardinality(RunningExt(w, step)) - 1
    BY <1>2, <1>4, RunningFinite, FS_RemoveElement
  <2>. QED  BY <1>2, <1>3, <1>4, <2>1
<1>5. CASE x \notin ExtStep
  BY <1>2, <1>3, <1>5, RunningFinite
<1>. QED  BY <1>4, <1>5

\* What holds of the counters of w holds of all, if no other was touched.
LEMMA OnlyOne ==
    ASSUME PlanOK, CountersInv, NEW w \in Workflow,
           \A u \in Workflow \ {w} : wf'[u] = wf[u],
           \A s \in Step : WorkflowOf[s] # w => step'[s] = step[s],
           CountersOK(w)'
    PROVE  CountersInv'
<1>. SUFFICES ASSUME NEW u \in Workflow, u # w PROVE CountersOK(u)'
  BY DEF CountersInv
<1>1. CountersOK(u) /\ wf'[u] = wf[u]
  BY DEF CountersInv
<1>2. Running(u, step') = Running(u, step) /\ RunningExt(u, step') = RunningExt(u, step)
  BY DEF Running, RunningExt, StepsOf, ExtOf, PlanOK
<1>. QED  BY <1>1, <1>2 DEF CountersOK, Active

\* Counters and steps stay.
LEMMA SameCounters ==
    ASSUME CountersInv, step' = step,
           \A u \in Workflow : Same(u) /\ wf'[u].active = wf[u].active
                               /\ wf'[u].dispatches = wf[u].dispatches
    PROVE  CountersInv'
BY DEF CountersInv, CountersOK, Same, Active

\* A parent that ends counts no more.
LEMMA EndedCounters ==
    ASSUME PlanOK, ParentInv, CountersInv, NEW w \in Workflow, Active(w),
           NEW f, DOMAIN f = DOMAIN NewWorkflow, f.receipt = wf[w].receipt,
           f.state \in {"completed", "failed", "cancelled"},
           NEW ops \in [Subject -> Operation], Freeze(w, f, ops),
           \A s \in Step : WorkflowOf[s] # w => step'[s] = step[s]
    PROVE  CountersInv'
<1>1. wf[w].receipt = NoReceipt
  BY DEF ParentInv, WorkflowOK
<1>2. Ends(w) /\ \A u \in Workflow \ {w} : wf'[u] = wf[u]
  BY <1>1, FreezeEnds DEF ParentInv
<1>3. CountersOK(w)'
  BY <1>2, StatesApart DEF Ends, CountersOK, Active
<1>. QED  BY <1>2, <1>3, OnlyOne

\* The start, and the end, of a step is counted once.
LEMMA StartsCounted ==
    ASSUME PlanOK, IsFiniteSet(Step), ParentInv, CountersInv, NEW x \in Step,
           NEW w \in Workflow, w = WorkflowOf[x], Active(w), step[x] # "running",
           step' = [step EXCEPT ![x] = "running"],
           \A u \in Workflow \ {w} : wf'[u] = wf[u],
           wf'[w].active = wf[w].active + 1,
           wf'[w].dispatches = wf[w].dispatches + (IF x \in ExtStep THEN 1 ELSE 0)
    PROVE  CountersInv'
<1>1. step \in [Step -> StepState] /\ CountersOK(w)
  BY DEF ParentInv, CountersInv
<1>2. /\ Cardinality(Running(w, step')) = Cardinality(Running(w, step)) + 1
      /\ Cardinality(RunningExt(w, step')) =
            Cardinality(RunningExt(w, step)) + (IF x \in ExtStep THEN 1 ELSE 0)
  BY <1>1, OneStarts
<1>3. CountersOK(w)'
  BY <1>1, <1>2 DEF CountersOK
<1>4. \A s \in Step : WorkflowOf[s] # w => step'[s] = step[s]
  BY <1>1
<1>. QED  BY <1>3, <1>4, OnlyOne

LEMMA StopsCounted ==
    ASSUME PlanOK, IsFiniteSet(Step), ParentInv, CountersInv, NEW x \in Step,
           NEW w \in Workflow, w = WorkflowOf[x], Active(w), step[x] = "running",
           NEW v, v # "running", step' = [step EXCEPT ![x] = v],
           \A u \in Workflow \ {w} : wf'[u] = wf[u],
           wf'[w].active = wf[w].active - 1,
           wf'[w].dispatches = wf[w].dispatches - (IF x \in ExtStep THEN 1 ELSE 0)
    PROVE  CountersInv'
<1>1. step \in [Step -> StepState] /\ CountersOK(w)
  BY DEF ParentInv, CountersInv
<1>2. /\ Cardinality(Running(w, step')) = Cardinality(Running(w, step)) - 1
      /\ Cardinality(RunningExt(w, step')) =
            Cardinality(RunningExt(w, step)) - (IF x \in ExtStep THEN 1 ELSE 0)
  BY <1>1, OneStops
<1>3. CountersOK(w)'
  BY <1>1, <1>2 DEF CountersOK
<1>4. \A s \in Step : WorkflowOf[s] # w => step'[s] = step[s]
  BY <1>1
<1>. QED  BY <1>3, <1>4, OnlyOne

LEMMA BothServicesCount ==
    ASSUME PlanOK, IsFiniteSet(Step), IndInv, ParentInv, CountersInv, Next
    PROVE  CountersInv'
<1>1. /\ DOMAIN wf = Workflow /\ step \in [Step -> StepState]
      /\ \A u \in Workflow : DOMAIN wf[u] = DOMAIN NewWorkflow
      /\ op \in [Subject -> Operation]
  BY DEF ParentInv, WorkflowOK, IndInv
<1>2. CASE UNCHANGED <<wf, step>>
  BY <1>2, SameCounters DEF Same
<1>3. ASSUME NEW s \in ExtStep, Activate(s) PROVE CountersInv'
  <2>. DEFINE w == WorkflowOf[s]
  <2>1. /\ w \in Workflow /\ s \in Step
        /\ Active(w) /\ step[s] # "running"
        /\ step' = [step EXCEPT ![s] = "running"]
        /\ wf' = [wf EXCEPT ![w].state = "running", ![w].operations = @ + 1,
                            ![w].dispatches = @ + 1, ![w].active = @ + 1]
    BY <1>3, ExtSteps DEF Activate, Ready
  <2>2. /\ \A u \in Workflow \ {w} : wf'[u] = wf[u]
        /\ wf'[w].active = wf[w].active + 1
        /\ wf'[w].dispatches = wf[w].dispatches + 1
    BY <1>1, <2>1 DEF NewWorkflow
  <2>. HIDE DEF w
  <2>3. w = WorkflowOf[s]
    BY DEF w
  <2>. QED  BY <2>1, <2>2, <2>3, StartsCounted
<1>4. ASSUME NEW s \in Subject, Permit(s) PROVE CountersInv'
  <2>. DEFINE w == WorkflowOf[op[s].step]
  <2>1. w \in Workflow /\ wf' = [wf EXCEPT ![w].calls = @ + 1] /\ step' = step
    BY <1>4, StepOfOperation DEF Permit
  <2>. HIDE DEF w
  <2>. QED  BY <1>1, <2>1, SameCounters DEF NewWorkflow, Same
<1>5. ASSUME NEW s \in Subject, BeginQuery(s) PROVE CountersInv'
  <2>. DEFINE w == WorkflowOf[op[s].step]
  <2>1. w \in Workflow /\ wf' = [wf EXCEPT ![w] = QueryCharged(@)] /\ step' = step
    BY <1>5, StepOfOperation DEF BeginQuery
  <2>. HIDE DEF w
  <2>2. \A u \in Workflow : /\ QueryCharged(wf[u]).state = wf[u].state
                            /\ QueryCharged(wf[u]).receipt = wf[u].receipt
                            /\ QueryCharged(wf[u]).active = wf[u].active
                            /\ QueryCharged(wf[u]).dispatches = wf[u].dispatches
    BY <1>1 DEF QueryCharged, NewWorkflow
  <2>. QED  BY <1>1, <2>1, <2>2, SameCounters DEF Same
<1>6. ASSUME NEW s \in Subject, NEW i \in ObsId, NEW b \in Report, TakeIn(s, i, b)
      PROVE  CountersInv'
  <2>0. PICK x \in ExtStep : x = op[s].step
    BY <1>6, StepOfOperation DEF TakeIn, Acceptable
  <2>. DEFINE w == WorkflowOf[x]
              r == Informed(op[s], b)
              ops == [op EXCEPT ![s] = r]
              status == IF r.outcome = "confirmed_succeeded" THEN "succeeded"
                        ELSE "failed"
              steps == IF step[x] = "running" THEN [step EXCEPT ![x] = status] ELSE step
              f == IF step[x] = "running" THEN StepEnds(wf[w]) ELSE wf[w]
              g == [f EXCEPT !.state = IF status = "succeeded" THEN "completed"
                                       ELSE "failed"]
  <2>1. /\ x \in Step /\ w \in Workflow /\ op[s] \in Operation
        /\ r \in Operation /\ r.step = x
    BY <2>0, ExtSteps, InformedLearns DEF IndInv, RowOK, Learned
  <2>2. ops \in [Subject -> Operation] /\ AdvanceParent(r, ops)
    BY <1>1, <1>6, <2>1 DEF TakeIn
  <2>3. \/ UNCHANGED <<wf, step>>
        \/ /\ Active(w) /\ step' = steps
           /\ Freeze(w, g, ops) \/ wf' = [wf EXCEPT ![w] = f]
    <3>. HIDE DEF r, ops
    <3>. QED  BY <2>1, <2>2 DEF AdvanceParent
  <2>4. /\ DOMAIN f = DOMAIN NewWorkflow /\ f.receipt = wf[w].receipt
        /\ step[x] = "running" => /\ f.active = wf[w].active - 1
                                  /\ f.dispatches = wf[w].dispatches - 1
        /\ step[x] # "running" => f = wf[w]
    BY <1>1, <2>1 DEF StepEnds, NewWorkflow
  <2>5. status # "running" /\ w = WorkflowOf[x]
    OBVIOUS
  <2>6. \A t \in Step : WorkflowOf[t] # w => steps[t] = step[t]
    BY <1>1
  <2>7. steps = IF step[x] = "running" THEN [step EXCEPT ![x] = status] ELSE step
    OBVIOUS
  <2>. HIDE DEF f, status, ops, w, steps
  <2>8. /\ DOMAIN g = DOMAIN NewWorkflow /\ g.receipt = wf[w].receipt
        /\ g.state \in {"completed", "failed", "cancelled"}
    BY <2>4 DEF NewWorkflow
  <2>. HIDE DEF g
  <2>9. CASE Active(w) /\ step' = steps /\ wf' = [wf EXCEPT ![w] = f]
    <3>1. (\A u \in Workflow \ {w} : wf'[u] = wf[u]) /\ wf'[w] = f
      BY <1>1, <2>1, <2>9
    <3>2. CASE step[x] = "running"
      <4>1. /\ step' = [step EXCEPT ![x] = status]
            /\ wf'[w].active = wf[w].active - 1
            /\ wf'[w].dispatches = wf[w].dispatches - (IF x \in ExtStep THEN 1 ELSE 0)
        BY <2>4, <2>7, <2>9, <3>1, <3>2
      <4>2. PICK v : v = status
        OBVIOUS
      <4>3. PICK u \in Workflow : u = w
        BY <2>1
      <4>4. /\ u = WorkflowOf[x] /\ Active(u) /\ v # "running"
            /\ step' = [step EXCEPT ![x] = v]
            /\ \A t \in Workflow \ {u} : wf'[t] = wf[t]
            /\ wf'[u].active = wf[u].active - 1
            /\ wf'[u].dispatches = wf[u].dispatches - (IF x \in ExtStep THEN 1 ELSE 0)
        BY <2>5, <2>9, <3>1, <4>1, <4>2, <4>3
      <4>. HIDE DEF w
      <4>. QED  BY <2>1, <3>2, <4>4, StopsCounted
    <3>3. CASE step[x] # "running"
      BY <2>4, <2>7, <2>9, <3>1, <3>3, SameCounters DEF Same
    <3>. QED  BY <3>2, <3>3
  <2>10. CASE Active(w) /\ step' = steps /\ Freeze(w, g, ops)
    BY <2>1, <2>2, <2>6, <2>8, <2>10, EndedCounters
  <2>. QED  BY <1>2, <2>3, <2>9, <2>10
<1>7. ASSUME NEW s \in Step, ProviderActivates(s) PROVE CountersInv'
  <2>. DEFINE w == WorkflowOf[s]
              f == [wf[w] EXCEPT !.state = "failed", !.active = 0]
  <2>1. w \in Workflow /\ Active(w) /\ s \notin ExtStep /\ step[s] # "running"
    BY <1>7 DEF ProviderActivates, Ready, PlanOK
  <2>2. \/ Freeze(w, f, op) /\ step' = step
        \/ /\ wf' = [wf EXCEPT ![w].state = "running", ![w].attempts = @ + 1,
                               ![w].active = @ + 1]
           /\ step' = [step EXCEPT ![s] = "running"]
    BY <1>7 DEF ProviderActivates
  <2>3. /\ DOMAIN f = DOMAIN NewWorkflow /\ f.receipt = wf[w].receipt
        /\ f.state \in {"completed", "failed", "cancelled"}
    BY <1>1, <2>1 DEF NewWorkflow
  <2>. HIDE DEF f
  <2>4. CASE wf' = [wf EXCEPT ![w].state = "running", ![w].attempts = @ + 1,
                              ![w].active = @ + 1]
             /\ step' = [step EXCEPT ![s] = "running"]
    <3>1. /\ \A u \in Workflow \ {w} : wf'[u] = wf[u]
          /\ wf'[w].active = wf[w].active + 1
          /\ wf'[w].dispatches = wf[w].dispatches
      BY <1>1, <2>1, <2>4 DEF NewWorkflow
    <3>2. Cardinality(RunningExt(w, step)) \in Nat /\ CountersOK(w)
      BY <2>1, RunningFinite DEF CountersInv
    <3>3. wf'[w].dispatches = wf[w].dispatches + 0
      BY <2>1, <3>1, <3>2 DEF CountersOK
    <3>. QED  BY <2>1, <2>4, <3>1, <3>3, StartsCounted
  <2>. QED  BY <1>1, <2>1, <2>2, <2>3, <2>4, EndedCounters
<1>8. ASSUME NEW s \in Step, NEW outcome \in {"succeeded", "failed"},
             ProviderEnds(s, outcome)
      PROVE  CountersInv'
  <2>. DEFINE w == WorkflowOf[s]
              g == [wf[w] EXCEPT !.active = @ - 1]
              f == [g EXCEPT !.state = IF outcome = "failed" THEN "failed" ELSE "completed"]
  <2>1. /\ w \in Workflow /\ Active(w) /\ s \notin ExtStep /\ step[s] = "running"
        /\ step' = [step EXCEPT ![s] = outcome] /\ outcome # "running"
    BY <1>8 DEF ProviderEnds, PlanOK
  <2>2. Freeze(w, f, op) \/ wf' = [wf EXCEPT ![w] = g]
    BY <1>8 DEF ProviderEnds
  <2>3. /\ DOMAIN f = DOMAIN NewWorkflow /\ f.receipt = wf[w].receipt
        /\ f.state \in {"completed", "failed", "cancelled"}
        /\ g.active = wf[w].active - 1 /\ g.dispatches = wf[w].dispatches
    BY <1>1, <2>1 DEF NewWorkflow
  <2>. HIDE DEF f, g
  <2>4. CASE wf' = [wf EXCEPT ![w] = g]
    <3>1. /\ \A u \in Workflow \ {w} : wf'[u] = wf[u]
          /\ wf'[w].active = wf[w].active - 1
          /\ wf'[w].dispatches = wf[w].dispatches
      BY <1>1, <2>1, <2>3, <2>4
    <3>2. Cardinality(RunningExt(w, step)) \in Nat /\ CountersOK(w)
      BY <2>1, RunningFinite DEF CountersInv
    <3>3. wf'[w].dispatches = wf[w].dispatches - 0
      BY <2>1, <3>1, <3>2 DEF CountersOK
    <3>. QED  BY <2>1, <2>4, <3>1, <3>3, StopsCounted
  <2>5. \A t \in Step : WorkflowOf[t] # w => step'[t] = step[t]
    BY <1>1, <2>1
  <2>. QED  BY <1>1, <2>1, <2>2, <2>3, <2>4, <2>5, EndedCounters
<1>9. ASSUME NEW w \in Workflow, NEW lost \in SUBSET (StepsOf(w) \ ExtStep),
             ProviderExpires(w, lost)
      PROVE  CountersInv'
  <2>1. /\ Active(w) /\ \A s \in lost : step[s] = "running"
        /\ step' = [s \in Step |-> IF s \in lost THEN "pending" ELSE step[s]]
        /\ wf' = [wf EXCEPT ![w].active = @ - Cardinality(lost)]
    BY <1>9 DEF ProviderExpires
  <2>2. Running(w, step') = Running(w, step) \ lost /\ Running(w, step) \cap lost = lost
    BY <2>1 DEF Running, StepsOf
  <2>3. RunningExt(w, step') = RunningExt(w, step)
    BY <2>1 DEF RunningExt, ExtOf, PlanOK
  <2>4. Cardinality(Running(w, step')) = Cardinality(Running(w, step)) - Cardinality(lost)
    BY <2>2, RunningFinite, FS_Difference
  <2>5. /\ \A u \in Workflow \ {w} : wf'[u] = wf[u]
        /\ wf'[w].active = wf[w].active - Cardinality(lost)
        /\ wf'[w].dispatches = wf[w].dispatches
    BY <1>1, <2>1 DEF NewWorkflow
  <2>6. CountersOK(w)'
    BY <2>1, <2>3, <2>4, <2>5 DEF CountersInv, CountersOK
  <2>7. \A s \in Step : WorkflowOf[s] # w => step'[s] = step[s]
    BY <1>1, <2>1 DEF StepsOf
  <2>. QED  BY <2>5, <2>6, <2>7, OnlyOne
<1>10. ASSUME NEW w \in Workflow, Cancel(w) PROVE CountersInv'
  <2>. DEFINE f == [wf[w] EXCEPT !.state = "cancelled", !.active = 0]
  <2>1. Active(w) /\ Freeze(w, f, op) /\ step' = step
    BY <1>10 DEF Cancel
  <2>2. /\ DOMAIN f = DOMAIN NewWorkflow /\ f.receipt = wf[w].receipt
        /\ f.state \in {"completed", "failed", "cancelled"}
    BY <1>1 DEF NewWorkflow
  <2>. HIDE DEF f
  <2>. QED  BY <1>1, <2>1, <2>2, EndedCounters
<1>11. CASE Parent
  BY <1>11, <1>7, <1>8, <1>9, <1>10 DEF Parent
<1>12. CASE Tick \/ Authority
  BY <1>2, <1>12 DEF Tick, Authority, IssuerFreshness, Revoke
<1>13. ASSUME NEW s \in Subject,
              \/ Submit(s) \/ SubmitterDies(s) \/ RegisterManualCase(s)
              \/ \E i \in ObsId, b \in Report : Observe(s, i, b)
       PROVE  CountersInv'
  BY <1>2, <1>6, <1>13 DEF Submit, SubmitterDies, RegisterManualCase, Observe
<1>14. ASSUME NEW q \in query,
              \/ QueryUnanswered(q) \/ EndQuery(q) \/ QueryAborts(q)
              \/ \E i \in ObsId, b \in Report : QueryAnswered(q, i, b)
       PROVE  CountersInv'
  <2>1. q.subject \in Subject
    BY DEF IndInv
  <2>. QED  BY <1>2, <1>6, <1>14, <2>1
            DEF QueryUnanswered, EndQuery, QueryAborts, QueryAnswered
<1>. QED  BY <1>3, <1>4, <1>5, <1>11, <1>12, <1>13, <1>14 DEF Next

LEMMA InitCounters == ASSUME PlanOK, Init PROVE CountersInv
<1>. SUFFICES ASSUME NEW w \in Workflow PROVE CountersOK(w)
  BY DEF CountersInv
<1>1. Running(w, step) = {} /\ RunningExt(w, step) = {}
  BY DEF Init, Running, RunningExt, StepsOf, ExtOf, PlanOK
<1>2. wf[w].active = 0 /\ wf[w].dispatches = 0
  BY DEF Init, NewWorkflow
<1>. QED  BY <1>1, <1>2, FS_EmptySet DEF CountersOK

LEMMA CountersHold ==
    ASSUME PlanOK, BudgetsOK, IsFiniteSet(Step) PROVE Spec => []CountersInv
<1>1. Init => CountersInv
  BY InitCounters
<1>2. IndInv /\ ParentInv /\ CountersInv /\ [Next]_vars => CountersInv'
  <2>1. CountersInv /\ UNCHANGED vars => CountersInv'
    BY DEF vars, CountersInv, CountersOK, Active
  <2>. QED  BY <2>1, BothServicesCount
<1>. QED  BY <1>1, <1>2, ParentInvariance, PTL DEF Spec

\* While a parent is active, active_steps and active_dispatches are the steps
\* that run: between the service that runs providers and the one that takes
\* reports in (_advance_parent), no end of a step is counted twice or missed.
THEOREM CountersTell ==
    ASSUME PlanOK, BudgetsOK, IsFiniteSet(Step) PROVE Spec => []CountersAgree
<1>1. CountersInv => CountersAgree
  BY DEF CountersInv, CountersOK, Running, RunningExt, CountersAgree
<1>. QED  BY <1>1, CountersHold, PTL

-----------------------------------------------------------------------------
(* Types                                                                   *)

\* What TypeOK says beyond IndInv and ParentInv.
ParentRow(w) ==
    [state : ActiveStates \cup Ended,
     receipt : {NoReceipt} \cup [status : Ended, rows : [ExtOf(w) -> Row]],
     active : Nat, dispatches : Nat, attempts : Nat, operations : Nat,
     calls : Nat, queries : Nat]

Typed ==
    /\ clock \in 0..MaxClock
    /\ issuer \in [epoch : 1..MaxEpoch, observed : Nat, until : Nat]
    /\ \A w \in Workflow : wf[w] \in ParentRow(w)
    /\ observed \in [Subject -> [ObsId -> Remote \cup {NoRemote, Unseen}]]

\* One parent's row is replaced by f.
LEMMA RowReplaced ==
    ASSUME Typed, ParentInv, NEW w \in Workflow, NEW f \in ParentRow(w),
           wf' = [wf EXCEPT ![w] = f]
    PROVE  \A u \in Workflow : wf'[u] \in ParentRow(u)
BY DEF Typed, ParentInv

\* One parent's row ends in state.
LEMMA RowFrozen ==
    ASSUME Typed, ParentInv, NEW w \in Workflow, NEW f \in ParentRow(w),
           NEW state \in {"completed", "failed", "cancelled"}, NEW ops,
           Freeze(w, [f EXCEPT !.state = state], ops)
    PROVE  \A u \in Workflow : wf'[u] \in ParentRow(u)
<1>. DEFINE h == [f EXCEPT !.state = state]
            status == IF h.state = "completed" /\ ~CompletionReady(w, ops)
                      THEN "blocked" ELSE h.state
            receipt == [status |-> status, rows |-> StepReceipts(w, ops)]
            g == [h EXCEPT !.state = status, !.receipt = receipt]
<1>1. h \in ParentRow(w) /\ h.state = state
  <2>1. state \in ActiveStates \cup Ended
    BY DEF Ended
  <2>2. h \in ParentRow(w)
    BY <2>1, Zenon DEF ParentRow
  <2>. QED  BY <2>2 DEF ParentRow
<1>2. wf' = [wf EXCEPT ![w] = h] \/ wf' = [wf EXCEPT ![w] = g]
  BY DEF Freeze
<1>3. status \in Ended
  BY <1>1 DEF Ended
<1>4. StepReceipts(w, ops) \in [ExtOf(w) -> Row]
  BY DEF StepReceipts, Row
<1>. HIDE DEF status, h
<1>5. g \in ParentRow(w)
  <2>1. receipt \in {NoReceipt} \cup [status : Ended, rows : [ExtOf(w) -> Row]]
    BY <1>3, <1>4
  <2>2. status \in ActiveStates \cup Ended
    BY <1>3
  <2>. HIDE DEF receipt
  <2>. QED  BY <1>1, <2>1, <2>2, Zenon DEF ParentRow
<1>. HIDE DEF g
<1>. QED  BY <1>1, <1>2, <1>5, RowReplaced

\* A running step of an active parent is counted.
LEMMA RunningCounted ==
    ASSUME PlanOK, IsFiniteSet(Step), CountersInv, NEW x \in Step,
           NEW w \in Workflow, w = WorkflowOf[x], Active(w), step[x] = "running"
    PROVE  /\ wf[w].active - 1 \in Nat
           /\ x \in ExtStep => wf[w].dispatches - 1 \in Nat
<1>1. /\ wf[w].active = Cardinality(Running(w, step))
      /\ wf[w].dispatches = Cardinality(RunningExt(w, step))
  BY DEF CountersInv, CountersOK
<1>2. x \in Running(w, step) /\ (x \in ExtStep => x \in RunningExt(w, step))
  BY DEF Running, RunningExt, StepsOf, ExtOf
<1>3. /\ Cardinality(Running(w, step)) \in Nat /\ Cardinality(Running(w, step)) # 0
      /\ x \in ExtStep => /\ Cardinality(RunningExt(w, step)) \in Nat
                          /\ Cardinality(RunningExt(w, step)) # 0
  BY <1>2, RunningFinite, FS_EmptySet
<1>. QED  BY <1>1, <1>3

LEMMA StepTyped ==
    ASSUME PlanOK, BudgetsOK, IsFiniteSet(Step), IndInv, ParentInv, CountersInv,
           CountersInv', Typed, Next
    PROVE  Typed'
<1>1. DOMAIN wf = Workflow /\ \A u \in Workflow : wf[u] \in ParentRow(u)
  BY DEF Typed, ParentInv
<1>2. ASSUME \A u \in Workflow : wf'[u] \in ParentRow(u),
             UNCHANGED <<clock, issuer, observed>>
      PROVE  Typed'
  BY <1>2 DEF Typed
<1>3. CASE Tick
  BY <1>3 DEF Tick, Typed, BudgetsOK, ParentRow
<1>4. CASE Authority
  <2>1. \A e \in 1..MaxEpoch, from, until \in 0..MaxClock + 1 :
            [epoch |-> e, observed |-> from, until |-> until]
                \in [epoch : 1..MaxEpoch, observed : Nat, until : Nat]
    BY DEF BudgetsOK
  <2>2. \A e \in 1..MaxEpoch : [issuer EXCEPT !.epoch = e]
                \in [epoch : 1..MaxEpoch, observed : Nat, until : Nat]
    BY DEF Typed
  <2>. QED  BY <1>4, <2>1, <2>2 DEF Authority, IssuerFreshness, Revoke, Typed
<1>5. ASSUME NEW s \in ExtStep, Activate(s) PROVE Typed'
  <2>. DEFINE w == WorkflowOf[s]
              g == [wf[w] EXCEPT !.state = "running", !.operations = @ + 1,
                                 !.dispatches = @ + 1, !.active = @ + 1]
  <2>1. w \in Workflow /\ wf[w] \in ParentRow(w)
    BY <1>1, ExtSteps
  <2>2. wf' = [wf EXCEPT ![w] = g] /\ UNCHANGED <<clock, issuer, observed>>
    BY <1>1, <1>5, <2>1 DEF Activate, ParentRow
  <2>3. g \in ParentRow(w)
    <3>1. /\ "running" \in ActiveStates \cup Ended
          /\ wf[w].operations + 1 \in Nat /\ wf[w].dispatches + 1 \in Nat
          /\ wf[w].active + 1 \in Nat
      BY <2>1 DEF ParentRow, ActiveStates
    <3>. HIDE DEF w
    <3>. QED  BY <2>1, <3>1, Zenon DEF ParentRow
  <2>. HIDE DEF g, w
  <2>. QED  BY <1>2, <2>1, <2>2, <2>3, RowReplaced
<1>6. ASSUME NEW s \in Subject, Permit(s) PROVE Typed'
  <2>. DEFINE w == WorkflowOf[op[s].step]
              g == [wf[w] EXCEPT !.calls = @ + 1]
  <2>1. w \in Workflow /\ wf[w] \in ParentRow(w)
    BY <1>1, <1>6, StepOfOperation DEF Permit
  <2>2. wf' = [wf EXCEPT ![w] = g] /\ UNCHANGED <<clock, issuer, observed>>
    BY <1>6 DEF Permit
  <2>3. g \in ParentRow(w)
    <3>1. wf[w].calls + 1 \in Nat
      BY <2>1 DEF ParentRow
    <3>. HIDE DEF w
    <3>. QED  BY <2>1, <3>1, Zenon DEF ParentRow
  <2>. HIDE DEF g, w
  <2>. QED  BY <1>2, <2>1, <2>2, <2>3, RowReplaced
<1>7. ASSUME NEW s \in Subject, BeginQuery(s) PROVE Typed'
  <2>. DEFINE w == WorkflowOf[op[s].step]
              g == QueryCharged(wf[w])
  <2>1. w \in Workflow /\ wf[w] \in ParentRow(w)
    BY <1>1, <1>7, StepOfOperation DEF BeginQuery
  <2>2. wf' = [wf EXCEPT ![w] = g] /\ UNCHANGED <<clock, issuer, observed>>
    BY <1>7 DEF BeginQuery
  <2>3. g \in ParentRow(w)
    <3>1. wf[w].calls + 1 \in Nat /\ wf[w].queries + 1 \in Nat
      BY <2>1 DEF ParentRow
    <3>. HIDE DEF w
    <3>. QED  BY <2>1, <3>1, Zenon DEF ParentRow, QueryCharged
  <2>. HIDE DEF g, w
  <2>. QED  BY <1>2, <2>1, <2>2, <2>3, RowReplaced
<1>8. ASSUME NEW s \in Subject, NEW i \in ObsId, NEW b \in Report, TakeIn(s, i, b),
             UNCHANGED <<clock, issuer>>
      PROVE  Typed'
  <2>0. PICK x \in ExtStep : x = op[s].step
    BY <1>8, StepOfOperation DEF TakeIn, Acceptable
  <2>. DEFINE w == WorkflowOf[x]
              r == Informed(op[s], b)
              ops == [op EXCEPT ![s] = r]
              f == IF step[x] = "running" THEN StepEnds(wf[w]) ELSE wf[w]
              state == IF r.outcome = "confirmed_succeeded" THEN "completed" ELSE "failed"
              g == [f EXCEPT !.state = state]
  <2>1. /\ x \in Step /\ w \in Workflow /\ wf[w] \in ParentRow(w)
        /\ op[s] \in Operation /\ r.step = x
    BY <1>1, <2>0, ExtSteps, InformedLearns DEF IndInv, RowOK, Learned
  <2>2. observed' \in [Subject -> [ObsId -> Remote \cup {NoRemote, Unseen}]]
    <3>1. b.remote \in Remote \cup {NoRemote, Unseen}
      BY DEF Report
    <3>. QED  BY <1>8, <3>1 DEF TakeIn, Typed
  <2>3. \/ wf' = wf
        \/ Active(w) /\ (Freeze(w, g, ops) \/ wf' = [wf EXCEPT ![w] = f])
    <3>1. AdvanceParent(r, ops)
      BY <1>8 DEF TakeIn
    <3>. HIDE DEF r, ops
    <3>. QED  BY <2>1, <3>1 DEF AdvanceParent
  <2>4. state \in {"completed", "failed", "cancelled"}
    OBVIOUS
  <2>5. Active(w) => f \in ParentRow(w)
    <3>1. CASE Active(w) /\ step[x] = "running"
      <4>1. wf[w].active - 1 \in Nat /\ wf[w].dispatches - 1 \in Nat
        <5>. DEFINE u == w
        <5>1. u \in Workflow /\ u = WorkflowOf[x]
          BY <2>1
        <5>. HIDE DEF u
        <5>. QED  BY <2>1, <3>1, <5>1, RunningCounted DEF u
      <4>2. f = StepEnds(wf[w])
        BY <3>1
      <4>. HIDE DEF w, f
      <4>. QED  BY <2>1, <4>1, <4>2, Zenon DEF ParentRow, StepEnds
    <3>. QED  BY <2>1, <3>1
  <2>. HIDE DEF w, f, state, ops
  <2>6. \A u \in Workflow : wf'[u] \in ParentRow(u)
    BY <1>1, <2>1, <2>3, <2>4, <2>5, RowReplaced, RowFrozen
  <2>. QED  BY <1>8, <2>2, <2>6 DEF Typed
<1>9. ASSUME NEW s \in Step, ProviderActivates(s) PROVE Typed'
  <2>. DEFINE w == WorkflowOf[s]
              f == [wf[w] EXCEPT !.active = 0]
              h == [wf[w] EXCEPT !.state = "failed", !.active = 0]
              g == [wf[w] EXCEPT !.state = "running", !.attempts = @ + 1,
                                 !.active = @ + 1]
  <2>1. w \in Workflow /\ wf[w] \in ParentRow(w)
    BY <1>1 DEF PlanOK
  <2>2. /\ Freeze(w, h, op) \/ wf' = [wf EXCEPT ![w] = g]
        /\ UNCHANGED <<clock, issuer, observed>>
    BY <1>1, <1>9, <2>1 DEF ProviderActivates, ParentRow
  <2>3. f \in ParentRow(w)
    <3>. HIDE DEF w
    <3>. QED  BY <2>1, Zenon DEF ParentRow
  <2>4. h = [f EXCEPT !.state = "failed"]
    BY <2>1 DEF ParentRow
  <2>5. g \in ParentRow(w)
    <3>1. /\ "running" \in ActiveStates \cup Ended
          /\ wf[w].attempts + 1 \in Nat /\ wf[w].active + 1 \in Nat
      BY <2>1 DEF ParentRow, ActiveStates
    <3>. HIDE DEF w
    <3>. QED  BY <2>1, <3>1, Zenon DEF ParentRow
  <2>. HIDE DEF w, f, g, h
  <2>. QED  BY <1>2, <2>1, <2>2, <2>3, <2>4, <2>5, RowReplaced, RowFrozen
<1>10. ASSUME NEW s \in Step, NEW outcome \in {"succeeded", "failed"},
              ProviderEnds(s, outcome)
       PROVE  Typed'
  <2>. DEFINE w == WorkflowOf[s]
              f == [wf[w] EXCEPT !.active = @ - 1]
              state == IF outcome = "failed" THEN "failed" ELSE "completed"
  <2>1. w \in Workflow /\ wf[w] \in ParentRow(w) /\ w = WorkflowOf[s]
        /\ Active(w) /\ step[s] = "running"
    BY <1>1, <1>10 DEF PlanOK, ProviderEnds
  <2>2. /\ Freeze(w, [f EXCEPT !.state = state], op) \/ wf' = [wf EXCEPT ![w] = f]
        /\ UNCHANGED <<clock, issuer, observed>>
    BY <1>10 DEF ProviderEnds
  <2>3. f \in ParentRow(w)
    <3>. HIDE DEF w
    <3>1. wf[w].active - 1 \in Nat
      BY <2>1, RunningCounted
    <3>. QED  BY <2>1, <3>1, Zenon DEF ParentRow
  <2>4. state \in {"completed", "failed", "cancelled"}
    OBVIOUS
  <2>. HIDE DEF w, f, state
  <2>. QED  BY <1>2, <2>1, <2>2, <2>3, <2>4, RowReplaced, RowFrozen
<1>11. ASSUME NEW w \in Workflow, NEW lost \in SUBSET (StepsOf(w) \ ExtStep),
              ProviderExpires(w, lost)
       PROVE  Typed'
  <2>. DEFINE g == [wf[w] EXCEPT !.active = @ - Cardinality(lost)]
  <2>1. /\ wf' = [wf EXCEPT ![w] = g] /\ UNCHANGED <<clock, issuer, observed>>
        /\ Active(w) /\ wf[w] \in ParentRow(w)
    BY <1>1, <1>11 DEF ProviderExpires
  <2>2. g.active \in Nat /\ g.active = wf[w].active - Cardinality(lost)
    <3>1. wf'[w].active = g.active /\ g.state = wf[w].state /\ wf'[w].state = g.state
          /\ g.active = wf[w].active - Cardinality(lost)
      BY <1>1, <2>1 DEF ParentRow
    <3>2. wf'[w].active = Cardinality(Running(w, step'))
      BY <2>1, <3>1 DEF CountersInv, CountersOK, Active
    <3>. QED  BY <3>1, <3>2, RunningFinite
  <2>3. g \in ParentRow(w)
    <3>1. wf[w].active - Cardinality(lost) \in Nat
      BY <2>2
    <3>. QED  BY <2>1, <3>1, Zenon DEF ParentRow
  <2>. HIDE DEF g
  <2>. QED  BY <1>2, <2>1, <2>3, RowReplaced
<1>12. ASSUME NEW w \in Workflow, Cancel(w) PROVE Typed'
  <2>. DEFINE f == [wf[w] EXCEPT !.active = 0]
              h == [wf[w] EXCEPT !.state = "cancelled", !.active = 0]
  <2>1. Freeze(w, h, op) /\ UNCHANGED <<clock, issuer, observed>>
    BY <1>12 DEF Cancel
  <2>2. f \in ParentRow(w)
    BY <1>1, Zenon DEF ParentRow
  <2>3. h = [f EXCEPT !.state = "cancelled"]
    BY <1>1 DEF ParentRow
  <2>. HIDE DEF f, h
  <2>. QED  BY <1>2, <2>1, <2>2, <2>3, RowFrozen
<1>13. CASE UNCHANGED <<clock, issuer, wf, observed>>
  BY <1>1, <1>2, <1>13
<1>14. CASE Parent
  BY <1>14, <1>9, <1>10, <1>11, <1>12 DEF Parent
<1>15. ASSUME NEW s \in Subject,
              \/ Submit(s) \/ SubmitterDies(s) \/ RegisterManualCase(s)
              \/ \E i \in ObsId, b \in Report : Observe(s, i, b)
       PROVE  Typed'
  BY <1>8, <1>13, <1>15 DEF Submit, SubmitterDies, RegisterManualCase, Observe
<1>16. ASSUME NEW q \in query,
              \/ QueryUnanswered(q) \/ EndQuery(q) \/ QueryAborts(q)
              \/ \E i \in ObsId, b \in Report : QueryAnswered(q, i, b)
       PROVE  Typed'
  <2>1. q.subject \in Subject
    BY DEF IndInv
  <2>. QED  BY <1>8, <1>13, <1>16, <2>1
            DEF QueryUnanswered, EndQuery, QueryAborts, QueryAnswered
<1>. QED  BY <1>3, <1>4, <1>5, <1>6, <1>7, <1>14, <1>15, <1>16 DEF Next

LEMMA InitTyped == ASSUME PlanOK, BudgetsOK, Init PROVE Typed
<1>1. \A w : NewWorkflow \in ParentRow(w)
  BY DEF NewWorkflow, ParentRow, ActiveStates
<1>. QED  BY <1>1 DEF Init, Typed, BudgetsOK

\* Every parent, operation, observation and query keeps its type: above all, no
\* counter of a parent falls below zero, whoever counts a step's end.
THEOREM TypeCorrect == ASSUME PlanOK, BudgetsOK, IsFiniteSet(Step) PROVE Spec => []TypeOK
<1>1. Init => Typed
  BY InitTyped
<1>2. IndInv /\ ParentInv /\ CountersInv /\ CountersInv' /\ Typed /\ [Next]_vars => Typed'
  <2>1. Typed /\ UNCHANGED vars => Typed'
    BY DEF vars, Typed, ParentRow
  <2>. QED  BY <2>1, StepTyped
<1>3. IndInv /\ ParentInv /\ Typed => TypeOK
  <2>. SUFFICES ASSUME IndInv, ParentInv, Typed PROVE TypeOK
    OBVIOUS
  <2>1. ASSUME NEW w \in Workflow
        PROVE  /\ wf[w].state \in ActiveStates \cup Ended
               /\ wf[w].receipt = NoReceipt
                  \/ wf[w].receipt \in [status : Ended, rows : [ExtOf(w) -> Row]]
               /\ \A c \in {"active", "dispatches", "attempts", "operations",
                            "calls", "queries"} : wf[w][c] \in Nat
    BY DEF Typed, ParentRow
  <2>. QED  BY <2>1 DEF TypeOK, Typed, IndInv, ParentInv
<1>4. Spec => []CountersInv
  BY CountersHold
<1>. QED  BY <1>1, <1>2, <1>3, <1>4, ParentInvariance, PTL DEF Spec

-----------------------------------------------------------------------------
(* Queries, whose two transactions anything may overtake                   *)

Live(q) == q.pc = "asked" /\ clock < q.claim.deadline

QueryOK(q) ==
    /\ op[q.subject].step # NoStep
    /\ q.claim.fence \in 1..op[q.subject].fence
    /\ Live(q) => op[q.subject].claim = q.claim

Distinct ==
    \A p, q \in query :
        p.subject = q.subject /\ p.claim.fence = q.claim.fence => p = q

QueryInv == Distinct /\ \A q \in query : QueryOK(q)

-----------------------------------------------------------------------------
(* Steps that begin and end no query                                       *)

\* The rows o and r of a subject have cost as much; they hold the same claim.
SameCost(o, r) ==
    /\ r.step = o.step
    /\ r.permits = o.permits /\ r.queries = o.queries /\ r.reserved = o.reserved

SameWork(o, r) == SameCost(o, r) /\ r.fence = o.fence /\ r.claim = o.claim

\* The row o became the row r, which gives no fence back and keeps its claim.
Onward(o, r) ==
    o.step # NoStep => r.step = o.step /\ r.fence >= o.fence /\ r.claim = o.claim

\* Every query is one that was there, at most settled.
Follows ==
    /\ \A q \in query' : \E p \in query :
          /\ q.subject = p.subject /\ q.claim = p.claim
          /\ q.pc = "asked" => p = q
    /\ Distinct'

LEMMA RowsTyped ==
    ASSUME IndInv, NEW q \in query
    PROVE  /\ q.subject \in Subject /\ op[q.subject] \in Operation
           /\ op[q.subject].fence \in Nat
           /\ q.claim.fence \in Nat /\ q.claim.deadline \in Nat
BY DEF IndInv, Operation

LEMMA OnwardKeeps ==
    ASSUME IndInv, IndInv', QueryInv, clock' \in {clock, clock + 1}, Follows,
           \A s \in Subject : Onward(op[s], op'[s])
    PROVE  QueryInv'
<1>1. ASSUME NEW q \in query' PROVE QueryOK(q)'
  <2>1. PICK p \in query : /\ q.subject = p.subject /\ q.claim = p.claim
                           /\ q.pc = "asked" => p = q
    BY DEF Follows
  <2>2. QueryOK(p) /\ Onward(op[p.subject], op'[p.subject])
    BY RowsTyped DEF QueryInv
  <2>3. op'[p.subject].fence \in Nat /\ clock \in Nat
    BY RowsTyped DEF IndInv, Operation
  <2>4. Live(q)' => Live(p)
    BY <2>1, <2>3, RowsTyped DEF Live
  <2>. QED  BY <2>1, <2>2, <2>3, <2>4, RowsTyped DEF QueryOK, Onward
<1>. QED  BY <1>1 DEF QueryInv, Follows

LEMMA SettleFollows ==
    ASSUME IndInv, QueryInv, NEW q \in query, Settle(q)
    PROVE  Follows
<1>. DEFINE r == [q EXCEPT !.pc = "settled"]
<1>1. query' = (query \ {q}) \cup {r}
  BY DEF Settle
<1>2. r.subject = q.subject /\ r.claim = q.claim /\ r.pc = "settled"
  BY DEF IndInv
<1>. HIDE DEF r
<1>3. Distinct'
  BY <1>1, <1>2 DEF QueryInv, Distinct
<1>. QED  BY <1>1, <1>2, <1>3 DEF Follows

LEMMA SameFollows ==
    ASSUME QueryInv, query' \subseteq query PROVE Follows
BY DEF QueryInv, Distinct, Follows

-----------------------------------------------------------------------------
(* The rows that are written keep fence and claim                          *)

LEMMA WorkOnward ==
    ASSUME NEW o \in Operation, NEW r, SameWork(o, r)
    PROVE  Onward(o, r)
BY DEF Onward, SameWork, SameCost, Operation

LEMMA SnapshotWork ==
    ASSUME NEW o \in Operation
    PROVE  SameWork(o, Snapshot(o))
BY DEF SameWork, SameCost, Snapshot, Operation

LEMMA FreezeWork ==
    ASSUME NEW w, NEW f, NEW ops \in [Subject -> Operation], Freeze(w, f, ops),
           NEW s \in Subject
    PROVE  SameWork(ops[s], op'[s])
<1>1. op' = ops \/ op' = Attached(w, ops)
  BY DEF Freeze
<1>2. ops[s] \in Operation
  OBVIOUS
<1>. DEFINE r == [ops[s] EXCEPT !.attached = TRUE]
<1>3. Attached(w, ops)[s] \in {Snapshot(r), ops[s]}
  BY DEF Attached
<1>4. r \in Operation /\ SameWork(ops[s], r) /\ SameWork(ops[s], ops[s])
  BY <1>2 DEF SameWork, SameCost, Operation
<1>. HIDE DEF r
<1>5. SameWork(r, Snapshot(r))
  BY <1>4, SnapshotWork
<1>. QED  BY <1>1, <1>3, <1>4, <1>5 DEF SameWork, SameCost

LEMMA InformedWork ==
    ASSUME NEW o \in Operation, NEW b
    PROVE  SameWork(o, Informed(o, b))
BY DEF Informed, Snapshot, SameWork, SameCost, Operation

LEMMA TakeInWork ==
    ASSUME IndInv, NEW s \in Subject, NEW i \in ObsId, NEW b \in Report, TakeIn(s, i, b),
           NEW t \in Subject
    PROVE  SameWork(op[t], op'[t])
<1>. DEFINE r == Informed(op[s], b)
            ops == [op EXCEPT ![s] = r]
<1>1. r \in Operation /\ op[s] \in Operation
  BY InformedLearns DEF IndInv, RowOK
<1>2. SameWork(op[s], r)
  BY <1>1, InformedWork
<1>3. AdvanceParent(r, ops)
  BY DEF TakeIn
<1>. HIDE DEF r
<1>4. /\ ops \in [Subject -> Operation]
      /\ \A u \in Subject : ops[u] = IF u = s THEN r ELSE op[u]
  BY <1>1 DEF IndInv
<1>. HIDE DEF ops
<1>5. op' = ops \/ \E w, f : Freeze(w, f, ops)
  BY <1>3 DEF AdvanceParent
<1>6. SameWork(ops[t], op'[t])
  BY <1>4, <1>5, FreezeWork DEF SameWork, SameCost
<1>. QED  BY <1>2, <1>4, <1>6 DEF SameWork, SameCost

\* The operations keep costs, fences and claims whatever their parents do.
LEMMA ParentWork ==
    ASSUME IndInv, Parent, NEW s \in Subject
    PROVE  SameWork(op[s], op'[s]) /\ UNCHANGED <<clock, query>>
<1>1. op \in [Subject -> Operation] /\ SameWork(op[s], op[s])
  BY DEF IndInv, SameWork, SameCost
<1>2. op' = op \/ \E w, f : Freeze(w, f, op)
  BY DEF Parent, ProviderActivates, ProviderEnds, ProviderExpires, Cancel
<1>3. UNCHANGED <<clock, query>>
  BY DEF Parent, ProviderActivates, ProviderEnds, ProviderExpires, Cancel
<1>. QED  BY <1>1, <1>2, <1>3, FreezeWork

LEMMA RegisterWork ==
    ASSUME IndInv, NEW s \in Subject, RegisterManualCase(s), NEW t \in Subject
    PROVE  SameWork(op[t], op'[t])
<1>1. op[s] \in Operation
  BY DEF IndInv
<1>2. SameWork(op[s], Snapshot([op[s] EXCEPT !.case = TRUE]))
  BY <1>1 DEF SameWork, SameCost, Snapshot, Operation
<1>. QED  BY <1>2 DEF RegisterManualCase, SameWork, SameCost, IndInv

LEMMA PermitOnward ==
    ASSUME IndInv, NEW s \in Subject, NEW t \in Subject, Permit(s)
    PROVE  Onward(op[t], op'[t])
<1>1. op[s] \in Operation /\ op[s].fence \in Nat /\ op[t].fence \in Nat
  BY DEF IndInv, Operation
<1>2. Onward(op[s], Permitted(op[s]))
  BY <1>1 DEF Onward, Permitted, Snapshot, Operation
<1>. QED  BY <1>1, <1>2 DEF Permit, Onward, IndInv

LEMMA ActivateOnward ==
    ASSUME PlanOK, IndInv, NEW e \in ExtStep, Activate(e), NEW t \in Subject
    PROVE  Onward(op[t], op'[t])
BY DEF Activate, SubjectFree, Onward, IndInv, Operation, PlanOK

-----------------------------------------------------------------------------
(* The two transactions of reconcile                                       *)

\* A query is claimed with a fence of its own, when no other may be answered.
LEMMA BeginQueryInv ==
    ASSUME BudgetsOK, IndInv, QueryInv, NEW s \in Subject, BeginQuery(s)
    PROVE  QueryInv'
<1>. DEFINE o == op[s]
            c == [fence |-> o.fence + 1, deadline |-> clock + Reserve(o)]
            r == [o EXCEPT !.queries = @ + 1, !.reserved = @ + Reserve(o),
                           !.fence = @ + 1, !.claim = c]
            n == [subject |-> s, claim |-> c, pc |-> "asked"]
<1>1. /\ op' = [op EXCEPT ![s] = Snapshot(r)] /\ query' = query \cup {n}
      /\ clock' = clock /\ o.step # NoStep /\ Unclaimed(o)
  BY DEF BeginQuery
<1>2. o \in Operation /\ o.fence \in Nat /\ o.fence + 1 \in Nat
  BY DEF IndInv, Operation
<1>3. Snapshot(r).step = o.step /\ Snapshot(r).fence = o.fence + 1 /\ Snapshot(r).claim = c
  BY <1>2 DEF Snapshot, Operation
<1>4. c.fence = o.fence + 1
  OBVIOUS
<1>5. n.subject = s /\ n.claim = c
  OBVIOUS
<1>. HIDE DEF r, c, n
<1>6. \A t \in Subject : op'[t] = IF t = s THEN Snapshot(r) ELSE op[t]
  BY <1>1 DEF IndInv
<1>7. ASSUME NEW q \in query PROVE QueryOK(q)' /\ (q.subject = s => q.claim.fence # c.fence)
  <2>1. QueryOK(q) /\ q.subject \in Subject /\ q.claim.fence \in Nat
    BY RowsTyped DEF QueryInv
  <2>2. CASE q.subject = s
    <3>1. ~Live(q)
      <4>1. q.claim # NoClaim
        BY <2>1 DEF QueryOK, NoClaim
      <4>. QED  BY <1>1, <2>1, <2>2, <4>1, RowsTyped DEF QueryOK, Live, Unclaimed, IndInv
    <3>2. ~Live(q)'
      BY <1>1, <3>1 DEF Live
    <3>. QED  BY <1>1, <1>2, <1>3, <1>4, <1>6, <2>1, <2>2, <3>2 DEF QueryOK
  <2>3. CASE q.subject # s
    BY <1>1, <1>6, <2>1, <2>3 DEF QueryOK, Live
  <2>. QED  BY <2>2, <2>3
<1>8. ASSUME NEW q, q = n PROVE QueryOK(q)'
  BY <1>8, <1>1, <1>2, <1>3, <1>4, <1>5, <1>6 DEF QueryOK
<1>9. Distinct'
  BY <1>1, <1>5, <1>7 DEF QueryInv, Distinct
<1>. QED  BY <1>1, <1>7, <1>8, <1>9 DEF QueryInv

\* A query clears no claim but its own.
LEMMA EndQueryInv ==
    ASSUME IndInv, QueryInv, NEW q \in query, EndQuery(q)
    PROVE  QueryInv'
<1>1. /\ query' = query \ {q} /\ clock' = clock
      /\ op' = IF OwnClaim(q) THEN [op EXCEPT ![q.subject].claim = NoClaim] ELSE op
  BY DEF EndQuery
<1>2. ASSUME NEW p \in query' PROVE QueryOK(p)'
  <2>1. /\ p \in query /\ p # q /\ QueryOK(p) /\ p.subject \in Subject
        /\ op[p.subject] \in Operation
    BY <1>1, RowsTyped DEF QueryInv
  <2>2. ~(p.subject = q.subject /\ p.claim = q.claim)
    BY <2>1 DEF QueryInv, Distinct
  <2>3. op'[p.subject].step = op[p.subject].step /\ op'[p.subject].fence = op[p.subject].fence
    BY <1>1, <2>1, RowsTyped DEF IndInv, Operation
  <2>4. Live(p) => op'[p.subject] = op[p.subject]
    BY <1>1, <2>1, <2>2 DEF QueryOK, OwnClaim, IndInv
  <2>. QED  BY <1>1, <2>1, <2>3, <2>4 DEF QueryOK, Live
<1>. QED  BY <1>1, <1>2, SameFollows DEF QueryInv, Follows

-----------------------------------------------------------------------------
(* The invariant and the theorem                                           *)

LEMMA NextQueryInv ==
    ASSUME PlanOK, BudgetsOK, IndInv, IndInv', QueryInv, [Next]_vars
    PROVE  QueryInv'
<1>0. \A t \in Subject : op[t] \in Operation /\ Onward(op[t], op[t])
  BY DEF IndInv, Operation, Onward
<1>1. CASE Tick \/ Authority \/ UNCHANGED vars
  <2>1. /\ UNCHANGED <<op, query>> /\ clock' \in {clock, clock + 1}
    BY <1>1 DEF Tick, Authority, IssuerFreshness, Revoke, vars
  <2>. QED  BY <1>0, <2>1, SameFollows, OnwardKeeps
<1>2. CASE Parent
  <2>1. clock' = clock /\ query' = query
    BY <1>2 DEF Parent, ProviderActivates, ProviderEnds, ProviderExpires, Cancel
  <2>. QED  BY <1>0, <1>2, <2>1, ParentWork, WorkOnward, SameFollows, OnwardKeeps
<1>3. ASSUME NEW e \in ExtStep, Activate(e) PROVE QueryInv'
  <2>1. clock' = clock /\ query' = query
    BY <1>3 DEF Activate
  <2>. QED  BY <1>3, <2>1, ActivateOnward, SameFollows, OnwardKeeps
<1>4. ASSUME NEW s \in Subject, Permit(s) \/ RegisterManualCase(s) PROVE QueryInv'
  <2>1. clock' = clock /\ query' = query
    BY <1>4 DEF Permit, RegisterManualCase
  <2>. QED  BY <1>0, <1>4, <2>1, PermitOnward, RegisterWork, WorkOnward, SameFollows,
           OnwardKeeps
<1>5. ASSUME NEW s \in Subject, Submit(s) \/ SubmitterDies(s) PROVE QueryInv'
  <2>1. clock' = clock /\ query' = query /\ op' = op
    BY <1>5 DEF Submit, SubmitterDies
  <2>. QED  BY <1>0, <2>1, SameFollows, OnwardKeeps
<1>6. ASSUME NEW s \in Subject, BeginQuery(s) PROVE QueryInv'
  BY <1>6, BeginQueryInv
<1>7. ASSUME NEW s \in Subject, NEW i \in ObsId, NEW b \in Report, Observe(s, i, b)
      PROVE  QueryInv'
  <2>1. clock' = clock /\ query' = query /\ TakeIn(s, i, b)
    BY <1>7 DEF Observe
  <2>. QED  BY <1>0, <2>1, TakeInWork, WorkOnward, SameFollows, OnwardKeeps
<1>8. ASSUME NEW q \in query, NEW i \in ObsId, NEW b \in Report, QueryAnswered(q, i, b)
      PROVE  QueryInv'
  <2>1. clock' = clock /\ Settle(q) /\ TakeIn(q.subject, i, b) /\ q.subject \in Subject
    BY <1>8, RowsTyped DEF QueryAnswered
  <2>. QED  BY <1>0, <2>1, TakeInWork, WorkOnward, SettleFollows, OnwardKeeps
<1>9. ASSUME NEW q \in query, QueryUnanswered(q) PROVE QueryInv'
  <2>1. clock' = clock /\ Settle(q) /\ op' = op
    BY <1>9 DEF QueryUnanswered
  <2>. QED  BY <1>0, <2>1, SettleFollows, OnwardKeeps
<1>10. ASSUME NEW q \in query, QueryAborts(q) PROVE QueryInv'
  <2>1. clock' = clock /\ query' \subseteq query /\ op' = op
    BY <1>10 DEF QueryAborts
  <2>. QED  BY <1>0, <2>1, SameFollows, OnwardKeeps
<1>11. ASSUME NEW q \in query, EndQuery(q) PROVE QueryInv'
  BY <1>11, EndQueryInv
<1>. QED  BY <1>1, <1>2, <1>3, <1>4, <1>5, <1>6, <1>7, <1>8, <1>9, <1>10, <1>11 DEF Next

\* Of the queries of one operation, whose calls run outside any transaction and
\* may be overtaken by time, by reports and by each other, at most one may
\* still be answered (reconcile: the claim with its fence and deadline).
THEOREM OneQueryLives == ASSUME PlanOK, BudgetsOK PROVE Spec => []OneLiveQuery
<1>1. Init => IndInv /\ QueryInv
  BY InitInv DEF Init, QueryInv, Distinct
<1>2. IndInv /\ QueryInv /\ [Next]_vars => (IndInv /\ QueryInv)'
  BY NextInv, NextQueryInv
<1>3. QueryInv => OneLiveQuery
  BY DEF QueryInv, Distinct, QueryOK, Live, OneLiveQuery
<1>. QED  BY <1>1, <1>2, <1>3, PTL DEF Spec

-----------------------------------------------------------------------------
(* What a parent pays for                                                  *)

OpsOf(w, ops) == {s \in Subject : ops[s].step \in StepsOf(w)}

\* What each operation has cost its parent: the permit and the queries.
CallsAt(ops)   == [s \in Subject |-> ops[s].permits + ops[s].queries]
QueriesAt(ops) == [s \in Subject |-> ops[s].queries]

QueriesFor(s, qs) == {q \in qs : q.subject = s}

PaidFor(w) ==
    /\ wf[w].calls = SumFunctionOnSet(CallsAt(op), OpsOf(w, op))
    /\ wf[w].queries = SumFunctionOnSet(QueriesAt(op), OpsOf(w, op))
    /\ wf[w].calls <= MaxCalls

WithinLimits(s) ==
    /\ op[s].step = NoStep => op[s].permits = 0 /\ op[s].queries = 0
    /\ op[s].queries <= MaxQueries
    /\ op[s].reserved <= MaxExecution
    /\ IsFiniteSet(QueriesFor(s, query))
    /\ Cardinality(QueriesFor(s, query)) <= op[s].queries

PaidInv ==
    /\ \A w \in Workflow : PaidFor(w)
    /\ \A s \in Subject : WithinLimits(s)

\* A parent's bill.
Bill(w) == <<wf[w].calls, wf[w].queries>>

LEMMA OpsFinite ==
    ASSUME PlanOK, IsFiniteSet(Step), IndInv, ParentInv, NEW w
    PROVE  IsFiniteSet(OpsOf(w, op))
<1>. DEFINE f == [s \in OpsOf(w, op) |-> op[s].step]
<1>1. \A s \in OpsOf(w, op) : s \in Subject /\ op[s].step \in Step /\ op[s].step # NoStep
  BY DEF OpsOf, StepsOf, PlanOK
<1>2. f \in [OpsOf(w, op) -> Step]
  BY <1>1
<1>3. \A s \in OpsOf(w, op) : SubjectOf[f[s]] = s
  BY <1>1 DEF ParentInv, SubjectOK
<1>. HIDE DEF f
<1>4. f \in Injection(OpsOf(w, op), Step)
  BY <1>2, <1>3 DEF Injection, IsInjective
<1>. QED  BY <1>4, FS_Injection

LEMMA CostTyped ==
    ASSUME IndInv, NEW s \in Subject
    PROVE  /\ op[s].permits \in Nat /\ op[s].queries \in Nat /\ op[s].reserved \in Nat
           /\ CallsAt(op)[s] = op[s].permits + op[s].queries
           /\ QueriesAt(op)[s] = op[s].queries
           /\ CallsAt(op)[s] \in Nat /\ QueriesAt(op)[s] \in Nat
<1>1. op[s] \in Operation
  BY DEF IndInv
<1>2. op[s].permits \in Nat /\ op[s].queries \in Nat /\ op[s].reserved \in Nat
  BY <1>1 DEF Operation
<1>. QED  BY <1>2 DEF CallsAt, QueriesAt

LEMMA PaidTyped ==
    ASSUME PlanOK, IsFiniteSet(Step), IndInv, ParentInv, PaidInv, NEW w \in Workflow
    PROVE  wf[w].calls \in Nat /\ wf[w].queries \in Nat
<1>. DEFINE I == OpsOf(w, op)
            f == CallsAt(op)
            h == QueriesAt(op)
<1>1. IsFiniteSet(I) /\ \A s \in I : f[s] \in Nat /\ h[s] \in Nat
  BY OpsFinite, CostTyped DEF OpsOf
<1>. HIDE DEF I, f, h
<1>2. SumFunctionOnSet(f, I) \in Nat /\ SumFunctionOnSet(h, I) \in Nat
  BY <1>1, SumOfNats
<1>. QED  BY <1>2 DEF PaidInv, PaidFor, I, f, h

\* Nothing is bought, and no query begins.
LEMMA NothingBought ==
    ASSUME PlanOK, IsFiniteSet(Step), IndInv, ParentInv, PaidInv,
           \A w \in Workflow : Bill(w)' = Bill(w),
           \A s \in Subject :
              /\ SameCost(op[s], op'[s])
              /\ IsFiniteSet(QueriesFor(s, query'))
              /\ Cardinality(QueriesFor(s, query')) <= Cardinality(QueriesFor(s, query))
    PROVE  PaidInv'
<1>1. CallsAt(op') = CallsAt(op) /\ QueriesAt(op') = QueriesAt(op)
  BY DEF CallsAt, QueriesAt, SameCost
<1>2. \A w : OpsOf(w, op') = OpsOf(w, op)
  BY DEF OpsOf, SameCost
<1>3. \A w \in Workflow : wf'[w].calls = wf[w].calls /\ wf'[w].queries = wf[w].queries
  BY DEF Bill
<1>4. \A w \in Workflow : PaidFor(w)'
  BY <1>1, <1>2, <1>3 DEF PaidInv, PaidFor
<1>5. ASSUME NEW s \in Subject PROVE WithinLimits(s)'
  <2>1. /\ WithinLimits(s) /\ SameCost(op[s], op'[s]) /\ op[s].queries \in Nat
        /\ Cardinality(QueriesFor(s, query)) \in Nat
        /\ Cardinality(QueriesFor(s, query')) \in Nat
    BY CostTyped, FS_CardinalityType DEF PaidInv, WithinLimits
  <2>. QED  BY <2>1 DEF WithinLimits, SameCost
<1>. QED  BY <1>4, <1>5 DEF PaidInv

\* The operation x buys p permits and n queries of its parent w.
LEMMA OneBuys ==
    ASSUME PlanOK, IsFiniteSet(Step), IndInv, ParentInv, PaidInv,
           NEW x \in Subject, NEW w \in Workflow,
           op[x].step # NoStep, w = WorkflowOf[op[x].step],
           NEW p \in Nat, NEW n \in Nat,
           op'[x].step = op[x].step, op'[x].permits = op[x].permits + p,
           op'[x].queries = op[x].queries + n,
           \A s \in Subject \ {x} : SameCost(op[s], op'[s]),
           wf'[w].calls = wf[w].calls + p + n, wf'[w].queries = wf[w].queries + n,
           wf[w].calls + p + n <= MaxCalls,
           \A u \in Workflow \ {w} : Bill(u)' = Bill(u)
    PROVE  \A u \in Workflow : PaidFor(u)'
<1>1. \A s \in Subject : op'[s].step = op[s].step
  BY DEF SameCost
<1>2. \A u : OpsOf(u, op') = OpsOf(u, op)
  BY <1>1 DEF OpsOf
<1>3. \A u : IsFiniteSet(OpsOf(u, op)) /\ OpsOf(u, op) \subseteq Subject
  BY OpsFinite DEF OpsOf
<1>4. \A u \in Workflow : x \in OpsOf(u, op) <=> u = w
  BY StepOfOperation DEF OpsOf, StepsOf
<1>. DEFINE f == CallsAt(op)
            g == CallsAt(op')
            h == QueriesAt(op)
            k == QueriesAt(op')
<1>5. /\ \A s \in Subject : f[s] \in Nat /\ h[s] \in Nat
      /\ \A s \in Subject \ {x} : f[s] = g[s] /\ h[s] = k[s]
      /\ g[x] = f[x] + p + n /\ k[x] = h[x] + n
  <2>1. \A s \in Subject \ {x} : f[s] = g[s] /\ h[s] = k[s]
    BY DEF CallsAt, QueriesAt, SameCost
  <2>2. g[x] = op'[x].permits + op'[x].queries /\ k[x] = op'[x].queries
    BY DEF CallsAt, QueriesAt
  <2>3. op[x].permits \in Nat /\ op[x].queries \in Nat
    BY CostTyped
  <2>4. /\ f[x] = op[x].permits + op[x].queries /\ h[x] = op[x].queries
        /\ \A s \in Subject : f[s] \in Nat /\ h[s] \in Nat
    BY CostTyped
  <2>. HIDE DEF f, g, h, k
  <2>. QED  BY <2>1, <2>2, <2>3, <2>4
<1>. HIDE DEF f, g, h, k
<1>6. ASSUME NEW u \in Workflow PROVE PaidFor(u)'
  <2>. DEFINE I == OpsOf(u, op)
  <2>0. IsFiniteSet(I) /\ I \subseteq Subject /\ PaidFor(u)
    BY <1>3 DEF PaidInv
  <2>1. CASE u = w
    <3>1. x \in I
      BY <1>4, <2>1
    <3>. HIDE DEF I
    <3>2. \A y \in I : f[y] \in Int /\ g[y] \in Int /\ h[y] \in Int /\ k[y] \in Int
      BY <1>5, <2>0
    <3>3. \A y \in I \ {x} : f[y] = g[y] /\ h[y] = k[y]
      BY <1>5, <2>0
    <3>4. SumFunctionOnSet(g, I) = SumFunctionOnSet(f, I) + (g[x] - f[x])
      BY <2>0, <3>1, <3>2, <3>3, SumChanged
    <3>5. SumFunctionOnSet(k, I) = SumFunctionOnSet(h, I) + (k[x] - h[x])
      BY <2>0, <3>1, <3>2, <3>3, SumChanged
    <3>6. SumFunctionOnSet(f, I) \in Nat /\ SumFunctionOnSet(h, I) \in Nat
      <4>1. \A y \in I : f[y] \in Nat /\ h[y] \in Nat
        BY <1>5, <2>0
      <4>. QED  BY <2>0, <4>1, SumOfNats
    <3>7. /\ SumFunctionOnSet(g, I) = SumFunctionOnSet(f, I) + p + n
          /\ SumFunctionOnSet(k, I) = SumFunctionOnSet(h, I) + n
      BY <1>5, <3>4, <3>5, <3>6
    <3>8. /\ wf[u].calls = SumFunctionOnSet(f, I)
          /\ wf[u].queries = SumFunctionOnSet(h, I)
      BY <2>0 DEF PaidFor, f, h, I
    <3>9. /\ wf'[u].calls = SumFunctionOnSet(g, OpsOf(u, op'))
          /\ wf'[u].queries = SumFunctionOnSet(k, OpsOf(u, op'))
      BY <1>2, <2>1, <3>7, <3>8 DEF I
    <3>. QED  BY <2>1, <3>9 DEF PaidFor, g, k
  <2>2. CASE u # w
    <3>1. x \notin I /\ wf'[u].calls = wf[u].calls /\ wf'[u].queries = wf[u].queries
      BY <1>4, <2>2 DEF Bill
    <3>. HIDE DEF I
    <3>2. \A y \in I : f[y] = g[y] /\ h[y] = k[y]
      BY <1>5, <2>0, <3>1
    <3>3. /\ SumFunctionOnSet(f, I) = SumFunctionOnSet(g, I)
          /\ SumFunctionOnSet(h, I) = SumFunctionOnSet(k, I)
      BY <2>0, <3>2, SumOfSame
    <3>4. /\ wf[u].calls = SumFunctionOnSet(f, I)
          /\ wf[u].queries = SumFunctionOnSet(h, I)
          /\ wf[u].calls <= MaxCalls
      BY <2>0 DEF PaidFor, f, h, I
    <3>5. /\ wf'[u].calls = SumFunctionOnSet(g, OpsOf(u, op'))
          /\ wf'[u].queries = SumFunctionOnSet(k, OpsOf(u, op'))
          /\ wf'[u].calls <= MaxCalls
      BY <1>2, <3>1, <3>3, <3>4 DEF I
    <3>. QED  BY <3>5 DEF PaidFor, g, k
  <2>. QED  BY <2>1, <2>2
<1>. QED  BY <1>6

\* An operation that is allocated has cost nothing.
LEMMA ActivatePaid ==
    ASSUME PlanOK, BudgetsOK, IsFiniteSet(Step), IndInv, ParentInv, PaidInv,
           NEW e \in ExtStep, Activate(e)
    PROVE  PaidInv'
<1>. DEFINE x == SubjectOf[e]
            w == WorkflowOf[e]
<1>1. /\ x \in Subject /\ w \in Workflow /\ e \in Step /\ e # NoStep
      /\ op[x].step = NoStep /\ op' = [op EXCEPT ![x] = Allocated(e)] /\ query' = query
      /\ wf' = [wf EXCEPT ![w].state = "running", ![w].operations = @ + 1,
                          ![w].dispatches = @ + 1, ![w].active = @ + 1]
      /\ DOMAIN wf = Workflow /\ \A u \in Workflow : DOMAIN wf[u] = DOMAIN NewWorkflow
  BY ExtSteps DEF Activate, SubjectFree, ParentInv, WorkflowOK
<1>2. /\ Allocated(e).step = e /\ Allocated(e).permits = 0
      /\ Allocated(e).queries = 0 /\ Allocated(e).reserved = 0
  BY DEF Allocated, NoOperation, Snapshot
<1>3. /\ op'[x] = Allocated(e) /\ \A s \in Subject \ {x} : op'[s] = op[s]
  BY <1>1 DEF IndInv
<1>4. \A u \in Workflow : Bill(u)' = Bill(u)
  BY <1>1 DEF Bill, NewWorkflow
<1>. HIDE DEF x, w
<1>5. WithinLimits(x) /\ op[x].permits = 0 /\ op[x].queries = 0
  BY <1>1 DEF PaidInv, WithinLimits
<1>6. ASSUME NEW s \in Subject PROVE WithinLimits(s)'
  <2>1. CASE s = x
    BY <1>1, <1>2, <1>3, <1>5, <2>1 DEF WithinLimits, BudgetsOK
  <2>2. CASE s # x
    BY <1>1, <1>3, <2>2 DEF PaidInv, WithinLimits
  <2>. QED  BY <2>1, <2>2
<1>7. CallsAt(op') = CallsAt(op) /\ QueriesAt(op') = QueriesAt(op)
  <2>1. \A s \in Subject : op'[s].permits = op[s].permits /\ op'[s].queries = op[s].queries
    BY <1>2, <1>3, <1>5
  <2>. QED  BY <2>1 DEF CallsAt, QueriesAt
<1>. DEFINE f == CallsAt(op)
            h == QueriesAt(op)
<1>8. /\ f[x] = 0 /\ h[x] = 0
      /\ \A s \in Subject : f[s] \in Int /\ h[s] \in Int
  BY <1>1, <1>5, CostTyped
<1>. HIDE DEF f, h
<1>9. ASSUME NEW u \in Workflow PROVE PaidFor(u)'
  <2>. DEFINE I == OpsOf(u, op)
              J == OpsOf(u, op')
  <2>0. IsFiniteSet(I) /\ I \subseteq Subject /\ PaidFor(u) /\ x \notin I
    <3>1. x \notin I /\ I \subseteq Subject
      BY <1>1 DEF OpsOf, StepsOf, PlanOK
    <3>. QED  BY <3>1, OpsFinite DEF PaidInv
  <2>1. J = I \/ J = I \cup {x}
    <3>1. \A s \in Subject \ {x} : s \in J <=> s \in I
      BY <1>3 DEF OpsOf
    <3>2. I \subseteq Subject /\ J \subseteq Subject
      BY DEF OpsOf
    <3>. HIDE DEF I, J
    <3>3. CASE x \in J
      <4>1. \A s : s \in J <=> s \in I \/ s = x
        BY <3>1, <3>2, <3>3
      <4>. QED  BY <4>1
    <3>4. CASE x \notin J
      <4>1. \A s : s \in J <=> s \in I
        BY <2>0, <3>1, <3>2, <3>4
      <4>. QED  BY <4>1
    <3>. QED  BY <3>3, <3>4
  <2>. HIDE DEF I, J
  <2>2. SumFunctionOnSet(f, J) = SumFunctionOnSet(f, I)
        /\ SumFunctionOnSet(h, J) = SumFunctionOnSet(h, I)
    <3>1. CASE J = I \cup {x}
      <4>1. IsFiniteSet(J) /\ x \in J /\ J \ {x} = I /\ J \subseteq Subject
        BY <1>1, <2>0, <3>1, FS_AddElement
      <4>2. \A s \in J : f[s] \in Int /\ h[s] \in Int
        BY <1>8, <4>1
      <4>3. /\ SumFunctionOnSet(f, J) = f[x] + SumFunctionOnSet(f, I)
            /\ SumFunctionOnSet(h, J) = h[x] + SumFunctionOnSet(h, I)
        <5>1. /\ SumFunctionOnSet(f, J) = f[x] + SumFunctionOnSet(f, J \ {x})
              /\ SumFunctionOnSet(h, J) = h[x] + SumFunctionOnSet(h, J \ {x})
          BY <4>1, <4>2, SumSplits
        <5>2. J \ {x} = I
          BY <4>1
        <5>. QED  BY <5>1, <5>2
      <4>4. SumFunctionOnSet(f, I) \in Int /\ SumFunctionOnSet(h, I) \in Int
        <5>1. \A s \in I : f[s] \in Int /\ h[s] \in Int
          BY <1>8, <2>0
        <5>. QED  BY <2>0, <5>1, SumSplits
      <4>. QED  BY <1>8, <4>1, <4>3, <4>4
    <3>. QED  BY <2>1, <3>1
  <2>3. /\ wf[u].calls = SumFunctionOnSet(f, I)
        /\ wf[u].queries = SumFunctionOnSet(h, I)
        /\ wf[u].calls <= MaxCalls
    BY <2>0 DEF PaidFor, f, h, I
  <2>4. wf'[u].calls = wf[u].calls /\ wf'[u].queries = wf[u].queries
    BY <1>4 DEF Bill
  <2>5. /\ wf'[u].calls = SumFunctionOnSet(CallsAt(op'), J)
        /\ wf'[u].queries = SumFunctionOnSet(QueriesAt(op'), J)
        /\ wf'[u].calls <= MaxCalls
    BY <1>7, <2>2, <2>3, <2>4 DEF f, h
  <2>. QED  BY <2>5 DEF PaidFor, J
<1>. QED  BY <1>6, <1>9 DEF PaidInv

\* A permit is paid for once.
LEMMA PermitPaid ==
    ASSUME PlanOK, BudgetsOK, IsFiniteSet(Step), IndInv, ParentInv, PaidInv,
           NEW x \in Subject, Permit(x)
    PROVE  PaidInv'
<1>1. PICK w \in Workflow : w = WorkflowOf[op[x].step]
  BY StepOfOperation DEF Permit
<1>2. /\ op[x].step # NoStep /\ op[x].permits = 0 /\ wf[w].calls < MaxCalls
      /\ op' = [op EXCEPT ![x] = Permitted(op[x])]
      /\ wf' = [wf EXCEPT ![w].calls = @ + 1] /\ query' = query
      /\ DOMAIN wf = Workflow /\ DOMAIN wf[w] = DOMAIN NewWorkflow
      /\ op[x] \in Operation
  BY <1>1 DEF Permit, PermitLeft, ParentInv, WorkflowOK, IndInv
<1>3. /\ Permitted(op[x]).step = op[x].step /\ Permitted(op[x]).permits = 1
      /\ Permitted(op[x]).queries = op[x].queries
      /\ Permitted(op[x]).reserved = op[x].reserved
  BY <1>2 DEF Permitted, Snapshot, Operation
<1>4. op'[x] = Permitted(op[x]) /\ \A s \in Subject \ {x} : op'[s] = op[s]
  BY <1>2 DEF IndInv
<1>5. /\ wf'[w].calls = wf[w].calls + 1 /\ wf'[w].queries = wf[w].queries
      /\ \A u \in Workflow \ {w} : Bill(u)' = Bill(u)
  BY <1>2 DEF Bill, NewWorkflow
<1>6. wf[w].calls \in Nat /\ wf[w].queries \in Nat
  BY PaidTyped
<1>7. \A u \in Workflow : PaidFor(u)'
  <2>0. PICK p \in Nat, n \in Nat : p = 1 /\ n = 0
    OBVIOUS
  <2>1. /\ op'[x].permits = op[x].permits + p /\ op'[x].queries = op[x].queries + n
        /\ wf'[w].calls = wf[w].calls + p + n /\ wf'[w].queries = wf[w].queries + n
        /\ wf[w].calls + p + n <= MaxCalls
    BY <1>2, <1>3, <1>4, <1>5, <1>6, <2>0, CostTyped DEF BudgetsOK
  <2>2. op'[x].step = op[x].step /\ \A s \in Subject \ {x} : SameCost(op[s], op'[s])
    BY <1>3, <1>4 DEF SameCost
  <2>. QED  BY <1>1, <1>2, <1>5, <2>1, <2>2, OneBuys
<1>8. \A s \in Subject : WithinLimits(s)'
  BY <1>2, <1>3, <1>4 DEF PaidInv, WithinLimits
<1>. QED  BY <1>7, <1>8 DEF PaidInv

\* A query is paid for before it is asked.
LEMMA BeginQueryPaid ==
    ASSUME PlanOK, BudgetsOK, IsFiniteSet(Step), IndInv, ParentInv, PaidInv,
           NEW x \in Subject, BeginQuery(x)
    PROVE  PaidInv'
<1>1. PICK w \in Workflow : w = WorkflowOf[op[x].step]
  BY StepOfOperation DEF BeginQuery
<1>. DEFINE o == op[x]
            c == [fence |-> o.fence + 1, deadline |-> clock + Reserve(o)]
            r == [o EXCEPT !.queries = @ + 1, !.reserved = @ + Reserve(o),
                           !.fence = @ + 1, !.claim = c]
            n == [subject |-> x, claim |-> c, pc |-> "asked"]
<1>2. /\ o.step # NoStep /\ wf[w].calls < MaxCalls
      /\ o.queries < MaxQueries /\ o.reserved < MaxExecution
      /\ op' = [op EXCEPT ![x] = Snapshot(r)]
      /\ wf' = [wf EXCEPT ![w] = QueryCharged(@)] /\ query' = query \cup {n}
      /\ DOMAIN wf = Workflow /\ DOMAIN wf[w] = DOMAIN NewWorkflow
      /\ o \in Operation
  BY <1>1 DEF BeginQuery, ParentInv, WorkflowOK, IndInv
<1>3. o.permits \in Nat /\ o.queries \in Nat /\ o.reserved \in Nat
  BY CostTyped
<1>4. /\ Snapshot(r).step = o.step /\ Snapshot(r).permits = o.permits
      /\ Snapshot(r).queries = o.queries + 1
      /\ Snapshot(r).reserved = o.reserved + Reserve(o)
  BY <1>2 DEF Snapshot, Operation
<1>5. n.subject = x
  OBVIOUS
<1>. HIDE DEF r, n, c
<1>6. op'[x] = Snapshot(r) /\ \A s \in Subject \ {x} : op'[s] = op[s]
  BY <1>2 DEF IndInv
<1>7. /\ wf'[w].calls = wf[w].calls + 1 /\ wf'[w].queries = wf[w].queries + 1
      /\ \A u \in Workflow \ {w} : Bill(u)' = Bill(u)
  BY <1>2 DEF Bill, NewWorkflow, QueryCharged
<1>8. wf[w].calls \in Nat /\ wf[w].queries \in Nat
  BY PaidTyped
<1>9. \A u \in Workflow : PaidFor(u)'
  <2>1. /\ op'[x].permits = op[x].permits + 0 /\ op'[x].queries = op[x].queries + 1
        /\ wf'[w].calls = wf[w].calls + 0 + 1 /\ wf'[w].queries = wf[w].queries + 1
        /\ wf[w].calls + 0 + 1 <= MaxCalls
    BY <1>2, <1>3, <1>4, <1>6, <1>7, <1>8 DEF BudgetsOK
  <2>2. op'[x].step = op[x].step /\ \A s \in Subject \ {x} : SameCost(op[s], op'[s])
    BY <1>4, <1>6 DEF SameCost
  <2>. QED  BY <1>1, <1>2, <1>7, <2>1, <2>2, OneBuys
<1>10. ASSUME NEW s \in Subject PROVE WithinLimits(s)'
  <2>1. WithinLimits(s)
    BY DEF PaidInv
  <2>2. CASE s = x
    <3>1. QueriesFor(s, query') = QueriesFor(s, query) \cup {n}
      BY <1>2, <1>5, <2>2 DEF QueriesFor
    <3>2. /\ IsFiniteSet(QueriesFor(s, query')) /\ Cardinality(QueriesFor(s, query)) \in Nat
          /\ \/ Cardinality(QueriesFor(s, query')) = Cardinality(QueriesFor(s, query))
             \/ Cardinality(QueriesFor(s, query')) = Cardinality(QueriesFor(s, query)) + 1
      BY <2>1, <3>1, FS_AddElement, FS_CardinalityType DEF WithinLimits
    <3>3. Cardinality(QueriesFor(s, query')) <= o.queries + 1
      BY <1>3, <2>1, <2>2, <3>2 DEF WithinLimits
    <3>4. o.queries + 1 <= MaxQueries /\ o.reserved + Reserve(o) <= MaxExecution
      BY <1>2, <1>3 DEF BudgetsOK, Reserve, Smaller
    <3>. QED  BY <1>2, <1>4, <1>6, <2>2, <3>2, <3>3, <3>4 DEF WithinLimits
  <2>3. CASE s # x
    <3>1. QueriesFor(s, query') = QueriesFor(s, query)
      BY <1>2, <1>5, <2>3 DEF QueriesFor
    <3>. QED  BY <1>6, <2>1, <2>3, <3>1 DEF WithinLimits
  <2>. QED  BY <2>2, <2>3
<1>. QED  BY <1>9, <1>10 DEF PaidInv

\* A query that is settled is the query it was, and one that ends is gone.
LEMMA FewerQueries ==
    ASSUME IndInv, PaidInv, NEW q \in query, Settle(q) \/ query' \subseteq query,
           NEW s \in Subject
    PROVE  /\ IsFiniteSet(QueriesFor(s, query'))
           /\ Cardinality(QueriesFor(s, query')) <= Cardinality(QueriesFor(s, query))
<1>. DEFINE Q == QueriesFor(s, query)
            R == QueriesFor(s, query')
            r == [q EXCEPT !.pc = "settled"]
<1>0. IsFiniteSet(Q) /\ Cardinality(Q) \in Nat
  BY FS_CardinalityType DEF PaidInv, WithinLimits
<1>1. CASE query' \subseteq query
  <2>1. R \in SUBSET Q
    BY <1>1 DEF QueriesFor
  <2>. HIDE DEF Q, R
  <2>2. IsFiniteSet(R) /\ Cardinality(R) <= Cardinality(Q)
    BY <1>0, <2>1, FS_Subset
  <2>. QED  BY <2>2 DEF Q, R
<1>2. CASE Settle(q)
  <2>1. query' = (query \ {q}) \cup {r} /\ r.subject = q.subject
    BY <1>2 DEF Settle, IndInv
  <2>. HIDE DEF r
  <2>2. CASE q.subject = s
    <3>1. q \in Q /\ R = (Q \ {q}) \cup {r}
      BY <2>1, <2>2 DEF QueriesFor
    <3>. HIDE DEF Q, R
    <3>2. IsFiniteSet(Q \ {q}) /\ Cardinality(Q \ {q}) = Cardinality(Q) - 1
      BY <1>0, <3>1, FS_RemoveElement
    <3>3. PICK P : P = Q \ {q}
      OBVIOUS
    <3>4. IsFiniteSet(P) /\ Cardinality(P) = Cardinality(Q) - 1 /\ R = P \cup {r}
      BY <3>1, <3>2, <3>3
    <3>5. IsFiniteSet(R) /\ (Cardinality(R) = Cardinality(P) \/ Cardinality(R) = Cardinality(P) + 1)
      BY <3>4, FS_AddElement
    <3>6. IsFiniteSet(R) /\ Cardinality(R) <= Cardinality(Q)
      BY <1>0, <3>4, <3>5
    <3>. QED  BY <3>6 DEF Q, R
  <2>3. CASE q.subject # s
    <3>1. R = Q
      BY <2>1, <2>3 DEF QueriesFor
    <3>. HIDE DEF Q, R
    <3>2. IsFiniteSet(R) /\ Cardinality(R) <= Cardinality(Q)
      BY <1>0, <3>1
    <3>. QED  BY <3>2 DEF Q, R
  <2>. QED  BY <2>2, <2>3
<1>. QED  BY <1>1, <1>2

-----------------------------------------------------------------------------
(* Steps that buy nothing                                                  *)

LEMMA FreezeBills ==
    ASSUME DOMAIN wf = Workflow, NEW w \in Workflow,
           NEW f, DOMAIN f = DOMAIN NewWorkflow,
           f.calls = wf[w].calls, f.queries = wf[w].queries,
           NEW ops, Freeze(w, f, ops)
    PROVE  \A u \in Workflow : Bill(u)' = Bill(u)
<1>1. CASE wf' = [wf EXCEPT ![w] = f]
  BY <1>1 DEF Bill
<1>2. CASE \E status, receipt :
                wf' = [wf EXCEPT ![w] = [f EXCEPT !.state = status, !.receipt = receipt]]
  <2>1. PICK status, receipt :
                wf' = [wf EXCEPT ![w] = [f EXCEPT !.state = status, !.receipt = receipt]]
    BY <1>2
  <2>. DEFINE g == [f EXCEPT !.state = status, !.receipt = receipt]
  <2>2. g.calls = wf[w].calls /\ g.queries = wf[w].queries
    BY DEF NewWorkflow
  <2>3. wf' = [wf EXCEPT ![w] = g]
    BY <2>1
  <2>. HIDE DEF g
  <2>. QED  BY <2>2, <2>3 DEF Bill
<1>. QED  BY <1>1, <1>2 DEF Freeze

\* The runtime service moves steps, not calls.
LEMMA ParentBills ==
    ASSUME PlanOK, IndInv, ParentInv, Parent
    PROVE  \A u \in Workflow : Bill(u)' = Bill(u)
<1>0. DOMAIN wf = Workflow /\ \A u \in Workflow : DOMAIN wf[u] = DOMAIN NewWorkflow
  BY DEF ParentInv, WorkflowOK
<1>1. ASSUME NEW s \in Step, ProviderActivates(s) PROVE \A u \in Workflow : Bill(u)' = Bill(u)
  <2>. DEFINE w == WorkflowOf[s]
              f == [wf[w] EXCEPT !.state = "failed", !.active = 0]
  <2>1. /\ w \in Workflow
        /\ \/ Freeze(w, f, op)
           \/ wf' = [wf EXCEPT ![w].state = "running",
                              ![w].attempts = @ + 1, ![w].active = @ + 1]
    BY <1>1 DEF ProviderActivates, PlanOK
  <2>2. /\ DOMAIN f = DOMAIN NewWorkflow
        /\ f.calls = wf[w].calls /\ f.queries = wf[w].queries
    BY <1>0, <2>1 DEF NewWorkflow
  <2>. HIDE DEF f, w
  <2>3. CASE Freeze(w, f, op)
    BY <1>0, <2>1, <2>2, <2>3, FreezeBills
  <2>4. CASE wf' = [wf EXCEPT ![w].state = "running",
                              ![w].attempts = @ + 1, ![w].active = @ + 1]
    BY <1>0, <2>1, <2>4 DEF Bill, NewWorkflow
  <2>. QED  BY <2>1, <2>3, <2>4
<1>2. ASSUME NEW s \in Step, NEW outcome, ProviderEnds(s, outcome)
      PROVE  \A u \in Workflow : Bill(u)' = Bill(u)
  <2>. DEFINE w == WorkflowOf[s]
              g == [wf[w] EXCEPT !.active = @ - 1]
              f == [g EXCEPT !.state = IF outcome = "failed" THEN "failed" ELSE "completed"]
  <2>1. w \in Workflow /\ (Freeze(w, f, op) \/ wf' = [wf EXCEPT ![w] = g])
    BY <1>2 DEF ProviderEnds, PlanOK
  <2>2. /\ DOMAIN g = DOMAIN NewWorkflow
        /\ g.calls = wf[w].calls /\ g.queries = wf[w].queries
    BY <1>0, <2>1 DEF NewWorkflow
  <2>. HIDE DEF g, w
  <2>3. /\ DOMAIN f = DOMAIN NewWorkflow
        /\ f.calls = wf[w].calls /\ f.queries = wf[w].queries
    BY <2>2 DEF NewWorkflow
  <2>. HIDE DEF f
  <2>4. CASE Freeze(w, f, op)
    BY <1>0, <2>1, <2>3, <2>4, FreezeBills
  <2>5. CASE wf' = [wf EXCEPT ![w] = g]
    BY <1>0, <2>1, <2>2, <2>5 DEF Bill
  <2>. QED  BY <2>1, <2>4, <2>5
<1>3. ASSUME NEW w \in Workflow, NEW lost, ProviderExpires(w, lost)
      PROVE  \A u \in Workflow : Bill(u)' = Bill(u)
  BY <1>0, <1>3 DEF ProviderExpires, Bill, NewWorkflow
<1>4. ASSUME NEW w \in Workflow, Cancel(w) PROVE \A u \in Workflow : Bill(u)' = Bill(u)
  <2>. DEFINE f == [wf[w] EXCEPT !.state = "cancelled", !.active = 0]
  <2>1. Freeze(w, f, op)
    BY <1>4 DEF Cancel
  <2>2. /\ DOMAIN f = DOMAIN NewWorkflow
        /\ f.calls = wf[w].calls /\ f.queries = wf[w].queries
    BY <1>0 DEF NewWorkflow
  <2>. HIDE DEF f
  <2>. QED  BY <1>0, <2>1, <2>2, FreezeBills
<1>. QED  BY <1>1, <1>2, <1>3, <1>4 DEF Parent

LEMMA TakeInBills ==
    ASSUME PlanOK, IndInv, ParentInv, NEW s \in Subject, NEW i \in ObsId, NEW b \in Report,
           TakeIn(s, i, b)
    PROVE  \A u \in Workflow : Bill(u)' = Bill(u)
<1>0. DOMAIN wf = Workflow /\ \A u \in Workflow : DOMAIN wf[u] = DOMAIN NewWorkflow
  BY DEF ParentInv, WorkflowOK
<1>1. PICK x \in ExtStep : x = op[s].step
  BY StepOfOperation DEF TakeIn, Acceptable
<1>. DEFINE w == WorkflowOf[x]
            r == Informed(op[s], b)
            ops == [op EXCEPT ![s] = r]
            f == IF step[x] = "running" THEN StepEnds(wf[w]) ELSE wf[w]
<1>2. w \in Workflow /\ op[s] \in Operation
  BY <1>1, ExtSteps DEF IndInv
<1>3. r.step = x /\ AdvanceParent(r, ops)
  BY <1>1, <1>2, InformedWork DEF TakeIn, SameWork, SameCost
<1>4. /\ DOMAIN f = DOMAIN NewWorkflow
      /\ f.calls = wf[w].calls /\ f.queries = wf[w].queries
  BY <1>0, <1>2 DEF StepEnds, NewWorkflow
<1>5. \/ UNCHANGED wf
      \/ wf' = [wf EXCEPT ![w] = f]
      \/ \E state : Freeze(w, [f EXCEPT !.state = state], ops)
  <2>. HIDE DEF r, ops
  <2>. QED  BY <1>3 DEF AdvanceParent
<1>. HIDE DEF f, w, ops
<1>6. ASSUME NEW state, Freeze(w, [f EXCEPT !.state = state], ops)
      PROVE  \A u \in Workflow : Bill(u)' = Bill(u)
  <2>. DEFINE g == [f EXCEPT !.state = state]
  <2>1. /\ DOMAIN g = DOMAIN NewWorkflow
        /\ g.calls = wf[w].calls /\ g.queries = wf[w].queries
    BY <1>4 DEF NewWorkflow
  <2>2. Freeze(w, g, ops)
    BY <1>6
  <2>. HIDE DEF g
  <2>. QED  BY <1>0, <1>2, <2>1, <2>2, FreezeBills
<1>7. CASE UNCHANGED wf
  BY <1>7 DEF Bill
<1>8. CASE wf' = [wf EXCEPT ![w] = f]
  BY <1>0, <1>2, <1>4, <1>8 DEF Bill
<1>. QED  BY <1>5, <1>6, <1>7, <1>8

LEMMA NextPaid ==
    ASSUME PlanOK, BudgetsOK, IsFiniteSet(Step), IndInv, ParentInv, PaidInv, [Next]_vars
    PROVE  PaidInv'
<1>0. /\ \A s \in Subject : op[s] \in Operation /\ SameCost(op[s], op[s])
      /\ \A s \in Subject : IsFiniteSet(QueriesFor(s, query))
                            /\ Cardinality(QueriesFor(s, query)) \in Nat
  BY FS_CardinalityType DEF IndInv, SameCost, PaidInv, WithinLimits
<1>1. CASE UNCHANGED <<wf, op, query>>
  BY <1>0, <1>1, NothingBought DEF Bill
<1>2. CASE Parent
  <2>0. query' = query
    BY <1>2 DEF Parent, ProviderActivates, ProviderEnds, ProviderExpires, Cancel
  <2>1. \A s \in Subject : SameCost(op[s], op'[s])
    BY <1>2, ParentWork DEF SameWork
  <2>2. \A u \in Workflow : Bill(u)' = Bill(u)
    BY <1>2, ParentBills
  <2>. QED  BY <1>0, <2>0, <2>1, <2>2, NothingBought
<1>3. ASSUME NEW s \in Subject, RegisterManualCase(s) PROVE PaidInv'
  <2>1. query' = query /\ wf' = wf /\ \A t \in Subject : SameCost(op[t], op'[t])
    BY <1>3, RegisterWork DEF RegisterManualCase, SameWork
  <2>. QED  BY <1>0, <2>1, NothingBought DEF Bill
<1>4. ASSUME NEW s \in Subject, NEW i \in ObsId, NEW b \in Report, TakeIn(s, i, b),
             \/ query' = query
             \/ \E q \in query : Settle(q)
      PROVE  PaidInv'
  <2>1. \A t \in Subject : SameCost(op[t], op'[t])
    BY <1>4, TakeInWork DEF SameWork
  <2>2. \A u \in Workflow : Bill(u)' = Bill(u)
    BY <1>4, TakeInBills
  <2>3. \A t \in Subject :
            /\ IsFiniteSet(QueriesFor(t, query'))
            /\ Cardinality(QueriesFor(t, query')) <= Cardinality(QueriesFor(t, query))
    BY <1>0, <1>4, FewerQueries
  <2>. QED  BY <2>1, <2>2, <2>3, NothingBought
<1>5. ASSUME NEW q \in query, QueryUnanswered(q) \/ QueryAborts(q) \/ EndQuery(q)
      PROVE  PaidInv'
  <2>1. wf' = wf /\ (Settle(q) \/ query' \subseteq query)
    BY <1>5 DEF QueryUnanswered, QueryAborts, EndQuery
  <2>2. \A t \in Subject : SameCost(op[t], op'[t])
    <3>1. q.subject \in Subject
      BY DEF IndInv
    <3>2. CASE op' = op
      BY <1>0, <3>2
    <3>3. CASE op' = [op EXCEPT ![q.subject].claim = NoClaim]
      <4>1. \A t \in Subject : SameCost(op[t], [op[t] EXCEPT !.claim = NoClaim])
        BY <1>0 DEF SameCost, Operation
      <4>2. \A t \in Subject : op'[t] \in {op[t], [op[t] EXCEPT !.claim = NoClaim]}
        BY <3>3 DEF IndInv
      <4>. QED  BY <1>0, <4>1, <4>2
    <3>. QED  BY <1>5, <3>2, <3>3 DEF QueryUnanswered, QueryAborts, EndQuery
  <2>3. \A t \in Subject :
            /\ IsFiniteSet(QueriesFor(t, query'))
            /\ Cardinality(QueriesFor(t, query')) <= Cardinality(QueriesFor(t, query))
    BY <2>1, FewerQueries
  <2>. QED  BY <2>1, <2>2, <2>3, NothingBought DEF Bill
<1>6. ASSUME NEW q \in query, NEW i \in ObsId, NEW b \in Report, QueryAnswered(q, i, b)
      PROVE  PaidInv'
  <2>1. q.subject \in Subject
    BY DEF IndInv
  <2>. QED  BY <1>4, <1>6, <2>1 DEF QueryAnswered
<1>7. ASSUME NEW s \in Subject, NEW i \in ObsId, NEW b \in Report, Observe(s, i, b)
      PROVE  PaidInv'
  BY <1>4, <1>7 DEF Observe
<1>8. CASE Tick \/ Authority \/ UNCHANGED vars
           \/ \E s \in Subject : Submit(s) \/ SubmitterDies(s)
  BY <1>1, <1>8 DEF Tick, Authority, IssuerFreshness, Revoke, Submit, SubmitterDies, vars
<1>. QED  BY <1>2, <1>3, <1>5, <1>6, <1>7, <1>8, ActivatePaid, PermitPaid, BeginQueryPaid
          DEF Next

LEMMA InitPaid ==
    ASSUME PlanOK, BudgetsOK, IsFiniteSet(Step), Init PROVE PaidInv
<1>1. ASSUME NEW w \in Workflow PROVE PaidFor(w)
  <2>1. OpsOf(w, op) = {}
    BY DEF Init, OpsOf, NoOperation, StepsOf, PlanOK
  <2>2. wf[w].calls = 0 /\ wf[w].queries = 0
    BY DEF Init, NewWorkflow
  <2>. QED  BY <2>1, <2>2, SumOfNone DEF PaidFor, BudgetsOK
<1>2. ASSUME NEW s \in Subject PROVE WithinLimits(s)
  <2>1. QueriesFor(s, query) = {}
    BY DEF Init, QueriesFor
  <2>2. op[s].queries = 0 /\ op[s].permits = 0 /\ op[s].reserved = 0
    BY DEF Init, NoOperation
  <2>. QED  BY <2>1, <2>2, FS_EmptySet DEF WithinLimits, BudgetsOK
<1>. QED  BY <1>1, <1>2 DEF PaidInv

\* Whatever queries are lost, late or killed, and whichever of the workflows that
\* name a subject gets its operation, a parent has paid for each permit and each
\* query of its operations, within its budget and theirs (engine_activation,
\* submit and reconcile write external_calls).
THEOREM EveryCallIsPaid ==
    ASSUME PlanOK, BudgetsOK, IsFiniteSet(Step) PROVE Spec => []CallsPaid
<1>1. Init => PaidInv
  BY InitPaid
<1>2. IndInv /\ ParentInv /\ PaidInv /\ [Next]_vars => PaidInv'
  BY NextPaid
<1>3. IndInv /\ ParentInv /\ PaidInv => CallsPaid
  <2>. SUFFICES ASSUME IndInv, ParentInv, PaidInv PROVE CallsPaid
    OBVIOUS
  <2>1. ASSUME NEW w \in Workflow
        PROVE  LET ops == {s \in Subject : op[s].step \in StepsOf(w)}
               IN  /\ wf[w].calls = SumFunction([s \in ops |-> op[s].permits + op[s].queries])
                   /\ wf[w].queries = SumFunction([s \in ops |-> op[s].queries])
                   /\ wf[w].calls <= MaxCalls
    <3>. DEFINE I == OpsOf(w, op)
                f == [s \in I |-> op[s].permits + op[s].queries]
                h == [s \in I |-> op[s].queries]
    <3>1. DOMAIN f = I /\ DOMAIN h = I /\ I \subseteq Subject
      BY DEF OpsOf
    <3>2. IsFiniteSet(I) /\ PaidFor(w)
      BY OpsFinite DEF PaidInv
    <3>3. \A s \in I : f[s] = CallsAt(op)[s] /\ h[s] = QueriesAt(op)[s]
      BY <3>1, CostTyped
    <3>. HIDE DEF f, h, I
    <3>4. /\ SumFunctionOnSet(f, I) = SumFunctionOnSet(CallsAt(op), I)
          /\ SumFunctionOnSet(h, I) = SumFunctionOnSet(QueriesAt(op), I)
      BY <3>2, <3>3, SumOfSame
    <3>5. wf[w].calls = SumFunction(f) /\ wf[w].queries = SumFunction(h)
      BY <3>1, <3>2, <3>4 DEF PaidFor, I, SumFunction
    <3>. QED  BY <3>2, <3>5 DEF PaidFor, f, h, I, OpsOf
  <2>2. \A s \in Subject :
            /\ op[s].queries <= MaxQueries
            /\ op[s].reserved <= MaxExecution
            /\ Cardinality({q \in query : q.subject = s}) <= op[s].queries
    BY DEF PaidInv, WithinLimits, QueriesFor
  <2>. QED  BY <2>1, <2>2 DEF CallsPaid
<1>. QED  BY <1>1, <1>2, <1>3, ParentInvariance, PTL DEF Spec
=============================================================================
