-------------------- MODULE ContinuableExtraction_proofs --------------------
(***************************************************************************)
(* Theorems about continuable extractions, for every source, every answer  *)
(* of the Kernel, all budgets and any number of request threads.           *)
(*                                                                         *)
(* That the ranges are unbroken rests on one fact about the operation's    *)
(* row: as long as it is pending, its next range is where the last         *)
(* accepted one ended.  What request threads and staged rows remember may  *)
(* be of any age; all that is needed of them is that it was an answer of   *)
(* the Kernel.                                                             *)
(***************************************************************************)
EXTENDS ContinuableExtraction, Sums_proofs

Reason ==
    {"none", "COMPLETED", "UNSUPPORTED_PROJECTION", "INCOMPLETE_PROJECTION",
     "RETRY_BUDGET_EXHAUSTED", "SOURCE_TOO_LARGE"} \cup {e.reason : e \in Endings}

Omission ==
    (UNION {r.omissions : r \in Reports})
        \cup {TerminalOmission(reason) : reason \in Reason}

Coverage == [disposition : Disposition, omissions : SUBSET Omission, ocr : Ocr]

Response == [from : Position, next : Position \cup {Over}, report : Reports]

AcceptedRange == [key : Key, from : Position, next : Position \cup {Over}, report : Reports]

Session ==
    [state : {"absent", "pending"} \cup Terminal, revision : Nat,
     next : Position \cup {Over}, ranges : Seq(AcceptedRange), coverage : Coverage,
     terminal : Coverage \cup {NoCoverage}, reason : Reason, blocks : Nat, retries : Nat]

StagedRow ==
    [key : Key, revision : Nat, response : Response, status : {"staged", "accepted"}]

\* A request thread asks for a range where the operation once went on.
CallerOK(c) ==
    /\ c.pc \in {"idle", "asking", "staged"}
    /\ c.pc = "asking" => c.at \in Position /\ c.revision \in Nat

\* A pending operation goes on where its last range ended.
Unbroken(s) ==
    /\ s.state = "absent" => s.ranges = <<>>
    /\ s.state = "pending" =>
        /\ s.next \in Position
        /\ s.next = IF s.ranges = <<>> THEN First ELSE s.ranges[Len(s.ranges)].next

IndInv ==
    /\ session \in Session
    /\ Unbroken(session)
    /\ staged \in Seq(StagedRow)
    /\ caller = [x \in Caller |-> caller[x]]
    /\ \A x \in Caller : CallerOK(caller[x])
    /\ deaths \in 0 .. MaxDeaths

-----------------------------------------------------------------------------
(* The transitions of the core                                             *)

LEMMA Positions == First \in Position /\ Over \notin Position /\ Position \subseteq Nat
BY InstanceOK DEF First, Position, Over

\* Fields of an operation may be replaced by values of their type.
LEMMA Settable ==
    ASSUME NEW s \in Session
    PROVE  /\ \A v \in {"absent", "pending"} \cup Terminal : [s EXCEPT !.state = v] \in Session
           /\ \A v \in Nat : [s EXCEPT !.revision = v] \in Session
           /\ \A v \in Position \cup {Over} : [s EXCEPT !.next = v] \in Session
           /\ \A v \in Seq(AcceptedRange) : [s EXCEPT !.ranges = v] \in Session
           /\ \A v \in Coverage : [s EXCEPT !.coverage = v] \in Session
           /\ \A v \in Coverage \cup {NoCoverage} : [s EXCEPT !.terminal = v] \in Session
           /\ \A v \in Reason : [s EXCEPT !.reason = v] \in Session
           /\ \A v \in Nat : [s EXCEPT !.blocks = v] \in Session
           /\ \A v \in Nat : [s EXCEPT !.retries = v] \in Session
BY DEF Session

LEMMA NewSessionOK == NewSession \in Session /\ Unbroken(NewSession)
<1>1. <<>> \in Seq(AcceptedRange)
  OBVIOUS
<1>2. [disposition |-> "complete", omissions |-> {}, ocr |-> 0] \in Coverage
  BY DEF Coverage, Disposition, Ocr
<1> QED
  BY <1>1, <1>2, Positions DEF NewSession, Session, Unbroken, Reason, NoCoverage

LEMMA AccumulateOK ==
    ASSUME NEW coverage \in Coverage, NEW r \in Response
    PROVE  Accumulate(coverage, r) \in Coverage
<1>1. r.report \in Reports
  BY DEF Response
<1>2. /\ r.report.disposition \in Disposition
      /\ r.report.ocr \in Ocr
      /\ r.report.omissions \subseteq Omission
  BY <1>1, InstanceOK DEF Omission
<1> QED
  BY <1>2 DEF Accumulate, Coverage

\* An accepted range joins the ones before it, and the next one joins it.
LEMMA ExtendedOK ==
    ASSUME NEW s \in Session, NEW row \in StagedRow, Unbroken(s),
           s.state = "pending", row.response.from = s.next
    PROVE  Extended(s, row) \in Session /\ Unbroken(Extended(s, row))
<1> DEFINE r == row.response
           coverage == Accumulate(s.coverage, r)
           new == Extended(s, row)
<1>1. r \in Response /\ r.report \in Reports /\ r.report.blocks \in Nat
  BY InstanceOK DEF StagedRow, Response
<1>2. s.coverage \in Coverage
  BY DEF Session
<1>3. coverage \in Coverage
  BY <1>1, <1>2, AccumulateOK
<1>4. RangeOf(row) \in AcceptedRange
  BY <1>1 DEF RangeOf, AcceptedRange, Response, StagedRow
<1>5. Append(s.ranges, RangeOf(row)) \in Seq(AcceptedRange)
  BY <1>4 DEF Session
<1>6. /\ new.ranges = Append(s.ranges, RangeOf(row))
      /\ new.next = r.next
      /\ new.state = (IF r.next # Over THEN "pending"
                      ELSE IF r.report.disposition = "complete"
                              /\ coverage.disposition = "complete"
                      THEN "completed" ELSE "failed")
  BY DEF Extended, Session
<1>7. new \in Session
  <2> DEFINE complete == /\ r.report.disposition = "complete"
                         /\ coverage.disposition = "complete"
             terminal == IF r.next = Over THEN coverage ELSE NoCoverage
             reason == IF r.next # Over THEN "none"
                       ELSE IF complete THEN "COMPLETED"
                       ELSE IF coverage.disposition = "unsupported"
                       THEN "UNSUPPORTED_PROJECTION"
                       ELSE "INCOMPLETE_PROJECTION"
             state == IF r.next # Over THEN "pending"
                      ELSE IF complete THEN "completed" ELSE "failed"
  <2>2. /\ terminal \in Coverage \cup {NoCoverage}
        /\ state \in {"absent", "pending"} \cup Terminal
        /\ reason \in Reason
        /\ r.next \in Position \cup {Over}
    BY <1>1, <1>3 DEF Terminal, Reason, Response
  <2> DEFINE s1 == [s EXCEPT !.revision = s.revision + 1]
             s2 == [s1 EXCEPT !.ranges = Append(s.ranges, RangeOf(row))]
             s3 == [s2 EXCEPT !.blocks = s.blocks + r.report.blocks]
             s4 == [s3 EXCEPT !.coverage = coverage]
             s5 == [s4 EXCEPT !.next = r.next]
             s6 == [s5 EXCEPT !.terminal = terminal]
             s7 == [s6 EXCEPT !.state = state]
             s8 == [s7 EXCEPT !.reason = reason]
  <2>3. new = s8
    BY DEF Extended
  <2>4. s.revision + 1 \in Nat /\ s.blocks + r.report.blocks \in Nat
    BY <1>1 DEF Session
  <2> HIDE DEF r, coverage, new, complete, terminal, reason, state
  <2>5. s1 \in Session
    BY <2>4, Settable
  <2>6. s2 \in Session
    BY <1>5, <2>5, Settable
  <2>7. s3 \in Session
    BY <2>4, <2>6, Settable
  <2>8. s4 \in Session
    BY <1>3, <2>7, Settable
  <2>9. s5 \in Session
    BY <2>2, <2>8, Settable
  <2>10. s6 \in Session
    BY <2>2, <2>9, Settable
  <2>11. s7 \in Session
    BY <2>2, <2>10, Settable
  <2>12. s8 \in Session
    BY <2>2, <2>11, Settable
  <2> QED
    BY <2>3, <2>12
<1>8. Unbroken(new)
  <2>1. new.ranges # <<>>
    BY <1>4, <1>6 DEF Session
  <2>2. new.ranges[Len(new.ranges)] = RangeOf(row)
    BY <1>4, <1>6 DEF Session
  <2>3. RangeOf(row).next = r.next
    BY DEF RangeOf
  <2>4. new.state = "pending" => r.next \in Position
    BY <1>1, <1>6 DEF Response
  <2>5. new.state # "absent"
    BY <1>6
  <2> HIDE DEF r, coverage, new
  <2> QED
    BY <1>6, <2>1, <2>2, <2>3, <2>4, <2>5 DEF Unbroken
<1> QED
  BY <1>7, <1>8

\* An abandoned operation is terminal, and keeps its ranges.
LEMMA TerminatedOK ==
    ASSUME NEW s \in Session, NEW state \in Terminal, NEW reason \in Reason
    PROVE  Terminated(s, state, reason) \in Session /\ Unbroken(Terminated(s, state, reason))
<1>1. TerminalOmission(reason) \in Omission
  BY DEF Omission
<1>2. TerminalCoverage(s, reason) \in Coverage
  BY <1>1 DEF TerminalCoverage, Coverage, Session, Disposition
<1> HIDE DEF TerminalCoverage
<1> DEFINE new == Terminated(s, state, reason)
<1>3. new \in Session
  <2> DEFINE s1 == [s EXCEPT !.revision = s.revision + 1]
             s2 == [s1 EXCEPT !.state = state]
             s3 == [s2 EXCEPT !.reason = reason]
             s4 == [s3 EXCEPT !.terminal = TerminalCoverage(s, reason)]
             s5 == [s4 EXCEPT !.next = Over]
  <2>1. s.revision + 1 \in Nat
    BY DEF Session
  <2>2. s1 \in Session
    BY <2>1, Settable
  <2>3. s2 \in Session
    BY <2>2, Settable
  <2>4. s3 \in Session
    BY <2>3, Settable
  <2>5. s4 \in Session
    BY <1>2, <2>4, Settable
  <2>6. s5 \in Session
    BY <2>5, Settable
  <2> QED
    BY <2>6 DEF Terminated
<1>4. Terminated(s, state, reason).state \in Terminal
  BY DEF Terminated, Session
<1> QED
  BY <1>3, <1>4 DEF Unbroken, Terminal

-----------------------------------------------------------------------------
(* Steps                                                                   *)

\* What a step may do to the operation's row.
SessionChanges ==
    \/ session' = session
    \/ session.state = "absent" /\ session' = NewSession
    \/ /\ session.state = "pending"
       /\ \/ \E state \in Terminal \ {"completed"}, reason \in Reason :
                session' = Terminated(session, state, reason)
          \/ \E row \in StagedRow :
                Acceptable(session, row) /\ session' = Extended(session, row)
          \/ /\ session.retries < Limits.retries
             /\ session' = [session EXCEPT !.revision = @ + 1, !.retries = @ + 1]

\* What a step does to the rows, and to the ranges with them.
RowsChange ==
    \/ UNCHANGED <<session, staged>>
    \/ /\ staged' = staged
       /\ \/ session.state = "absent" /\ session' = NewSession
          \/ /\ session.state = "pending"
             /\ \/ \E state \in Terminal \ {"completed"}, reason \in Reason :
                      session' = Terminated(session, state, reason)
                \/ /\ session.retries < Limits.retries
                   /\ session' = [session EXCEPT !.revision = @ + 1, !.retries = @ + 1]
    \/ /\ session' = session
       /\ \E row : /\ row.status = "staged" /\ \A i \in DOMAIN staged : staged[i].key # row.key
                   /\ staged' = Append(staged, row)
    \/ \E i \in DOMAIN staged :
        /\ staged[i].status = "staged" /\ Acceptable(session, staged[i])
        /\ session' = Extended(session, staged[i])
        /\ staged' = [staged EXCEPT ![i].status = "accepted"]

LEMMA StepChangesRows ==
    ASSUME IndInv, [Next]_vars PROVE RowsChange
<1>1. CASE Create
  BY <1>1 DEF Create, Write, RowsChange
<1>2. ASSUME NEW end \in Endings, GiveUp(end)
      PROVE  RowsChange
  <2>1. end.state \in Terminal \ {"completed"} /\ end.reason \in Reason
    BY InstanceOK DEF Terminal, Reason
  <2> QED
    BY <1>2, <2>1 DEF GiveUp, Write, RowsChange
<1>3. CASE RecordRetry
  <2>1. "failed" \in Terminal \ {"completed"} /\ "RETRY_BUDGET_EXHAUSTED" \in Reason
    BY DEF Terminal, Reason
  <2>2. session.retries < Limits.retries \/ session.retries >= Limits.retries
    BY InstanceOK DEF IndInv, Session
  <2> QED
    BY <1>3, <2>1, <2>2 DEF RecordRetry, Write, Retried, RowsChange
<1>4. ASSUME NEW x \in Caller, SourceTooLarge(x)
      PROVE  RowsChange
  <2>1. "failed" \in Terminal \ {"completed"} /\ "SOURCE_TOO_LARGE" \in Reason
    BY DEF Terminal, Reason
  <2> QED
    BY <1>4, <2>1 DEF SourceTooLarge, Write, RowsChange
<1>5. ASSUME NEW x \in Caller, AcceptStaged(x)
      PROVE  RowsChange
  BY <1>5 DEF AcceptStaged, Write, RowsOf, RowsChange
<1>6. ASSUME NEW x \in Caller, NEW key \in Key, NEW r \in Responses(caller[x].at),
             StageRange(x, key, r)
      PROVE  RowsChange
  <2> DEFINE row == [key |-> key, revision |-> caller[x].revision,
                     response |-> r, status |-> "staged"]
  <2>1. session' = session
    BY <1>6 DEF StageRange
  <2>2. \/ staged' = staged
        \/ RowsOf(key) = {} /\ staged' = Append(staged, row)
    BY <1>6 DEF StageRange
  <2>3. row.status = "staged" /\ row.key = key
    OBVIOUS
  <2> HIDE DEF row
  <2> QED
    BY <2>1, <2>2, <2>3 DEF RowsOf, RowsChange
<1>7. ASSUME NEW x \in Caller,
             ExecuteNext(x) \/ KernelFails(x) \/ Reconcile(x) \/ Die(x)
      PROVE  RowsChange
  BY <1>7 DEF ExecuteNext, KernelFails, Reconcile, Die, RowsChange
<1>8. CASE UNCHANGED vars
  BY <1>8 DEF vars, RowsChange
<1> QED
  BY <1>1, <1>2, <1>3, <1>4, <1>5, <1>6, <1>7, <1>8 DEF Next, KernelReturns

LEMMA StepChangesSession ==
    ASSUME InstanceOK, IndInv, [Next]_vars PROVE SessionChanges
<1>1. \A i \in DOMAIN staged : staged[i] \in StagedRow
  BY DEF IndInv
<1>2. RowsChange
  BY StepChangesRows
<1>3. ASSUME NEW i \in DOMAIN staged, Acceptable(session, staged[i]),
             session' = Extended(session, staged[i])
      PROVE  SessionChanges
  <2>1. PICK row \in StagedRow : row = staged[i]
    BY <1>1
  <2>2. session.state = "pending"
    BY <1>3 DEF Acceptable
  <2> QED
    BY <1>3, <2>1, <2>2 DEF SessionChanges
<1> QED
  BY <1>2, <1>3 DEF RowsChange, SessionChanges

LEMMA SessionStays ==
    ASSUME InstanceOK, IndInv, SessionChanges
    PROVE  session' \in Session /\ Unbroken(session')
<1> USE DEF IndInv
<1>1. CASE session.state = "absent" /\ session' = NewSession
  BY <1>1, NewSessionOK
<1>2. ASSUME NEW state \in Terminal \ {"completed"}, NEW reason \in Reason,
             session' = Terminated(session, state, reason)
      PROVE  session' \in Session /\ Unbroken(session')
  BY <1>2, TerminatedOK
<1>3. ASSUME session.state = "pending", NEW row \in StagedRow,
             Acceptable(session, row), session' = Extended(session, row)
      PROVE  session' \in Session /\ Unbroken(session')
  <2>1. row.response.from = session.next
    BY <1>3 DEF Acceptable
  <2> QED
    BY <1>3, <2>1, ExtendedOK
<1>4. CASE session' = [session EXCEPT !.revision = @ + 1, !.retries = @ + 1]
  <2>1. session.revision + 1 \in Nat /\ session.retries + 1 \in Nat
    BY DEF Session
  <2>2. [session EXCEPT !.revision = @ + 1] \in Session
    BY <2>1, Settable
  <2>3. session' \in Session
    BY <1>4, <2>1, <2>2, Settable
  <2>4. /\ session'.state = session.state
        /\ session'.next = session.next
        /\ session'.ranges = session.ranges
    BY <1>4 DEF Session
  <2> QED
    BY <2>3, <2>4 DEF Unbroken
<1> QED
  BY <1>1, <1>2, <1>3, <1>4 DEF SessionChanges

\* Staged rows are answers of the Kernel, and stay what they are.
LEMMA StagedStays ==
    ASSUME InstanceOK, IndInv, [Next]_vars PROVE staged' \in Seq(StagedRow)
<1> USE DEF IndInv
<1>1. ASSUME NEW x \in Caller, NEW key \in Key, NEW r \in Responses(caller[x].at),
             StageRange(x, key, r)
      PROVE  staged' \in Seq(StagedRow)
  <2> DEFINE row == [key |-> key, revision |-> caller[x].revision,
                     response |-> r, status |-> "staged"]
  <2>1. caller[x].at \in Position /\ caller[x].revision \in Nat
    BY <1>1 DEF StageRange, CallerOK
  <2>2. r \in Response
    <3>1. PICK n \in (caller[x].at + 1) .. Pages \cup {Over}, report \in Reports :
              r = [from |-> caller[x].at, next |-> n, report |-> report]
      BY DEF Responses
    <3>2. n \in Position \cup {Over}
      BY <2>1, <3>1, InstanceOK DEF Position
    <3> QED
      BY <2>1, <3>1, <3>2 DEF Response
  <2>3. row \in StagedRow
    BY <2>1, <2>2 DEF StagedRow
  <2>4. staged' = staged \/ staged' = Append(staged, row)
    BY <1>1 DEF StageRange
  <2> HIDE DEF row
  <2> QED
    BY <2>3, <2>4
<1>2. ASSUME NEW x \in Caller, AcceptStaged(x)
      PROVE  staged' \in Seq(StagedRow)
  <2>1. \/ staged' = staged
        \/ \E i \in DOMAIN staged : staged' = [staged EXCEPT ![i].status = "accepted"]
    BY <1>2 DEF AcceptStaged, RowsOf
  <2>2. ASSUME NEW i \in DOMAIN staged,
               staged' = [staged EXCEPT ![i].status = "accepted"]
        PROVE  staged' \in Seq(StagedRow)
    <3>1. staged[i] \in StagedRow
      OBVIOUS
    <3>2. [staged[i] EXCEPT !.status = "accepted"] \in StagedRow
      BY <3>1 DEF StagedRow
    <3> QED
      BY <2>2, <3>2
  <2> QED
    BY <2>1, <2>2
<1>3. CASE UNCHANGED vars
  BY <1>3 DEF vars
<1> QED
  BY <1>1, <1>2, <1>3 DEF Next, KernelReturns, Create, ExecuteNext, KernelFails,
     SourceTooLarge, Reconcile, Die, GiveUp, RecordRetry

\* Whatever a request thread becomes, it asks only where the operation went on.
LEMMA CallersStay ==
    ASSUME InstanceOK, IndInv, [Next]_vars
    PROVE  /\ caller' = [x \in Caller |-> caller'[x]]
           /\ \A x \in Caller : CallerOK(caller'[x])
<1> USE DEF IndInv
<1>1. ASSUME NEW x \in Caller, NEW c, CallerOK(c), caller' = [caller EXCEPT ![x] = c]
      PROVE  /\ caller' = [y \in Caller |-> caller'[y]]
             /\ \A y \in Caller : CallerOK(caller'[y])
  BY <1>1
<1>2. CallerOK(Idle) /\ \A key : CallerOK(Staged(key))
  BY DEF Idle, Staged, CallerOK
<1>3. ASSUME NEW x \in Caller, ExecuteNext(x)
      PROVE  \E c : CallerOK(c) /\ caller' = [caller EXCEPT ![x] = c]
  <2> DEFINE c == [Idle EXCEPT !.pc = "asking", !.revision = session.revision,
                               !.at = session.next]
  <2>1. c.pc = "asking" /\ c.revision = session.revision /\ c.at = session.next
    BY DEF Idle
  <2>2. session.next \in Position /\ session.revision \in Nat
    BY <1>3 DEF ExecuteNext, Unbroken, Session
  <2>3. caller' = [caller EXCEPT ![x] = c]
    BY <1>3 DEF ExecuteNext
  <2> HIDE DEF c
  <2> QED
    BY <2>1, <2>2, <2>3 DEF CallerOK
<1>4. ASSUME NEW x \in Caller,
             KernelReturns(x) \/ AcceptStaged(x) \/ Reconcile(x) \/ Die(x)
      PROVE  \/ caller' = [caller EXCEPT ![x] = Idle]
             \/ \E key : caller' = [caller EXCEPT ![x] = Staged(key)]
  BY <1>4 DEF KernelReturns, StageRange, KernelFails, SourceTooLarge, AcceptStaged,
     Reconcile, Die
<1>5. CASE UNCHANGED caller
  BY <1>5
<1> QED
  BY <1>1, <1>2, <1>3, <1>4, <1>5 DEF Next, vars, Create, GiveUp, RecordRetry

-----------------------------------------------------------------------------
(* Theorems                                                                *)

LEMMA Invariance == ASSUME InstanceOK PROVE Spec => []IndInv
<1>1. Init => IndInv
  <2> SUFFICES ASSUME Init PROVE IndInv
    OBVIOUS
  <2>1. session \in Session /\ Unbroken(session)
    <3>1. session = [NewSession EXCEPT !.state = "absent"]
      BY DEF Init
    <3>2. session \in Session
      BY <3>1, NewSessionOK, Settable
    <3>3. session.state = "absent" /\ session.ranges = <<>>
      BY <3>1 DEF NewSession
    <3> QED
      BY <3>2, <3>3 DEF Unbroken
  <2>2. staged \in Seq(StagedRow)
    BY DEF Init
  <2> QED
    BY <2>1, <2>2 DEF Init, IndInv, CallerOK, Idle, InstanceOK
<1>2. IndInv /\ [Next]_vars => IndInv'
  <2> SUFFICES ASSUME IndInv, [Next]_vars PROVE IndInv'
    OBVIOUS
  <2>1. session' \in Session /\ Unbroken(session')
    BY StepChangesSession, SessionStays
  <2>2. \/ deaths' = deaths
        \/ deaths < MaxDeaths /\ deaths' = deaths + 1
    BY DEF Next, vars, Create, ExecuteNext, KernelReturns, KernelFails,
       SourceTooLarge, StageRange, AcceptStaged, Reconcile, Die, GiveUp, RecordRetry
  <2>3. deaths' \in 0 .. MaxDeaths
    BY <2>2, InstanceOK DEF IndInv
  <2> QED
    BY <2>1, <2>3, StagedStays, CallersStay DEF IndInv
<1> QED
  BY <1>1, <1>2, PTL DEF Spec

\* Every reachable state of an extraction is well typed: a place in the source,
\* a number of revisions, and a known disposition.
THEOREM TypeCorrect == ASSUME InstanceOK PROVE Spec => []TypeOK
<1>1. IndInv => TypeOK
  <2> SUFFICES ASSUME IndInv PROVE TypeOK
    OBVIOUS
  <2>1. /\ session.state \in {"absent", "pending"} \cup Terminal
        /\ session.revision \in Nat
        /\ session.next \in Position \cup {Over}
        /\ session.coverage.disposition \in Disposition
    BY DEF IndInv, Session, Coverage
  <2>2. \A i \in DOMAIN staged : staged[i].status \in {"staged", "accepted"}
    <3>1. \A i \in DOMAIN staged : staged[i] \in StagedRow
      BY DEF IndInv
    <3> QED
      BY <3>1 DEF StagedRow
  <2> QED
    BY <2>1, <2>2 DEF IndInv, TypeOK, CallerOK
<1> QED
  BY <1>1, Invariance, PTL

-----------------------------------------------------------------------------
(* The promise                                                             *)

\* What the promise sees of a sequence of ranges.
Shown(R) == [j \in DOMAIN R |-> [from |-> R[j].from, next |-> R[j].next]]

ShownRange == [from : Position, next : Position \cup {Over}]

LEMMA ShownIsSeq ==
    ASSUME NEW R \in Seq(AcceptedRange)
    PROVE  Shown(R) \in Seq(ShownRange) /\ Len(Shown(R)) = Len(R)
<1>1. \A j \in 1 .. Len(R) : R[j] \in AcceptedRange
  OBVIOUS
<1>2. \A j \in 1 .. Len(R) : [from |-> R[j].from, next |-> R[j].next] \in ShownRange
  BY <1>1 DEF AcceptedRange, ShownRange
<1>3. Shown(R) \in [1 .. Len(R) -> ShownRange]
  BY <1>2 DEF Shown
<1> QED
  BY <1>3

LEMMA ShownAppends ==
    ASSUME NEW R \in Seq(AcceptedRange), NEW e \in AcceptedRange
    PROVE  Shown(Append(R, e)) = Append(Shown(R), [from |-> e.from, next |-> e.next])
<1> DEFINE shown == [from |-> e.from, next |-> e.next]
<1>1. shown \in ShownRange
  BY DEF AcceptedRange, ShownRange
<1>2. /\ Append(R, e) \in Seq(AcceptedRange)
      /\ Len(Append(R, e)) = Len(R) + 1
      /\ \A j \in 1 .. Len(R) : Append(R, e)[j] = R[j]
      /\ Append(R, e)[Len(R) + 1] = e
  OBVIOUS
<1>3. /\ Shown(Append(R, e)) \in Seq(ShownRange)
      /\ Len(Shown(Append(R, e))) = Len(R) + 1
      /\ Shown(R) \in Seq(ShownRange)
      /\ Len(Shown(R)) = Len(R)
  BY <1>2, ShownIsSeq
<1>4. /\ \A j \in 1 .. Len(R) : Shown(Append(R, e))[j] = Shown(R)[j]
      /\ Shown(Append(R, e))[Len(R) + 1] = shown
  BY <1>2 DEF Shown
<1> HIDE DEF shown, Shown
<1>5. /\ Append(Shown(R), shown) \in Seq(ShownRange)
      /\ Len(Append(Shown(R), shown)) = Len(R) + 1
      /\ \A j \in 1 .. Len(R) : Append(Shown(R), shown)[j] = Shown(R)[j]
      /\ Append(Shown(R), shown)[Len(R) + 1] = shown
  BY <1>1, <1>3
<1>6. \A j \in 1 .. Len(R) + 1 : Shown(Append(R, e))[j] = Append(Shown(R), shown)[j]
  BY <1>3, <1>4, <1>5
<1>7. Shown(Append(R, e)) = Append(Shown(R), shown)
  BY <1>3, <1>5, <1>6
<1> QED
  BY <1>7 DEF shown

\* An accepted range is published; an abandoned operation gives up; all else is
\* none of the promise's business.
LEMMA StepKeepsPromise ==
    ASSUME InstanceOK, IndInv, [Next]_vars
    PROVE  [Promise!Next]_(Promise!projectionVars)
<1> DEFINE R == session.ranges
           outcome == IF session.state \in Terminal THEN session.state ELSE "open"
<1>1. R \in Seq(AcceptedRange) /\ session \in Session
  BY DEF IndInv, Session
<1>2. /\ Shown(R)' = Shown(R) /\ outcome' = outcome
          => UNCHANGED (Promise!projectionVars)
  BY DEF Promise!projectionVars, Shown
<1>3. CASE session' = session
  BY <1>2, <1>3 DEF Shown
<1>4. CASE session.state = "absent" /\ session' = NewSession
  <2>1. R' = R
    BY <1>4 DEF IndInv, Unbroken, NewSession
  <2>2. outcome' = outcome
    BY <1>4 DEF NewSession, Terminal
  <2> QED
    BY <1>2, <2>1, <2>2 DEF Shown
<1>5. ASSUME session.state = "pending",
             NEW state \in Terminal \ {"completed"}, NEW reason \in Reason,
             session' = Terminated(session, state, reason)
      PROVE  Promise!GiveUp
  <2>1. R' = R /\ session'.state = state
    BY <1>1, <1>5 DEF Terminated, Session
  <2>2. outcome = "open" /\ outcome' = state
    BY <1>5, <2>1 DEF Terminal
  <2> QED
    BY <2>1, <2>2 DEF Promise!GiveUp, Promise!Closed, Terminal
<1>6. ASSUME session.state = "pending", NEW row \in StagedRow,
             Acceptable(session, row), session' = Extended(session, row)
      PROVE  Promise!Publish
  <2>0. row.response.from = session.next
    BY <1>6 DEF Acceptable
  <2>1. /\ RangeOf(row) \in AcceptedRange
        /\ RangeOf(row).from = row.response.from
        /\ RangeOf(row).next = row.response.next
        /\ row.response.next \in Position \cup {Over}
    BY DEF RangeOf, AcceptedRange, StagedRow, Response
  <2>2. /\ session'.ranges = Append(R, RangeOf(row))
        /\ session'.state = IF row.response.next # Over THEN "pending"
                            ELSE IF row.response.report.disposition = "complete"
                                    /\ Accumulate(session.coverage, row.response).disposition
                                            = "complete"
                            THEN "completed" ELSE "failed"
    BY <1>1, <1>6 DEF Extended, Session
  <2>3. Shown(session'.ranges) =
            Append(Shown(R), [from |-> session.next, next |-> row.response.next])
    BY <1>1, <2>0, <2>1, <2>2, ShownAppends
  <2>4. session.next = Promise!Frontier(Shown(R))
    <3>1. session.next = IF R = <<>> THEN First ELSE R[Len(R)].next
      BY <1>6 DEF IndInv, Unbroken
    <3>2. Shown(R) = <<>> <=> R = <<>>
      BY <1>1, ShownIsSeq
    <3>3. R # <<>> => Shown(R)[Len(R)].next = R[Len(R)].next
      BY <1>1 DEF Shown
    <3> QED
      BY <1>1, <3>1, <3>2, <3>3, ShownIsSeq DEF Promise!Frontier
  <2>5. outcome = "open"
    BY <1>6 DEF Terminal
  <2>6. outcome' \in IF row.response.next = Over THEN {"completed", "failed"} ELSE {"open"}
    BY <2>2 DEF Terminal
  <2> QED
    BY <2>1, <2>3, <2>4, <2>5, <2>6 DEF Promise!Publish, Shown
<1>7. CASE session' = [session EXCEPT !.revision = @ + 1, !.retries = @ + 1]
  <2>1. session'.ranges = R /\ session'.state = session.state
    BY <1>1, <1>7 DEF Session
  <2> QED
    BY <1>2, <2>1 DEF Shown
<1> QED
  BY <1>3, <1>4, <1>5, <1>6, <1>7, StepChangesSession DEF SessionChanges, Promise!Next

\* Whatever request threads do with answers of whatever age, a consumer sees one
\* unbroken sequence of ranges, closed once, and as completed only at the end of
\* the source.
THEOREM PromiseKept == ASSUME InstanceOK PROVE Spec => KeepsPromise
<1>1. Init => Promise!Init
  BY DEF Init, NewSession, Terminal, Promise!Init
<1>2. IndInv /\ [Next]_vars => [Promise!Next]_(Promise!projectionVars)
  BY StepKeepsPromise
<1> QED
  BY <1>1, <1>2, Invariance, PTL DEF Spec, KeepsPromise, Promise!Spec

-----------------------------------------------------------------------------
(* The history                                                             *)

\* A range is followed by another unless it is the last, and the operation is
\* open as long as something follows.
Follows(s) ==
    /\ \A j \in 1 .. Len(s.ranges) - 1 : s.ranges[j].next # Over
    /\ s.state \in {"absent", "pending"} => ~Ended(s.ranges)

\* The counters of the operation tell its history.
Counted(s) ==
    /\ s.revision = Len(s.ranges) + s.retries
            + (IF s.state \in Terminal /\ ~Ended(s.ranges) THEN 1 ELSE 0)
    /\ s.blocks = Blocks(s.ranges)
    /\ WithinLimits(s) /\ s.retries <= Limits.retries

\* What accepting a row does to the ranges.
LEMMA Appended ==
    ASSUME NEW R \in Seq(AcceptedRange), NEW e \in AcceptedRange
    PROVE  /\ Append(R, e) \in Seq(AcceptedRange)
           /\ Len(R) \in Nat /\ Len(Append(R, e)) = Len(R) + 1
           /\ DOMAIN R = 1 .. Len(R)
           /\ DOMAIN Append(R, e) = 1 .. Len(R) + 1
           /\ Append(R, e) # <<>>
           /\ \A j \in 1 .. Len(R) : R[j] \in AcceptedRange /\ Append(R, e)[j] = R[j]
           /\ Append(R, e)[Len(R) + 1] = e
OBVIOUS

LEMMA BlocksOfNone == Blocks(<<>>) = 0
<1> DEFINE f == [j \in DOMAIN <<>> |-> <<>>[j].report.blocks]
<1>1. DOMAIN f = {}
  OBVIOUS
<1> HIDE DEF f
<1>2. SumFunctionOnSet(f, DOMAIN f) = 0
  BY <1>1, SumOfNone
<1> QED
  BY <1>2 DEF Blocks, SumFunction, f

LEMMA BlocksAppended ==
    ASSUME NEW R \in Seq(AcceptedRange), NEW e \in AcceptedRange
    PROVE  Blocks(Append(R, e)) = Blocks(R) + e.report.blocks
<1> DEFINE n == Len(R)
           f == [j \in DOMAIN R |-> R[j].report.blocks]
           g == [j \in DOMAIN Append(R, e) |-> Append(R, e)[j].report.blocks]
           S == 1 .. n + 1
<1>1. DOMAIN f = 1 .. n /\ DOMAIN g = S /\ n \in Nat
  BY Appended
<1>2. g[n + 1] = e.report.blocks /\ \A j \in 1 .. n : g[j] = f[j]
  BY Appended
<1>3. \A j \in S : g[j] \in Int
  <2>1. \A r \in AcceptedRange : r.report.blocks \in Nat
    BY InstanceOK DEF AcceptedRange
  <2>2. \A j \in S : Append(R, e)[j] \in AcceptedRange
    BY Appended
  <2> QED
    BY <2>1, <2>2, <1>1
<1>4. /\ Blocks(R) = SumFunctionOnSet(f, 1 .. n)
      /\ Blocks(Append(R, e)) = SumFunctionOnSet(g, S)
  BY <1>1 DEF Blocks, SumFunction
<1> HIDE DEF f, g, n
<1>5. IsFiniteSet(S) /\ IsFiniteSet(1 .. n)
  BY <1>1, FS_Interval
<1>6. n + 1 \in S /\ S \ {n + 1} = 1 .. n
  BY <1>1
<1> HIDE DEF S
<1>7. /\ SumFunctionOnSet(g, S) \in Int
      /\ SumFunctionOnSet(g, S) = g[n + 1] + SumFunctionOnSet(g, S \ {n + 1})
  BY <1>3, <1>5, <1>6, SumSplits
<1>8. SumFunctionOnSet(g, 1 .. n) = SumFunctionOnSet(f, 1 .. n)
  BY <1>2, <1>5, SumOfSame
<1>9. g[n + 1] \in Int /\ SumFunctionOnSet(g, 1 .. n) \in Int
  <2>1. \A j \in 1 .. n : g[j] \in Int
    BY <1>3, <1>6
  <2> QED
    BY <1>3, <1>5, <1>6, <2>1, SumSplits
<1>10. SumFunctionOnSet(g, S) = g[n + 1] + SumFunctionOnSet(g, 1 .. n)
  BY <1>6, <1>7
<1>11. Blocks(Append(R, e)) = g[n + 1] + Blocks(R)
  BY <1>4, <1>8, <1>10
<1>12. Blocks(R) \in Int
  BY <1>4, <1>8, <1>9
<1> QED
  BY <1>2, <1>9, <1>11, <1>12

LEMMA NewIsCounted == Counted(NewSession) /\ Follows(NewSession)
BY BlocksOfNone, InstanceOK
   DEF NewSession, Counted, Follows, WithinLimits, Terminal, Ended

\* Giving up counts as one more revision.
LEMMA TerminatedIsCounted ==
    ASSUME NEW s \in Session, NEW state \in Terminal, NEW reason \in Reason,
           s.state = "pending", Counted(s), Follows(s)
    PROVE  /\ Counted(Terminated(s, state, reason))
           /\ Follows(Terminated(s, state, reason))
<1> DEFINE new == Terminated(s, state, reason)
<1>1. /\ new.state = state /\ new.ranges = s.ranges /\ new.blocks = s.blocks
      /\ new.retries = s.retries /\ new.revision = s.revision + 1
  BY DEF Terminated, Session
<1>2. s.revision \in Nat /\ s.retries \in Nat /\ Len(s.ranges) \in Nat
  BY DEF Session
<1>3. state \notin {"absent", "pending"} /\ s.state \notin Terminal /\ ~Ended(s.ranges)
  BY DEF Terminal, Follows
<1> HIDE DEF new
<1> QED
  BY <1>1, <1>2, <1>3 DEF Counted, Follows, WithinLimits, new

\* So does a retry.
LEMMA RetriedIsCounted ==
    ASSUME InstanceOK, NEW s \in Session, s.state = "pending", Counted(s), Follows(s),
           s.retries < Limits.retries
    PROVE  /\ Counted([s EXCEPT !.revision = @ + 1, !.retries = @ + 1])
           /\ Follows([s EXCEPT !.revision = @ + 1, !.retries = @ + 1])
<1> DEFINE new == [s EXCEPT !.revision = @ + 1, !.retries = @ + 1]
<1>1. /\ new.state = s.state /\ new.ranges = s.ranges /\ new.blocks = s.blocks
      /\ new.retries = s.retries + 1 /\ new.revision = s.revision + 1
  BY DEF Session
<1>2. /\ s.revision \in Nat /\ s.retries \in Nat /\ Len(s.ranges) \in Nat
      /\ Limits.retries \in Nat
  BY InstanceOK DEF Session
<1> HIDE DEF new
<1>3. Counted(new) /\ Follows(new)
  BY <1>1, <1>2 DEF Counted, Follows, WithinLimits, Terminal
<1> QED
  BY <1>3 DEF new

\* So does a range, whether it closes the operation or not.
LEMMA ExtendedIsCounted ==
    ASSUME InstanceOK, NEW s \in Session, NEW row \in StagedRow, Acceptable(s, row),
           Counted(s), Follows(s)
    PROVE  /\ Counted(Extended(s, row))
           /\ Follows(Extended(s, row))
           /\ s.ranges \in Seq(AcceptedRange) /\ RangeOf(row) \in AcceptedRange
           /\ Extended(s, row).ranges = Append(s.ranges, RangeOf(row))
<1> DEFINE e == RangeOf(row)
           new == Extended(s, row)
           R == s.ranges
<1>1. R \in Seq(AcceptedRange) /\ s.revision \in Nat /\ s.retries \in Nat /\ s.blocks \in Nat
  BY DEF Session
<1>2. /\ e \in AcceptedRange /\ e.next = row.response.next
      /\ e.report = row.response.report
  BY DEF RangeOf, AcceptedRange, Response, StagedRow
<1>3. /\ new.ranges = Append(R, e)
      /\ new.revision = s.revision + 1
      /\ new.retries = s.retries
      /\ new.blocks = s.blocks + row.response.report.blocks
      /\ row.response.next = Over => new.state \in Terminal
      /\ row.response.next # Over => new.state = "pending"
  BY DEF Extended, Session, Terminal
<1>4. s.state = "pending" /\ WithinLimits(new)
  BY DEF Acceptable
<1> HIDE DEF e, new
<1>5. Len(R) \in Nat /\ Len(new.ranges) = Len(R) + 1 /\ new.ranges[Len(R) + 1] = e
  BY <1>1, <1>2, <1>3, Appended
<1>6. Ended(new.ranges) <=> row.response.next = Over
  <2>1. new.ranges # <<>>
    BY <1>1, <1>2, <1>3, Appended
  <2> QED
    BY <1>2, <1>5, <2>1 DEF Ended
<1>7. "pending" \notin Terminal /\ "absent" \notin Terminal
  BY DEF Terminal
<1>8. new.revision = Len(new.ranges) + new.retries
          + (IF new.state \in Terminal /\ ~Ended(new.ranges) THEN 1 ELSE 0)
  <2>1. s.revision = Len(R) + s.retries
    BY <1>1, <1>4, <1>5, <1>7 DEF Counted
  <2>2. ~(new.state \in Terminal /\ ~Ended(new.ranges))
    BY <1>3, <1>6, <1>7
  <2> QED
    BY <1>1, <1>3, <1>5, <2>1, <2>2
<1>9. Counted(new)
  <2>1. new.blocks = Blocks(new.ranges)
    BY <1>1, <1>2, <1>3, BlocksAppended DEF Counted
  <2>2. new.retries <= Limits.retries
    BY <1>3 DEF Counted
  <2> QED
    BY <1>4, <1>8, <2>1, <2>2 DEF Counted
<1>10. Follows(new)
  <2>1. \A j \in 1 .. Len(R) : R[j].next # Over
    <3>1. ~Ended(R) /\ \A j \in 1 .. Len(R) - 1 : R[j].next # Over
      BY <1>4 DEF Follows
    <3>2. Len(R) \in 1 .. Len(R) => R[Len(R)].next # Over
      BY <1>1, <1>5, <3>1 DEF Ended
    <3> QED
      BY <1>5, <3>1, <3>2
  <2>2. \A j \in 1 .. Len(new.ranges) - 1 : new.ranges[j].next # Over
    BY <1>1, <1>2, <1>3, <1>5, <2>1, Appended
  <2>3. new.state \in {"absent", "pending"} => ~Ended(new.ranges)
    BY <1>3, <1>6, <1>7
  <2> QED
    BY <2>2, <2>3 DEF Follows
<1> QED
  BY <1>1, <1>2, <1>3, <1>9, <1>10 DEF e, new

-----------------------------------------------------------------------------
(* Staged rows and ranges                                                  *)

AcceptedIn(rows) == {i \in DOMAIN rows : rows[i].status = "accepted"}

\* Each key is staged once, and the accepted rows are the ranges.
Matched(rows, R) ==
    /\ \A i, k \in DOMAIN rows : rows[i].key = rows[k].key => i = k
    /\ Cardinality(AcceptedIn(rows)) = Len(R)
    /\ \A i \in AcceptedIn(rows) : \E j \in DOMAIN R : R[j] = RangeOf(rows[i])

\* A row with a key of its own leaves the accepted ones as they are.
LEMMA StagedIsMatched ==
    ASSUME NEW rows \in Seq(StagedRow), NEW R, NEW row, Matched(rows, R),
           row.status = "staged", \A i \in DOMAIN rows : rows[i].key # row.key
    PROVE  Matched(Append(rows, row), R)
<1> DEFINE n == Len(rows)
           new == Append(rows, row)
<1>1. /\ n \in Nat /\ DOMAIN rows = 1 .. n /\ DOMAIN new = 1 .. n + 1
      /\ \A i \in 1 .. n : new[i] = rows[i]
      /\ new[n + 1] = row
  OBVIOUS
<1> HIDE DEF new
<1>2. ASSUME NEW i \in DOMAIN new
      PROVE  \/ i \in DOMAIN rows /\ new[i] = rows[i]
             \/ i = n + 1 /\ new[i] = row
  BY <1>1
<1>3. AcceptedIn(new) = AcceptedIn(rows)
  <2>1. \A i : i \in AcceptedIn(new) <=> i \in AcceptedIn(rows)
    BY <1>1, <1>2 DEF AcceptedIn
  <2> QED
    BY <2>1
<1>4. \A i, k \in DOMAIN new : new[i].key = new[k].key => i = k
  BY <1>2 DEF Matched
<1>5. \A i \in AcceptedIn(rows) : new[i] = rows[i]
  BY <1>1 DEF AcceptedIn
<1>6. Matched(new, R)
  BY <1>3, <1>4, <1>5 DEF Matched
<1> QED
  BY <1>6 DEF new

\* A row that becomes a range is one more of both.
LEMMA AcceptedIsMatched ==
    ASSUME NEW rows \in Seq(StagedRow), NEW R \in Seq(AcceptedRange), Matched(rows, R),
           NEW i \in DOMAIN rows, rows[i].status = "staged",
           RangeOf(rows[i]) \in AcceptedRange
    PROVE  Matched([rows EXCEPT ![i].status = "accepted"], Append(R, RangeOf(rows[i])))
<1> DEFINE new == [rows EXCEPT ![i].status = "accepted"]
           e == RangeOf(rows[i])
           S == Append(R, e)
<1>1. /\ Len(rows) \in Nat /\ DOMAIN rows = 1 .. Len(rows)
      /\ rows[i] \in StagedRow
  OBVIOUS
<1>2. /\ DOMAIN new = DOMAIN rows
      /\ \A k \in DOMAIN rows : k # i => new[k] = rows[k]
      /\ new[i] = [rows[i] EXCEPT !.status = "accepted"]
  OBVIOUS
<1>3. /\ new[i].key = rows[i].key
      /\ new[i].status = "accepted"
      /\ RangeOf(new[i]) = e
  BY <1>1, <1>2 DEF StagedRow, RangeOf
<1>4. /\ Len(S) = Len(R) + 1 /\ S[Len(R) + 1] = e
      /\ DOMAIN S = 1 .. Len(R) + 1 /\ DOMAIN R = 1 .. Len(R) /\ Len(R) \in Nat
      /\ \A j \in 1 .. Len(R) : S[j] = R[j]
  BY Appended
<1> HIDE DEF new, S
<1>5. i \notin AcceptedIn(rows) /\ AcceptedIn(new) = AcceptedIn(rows) \cup {i}
  <2>1. \A k : k \in AcceptedIn(new) <=> k \in AcceptedIn(rows) \/ k = i
    BY <1>2, <1>3 DEF AcceptedIn
  <2> QED
    BY <2>1 DEF AcceptedIn
<1>6. Cardinality(AcceptedIn(new)) = Len(S)
  <2>1. IsFiniteSet(AcceptedIn(rows))
    <3>1. IsFiniteSet(1 .. Len(rows))
      BY <1>1, FS_Interval
    <3> QED
      BY <1>1, <3>1, FS_Subset DEF AcceptedIn
  <2>2. Cardinality(AcceptedIn(rows) \cup {i}) = Cardinality(AcceptedIn(rows)) + 1
    BY <1>5, <2>1, FS_AddElement
  <2> QED
    BY <1>4, <1>5, <2>2 DEF Matched
<1>7. \A k, m \in DOMAIN new : new[k].key = new[m].key => k = m
  <2>1. \A k \in DOMAIN rows : new[k].key = rows[k].key
    BY <1>2, <1>3
  <2> QED
    BY <1>2, <2>1 DEF Matched
<1>8. ASSUME NEW k \in AcceptedIn(new)
      PROVE  \E j \in DOMAIN S : S[j] = RangeOf(new[k])
  <2>1. CASE k = i
    BY <1>3, <1>4, <2>1
  <2>2. CASE k # i
    <3>1. k \in AcceptedIn(rows) /\ new[k] = rows[k]
      BY <1>2, <1>5, <2>2 DEF AcceptedIn
    <3>2. PICK j \in DOMAIN R : R[j] = RangeOf(rows[k])
      BY <3>1 DEF Matched
    <3> QED
      BY <1>4, <3>1, <3>2
  <2> QED
    BY <2>1, <2>2
<1>9. Matched(new, S)
  BY <1>6, <1>7, <1>8 DEF Matched
<1> QED
  BY <1>9 DEF new, S

Books == Matched(staged, session.ranges) /\ Counted(session) /\ Follows(session)

LEMMA BooksStay ==
    ASSUME IndInv, Books, RowsChange PROVE Books'
<1> USE DEF IndInv, Books
<1>1. session \in Session /\ session.ranges \in Seq(AcceptedRange)
  BY DEF Session
<1>2. CASE UNCHANGED <<session, staged>>
  BY <1>2 DEF Matched, AcceptedIn, Counted, Follows, WithinLimits
<1>3. ASSUME staged' = staged, session.state = "absent", session' = NewSession
      PROVE  Books'
  <2>1. session'.ranges = session.ranges
    BY <1>3 DEF Unbroken, NewSession
  <2> QED
    BY <1>3, <2>1, NewIsCounted
<1>4. ASSUME staged' = staged, session.state = "pending",
             NEW state \in Terminal \ {"completed"}, NEW reason \in Reason,
             session' = Terminated(session, state, reason)
      PROVE  Books'
  <2>1. session'.ranges = session.ranges
    BY <1>1, <1>4 DEF Terminated, Session
  <2> QED
    BY <1>1, <1>4, <2>1, TerminatedIsCounted
<1>5. ASSUME staged' = staged, session.state = "pending", session.retries < Limits.retries,
             session' = [session EXCEPT !.revision = @ + 1, !.retries = @ + 1]
      PROVE  Books'
  <2>1. session'.ranges = session.ranges
    BY <1>1, <1>5 DEF Session
  <2> QED
    BY <1>1, <1>5, <2>1, RetriedIsCounted, InstanceOK
<1>6. ASSUME session' = session, NEW row, row.status = "staged",
             \A i \in DOMAIN staged : staged[i].key # row.key,
             staged' = Append(staged, row)
      PROVE  Books'
  BY <1>6, StagedIsMatched
<1>7. ASSUME NEW i \in DOMAIN staged, staged[i].status = "staged",
             Acceptable(session, staged[i]), session' = Extended(session, staged[i]),
             staged' = [staged EXCEPT ![i].status = "accepted"]
      PROVE  Books'
  <2>1. staged[i] \in StagedRow
    OBVIOUS
  <2>2. PICK row \in StagedRow : row = staged[i]
    BY <2>1
  <2>3. /\ Counted(Extended(session, row)) /\ Follows(Extended(session, row))
        /\ RangeOf(row) \in AcceptedRange
        /\ Extended(session, row).ranges = Append(session.ranges, RangeOf(row))
    BY <1>1, <1>7, <2>2, ExtendedIsCounted, InstanceOK
  <2>4. Matched(staged', Append(session.ranges, RangeOf(row)))
    BY <1>1, <1>7, <2>2, <2>3, AcceptedIsMatched
  <2> QED
    BY <1>7, <2>2, <2>3, <2>4
<1> QED
  BY <1>2, <1>3, <1>4, <1>5, <1>6, <1>7 DEF RowsChange

LEMMA BooksKept == ASSUME InstanceOK PROVE Spec => []Books
<1>1. Init => Books
  <2> SUFFICES ASSUME Init PROVE Books
    OBVIOUS
  <2>1. /\ session.ranges = <<>> /\ session.state = "absent" /\ session.revision = 0
        /\ session.retries = 0 /\ session.blocks = 0
    BY DEF Init, NewSession
  <2>2. Counted(session) /\ Follows(session)
    BY <2>1, BlocksOfNone, InstanceOK DEF Counted, Follows, WithinLimits, Terminal, Ended
  <2>3. AcceptedIn(staged) = {} /\ DOMAIN staged = {}
    BY DEF Init, AcceptedIn
  <2>4. Matched(staged, session.ranges)
    BY <2>1, <2>3, FS_EmptySet DEF Matched
  <2> QED
    BY <2>2, <2>4 DEF Books
<1>2. IndInv /\ Books /\ [Next]_vars => Books'
  BY StepChangesRows, BooksStay
<1> QED
  BY <1>1, <1>2, Invariance, PTL DEF Spec

\* In whatever order threads stage, die, retry, give up and reconcile, the
\* accepted rows are the ranges, one for one, the revision and the counters tell
\* the history, and no budget is exceeded.
THEOREM HistoryIsAccounted == ASSUME InstanceOK PROVE Spec => []Accounted
<1>1. Books => Accounted
  BY DEF Books, Matched, AcceptedIn, Counted, Blocks, Ended, Accounted
<1> QED
  BY <1>1, BooksKept, PTL

-----------------------------------------------------------------------------
(* Coverage                                                                *)

\* The coverage kept with the operation tells of all its ranges: each omission,
\* the worst OCR and the last loss.
Tells(coverage, R) ==
    /\ coverage.omissions = OmittedIn(R)
    /\ coverage.ocr \in OcrIn(R) /\ \A o \in OcrIn(R) : o <= coverage.ocr
    /\ LossyIn(R) = {} => coverage.disposition = "complete"
    /\ LossyIn(R) # {} => \E j \in LossyIn(R) :
            /\ coverage.disposition = R[j].report.disposition
            /\ \A k \in LossyIn(R) : k <= j

\* Once closed, an operation tells the coverage of its ranges, or that it was
\* abandoned.
Closes(s) ==
    /\ s.state = "completed" <=> Ended(s.ranges) /\ LossyIn(s.ranges) = {}
    /\ s.state \in Terminal =>
            s.terminal = IF Ended(s.ranges) THEN s.coverage
                         ELSE TerminalCoverage(s, s.reason)

LEMMA TellsAppended ==
    ASSUME InstanceOK, NEW R \in Seq(AcceptedRange), NEW row \in StagedRow,
           NEW coverage \in Coverage, Tells(coverage, R),
           RangeOf(row) \in AcceptedRange
    PROVE  Tells(Accumulate(coverage, row.response), Append(R, RangeOf(row)))
<1> DEFINE e == RangeOf(row)
           S == Append(R, e)
           n == Len(R)
           new == Accumulate(coverage, row.response)
           r == row.response.report
<1>1. /\ n \in Nat /\ Len(S) = n + 1
      /\ \A j \in 1 .. n : S[j] = R[j]
      /\ S[n + 1] = e
  BY Appended
<1>2. e.report = r /\ e.next = row.response.next
  BY DEF RangeOf
<1>3. r \in Reports /\ r.disposition \in Disposition /\ r.ocr \in Nat
  BY <1>2, InstanceOK DEF AcceptedRange, Ocr
<1>4. /\ new.omissions = coverage.omissions \cup r.omissions
      /\ new.ocr = IF r.ocr > coverage.ocr THEN r.ocr ELSE coverage.ocr
      /\ new.disposition =
            IF \/ r.disposition \in {"unsupported", "partial_unknown"}
               \/ r.disposition = "partial_known" /\ row.response.next = Over
            THEN r.disposition ELSE coverage.disposition
  BY DEF Accumulate
<1>5. coverage.ocr \in Nat
  BY DEF Coverage, Ocr
<1> HIDE DEF e, S, n, new, r
<1>6. DOMAIN R = 1 .. n /\ DOMAIN S = 1 .. n \cup {n + 1}
  BY Appended DEF n, S, e
<1>7. \A j \in 1 .. n : S[j].report = R[j].report /\ S[j].next = R[j].next
  BY <1>1
<1>8. n + 1 \notin 1 .. n /\ S[n + 1].report = r /\ S[n + 1].next = row.response.next
  BY <1>1, <1>2
<1>9. new.omissions = OmittedIn(S)
  <2>1. \A o : o \in OmittedIn(S) <=> o \in OmittedIn(R) \/ o \in r.omissions
    BY <1>6, <1>7, <1>8 DEF OmittedIn
  <2> QED
    BY <1>4, <2>1 DEF Tells
<1>10. new.ocr \in OcrIn(S) /\ \A o \in OcrIn(S) : o <= new.ocr
  <2>1. OcrIn(S) = OcrIn(R) \cup {r.ocr}
    <3>1. \A o \in OcrIn(S) : o \in OcrIn(R) \/ o = r.ocr
      BY <1>6, <1>7, <1>8 DEF OcrIn
    <3>2. \A o \in OcrIn(R) : o \in OcrIn(S)
      BY <1>6, <1>7, <1>8 DEF OcrIn
    <3>3. r.ocr \in OcrIn(S)
      BY <1>6, <1>7, <1>8 DEF OcrIn
    <3> QED
      BY <3>1, <3>2, <3>3
  <2>2. OcrIn(R) \subseteq Nat
    <3>1. \A j \in 1 .. n : R[j] \in AcceptedRange
      BY Appended DEF n
    <3>2. \A q \in AcceptedRange : q.report.ocr \in Nat
      BY InstanceOK DEF AcceptedRange, Ocr
    <3> QED
      BY <1>6, <3>1, <3>2 DEF OcrIn
  <2>3. coverage.ocr \in OcrIn(R) /\ \A o \in OcrIn(R) : o <= coverage.ocr
    BY DEF Tells
  <2>4. CASE r.ocr > coverage.ocr
    <3>1. new.ocr = r.ocr
      BY <1>4, <2>4
    <3>2. \A o \in OcrIn(R) : o <= r.ocr
      BY <1>3, <1>5, <2>2, <2>3, <2>4
    <3> QED
      BY <1>3, <2>1, <3>1, <3>2
  <2>5. CASE ~(r.ocr > coverage.ocr)
    <3>1. new.ocr = coverage.ocr /\ r.ocr <= coverage.ocr
      BY <1>3, <1>4, <1>5, <2>5
    <3> QED
      BY <2>1, <2>3, <3>1
  <2> QED
    BY <2>4, <2>5
<1> DEFINE lossy == \/ r.disposition \in {"unsupported", "partial_unknown"}
                    \/ r.disposition = "partial_known" /\ row.response.next = Over
<1>11. LossyIn(S) = LossyIn(R) \cup (IF lossy THEN {n + 1} ELSE {})
  <2>1. \A j : j \in LossyIn(S) <=> j \in LossyIn(R) \/ (lossy /\ j = n + 1)
    BY <1>6, <1>7, <1>8 DEF LossyIn
  <2> QED
    BY <2>1
<1>12. LossyIn(R) \subseteq 1 .. n
  BY <1>6 DEF LossyIn
<1>13. LossyIn(S) = {} => new.disposition = "complete"
  BY <1>4, <1>11 DEF Tells
<1>14. ASSUME LossyIn(S) # {}
       PROVE  \E j \in LossyIn(S) :
                 /\ new.disposition = S[j].report.disposition
                 /\ \A k \in LossyIn(S) : k <= j
  <2>1. CASE lossy
    <3>1. n + 1 \in LossyIn(S) /\ new.disposition = S[n + 1].report.disposition
      BY <1>4, <1>8, <1>11, <2>1
    <3>2. \A k \in LossyIn(S) : k <= n + 1
      BY <1>1, <1>11, <1>12
    <3> QED
      BY <3>1, <3>2
  <2>2. CASE ~lossy
    <3>1. LossyIn(S) = LossyIn(R) /\ new.disposition = coverage.disposition
      BY <1>4, <1>11, <2>2
    <3>2. PICK j \in LossyIn(R) : /\ coverage.disposition = R[j].report.disposition
                                  /\ \A k \in LossyIn(R) : k <= j
      BY <1>14, <3>1 DEF Tells
    <3> QED
      BY <1>7, <1>12, <3>1, <3>2
  <2> QED
    BY <2>1, <2>2
<1>15. Tells(new, S)
  BY <1>9, <1>10, <1>13, <1>14 DEF Tells
<1> QED
  BY <1>15 DEF new, S, e

\* The row, and the receipt with it.
Told ==
    /\ receipt = ReceiptOf(session)
    /\ Tells(session.coverage, session.ranges)
    /\ Closes(session)

LEMMA NewTells ==
    Tells(NewSession.coverage, <<>>) /\ Closes(NewSession)
<1>1. LossyIn(<<>>) = {} /\ OmittedIn(<<>>) = {} /\ OcrIn(<<>>) = {0} /\ ~Ended(<<>>)
  BY DEF LossyIn, OmittedIn, OcrIn, Ended
<1>2. /\ NewSession.ranges = <<>> /\ NewSession.state = "pending"
      /\ NewSession.coverage = [disposition |-> "complete", omissions |-> {}, ocr |-> 0]
  BY DEF NewSession
<1> QED
  BY <1>1, <1>2 DEF Tells, Closes, Terminal

LEMMA TerminatedTells ==
    ASSUME NEW s \in Session, NEW state \in Terminal \ {"completed"},
           NEW reason \in Reason, s.state = "pending", Follows(s),
           Tells(s.coverage, s.ranges)
    PROVE  LET new == Terminated(s, state, reason)
           IN  Tells(new.coverage, new.ranges) /\ Closes(new)
<1> DEFINE new == Terminated(s, state, reason)
<1>1. /\ new.state = state /\ new.ranges = s.ranges /\ new.coverage = s.coverage
      /\ new.reason = reason /\ new.terminal = TerminalCoverage(s, reason)
  BY DEF Terminated, Session
<1>2. ~Ended(s.ranges)
  BY DEF Follows
<1>3. TerminalCoverage(new, reason) = TerminalCoverage(s, reason)
  BY <1>1 DEF TerminalCoverage
<1> HIDE DEF new
<1>4. Tells(new.coverage, new.ranges) /\ Closes(new)
  BY <1>1, <1>2, <1>3 DEF Closes
<1> QED
  BY <1>4 DEF new

LEMMA ExtendedTells ==
    ASSUME InstanceOK, NEW s \in Session, NEW row \in StagedRow, Acceptable(s, row),
           Follows(s), Counted(s), Tells(s.coverage, s.ranges)
    PROVE  LET new == Extended(s, row)
           IN  Tells(new.coverage, new.ranges) /\ Closes(new)
<1> DEFINE new == Extended(s, row)
           e == RangeOf(row)
           r == row.response.report
           c == Accumulate(s.coverage, row.response)
           S == Append(s.ranges, e)
<1>1. /\ s.ranges \in Seq(AcceptedRange) /\ e \in AcceptedRange
      /\ new.ranges = S
  BY ExtendedIsCounted
<1>2. /\ new.coverage = c
      /\ new.terminal = (IF row.response.next = Over THEN c ELSE NoCoverage)
      /\ new.state = (IF row.response.next # Over THEN "pending"
                      ELSE IF r.disposition = "complete" /\ c.disposition = "complete"
                      THEN "completed" ELSE "failed")
  BY DEF Extended, Session
<1>3. s.coverage \in Coverage
  BY DEF Session
<1>4. Tells(c, S)
  BY <1>1, <1>3, TellsAppended
<1>5. /\ Len(S) = Len(s.ranges) + 1 /\ Len(s.ranges) \in Nat
      /\ S[Len(S)] = e /\ S # <<>> /\ Len(S) \in 1 .. Len(S)
      /\ \A j \in 1 .. Len(S) - 1 : S[j].next # Over
  <2>1. Follows(new)
    BY ExtendedIsCounted
  <2>2. \A j \in 1 .. Len(S) - 1 : S[j].next # Over
    BY <1>1, <2>1 DEF Follows
  <2> QED
    BY <1>1, <2>2, Appended
<1>6. e.report = r /\ e.next = row.response.next /\ r.disposition \in Disposition
  <2>1. e.report = r /\ e.next = row.response.next
    BY DEF RangeOf
  <2> QED
    BY <1>1, <2>1, InstanceOK DEF AcceptedRange
<1> HIDE DEF new, e, r, c, S
<1>7. Ended(S) <=> row.response.next = Over
  BY <1>5, <1>6 DEF Ended
<1>8. ASSUME Ended(S)
      PROVE  LossyIn(S) = {} <=> r.disposition = "complete" /\ c.disposition = "complete"
  <2>1. LossyIn(S) = {} => r.disposition = "complete" /\ c.disposition = "complete"
    <3>1. ASSUME LossyIn(S) = {} PROVE r.disposition = "complete"
      <4>1. Len(S) \notin LossyIn(S)
        BY <3>1
      <4> QED
        BY <1>5, <1>6, <1>7, <1>8, <4>1 DEF LossyIn, Disposition
    <3> QED
      BY <1>4, <3>1 DEF Tells
  <2>2. ASSUME LossyIn(S) # {} PROVE c.disposition # "complete"
    <3>1. PICK j \in LossyIn(S) : c.disposition = S[j].report.disposition
      BY <1>4, <2>2 DEF Tells
    <3> QED
      BY <3>1 DEF LossyIn
  <2> QED
    BY <2>1, <2>2
<1>9. Closes(new)
  BY <1>1, <1>2, <1>7, <1>8 DEF Closes, Terminal
<1>10. Tells(new.coverage, new.ranges)
  BY <1>1, <1>2, <1>4
<1> QED
  BY <1>9, <1>10 DEF new

\* Every step that writes the row writes the receipt.
LEMMA ReceiptWritten ==
    ASSUME [Next]_vars PROVE UNCHANGED <<session, receipt>> \/ receipt' = ReceiptOf(session')
BY DEF Next, vars, KernelReturns, Create, ExecuteNext, KernelFails, SourceTooLarge,
   StageRange, AcceptStaged, Reconcile, GiveUp, RecordRetry, Die, Write

LEMMA ToldStays ==
    ASSUME IndInv, Books, Told, [Next]_vars PROVE Told'
<1> DEFINE Kept(s) == Tells(s.coverage, s.ranges) /\ Closes(s)
<1>1. session \in Session /\ Follows(session) /\ Counted(session) /\ Kept(session)
  BY DEF IndInv, Books, Told
<1>2. Kept(session')
  <2>1. CASE session' = session
    BY <1>1, <2>1
  <2>2. CASE session.state = "absent" /\ session' = NewSession
    <3>1. NewSession.ranges = <<>>
      BY DEF NewSession
    <3> QED
      BY <2>2, <3>1, NewTells
  <2>3. ASSUME session.state = "pending",
               NEW state \in Terminal \ {"completed"}, NEW reason \in Reason,
               session' = Terminated(session, state, reason)
        PROVE  Kept(session')
    BY <1>1, <2>3, TerminatedTells
  <2>4. ASSUME NEW row \in StagedRow, Acceptable(session, row),
               session' = Extended(session, row)
        PROVE  Kept(session')
    BY <1>1, <2>4, ExtendedTells, InstanceOK
  <2>5. ASSUME session.state = "pending",
               session' = [session EXCEPT !.revision = @ + 1, !.retries = @ + 1]
        PROVE  Kept(session')
    <3>1. /\ session'.state = session.state /\ session'.ranges = session.ranges
          /\ session'.coverage = session.coverage
      BY <1>1, <2>5 DEF Session
    <3> QED
      BY <1>1, <2>5, <3>1 DEF Closes, Terminal
  <2> HIDE DEF Kept
  <2> QED
    BY <2>1, <2>2, <2>3, <2>4, <2>5, StepChangesSession, InstanceOK DEF SessionChanges
<1>3. receipt' = ReceiptOf(session')
  BY ReceiptWritten DEF Told, ReceiptOf
<1> QED
  BY <1>2, <1>3 DEF Told

LEMMA ToldKept == ASSUME InstanceOK PROVE Spec => []Told
<1>1. Init => Told
  <2> SUFFICES ASSUME Init PROVE Told
    OBVIOUS
  <2>1. /\ session.ranges = <<>> /\ session.state = "absent"
        /\ session.coverage = NewSession.coverage
    BY DEF Init, NewSession
  <2>2. receipt = ReceiptOf(session)
    BY <2>1 DEF Init, ReceiptOf, Terminal
  <2>3. Closes(session)
    BY <2>1 DEF Closes, Terminal, Ended
  <2> QED
    BY <2>1, <2>2, <2>3, NewTells DEF Told
<1>2. IndInv /\ Books /\ Told /\ [Next]_vars => Told'
  BY ToldStays
<1> QED
  BY <1>1, <1>2, Invariance, BooksKept, PTL DEF Spec

\* The greatest of a set of numbers is the one no other exceeds.
LEMMA MaxIs ==
    ASSUME NEW S \in SUBSET Nat, NEW m \in S, \A x \in S : x <= m
    PROVE  Max(S) = m
<1>1. m \in S /\ \A y \in S : m >= y
  OBVIOUS
<1>2. Max(S) \in S /\ \A y \in S : Max(S) >= y
  BY <1>1 DEF Max
<1>3. Max(S) \in Nat /\ m \in Nat /\ m <= Max(S) /\ Max(S) <= m
  BY <1>2
<1> QED
  BY <1>3

\* What a receipt tells of coverage is true of the ranges, in whatever order
\* losses came in and whoever closed the operation: completed means the source
\* is covered and nothing was lost, and an abandoned one never looks complete.
THEOREM CoverageIsTold == ASSUME InstanceOK PROVE Spec => []CoverageTold
<1>1. IndInv /\ Books /\ Told => CoverageTold
  <2> SUFFICES ASSUME IndInv, Books, Told PROVE CoverageTold
    OBVIOUS
  <2> DEFINE R == session.ranges
  <2>1. /\ session \in Session /\ session.coverage \in Coverage
        /\ DOMAIN R = 1 .. Len(R)
        /\ \A j \in DOMAIN R : R[j] \in AcceptedRange
    BY DEF IndInv, Session
  <2>2. /\ receipt = ReceiptOf(session) /\ Tells(session.coverage, R)
        /\ session.state = "completed" <=> Ended(R) /\ LossyIn(R) = {}
        /\ session.state \in Terminal =>
              session.terminal = IF Ended(R) THEN session.coverage
                                 ELSE TerminalCoverage(session, session.reason)
    BY DEF Told, Closes
  <2>3. session.coverage.ocr = Max(OcrIn(R))
    <3>1. OcrIn(R) \in SUBSET Nat
      <4>1. \A q \in AcceptedRange : q.report.ocr \in Nat
        BY InstanceOK DEF AcceptedRange, Ocr
      <4> QED
        BY <2>1, <4>1 DEF OcrIn
    <3>2. session.coverage.ocr \in OcrIn(R) /\ \A o \in OcrIn(R) : o <= session.coverage.ocr
      BY <2>2 DEF Tells
    <3> QED
      BY <3>1, <3>2, MaxIs
  <2>4. LossyIn(R) # {} => session.coverage.disposition = R[Max(LossyIn(R))].report.disposition
    <3>1. LossyIn(R) \in SUBSET Nat
      BY <2>1 DEF LossyIn
    <3> QED
      BY <2>2, <3>1, MaxIs DEF Tells
  <2>5. ASSUME session.state \in Terminal
        PROVE  /\ session.terminal.ocr = Max(OcrIn(R))
               /\ session.terminal.disposition =
                     IF ~Ended(R) THEN "partial_unknown"
                     ELSE IF LossyIn(R) = {} THEN "complete"
                     ELSE R[Max(LossyIn(R))].report.disposition
               /\ session.terminal.omissions = OmittedIn(R) \cup
                     (IF Ended(R) THEN {} ELSE {TerminalOmission(session.reason)})
    <3>1. CASE Ended(R)
      BY <2>2, <2>3, <2>4, <2>5, <3>1 DEF Tells
    <3>2. CASE ~Ended(R)
      <4>1. /\ session.terminal.ocr = session.coverage.ocr
            /\ session.terminal.disposition = "partial_unknown"
            /\ session.terminal.omissions =
                  session.coverage.omissions \cup {TerminalOmission(session.reason)}
        BY <2>1, <2>2, <2>5, <3>2 DEF TerminalCoverage, Coverage
      <4> QED
        BY <2>2, <2>3, <3>2, <4>1 DEF Tells
    <3> QED
      BY <3>1, <3>2
  <2> QED
    BY <2>2, <2>5 DEF CoverageTold
<1> QED
  BY <1>1, Invariance, BooksKept, ToldKept, PTL
=============================================================================
