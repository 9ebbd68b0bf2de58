------------------------ MODULE DynamicDispatch_proofs ------------------------
(***************************************************************************)
(* Theorems about governed dispatches, for every plan, policy and output,  *)
(* any number of workers and of deaths.                                    *)
(*                                                                         *)
(* Workers write a verdict they reached from what they read before.  The   *)
(* invariant says, for each activation, what its status tells of executor  *)
(* calls and of workers on their way, and for each worker, what its place  *)
(* tells of the calls made.  Of the parent workflow it takes the way its   *)
(* operations change claims and counters (RuntimeWorkflow_proofs), and of  *)
(* its books that they only grow: a dispatch adds the same seconds to two  *)
(* counters and as many edges as it counts.                                *)
(***************************************************************************)
EXTENDS DynamicDispatch, RuntimeWorkflow_proofs

Shapes ==
    /\ Rows
    /\ DOMAIN ended = Step
    /\ DOMAIN activation = DispatchStep
    /\ \A d \in DispatchStep :
            DOMAIN activation[d] = {"status", "cancel", "started", "receipt"}
    /\ DOMAIN worker = Worker
    /\ \A x \in Worker : DOMAIN worker[x] = {"pc", "at", "result", "verdict"}
    /\ executed \in [DispatchStep -> Nat]
    /\ \A i \in DOMAIN claim : claim[i].step \notin DispatchStep

\* A worker is on its way through execute_activation of d.
AtWork(x, d) == worker[x].pc # "idle" /\ worker[x].at = d

\* What an activation's row says of the step and of executor calls.
ActivationOK(d) ==
    /\ activation[d].status = "absent" <=> step[d].state = "pending"
    /\ activation[d].receipt = NoVerdict <=>
            activation[d].status \in
                {"absent", "activated", "executing", "cancellation_requested"}
    /\ activation[d].status \in {"absent", "activated"} =>
            executed[d] = 0 /\ \A x \in Worker : ~AtWork(x, d)
    /\ executed[d] <= 1

\* What the tables say of it: nothing before the receipt, and then what it says.
RecordedOK(d) ==
    LET v == activation[d].receipt
    IN  IF v = NoVerdict
        THEN ended[d] = None /\ \A e \in edge : e.step # d
        ELSE /\ v.occurred => executed[d] = 1
             /\ ended[d] = StepOutcome(v) /\ step[d].state = StepOutcome(v)
             /\ \E e \in edge : e.step = d /\ e.role = "dispatch_receipt"
             /\ v.status = "completed" <=>
                    \E e \in edge : e.step = d /\ e.role = "dispatch_output"

\* What a worker's place says of executor calls.
WorkerOK(x) ==
    LET w == worker[x]
    IN  /\ w.pc \in {"idle", "claimed", "running", "look", "finish"}
        /\ w.pc # "idle" => w.at \in DispatchStep
        /\ w.pc = "claimed" => executed[w.at] = 0
        /\ w.pc \in {"running", "look"} => executed[w.at] = 1
        /\ w.pc = "finish" => w.verdict.status \in Statuses
                              /\ (w.verdict.occurred => executed[w.at] = 1)

OneClaimant ==
    \A x, y \in Worker :
        /\ worker[x].pc = "claimed" /\ worker[y].pc = "claimed"
        /\ worker[x].at = worker[y].at
        => x = y

UnfinishedSteps == {d \in DispatchStep : Unfinished(d)}
ActivatedSteps  == {d \in DispatchStep : activation[d].status # "absent"}

Totals ==
    /\ counters.active_dispatches = Cardinality(UnfinishedSteps)
    /\ counters.dispatch_attempts = Cardinality(ActivatedSteps)
    /\ workflow.receipt = NoReceipt =>
            counters.active_steps =
                Cardinality(UnfinishedSteps) + Cardinality(ActiveClaims(claim))

DispatchInv ==
    /\ Shapes
    /\ \A d \in DispatchStep : ActivationOK(d) /\ RecordedOK(d)
    /\ \A x \in Worker : WorkerOK(x)
    /\ OneClaimant
    /\ Totals

-----------------------------------------------------------------------------
(* Facts                                                                   *)

LEMMA StepOfDispatch == \A d \in DispatchStep : d \in Step
BY DEF DispatchStep

LEMMA Counted ==
    /\ IsFiniteSet(UnfinishedSteps) /\ Cardinality(UnfinishedSteps) \in Nat
    /\ IsFiniteSet(ActivatedSteps) /\ Cardinality(ActivatedSteps) \in Nat
<1>1. IsFiniteSet(DispatchStep)
  BY ConstantsOK, FS_Subset DEF DispatchStep
<1>2. UnfinishedSteps \in SUBSET DispatchStep /\ ActivatedSteps \in SUBSET DispatchStep
  BY DEF UnfinishedSteps, ActivatedSteps
<1>3. IsFiniteSet(UnfinishedSteps) /\ IsFiniteSet(ActivatedSteps)
  BY <1>1, <1>2, FS_Subset
<1>. QED  BY <1>3, FS_CardinalityType

LEMMA ActiveCounted ==
    ASSUME Rows
    PROVE  /\ IsFiniteSet(ActiveClaims(claim))
           /\ Cardinality(ActiveClaims(claim)) \in Nat
<1>1. DOMAIN claim = 1 .. Len(claim) /\ Len(claim) \in Nat
  BY DEF Rows
<1>2. IsFiniteSet(DOMAIN claim)
  BY <1>1, FS_Interval
<1>3. IsFiniteSet(ActiveClaims(claim))
  BY <1>2, FS_Subset DEF ActiveClaims
<1>. QED  BY <1>3, FS_CardinalityType

LEMMA OutcomeOK ==
    ASSUME NEW v, v.status \in Statuses
    PROVE  /\ v # NoVerdict
           /\ StepOutcome(v) \in {"succeeded", "cancelled", "failed"}
BY DEF Statuses, NoVerdict, None, StepOutcome

\* An operation of the workflow leaves the dispatch steps alone, and moves
\* active_steps as the active claims.
LEMMA ChangeFacts ==
    ASSUME Shapes, Change
    PROVE  /\ Rows' /\ ended' = ended
           /\ \A i \in DOMAIN claim' : claim'[i].step \notin DispatchStep
           /\ \A d \in DispatchStep : step'[d] = step[d]
           /\ edge \subseteq edge' /\ \A e \in edge' \ edge : e.step \notin DispatchStep
           /\ counters'.active_dispatches = counters.active_dispatches
           /\ counters'.dispatch_attempts = counters.dispatch_attempts
           /\ workflow.receipt # NoReceipt => workflow'.receipt = workflow.receipt
           /\ workflow'.receipt = NoReceipt =>
                counters'.active_steps - counters.active_steps =
                    Cardinality(ActiveClaims(claim')) - Cardinality(ActiveClaims(claim))
<1>. DEFINE A == ActiveClaims(claim)
<1>0. /\ Rows /\ ended' = ended /\ clock' = clock
      /\ edge \subseteq edge' /\ \A e \in edge' \ edge : e.step \notin DispatchStep
      /\ \A i \in DOMAIN claim : claim[i].step \notin DispatchStep
      /\ IsFiniteSet(A) /\ Cardinality(A) \in Nat
      /\ counters.active_steps \in Int
  BY ActiveCounted DEF Shapes, Change, Rows
<1>1. CASE \E s \in Step : Admits(s)
  <2>1. PICK s \in Step : Admits(s)
    BY <1>1
  <2>2. PICK c \in Claim :
            /\ claim' = Append(claim, c) /\ c.step = s /\ c.status = "active"
    BY <2>1 DEF Admits
  <2>. DEFINE n == Len(claim) + 1
  <2>3. /\ claim' \in Seq(Claim) /\ n \in Nat
        /\ DOMAIN claim' = DOMAIN claim \cup {n} /\ n \notin DOMAIN claim
        /\ claim'[n] = c /\ \A k \in DOMAIN claim : claim'[k] = claim[k]
    BY <1>0, <2>2 DEF Rows
  <2>4. ActiveClaims(claim') = A \cup {n} /\ n \notin A
    BY <2>2, <2>3 DEF ActiveClaims
  <2>5. Cardinality(ActiveClaims(claim')) = Cardinality(A) + 1
    BY <1>0, <2>4, FS_AddElement
  <2>6. /\ s \notin DispatchStep
        /\ step' = [step EXCEPT ![s] = [state |-> "running", attempts |-> @.attempts + 1]]
        /\ Counts(counters', counters.active_steps + 1)
        /\ DOMAIN workflow' = {"state", "receipt"} /\ workflow'.receipt = workflow.receipt
    BY <2>1 DEF Admits, GoesOn
  <2>7. /\ \A d \in DispatchStep : step'[d] = step[d]
        /\ step' \in [Step -> [state : StepStates, attempts : Nat]]
    <3>1. step[s] \in [state : StepStates, attempts : Nat]
      BY <1>0 DEF Rows
    <3>. QED  BY <1>0, <2>6, <3>1, StepOfDispatch DEF Rows, StepStates
  <2>8. Rows'
    BY <1>0, <2>3, <2>6, <2>7 DEF Rows, Counts
  <2>9. \A i \in DOMAIN claim' : claim'[i].step \notin DispatchStep
    BY <1>0, <2>2, <2>3, <2>6
  <2>. QED  BY <1>0, <2>5, <2>6, <2>7, <2>8, <2>9 DEF Counts
<1>2. CASE \E I \in SUBSET DOMAIN claim : Rejects(I)
  <2>1. PICK I \in SUBSET DOMAIN claim : Rejects(I)
    BY <1>2
  <2>2. /\ I \subseteq A /\ Carries(claim') /\ step' = Reopened(I)
        /\ Counts(counters', counters.active_steps - Cardinality(I))
        /\ DOMAIN workflow' = {"state", "receipt"} /\ workflow'.receipt = workflow.receipt
    BY <2>1 DEF Rejects, GoesOn
  <2>3. /\ DOMAIN claim' = DOMAIN claim /\ claim' \in Seq(Claim)
        /\ \A k \in DOMAIN claim : claim'[k].step = claim[k].step
    BY <1>0, <2>2 DEF Carries, Rows
  <2>4. ActiveClaims(claim') = A \ I
    BY <2>1, <2>3 DEF ActiveClaims, Rejects
  <2>5. Cardinality(I) \in Nat /\ Cardinality(A \ I) = Cardinality(A) - Cardinality(I)
    <3>1. IsFiniteSet(I) /\ Cardinality(I) \in Nat
      BY <1>0, <2>2, FS_Subset, FS_CardinalityType
    <3>2. Cardinality(A \ I) = Cardinality(A) - Cardinality(A \cap I)
      BY <1>0, FS_Difference
    <3>3. A \cap I = I
      BY <2>2
    <3>. QED  BY <3>1, <3>2, <3>3
  <2>6. /\ step' \in [Step -> [state : StepStates, attempts : Nat]]
        /\ \A d \in DispatchStep : step'[d] = step[d]
    <3>1. \A d \in DispatchStep : ~(\E i \in I : claim[i].step = d)
      BY <1>0
    <3>. QED  BY <1>0, <2>2, <3>1, ReopenedOK, StepOfDispatch
  <2>7. Rows'
    BY <1>0, <2>2, <2>3, <2>5, <2>6 DEF Rows, Counts
  <2>8. \A i \in DOMAIN claim' : claim'[i].step \notin DispatchStep
    BY <1>0, <2>3
  <2>9. counters'.active_steps - counters.active_steps =
            Cardinality(ActiveClaims(claim')) - Cardinality(A)
    BY <1>0, <2>2, <2>4, <2>5 DEF Counts
  <2>. QED  BY <1>0, <2>2, <2>6, <2>7, <2>8, <2>9 DEF Counts
<1>3. CASE \E i \in DOMAIN claim, status \in Outcomes : Ends(i, status)
  <2>1. PICK i \in DOMAIN claim, status \in Outcomes : Ends(i, status)
    BY <1>3
  <2>. DEFINE after == AfterOutcome(claim[i].step, status)
  <2>2. /\ i \in A /\ Carries(claim')
        /\ step' = [step EXCEPT ![claim[i].step].state = status]
        /\ Counts(counters', counters.active_steps - 1)
        /\ workflow' = Entering(after, counters', claim', ended', edge')
    BY <2>1 DEF Ends
  <2>3. /\ DOMAIN claim' = DOMAIN claim /\ claim' \in Seq(Claim)
        /\ \A k \in DOMAIN claim : claim'[k].step = claim[k].step
    BY <1>0, <2>2 DEF Carries, Rows
  <2>4. ActiveClaims(claim') = A \ {i}
    BY <2>1, <2>3 DEF ActiveClaims, Ends, Outcomes
  <2>5. Cardinality(ActiveClaims(claim')) = Cardinality(A) - 1
    BY <1>0, <2>2, <2>4, FS_RemoveElement
  <2>6. /\ step' \in [Step -> [state : StepStates, attempts : Nat]]
        /\ \A d \in DispatchStep : step'[d] = step[d]
    <3>1. claim[i].step \in Step /\ claim[i].step \notin DispatchStep
      BY <1>0, ClaimTyped
    <3>2. step[claim[i].step] \in [state : StepStates, attempts : Nat]
      BY <1>0, <3>1 DEF Rows
    <3>3. [step[claim[i].step] EXCEPT !.state = status] \in [state : StepStates, attempts : Nat]
      BY <3>2 DEF StepStates
    <3>. QED  BY <1>0, <2>2, <3>1, <3>3, StepOfDispatch DEF Rows
  <2>. HIDE DEF after
  <2>7. /\ DOMAIN workflow' = {"state", "receipt"}
        /\ workflow.receipt # NoReceipt => workflow'.receipt = workflow.receipt
    BY <2>2 DEF Entering
  <2>8. Rows'
    BY <1>0, <2>2, <2>3, <2>6, <2>7 DEF Rows, Counts
  <2>9. \A k \in DOMAIN claim' : claim'[k].step \notin DispatchStep
    BY <1>0, <2>3
  <2>. QED  BY <1>0, <2>2, <2>5, <2>6, <2>7, <2>8, <2>9 DEF Counts
<1>4. CASE Stops
  <2>1. PICK state \in Terminal : workflow' = Entering(state, counters', claim', ended', edge')
    BY <1>4 DEF Stops
  <2>2. /\ DOMAIN workflow' = {"state", "receipt"}
        /\ workflow.receipt # NoReceipt => workflow'.receipt = workflow.receipt
        /\ workflow'.receipt # NoReceipt
    <3>1. ReceiptOf(state, counters', claim', ended', edge').status = state
      BY DEF ReceiptOf
    <3>2. NoReceipt.status \notin Terminal
      BY DEF NoReceipt, None, Terminal
    <3>. QED  BY <2>1, <3>1, <3>2 DEF Entering
  <2>3. PICK I \in SUBSET A : step' = Reopened(I)
    BY <1>4 DEF Stops
  <2>4. /\ DOMAIN claim' = DOMAIN claim /\ claim' \in Seq(Claim)
        /\ \A k \in DOMAIN claim : claim'[k].step = claim[k].step
    BY <1>0, <1>4 DEF Carries, Rows, Stops
  <2>5. /\ step' \in [Step -> [state : StepStates, attempts : Nat]]
        /\ \A d \in DispatchStep : step'[d] = step[d]
    <3>1. \A d \in DispatchStep : ~(\E i \in I : claim[i].step = d)
      BY <1>0 DEF ActiveClaims
    <3>. QED  BY <1>0, <2>3, <3>1, ReopenedOK, StepOfDispatch
  <2>6. Rows'
    BY <1>0, <1>4, <2>2, <2>4, <2>5 DEF Rows, Counts, Stops
  <2>7. \A k \in DOMAIN claim' : claim'[k].step \notin DispatchStep
    BY <1>0, <2>4
  <2>. QED  BY <1>0, <1>4, <2>2, <2>5, <2>6, <2>7 DEF Counts, Stops
<1>. QED  BY <1>1, <1>2, <1>3, <1>4 DEF Change

-----------------------------------------------------------------------------
(* The invariant is kept                                                   *)

LEMMA DispatchInitOK == DispatchInit => DispatchInv
<1>. SUFFICES ASSUME DispatchInit PROVE DispatchInv
  OBVIOUS
<1>1. Shapes
  BY ConstantsOK DEF DispatchInit, Init, Shapes, Rows, Claim, StepStates, Zero,
        NoActivation, Idle
<1>2. ASSUME NEW d \in DispatchStep PROVE ActivationOK(d) /\ RecordedOK(d)
  BY <1>2, StepOfDispatch DEF DispatchInit, Init, ActivationOK, RecordedOK,
        NoActivation, AtWork, Idle
<1>3. (\A x \in Worker : WorkerOK(x)) /\ OneClaimant
  BY DEF DispatchInit, WorkerOK, OneClaimant, Idle
<1>4. UnfinishedSteps = {} /\ ActivatedSteps = {} /\ ActiveClaims(claim) = {}
  BY DEF DispatchInit, Init, UnfinishedSteps, Unfinished, ActivatedSteps,
        NoActivation, ActiveClaims
<1>5. Totals
  <2>1. Cardinality({}) = 0
    BY FS_EmptySet
  <2>2. /\ counters.active_dispatches = 0 /\ counters.dispatch_attempts = 0
        /\ counters.active_steps = 0
    BY DEF DispatchInit, Init, Zero
  <2>. QED  BY <1>4, <2>1, <2>2 DEF Totals
<1>. QED  BY <1>1, <1>2, <1>3, <1>5 DEF DispatchInv

\* Activations that come or go with no count changed.
LEMMA TotalsStay ==
    ASSUME Totals, UNCHANGED <<workflow, counters, claim>>,
           \A d \in DispatchStep :
                /\ activation'[d].receipt = activation[d].receipt
                /\ activation'[d].status = "absent" <=> activation[d].status = "absent"
    PROVE  Totals'
<1>1. UnfinishedSteps' = UnfinishedSteps /\ ActivatedSteps' = ActivatedSteps
  BY DEF UnfinishedSteps, Unfinished, ActivatedSteps
<1>2. ActiveClaims(claim)' = ActiveClaims(claim)
  BY DEF ActiveClaims
<1>. QED  BY <1>1, <1>2 DEF Totals

LEMMA WorkflowKeeps ==
    ASSUME DispatchInv, Next, UNCHANGED dispatchVars PROVE DispatchInv'
<1>0. Shapes /\ Rows
  BY DEF DispatchInv, Shapes
<1>1. /\ \A d \in DispatchStep : step'[d] = step[d]
      /\ ended' = ended /\ Shapes'
      /\ edge \subseteq edge' /\ \A e \in edge' \ edge : e.step \notin DispatchStep
  <2>1. CASE Change
    BY <1>0, <2>1, ChangeFacts DEF Shapes, dispatchVars
  <2>2. CASE Tick
    BY <1>0, <2>2 DEF Tick, tables, Shapes, Rows, dispatchVars
  <2>. QED  BY <1>0, <2>1, <2>2, StepChanges
<1>2. ASSUME NEW d \in DispatchStep PROVE ActivationOK(d)' /\ RecordedOK(d)'
  <2>1. ActivationOK(d) /\ RecordedOK(d)
    BY DEF DispatchInv
  <2>2. ActivationOK(d)'
    BY <1>1, <2>1 DEF ActivationOK, AtWork, dispatchVars
  <2>3. RecordedOK(d)'
    BY <1>1, <2>1 DEF RecordedOK, dispatchVars
  <2>. QED  BY <2>2, <2>3
<1>3. (\A x \in Worker : WorkerOK(x))' /\ OneClaimant'
  BY DEF DispatchInv, WorkerOK, OneClaimant, dispatchVars
<1>4. UnfinishedSteps' = UnfinishedSteps /\ ActivatedSteps' = ActivatedSteps
  BY DEF UnfinishedSteps, Unfinished, ActivatedSteps, dispatchVars
<1>5. Totals'
  <2>1. CASE Change
    <3>1. /\ counters'.active_dispatches = counters.active_dispatches
          /\ counters'.dispatch_attempts = counters.dispatch_attempts
          /\ workflow.receipt # NoReceipt => workflow'.receipt = workflow.receipt
          /\ workflow'.receipt = NoReceipt =>
                counters'.active_steps - counters.active_steps =
                    Cardinality(ActiveClaims(claim')) - Cardinality(ActiveClaims(claim))
      BY <1>0, <2>1, ChangeFacts
    <3>2. /\ Cardinality(ActiveClaims(claim)) \in Nat
          /\ Cardinality(ActiveClaims(claim')) \in Nat
          /\ Cardinality(UnfinishedSteps) \in Nat
          /\ counters.active_steps \in Int /\ counters'.active_steps \in Int
      <4>1. Rows'
        BY <1>1 DEF Shapes
      <4>2. Cardinality(ActiveClaims(claim)) \in Nat
        BY <1>0, ActiveCounted
      <4>3. Cardinality(ActiveClaims(claim))' \in Nat
        <5>1. DOMAIN claim' = 1 .. Len(claim') /\ Len(claim') \in Nat
          BY <4>1 DEF Rows
        <5>2. IsFiniteSet(DOMAIN claim')
          BY <5>1, FS_Interval
        <5>3. IsFiniteSet(ActiveClaims(claim'))
          BY <5>2, FS_Subset DEF ActiveClaims
        <5>. QED  BY <5>3, FS_CardinalityType
      <4>. QED  BY <1>0, <4>1, <4>2, <4>3, Counted DEF Rows
    <3>3. /\ counters.active_dispatches = Cardinality(UnfinishedSteps)
          /\ counters.dispatch_attempts = Cardinality(ActivatedSteps)
          /\ workflow.receipt = NoReceipt =>
                counters.active_steps =
                    Cardinality(UnfinishedSteps) + Cardinality(ActiveClaims(claim))
      BY DEF DispatchInv, Totals
    <3>4. workflow'.receipt = NoReceipt =>
                counters'.active_steps =
                    Cardinality(UnfinishedSteps) + Cardinality(ActiveClaims(claim'))
      BY <3>1, <3>2, <3>3
    <3>. QED  BY <1>4, <3>1, <3>3, <3>4 DEF Totals
  <2>2. CASE Tick
    BY <2>2, TotalsStay DEF DispatchInv, Tick, tables, dispatchVars
  <2>. QED  BY <1>0, <2>1, <2>2, StepChanges
<1>. QED  BY <1>1, <1>2, <1>3, <1>5 DEF DispatchInv

LEMMA StandingKeeps ==
    ASSUME DispatchInv, NEW d \in DispatchStep,
           RegisterPolicy(d) \/ ImportDecision(d)
    PROVE  DispatchInv'
<1>1. UNCHANGED <<vars, activation, worker, executed>>
  BY DEF RegisterPolicy, ImportDecision
<1>2. Totals'
  BY <1>1, TotalsStay DEF DispatchInv, vars
<1>3. Shapes' /\ OneClaimant' /\ \A x \in Worker : WorkerOK(x)'
  BY <1>1 DEF DispatchInv, Shapes, Rows, OneClaimant, WorkerOK, vars
<1>4. \A e \in DispatchStep : ActivationOK(e)' /\ RecordedOK(e)'
  BY <1>1 DEF DispatchInv, ActivationOK, RecordedOK, AtWork, vars
<1>. QED  BY <1>2, <1>3, <1>4 DEF DispatchInv

LEMMA RevokeKeeps ==
    ASSUME DispatchInv, NEW d \in DispatchStep, RevokePolicy(d)
    PROVE  DispatchInv'
<1>1. UNCHANGED <<vars, worker, executed>>
  BY DEF RevokePolicy
<1>2. /\ DOMAIN activation' = DispatchStep
      /\ \A e \in DispatchStep :
            /\ DOMAIN activation'[e] = {"status", "cancel", "started", "receipt"}
            /\ activation'[e].receipt = activation[e].receipt
            /\ \/ activation'[e] = activation[e]
               \/ /\ activation[e].status \in {"activated", "executing"}
                  /\ activation'[e].status = "cancellation_requested"
  BY DEF DispatchInv, Shapes, RevokePolicy, Revocable
<1>3. Totals'
  BY <1>1, <1>2, TotalsStay DEF DispatchInv, vars
<1>4. Shapes' /\ OneClaimant' /\ \A x \in Worker : WorkerOK(x)'
  BY <1>1, <1>2 DEF DispatchInv, Shapes, Rows, OneClaimant, WorkerOK, vars
<1>5. ASSUME NEW e \in DispatchStep PROVE ActivationOK(e)' /\ RecordedOK(e)'
  <2>1. ActivationOK(e) /\ RecordedOK(e)
    BY DEF DispatchInv
  <2>2. ActivationOK(e)'
    BY <1>1, <1>2, <2>1 DEF ActivationOK, AtWork, vars
  <2>3. RecordedOK(e)'
    BY <1>1, <1>2, <2>1 DEF RecordedOK, vars
  <2>. QED  BY <2>2, <2>3
<1>. QED  BY <1>3, <1>4, <1>5 DEF DispatchInv

LEMMA ActivateKeeps ==
    ASSUME DispatchInv, NEW d \in DispatchStep, ActivateDispatch(d)
    PROVE  DispatchInv'
<1>1. /\ UNCHANGED <<clock, claim, edge, ended, worker, executed>>
      /\ workflow' = [workflow EXCEPT !.state = "running"]
      /\ step[d].state = "pending"
      /\ activation' = [activation EXCEPT ![d] = Allocated]
  BY DEF ActivateDispatch, Ready
<1>2. /\ DOMAIN activation' = DispatchStep
      /\ activation'[d] = Allocated
      /\ \A e \in DispatchStep \ {d} : activation'[e] = activation[e]
  BY <1>1 DEF DispatchInv, Shapes
<1>3. /\ Allocated.status = "activated" /\ Allocated.receipt = NoVerdict
      /\ DOMAIN Allocated = {"status", "cancel", "started", "receipt"}
  BY DEF Allocated, NoActivation
<1>4. activation[d].status = "absent" /\ activation[d].receipt = NoVerdict
  BY <1>1 DEF DispatchInv, ActivationOK
<1>5. /\ step' \in [Step -> [state : StepStates, attempts : Nat]]
      /\ step'[d].state = "running"
      /\ \A e \in DispatchStep \ {d} : step'[e] = step[e]
  <2>1. d \in Step /\ step \in [Step -> [state : StepStates, attempts : Nat]]
    BY StepOfDispatch DEF DispatchInv, Shapes, Rows
  <2>2. step[d].attempts \in Nat
    BY <2>1
  <2>. DEFINE r == [state |-> "running", attempts |-> step[d].attempts + 1]
  <2>3. r \in [state : StepStates, attempts : Nat] /\ r.state = "running"
    BY <2>2 DEF StepStates
  <2>4. step' = [step EXCEPT ![d] = r]
    BY DEF ActivateDispatch
  <2>. HIDE DEF r
  <2>. QED  BY <2>1, <2>3, <2>4, StepOfDispatch
<1>6. /\ DOMAIN counters' = DOMAIN Zero
      /\ counters'.dispatch_attempts = counters.dispatch_attempts + 1
      /\ counters'.active_dispatches = counters.active_dispatches + 1
      /\ counters'.active_steps = counters.active_steps + 1
  BY DEF ActivateDispatch, DispatchInv, Shapes, Rows, Zero
<1>7. /\ DOMAIN workflow' = {"state", "receipt"} /\ workflow'.receipt = workflow.receipt
  BY <1>1 DEF DispatchInv, Shapes, Rows
<1>8. Shapes'
  <2>1. counters'.active_steps \in Int
    BY <1>6 DEF DispatchInv, Shapes, Rows
  <2>2. Rows'
    BY <1>1, <1>5, <1>6, <1>7, <2>1 DEF DispatchInv, Shapes, Rows
  <2>. QED  BY <1>1, <1>2, <1>3, <2>2 DEF DispatchInv, Shapes
<1>9. ASSUME NEW e \in DispatchStep PROVE ActivationOK(e)' /\ RecordedOK(e)'
  <2>1. ActivationOK(e) /\ RecordedOK(e)
    BY DEF DispatchInv
  <2>2. CASE e = d
    BY <1>1, <1>2, <1>3, <1>4, <1>5, <2>1, <2>2 DEF ActivationOK, RecordedOK, AtWork
  <2>3. CASE e # d
    <3>1. ActivationOK(e)'
      BY <1>1, <1>2, <1>5, <2>1, <2>3 DEF ActivationOK, AtWork
    <3>2. RecordedOK(e)'
      BY <1>1, <1>2, <1>5, <2>1, <2>3 DEF RecordedOK
    <3>. QED  BY <3>1, <3>2
  <2>. QED  BY <2>2, <2>3
<1>10. OneClaimant' /\ \A x \in Worker : WorkerOK(x)'
  BY <1>1 DEF DispatchInv, OneClaimant, WorkerOK
<1>11. Totals'
  <2>1. UnfinishedSteps' = UnfinishedSteps \cup {d} /\ d \notin UnfinishedSteps
    BY <1>2, <1>3, <1>4 DEF UnfinishedSteps, Unfinished
  <2>2. ActivatedSteps' = ActivatedSteps \cup {d} /\ d \notin ActivatedSteps
    BY <1>2, <1>3, <1>4 DEF ActivatedSteps
  <2>3. /\ Cardinality(UnfinishedSteps)' = Cardinality(UnfinishedSteps) + 1
        /\ Cardinality(ActivatedSteps)' = Cardinality(ActivatedSteps) + 1
    BY <2>1, <2>2, Counted, FS_AddElement
  <2>4. ActiveClaims(claim)' = ActiveClaims(claim)
    BY <1>1 DEF ActiveClaims
  <2>5. Cardinality(ActiveClaims(claim)) \in Nat
    BY ActiveCounted DEF DispatchInv, Shapes
  <2>6. /\ counters.active_dispatches = Cardinality(UnfinishedSteps)
        /\ counters.dispatch_attempts = Cardinality(ActivatedSteps)
        /\ workflow.receipt = NoReceipt =>
                counters.active_steps =
                    Cardinality(UnfinishedSteps) + Cardinality(ActiveClaims(claim))
    BY DEF DispatchInv, Totals
  <2>7. workflow'.receipt = NoReceipt =>
            counters'.active_steps =
                Cardinality(UnfinishedSteps)' + Cardinality(ActiveClaims(claim))'
    BY <1>6, <1>7, <2>3, <2>4, <2>5, <2>6, Counted
  <2>. QED  BY <1>6, <2>3, <2>6, <2>7 DEF Totals
<1>. QED  BY <1>8, <1>9, <1>10, <1>11 DEF DispatchInv

\* What a worker's step leaves as it was, but for its own place and executor.
LEMMA OneWorkerMoves ==
    ASSUME DispatchInv, NEW x \in Worker, NEW w,
           DOMAIN w = {"pc", "at", "result", "verdict"},
           worker' = [worker EXCEPT ![x] = w]
    PROVE  /\ DOMAIN worker' = Worker /\ worker'[x] = w
           /\ \A y \in Worker \ {x} : worker'[y] = worker[y]
           /\ \A y \in Worker : DOMAIN worker'[y] = {"pc", "at", "result", "verdict"}
BY DEF DispatchInv, Shapes

\* A worker's step that no other worker and no table sees.
LEMMA PrivateStep ==
    ASSUME DispatchInv, NEW x \in Worker, NEW w,
           DOMAIN w = {"pc", "at", "result", "verdict"},
           worker' = [worker EXCEPT ![x] = w],
           UNCHANGED <<vars, activation, executed>>,
           w.pc = "idle" \/ (worker[x].pc # "idle" /\ w.at = worker[x].at),
           w.pc \in {"idle", "running", "look", "finish"},
           w.pc \in {"running", "look"} => executed[w.at] = 1,
           w.pc = "finish" => w.verdict.status \in Statuses
                              /\ (w.verdict.occurred => executed[w.at] = 1)
    PROVE  DispatchInv'
<1>1. /\ DOMAIN worker' = Worker /\ worker'[x] = w
      /\ \A y \in Worker \ {x} : worker'[y] = worker[y]
      /\ \A y \in Worker : DOMAIN worker'[y] = {"pc", "at", "result", "verdict"}
  BY OneWorkerMoves
<1>2. Totals'
  BY TotalsStay DEF DispatchInv, vars
<1>3. Shapes'
  BY <1>1 DEF DispatchInv, Shapes, Rows, vars
<1>4. ASSUME NEW e \in DispatchStep PROVE ActivationOK(e)' /\ RecordedOK(e)'
  <2>1. ActivationOK(e) /\ RecordedOK(e)
    BY DEF DispatchInv
  <2>2. \A y \in Worker : AtWork(y, e)' => AtWork(y, e)
    BY <1>1 DEF AtWork
  <2>3. ActivationOK(e)'
    BY <2>1, <2>2 DEF ActivationOK, vars
  <2>4. RecordedOK(e)'
    BY <2>1 DEF RecordedOK, vars
  <2>. QED  BY <2>3, <2>4
<1>5. ASSUME NEW y \in Worker PROVE WorkerOK(y)'
  <2>1. WorkerOK(y)
    BY DEF DispatchInv
  <2>2. CASE y = x
    BY <1>1, <2>1, <2>2 DEF WorkerOK
  <2>3. CASE y # x
    BY <1>1, <2>1, <2>3 DEF WorkerOK
  <2>. QED  BY <2>2, <2>3
<1>6. OneClaimant'
  BY <1>1 DEF DispatchInv, OneClaimant
<1>. QED  BY <1>2, <1>3, <1>4, <1>5, <1>6 DEF DispatchInv

LEMMA WorkerFacts ==
    ASSUME DispatchInv, NEW x \in Worker
    PROVE  WorkerOK(x) /\ DOMAIN worker[x] = {"pc", "at", "result", "verdict"}
BY DEF DispatchInv, Shapes

LEMMA ToolMissingKeeps ==
    ASSUME DispatchInv, NEW x \in Worker, ToolMissing(x) PROVE DispatchInv'
<1>. DEFINE w == [worker[x] EXCEPT !.pc = "finish", !.verdict = NoTool]
<1>1. worker' = [worker EXCEPT ![x] = w] /\ worker[x].pc = "claimed"
  BY DEF ToolMissing
<1>2. /\ DOMAIN w = {"pc", "at", "result", "verdict"} /\ w.pc = "finish"
      /\ w.at = worker[x].at /\ w.verdict = NoTool
  BY WorkerFacts
<1>3. UNCHANGED <<vars, activation, executed>>
  BY DEF ToolMissing, Worked
<1>4. NoTool.status \in Statuses /\ ~NoTool.occurred
  BY DEF NoTool, Statuses
<1>. HIDE DEF w
<1>. QED  BY <1>1, <1>2, <1>3, <1>4, PrivateStep

LEMMA ReturnKeeps ==
    ASSUME DispatchInv, NEW x \in Worker, NEW result \in Results, Return(x, result)
    PROVE  DispatchInv'
<1>. DEFINE w == [worker[x] EXCEPT !.pc = "look", !.result = result]
<1>1. worker' = [worker EXCEPT ![x] = w] /\ worker[x].pc = "running"
  BY DEF Return
<1>2. /\ DOMAIN w = {"pc", "at", "result", "verdict"} /\ w.pc = "look"
      /\ w.at = worker[x].at /\ executed[worker[x].at] = 1
  BY <1>1, WorkerFacts DEF WorkerOK
<1>3. UNCHANGED <<vars, activation, executed>>
  BY DEF Return, Worked
<1>. HIDE DEF w
<1>. QED  BY <1>1, <1>2, <1>3, PrivateStep

LEMMA RaiseKeeps ==
    ASSUME DispatchInv, NEW x \in Worker, Raise(x) PROVE DispatchInv'
<1>. DEFINE w == [worker[x] EXCEPT !.pc = "finish", !.verdict = Raised]
<1>1. worker' = [worker EXCEPT ![x] = w] /\ worker[x].pc = "running"
  BY DEF Raise
<1>2. /\ DOMAIN w = {"pc", "at", "result", "verdict"} /\ w.pc = "finish"
      /\ w.at = worker[x].at /\ w.verdict = Raised /\ executed[worker[x].at] = 1
  BY <1>1, WorkerFacts DEF WorkerOK
<1>3. UNCHANGED <<vars, activation, executed>>
  BY DEF Raise, Worked
<1>4. Raised.status \in Statuses
  BY DEF Raised, Statuses
<1>. HIDE DEF w
<1>. QED  BY <1>1, <1>2, <1>3, <1>4, PrivateStep

LEMMA LookKeeps ==
    ASSUME DispatchInv, NEW x \in Worker, Look(x) PROVE DispatchInv'
<1>. DEFINE v == IF activation[worker[x].at].cancel THEN Cancelled ELSE Ran(worker[x].result)
            w == [worker[x] EXCEPT !.pc = "finish", !.verdict = v]
<1>1. worker' = [worker EXCEPT ![x] = w] /\ worker[x].pc = "look"
  BY DEF Look
<1>2. v.status \in Statuses
  BY DEF Cancelled, Ran, Statuses
<1>. HIDE DEF v
<1>3. /\ DOMAIN w = {"pc", "at", "result", "verdict"} /\ w.pc = "finish"
      /\ w.at = worker[x].at /\ w.verdict = v /\ executed[worker[x].at] = 1
  BY <1>1, WorkerFacts DEF WorkerOK
<1>4. UNCHANGED <<vars, activation, executed>>
  BY DEF Look, Worked
<1>. HIDE DEF w
<1>. QED  BY <1>1, <1>2, <1>3, <1>4, PrivateStep

LEMMA DieKeeps ==
    ASSUME DispatchInv, NEW x \in Worker, Die(x) PROVE DispatchInv'
<1>1. worker' = [worker EXCEPT ![x] = Idle] /\ UNCHANGED <<vars, activation, executed>>
  BY DEF Die
<1>2. DOMAIN Idle = {"pc", "at", "result", "verdict"} /\ Idle.pc = "idle"
  BY DEF Idle
<1>. QED  BY <1>1, <1>2, PrivateStep

LEMMA BeginKeeps ==
    ASSUME DispatchInv, NEW x \in Worker, NEW d \in DispatchStep, Begin(x, d)
    PROVE  DispatchInv'
<1>1. UNCHANGED <<vars, executed>> /\ worker[x].pc = "idle" /\ Unfinished(d)
  BY DEF Begin
<1>2. CASE Startable(d)
  <2>. DEFINE w == [Idle EXCEPT !.pc = "claimed", !.at = d]
  <2>1. /\ activation' = [activation EXCEPT
                ![d].status = "executing", ![d].started = clock]
        /\ worker' = [worker EXCEPT ![x] = w]
        /\ activation[d].status = "activated"
    BY <1>2 DEF Begin, Startable
  <2>2. /\ DOMAIN w = {"pc", "at", "result", "verdict"}
        /\ w.pc = "claimed" /\ w.at = d
    BY DEF Idle
  <2>. HIDE DEF w
  <2>3. /\ DOMAIN worker' = Worker /\ worker'[x] = w
        /\ \A y \in Worker \ {x} : worker'[y] = worker[y]
        /\ \A y \in Worker : DOMAIN worker'[y] = {"pc", "at", "result", "verdict"}
    BY <2>1, <2>2, OneWorkerMoves
  <2>4. /\ DOMAIN activation' = DispatchStep
        /\ \A e \in DispatchStep :
                /\ DOMAIN activation'[e] = {"status", "cancel", "started", "receipt"}
                /\ activation'[e].receipt = activation[e].receipt
                /\ e # d => activation'[e] = activation[e]
        /\ activation'[d].status = "executing"
    BY <2>1 DEF DispatchInv, Shapes
  <2>5. Shapes'
    BY <1>1, <2>3, <2>4 DEF DispatchInv, Shapes, Rows, vars
  <2>6. Totals'
    BY <1>1, <2>1, <2>4, TotalsStay DEF DispatchInv, vars
  <2>7. /\ executed[d] = 0 /\ \A y \in Worker : ~AtWork(y, d)
    BY <2>1 DEF DispatchInv, ActivationOK
  <2>8. ASSUME NEW e \in DispatchStep PROVE ActivationOK(e)' /\ RecordedOK(e)'
    <3>1. ActivationOK(e) /\ RecordedOK(e)
      BY DEF DispatchInv
    <3>2. CASE e = d
      BY <1>1, <2>1, <2>4, <3>1, <3>2 DEF ActivationOK, RecordedOK, vars
    <3>3. CASE e # d
      <4>1. \A y \in Worker : AtWork(y, e)' => AtWork(y, e)
        BY <2>2, <2>3, <3>3 DEF AtWork
      <4>2. ActivationOK(e)'
        BY <1>1, <2>4, <3>1, <3>3, <4>1 DEF ActivationOK, vars
      <4>3. RecordedOK(e)'
        BY <1>1, <2>4, <3>1, <3>3 DEF RecordedOK, vars
      <4>. QED  BY <4>2, <4>3
    <3>. QED  BY <3>2, <3>3
  <2>9. ASSUME NEW y \in Worker PROVE WorkerOK(y)'
    <3>1. CASE y = x
      BY <1>1, <2>2, <2>3, <2>7, <3>1 DEF WorkerOK
    <3>2. CASE y # x
      BY <1>1, <2>3, <3>2, WorkerFacts DEF WorkerOK
    <3>. QED  BY <3>1, <3>2
  <2>10. OneClaimant'
    BY <2>2, <2>3, <2>7 DEF DispatchInv, OneClaimant, AtWork
  <2>. QED  BY <2>5, <2>6, <2>8, <2>9, <2>10 DEF DispatchInv
<1>3. CASE ~Startable(d)
  <2>. DEFINE w == [Idle EXCEPT !.pc = "finish", !.at = d, !.verdict = Aborted]
  <2>1. /\ worker' = [worker EXCEPT ![x] = w] /\ activation' = activation
        /\ activation[d].status = "cancellation_requested"
    BY <1>3 DEF Begin
  <2>2. /\ DOMAIN w = {"pc", "at", "result", "verdict"}
        /\ w.pc = "finish" /\ w.at = d
        /\ w.verdict.status \in Statuses /\ ~w.verdict.occurred
    BY DEF Idle, Aborted, Statuses
  <2>. HIDE DEF w
  <2>3. /\ DOMAIN worker' = Worker /\ worker'[x] = w
        /\ \A y \in Worker \ {x} : worker'[y] = worker[y]
        /\ \A y \in Worker : DOMAIN worker'[y] = {"pc", "at", "result", "verdict"}
    BY <2>1, <2>2, OneWorkerMoves
  <2>4. Shapes'
    BY <1>1, <2>1, <2>3 DEF DispatchInv, Shapes, Rows, vars
  <2>5. Totals'
    BY <1>1, <2>1, TotalsStay DEF DispatchInv, vars
  <2>6. ASSUME NEW e \in DispatchStep PROVE ActivationOK(e)' /\ RecordedOK(e)'
    <3>1. ActivationOK(e) /\ RecordedOK(e)
      BY DEF DispatchInv
    <3>2. \A y \in Worker : AtWork(y, e)' => AtWork(y, e) \/ e = d
      BY <2>2, <2>3 DEF AtWork
    <3>3. ActivationOK(e)'
      BY <1>1, <2>1, <3>1, <3>2 DEF ActivationOK, vars
    <3>4. RecordedOK(e)'
      BY <1>1, <2>1, <3>1 DEF RecordedOK, vars
    <3>. QED  BY <3>3, <3>4
  <2>7. ASSUME NEW y \in Worker PROVE WorkerOK(y)'
    <3>1. CASE y = x
      BY <2>2, <2>3, <3>1 DEF WorkerOK
    <3>2. CASE y # x
      BY <1>1, <2>3, <3>2, WorkerFacts DEF WorkerOK
    <3>. QED  BY <3>1, <3>2
  <2>8. OneClaimant'
    BY <2>2, <2>3 DEF DispatchInv, OneClaimant
  <2>. QED  BY <2>4, <2>5, <2>6, <2>7, <2>8 DEF DispatchInv
<1>. QED  BY <1>2, <1>3

LEMMA InvokeKeeps ==
    ASSUME DispatchInv, NEW x \in Worker, Invoke(x) PROVE DispatchInv'
<1>. DEFINE d == worker[x].at
            w == [worker[x] EXCEPT !.pc = "running"]
<1>1. /\ worker' = [worker EXCEPT ![x] = w]
      /\ executed' = [executed EXCEPT ![d] = @ + 1]
      /\ worker[x].pc = "claimed" /\ UNCHANGED <<vars, activation>>
  BY DEF Invoke, Worked
<1>2. d \in DispatchStep /\ executed[d] = 0
  BY <1>1, WorkerFacts DEF WorkerOK
<1>3. /\ DOMAIN w = {"pc", "at", "result", "verdict"} /\ w.pc = "running" /\ w.at = d
  BY WorkerFacts
<1>4. AtWork(x, d)
  BY <1>1 DEF AtWork
<1>. HIDE DEF d, w
<1>5. /\ executed' \in [DispatchStep -> Nat] /\ executed'[d] = 1
      /\ \A e \in DispatchStep \ {d} : executed'[e] = executed[e]
  BY <1>1, <1>2 DEF DispatchInv, Shapes
<1>6. /\ DOMAIN worker' = Worker /\ worker'[x] = w
      /\ \A y \in Worker \ {x} : worker'[y] = worker[y]
      /\ \A y \in Worker : DOMAIN worker'[y] = {"pc", "at", "result", "verdict"}
  BY <1>1, <1>3, OneWorkerMoves
<1>7. Shapes'
  BY <1>1, <1>5, <1>6 DEF DispatchInv, Shapes, Rows, vars
<1>8. Totals'
  BY <1>1, TotalsStay DEF DispatchInv, vars
<1>9. ASSUME NEW e \in DispatchStep PROVE ActivationOK(e)' /\ RecordedOK(e)'
  <2>1. ActivationOK(e) /\ RecordedOK(e)
    BY DEF DispatchInv
  <2>2. \A y \in Worker : AtWork(y, e)' => AtWork(y, e)
    BY <1>3, <1>4, <1>6 DEF AtWork
  <2>3. ActivationOK(e)'
    BY <1>1, <1>4, <1>5, <2>1, <2>2 DEF ActivationOK, vars
  <2>4. RecordedOK(e)'
    BY <1>1, <1>2, <1>5, <2>1 DEF RecordedOK, vars
  <2>. QED  BY <2>3, <2>4
<1>10. ASSUME NEW y \in Worker PROVE WorkerOK(y)'
  <2>1. CASE y = x
    BY <1>2, <1>3, <1>5, <1>6, <2>1 DEF WorkerOK
  <2>2. CASE y # x
    <3>1. WorkerOK(y) /\ worker'[y] = worker[y]
      BY <1>6, <2>2, WorkerFacts
    <3>2. worker[y].pc = "claimed" => worker[y].at # d
      BY <1>1, <2>2 DEF DispatchInv, OneClaimant, d
    <3>. QED  BY <1>2, <1>5, <3>1, <3>2 DEF WorkerOK
  <2>. QED  BY <2>1, <2>2
<1>11. OneClaimant'
  BY <1>3, <1>6 DEF DispatchInv, OneClaimant
<1>. QED  BY <1>7, <1>8, <1>9, <1>10, <1>11 DEF DispatchInv

\* The edges of a dispatch: its receipt, and its output if it completed.
LEMMA EdgesOfDispatch ==
    ASSUME NEW d, NEW v
    PROVE  /\ \A e \in DispatchEdges(d, v) : e.step = d
           /\ \E e \in DispatchEdges(d, v) : e.role = "dispatch_receipt"
           /\ v.status = "completed" <=>
                    \E e \in DispatchEdges(d, v) : e.role = "dispatch_output"
<1>. DEFINE Edge(role) == [step |-> d, attempt |-> step[d].attempts, role |-> role]
            roles == {"dispatch_receipt"}
                \cup (IF v.status = "completed" THEN {"dispatch_output"} ELSE {})
<1>1. \A role : Edge(role).step = d /\ Edge(role).role = role
  OBVIOUS
<1>2. DispatchEdges(d, v) = {Edge(role) : role \in roles}
  BY DEF DispatchEdges
<1>3. /\ "dispatch_receipt" \in roles
      /\ v.status = "completed" <=> "dispatch_output" \in roles
  OBVIOUS
<1>. HIDE DEF Edge, roles
<1>4. \A e \in DispatchEdges(d, v) : \E role \in roles : e = Edge(role)
  BY <1>2
<1>5. \A role \in roles : Edge(role) \in DispatchEdges(d, v)
  BY <1>2
<1>. QED  BY <1>1, <1>3, <1>4, <1>5

LEMMA FinishKeeps ==
    ASSUME DispatchInv, NEW x \in Worker, Finish(x) PROVE DispatchInv'
<1>. DEFINE d == worker[x].at
            v == worker[x].verdict
<1>1. /\ worker' = [worker EXCEPT ![x] = Idle] /\ executed' = executed
      /\ worker[x].pc = "finish"
  BY DEF Finish
<1>2. DOMAIN Idle = {"pc", "at", "result", "verdict"} /\ Idle.pc = "idle"
  BY DEF Idle
<1>3. CASE ~Finishable(d)
  <2>1. UNCHANGED <<vars, activation>>
    BY <1>3 DEF Finish
  <2>. QED  BY <1>1, <1>2, <2>1, PrivateStep
<1>4. CASE Finishable(d)
  <2>. DEFINE c == FinishedCounters(d, v)
              en == [ended EXCEPT ![d] = StepOutcome(v)]
              ed == edge \cup DispatchEdges(d, v)
  <2>1. /\ activation' = [activation EXCEPT ![d].status = v.status, ![d].receipt = v]
        /\ counters' = c /\ ended' = en /\ edge' = ed
        /\ step' = [step EXCEPT ![d].state = StepOutcome(v)]
        /\ workflow' = Entering(ParentState(v), c, claim, en, ed)
        /\ UNCHANGED <<clock, claim>>
    BY <1>4 DEF Finish
  <2>2. /\ d \in DispatchStep /\ d \in Step /\ v.status \in Statuses
        /\ v.occurred => executed[d] = 1
    BY <1>1, WorkerFacts, StepOfDispatch DEF WorkerOK
  <2>3. /\ v # NoVerdict /\ StepOutcome(v) \in {"succeeded", "cancelled", "failed"}
    BY <2>2, OutcomeOK
  <2>4. Unfinished(d)
    BY <1>4 DEF Finishable
  <2>5. /\ DOMAIN c = DOMAIN Zero
        /\ c.active_dispatches = counters.active_dispatches - 1
        /\ c.active_steps = counters.active_steps - 1
        /\ c.dispatch_attempts = counters.dispatch_attempts
    BY DEF FinishedCounters, DispatchInv, Shapes, Rows, Zero
  <2>6. /\ DOMAIN workflow' = {"state", "receipt"}
        /\ workflow'.receipt = NoReceipt => workflow.receipt = NoReceipt
    <3>1. \A state \in Terminal : ReceiptOf(state, c, claim, en, ed) # NoReceipt
      <4>1. \A state \in Terminal : ReceiptOf(state, c, claim, en, ed).status = state
        BY DEF ReceiptOf
      <4>2. NoReceipt.status \notin Terminal
        BY DEF NoReceipt, None, Terminal
      <4>. QED  BY <4>1, <4>2
    <3>. HIDE DEF c, en, ed
    <3>. QED  BY <2>1, <3>1 DEF Entering
  <2>7. /\ \A e \in ed \ edge : e.step = d
        /\ \E e \in ed : e.step = d /\ e.role = "dispatch_receipt"
        /\ (\A e \in edge : e.step # d) =>
                (v.status = "completed" <=>
                    \E e \in ed : e.step = d /\ e.role = "dispatch_output")
    <3>. HIDE DEF v, d
    <3>. QED  BY EdgesOfDispatch
  <2>. HIDE DEF c, ed, v, d
  <2>8. /\ step' \in [Step -> [state : StepStates, attempts : Nat]]
        /\ step'[d].state = StepOutcome(v)
        /\ \A e \in DispatchStep \ {d} : step'[e] = step[e]
    <3>1. step \in [Step -> [state : StepStates, attempts : Nat]]
      BY DEF DispatchInv, Shapes, Rows
    <3>2. step[d] \in [state : StepStates, attempts : Nat]
      BY <2>2, <3>1
    <3>3. StepOutcome(v) \in StepStates
      BY <2>3 DEF StepStates, Outcomes
    <3>4. /\ [step[d] EXCEPT !.state = StepOutcome(v)] \in [state : StepStates, attempts : Nat]
          /\ [step[d] EXCEPT !.state = StepOutcome(v)].state = StepOutcome(v)
      BY <3>2, <3>3
    <3>. QED  BY <2>1, <2>2, <3>1, <3>4, StepOfDispatch
  <2>9. /\ DOMAIN ended' = Step /\ ended'[d] = StepOutcome(v)
        /\ \A e \in DispatchStep \ {d} : ended'[e] = ended[e]
    BY <2>1, <2>2 DEF DispatchInv, Shapes
  <2>10. /\ DOMAIN activation' = DispatchStep
         /\ \A e \in DispatchStep :
                DOMAIN activation'[e] = {"status", "cancel", "started", "receipt"}
         /\ activation'[d].status = v.status /\ activation'[d].receipt = v
         /\ \A e \in DispatchStep \ {d} : activation'[e] = activation[e]
    BY <2>1, <2>2 DEF DispatchInv, Shapes
  <2>11. /\ DOMAIN worker' = Worker /\ worker'[x] = Idle
         /\ \A y \in Worker \ {x} : worker'[y] = worker[y]
         /\ \A y \in Worker : DOMAIN worker'[y] = {"pc", "at", "result", "verdict"}
    BY <1>1, <1>2, OneWorkerMoves
  <2>12. Shapes'
    <3>1. counters'.active_steps \in Int
      BY <2>1, <2>5 DEF DispatchInv, Shapes, Rows
    <3>2. Rows'
      BY <2>1, <2>5, <2>6, <2>8, <3>1 DEF DispatchInv, Shapes, Rows
    <3>. QED  BY <1>1, <2>1, <2>9, <2>10, <2>11, <3>2 DEF DispatchInv, Shapes
  <2>13. ASSUME NEW e \in DispatchStep PROVE ActivationOK(e)' /\ RecordedOK(e)'
    <3>1. ActivationOK(e) /\ RecordedOK(e)
      BY DEF DispatchInv
    <3>2. CASE e = d
      <4>1. /\ v.status \notin {"absent", "activated", "executing",
                                "cancellation_requested"}
            /\ StepOutcome(v) # "pending"
        BY <2>2, <2>3 DEF Statuses
      <4>2. ActivationOK(e)'
        BY <1>1, <2>3, <2>8, <2>10, <3>1, <3>2, <4>1 DEF ActivationOK
      <4>3. \A f \in edge : f.step # d
        BY <2>4, <3>1, <3>2 DEF RecordedOK, Unfinished
      <4>4. RecordedOK(e)'
        BY <1>1, <2>1, <2>2, <2>3, <2>7, <2>8, <2>9, <2>10, <3>2, <4>3 DEF RecordedOK
      <4>. QED  BY <4>2, <4>4
    <3>3. CASE e # d
      <4>1. \A y \in Worker : AtWork(y, e)' => AtWork(y, e)
        BY <1>2, <2>11 DEF AtWork
      <4>2. ActivationOK(e)'
        BY <1>1, <2>8, <2>10, <3>1, <3>3, <4>1 DEF ActivationOK
      <4>3. edge \subseteq edge' /\ \A f \in edge' \ edge : f.step # e
        BY <2>1, <2>7, <3>3 DEF ed
      <4>4. RecordedOK(e)'
        BY <1>1, <2>8, <2>9, <2>10, <3>1, <3>3, <4>3 DEF RecordedOK
      <4>. QED  BY <4>2, <4>4
    <3>. QED  BY <3>2, <3>3
  <2>14. ASSUME NEW y \in Worker PROVE WorkerOK(y)'
    <3>1. CASE y = x
      BY <1>2, <2>11, <3>1 DEF WorkerOK
    <3>2. CASE y # x
      BY <1>1, <2>11, <3>2, WorkerFacts DEF WorkerOK
    <3>. QED  BY <3>1, <3>2
  <2>15. OneClaimant'
    BY <1>2, <2>11 DEF DispatchInv, OneClaimant
  <2>16. Totals'
    <3>1. UnfinishedSteps' = UnfinishedSteps \ {d} /\ d \in UnfinishedSteps
      BY <2>2, <2>3, <2>4, <2>10 DEF UnfinishedSteps, Unfinished
    <3>2. ActivatedSteps' = ActivatedSteps
      BY <2>2, <2>4, <2>10 DEF ActivatedSteps, Unfinished, Statuses
    <3>3. Cardinality(UnfinishedSteps)' = Cardinality(UnfinishedSteps) - 1
      BY <3>1, Counted, FS_RemoveElement
    <3>4. ActiveClaims(claim)' = ActiveClaims(claim)
      BY <2>1 DEF ActiveClaims
    <3>5. Cardinality(ActiveClaims(claim)) \in Nat
      BY ActiveCounted DEF DispatchInv, Shapes
    <3>6. /\ counters.active_dispatches = Cardinality(UnfinishedSteps)
          /\ counters.dispatch_attempts = Cardinality(ActivatedSteps)
          /\ workflow.receipt = NoReceipt =>
                counters.active_steps =
                    Cardinality(UnfinishedSteps) + Cardinality(ActiveClaims(claim))
      BY DEF DispatchInv, Totals
    <3>7. workflow'.receipt = NoReceipt =>
            counters'.active_steps =
                Cardinality(UnfinishedSteps)' + Cardinality(ActiveClaims(claim))'
      BY <2>1, <2>5, <2>6, <3>3, <3>4, <3>5, <3>6, Counted
    <3>. QED  BY <2>1, <2>5, <3>2, <3>3, <3>6, <3>7 DEF Totals
  <2>. QED  BY <2>12, <2>13, <2>14, <2>15, <2>16 DEF DispatchInv
<1>. QED  BY <1>3, <1>4

LEMMA DispatchInvariance == DispatchSpec => []DispatchInv
<1>1. DispatchInv /\ [DispatchNext]_allVars => DispatchInv'
  <2>. SUFFICES ASSUME DispatchInv, [DispatchNext]_allVars PROVE DispatchInv'
    OBVIOUS
  <2>1. CASE Next /\ UNCHANGED dispatchVars
    BY <2>1, WorkflowKeeps
  <2>2. CASE \E d \in DispatchStep :
                \/ RegisterPolicy(d)
                \/ ImportDecision(d)
                \/ RevokePolicy(d)
                \/ ActivateDispatch(d)
                \/ \E x \in Worker : Begin(x, d)
    BY <2>2, StandingKeeps, RevokeKeeps, ActivateKeeps, BeginKeeps
  <2>3. CASE \E x \in Worker : WorkerStep(x) \/ Die(x)
    BY <2>3, ToolMissingKeeps, InvokeKeeps, ReturnKeeps, RaiseKeeps, LookKeeps,
       FinishKeeps, DieKeeps DEF WorkerStep
  <2>4. CASE UNCHANGED allVars
    <3>1. Totals'
      BY <2>4, TotalsStay DEF DispatchInv, allVars, vars, dispatchVars
    <3>2. Shapes' /\ OneClaimant' /\ \A x \in Worker : WorkerOK(x)'
      BY <2>4 DEF DispatchInv, Shapes, Rows, OneClaimant, WorkerOK, allVars, vars,
            dispatchVars
    <3>3. \A d \in DispatchStep : ActivationOK(d)' /\ RecordedOK(d)'
      BY <2>4 DEF DispatchInv, ActivationOK, RecordedOK, AtWork, allVars, vars,
            dispatchVars
    <3>. QED  BY <3>1, <3>2, <3>3 DEF DispatchInv
  <2>. QED  BY <2>1, <2>2, <2>3, <2>4 DEF DispatchNext
<1>. QED  BY DispatchInitOK, <1>1, PTL DEF DispatchSpec

-----------------------------------------------------------------------------
(* Types and metering                                                      *)

ActivationRow ==
    [status : {"absent", "activated", "executing", "cancellation_requested"}
                \cup Statuses,
     cancel : BOOLEAN, started : {NotStarted} \cup 0 .. MaxClock,
     receipt : {NoVerdict} \cup Verdict]

WorkerPlace ==
    [pc : {"idle", "claimed", "running", "look", "finish"},
     at : {None} \cup DispatchStep, result : {None} \cup Results,
     verdict : {NoVerdict} \cup Verdict]

DispatchTyped ==
    /\ policy \in [DispatchStep -> {None, "active", "revoked"}]
    /\ decision \subseteq DispatchStep
    /\ activation \in [DispatchStep -> ActivationRow]
    /\ \A d \in DispatchStep : activation[d].started <= clock
    /\ worker \in [Worker -> WorkerPlace]

DispatchBooks == BookInv /\ RowTyped /\ DispatchTyped

LEMMA ActivationSettable ==
    ASSUME NEW r \in ActivationRow
    PROVE  /\ \A s \in {"activated", "executing", "cancellation_requested"} \cup Statuses :
                    [r EXCEPT !.status = s] \in ActivationRow
           /\ [r EXCEPT !.cancel = TRUE] \in ActivationRow
           /\ \A t \in 0 .. MaxClock : [r EXCEPT !.started = t] \in ActivationRow
           /\ \A v \in Verdict : [r EXCEPT !.receipt = v] \in ActivationRow
BY DEF ActivationRow

LEMMA PlaceSettable ==
    ASSUME NEW w \in WorkerPlace
    PROVE  /\ \A p \in {"claimed", "running", "look", "finish"} :
                    [w EXCEPT !.pc = p] \in WorkerPlace
           /\ \A d \in DispatchStep : [w EXCEPT !.at = d] \in WorkerPlace
           /\ \A r \in Results : [w EXCEPT !.result = r] \in WorkerPlace
           /\ \A v \in Verdict : [w EXCEPT !.verdict = v] \in WorkerPlace
BY DEF WorkerPlace

LEMMA Verdicts ==
    /\ Aborted \in Verdict /\ Cancelled \in Verdict /\ Raised \in Verdict
    /\ NoTool \in Verdict
    /\ \A result : Ran(result) \in Verdict
    /\ Idle \in WorkerPlace /\ NoActivation \in ActivationRow
    /\ Allocated \in ActivationRow /\ Allocated.started = NotStarted
<1>1. /\ Aborted \in Verdict /\ Cancelled \in Verdict /\ Raised \in Verdict
      /\ NoTool \in Verdict
      /\ \A result : Ran(result) \in Verdict
  BY DEF Aborted, Cancelled, Raised, NoTool, Ran, Verdict, Statuses
<1>2. Idle \in WorkerPlace
  BY DEF Idle, WorkerPlace
<1>3. NoActivation \in ActivationRow
  BY DEF NoActivation, ActivationRow
<1>4. Allocated \in ActivationRow
  BY <1>3, ActivationSettable DEF Allocated
<1>5. Allocated.started = NotStarted
  BY DEF Allocated, NoActivation
<1>. QED  BY <1>1, <1>2, <1>3, <1>4, <1>5

\* What a worker does on its own changes its place only.
LEMMA PlaceKeeps ==
    ASSUME DispatchBooks, Shapes, NEW x \in Worker, NEW w \in WorkerPlace,
           worker' = [worker EXCEPT ![x] = w], UNCHANGED vars,
           UNCHANGED <<policy, decision, activation>>
    PROVE  DispatchBooks'
<1>1. worker' \in [Worker -> WorkerPlace]
  BY DEF DispatchBooks, DispatchTyped
<1>2. BookInv' /\ RowTyped'
  <2>1. UNCHANGED tables /\ clock' = clock
    BY DEF vars, tables
  <2>2. clock' \in 0 .. MaxClock /\ clock <= clock' /\ Rows
    BY <2>1 DEF DispatchBooks, BookInv, Shapes, Rows
  <2>. QED  BY <2>1, <2>2, BooksStay DEF DispatchBooks, RowTyped, tables
<1>3. DispatchTyped'
  BY <1>1 DEF DispatchBooks, DispatchTyped, vars
<1>. QED  BY <1>2, <1>3 DEF DispatchBooks

LEMMA WorkerMoves ==
    ASSUME DispatchInv, DispatchBooks, NEW x \in Worker,
           \/ ToolMissing(x) \/ Invoke(x) \/ Raise(x) \/ Look(x) \/ Die(x)
           \/ \E result \in Results : Return(x, result)
    PROVE  DispatchBooks'
<1>0. Shapes /\ worker[x] \in WorkerPlace
  BY DEF DispatchInv, DispatchBooks, DispatchTyped
<1>1. CASE ToolMissing(x)
  <2>. DEFINE w == [[worker[x] EXCEPT !.pc = "finish"] EXCEPT !.verdict = NoTool]
  <2>1. w \in WorkerPlace
    BY <1>0, PlaceSettable, Verdicts
  <2>2. worker' = [worker EXCEPT ![x] = w]
    BY <1>0, <1>1 DEF ToolMissing, Shapes
  <2>. HIDE DEF w
  <2>. QED  BY <1>0, <1>1, <2>1, <2>2, PlaceKeeps DEF ToolMissing, Worked
<1>2. CASE Invoke(x)
  <2>. DEFINE w == [worker[x] EXCEPT !.pc = "running"]
  <2>1. w \in WorkerPlace
    BY <1>0, PlaceSettable
  <2>2. worker' = [worker EXCEPT ![x] = w]
    BY <1>0, <1>2 DEF Invoke, Shapes
  <2>. HIDE DEF w
  <2>. QED  BY <1>0, <1>2, <2>1, <2>2, PlaceKeeps DEF Invoke, Worked
<1>3. CASE Raise(x)
  <2>. DEFINE w == [[worker[x] EXCEPT !.pc = "finish"] EXCEPT !.verdict = Raised]
  <2>1. w \in WorkerPlace
    BY <1>0, PlaceSettable, Verdicts
  <2>2. worker' = [worker EXCEPT ![x] = w]
    BY <1>0, <1>3 DEF Raise, Shapes
  <2>. HIDE DEF w
  <2>. QED  BY <1>0, <1>3, <2>1, <2>2, PlaceKeeps DEF Raise, Worked
<1>4. CASE Look(x)
  <2>. DEFINE v == IF activation[worker[x].at].cancel
                   THEN Cancelled ELSE Ran(worker[x].result)
              w == [[worker[x] EXCEPT !.pc = "finish"] EXCEPT !.verdict = v]
  <2>1. v \in Verdict
    BY Verdicts
  <2>2. worker' = [worker EXCEPT ![x] = w]
    BY <1>0, <1>4 DEF Look, Shapes
  <2>. HIDE DEF v
  <2>3. w \in WorkerPlace
    BY <1>0, <2>1, PlaceSettable
  <2>. HIDE DEF w
  <2>. QED  BY <1>0, <1>4, <2>2, <2>3, PlaceKeeps DEF Look, Worked
<1>5. CASE Die(x)
  BY <1>0, <1>5, Verdicts, PlaceKeeps DEF Die
<1>6. CASE \E result \in Results : Return(x, result)
  <2>1. PICK result \in Results : Return(x, result)
    BY <1>6
  <2>. DEFINE w == [[worker[x] EXCEPT !.pc = "look"] EXCEPT !.result = result]
  <2>2. w \in WorkerPlace
    BY <1>0, PlaceSettable
  <2>3. worker' = [worker EXCEPT ![x] = w]
    BY <1>0, <2>1 DEF Return, Shapes
  <2>. HIDE DEF w
  <2>. QED  BY <1>0, <2>1, <2>2, <2>3, PlaceKeeps DEF Return, Worked
<1>. QED  BY <1>1, <1>2, <1>3, <1>4, <1>5, <1>6

\* The workflow is left alone, an activation's row changes.
LEMMA RowKeeps ==
    ASSUME DispatchBooks, Shapes, UNCHANGED vars,
           UNCHANGED <<policy, decision>>,
           NEW d \in DispatchStep, NEW r \in ActivationRow,
           r.started <= clock,
           activation' = [activation EXCEPT ![d] = r],
           worker' \in [Worker -> WorkerPlace]
    PROVE  DispatchBooks'
<1>1. /\ activation' \in [DispatchStep -> ActivationRow]
      /\ \A e \in DispatchStep : activation'[e].started <= clock
  BY DEF DispatchBooks, DispatchTyped
<1>2. BookInv' /\ RowTyped'
  <2>1. UNCHANGED tables /\ clock' = clock
    BY DEF vars, tables
  <2>2. clock' \in 0 .. MaxClock /\ clock <= clock' /\ Rows
    BY <2>1 DEF DispatchBooks, BookInv, Shapes, Rows
  <2>. QED  BY <2>1, <2>2, BooksStay DEF DispatchBooks, RowTyped, tables
<1>3. DispatchTyped'
  BY <1>1 DEF DispatchBooks, DispatchTyped, vars
<1>. QED  BY <1>2, <1>3 DEF DispatchBooks

LEMMA BeginBooks ==
    ASSUME DispatchInv, DispatchBooks, NEW x \in Worker, NEW d \in DispatchStep,
           Begin(x, d)
    PROVE  DispatchBooks'
<1>0. /\ Shapes /\ activation[d] \in ActivationRow /\ UNCHANGED vars
      /\ clock \in 0 .. MaxClock /\ worker \in [Worker -> WorkerPlace]
      /\ UNCHANGED <<policy, decision>>
  BY DEF DispatchInv, DispatchBooks, DispatchTyped, BookInv, Begin
<1>1. CASE Startable(d)
  <2>. DEFINE r == [[activation[d] EXCEPT !.status = "executing"] EXCEPT !.started = clock]
              w == [[Idle EXCEPT !.pc = "claimed"] EXCEPT !.at = d]
  <2>1. r \in ActivationRow
    BY <1>0, ActivationSettable
  <2>2. w \in WorkerPlace
    BY Verdicts, PlaceSettable
  <2>3. activation' = [activation EXCEPT ![d] = r] /\ worker' = [worker EXCEPT ![x] = w]
    BY <1>0, <1>1 DEF Begin, Shapes
  <2>4. r.started = clock /\ clock <= clock
    BY <1>0, <2>1 DEF ActivationRow, Shapes
  <2>. HIDE DEF r, w
  <2>5. worker' \in [Worker -> WorkerPlace]
    BY <1>0, <2>2, <2>3
  <2>. QED  BY <1>0, <2>1, <2>3, <2>4, <2>5, RowKeeps
<1>2. CASE ~Startable(d)
  <2>. DEFINE w == [[[Idle EXCEPT !.pc = "finish"] EXCEPT !.at = d] EXCEPT !.verdict = Aborted]
  <2>1. w \in WorkerPlace
    BY Verdicts, PlaceSettable
  <2>2. worker' = [worker EXCEPT ![x] = w] /\ UNCHANGED activation
    BY <1>2 DEF Begin
  <2>. HIDE DEF w
  <2>. QED  BY <1>0, <2>1, <2>2, PlaceKeeps
<1>. QED  BY <1>1, <1>2

LEMMA StandingBooks ==
    ASSUME DispatchInv, DispatchBooks, NEW d \in DispatchStep,
           RegisterPolicy(d) \/ ImportDecision(d) \/ RevokePolicy(d)
    PROVE  DispatchBooks'
<1>0. /\ Shapes /\ activation[d] \in ActivationRow /\ UNCHANGED vars /\ UNCHANGED worker
      /\ activation[d].started <= clock
  BY DEF DispatchInv, DispatchBooks, DispatchTyped, RegisterPolicy, ImportDecision,
         RevokePolicy
<1>1. BookInv' /\ RowTyped'
  <2>1. UNCHANGED tables /\ clock' = clock
    BY <1>0 DEF vars, tables
  <2>2. clock' \in 0 .. MaxClock /\ clock <= clock' /\ Rows
    BY <1>0, <2>1 DEF DispatchBooks, BookInv, Shapes, Rows
  <2>. QED  BY <2>1, <2>2, BooksStay DEF DispatchBooks, RowTyped, tables
<1>2. policy' \in [DispatchStep -> {None, "active", "revoked"}] /\ decision' \subseteq DispatchStep
  BY DEF DispatchBooks, DispatchTyped, RegisterPolicy, ImportDecision, RevokePolicy
<1>3. /\ activation' \in [DispatchStep -> ActivationRow]
      /\ \A e \in DispatchStep : activation'[e].started <= clock
  <2>1. CASE RevokePolicy(d)
    <3>. DEFINE a == activation[d]
                r == IF Revocable(d)
                     THEN [[a EXCEPT !.cancel = TRUE] EXCEPT !.status = "cancellation_requested"]
                     ELSE a
    <3>1. r \in ActivationRow
      <4>. HIDE DEF a
      <4>1. [a EXCEPT !.cancel = TRUE] \in ActivationRow
        BY <1>0, ActivationSettable DEF a
      <4>. QED  BY <1>0, <4>1, ActivationSettable DEF a
    <3>2. r.started = activation[d].started
      BY <1>0 DEF ActivationRow
    <3>3. activation' = [activation EXCEPT ![d] = r]
      BY <2>1 DEF RevokePolicy
    <3>. HIDE DEF r
    <3>. QED  BY <1>0, <3>1, <3>2, <3>3 DEF DispatchBooks, DispatchTyped
  <2>2. CASE ~RevokePolicy(d)
    BY <2>2 DEF DispatchBooks, DispatchTyped, RegisterPolicy, ImportDecision
  <2>. QED  BY <2>1, <2>2
<1>4. DispatchTyped'
  BY <1>0, <1>2, <1>3 DEF DispatchBooks, DispatchTyped, vars
<1>. QED  BY <1>1, <1>4 DEF DispatchBooks

\* The claims are left alone: their numbers hold while attempts only grow, and
\* the ledger while runtime is added for claims and dispatches alike.
LEMMA ClaimsLeftAlone ==
    ASSUME Rows, BookInv, UNCHANGED <<clock, claim>>,
           NEW n \in Nat,
           counters'.runtime_seconds = counters.runtime_seconds + n,
           counters'.dispatch_runtime = counters.dispatch_runtime + n,
           \A s \in Step : step'[s].attempts \in Nat
                           /\ step[s].attempts <= step'[s].attempts
    PROVE  Ledger(counters, claim)' /\ Numbered'
<1>1. SumFunction(AccountedOf(claim)) \in Nat
  <2>. DEFINE f == AccountedOf(claim)
              D == DOMAIN claim
  <2>1. IsFiniteSet(D) /\ \A k \in D : f[k] \in Nat
    BY DomainFinite, ClaimTyped DEF AccountedOf, Claim
  <2>2. DOMAIN f = D
    BY DEF AccountedOf
  <2>. HIDE DEF f, D
  <2>3. SumFunctionOnSet(f, D) \in Nat
    BY <2>1, SumOfNats
  <2>. QED  BY <2>2, <2>3 DEF SumFunction, f
<1>2. Ledger(counters, claim)'
  <2>1. Budgets.runtime_seconds \in Nat
    BY ConstantsOK
  <2>2. /\ counters'.runtime_seconds =
                SumFunction(AccountedOf(claim)) + counters'.dispatch_runtime
        /\ counters'.dispatch_runtime \in Nat
        /\ counters'.runtime_seconds - counters'.dispatch_runtime
                <= Budgets.runtime_seconds
    BY <1>1, <2>1 DEF BookInv, Ledger
  <2>. QED  BY <2>2 DEF BookInv, Ledger, AccountedOf
<1>3. Numbered'
  <2>1. \A k \in DOMAIN claim : claim[k].step \in Step /\ claim[k].attempt \in Nat
    BY ClaimTyped DEF Claim
  <2>2. \A k \in DOMAIN claim : step[claim[k].step].attempts \in Nat
    BY <2>1 DEF Rows
  <2>3. \A k \in DOMAIN claim : claim[k].attempt <= step'[claim[k].step].attempts
    BY <2>1, <2>2 DEF BookInv, Numbered
  <2>. QED  BY <2>3 DEF BookInv, Numbered, ActiveClaims
<1>. QED  BY <1>2, <1>3

\* c is the counters b, with n seconds and m edges more.
Adds(c, b, n, m) ==
    /\ c \in [DOMAIN Zero -> Int]
    /\ c.runtime_seconds = b.runtime_seconds + n
    /\ c.dispatch_runtime = b.dispatch_runtime + n
    /\ c.artifact_edges = b.artifact_edges + m

LEMMA ActivateBooks ==
    ASSUME DispatchInv, DispatchBooks, NEW d \in DispatchStep, ActivateDispatch(d)
    PROVE  DispatchBooks'
<1>. DEFINE one == [counters EXCEPT !.dispatch_attempts = @ + 1]
            two == [one EXCEPT !.active_dispatches = @ + 1]
            three == [two EXCEPT !.active_steps = @ + 1]
<1>0. /\ Shapes /\ Rows /\ BookInv /\ RowTyped /\ d \in Step
      /\ counters \in [DOMAIN Zero -> Int]
      /\ UNCHANGED <<clock, claim, edge, ended, policy, decision, worker>>
  BY StepOfDispatch DEF DispatchInv, Shapes, DispatchBooks, BookInv, CountersTyped,
                        ActivateDispatch
<1>1. /\ activation' = [activation EXCEPT ![d] = Allocated]
      /\ counters' = three
      /\ step' = [step EXCEPT ![d] = [state |-> "running", attempts |-> @.attempts + 1]]
      /\ workflow' = [workflow EXCEPT !.state = "running"]
  BY DEF ActivateDispatch
<1>2. /\ three \in [DOMAIN Zero -> Int]
      /\ three.runtime_seconds = counters.runtime_seconds
      /\ three.dispatch_runtime = counters.dispatch_runtime
      /\ three.artifact_edges = counters.artifact_edges
  <2>1. Adds(one, counters, 0, 0)
    BY <1>0, RuntimeCounted DEF Zero, Adds
  <2>. HIDE DEF one
  <2>2. Adds(two, counters, 0, 0)
    BY <2>1 DEF Zero, Adds
  <2>. HIDE DEF two
  <2>3. Adds(three, counters, 0, 0)
    BY <2>2 DEF Zero, Adds
  <2>. HIDE DEF three
  <2>. QED  BY <1>0, <2>3, RuntimeCounted DEF Adds
<1>. HIDE DEF three
<1>3. \A s \in Step : step'[s].attempts \in Nat /\ step[s].attempts <= step'[s].attempts
  <2>1. \A s \in Step : step[s].attempts \in Nat
    BY <1>0 DEF Rows
  <2>2. \A s \in Step : s # d => step'[s] = step[s]
    BY <1>0, <1>1 DEF Rows
  <2>3. step'[d].attempts = step[d].attempts + 1
    BY <1>0, <1>1 DEF Rows
  <2>. QED  BY <1>0, <2>1, <2>2, <2>3
<1>4. Ledger(counters, claim)' /\ Numbered'
  <2>1. /\ counters'.runtime_seconds = counters.runtime_seconds + 0
        /\ counters'.dispatch_runtime = counters.dispatch_runtime + 0
    BY <1>0, <1>1, <1>2, RuntimeCounted
  <2>. QED  BY <1>0, <1>3, <2>1, ClaimsLeftAlone
<1>5. BookInv'
  BY <1>0, <1>1, <1>2, <1>4 DEF BookInv, CountersTyped, Reported, CheckReport
<1>6. RowTyped'
  BY <1>0, <1>1 DEF RowTyped, Rows, ActiveStates
<1>7. DispatchTyped'
  <2>1. Allocated.started <= clock
    BY <1>0, Verdicts DEF NotStarted, Rows
  <2>2. /\ activation' \in [DispatchStep -> ActivationRow]
        /\ \A e \in DispatchStep : activation'[e].started <= clock
    BY <1>1, <2>1, Verdicts DEF DispatchBooks, DispatchTyped
  <2>. QED  BY <1>0, <2>2 DEF DispatchBooks, DispatchTyped
<1>. QED  BY <1>5, <1>6, <1>7 DEF DispatchBooks

\* The edges of a dispatch are new, one for its receipt and one for its output.
LEMMA EdgesAdded ==
    ASSUME NEW d, NEW v, IsFiniteSet(edge), \A e \in edge : e.step # d
    PROVE  LET ed == edge \cup DispatchEdges(d, v)
           IN  /\ IsFiniteSet(ed)
               /\ Cardinality(ed) = Cardinality(edge) + 1
                                      + (IF v.status = "completed" THEN 1 ELSE 0)
<1>. DEFINE Edge(role) == [step |-> d, attempt |-> step[d].attempts, role |-> role]
            a == Edge("dispatch_receipt")
            b == Edge("dispatch_output")
            ed == edge \cup DispatchEdges(d, v)
<1>1. a.step = d /\ b.step = d /\ a.role = "dispatch_receipt" /\ b.role = "dispatch_output"
  OBVIOUS
<1>2. DispatchEdges(d, v) = IF v.status = "completed" THEN {a, b} ELSE {a}
  BY DEF DispatchEdges
<1>. HIDE DEF a, b
<1>3. a \notin edge /\ b \notin edge /\ a # b
  BY <1>1
<1>4. /\ IsFiniteSet(edge \cup {a})
      /\ Cardinality(edge \cup {a}) = Cardinality(edge) + 1
  BY <1>3, FS_AddElement
<1>5. CASE v.status # "completed"
  <2>1. ed = edge \cup {a}
    BY <1>2, <1>5
  <2>2. Cardinality(edge) + 1 + 0 = Cardinality(edge) + 1
    BY FS_CardinalityType
  <2>3. IsFiniteSet(ed) /\ Cardinality(ed) = Cardinality(edge) + 1
    BY <1>4, <2>1
  <2>. HIDE DEF ed
  <2>4. /\ IsFiniteSet(ed)
        /\ Cardinality(ed) = Cardinality(edge) + 1
                                + (IF v.status = "completed" THEN 1 ELSE 0)
    BY <1>5, <2>2, <2>3
  <2>. QED  BY <2>4 DEF ed
<1>6. CASE v.status = "completed"
  <2>1. ed = (edge \cup {a}) \cup {b} /\ b \notin edge \cup {a}
    BY <1>2, <1>3, <1>6
  <2>2. IsFiniteSet(ed) /\ Cardinality(ed) = Cardinality(edge \cup {a}) + 1
    <3>. HIDE DEF ed
    <3>. QED  BY <1>4, <2>1, FS_AddElement
  <2>3. /\ IsFiniteSet(ed)
        /\ Cardinality(ed) = Cardinality(edge) + 1
                                + (IF v.status = "completed" THEN 1 ELSE 0)
    <3>. HIDE DEF ed
    <3>. QED  BY <1>4, <1>6, <2>2
  <2>. QED  BY <2>3
<1>. QED  BY <1>5, <1>6

\* What a dispatch adds to the counters.
LEMMA FinishCounts ==
    ASSUME counters \in [DOMAIN Zero -> Int], NEW d, NEW v,
           NEW n \in Nat,
           n = (IF activation[d].started = NotStarted THEN 0
                                                      ELSE clock - activation[d].started)
    PROVE  LET c == FinishedCounters(d, v)
           IN  /\ c \in [DOMAIN Zero -> Int]
               /\ c.runtime_seconds = counters.runtime_seconds + n
               /\ c.dispatch_runtime = counters.dispatch_runtime + n
               /\ c.artifact_edges = counters.artifact_edges + 1
                                        + (IF v.status = "completed" THEN 1 ELSE 0)
<1>. DEFINE o == IF v.status = "completed" THEN 1 ELSE 0
            c1 == [counters EXCEPT !.active_dispatches = @ - 1]
            c2 == [c1 EXCEPT !.active_steps = @ - 1]
            c3 == [c2 EXCEPT !.dispatch_runtime = @ + n]
            c4 == [c3 EXCEPT !.runtime_seconds = @ + n]
            c5 == [c4 EXCEPT !.artifact_bytes = @ + ReceiptBytes + o * OutputBytes]
            c6 == [c5 EXCEPT !.artifact_edges = @ + 1 + o]
<1>1. FinishedCounters(d, v) = c6
  BY DEF FinishedCounters
<1>2. o \in Int /\ ReceiptBytes \in Int /\ o * OutputBytes \in Int
  BY DispatchConstantsOK
<1>. HIDE DEF o
<1>3. Adds(c1, counters, 0, 0)
  BY RuntimeCounted DEF Zero, Adds
<1>. HIDE DEF c1
<1>4. Adds(c2, counters, 0, 0)
  BY <1>3 DEF Zero, Adds
<1>. HIDE DEF c2
<1>5. /\ c3 \in [DOMAIN Zero -> Int]
      /\ c3.runtime_seconds = counters.runtime_seconds
      /\ c3.dispatch_runtime = counters.dispatch_runtime + n
      /\ c3.artifact_edges = counters.artifact_edges
  BY <1>4, RuntimeCounted DEF Zero, Adds
<1>. HIDE DEF c3
<1>6. Adds(c4, counters, n, 0)
  BY <1>5, RuntimeCounted DEF Zero, Adds
<1>. HIDE DEF c4
<1>7. Adds(c5, counters, n, 0)
  <2>. DEFINE w == c4.artifact_bytes + ReceiptBytes + o * OutputBytes
  <2>1. w \in Int
    BY <1>2, <1>6, RuntimeCounted DEF Adds
  <2>2. c5 = [c4 EXCEPT !.artifact_bytes = w]
    OBVIOUS
  <2>. HIDE DEF w, c5
  <2>. QED  BY <1>6, <2>1, <2>2 DEF Zero, Adds
<1>. HIDE DEF c5
<1>8. Adds(c6, counters, n, 1 + o)
  <2>1. c5.artifact_edges = counters.artifact_edges /\ counters.artifact_edges \in Int
    BY <1>7, RuntimeCounted DEF Adds
  <2>. QED  BY <1>2, <1>7, <2>1 DEF Zero, Adds
<1>. HIDE DEF c6
<1>9. counters.artifact_edges + (1 + o) = counters.artifact_edges + 1 + o
  BY <1>2, RuntimeCounted
<1>. QED  BY <1>1, <1>8, <1>9 DEF o, Adds

LEMMA FinishBooks ==
    ASSUME DispatchInv, DispatchBooks, NEW x \in Worker, Finish(x)
    PROVE  DispatchBooks'
<1>. DEFINE d == worker[x].at
            v == worker[x].verdict
<1>0. /\ Shapes /\ Rows /\ BookInv /\ RowTyped
      /\ counters \in [DOMAIN Zero -> Int]
      /\ worker[x] \in WorkerPlace /\ worker[x].pc = "finish"
      /\ worker' = [worker EXCEPT ![x] = Idle]
      /\ UNCHANGED <<policy, decision>>
  BY DEF DispatchInv, Shapes, DispatchBooks, BookInv, CountersTyped, DispatchTyped, Finish
<1>1. worker' \in [Worker -> WorkerPlace]
  BY <1>0, Verdicts DEF DispatchBooks, DispatchTyped
<1>2. CASE ~Finishable(d)
  <2>1. UNCHANGED <<vars, activation>>
    BY <1>2 DEF Finish
  <2>. QED  BY <1>0, <2>1, Verdicts, PlaceKeeps
<1>3. CASE Finishable(d)
  <2>. DEFINE c == FinishedCounters(d, v)
              en == [ended EXCEPT ![d] = StepOutcome(v)]
              ed == edge \cup DispatchEdges(d, v)
              a == activation[d]
              r == [[a EXCEPT !.status = v.status] EXCEPT !.receipt = v]
  <2>1. /\ activation' = [activation EXCEPT ![d].status = v.status, ![d].receipt = v]
        /\ counters' = c /\ ended' = en /\ edge' = ed
        /\ step' = [step EXCEPT ![d].state = StepOutcome(v)]
        /\ workflow' = Entering(ParentState(v), c, claim, en, ed)
        /\ UNCHANGED <<clock, claim>>
    BY <1>3 DEF Finish
  <2>2. d \in DispatchStep /\ d \in Step /\ v.status \in Statuses
    BY <1>0, WorkerFacts, StepOfDispatch DEF WorkerOK
  <2>3. v \in Verdict
    <3>1. v \in {NoVerdict} \cup Verdict
      BY <1>0 DEF WorkerPlace
    <3>. QED  BY <2>2, <3>1, OutcomeOK
  <2>4. activation' = [activation EXCEPT ![d] = r]
    <3>1. DOMAIN activation = DispatchStep
      BY <1>0 DEF Shapes
    <3>. QED  BY <2>1, <2>2, <3>1
  <2>5. a \in ActivationRow /\ a.started <= clock /\ clock \in Nat
    BY <1>0, <2>2 DEF DispatchBooks, DispatchTyped, Rows
  <2>6. r \in ActivationRow /\ r.started = a.started
    <3>. HIDE DEF a, v
    <3>1. [a EXCEPT !.status = v.status] \in ActivationRow
      BY <2>2, <2>5, ActivationSettable
    <3>2. r \in ActivationRow
      BY <2>3, <3>1, ActivationSettable
    <3>. QED  BY <2>5, <3>2 DEF ActivationRow
  <2>7. PICK n \in Nat : n = IF a.started = NotStarted THEN 0 ELSE clock - a.started
    <3>1. a.started = NotStarted \/ a.started \in Nat
      BY <2>5 DEF ActivationRow
    <3>2. (IF a.started = NotStarted THEN 0 ELSE clock - a.started) \in Nat
      BY <2>5, <3>1
    <3>. QED  BY <3>2
  <2>8. /\ c \in [DOMAIN Zero -> Int]
        /\ c.runtime_seconds = counters.runtime_seconds + n
        /\ c.dispatch_runtime = counters.dispatch_runtime + n
        /\ c.artifact_edges = counters.artifact_edges + 1
                                + (IF v.status = "completed" THEN 1 ELSE 0)
    <3>. HIDE DEF d, v
    <3>. QED  BY <1>0, <2>7, FinishCounts
  <2>9. /\ IsFiniteSet(ed)
        /\ Cardinality(ed) = Cardinality(edge) + 1
                                + (IF v.status = "completed" THEN 1 ELSE 0)
    <3>1. activation[d].receipt = NoVerdict
      BY <1>3 DEF Finishable, Unfinished
    <3>2. \A e \in edge : e.step # d
      BY <2>2, <3>1 DEF DispatchInv, RecordedOK
    <3>3. IsFiniteSet(edge)
      BY <1>0 DEF BookInv, Reported
    <3>. HIDE DEF d, v
    <3>. QED  BY <3>2, <3>3, EdgesAdded
  <2>10. Reported'
    <3>1. \A e \in DispatchEdges(d, v) : e.step \in DispatchStep
      BY <2>2, EdgesOfDispatch
    <3>2. counters.artifact_edges = Cardinality(edge)
      BY <1>0 DEF BookInv, Reported
    <3>. HIDE DEF c, d, v
    <3>3. \A e \in edge' :
            \/ e.step \in DispatchStep
            \/ \E k \in DOMAIN claim : claim[k].outcome # None /\ e = CheckReport(k)
      BY <1>0, <2>1, <3>1 DEF BookInv, Reported
    <3>. QED  BY <2>1, <2>8, <2>9, <3>2, <3>3 DEF Reported, CheckReport
  <2>11. Ledger(counters, claim)' /\ Numbered'
    <3>1. \A s \in Step : step'[s].attempts \in Nat
                            /\ step[s].attempts <= step'[s].attempts
      <4>1. \A s \in Step : step[s].attempts \in Nat
        BY <1>0 DEF Rows
      <4>. HIDE DEF d, v
      <4>2. \A s \in Step : step'[s].attempts = step[s].attempts
        BY <1>0, <2>1, <2>2 DEF Rows
      <4>. QED  BY <4>1, <4>2
    <3>2. /\ counters'.runtime_seconds = counters.runtime_seconds + n
          /\ counters'.dispatch_runtime = counters.dispatch_runtime + n
      BY <2>1, <2>8
    <3>. QED  BY <1>0, <2>1, <2>7, <3>1, <3>2, ClaimsLeftAlone
  <2>12. BookInv'
    BY <1>0, <2>1, <2>8, <2>10, <2>11 DEF BookInv, CountersTyped
  <2>13. RowTyped'
    <3>1. ParentState(v) \in ActiveStates \cup Terminal /\ StepOutcome(v) \in Outcomes
      BY DEF ParentState, StepOutcome, ActiveStates, Terminal, Outcomes
    <3>2. ended' \in [Step -> {None} \cup Outcomes]
      BY <1>0, <2>1, <3>1 DEF RowTyped
    <3>. HIDE DEF d, v, c, en, ed
    <3>. QED  BY <1>0, <2>1, <3>1, <3>2, EnteringTyped DEF RowTyped
  <2>14. DispatchTyped'
    <3>. HIDE DEF r, d, v
    <3>1. /\ activation' \in [DispatchStep -> ActivationRow]
          /\ \A e \in DispatchStep : activation'[e].started <= clock
      BY <2>2, <2>4, <2>5, <2>6 DEF DispatchBooks, DispatchTyped
    <3>. QED  BY <1>0, <1>1, <2>1, <3>1 DEF DispatchBooks, DispatchTyped
  <2>. QED  BY <2>12, <2>13, <2>14 DEF DispatchBooks
<1>. QED  BY <1>2, <1>3

\* An operation of the workflow keeps its books beside those of dispatches.
LEMMA WorkflowBooks ==
    ASSUME DispatchInv, DispatchBooks, Next, UNCHANGED dispatchVars
    PROVE  DispatchBooks'
<1>0. Shapes /\ Rows /\ BookInv /\ CountersTyped /\ RowTyped /\ DispatchTyped
  BY DEF DispatchInv, Shapes, DispatchBooks, BookInv
<1>1. CASE Tick
  <2>1. clock' \in 0 .. MaxClock /\ clock <= clock'
    BY <1>0, <1>1, ConstantsOK DEF Tick, BookInv
  <2>2. BookInv'
    BY <1>0, <1>1, <2>1, BooksStay DEF Tick
  <2>3. RowTyped'
    BY <1>0, <1>1 DEF Tick, tables, RowTyped
  <2>4. \A d \in DispatchStep : activation'[d].started <= clock'
    <3>. SUFFICES ASSUME NEW d \in DispatchStep PROVE activation[d].started <= clock'
      BY DEF dispatchVars
    <3>1. activation[d].started \in Int /\ activation[d].started <= clock
      BY <1>0 DEF DispatchTyped, ActivationRow, NotStarted
    <3>. QED  BY <1>0, <2>1, <3>1 DEF Rows
  <2>5. DispatchTyped'
    BY <1>0, <2>4 DEF DispatchTyped, dispatchVars
  <2>. QED  BY <2>2, <2>3, <2>5 DEF DispatchBooks
<1>2. CASE ~Tick
  <2>1. Change /\ Entry
    BY <1>0, <1>2, StepEntry, StepChanges
  <2>2. clock' = clock
    BY <2>1 DEF Change
  <2>3. DispatchTyped'
    BY <1>0, <2>2 DEF DispatchTyped, dispatchVars
  <2>. QED  BY <1>0, <2>1, <2>3, EntryOK, RowStaysTyped DEF DispatchBooks
<1>. QED  BY <1>1, <1>2

LEMMA DispatchBooksInit == DispatchInit => DispatchBooks
<1>. SUFFICES ASSUME DispatchInit PROVE DispatchBooks
  OBVIOUS
<1>1. BookInv
  BY BooksInit DEF DispatchInit
<1>2. RowTyped
  BY DEF DispatchInit, Init, RowTyped, NoReceipt
<1>3. DispatchTyped
  <2>1. \A d \in DispatchStep : activation[d].started <= clock
    BY DEF DispatchInit, Init, NoActivation, NotStarted
  <2>. QED  BY <2>1, Verdicts DEF DispatchInit, DispatchTyped
<1>. QED  BY <1>1, <1>2, <1>3 DEF DispatchBooks

LEMMA DispatchBooksKept == DispatchSpec => []DispatchBooks
<1>1. DispatchInv /\ DispatchBooks /\ [DispatchNext]_allVars => DispatchBooks'
  <2>. SUFFICES ASSUME DispatchInv, DispatchBooks, [DispatchNext]_allVars
                PROVE  DispatchBooks'
    OBVIOUS
  <2>1. CASE Next /\ UNCHANGED dispatchVars
    BY <2>1, WorkflowBooks
  <2>2. CASE \E d \in DispatchStep :
                \/ RegisterPolicy(d)
                \/ ImportDecision(d)
                \/ RevokePolicy(d)
                \/ ActivateDispatch(d)
                \/ \E x \in Worker : Begin(x, d)
    BY <2>2, StandingBooks, ActivateBooks, BeginBooks
  <2>3. CASE \E x \in Worker : WorkerStep(x) \/ Die(x)
    BY <2>3, WorkerMoves, FinishBooks DEF WorkerStep
  <2>4. CASE UNCHANGED allVars
    <3>1. Rows /\ UNCHANGED tables /\ UNCHANGED clock
      BY <2>4 DEF DispatchInv, Shapes, allVars, vars, tables
    <3>2. clock' \in 0 .. MaxClock /\ clock <= clock'
      BY <3>1 DEF DispatchBooks, BookInv, Rows
    <3>3. BookInv'
      BY <3>1, <3>2, BooksStay DEF DispatchBooks
    <3>4. RowTyped' /\ DispatchTyped'
      BY <2>4 DEF DispatchBooks, RowTyped, DispatchTyped, allVars, vars, dispatchVars
    <3>. QED  BY <3>3, <3>4 DEF DispatchBooks
  <2>. QED  BY <2>1, <2>2, <2>3, <2>4 DEF DispatchNext
<1>. QED  BY DispatchBooksInit, DispatchInvariance, <1>1, PTL DEF DispatchSpec

-----------------------------------------------------------------------------
(* Theorems                                                                *)

\* However many workers compete for an activation and however often they die in
\* it, its executor is called at most once (execute_activation).
THEOREM ExecutorRunsOnce == DispatchSpec => []ExecutedOnce
<1>1. DispatchInv => ExecutedOnce
  BY DEF DispatchInv, ActivationOK, ExecutedOnce
<1>. QED  BY <1>1, DispatchInvariance, PTL

\* The receipts, the steps, the edges and the counters that dispatches share
\* with the claims of the workflow say the same, whatever order workers, a
\* revocation and the workflow's own operations take (activate,
\* _finish_activation).
THEOREM DispatchTablesAgree == DispatchSpec => []DispatchAgrees
<1>1. DispatchInv => DispatchAgrees
  <2>. SUFFICES ASSUME DispatchInv PROVE DispatchAgrees
    OBVIOUS
  <2>1. ASSUME NEW d \in DispatchStep
        PROVE  LET v == activation[d].receipt
                   roles == {e.role : e \in {f \in edge : f.step = d}}
               IN  IF v = NoVerdict
                   THEN ended[d] = None /\ roles = {}
                   ELSE /\ v.occurred => executed[d] = 1
                        /\ ended[d] = StepOutcome(v)
                        /\ step[d].state = StepOutcome(v)
                        /\ "dispatch_output" \in roles <=> v.status = "completed"
                        /\ "dispatch_receipt" \in roles
    <3>. DEFINE roles == {e.role : e \in {f \in edge : f.step = d}}
    <3>1. \A r : r \in roles <=> \E e \in edge : e.step = d /\ e.role = r
      OBVIOUS
    <3>2. RecordedOK(d)
      BY DEF DispatchInv
    <3>. HIDE DEF roles
    <3>3. (\A e \in edge : e.step # d) => roles = {}
      BY <3>1
    <3>4. IF activation[d].receipt = NoVerdict
          THEN ended[d] = None /\ roles = {}
          ELSE /\ activation[d].receipt.occurred => executed[d] = 1
               /\ ended[d] = StepOutcome(activation[d].receipt)
               /\ step[d].state = StepOutcome(activation[d].receipt)
               /\ "dispatch_output" \in roles <=> activation[d].receipt.status = "completed"
               /\ "dispatch_receipt" \in roles
      BY <3>1, <3>2, <3>3 DEF RecordedOK
    <3>. QED  BY <3>4 DEF roles
  <2>2. Totals
    BY DEF DispatchInv
  <2>. QED  BY <2>1, <2>2 DEF DispatchAgrees, Totals, UnfinishedSteps, ActivatedSteps
<1>. QED  BY <1>1, DispatchInvariance, PTL

\* A second verdict on an activation changes neither its receipt nor the step's,
\* and nothing that follows a frozen workflow receipt rewrites it
\* (_finish_activation, _freeze_receipt, _freeze_parent_receipt).
THEOREM ReceiptsStay == DispatchSpec => ReceiptsAreFinal
<1>1. DispatchInv /\ [DispatchNext]_allVars =>
        [ /\ \A d \in DispatchStep : activation[d].receipt # NoVerdict =>
                /\ activation'[d] = activation[d]
                /\ ended'[d] = ended[d]
          /\ workflow.receipt # NoReceipt => workflow'.receipt = workflow.receipt
        ]_allVars
  <2>. SUFFICES ASSUME DispatchInv, DispatchNext
                PROVE  /\ \A d \in DispatchStep : activation[d].receipt # NoVerdict =>
                            /\ activation'[d] = activation[d]
                            /\ ended'[d] = ended[d]
                       /\ workflow.receipt # NoReceipt =>
                            workflow'.receipt = workflow.receipt
    OBVIOUS
  <2>0. /\ Shapes /\ Rows /\ DOMAIN activation = DispatchStep
        /\ \A d \in DispatchStep : ActivationOK(d)
    BY DEF DispatchInv, Shapes
  <2>1. CASE Next /\ UNCHANGED dispatchVars
    <3>1. CASE Change
      BY <2>0, <2>1, <3>1, ChangeFacts DEF dispatchVars
    <3>2. CASE Tick
      BY <2>1, <3>2 DEF Tick, tables, dispatchVars
    <3>. QED  BY <2>0, <2>1, <3>1, <3>2, StepChanges
  <2>2. CASE \E d \in DispatchStep :
                \/ RegisterPolicy(d)
                \/ ImportDecision(d)
    BY <2>2 DEF RegisterPolicy, ImportDecision, vars
  <2>3. ASSUME NEW d \in DispatchStep, RevokePolicy(d) \/ \E x \in Worker : Begin(x, d)
        PROVE  /\ \A e \in DispatchStep : activation[e].receipt # NoVerdict =>
                    activation'[e] = activation[e]
               /\ UNCHANGED vars
    <3>1. /\ UNCHANGED vars
          /\ \A e \in DispatchStep \ {d} : activation'[e] = activation[e]
          /\ activation'[d] = activation[d] \/ Revocable(d) \/ Startable(d)
      BY <2>0, <2>3 DEF RevokePolicy, Begin
    <3>2. Revocable(d) \/ Startable(d) => activation[d].receipt = NoVerdict
      BY <2>0 DEF ActivationOK, Revocable, Startable
    <3>. QED  BY <3>1, <3>2
  <2>4. ASSUME NEW d \in DispatchStep, ActivateDispatch(d)
        PROVE  /\ \A e \in DispatchStep : activation[e].receipt # NoVerdict =>
                    activation'[e] = activation[e]
               /\ ended' = ended /\ workflow'.receipt = workflow.receipt
    <3>1. activation[d].receipt = NoVerdict
      BY <2>0, <2>4 DEF ActivationOK, ActivateDispatch, Ready
    <3>. QED  BY <2>0, <2>4, <3>1 DEF ActivateDispatch, Rows
  <2>5. ASSUME NEW x \in Worker, WorkerStep(x) \/ Die(x), ~Finish(x)
        PROVE  UNCHANGED <<vars, activation>>
    BY <2>5 DEF WorkerStep, Die, ToolMissing, Invoke, Return, Raise, Look, Worked
  <2>6. ASSUME NEW x \in Worker, Finish(x)
        PROVE  /\ \A e \in DispatchStep : activation[e].receipt # NoVerdict =>
                    activation'[e] = activation[e] /\ ended'[e] = ended[e]
               /\ workflow.receipt # NoReceipt => workflow'.receipt = workflow.receipt
    <3>. DEFINE d == worker[x].at
                v == worker[x].verdict
    <3>1. CASE ~Finishable(d)
      BY <2>6, <3>1 DEF Finish, vars
    <3>2. CASE Finishable(d)
      <4>1. activation[d].receipt = NoVerdict
        BY <3>2 DEF Finishable, Unfinished
      <4>2. /\ activation' = [activation EXCEPT
                    ![d].status = v.status, ![d].receipt = v]
            /\ ended' = [ended EXCEPT ![d] = StepOutcome(v)]
            /\ workflow' = Entering(ParentState(v), FinishedCounters(d, v), claim,
                    [ended EXCEPT ![d] = StepOutcome(v)], edge \cup DispatchEdges(d, v))
        BY <2>6, <3>2 DEF Finish
      <4>. HIDE DEF d, v
      <4>3. workflow.receipt # NoReceipt => workflow'.receipt = workflow.receipt
        BY <4>2 DEF Entering
      <4>4. \A e \in DispatchStep \ {d} :
                activation'[e] = activation[e] /\ ended'[e] = ended[e]
        BY <2>0, <4>2, StepOfDispatch DEF Shapes
      <4>. QED  BY <4>1, <4>3, <4>4
    <3>. QED  BY <3>1, <3>2
  <2>. QED  BY <2>1, <2>2, <2>3, <2>4, <2>5, <2>6 DEF DispatchNext, vars
<1>. QED  BY DispatchInvariance, <1>1, PTL DEF DispatchSpec, ReceiptsAreFinal

\* With dispatches on the way and workers that finish, die or come late, the
\* runtime charged to the workflow is still what its claims and its dispatches
\* account for, and the edges counted are those there are (_finish_activation
\* and _account_runtime write the same counters).
THEOREM DispatchesAreMetered == DispatchSpec => []Metered
<1>1. DispatchInv /\ DispatchBooks => Metered
  BY BooksMetered DEF DispatchInv, Shapes, DispatchBooks
<1>. QED  BY <1>1, DispatchInvariance, DispatchBooksKept, PTL

\* Every table of the workflow and of its dispatches holds what its columns
\* allow, and every worker is somewhere in execute_activation.
THEOREM DispatchTyping == DispatchSpec => []DispatchTypeOK
<1>1. DispatchInv /\ DispatchBooks => DispatchTypeOK
  BY TablesTyped DEF DispatchInv, Shapes, DispatchBooks, DispatchTypeOK, DispatchTyped,
                     ActivationRow, WorkerPlace
<1>. QED  BY <1>1, DispatchInvariance, DispatchBooksKept, PTL

=============================================================================
