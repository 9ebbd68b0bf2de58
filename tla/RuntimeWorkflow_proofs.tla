------------------------ MODULE RuntimeWorkflow_proofs ------------------------
(***************************************************************************)
(* Theorems about a runtime-provider workflow, for every valid plan,       *)
(* lease, clock and lag.                                                   *)
(*                                                                         *)
(* Every operation does one of four things to the tables: it admits a      *)
(* claim, rejects claims (none, if it only meters one), ends one with the  *)
(* outcome of its step, or stops the workflow.  The invariant relates the  *)
(* tables while the workflow is open: a step runs exactly when its latest  *)
(* attempt is the one active claim for it.                                 *)
(*                                                                         *)
(* What an operation does to the books is a matter of its own: it opens a  *)
(* claim or accounts for the running time of some, within the budget, and  *)
(* registers at most one report.  That the sums stay right rests on the    *)
(* lemmas of Sums_proofs.                                                  *)
(***************************************************************************)
EXTENDS RuntimeWorkflow, Sums_proofs, SequenceTheorems

Open == workflow.state \in {"absent"} \cup ActiveStates

Rows ==
    /\ clock \in Nat
    /\ DOMAIN workflow = {"state", "receipt"}
    /\ step \in [Step -> [state : StepStates, attempts : Nat]]
    /\ claim \in Seq(Claim)
    /\ DOMAIN counters = DOMAIN Zero
    /\ counters.active_steps \in Int

\* No step has two active claims.
OneClaim ==
    \A i, k \in ActiveClaims(claim) : claim[i].step = claim[k].step => i = k

\* The counters of an open workflow tell its active claims.
Books ==
    /\ counters.active_steps = Cardinality(ActiveClaims(claim))
    /\ counters.active_dispatches = 0

\* Running steps and active claims are in step.
InStep ==
    /\ \A i \in ActiveClaims(claim) :
        /\ claim[i].step \notin DispatchStep
        /\ step[claim[i].step].state = "running"
        /\ step[claim[i].step].attempts = claim[i].attempt
    /\ \A s \in Step : step[s].state = "running" =>
            \E i \in ActiveClaims(claim) : claim[i].step = s

\* The outcomes of an open workflow are successes, and one for each step that
\* has succeeded.
Succeeded(cl, st) ==
    /\ \A i \in DOMAIN cl : cl[i].outcome \in {None, "succeeded"}
    /\ \A s \in Step : st[s].state = "succeeded" =>
            \E i \in DOMAIN cl : cl[i].step = s /\ cl[i].outcome = "succeeded"

\* The receipt of a workflow that is not open.
Told ==
    /\ workflow.state \in Terminal
    /\ workflow.receipt = ReceiptOf(workflow.state, counters, claim, ended, edge)
    /\ workflow.state = "completed" =>
            workflow.receipt.steps = [step : Step, status : {"succeeded"}]

IndInv ==
    /\ Rows
    /\ ended = [s \in Step |-> None]
    /\ AttemptsInOrder
    /\ OneClaim
    /\ Open =>
        /\ Books
        /\ InStep
        /\ Succeeded(claim, step)
        /\ workflow.receipt = NoReceipt
    /\ ~Open => Told

-----------------------------------------------------------------------------
(* What an operation may do                                                *)

\* cl is the claims, of which only active ones have changed, but for their step
\* and attempt.
Carries(cl) ==
    /\ cl \in Seq(Claim)
    /\ Len(cl) = Len(claim)
    /\ \A k \in DOMAIN claim :
        /\ cl[k].step = claim[k].step
        /\ cl[k].attempt = claim[k].attempt
        /\ claim[k].status # "active" => cl[k] = claim[k]

SameOutcomes(cl) == \A k \in DOMAIN claim : cl[k].outcome = claim[k].outcome

\* c is the counters, with n steps active and nothing new about dispatches.
Counts(c, n) ==
    /\ DOMAIN c = DOMAIN Zero
    /\ c.active_steps = n
    /\ c.active_dispatches = counters.active_dispatches
    /\ c.dispatch_attempts = counters.dispatch_attempts

GoesOn ==
    /\ DOMAIN workflow' = {"state", "receipt"}
    /\ workflow'.state \in ActiveStates
    /\ workflow'.receipt = workflow.receipt

Admits(s) ==
    /\ Ready(s) /\ s \notin DispatchStep
    /\ step[s].attempts < MaxAttempts[s]
    /\ \E c \in Claim :
        /\ claim' = Append(claim, c)
        /\ c.step = s /\ c.attempt = step[s].attempts + 1
        /\ c.status = "active" /\ c.outcome = None
    /\ step' = [step EXCEPT ![s] = [state |-> "running", attempts |-> @.attempts + 1]]
    /\ Counts(counters', counters.active_steps + 1)
    /\ GoesOn

Rejects(I) ==
    /\ I \subseteq ActiveClaims(claim)
    /\ \A k \in I : claim[k].expires < clock
    /\ Carries(claim') /\ SameOutcomes(claim')
    /\ \A k \in DOMAIN claim :
            claim'[k].status = IF k \in I THEN "stale_rejected" ELSE claim[k].status
    /\ step' = Reopened(I)
    /\ Counts(counters', counters.active_steps - Cardinality(I))
    /\ GoesOn

Ends(i, status) ==
    /\ i \in ActiveClaims(claim) /\ status \in Outcomes
    /\ Carries(claim')
    /\ claim'[i].status = status /\ claim'[i].outcome = status
    /\ \A k \in DOMAIN claim \ {i} : claim'[k] = claim[k]
    /\ step' = [step EXCEPT ![claim[i].step].state = status]
    /\ Counts(counters', counters.active_steps - 1)
    /\ workflow' = Entering(AfterOutcome(claim[i].step, status),
                            counters', claim', ended', edge')

Stops ==
    /\ Carries(claim') /\ SameOutcomes(claim')
    /\ ActiveClaims(claim') = {}
    /\ Counts(counters', 0)
    /\ \E I \in SUBSET ActiveClaims(claim) : step' = Reopened(I)
    /\ \E state \in Terminal \ {"completed"} :
            workflow' = Entering(state, counters', claim', ended', edge')

Change ==
    /\ Open /\ UNCHANGED <<clock, ended>>
    /\ edge \subseteq edge' /\ \A e \in edge' \ edge : e.step \notin DispatchStep
    /\ \/ \E s \in Step : Admits(s)
       \/ \E I \in SUBSET DOMAIN claim : Rejects(I)
       \/ \E i \in DOMAIN claim, status \in Outcomes : Ends(i, status)
       \/ Stops

-----------------------------------------------------------------------------
(* Claims                                                                  *)

LEMMA Settable ==
    ASSUME NEW c \in Claim
    PROVE  /\ \A v \in {"active", "stale_rejected"} \cup Outcomes :
                    [c EXCEPT !.status = v] \in Claim
           /\ \A v \in Nat : [c EXCEPT !.accounted = v] \in Claim
           /\ \A v \in Nat : [c EXCEPT !.expires = v] \in Claim
           /\ \A v \in Nat : [c EXCEPT !.sequence = v] \in Claim
           /\ \A v \in Nat : [c EXCEPT !.bytes = v] \in Claim
           /\ \A v \in Nat : [c EXCEPT !.tools = v] \in Claim
           /\ \A v \in {None} \cup Outcomes : [c EXCEPT !.outcome = v] \in Claim
BY DEF Claim

LEMMA ClaimTyped ==
    ASSUME Rows, NEW k \in DOMAIN claim
    PROVE  claim[k] \in Claim /\ claim[k].step \in Step
<1>1. claim[k] \in Claim
  BY DEF Rows
<1>. QED  BY <1>1 DEF Claim

LEMMA Readable ==
    ASSUME Rows, NEW now \in Readings
    PROVE  now \in Nat /\ now <= clock
BY DEF Readings, Rows

LEMMA DeltaOK ==
    ASSUME Rows, NEW i \in DOMAIN claim, NEW now \in Nat
    PROVE  Delta(i, now) \in Nat
<1>1. claim[i] \in Claim
  BY DEF Rows
<1>2. claim[i].started \in Nat /\ claim[i].accounted \in Nat
  BY <1>1 DEF Claim
<1>. QED  BY <1>2 DEF Delta, Elapsed

\* One claim is rewritten, the others stay.
LEMMA Rewritten ==
    ASSUME NEW cl \in Seq(Claim), NEW i \in DOMAIN cl, NEW c \in Claim
    PROVE  /\ [cl EXCEPT ![i] = c] \in Seq(Claim)
           /\ Len([cl EXCEPT ![i] = c]) = Len(cl)
           /\ [cl EXCEPT ![i] = c][i] = c
           /\ \A k \in DOMAIN cl \ {i} : [cl EXCEPT ![i] = c][k] = cl[k]
OBVIOUS

LEMMA MeteredOK ==
    ASSUME Rows, NEW I \in SUBSET ActiveClaims(claim), NEW now \in Nat
    PROVE  LET cl == MeteredClaims(I, now)
           IN  /\ Carries(cl) /\ SameOutcomes(cl)
               /\ \A k \in DOMAIN claim : cl[k].status = claim[k].status
<1>. DEFINE cl == MeteredClaims(I, now)
            n == Len(claim)
<1>1. n \in Nat /\ DOMAIN claim = 1 .. n
  BY DEF Rows
<1>2. ASSUME NEW k \in 1 .. n
      PROVE  /\ cl[k] \in Claim
             /\ cl[k] = claim[k] \/ k \in I
             /\ cl[k].step = claim[k].step
             /\ cl[k].attempt = claim[k].attempt
             /\ cl[k].outcome = claim[k].outcome
             /\ cl[k].status = claim[k].status
  <2>0. claim[k] \in Claim
    BY <1>1 DEF Rows
  <2>1. claim[k] \in Claim /\ Delta(k, now) \in Nat
    BY <1>1, <2>0, DeltaOK
  <2>2. claim[k].accounted + Delta(k, now) \in Nat
    BY <2>1 DEF Claim
  <2>3. cl[k] = IF k \in I
                THEN [claim[k] EXCEPT !.accounted = claim[k].accounted + Delta(k, now)]
                ELSE claim[k]
    BY <1>1 DEF MeteredClaims
  <2>4. cl[k] \in Claim
    BY <2>1, <2>2, <2>3, Settable
  <2>. QED  BY <2>1, <2>3, <2>4 DEF Claim
<1>3. cl \in [1 .. n -> Claim]
  BY <1>1, <1>2 DEF MeteredClaims
<1>4. cl \in Seq(Claim) /\ Len(cl) = n
  BY <1>1, <1>3
<1>5. \A k \in I : claim[k].status = "active"
  BY DEF ActiveClaims
<1>. QED  BY <1>1, <1>2, <1>4, <1>5 DEF Carries, SameOutcomes

LEMMA WithdrawnOK ==
    ASSUME Rows, NEW cl, Carries(cl), SameOutcomes(cl),
           NEW status \in {"stale_rejected", "cancelled"}
    PROVE  /\ Carries(Withdrawn(cl, status)) /\ SameOutcomes(Withdrawn(cl, status))
           /\ ActiveClaims(Withdrawn(cl, status)) = {}
<1>. DEFINE new == Withdrawn(cl, status)
            n == Len(claim)
<1>1. n \in Nat /\ DOMAIN claim = 1 .. n /\ DOMAIN cl = 1 .. n
  BY DEF Rows, Carries
<1>2. ASSUME NEW k \in 1 .. n
      PROVE  /\ new[k] \in Claim
             /\ new[k].step = claim[k].step
             /\ new[k].attempt = claim[k].attempt
             /\ new[k].outcome = claim[k].outcome
             /\ new[k].status # "active"
             /\ claim[k].status # "active" => new[k] = claim[k]
  <2>1. cl[k] \in Claim
    BY <1>1 DEF Carries
  <2>2. new[k] = IF cl[k].status = "active" THEN [cl[k] EXCEPT !.status = status]
                                           ELSE cl[k]
    BY <1>1 DEF Withdrawn
  <2>. status \in {"active", "stale_rejected"} \cup Outcomes
    BY DEF Outcomes
  <2>. HIDE DEF new
  <2>3. new[k] \in Claim
    BY <2>1, <2>2, Settable
  <2>4. /\ new[k].step = cl[k].step
        /\ new[k].attempt = cl[k].attempt
        /\ new[k].outcome = cl[k].outcome
        /\ new[k].status # "active"
    BY <2>1, <2>2 DEF Claim
  <2>. QED  BY <1>1, <2>2, <2>3, <2>4 DEF Carries, SameOutcomes
<1>3. new \in [1 .. n -> Claim]
  BY <1>1, <1>2 DEF Withdrawn
<1>4. new \in Seq(Claim) /\ Len(new) = n
  BY <1>1, <1>3
<1>. QED  BY <1>1, <1>2, <1>3, <1>4 DEF Carries, SameOutcomes, ActiveClaims

\* A spent budget stops the workflow, whatever was changed before.
LEMMA ExhaustStops ==
    ASSUME Rows, NEW c, NEW n, Counts(c, n),
           NEW cl, Carries(cl), SameOutcomes(cl), Exhaust(c, cl),
           NEW I \in SUBSET ActiveClaims(claim), step' = Reopened(I)
    PROVE  Stops
<1>1. Carries(claim') /\ SameOutcomes(claim') /\ ActiveClaims(claim') = {}
  BY WithdrawnOK DEF Exhaust
<1>2. workflow' = Entering("failed", counters', claim', ended', edge')
  BY DEF Exhaust
<1>3. Counts(counters', 0)
  BY DEF Exhaust, Counts, Zero
<1>. QED  BY <1>1, <1>2, <1>3 DEF Stops, Terminal

LEMMA ReopenedNone == ASSUME Rows PROVE Reopened({}) = step
BY DEF Rows, Reopened

LEMMA CountersKept ==
    ASSUME Rows PROVE Counts(counters, counters.active_steps)
BY DEF Rows, Counts

LEMMA ClaimsCarried ==
    ASSUME Rows PROVE Carries(claim) /\ SameOutcomes(claim)
BY DEF Rows, Carries, SameOutcomes

-----------------------------------------------------------------------------
(* Each operation changes the tables in one of those ways                  *)

LEMMA ActivateChanges ==
    ASSUME Rows, NEW s \in Step, NEW now \in Readings, NEW lease \in LeaseSeconds,
           Activate(s, now, lease)
    PROVE  Change
<1>1. Open /\ UNCHANGED <<clock, edge, ended>>
  BY DEF Activate, Open, Exhaust
<1>2. CASE AttemptsSpent(s)
  <2>1. Exhaust(counters, claim) /\ step' = step
    BY <1>2 DEF Activate
  <2>2. Stops
    BY <2>1, ReopenedNone, ClaimsCarried, CountersKept, ExhaustStops
  <2>. QED  BY <1>1, <2>2 DEF Change
<1>3. CASE ~AttemptsSpent(s)
  <2>. DEFINE c == NewClaim(s, step[s].attempts + 1, now, lease)
  <2>1. /\ claim' = Append(claim, c)
        /\ step' = [step EXCEPT ![s] = [state |-> "running", attempts |-> @.attempts + 1]]
        /\ workflow' = [workflow EXCEPT !.state = "running"]
        /\ Ready(s) /\ s \notin DispatchStep
    BY <1>3 DEF Activate
  <2>2. step[s].attempts \in Nat /\ MaxAttempts[s] \in Nat /\ now + lease \in Nat
    <3>1. step[s] \in [state : StepStates, attempts : Nat]
      BY DEF Rows
    <3>2. now \in Nat /\ lease \in Nat
      BY Readable, ConstantsOK
    <3>. QED  BY <3>1, <3>2, ConstantsOK
  <2>3. step[s].attempts < MaxAttempts[s]
    BY <1>3, <2>2 DEF AttemptsSpent
  <2>4. c \in Claim
    BY <2>2, Readable DEF NewClaim, Claim
  <2>5. /\ c.step = s /\ c.attempt = step[s].attempts + 1
        /\ c.status = "active" /\ c.outcome = None
    BY DEF NewClaim
  <2>6. GoesOn
    BY <2>1 DEF GoesOn, Rows, ActiveStates
  <2>7. Counts(counters', counters.active_steps + 1)
    BY <1>1, <1>3 DEF Rows, Activate, Counts, Zero, AttemptCounter
  <2>. HIDE DEF c
  <2>8. Admits(s)
    BY <2>1, <2>3, <2>4, <2>5, <2>6, <2>7 DEF Admits
  <2>. QED  BY <1>1, <2>8 DEF Change
<1>. QED  BY <1>2, <1>3

\* A claim that is only metered, and written to where it is the caller's.
LEMMA MeterChanges ==
    ASSUME Rows, Open, UNCHANGED <<clock, edge, ended, step, workflow>>,
           workflow.state \in ActiveStates,
           Carries(claim'), SameOutcomes(claim'),
           \A k \in DOMAIN claim : claim'[k].status = claim[k].status,
           Counts(counters', counters.active_steps)
    PROVE  Change
<1>1. Cardinality({}) = 0
  BY FS_EmptySet
<1>2. counters.active_steps - Cardinality({}) = counters.active_steps
  BY <1>1 DEF Rows
<1>3. Rejects({})
  BY <1>2, ReopenedNone DEF Rejects, GoesOn, Rows
<1>. QED  BY <1>3 DEF Change

LEMMA HeldClaim ==
    ASSUME Rows, NEW i \in DOMAIN claim, NEW now \in Readings, Holds(i, now)
    PROVE  /\ Open /\ i \in ActiveClaims(claim) /\ now \in Nat
           /\ Carries(MeteredClaims({i}, now))
           /\ SameOutcomes(MeteredClaims({i}, now))
           /\ \A k \in DOMAIN claim :
                /\ MeteredClaims({i}, now)[k].status = claim[k].status
                /\ k # i => MeteredClaims({i}, now)[k] = claim[k]
           /\ Counts(MeteredCounters({i}, now), counters.active_steps)
<1>1. Open /\ i \in ActiveClaims(claim) /\ now \in Nat
  BY Readable DEF Holds, Open, ActiveClaims
<1>2. Counts(MeteredCounters({i}, now), counters.active_steps)
  BY <1>1 DEF Rows, Counts, MeteredCounters, Zero
<1>3. \A k \in DOMAIN claim : k # i => MeteredClaims({i}, now)[k] = claim[k]
  BY DEF MeteredClaims
<1>. QED  BY <1>1, <1>2, <1>3, MeteredOK

LEMMA SpentChanges ==
    ASSUME Rows, Open, UNCHANGED <<clock, step>>,
           NEW c, NEW n, Counts(c, n),
           NEW cl, Carries(cl), SameOutcomes(cl), Exhaust(c, cl)
    PROVE  Change
<1>1. Stops
  BY ReopenedNone, ExhaustStops
<1>. QED  BY <1>1 DEF Change, Exhaust

\* Fields of the caller's claim that say nothing of its state.
LEMMA Noted ==
    ASSUME Rows, NEW i \in ActiveClaims(claim), NEW cl, Carries(cl), SameOutcomes(cl),
           \A k \in DOMAIN claim : cl[k].status = claim[k].status,
           NEW c \in Claim,
           c.step = cl[i].step, c.attempt = cl[i].attempt
    PROVE  /\ Carries([cl EXCEPT ![i] = c])
           /\ c.status = cl[i].status /\ c.outcome = cl[i].outcome =>
                /\ SameOutcomes([cl EXCEPT ![i] = c])
                /\ \A k \in DOMAIN claim :
                        [cl EXCEPT ![i] = c][k].status = claim[k].status
<1>1. /\ DOMAIN cl = DOMAIN claim /\ i \in DOMAIN claim
      /\ claim[i].status = "active"
  BY DEF Carries, Rows, ActiveClaims
<1>. QED  BY <1>1, Rewritten DEF Carries, SameOutcomes

LEMMA RenewChanges ==
    ASSUME Rows, NEW i \in DOMAIN claim, NEW now \in Readings,
           NEW lease \in LeaseSeconds, Renew(i, now, lease)
    PROVE  Change
<1>. DEFINE cl == MeteredClaims({i}, now)
<1>0. Holds(i, now)
  BY DEF Renew
<1>1. CASE OverRuntime({i}, now)
  BY <1>0, <1>1, HeldClaim, ClaimsCarried, CountersKept, SpentChanges DEF Renew
<1>2. CASE ~OverRuntime({i}, now)
  <2>. DEFINE c == [cl[i] EXCEPT !.expires = now + lease]
  <2>1. claim' = [cl EXCEPT ![i] = c] /\ UNCHANGED <<clock, edge, ended, step, workflow>>
    BY <1>2 DEF Renew
  <2>0. /\ Carries(cl) /\ SameOutcomes(cl)
        /\ \A k \in DOMAIN claim : cl[k].status = claim[k].status
        /\ i \in ActiveClaims(claim) /\ now \in Nat /\ lease \in Nat
    BY <1>0, HeldClaim, ConstantsOK
  <2>2. cl[i] \in Claim /\ now + lease \in Nat
    BY <2>0 DEF Carries, Rows
  <2>3. c \in Claim
    BY <2>2, Settable
  <2>4. /\ c.step = cl[i].step /\ c.attempt = cl[i].attempt
        /\ c.status = cl[i].status /\ c.outcome = cl[i].outcome
    BY <2>2 DEF Claim
  <2>. HIDE DEF c, cl
  <2>5. /\ Carries(claim') /\ SameOutcomes(claim')
        /\ \A k \in DOMAIN claim : claim'[k].status = claim[k].status
    <3>1. /\ Carries([cl EXCEPT ![i] = c]) /\ SameOutcomes([cl EXCEPT ![i] = c])
          /\ \A k \in DOMAIN claim :
                [cl EXCEPT ![i] = c][k].status = claim[k].status
      BY <2>0, <2>3, <2>4, Noted
    <3>. QED  BY <2>1, <3>1
  <2>6. Counts(counters', counters.active_steps) /\ workflow.state \in ActiveStates
    BY <1>0, <1>2, HeldClaim DEF Renew, Holds
  <2>. QED  BY <1>0, <2>1, <2>5, <2>6, HeldClaim, MeterChanges
<1>. QED  BY <1>1, <1>2

LEMMA ReplayChanges ==
    ASSUME Rows, NEW i \in DOMAIN claim, NEW now \in Readings, Replay(i, now)
    PROVE  Change
<1>0. Holds(i, now)
  BY DEF Replay
<1>1. CASE OverRuntime({i}, now)
  BY <1>0, <1>1, HeldClaim, ClaimsCarried, CountersKept, SpentChanges DEF Replay
<1>2. CASE ~OverRuntime({i}, now)
  BY <1>0, <1>2, HeldClaim, MeterChanges DEF Replay, Holds
<1>. QED  BY <1>1, <1>2

LEMMA EventChanges ==
    ASSUME Rows, NEW i \in DOMAIN claim, NEW now \in Readings,
           NEW size \in EventBytes, NEW tool \in BOOLEAN, Event(i, now, size, tool)
    PROVE  Change
<1>. DEFINE cl == MeteredClaims({i}, now)
            c1 == MeteredCounters({i}, now)
            c2 == [c1 EXCEPT !.event_bytes = @ + size]
            n == IF tool THEN 1 ELSE 0
<1>0. Holds(i, now) /\ UNCHANGED <<clock, step>>
  BY DEF Event
<1>1. /\ Carries(cl) /\ SameOutcomes(cl)
      /\ \A k \in DOMAIN claim : cl[k].status = claim[k].status
      /\ i \in ActiveClaims(claim) /\ Open
      /\ Counts(c1, counters.active_steps)
  BY <1>0, HeldClaim
<1>2. \/ Exhaust(counters, claim)
      \/ Exhaust(c1, cl)
      \/ Exhaust(c2, cl)
      \/ /\ counters' = [c2 EXCEPT !.external_operations = @ + n]
         /\ claim' = [cl EXCEPT ![i].sequence = @ + 1, ![i].bytes = @ + size,
                                ![i].tools = @ + n]
         /\ UNCHANGED <<workflow, edge, ended>>
  BY DEF Event
<1>3. CASE Exhaust(counters, claim)
  BY <1>0, <1>1, <1>3, ClaimsCarried, CountersKept, SpentChanges
<1>4. CASE Exhaust(c1, cl)
  <2>. HIDE DEF c1, cl
  <2>. QED  BY <1>0, <1>1, <1>4, SpentChanges
<1>5. CASE Exhaust(c2, cl)
  <2>1. Counts(c2, counters.active_steps)
    BY <1>1 DEF Counts, Zero
  <2>. HIDE DEF c2, cl
  <2>. QED  BY <1>0, <1>1, <1>5, <2>1, SpentChanges
<1>6. CASE /\ counters' = [c2 EXCEPT !.external_operations = @ + n]
           /\ claim' = [cl EXCEPT ![i].sequence = @ + 1, ![i].bytes = @ + size,
                                  ![i].tools = @ + n]
           /\ UNCHANGED <<workflow, edge, ended>>
  <2>. DEFINE e1 == [cl[i] EXCEPT !.sequence = cl[i].sequence + 1]
              e2 == [e1 EXCEPT !.bytes = cl[i].bytes + size]
              e3 == [e2 EXCEPT !.tools = cl[i].tools + n]
  <2>1. cl[i] \in Claim /\ size \in Nat /\ n \in Nat
    BY <1>1, ConstantsOK DEF Carries, Rows
  <2>. HIDE DEF cl, n
  <2>2. /\ cl[i].sequence + 1 \in Nat
        /\ cl[i].bytes + size \in Nat /\ cl[i].tools + n \in Nat
    BY <2>1 DEF Claim
  <2>3. claim' = [cl EXCEPT ![i] = e3]
    BY <1>6, <2>1 DEF Claim
  <2>4. /\ e3.step = cl[i].step /\ e3.attempt = cl[i].attempt
        /\ e3.status = cl[i].status /\ e3.outcome = cl[i].outcome
    BY <2>1 DEF Claim
  <2>5. e1 \in Claim
    BY <2>1, <2>2, Settable
  <2>6. e2 \in Claim
    BY <2>2, <2>5, Settable
  <2>7. e3 \in Claim
    BY <2>2, <2>6, Settable
  <2>. HIDE DEF e3
  <2>8. /\ Carries(claim') /\ SameOutcomes(claim')
        /\ \A k \in DOMAIN claim : claim'[k].status = claim[k].status
    <3>1. /\ Carries([cl EXCEPT ![i] = e3]) /\ SameOutcomes([cl EXCEPT ![i] = e3])
          /\ \A k \in DOMAIN claim :
                [cl EXCEPT ![i] = e3][k].status = claim[k].status
      BY <1>1, <2>4, <2>7, Noted
    <3>. QED  BY <2>3, <3>1
  <2>9. Counts(counters', counters.active_steps)
    BY <1>1, <1>6 DEF Counts, Zero
  <2>. QED  BY <1>0, <1>1, <1>6, <2>8, <2>9, MeterChanges DEF Holds
<1>. QED  BY <1>2, <1>3, <1>4, <1>5, <1>6

LEMMA OutcomeChanges ==
    ASSUME Rows, NEW i \in DOMAIN claim, NEW now \in Readings,
           NEW status \in Outcomes, NEW reported \in BOOLEAN, NEW size \in ReportBytes,
           Outcome(i, now, status, reported, size)
    PROVE  Change
<1>. DEFINE cl == MeteredClaims({i}, now)
            c1 == MeteredCounters({i}, now)
            done == [cl EXCEPT ![i].status = status, ![i].outcome = status,
                               ![i].sequence = @ + 1]
            ed == edge \cup (IF reported THEN {CheckReport(i)} ELSE {})
            c2 == [c1 EXCEPT !.active_steps = @ - 1,
                             !.artifact_bytes = @ + (IF reported THEN size ELSE 0),
                             !.artifact_edges = @ + (IF reported THEN 1 ELSE 0)]
<1>0. Holds(i, now) /\ UNCHANGED clock
  BY DEF Outcome
<1>1. /\ Carries(cl) /\ SameOutcomes(cl)
      /\ \A k \in DOMAIN claim \ {i} : cl[k] = claim[k]
      /\ i \in ActiveClaims(claim) /\ Open
      /\ Counts(c1, counters.active_steps)
  BY <1>0, HeldClaim
<1>2. \/ Exhaust(counters, claim) /\ UNCHANGED step
      \/ Exhaust(c1, cl) /\ UNCHANGED step
      \/ /\ counters' = c2
         /\ claim' = done
         /\ edge' = ed
         /\ step' = [step EXCEPT ![claim[i].step].state = status]
         /\ workflow' = Entering(AfterOutcome(claim[i].step, status), c2, done, ended, ed)
         /\ UNCHANGED ended
  BY DEF Outcome
<1>3. CASE Exhaust(counters, claim) /\ UNCHANGED step
  BY <1>0, <1>1, <1>3, ClaimsCarried, CountersKept, SpentChanges
<1>4. CASE Exhaust(c1, cl) /\ UNCHANGED step
  <2>. HIDE DEF c1, cl
  <2>. QED  BY <1>0, <1>1, <1>4, SpentChanges
<1>5. CASE /\ counters' = c2
           /\ claim' = done
           /\ edge' = ed
           /\ step' = [step EXCEPT ![claim[i].step].state = status]
           /\ workflow' = Entering(AfterOutcome(claim[i].step, status), c2, done, ended, ed)
           /\ UNCHANGED ended
  <2>. DEFINE e1 == [cl[i] EXCEPT !.status = status]
              e2 == [e1 EXCEPT !.outcome = status]
              e3 == [e2 EXCEPT !.sequence = cl[i].sequence + 1]
  <2>1. cl[i] \in Claim /\ i \in DOMAIN cl /\ DOMAIN cl = DOMAIN claim
    BY <1>1 DEF Carries, Rows
  <2>2. /\ cl[i].sequence + 1 \in Nat
        /\ status \in {"active", "stale_rejected"} \cup Outcomes
        /\ status \in {None} \cup Outcomes
    BY <2>1 DEF Claim
  <2>3. done = [cl EXCEPT ![i] = e3]
    BY <2>1 DEF Claim
  <2>4. /\ e3.step = cl[i].step /\ e3.attempt = cl[i].attempt
        /\ e3.status = status /\ e3.outcome = status
    BY <2>1 DEF Claim
  <2>. HIDE DEF cl
  <2>5. e1 \in Claim
    BY <2>1, <2>2, Settable
  <2>6. e2 \in Claim
    BY <2>2, <2>5, Settable
  <2>7. e3 \in Claim
    BY <2>2, <2>6, Settable
  <2>8. Counts(counters', counters.active_steps - 1)
    BY <1>1, <1>5 DEF Counts, Zero
  <2>. HIDE DEF e3, done, ed, c2
  <2>9. /\ Carries(claim')
        /\ claim'[i].status = status /\ claim'[i].outcome = status
        /\ \A k \in DOMAIN claim \ {i} : claim'[k] = claim[k]
    <3>1. Carries([cl EXCEPT ![i] = e3])
      <4>1. \A k \in DOMAIN claim \ {i} : cl[k].status = claim[k].status
        BY <1>1
      <4>2. cl[i].status = claim[i].status
        BY <1>0, HeldClaim DEF cl
      <4>. QED  BY <1>1, <2>4, <2>7, <4>1, <4>2, Noted
    <3>2. /\ [cl EXCEPT ![i] = e3][i] = e3
          /\ \A k \in DOMAIN claim \ {i} : [cl EXCEPT ![i] = e3][k] = cl[k]
      BY <2>1
    <3>. QED  BY <1>1, <1>5, <2>3, <2>4, <3>1, <3>2
  <2>10. Ends(i, status)
    BY <1>1, <1>5, <2>8, <2>9 DEF Ends
  <2>11. edge \subseteq edge' /\ \A e \in edge' \ edge : e.step \notin DispatchStep
    <3>1. reported => CheckReport(i).step \notin DispatchStep
      BY DEF Outcome, CheckReport, CheckStep, DispatchStep, IsA
    <3>. QED  BY <1>5, <3>1 DEF ed
  <2>. QED  BY <1>0, <1>1, <1>5, <2>10, <2>11 DEF Change
<1>. QED  BY <1>2, <1>3, <1>4, <1>5

LEMMA CancelChanges ==
    ASSUME Rows, Cancel
    PROVE  Change
<1>1. /\ Carries(claim') /\ SameOutcomes(claim')
      /\ ActiveClaims(claim') = {}
  BY ClaimsCarried, WithdrawnOK DEF Cancel
<1>2. step' = Reopened({})
  BY ReopenedNone DEF Cancel
<1>3. workflow' = Entering("cancelled", counters', claim', ended', edge')
  BY DEF Cancel
<1>4. Counts(counters', 0)
  BY DEF Cancel, Rows, Counts, Zero
<1>5. Stops
  BY <1>1, <1>2, <1>3, <1>4 DEF Stops, Terminal
<1>. QED  BY <1>5 DEF Change, Cancel, Open

LEMMA RejectedOK ==
    ASSUME Rows, NEW I \in SUBSET ActiveClaims(claim), NEW now \in Nat
    PROVE  LET cl == Rejected(I, now)
           IN  /\ Carries(cl) /\ SameOutcomes(cl)
               /\ \A k \in DOMAIN claim :
                    cl[k].status = IF k \in I THEN "stale_rejected" ELSE claim[k].status
<1>. DEFINE m == MeteredClaims(I, now)
            cl == Rejected(I, now)
            n == Len(claim)
<1>1. n \in Nat /\ DOMAIN claim = 1 .. n
  BY DEF Rows
<1>2. Carries(m) /\ SameOutcomes(m)
  BY MeteredOK
<1>3. ASSUME NEW k \in 1 .. n
      PROVE  /\ cl[k] \in Claim
             /\ cl[k] = claim[k] \/ k \in I
             /\ cl[k].step = claim[k].step
             /\ cl[k].attempt = claim[k].attempt
             /\ cl[k].outcome = claim[k].outcome
             /\ cl[k].status = IF k \in I THEN "stale_rejected" ELSE claim[k].status
  <2>1. cl[k] = IF k \in I THEN [m[k] EXCEPT !.status = "stale_rejected"] ELSE claim[k]
    BY <1>1 DEF Rejected
  <2>. HIDE DEF m, cl
  <2>2. m[k] \in Claim /\ claim[k] \in Claim
    BY <1>1, <1>2 DEF Carries, Rows
  <2>3. [m[k] EXCEPT !.status = "stale_rejected"] \in Claim
    BY <2>2, Settable
  <2>4. /\ m[k].step = claim[k].step /\ m[k].attempt = claim[k].attempt
        /\ m[k].outcome = claim[k].outcome
    BY <1>1, <1>2 DEF Carries, SameOutcomes
  <2>5. CASE k \in I
    <3>1. /\ cl[k].step = m[k].step /\ cl[k].attempt = m[k].attempt
          /\ cl[k].outcome = m[k].outcome /\ cl[k].status = "stale_rejected"
      BY <2>1, <2>2, <2>5 DEF Claim
    <3>. QED  BY <2>1, <2>3, <2>4, <2>5, <3>1
  <2>6. CASE k \notin I
    BY <2>1, <2>2, <2>6
  <2>. QED  BY <2>5, <2>6
<1>4. cl \in [1 .. n -> Claim]
  BY <1>1, <1>3 DEF Rejected
<1>5. cl \in Seq(Claim) /\ Len(cl) = n
  BY <1>1, <1>4
<1>6. \A k \in I : claim[k].status = "active"
  BY DEF ActiveClaims
<1>. HIDE DEF cl
<1>7. Carries(cl) /\ SameOutcomes(cl)
  BY <1>1, <1>3, <1>5, <1>6 DEF Carries, SameOutcomes
<1>. QED  BY <1>1, <1>3, <1>7 DEF cl

LEMMA ReconcileChanges ==
    ASSUME Rows, NEW now \in Readings, Reconcile(now)
    PROVE  Change
<1>. DEFINE over == {i \in Expired(now) :
                        OverRuntime({k \in Expired(now) : k <= i}, now)}
            fit == Expired(now) \ over
<1>1. /\ fit \in SUBSET ActiveClaims(claim) /\ fit \in SUBSET DOMAIN claim
      /\ now \in Nat
    BY Readable DEF Expired, ActiveClaims
<1>2. \A k \in fit : claim[k].expires < clock
  <2>. SUFFICES ASSUME NEW k \in fit PROVE claim[k].expires < clock
    OBVIOUS
  <2>1. claim[k] \in Claim
    BY <1>1 DEF Rows
  <2>2. claim[k].expires < now /\ claim[k].expires \in Nat
    BY <2>1 DEF Expired, Claim
  <2>. QED  BY <1>1, <2>2, Readable DEF Rows
<1>3. Open /\ UNCHANGED clock /\ step' = Reopened(fit)
  BY DEF Reconcile, Open
<1>4. \/ /\ counters' = RejectedCounters(fit, now)
         /\ claim' = Rejected(fit, now)
         /\ UNCHANGED <<workflow, edge, ended>>
      \/ Exhaust(RejectedCounters(fit, now), Rejected(fit, now))
  BY DEF Reconcile
<1>. HIDE DEF fit
<1>5. /\ Carries(Rejected(fit, now)) /\ SameOutcomes(Rejected(fit, now))
      /\ \A k \in DOMAIN claim : Rejected(fit, now)[k].status =
                IF k \in fit THEN "stale_rejected" ELSE claim[k].status
  BY <1>1, RejectedOK
<1>6. CASE /\ counters' = RejectedCounters(fit, now)
           /\ claim' = Rejected(fit, now)
           /\ UNCHANGED <<workflow, edge, ended>>
  <2>1. Counts(counters', counters.active_steps - Cardinality(fit))
    BY <1>3, <1>6 DEF Rows, Counts, RejectedCounters, MeteredCounters, Zero
  <2>2. GoesOn
    BY <1>6 DEF Reconcile, GoesOn, Rows
  <2>3. Rejects(fit)
    BY <1>1, <1>2, <1>3, <1>5, <1>6, <2>1, <2>2 DEF Rejects
  <2>. QED  BY <1>1, <1>3, <1>6, <2>3 DEF Change
<1>7. CASE Exhaust(RejectedCounters(fit, now), Rejected(fit, now))
  <2>1. Counts(RejectedCounters(fit, now), counters.active_steps - Cardinality(fit))
    BY DEF Rows, Counts, RejectedCounters, MeteredCounters, Zero
  <2>2. Stops
    BY <1>1, <1>3, <1>5, <1>7, <2>1, ExhaustStops
  <2>. QED  BY <1>3, <1>7, <2>2 DEF Change, Exhaust
<1>. QED  BY <1>4, <1>6, <1>7

LEMMA CreateChanges ==
    ASSUME Rows, Create
    PROVE  Change
<1>1. Open /\ GoesOn /\ UNCHANGED <<clock, edge, ended, counters, step, claim>>
  BY DEF Create, Open, GoesOn, Rows, ActiveStates
<1>2. Cardinality({}) = 0
  BY FS_EmptySet
<1>3. Counts(counters', counters.active_steps - Cardinality({}))
  BY <1>1, <1>2 DEF Rows, Counts
<1>4. Rejects({})
  BY <1>1, <1>3, ReopenedNone, ClaimsCarried DEF Rejects
<1>. QED  BY <1>1, <1>4 DEF Change

LEMMA StepChanges ==
    ASSUME Rows, Next
    PROVE  Change \/ Tick
<1>1. ASSUME NEW now \in Readings,
             \/ Reconcile(now)
             \/ \E s \in Step, lease \in LeaseSeconds : Activate(s, now, lease)
      PROVE  Change
  BY <1>1, ReconcileChanges, ActivateChanges
<1>2. ASSUME NEW now \in Readings, NEW i \in DOMAIN claim,
             \/ Replay(i, now)
             \/ \E lease \in LeaseSeconds : Renew(i, now, lease)
      PROVE  Change
  BY <1>2, ReplayChanges, RenewChanges
<1>3. ASSUME NEW now \in Readings, NEW i \in DOMAIN claim,
             NEW size \in EventBytes, NEW tool \in BOOLEAN, Event(i, now, size, tool)
      PROVE  Change
  BY <1>3, EventChanges
<1>4. ASSUME NEW now \in Readings, NEW i \in DOMAIN claim,
             NEW status \in Outcomes, NEW reported \in BOOLEAN, NEW size \in ReportBytes,
             Outcome(i, now, status, reported, size)
      PROVE  Change
  BY <1>4, OutcomeChanges
<1>. QED  BY <1>1, <1>2, <1>3, <1>4, CreateChanges, CancelChanges DEF Next

LEMMA OpenBooks ==
    ASSUME IndInv, Open
    PROVE  /\ IsFiniteSet(ActiveClaims(claim))
           /\ counters.active_steps \in Nat
           /\ counters.active_dispatches = 0
<1>1. DOMAIN claim = 1 .. Len(claim) /\ Len(claim) \in Nat
  BY DEF IndInv, Rows
<1>2. IsFiniteSet(DOMAIN claim)
  BY <1>1, FS_Interval
<1>3. IsFiniteSet(ActiveClaims(claim))
  BY <1>2, FS_Subset DEF ActiveClaims
<1>4. Cardinality(ActiveClaims(claim)) \in Nat
  BY <1>3, FS_CardinalityType
<1>. QED  BY <1>3, <1>4 DEF IndInv, Books

-----------------------------------------------------------------------------
(* Each change keeps the invariant                                         *)

\* Attempts stay in order when claims are carried and successes stay.
LEMMA OrderStays ==
    ASSUME IndInv, Carries(claim'),
           \A s \in Step : step[s].state = "succeeded" => step'[s].state = "succeeded"
    PROVE  AttemptsInOrder'
<1>. SUFFICES ASSUME NEW k \in DOMAIN claim'
              PROVE  /\ claim'[k].attempt <= MaxAttempts[claim'[k].step]
                     /\ \A d \in DependsOn[claim'[k].step] :
                            step'[d].state = "succeeded"
  BY DEF AttemptsInOrder
<1>1. k \in DOMAIN claim /\ claim[k] \in Claim
  BY DEF Carries, IndInv, Rows
<1>2. claim[k].step \in Step /\ DependsOn[claim[k].step] \subseteq Step
  BY <1>1, ConstantsOK DEF Claim
<1>. QED  BY <1>1, <1>2 DEF IndInv, AttemptsInOrder, Carries

LEMMA OneClaimStays ==
    ASSUME IndInv, Carries(claim'), ActiveClaims(claim') \subseteq ActiveClaims(claim)
    PROVE  OneClaim'
BY DEF IndInv, OneClaim, Carries, ActiveClaims

LEMMA ReopenedOK ==
    ASSUME Rows, NEW I
    PROVE  /\ Reopened(I) \in [Step -> [state : StepStates, attempts : Nat]]
           /\ \A s \in Step :
                /\ Reopened(I)[s].attempts = step[s].attempts
                /\ Reopened(I)[s].state \in {step[s].state, "pending"}
                /\ step[s].state # "running" => Reopened(I)[s] = step[s]
                /\ ~(\E i \in I : claim[i].step = s) => Reopened(I)[s] = step[s]
                /\ (\E i \in I : claim[i].step = s) => Reopened(I)[s].state # "running"
<1>1. ASSUME NEW s \in Step
      PROVE  step[s] \in [state : StepStates, attempts : Nat]
  BY DEF Rows
<1>2. "pending" \in StepStates
  BY DEF StepStates
<1>. QED  BY <1>1, <1>2 DEF Reopened

LEMMA AdmitsOK ==
    ASSUME IndInv, Open, UNCHANGED <<clock, ended>>, NEW s \in Step, Admits(s)
    PROVE  IndInv' /\ \A k \in DOMAIN claim : claim'[k] = claim[k]
<1>. DEFINE n == Len(claim) + 1
<1>0. PICK c \in Claim :
        /\ claim' = Append(claim, c)
        /\ c.step = s /\ c.attempt = step[s].attempts + 1
        /\ c.status = "active" /\ c.outcome = None
  BY DEF Admits
<1>1. /\ claim' \in Seq(Claim) /\ n \in Nat
      /\ DOMAIN claim = 1 .. Len(claim) /\ DOMAIN claim' = DOMAIN claim \cup {n}
      /\ n \notin DOMAIN claim
      /\ claim'[n] = c /\ \A k \in DOMAIN claim : claim'[k] = claim[k]
  BY <1>0 DEF IndInv, Rows
<1>2. ActiveClaims(claim') = ActiveClaims(claim) \cup {n} /\ n \notin ActiveClaims(claim)
  BY <1>0, <1>1 DEF ActiveClaims
<1>3. /\ step[s] \in [state : StepStates, attempts : Nat]
      /\ step[s].state = "pending" /\ step[s].attempts \in Nat
      /\ DependenciesMet(s)
  BY DEF IndInv, Rows, Admits, Ready
<1>4. /\ step' \in [Step -> [state : StepStates, attempts : Nat]]
      /\ step'[s].state = "running" /\ step'[s].attempts = step[s].attempts + 1
      /\ \A x \in Step \ {s} : step'[x] = step[x]
  BY <1>3 DEF IndInv, Rows, Admits, StepStates
<1>5. \A k \in DOMAIN claim : claim[k] \in Claim /\ claim[k].step \in Step
  BY ClaimTyped DEF IndInv
<1>6. Rows'
  BY <1>1, <1>4 DEF IndInv, Rows, Admits, GoesOn, Counts
<1>7. AttemptsInOrder'
  <2>1. c.attempt <= MaxAttempts[s]
    BY <1>0, <1>3, ConstantsOK DEF Admits
  <2>2. \A d \in DependsOn[s] : d \in Step /\ step'[d].state = "succeeded"
    BY <1>3, <1>4, ConstantsOK DEF DependenciesMet
  <2>3. ASSUME NEW k \in DOMAIN claim
        PROVE  \A d \in DependsOn[claim[k].step] : step'[d].state = "succeeded"
    BY <1>3, <1>4, <1>5, ConstantsOK DEF IndInv, AttemptsInOrder
  <2>. QED  BY <1>0, <1>1, <2>1, <2>2, <2>3 DEF IndInv, AttemptsInOrder
<1>8. \A k \in ActiveClaims(claim) : k \in DOMAIN claim /\ claim[k].step # s
  BY <1>3 DEF IndInv, InStep, ActiveClaims
<1>9. OneClaim'
  BY <1>0, <1>1, <1>2, <1>8 DEF IndInv, OneClaim
<1>10. InStep'
  <2>1. ASSUME NEW k \in ActiveClaims(claim')
        PROVE  /\ claim'[k].step \notin DispatchStep
               /\ step'[claim'[k].step].state = "running"
               /\ step'[claim'[k].step].attempts = claim'[k].attempt
    BY <1>0, <1>1, <1>2, <1>4, <1>5, <1>8 DEF IndInv, InStep, Admits
  <2>2. ASSUME NEW x \in Step, step'[x].state = "running"
        PROVE  \E k \in ActiveClaims(claim') : claim'[k].step = x
    <3>1. CASE x = s
      BY <1>0, <1>1, <1>2, <3>1
    <3>2. CASE x # s
      <4>1. PICK k \in ActiveClaims(claim) : claim[k].step = x
        BY <1>4, <2>2, <3>2 DEF IndInv, InStep
      <4>. QED  BY <1>1, <1>2, <1>8, <4>1
    <3>. QED  BY <3>1, <3>2
  <2>. QED  BY <2>1, <2>2 DEF InStep
<1>11. Succeeded(claim', step')
  <2>1. Succeeded(claim, step) /\ \A x \in Step :
            step'[x].state = "succeeded" => step[x].state = "succeeded"
    BY <1>4 DEF IndInv
  <2>. QED  BY <1>0, <1>1, <2>1 DEF Succeeded
<1>12. Books'
  <2>1. IsFiniteSet(ActiveClaims(claim))
    BY OpenBooks
  <2>2. Cardinality(ActiveClaims(claim')) = Cardinality(ActiveClaims(claim)) + 1
    BY <1>2, <2>1, FS_AddElement
  <2>. QED  BY <2>2 DEF IndInv, Books, Admits, Counts
<1>13. Open' /\ workflow'.receipt = NoReceipt
  BY DEF IndInv, Admits, GoesOn, Open
<1>. QED  BY <1>1, <1>6, <1>7, <1>9, <1>10, <1>11, <1>12, <1>13 DEF IndInv

LEMMA RejectsOK ==
    ASSUME IndInv, Open, UNCHANGED <<clock, ended>>, NEW I \in SUBSET DOMAIN claim,
           Rejects(I)
    PROVE  IndInv'
<1>1. /\ DOMAIN claim' = DOMAIN claim
      /\ \A k \in DOMAIN claim : claim[k] \in Claim /\ claim[k].step \in Step
  BY ClaimTyped DEF IndInv, Rows, Rejects, Carries
<1>2. /\ ActiveClaims(claim') = ActiveClaims(claim) \ I
      /\ I \subseteq ActiveClaims(claim)
  BY <1>1 DEF Rejects, ActiveClaims
<1>3. /\ step' = Reopened(I)
      /\ step' \in [Step -> [state : StepStates, attempts : Nat]]
      /\ \A s \in Step :
            /\ step'[s].attempts = step[s].attempts
            /\ step'[s].state \in {step[s].state, "pending"}
            /\ step[s].state # "running" => step'[s] = step[s]
            /\ ~(\E i \in I : claim[i].step = s) => step'[s] = step[s]
            /\ (\E i \in I : claim[i].step = s) => step'[s].state # "running"
  BY ReopenedOK DEF Rejects, IndInv
<1>4. Rows'
  <2>1. Cardinality(I) \in Nat
    <3>1. IsFiniteSet(I)
      BY <1>2, OpenBooks, FS_Subset
    <3>. QED  BY <3>1, FS_CardinalityType
  <2>. QED  BY <1>3, <2>1 DEF IndInv, Rows, Rejects, Carries, GoesOn, Counts
<1>5. AttemptsInOrder'
  BY <1>3, OrderStays DEF Rejects
<1>6. OneClaim'
  BY <1>2, OneClaimStays DEF Rejects
<1>7. InStep'
  <2>1. ASSUME NEW k \in ActiveClaims(claim')
        PROVE  /\ claim'[k].step \notin DispatchStep
               /\ step'[claim'[k].step].state = "running"
               /\ step'[claim'[k].step].attempts = claim'[k].attempt
    <3>1. k \in ActiveClaims(claim) /\ k \notin I /\ k \in DOMAIN claim
      BY <1>1, <1>2 DEF ActiveClaims
    <3>2. ~(\E i \in I : claim[i].step = claim[k].step)
      BY <1>2, <3>1 DEF IndInv, OneClaim
    <3>3. step'[claim[k].step] = step[claim[k].step]
      BY <1>1, <1>3, <3>1, <3>2
    <3>. QED  BY <3>1, <3>3 DEF IndInv, InStep, Rejects, Carries
  <2>2. ASSUME NEW x \in Step, step'[x].state = "running"
        PROVE  \E k \in ActiveClaims(claim') : claim'[k].step = x
    <3>1. step[x].state = "running" /\ ~(\E i \in I : claim[i].step = x)
      BY <1>3, <2>2
    <3>2. PICK k \in ActiveClaims(claim) : claim[k].step = x
      BY <3>1 DEF IndInv, InStep
    <3>3. k \in ActiveClaims(claim') /\ k \in DOMAIN claim
      BY <1>2, <3>1, <3>2 DEF ActiveClaims
    <3>. QED  BY <3>2, <3>3 DEF Rejects, Carries
  <2>. QED  BY <2>1, <2>2 DEF InStep
<1>8. Succeeded(claim', step')
  <2>1. Succeeded(claim, step) /\ \A x \in Step :
            step'[x].state = "succeeded" => step[x].state = "succeeded"
    BY <1>3 DEF IndInv
  <2>2. \A k \in DOMAIN claim :
            claim'[k].step = claim[k].step /\ claim'[k].outcome = claim[k].outcome
    BY DEF Rejects, Carries, SameOutcomes
  <2>. QED  BY <1>1, <2>1, <2>2 DEF Succeeded
<1>9. Books'
  <2>1. IsFiniteSet(ActiveClaims(claim))
    BY OpenBooks
  <2>2. Cardinality(ActiveClaims(claim) \ I) = Cardinality(ActiveClaims(claim)) - Cardinality(I)
    <3>1. Cardinality(ActiveClaims(claim) \ I)
            = Cardinality(ActiveClaims(claim)) - Cardinality(ActiveClaims(claim) \cap I)
      BY <2>1, FS_Difference
    <3>2. ActiveClaims(claim) \cap I = I
      BY <1>2
    <3>. QED  BY <3>1, <3>2
  <2>. QED  BY <1>2, <2>2 DEF IndInv, Books, Rejects, Counts
<1>10. Open' /\ workflow'.receipt = NoReceipt
  BY DEF IndInv, Rejects, GoesOn, Open
<1>. QED  BY <1>4, <1>5, <1>6, <1>7, <1>8, <1>9, <1>10 DEF IndInv

LEMMA StopsOK ==
    ASSUME IndInv, Open, UNCHANGED <<clock, ended>>, Stops
    PROVE  IndInv' /\ ~Open'
<1>1. PICK state \in Terminal \ {"completed"} :
            workflow' = Entering(state, counters', claim', ended', edge')
  BY DEF Stops
<1>2. workflow' = [state |-> state,
                   receipt |-> ReceiptOf(state, counters', claim', ended', edge')]
  BY <1>1 DEF Entering, IndInv
<1>3. ~Open' /\ Told'
  BY <1>1, <1>2 DEF Told, Open, Terminal, ActiveStates
<1>4. PICK I \in SUBSET ActiveClaims(claim) : step' = Reopened(I)
  BY DEF Stops
<1>5. /\ step' \in [Step -> [state : StepStates, attempts : Nat]]
      /\ \A s \in Step : step[s].state # "running" => step'[s] = step[s]
  BY <1>4, ReopenedOK DEF IndInv
<1>6. Rows'
  BY <1>2, <1>5 DEF IndInv, Rows, Stops, Carries, Counts
<1>7. AttemptsInOrder'
  BY <1>5, OrderStays DEF Stops
<1>8. OneClaim'
  BY DEF Stops, OneClaim
<1>. QED  BY <1>3, <1>6, <1>7, <1>8 DEF IndInv

\* An outcome ends its claim and its step alike; the workflow goes on, is
\* complete with a success of every step, or ends without.
LEMMA EndsOK ==
    ASSUME IndInv, Open, UNCHANGED <<clock, ended>>, NEW i \in DOMAIN claim,
           NEW status \in Outcomes, Ends(i, status)
    PROVE  IndInv'
<1>. DEFINE s == claim[i].step
            after == AfterOutcome(s, status)
<1>1. /\ DOMAIN claim' = DOMAIN claim
      /\ \A k \in DOMAIN claim : claim[k] \in Claim /\ claim[k].step \in Step
      /\ i \in ActiveClaims(claim) /\ claim'[i].step = s
  BY ClaimTyped DEF IndInv, Rows, Ends, Carries
<1>2. ActiveClaims(claim') = ActiveClaims(claim) \ {i}
  BY <1>1 DEF Ends, ActiveClaims, Outcomes
<1>3. step[s].state = "running" /\ s \in Step
  BY <1>1 DEF IndInv, InStep
<1>4. /\ step' \in [Step -> [state : StepStates, attempts : Nat]]
      /\ step'[s].state = status /\ \A x \in Step \ {s} : step'[x] = step[x]
  <2>1. step[s] \in [state : StepStates, attempts : Nat] /\ status \in StepStates
    BY <1>3 DEF IndInv, Rows, StepStates
  <2>2. [step[s] EXCEPT !.state = status] \in [state : StepStates, attempts : Nat]
    BY <2>1
  <2>. QED  BY <1>3, <2>1, <2>2 DEF IndInv, Rows, Ends
<1>5. Rows'
  BY <1>4 DEF IndInv, Rows, Ends, Carries, Entering, Counts
<1>6. AttemptsInOrder'
  BY <1>3, <1>4, OrderStays DEF Ends
<1>7. OneClaim'
  BY <1>2, OneClaimStays DEF Ends
<1>8. \A k \in ActiveClaims(claim') :
            k \in ActiveClaims(claim) /\ k \in DOMAIN claim /\ k # i /\ claim[k].step # s
  BY <1>1, <1>2 DEF IndInv, OneClaim, ActiveClaims
<1>9. InStep'
  <2>1. ASSUME NEW k \in ActiveClaims(claim')
        PROVE  /\ claim'[k].step \notin DispatchStep
               /\ step'[claim'[k].step].state = "running"
               /\ step'[claim'[k].step].attempts = claim'[k].attempt
    <3>1. claim'[k] = claim[k] /\ step'[claim[k].step] = step[claim[k].step]
      BY <1>1, <1>4, <1>8 DEF Ends
    <3>. QED  BY <1>8, <3>1 DEF IndInv, InStep
  <2>2. ASSUME NEW x \in Step, step'[x].state = "running"
        PROVE  \E k \in ActiveClaims(claim') : claim'[k].step = x
    <3>1. x # s
      BY <1>4, <2>2 DEF Outcomes
    <3>2. PICK k \in ActiveClaims(claim) : claim[k].step = x
      BY <1>4, <2>2, <3>1 DEF IndInv, InStep
    <3>3. k \in ActiveClaims(claim') /\ k \in DOMAIN claim /\ k # i
      BY <1>2, <3>1, <3>2 DEF ActiveClaims
    <3>. QED  BY <3>2, <3>3 DEF Ends
  <2>. QED  BY <2>1, <2>2 DEF InStep
<1>10. Books'
  <2>1. IsFiniteSet(ActiveClaims(claim))
    BY OpenBooks
  <2>2. Cardinality(ActiveClaims(claim')) = Cardinality(ActiveClaims(claim)) - 1
    BY <1>1, <1>2, <2>1, FS_RemoveElement
  <2>. QED  BY <2>2 DEF IndInv, Books, Ends, Counts
<1>11. status = "succeeded" => Succeeded(claim', step')
  <2>. SUFFICES ASSUME status = "succeeded" PROVE Succeeded(claim', step')
    OBVIOUS
  <2>1. \A k \in DOMAIN claim' : claim'[k].outcome \in {None, "succeeded"}
    BY <1>1 DEF IndInv, Succeeded, Ends
  <2>2. ASSUME NEW x \in Step, step'[x].state = "succeeded"
        PROVE  \E k \in DOMAIN claim' : claim'[k].step = x /\ claim'[k].outcome = "succeeded"
    <3>1. CASE x = s
      BY <1>1, <3>1 DEF Ends
    <3>2. CASE x # s
      <4>1. PICK k \in DOMAIN claim : claim[k].step = x /\ claim[k].outcome = "succeeded"
        BY <1>4, <2>2, <3>2 DEF IndInv, Succeeded
      <4>. QED  BY <1>1, <3>2, <4>1 DEF Ends
    <3>. QED  BY <3>1, <3>2
  <2>. QED  BY <2>1, <2>2 DEF Succeeded
<1>12. workflow' = [state |-> after,
                    receipt |-> IF after \in Terminal
                                THEN ReceiptOf(after, counters', claim', ended', edge')
                                ELSE NoReceipt]
  BY DEF Ends, Entering, IndInv
<1>13. CASE status = "succeeded" /\ ~(\A x \in Step \ {s} : step[x].state = "succeeded")
  <2>1. after = "running"
    BY <1>13 DEF AfterOutcome
  <2>2. Open' /\ workflow'.receipt = NoReceipt
    BY <1>12, <2>1 DEF Open, ActiveStates, Terminal
  <2>. QED  BY <1>5, <1>6, <1>7, <1>9, <1>10, <1>11, <1>13, <2>2 DEF IndInv
<1>14. CASE status = "succeeded" /\ \A x \in Step \ {s} : step[x].state = "succeeded"
  <2>1. after = "completed"
    BY <1>14 DEF AfterOutcome
  <2>2. \A x \in Step : step'[x].state = "succeeded"
    BY <1>4, <1>14
  <2>3. StepReceipts(claim', ended') = [step : Step, status : {"succeeded"}]
    <3>1. \A d \in Step : ended'[d] = None
      BY DEF IndInv, Rows
    <3>2. \A k \in DOMAIN claim' : claim'[k].step \in Step
      BY <1>1 DEF Ends, Carries
    <3>3. ASSUME NEW e \in StepReceipts(claim', ended')
          PROVE  e \in [step : Step, status : {"succeeded"}]
      BY <1>11, <1>14, <3>1, <3>2 DEF StepReceipts, Succeeded
    <3>4. ASSUME NEW e \in [step : Step, status : {"succeeded"}]
          PROVE  e \in StepReceipts(claim', ended')
      <4>1. PICK k \in DOMAIN claim' :
                claim'[k].step = e.step /\ claim'[k].outcome = "succeeded"
        BY <1>11, <1>14, <2>2 DEF Succeeded
      <4>2. e = [step |-> claim'[k].step, status |-> claim'[k].outcome]
        BY <4>1
      <4>3. claim'[k].outcome # None
        BY <4>1 DEF None
      <4>. QED  BY <4>2, <4>3 DEF StepReceipts
    <3>. QED  BY <3>3, <3>4
  <2>4. ~Open' /\ Told'
    BY <1>12, <2>1, <2>3 DEF Told, Open, Terminal, ActiveStates, ReceiptOf
  <2>. QED  BY <1>5, <1>6, <1>7, <2>4 DEF IndInv
<1>15. CASE status # "succeeded"
  <2>1. after \in Terminal \ {"completed"}
    BY <1>15 DEF AfterOutcome, Terminal, Outcomes
  <2>2. ~Open' /\ Told'
    BY <1>12, <2>1 DEF Told, Open, Terminal, ActiveStates
  <2>. QED  BY <1>5, <1>6, <1>7, <2>2 DEF IndInv
<1>. QED  BY <1>13, <1>14, <1>15

LEMMA ChangeOK == ASSUME IndInv, Change PROVE IndInv'
<1>1. Open /\ UNCHANGED <<clock, ended>>
  BY DEF Change
<1>2. CASE \E s \in Step : Admits(s)
  BY <1>1, <1>2, AdmitsOK
<1>3. CASE \E I \in SUBSET DOMAIN claim : Rejects(I)
  BY <1>1, <1>3, RejectsOK
<1>4. CASE \E i \in DOMAIN claim, status \in Outcomes : Ends(i, status)
  BY <1>1, <1>4, EndsOK
<1>5. CASE Stops
  BY <1>1, <1>5, StopsOK
<1>. QED  BY <1>2, <1>3, <1>4, <1>5 DEF Change

LEMMA TablesStay ==
    ASSUME IndInv, UNCHANGED tables, clock' \in Nat
    PROVE  IndInv'
BY DEF IndInv, tables, Rows, AttemptsInOrder, OneClaim, Open, Books, InStep, Succeeded,
       Told, ActiveClaims

LEMMA InitOK == Init => IndInv
<1>. SUFFICES ASSUME Init PROVE IndInv
  OBVIOUS
<1>1. /\ claim = <<>> /\ claim \in Seq(Claim)
      /\ DOMAIN claim = {} /\ ActiveClaims(claim) = {}
  BY DEF Init, ActiveClaims
<1>2. Rows /\ ended = [s \in Step |-> None]
  BY <1>1 DEF Init, Rows, StepStates, Zero
<1>3. AttemptsInOrder /\ OneClaim
  BY <1>1 DEF AttemptsInOrder, OneClaim
<1>4. Books
  BY <1>1, FS_EmptySet DEF Init, Books, Zero
<1>5. InStep /\ Succeeded(claim, step)
  BY <1>1 DEF Init, InStep, Succeeded
<1>6. Open /\ workflow.receipt = NoReceipt
  BY DEF Init, Open
<1>. QED  BY <1>2, <1>3, <1>4, <1>5, <1>6 DEF IndInv

LEMMA Invariance == Spec => []IndInv
<1>1. IndInv /\ [Next]_vars => IndInv'
  <2>. SUFFICES ASSUME IndInv, [Next]_vars PROVE IndInv'
    OBVIOUS
  <2>1. CASE Change
    BY <2>1, ChangeOK
  <2>2. CASE Tick
    BY <2>2, TablesStay DEF Tick, IndInv, Rows
  <2>3. CASE UNCHANGED vars
    BY <2>3, TablesStay DEF vars, tables, IndInv, Rows
  <2>. QED  BY <2>1, <2>2, <2>3, StepChanges DEF IndInv
<1>. QED  BY InitOK, <1>1, PTL DEF Spec

-----------------------------------------------------------------------------
(* Metering                                                                *)

AccountedOf(cl) == [k \in DOMAIN cl |-> cl[k].accounted]

\* The runtime counted in c is what the claims cl account for.
Ledger(c, cl) ==
    /\ c.runtime_seconds = SumFunction(AccountedOf(cl)) + c.dispatch_runtime
    /\ c.dispatch_runtime \in Nat
    /\ c.runtime_seconds - c.dispatch_runtime <= Budgets.runtime_seconds
    /\ \A k \in DOMAIN cl : cl[k].accounted + cl[k].started <= clock

\* c and cl account for the running time of the claims of I at `now'.
Accrues(c, cl, I, now) ==
    /\ DOMAIN cl = DOMAIN claim
    /\ \A k \in DOMAIN claim :
        /\ cl[k].started = claim[k].started
        /\ cl[k].accounted =
                claim[k].accounted + (IF k \in I THEN Delta(k, now) ELSE 0)
    /\ c.runtime_seconds = counters.runtime_seconds + DeltaOf(I, now)
    /\ c.dispatch_runtime = counters.dispatch_runtime

LEMMA DomainFinite ==
    ASSUME Rows
    PROVE  IsFiniteSet(DOMAIN claim) /\ \A I \in SUBSET DOMAIN claim : IsFiniteSet(I)
<1>1. DOMAIN claim = 1 .. Len(claim) /\ Len(claim) \in Nat
  BY DEF Rows
<1>2. IsFiniteSet(DOMAIN claim)
  BY <1>1, FS_Interval
<1>. QED  BY <1>2, FS_Subset

LEMMA DeltaOfOK ==
    ASSUME Rows, NEW I \in SUBSET DOMAIN claim, NEW now \in Nat
    PROVE  DeltaOf(I, now) \in Nat
<1>. DEFINE f == [i \in I |-> Delta(i, now)]
<1>1. IsFiniteSet(I) /\ \A i \in I : f[i] \in Nat
  BY DomainFinite, DeltaOK
<1>2. SumFunctionOnSet(f, I) \in Nat
  <2>. HIDE DEF f
  <2>. QED  BY <1>1, SumOfNats
<1>. QED  BY <1>2 DEF DeltaOf, SumFunction

\* Without claims to account for there is nothing to add.
LEMMA DeltaOfNone ==
    ASSUME NEW now
    PROVE  DeltaOf({}, now) = 0
BY SumOfNone DEF DeltaOf, SumFunction

\* As long as the budget is not passed, the books stay right.
LEMMA LedgerStays ==
    ASSUME Rows, Ledger(counters, claim), NEW I \in SUBSET DOMAIN claim,
           NEW now \in Readings, ~OverRuntime(I, now),
           NEW c, NEW cl, Accrues(c, cl, I, now)
    PROVE  Ledger(c, cl)
<1>. DEFINE D == DOMAIN claim
            f == AccountedOf(claim)
            h == AccountedOf(cl)
            g == [k \in D |-> IF k \in I THEN Delta(k, now) ELSE 0]
            d == [i \in I |-> Delta(i, now)]
<1>0. now \in Nat /\ now <= clock /\ clock \in Nat
  BY Readable DEF Rows
<1>1. IsFiniteSet(D) /\ IsFiniteSet(I)
  BY DomainFinite
<1>2. ASSUME NEW k \in D
      PROVE  /\ f[k] \in Nat /\ g[k] \in Nat /\ h[k] = f[k] + g[k]
             /\ claim[k].accounted \in Nat /\ claim[k].started \in Nat
  <2>1. claim[k] \in Claim
    BY ClaimTyped
  <2>2. Delta(k, now) \in Nat
    BY <1>0, DeltaOK
  <2>. QED  BY <2>1, <2>2 DEF Accrues, AccountedOf, Claim
<1>3. SumFunction(h) = SumFunction(f) + SumFunctionOnSet(g, D)
  <2>1. DOMAIN f = D /\ DOMAIN h = D
    BY DEF AccountedOf, Accrues
  <2>2. SumFunctionOnSet(h, D) = SumFunctionOnSet(f, D) + SumFunctionOnSet(g, D)
    <3>1. \A k \in D : f[k] \in Int /\ g[k] \in Int /\ h[k] = f[k] + g[k]
      BY <1>2
    <3>. HIDE DEF f, g, h, D
    <3>. QED  BY <1>1, <3>1, SumOfSums
  <2>. QED  BY <2>1, <2>2 DEF SumFunction
<1>4. SumFunctionOnSet(g, D) = DeltaOf(I, now)
  <2>1. /\ \A k \in D \ I : g[k] = 0
        /\ \A k \in I : g[k] = d[k]
    OBVIOUS
  <2>2. SumFunctionOnSet(g, D) = SumFunctionOnSet(g, I)
    <3>1. I \in SUBSET D /\ \A k \in D : g[k] \in Int
      BY <1>2
    <3>. HIDE DEF g, D
    <3>. QED  BY <1>1, <2>1, <3>1, SumOfPart
  <2>3. SumFunctionOnSet(g, I) = SumFunctionOnSet(d, I)
    <3>. HIDE DEF g, d
    <3>. QED  BY <1>1, <2>1, SumOfSame
  <2>4. DeltaOf(I, now) = SumFunctionOnSet(d, I)
    BY DEF DeltaOf, SumFunction
  <2>. QED  BY <2>2, <2>3, <2>4
<1>5. SumFunction(f) \in Nat /\ DeltaOf(I, now) \in Nat
  <2>1. \A k \in D : f[k] \in Nat
    BY <1>2
  <2>2. DOMAIN f = D
    BY DEF AccountedOf
  <2>. HIDE DEF f, D
  <2>3. SumFunctionOnSet(f, D) \in Nat
    BY <1>1, <2>1, SumOfNats
  <2>. QED  BY <1>0, <2>2, <2>3, DeltaOfOK DEF SumFunction
<1>6. /\ counters.runtime_seconds = SumFunction(f) + counters.dispatch_runtime
      /\ c.runtime_seconds = SumFunction(h) + counters.dispatch_runtime
      /\ c.dispatch_runtime = counters.dispatch_runtime
      /\ counters.dispatch_runtime \in Nat
  <2>. HIDE DEF f, h
  <2>. QED  BY <1>3, <1>4, <1>5 DEF Ledger, Accrues, f, h
<1>7. c.runtime_seconds - c.dispatch_runtime <= Budgets.runtime_seconds
  <2>1. counters.runtime_seconds - counters.dispatch_runtime <= Budgets.runtime_seconds
    BY DEF Ledger
  <2>2. Budgets.runtime_seconds \in Nat
    BY ConstantsOK
  <2>3. c.runtime_seconds = counters.runtime_seconds + DeltaOf(I, now)
    BY DEF Accrues
  <2>. HIDE DEF f
  <2>4. DeltaOf(I, now) > 0 => c.runtime_seconds <= Budgets.runtime_seconds
    BY <1>5, <1>6, <2>2, <2>3 DEF OverRuntime
  <2>. QED  BY <1>5, <1>6, <2>1, <2>2, <2>3, <2>4
<1>8. ASSUME NEW k \in DOMAIN cl
      PROVE  cl[k].accounted + cl[k].started <= clock
  <2>1. k \in D /\ claim[k].accounted + claim[k].started <= clock
    BY DEF Accrues, Ledger
  <2>2. /\ cl[k].started = claim[k].started
        /\ cl[k].accounted = claim[k].accounted
                                + (IF k \in I THEN Delta(k, now) ELSE 0)
    BY <2>1 DEF Accrues
  <2>3. claim[k].accounted \in Nat /\ claim[k].started \in Nat
    BY <1>2, <2>1
  <2>. QED  BY <1>0, <2>1, <2>2, <2>3 DEF Delta, Elapsed
<1>9. c.runtime_seconds = SumFunction(AccountedOf(cl)) + c.dispatch_runtime
  <2>. HIDE DEF h
  <2>. QED  BY <1>6 DEF h
<1>. QED  BY <1>6, <1>7, <1>8, <1>9 DEF Ledger

-----------------------------------------------------------------------------
(* What each operation adds to the books                                   *)

\* c is counters that count the artifact edges of now.
Tally(c) ==
    /\ c \in [DOMAIN Zero -> Int]
    /\ c.artifact_edges = counters.artifact_edges

Charged(c, cl) ==
    \E I \in SUBSET DOMAIN claim, now \in Readings :
        ~OverRuntime(I, now) /\ Accrues(c, cl, I, now)

\* A new claim, for which nothing is accounted yet.
Opens ==
    /\ \E c \in Claim : /\ claim' = Append(claim, c)
                        /\ c.accounted = 0 /\ c.started <= clock
    /\ counters'.runtime_seconds = counters.runtime_seconds
    /\ counters'.dispatch_runtime = counters.dispatch_runtime

\* The report of the check that claim i ends with is registered.
Registers(i) ==
    /\ i \in ActiveClaims(claim) /\ claim'[i].outcome # None
    /\ claim[i].step \notin DispatchStep
    /\ edge' = edge \cup {CheckReport(i)}
    /\ counters' \in [DOMAIN Zero -> Int]
    /\ counters'.artifact_edges = counters.artifact_edges + 1

Entry ==
    /\ Opens \/ Charged(counters', claim')
    /\ \/ edge' = edge /\ Tally(counters')
       \/ \E i \in DOMAIN claim : Registers(i)

CountersTyped == counters \in [DOMAIN Zero -> Int]

LEMMA RuntimeCounted ==
    ASSUME NEW c \in [DOMAIN Zero -> Int]
    PROVE  /\ c.runtime_seconds \in Int /\ c.dispatch_runtime \in Int
           /\ c.artifact_edges \in Int /\ c.active_steps \in Int
           /\ c.event_bytes \in Int /\ c.artifact_bytes \in Int
           /\ c.external_operations \in Int
BY DEF Zero

\* A counter that is neither of the runtime nor of the edges is set.
LEMMA OtherCounter ==
    ASSUME NEW c, Tally(c), NEW v \in Int
    PROVE  \A x \in DOMAIN Zero \ {"artifact_edges"} : Tally([c EXCEPT ![x] = v])
BY DEF Tally, Zero

LEMMA AccruesNothing ==
    ASSUME Rows, CountersTyped, NEW now \in Readings
    PROVE  /\ ~OverRuntime({}, now) /\ Accrues(counters, claim, {}, now)
           /\ Charged(counters, claim) /\ Tally(counters)
<1>1. DeltaOf({}, now) = 0
  BY DeltaOfNone
<1>2. \A k \in DOMAIN claim : claim[k].accounted + 0 = claim[k].accounted
  <2>1. \A k \in DOMAIN claim : claim[k].accounted \in Nat
    BY ClaimTyped DEF Claim
  <2>. QED  BY <2>1
<1>3. counters.runtime_seconds + 0 = counters.runtime_seconds
  BY RuntimeCounted DEF CountersTyped
<1>4. ~OverRuntime({}, now) /\ Accrues(counters, claim, {}, now)
  BY <1>1, <1>2, <1>3 DEF OverRuntime, Accrues
<1>5. Charged(counters, claim)
  BY <1>4 DEF Charged
<1>. QED  BY <1>4, <1>5 DEF Tally, CountersTyped

LEMMA AccruesMetered ==
    ASSUME Rows, CountersTyped, NEW I \in SUBSET DOMAIN claim, NEW now \in Readings
    PROVE  /\ Accrues(MeteredCounters(I, now), MeteredClaims(I, now), I, now)
           /\ Tally(MeteredCounters(I, now))
           /\ ~OverRuntime(I, now) =>
                Charged(MeteredCounters(I, now), MeteredClaims(I, now))
<1>. DEFINE cl == MeteredClaims(I, now)
            c == MeteredCounters(I, now)
<1>1. now \in Nat /\ DeltaOf(I, now) \in Nat
  BY Readable, DeltaOfOK
<1>2. Tally(c) /\ c.runtime_seconds = counters.runtime_seconds + DeltaOf(I, now)
        /\ c.dispatch_runtime = counters.dispatch_runtime
  BY <1>1, RuntimeCounted DEF MeteredCounters, CountersTyped, Tally, Zero
<1>3. ASSUME NEW k \in DOMAIN claim
      PROVE  /\ cl[k].started = claim[k].started
             /\ cl[k].accounted = claim[k].accounted
                                    + (IF k \in I THEN Delta(k, now) ELSE 0)
  <2>1. claim[k] \in Claim
    BY ClaimTyped
  <2>2. claim[k].accounted \in Nat /\ claim[k].accounted + 0 = claim[k].accounted
    BY <2>1 DEF Claim
  <2>3. cl[k] = IF k \in I
                THEN [claim[k] EXCEPT !.accounted = claim[k].accounted + Delta(k, now)]
                ELSE claim[k]
    BY DEF MeteredClaims
  <2>. HIDE DEF cl
  <2>. QED  BY <2>1, <2>2, <2>3 DEF Claim
<1>4. DOMAIN cl = DOMAIN claim
  BY DEF MeteredClaims
<1>5. Accrues(c, cl, I, now)
  <2>. HIDE DEF c, cl
  <2>. QED  BY <1>2, <1>3, <1>4 DEF Accrues
<1>. QED  BY <1>2, <1>5 DEF Charged

\* What is written besides leaves the runtime as it is.
LEMMA ChargedStill ==
    ASSUME NEW c, NEW cl, Charged(c, cl), NEW b, NEW bl, DOMAIN bl = DOMAIN cl,
           \A k \in DOMAIN cl : /\ bl[k].accounted = cl[k].accounted
                                /\ bl[k].started = cl[k].started,
           b.runtime_seconds = c.runtime_seconds,
           b.dispatch_runtime = c.dispatch_runtime
    PROVE  Charged(b, bl)
BY DEF Charged, Accrues

\* A spent budget withdraws claims and counts no runtime.
LEMMA ExhaustCharges ==
    ASSUME NEW c, NEW cl, Charged(c, cl), Tally(c), Exhaust(c, cl),
           \A k \in DOMAIN cl : cl[k] \in Claim
    PROVE  Entry
<1>1. /\ DOMAIN claim' = DOMAIN cl
      /\ \A k \in DOMAIN cl : /\ claim'[k].accounted = cl[k].accounted
                              /\ claim'[k].started = cl[k].started
  BY DEF Exhaust, Withdrawn, Claim
<1>2. counters' = [c EXCEPT !.active_steps = 0] /\ edge' = edge
  BY DEF Exhaust
<1>3. Tally(counters')
  BY <1>2, OtherCounter DEF Zero
<1>4. /\ counters'.runtime_seconds = c.runtime_seconds
      /\ counters'.dispatch_runtime = c.dispatch_runtime
  BY <1>2 DEF Tally, Zero
<1>5. Charged(counters', claim')
  BY <1>1, <1>4, ChargedStill
<1>. QED  BY <1>2, <1>3, <1>5 DEF Entry

LEMMA ClockReads ==
    ASSUME Rows PROVE clock \in Readings
BY ConstantsOK DEF Rows, Readings

LEMMA ActivateEntry ==
    ASSUME Rows, CountersTyped, NEW s \in Step, NEW now \in Readings,
           NEW lease \in LeaseSeconds, Activate(s, now, lease)
    PROVE  Entry
<1>1. CASE AttemptsSpent(s)
  <2>1. Exhaust(counters, claim)
    BY <1>1 DEF Activate
  <2>. QED  BY <2>1, AccruesNothing, ExhaustCharges, ClaimTyped
<1>2. CASE ~AttemptsSpent(s)
  <2>. DEFINE c == NewClaim(s, step[s].attempts + 1, now, lease)
              one == [counters EXCEPT ![AttemptCounter(s)] = @ + 1]
              two == [one EXCEPT !.active_steps = @ + 1]
              three == [two EXCEPT !.repair_iterations =
                            IF IsA(s, "repair") THEN @ + 1 ELSE @]
  <2>1. claim' = Append(claim, c) /\ edge' = edge /\ counters' = three
    BY <1>2 DEF Activate, AttemptCounter
  <2>2. c \in Claim /\ c.accounted = 0 /\ c.started <= clock
    <3>1. step[s].attempts \in Nat
      BY DEF Rows
    <3>2. now \in Nat /\ lease \in Nat /\ now <= clock
      BY Readable, ConstantsOK
    <3>. QED  BY <3>1, <3>2 DEF NewClaim, Claim
  <2>3. Tally(counters) /\ AttemptCounter(s) \in {"check_attempts", "provider_attempts"}
    BY DEF Tally, CountersTyped, AttemptCounter
  <2>4. Tally(one) /\ one.runtime_seconds = counters.runtime_seconds
          /\ one.dispatch_runtime = counters.dispatch_runtime
    BY <2>3 DEF Tally, Zero
  <2>5. Tally(two) /\ two.runtime_seconds = counters.runtime_seconds
          /\ two.dispatch_runtime = counters.dispatch_runtime
    <3>. HIDE DEF one
    <3>. QED  BY <2>4 DEF Tally, Zero
  <2>6. Tally(three) /\ three.runtime_seconds = counters.runtime_seconds
          /\ three.dispatch_runtime = counters.dispatch_runtime
    <3>. HIDE DEF two
    <3>. QED  BY <2>5 DEF Tally, Zero
  <2>. HIDE DEF c, three
  <2>. QED  BY <2>1, <2>2, <2>6 DEF Entry, Opens
<1>. QED  BY <1>1, <1>2

\* Fields of claims are written that metering does not read.
LEMMA NotedEntry ==
    ASSUME Rows, CountersTyped, NEW I \in SUBSET DOMAIN claim, NEW now \in Readings,
           ~OverRuntime(I, now),
           DOMAIN claim' = DOMAIN claim,
           \A k \in DOMAIN claim :
              /\ claim'[k].accounted = MeteredClaims(I, now)[k].accounted
              /\ claim'[k].started = MeteredClaims(I, now)[k].started,
           counters'.runtime_seconds = MeteredCounters(I, now).runtime_seconds,
           counters'.dispatch_runtime = MeteredCounters(I, now).dispatch_runtime,
           \/ edge' = edge /\ Tally(counters')
           \/ \E i \in DOMAIN claim : Registers(i)
    PROVE  Entry
<1>. DEFINE cl == MeteredClaims(I, now)
            c == MeteredCounters(I, now)
<1>1. Charged(c, cl)
  BY AccruesMetered
<1>2. DOMAIN cl = DOMAIN claim
  BY DEF MeteredClaims
<1>. HIDE DEF c, cl
<1>3. \A k \in DOMAIN cl : /\ claim'[k].accounted = cl[k].accounted
                           /\ claim'[k].started = cl[k].started
  BY <1>2 DEF cl
<1>4. /\ counters'.runtime_seconds = c.runtime_seconds
      /\ counters'.dispatch_runtime = c.dispatch_runtime
      /\ DOMAIN claim' = DOMAIN cl
  BY <1>2 DEF c
<1>5. Charged(counters', claim')
  BY <1>1, <1>3, <1>4, ChargedStill
<1>. QED  BY <1>5 DEF Entry

LEMMA MeteredTyped ==
    ASSUME Rows, NEW i \in DOMAIN claim, NEW now \in Readings, Holds(i, now)
    PROVE  \A k \in DOMAIN claim : MeteredClaims({i}, now)[k] \in Claim
<1>1. Carries(MeteredClaims({i}, now))
  BY HeldClaim
<1>2. DOMAIN claim = DOMAIN MeteredClaims({i}, now)
  BY DEF MeteredClaims
<1>. QED  BY <1>1, <1>2 DEF Carries

LEMMA RenewEntry ==
    ASSUME Rows, CountersTyped, NEW i \in DOMAIN claim, NEW now \in Readings,
           NEW lease \in LeaseSeconds, Renew(i, now, lease)
    PROVE  Entry
<1>. DEFINE cl == MeteredClaims({i}, now)
<1>1. CASE OverRuntime({i}, now)
  BY <1>1, AccruesNothing, ExhaustCharges, ClaimTyped DEF Renew
<1>2. CASE ~OverRuntime({i}, now)
  <2>1. /\ claim' = [cl EXCEPT ![i].expires = now + lease]
        /\ counters' = MeteredCounters({i}, now) /\ edge' = edge
    BY <1>2 DEF Renew
  <2>2. DOMAIN cl = DOMAIN claim /\ \A k \in DOMAIN claim : cl[k] \in Claim
    BY MeteredTyped DEF Renew, MeteredClaims
  <2>. HIDE DEF cl
  <2>3. DOMAIN claim' = DOMAIN claim
    BY <2>1, <2>2
  <2>4. \A k \in DOMAIN claim : /\ claim'[k].accounted = cl[k].accounted
                                /\ claim'[k].started = cl[k].started
    BY <2>1, <2>2 DEF Claim
  <2>5. Tally(counters') /\ {i} \in SUBSET DOMAIN claim
    BY <2>1, AccruesMetered
  <2>. QED  BY <1>2, <2>1, <2>3, <2>4, <2>5, NotedEntry DEF cl
<1>. QED  BY <1>1, <1>2

LEMMA ReplayEntry ==
    ASSUME Rows, CountersTyped, NEW i \in DOMAIN claim, NEW now \in Readings, Replay(i, now)
    PROVE  Entry
<1>1. CASE OverRuntime({i}, now)
  BY <1>1, AccruesNothing, ExhaustCharges, ClaimTyped DEF Replay
<1>2. CASE ~OverRuntime({i}, now)
  <2>1. /\ claim' = MeteredClaims({i}, now)
        /\ counters' = MeteredCounters({i}, now) /\ edge' = edge
    BY <1>2 DEF Replay
  <2>2. {i} \in SUBSET DOMAIN claim
    OBVIOUS
  <2>. QED  BY <1>2, <2>1, <2>2, AccruesMetered DEF Entry
<1>. QED  BY <1>1, <1>2

LEMMA EventEntry ==
    ASSUME Rows, CountersTyped, NEW i \in DOMAIN claim, NEW now \in Readings,
           NEW size \in EventBytes, NEW tool \in BOOLEAN, Event(i, now, size, tool)
    PROVE  Entry
<1>. DEFINE cl == MeteredClaims({i}, now)
            c1 == MeteredCounters({i}, now)
            c2 == [c1 EXCEPT !.event_bytes = @ + size]
            n == IF tool THEN 1 ELSE 0
<1>0. size \in Int /\ n \in Int /\ {i} \in SUBSET DOMAIN claim
  BY ConstantsOK
<1>1. DOMAIN cl = DOMAIN claim /\ \A k \in DOMAIN claim : cl[k] \in Claim
  BY MeteredTyped DEF Event, MeteredClaims
<1>2. \/ Exhaust(counters, claim)
      \/ ~OverRuntime({i}, now) /\ Exhaust(c1, cl)
      \/ ~OverRuntime({i}, now) /\ Exhaust(c2, cl)
      \/ /\ ~OverRuntime({i}, now)
         /\ counters' = [c2 EXCEPT !.external_operations = @ + n]
         /\ claim' = [cl EXCEPT ![i].sequence = @ + 1, ![i].bytes = @ + size,
                                ![i].tools = @ + n]
         /\ UNCHANGED <<workflow, edge, ended>>
  BY DEF Event
<1>3. Tally(c1) /\ (~OverRuntime({i}, now) => Charged(c1, cl))
  BY <1>0, AccruesMetered
<1>. HIDE DEF c1, cl
<1>4. /\ Tally(c2) /\ c2.runtime_seconds = c1.runtime_seconds
      /\ c2.dispatch_runtime = c1.dispatch_runtime
  BY <1>0, <1>3, RuntimeCounted DEF Tally, Zero
<1>. HIDE DEF c2
<1>5. CASE Exhaust(counters, claim)
  BY <1>5, AccruesNothing, ExhaustCharges, ClaimTyped
<1>6. CASE ~OverRuntime({i}, now) /\ Exhaust(c1, cl)
  BY <1>1, <1>3, <1>6, ExhaustCharges
<1>7. CASE ~OverRuntime({i}, now) /\ Exhaust(c2, cl)
  <2>1. Charged(c2, cl)
    BY <1>3, <1>4, <1>7, ChargedStill
  <2>. QED  BY <1>1, <1>4, <1>7, <2>1, ExhaustCharges
<1>8. CASE /\ ~OverRuntime({i}, now)
           /\ counters' = [c2 EXCEPT !.external_operations = @ + n]
           /\ claim' = [cl EXCEPT ![i].sequence = @ + 1, ![i].bytes = @ + size,
                                  ![i].tools = @ + n]
           /\ UNCHANGED <<workflow, edge, ended>>
  <2>1. DOMAIN claim' = DOMAIN claim
    BY <1>1, <1>8
  <2>2. \A k \in DOMAIN claim : /\ claim'[k].accounted = cl[k].accounted
                                /\ claim'[k].started = cl[k].started
    BY <1>1, <1>8 DEF Claim
  <2>3. /\ Tally(counters') /\ counters'.runtime_seconds = c1.runtime_seconds
        /\ counters'.dispatch_runtime = c1.dispatch_runtime
    BY <1>0, <1>4, <1>8, RuntimeCounted DEF Tally, Zero
  <2>. QED  BY <1>0, <1>8, <2>1, <2>2, <2>3, NotedEntry DEF cl, c1
<1>. QED  BY <1>2, <1>5, <1>6, <1>7, <1>8

LEMMA OutcomeEntry ==
    ASSUME Rows, CountersTyped, NEW i \in DOMAIN claim, NEW now \in Readings,
           NEW status \in Outcomes, NEW reported \in BOOLEAN, NEW size \in ReportBytes,
           Outcome(i, now, status, reported, size)
    PROVE  Entry
<1>. DEFINE cl == MeteredClaims({i}, now)
            c1 == MeteredCounters({i}, now)
            a == [c1 EXCEPT !.active_steps = @ - 1]
            b == [a EXCEPT !.artifact_bytes = @ + (IF reported THEN size ELSE 0)]
            c2 == [b EXCEPT !.artifact_edges = @ + (IF reported THEN 1 ELSE 0)]
<1>0. size \in Int /\ {i} \in SUBSET DOMAIN claim /\ i \in ActiveClaims(claim)
  BY HeldClaim, ConstantsOK DEF Outcome
<1>1. DOMAIN cl = DOMAIN claim /\ \A k \in DOMAIN claim : cl[k] \in Claim
  BY MeteredTyped DEF Outcome, MeteredClaims
<1>2. \/ Exhaust(counters, claim)
      \/ ~OverRuntime({i}, now) /\ Exhaust(c1, cl)
      \/ /\ ~OverRuntime({i}, now)
         /\ counters' = c2
         /\ claim' = [cl EXCEPT ![i].status = status, ![i].outcome = status,
                                ![i].sequence = @ + 1]
         /\ edge' = edge \cup (IF reported THEN {CheckReport(i)} ELSE {})
  BY DEF Outcome
<1>3. Tally(c1) /\ (~OverRuntime({i}, now) => Charged(c1, cl))
  BY <1>0, AccruesMetered
<1>. HIDE DEF c1, cl
<1>4. /\ Tally(a) /\ a.runtime_seconds = c1.runtime_seconds
      /\ a.dispatch_runtime = c1.dispatch_runtime
  BY <1>3, RuntimeCounted DEF Tally, Zero
<1>. HIDE DEF a
<1>5. /\ Tally(b) /\ b.runtime_seconds = c1.runtime_seconds
      /\ b.dispatch_runtime = c1.dispatch_runtime
  BY <1>0, <1>4, RuntimeCounted DEF Tally, Zero
<1>. HIDE DEF b
<1>6. /\ c2 \in [DOMAIN Zero -> Int] /\ c2.runtime_seconds = c1.runtime_seconds
      /\ c2.dispatch_runtime = c1.dispatch_runtime
      /\ c2.artifact_edges = counters.artifact_edges + (IF reported THEN 1 ELSE 0)
  BY <1>5, RuntimeCounted DEF Tally, Zero
<1>. HIDE DEF c2
<1>7. CASE Exhaust(counters, claim)
  BY <1>7, AccruesNothing, ExhaustCharges, ClaimTyped
<1>8. CASE ~OverRuntime({i}, now) /\ Exhaust(c1, cl)
  BY <1>1, <1>3, <1>8, ExhaustCharges
<1>9. CASE /\ ~OverRuntime({i}, now)
           /\ counters' = c2
           /\ claim' = [cl EXCEPT ![i].status = status, ![i].outcome = status,
                                  ![i].sequence = @ + 1]
           /\ edge' = edge \cup (IF reported THEN {CheckReport(i)} ELSE {})
  <2>1. DOMAIN claim' = DOMAIN claim
    BY <1>1, <1>9
  <2>2. \A k \in DOMAIN claim : /\ claim'[k].accounted = cl[k].accounted
                                /\ claim'[k].started = cl[k].started
    BY <1>1, <1>9 DEF Claim
  <2>3. claim'[i].outcome # None
    BY <1>1, <1>9 DEF Claim, Outcomes, None
  <2>4. CASE reported
    <3>1. claim[i].step \notin DispatchStep
      BY <2>4 DEF Outcome, CheckStep, DispatchStep, IsA
    <3>2. Registers(i)
      BY <1>0, <1>6, <1>9, <2>3, <2>4, <3>1 DEF Registers
    <3>. QED  BY <1>0, <1>6, <1>9, <2>1, <2>2, <3>2, NotedEntry DEF cl, c1
  <2>5. CASE ~reported
    <3>1. edge' = edge /\ Tally(counters')
      BY <1>6, <1>9, <2>5, RuntimeCounted DEF Tally, CountersTyped
    <3>. QED  BY <1>0, <1>6, <1>9, <2>1, <2>2, <3>1, NotedEntry DEF cl, c1
  <2>. QED  BY <2>4, <2>5
<1>. QED  BY <1>2, <1>7, <1>8, <1>9

LEMMA CancelEntry ==
    ASSUME Rows, CountersTyped, Cancel
    PROVE  Entry
<1>. DEFINE b == [counters EXCEPT !.active_steps = 0]
            bl == Withdrawn(claim, "cancelled")
<1>1. counters' = b /\ claim' = bl /\ edge' = edge
  BY DEF Cancel
<1>2. /\ DOMAIN bl = DOMAIN claim
      /\ \A k \in DOMAIN claim : /\ bl[k].accounted = claim[k].accounted
                                 /\ bl[k].started = claim[k].started
  BY ClaimTyped DEF Withdrawn, Claim
<1>3. /\ Tally(b) /\ b.runtime_seconds = counters.runtime_seconds
      /\ b.dispatch_runtime = counters.dispatch_runtime
  BY DEF Tally, CountersTyped, Zero
<1>4. Charged(counters, claim)
  BY ClockReads, AccruesNothing
<1>. HIDE DEF b, bl
<1>5. Charged(b, bl)
  BY <1>2, <1>3, <1>4, ChargedStill
<1>. QED  BY <1>1, <1>3, <1>5 DEF Entry

LEMMA CreateEntry ==
    ASSUME Rows, CountersTyped, Create
    PROVE  Entry
BY ClockReads, AccruesNothing DEF Create, Entry

LEMMA DeltaOfFewer ==
    ASSUME Rows, NEW J \in SUBSET DOMAIN claim, NEW I \in SUBSET J, NEW now \in Nat
    PROVE  DeltaOf(I, now) <= DeltaOf(J, now)
<1>. DEFINE f == [i \in I |-> Delta(i, now)]
            g == [i \in J |-> Delta(i, now)]
<1>1. IsFiniteSet(I) /\ IsFiniteSet(J)
  BY DomainFinite
<1>2. /\ \A i \in J : g[i] \in Nat
      /\ \A i \in I : f[i] = g[i]
  BY DeltaOK
<1>3. DeltaOf(I, now) = SumFunctionOnSet(f, I) /\ DeltaOf(J, now) = SumFunctionOnSet(g, J)
  BY DEF DeltaOf, SumFunction
<1>. HIDE DEF f, g
<1>4. SumFunctionOnSet(f, I) = SumFunctionOnSet(g, I)
  BY <1>1, <1>2, SumOfSame
<1>5. SumFunctionOnSet(g, I) <= SumFunctionOnSet(g, J)
  BY <1>1, <1>2, SumOfFewer
<1>. QED  BY <1>3, <1>4, <1>5

\* The claims that reconcile rejects fit the budget together: they come before
\* the first that does not.
LEMMA FitIsWithinBudget ==
    ASSUME Rows, CountersTyped, NEW now \in Readings
    PROVE  LET over == {i \in Expired(now) :
                            OverRuntime({k \in Expired(now) : k <= i}, now)}
           IN  ~OverRuntime(Expired(now) \ over, now)
<1>. DEFINE upTo(i) == {k \in Expired(now) : k <= i}
            over == {i \in Expired(now) : OverRuntime(upTo(i), now)}
            fit == Expired(now) \ over
<1>1. /\ Expired(now) \in SUBSET DOMAIN claim /\ fit \in SUBSET Expired(now)
      /\ now \in Nat /\ DOMAIN claim \in SUBSET Nat
  BY Readable DEF Expired, ActiveClaims, Rows
<1>2. CASE fit = {}
  <2>. HIDE DEF fit
  <2>. QED  BY <1>2, AccruesNothing DEF fit
<1>3. CASE fit # {}
  <2>1. IsFiniteSet(fit) /\ fit \in SUBSET Nat
    BY <1>1, DomainFinite
  <2>2. PICK m \in fit : \A k \in fit : k <= m
    <3>. HIDE DEF fit
    <3>. QED  BY <1>3, <2>1, Greatest
  <2>3. fit \in SUBSET upTo(m) /\ upTo(m) \in SUBSET DOMAIN claim
    BY <1>1, <2>2
  <2>4. ~OverRuntime(upTo(m), now)
    BY <2>2
  <2>. HIDE DEF fit, upTo
  <2>5. DeltaOf(fit, now) <= DeltaOf(upTo(m), now)
    BY <1>1, <2>3, DeltaOfFewer
  <2>6. DeltaOf(fit, now) \in Nat /\ DeltaOf(upTo(m), now) \in Nat
    BY <1>1, <2>3, DeltaOfOK
  <2>7. counters.runtime_seconds \in Int /\ Budgets.runtime_seconds \in Nat
    BY RuntimeCounted, ConstantsOK DEF CountersTyped
  <2>8. ~OverRuntime(fit, now)
    BY <2>4, <2>5, <2>6, <2>7 DEF OverRuntime
  <2>. QED  BY <2>8 DEF fit, upTo
<1>. QED  BY <1>2, <1>3

LEMMA ReconcileEntry ==
    ASSUME Rows, CountersTyped, NEW now \in Readings, Reconcile(now)
    PROVE  Entry
<1>. DEFINE over == {i \in Expired(now) :
                        OverRuntime({k \in Expired(now) : k <= i}, now)}
            fit == Expired(now) \ over
            m == MeteredClaims(fit, now)
            c1 == MeteredCounters(fit, now)
            c == RejectedCounters(fit, now)
            cl == Rejected(fit, now)
<1>1. /\ fit \in SUBSET ActiveClaims(claim) /\ fit \in SUBSET DOMAIN claim
      /\ now \in Nat
  BY Readable DEF Expired, ActiveClaims
<1>2. ~OverRuntime(fit, now)
  BY FitIsWithinBudget
<1>3. \/ counters' = c /\ claim' = cl /\ edge' = edge
      \/ Exhaust(c, cl)
  BY DEF Reconcile
<1>. HIDE DEF fit
<1>4. Tally(c1) /\ Charged(c1, m)
  BY <1>1, <1>2, AccruesMetered
<1>5. Carries(m) /\ Carries(cl)
  BY <1>1, MeteredOK, RejectedOK
<1>6. ASSUME NEW k \in DOMAIN claim
      PROVE  /\ m[k] \in Claim /\ cl[k] \in Claim
             /\ cl[k].accounted = m[k].accounted /\ cl[k].started = m[k].started
  <2>1. m[k] \in Claim /\ cl[k] \in Claim
    BY <1>5 DEF Carries, Rows
  <2>2. cl[k] = IF k \in fit THEN [m[k] EXCEPT !.status = "stale_rejected"]
                             ELSE claim[k]
    BY DEF Rejected
  <2>3. k \notin fit => m[k] = claim[k]
    BY DEF MeteredClaims
  <2>. HIDE DEF m, cl
  <2>. QED  BY <2>1, <2>2, <2>3 DEF Claim
<1>7. DOMAIN m = DOMAIN claim /\ DOMAIN cl = DOMAIN claim
  BY DEF MeteredClaims, Rejected
<1>8. IsFiniteSet(fit) /\ Cardinality(fit) \in Nat
  BY <1>1, DomainFinite, FS_CardinalityType
<1>. HIDE DEF c1, m
<1>9. /\ Tally(c) /\ c.runtime_seconds = c1.runtime_seconds
      /\ c.dispatch_runtime = c1.dispatch_runtime
  BY <1>4, <1>8, RuntimeCounted DEF Tally, Zero, c1, RejectedCounters
<1>. HIDE DEF c, cl
<1>10. Charged(c, cl)
  BY <1>4, <1>6, <1>7, <1>9, ChargedStill
<1>. QED  BY <1>3, <1>6, <1>7, <1>9, <1>10, ExhaustCharges DEF Entry

LEMMA StepEntry ==
    ASSUME Rows, CountersTyped, Next
    PROVE  Entry \/ Tick
<1>1. ASSUME NEW now \in Readings,
             \/ Reconcile(now)
             \/ \E s \in Step, lease \in LeaseSeconds : Activate(s, now, lease)
      PROVE  Entry
  BY <1>1, ReconcileEntry, ActivateEntry
<1>2. ASSUME NEW now \in Readings, NEW i \in DOMAIN claim,
             \/ Replay(i, now)
             \/ \E lease \in LeaseSeconds : Renew(i, now, lease)
             \/ \E size \in EventBytes, tool \in BOOLEAN : Event(i, now, size, tool)
             \/ \E status \in Outcomes, reported \in BOOLEAN, size \in ReportBytes :
                    Outcome(i, now, status, reported, size)
      PROVE  Entry
  BY <1>2, ReplayEntry, RenewEntry, EventEntry, OutcomeEntry
<1>. QED  BY <1>1, <1>2, CreateEntry, CancelEntry DEF Next

-----------------------------------------------------------------------------
(* The books of the workflow                                               *)

\* No two claims are the same attempt, and an active one has no outcome yet.
Numbered ==
    /\ \A i, k \in DOMAIN claim :
            claim[i].step = claim[k].step /\ claim[i].attempt = claim[k].attempt
            => i = k
    /\ \A i \in DOMAIN claim : claim[i].attempt <= step[claim[i].step].attempts
    /\ \A i \in ActiveClaims(claim) : claim[i].outcome = None

\* The edges are counted: those of dispatches, and the reports of checks that
\* have ended.
Reported ==
    /\ IsFiniteSet(edge) /\ counters.artifact_edges = Cardinality(edge)
    /\ \A e \in edge :
        \/ e.step \in DispatchStep
        \/ \E k \in DOMAIN claim : claim[k].outcome # None /\ e = CheckReport(k)

BookInv ==
    /\ clock \in 0 .. MaxClock
    /\ CountersTyped
    /\ Ledger(counters, claim)
    /\ Numbered
    /\ Reported

LEMMA NumbersStay ==
    ASSUME Rows, Numbered, Change
    PROVE  /\ Numbered'
           /\ \A k \in DOMAIN claim :
                /\ k \in DOMAIN claim'
                /\ claim'[k].step = claim[k].step
                /\ claim'[k].attempt = claim[k].attempt
                /\ claim[k].outcome # None => claim'[k].outcome # None
<1>. DEFINE n == Len(claim)
<1>1. n \in Nat /\ DOMAIN claim = 1 .. n /\ Open /\ UNCHANGED <<clock, ended>>
  BY DEF Rows, Change
<1>2. ASSUME NEW k \in DOMAIN claim, claim[k].outcome # None
      PROVE  claim[k].status # "active"
  BY <1>2 DEF Numbered, ActiveClaims
<1>3. CASE \E s \in Step : Admits(s)
  <2>1. PICK s \in Step : Admits(s)
    BY <1>3
  <2>2. PICK c \in Claim :
            /\ claim' = Append(claim, c)
            /\ c.step = s /\ c.attempt = step[s].attempts + 1
            /\ c.status = "active" /\ c.outcome = None
    BY <2>1 DEF Admits
  <2>3. /\ DOMAIN claim' = 1 .. (n + 1) /\ claim'[n + 1] = c
        /\ \A k \in 1 .. n : claim'[k] = claim[k]
    BY <1>1, <2>2 DEF Rows
  <2>4. step' = [step EXCEPT ![s] = [state |-> "running", attempts |-> @.attempts + 1]]
    BY <2>1 DEF Admits
  <2>5. /\ \A r \in Step : step[r].attempts \in Nat
        /\ \A k \in 1 .. n : claim[k].step \in Step /\ claim[k].attempt \in Nat
    BY <1>1, ClaimTyped DEF Rows, Claim
  <2>6. /\ step'[s].attempts = step[s].attempts + 1
        /\ \A r \in Step \ {s} : step'[r] = step[r]
    BY <2>4 DEF Rows
  <2>7. \A k \in 1 .. n : /\ claim[k].attempt <= step'[claim[k].step].attempts
                          /\ claim[k].step = s => claim[k].attempt < c.attempt
    BY <1>1, <2>2, <2>5, <2>6 DEF Numbered
  <2>8. \A k \in 1 .. (n + 1) : k \in 1 .. n \/ k = n + 1
    BY <1>1
  <2>9. \A k \in DOMAIN claim' :
            claim'[k].attempt <= step'[claim'[k].step].attempts
    BY <2>2, <2>3, <2>5, <2>6, <2>7, <2>8
  <2>10. ASSUME NEW i \in DOMAIN claim', NEW k \in DOMAIN claim',
                claim'[i].step = claim'[k].step, claim'[i].attempt = claim'[k].attempt
         PROVE  i = k
    <3>1. CASE i \in 1 .. n /\ k \in 1 .. n
      BY <1>1, <2>3, <2>10, <3>1 DEF Numbered
    <3>2. CASE i = n + 1 /\ k \in 1 .. n
      BY <2>2, <2>3, <2>5, <2>7, <2>10, <3>2
    <3>3. CASE i \in 1 .. n /\ k = n + 1
      BY <2>2, <2>3, <2>5, <2>7, <2>10, <3>3
    <3>. QED  BY <2>3, <2>8, <3>1, <3>2, <3>3
  <2>11. \A k \in ActiveClaims(claim') : claim'[k].outcome = None
    BY <1>1, <2>2, <2>3, <2>8 DEF Numbered, ActiveClaims
  <2>12. Numbered'
    BY <2>9, <2>10, <2>11 DEF Numbered
  <2>13. \A k \in 1 .. n : k \in DOMAIN claim'
    BY <1>1, <2>3
  <2>. QED  BY <1>1, <2>3, <2>12, <2>13
<1>4. CASE ~(\E s \in Step : Admits(s))
  <2>1. Carries(claim')
    BY <1>4 DEF Change, Rejects, Ends, Stops
  <2>2. DOMAIN claim' = DOMAIN claim
    BY <2>1 DEF Carries, Rows
  <2>3. \A s \in Step : step'[s].attempts = step[s].attempts
    <3>1. CASE \E I : step' = Reopened(I)
      BY <3>1, ReopenedOK
    <3>2. CASE \E i \in DOMAIN claim, status \in Outcomes : Ends(i, status)
      BY <3>2, ClaimTyped DEF Ends, Rows
    <3>. QED  BY <1>4, <3>1, <3>2 DEF Change, Rejects, Stops
  <2>4. \A k \in ActiveClaims(claim') :
            k \in ActiveClaims(claim) /\ claim'[k].outcome = claim[k].outcome
    <3>1. CASE \E I \in SUBSET DOMAIN claim : Rejects(I)
      BY <2>2, <3>1 DEF Rejects, SameOutcomes, ActiveClaims
    <3>2. CASE \E i \in DOMAIN claim, status \in Outcomes : Ends(i, status)
      BY <2>2, <3>2 DEF Ends, ActiveClaims, Outcomes
    <3>3. CASE Stops
      BY <3>3 DEF Stops
    <3>. QED  BY <1>4, <3>1, <3>2, <3>3 DEF Change
  <2>5. \A k \in DOMAIN claim : claim'[k].step = claim[k].step
                                /\ claim'[k].attempt = claim[k].attempt
    BY <2>1 DEF Carries
  <2>6. Numbered'
    <3>1. \A k \in DOMAIN claim : claim[k].step \in Step
      BY ClaimTyped
    <3>. QED  BY <2>2, <2>3, <2>4, <2>5, <3>1 DEF Numbered
  <2>. QED  BY <1>2, <2>1, <2>2, <2>5, <2>6 DEF Carries
<1>. QED  BY <1>3, <1>4

\* A report is registered once: the claim it is of had none.
LEMMA ReportsStay ==
    ASSUME Rows, BookInv, Change, Entry
    PROVE  Reported'
<1>1. \A k \in DOMAIN claim :
          /\ k \in DOMAIN claim'
          /\ claim'[k].step = claim[k].step
          /\ claim'[k].attempt = claim[k].attempt
          /\ claim[k].outcome # None => claim'[k].outcome # None
  BY NumbersStay DEF BookInv
<1>2. \A e \in edge :
          \/ e.step \in DispatchStep
          \/ \E k \in DOMAIN claim' : claim'[k].outcome # None /\ e = CheckReport(k)'
  BY <1>1 DEF BookInv, Reported, CheckReport
<1>3. CASE edge' = edge /\ Tally(counters')
  BY <1>2, <1>3 DEF BookInv, Reported, Tally
<1>4. CASE \E i \in DOMAIN claim : Registers(i)
  <2>1. PICK i \in DOMAIN claim : Registers(i)
    BY <1>4
  <2>2. CheckReport(i) \notin edge
    <3>1. SUFFICES ASSUME CheckReport(i) \in edge PROVE FALSE
      OBVIOUS
    <3>0. CheckReport(i).step \notin DispatchStep
      BY <2>1 DEF Registers, CheckReport
    <3>2. PICK k \in DOMAIN claim :
              claim[k].outcome # None /\ CheckReport(i) = CheckReport(k)
      BY <3>0, <3>1 DEF BookInv, Reported
    <3>3. claim[k].step = claim[i].step /\ claim[k].attempt = claim[i].attempt
      BY <3>2 DEF CheckReport
    <3>4. k = i
      BY <3>3 DEF BookInv, Numbered
    <3>. QED  BY <2>1, <3>2, <3>4 DEF Registers, BookInv, Numbered
  <2>3. edge' = edge \cup {CheckReport(i)}
    BY <2>1 DEF Registers
  <2>4. IsFiniteSet(edge) /\ counters.artifact_edges = Cardinality(edge)
    BY DEF BookInv, Reported
  <2>5. IsFiniteSet(edge') /\ Cardinality(edge') = Cardinality(edge) + 1
    BY <2>2, <2>3, <2>4, FS_AddElement
  <2>6. counters'.artifact_edges = Cardinality(edge')
    BY <2>1, <2>4, <2>5 DEF Registers
  <2>7. CheckReport(i)' = CheckReport(i) /\ claim'[i].outcome # None
    BY <1>1, <2>1 DEF CheckReport, Registers
  <2>8. \A e \in edge' :
            \/ e.step \in DispatchStep
            \/ \E k \in DOMAIN claim' : claim'[k].outcome # None /\ e = CheckReport(k)'
    BY <1>1, <1>2, <2>3, <2>7
  <2>. QED  BY <2>5, <2>6, <2>8 DEF Reported
<1>. QED  BY <1>3, <1>4 DEF Entry

\* A new claim has nothing accounted for.
LEMMA LedgerOpens ==
    ASSUME Rows, CountersTyped, Ledger(counters, claim), clock' = clock, Opens
    PROVE  Ledger(counters, claim)'
<1>. DEFINE n == Len(claim)
            D == DOMAIN claim
            f == AccountedOf(claim)
            g == AccountedOf(claim')
<1>1. PICK c \in Claim : claim' = Append(claim, c) /\ c.accounted = 0 /\ c.started <= clock
  BY DEF Opens
<1>2. /\ n \in Nat /\ D = 1 .. n /\ DOMAIN claim' = 1 .. (n + 1)
      /\ claim'[n + 1] = c /\ \A k \in 1 .. n : claim'[k] = claim[k]
  BY <1>1 DEF Rows
<1>3. /\ \A k \in 1 .. n : g[k] = f[k] /\ f[k] \in Nat
      /\ g[n + 1] = 0 /\ DOMAIN f = 1 .. n /\ DOMAIN g = 1 .. (n + 1)
  <2>1. \A k \in 1 .. n : claim[k].accounted \in Nat
    BY <1>2, ClaimTyped DEF Claim
  <2>. QED  BY <1>1, <1>2, <2>1 DEF AccountedOf
<1>4. IsFiniteSet(1 .. n) /\ IsFiniteSet(1 .. (n + 1))
  BY <1>2, FS_Interval
<1>. HIDE DEF f, g, n
<1>5. SumFunctionOnSet(g, 1 .. (n + 1)) = SumFunctionOnSet(g, 1 .. n)
  <2>1. \A k \in 1 .. (n + 1) : k \in 1 .. n \/ k = n + 1
    BY <1>2
  <2>2. /\ \A k \in 1 .. (n + 1) : g[k] \in Int
        /\ \A k \in (1 .. (n + 1)) \ (1 .. n) : g[k] = 0
        /\ 1 .. n \in SUBSET (1 .. (n + 1))
    BY <1>2, <1>3, <2>1
  <2>. QED  BY <1>4, <2>2, SumOfPart
<1>6. SumFunctionOnSet(g, 1 .. n) = SumFunctionOnSet(f, 1 .. n)
  <2>. DEFINE S == 1 .. n
  <2>1. IsFiniteSet(S) /\ \A k \in S : g[k] = f[k]
    BY <1>3, <1>4
  <2>. HIDE DEF S
  <2>2. SumFunctionOnSet(g, S) = SumFunctionOnSet(f, S)
    BY <2>1, SumOfSame
  <2>. QED  BY <2>2 DEF S
<1>7. SumFunction(g) = SumFunction(f)
  BY <1>3, <1>5, <1>6 DEF SumFunction
<1>8. /\ counters'.runtime_seconds = SumFunction(g) + counters'.dispatch_runtime
      /\ counters'.dispatch_runtime \in Nat
      /\ counters'.runtime_seconds - counters'.dispatch_runtime
            <= Budgets.runtime_seconds
  BY <1>7 DEF Opens, Ledger, f
<1>9. ASSUME NEW k \in DOMAIN claim'
      PROVE  claim'[k].accounted + claim'[k].started <= clock'
  <2>1. CASE k = n + 1
    <3>1. c.started \in Nat
      BY DEF Claim
    <3>. QED  BY <1>1, <1>2, <2>1, <3>1
  <2>2. CASE k # n + 1
    BY <1>2, <2>2 DEF Ledger
  <2>. QED  BY <2>1, <2>2
<1>. QED  BY <1>8, <1>9 DEF Ledger, g

LEMMA EntryOK ==
    ASSUME Rows, BookInv, Change, Entry
    PROVE  BookInv'
<1>0. CountersTyped /\ Ledger(counters, claim) /\ clock' = clock
  BY DEF BookInv, Change
<1>1. Numbered' /\ Reported'
  BY NumbersStay, ReportsStay DEF BookInv
<1>2. CountersTyped'
  BY DEF Entry, Tally, Registers, CountersTyped
<1>3. CASE Opens
  <2>1. Ledger(counters, claim)'
    BY <1>0, <1>3, LedgerOpens
  <2>. QED  BY <1>0, <1>1, <1>2, <2>1 DEF BookInv
<1>4. CASE Charged(counters', claim')
  <2>1. PICK I \in SUBSET DOMAIN claim, now \in Readings :
            ~OverRuntime(I, now) /\ Accrues(counters', claim', I, now)
    BY <1>4 DEF Charged
  <2>2. PICK c, cl : c = counters' /\ cl = claim'
    OBVIOUS
  <2>3. Ledger(c, cl)
    BY <1>0, <2>1, <2>2, LedgerStays
  <2>4. Ledger(counters, claim)'
    BY <1>0, <2>2, <2>3 DEF Ledger
  <2>. QED  BY <1>0, <1>1, <1>2, <2>4 DEF BookInv
<1>. QED  BY <1>3, <1>4 DEF Entry

LEMMA BooksInit == Init => BookInv
<1>. SUFFICES ASSUME Init PROVE BookInv
  OBVIOUS
<1>1. claim = <<>> /\ DOMAIN claim = {} /\ clock \in 0 .. MaxClock
  BY ConstantsOK DEF Init
<1>2. CountersTyped
  BY DEF Init, CountersTyped, Zero
<1>3. SumFunction(AccountedOf(claim)) = 0
  <2>1. DOMAIN AccountedOf(claim) = {}
    BY <1>1 DEF AccountedOf
  <2>. QED  BY <2>1, SumOfNone DEF SumFunction
<1>4. counters.runtime_seconds = 0 /\ counters.dispatch_runtime = 0
        /\ counters.artifact_edges = 0
  BY DEF Init, Zero
<1>5. Ledger(counters, claim)
  BY <1>1, <1>3, <1>4, ConstantsOK DEF Ledger
<1>6. Numbered
  BY <1>1 DEF Numbered, ActiveClaims
<1>7. Reported
  BY <1>4, FS_EmptySet DEF Reported, Init
<1>. QED  BY <1>1, <1>2, <1>5, <1>6, <1>7 DEF BookInv

LEMMA BooksStay ==
    ASSUME BookInv, UNCHANGED tables, clock' \in 0 .. MaxClock, clock <= clock', Rows
    PROVE  BookInv'
<1>1. ASSUME NEW k \in DOMAIN claim
      PROVE  claim[k].accounted + claim[k].started <= clock'
  <2>1. claim[k].accounted \in Nat /\ claim[k].started \in Nat
    BY ClaimTyped DEF Claim
  <2>2. claim[k].accounted + claim[k].started <= clock
    BY DEF BookInv, Ledger
  <2>. QED  BY <2>1, <2>2 DEF Rows
<1>2. Ledger(counters, claim)'
  BY <1>1 DEF BookInv, Ledger, tables
<1>3. Numbered' /\ CountersTyped' /\ Reported'
  BY DEF BookInv, tables, Numbered, CountersTyped, Reported, ActiveClaims, CheckReport
<1>. QED  BY <1>2, <1>3 DEF BookInv

LEMMA BooksAreKept == Spec => []BookInv
<1>1. IndInv /\ BookInv /\ [Next]_vars => BookInv'
  <2>. SUFFICES ASSUME IndInv, BookInv, [Next]_vars PROVE BookInv'
    OBVIOUS
  <2>0. Rows /\ CountersTyped
    BY DEF IndInv, BookInv
  <2>1. CASE UNCHANGED vars
    BY <2>0, <2>1, BooksStay DEF vars, tables, BookInv, Rows
  <2>2. CASE Tick
    <3>1. clock' \in 0 .. MaxClock /\ clock <= clock'
      BY <2>2, ConstantsOK DEF Tick, BookInv
    <3>. QED  BY <2>0, <2>2, <3>1, BooksStay DEF Tick
  <2>3. CASE Next /\ ~Tick
    BY <2>0, <2>3, StepEntry, StepChanges, EntryOK
  <2>. QED  BY <2>1, <2>2, <2>3
<1>. QED  BY BooksInit, Invariance, <1>1, PTL DEF Spec

LEMMA BooksMetered ==
    ASSUME Rows, BookInv
    PROVE  Metered
<1>1. Ledger(counters, claim) /\ CountersTyped
  BY DEF BookInv
<1>2. counters.runtime_seconds =
          SumFunction([i \in DOMAIN claim |-> claim[i].accounted])
              + counters.dispatch_runtime
  BY <1>1 DEF Ledger, AccountedOf
<1>3. counters.runtime_seconds - counters.dispatch_runtime <= Budgets.runtime_seconds
  BY <1>1 DEF Ledger
<1>4. ASSUME NEW i \in DOMAIN claim
      PROVE  claim[i].accounted <= clock - claim[i].started
  <2>1. claim[i].accounted \in Nat /\ claim[i].started \in Nat
    BY ClaimTyped DEF Claim
  <2>. QED  BY <1>1, <2>1 DEF Ledger, Rows
<1>. QED  BY <1>2, <1>3, <1>4 DEF Metered, BookInv, Reported

-----------------------------------------------------------------------------
(* The types                                                               *)

\* The workflow's row and the outcomes of its dispatches.
RowTyped ==
    /\ workflow.state \in {"absent"} \cup ActiveStates \cup Terminal
    /\ workflow.receipt.status \in {None} \cup Terminal
    /\ ended \in [Step -> {None} \cup Outcomes]

LEMMA EnteringTyped ==
    ASSUME RowTyped, NEW state \in ActiveStates \cup Terminal,
           NEW c, NEW cl, NEW en, NEW ed, workflow' = Entering(state, c, cl, en, ed)
    PROVE  /\ workflow'.state \in {"absent"} \cup ActiveStates \cup Terminal
           /\ workflow'.receipt.status \in {None} \cup Terminal
<1>1. workflow'.state = state
  BY DEF Entering
<1>2. workflow'.receipt = IF state \in Terminal /\ workflow.receipt = NoReceipt
                          THEN ReceiptOf(state, c, cl, en, ed)
                          ELSE workflow.receipt
  BY DEF Entering
<1>3. ReceiptOf(state, c, cl, en, ed).status = state
  BY DEF ReceiptOf
<1>. QED  BY <1>1, <1>2, <1>3 DEF RowTyped

LEMMA RowStaysTyped ==
    ASSUME RowTyped, Change
    PROVE  RowTyped'
<1>1. ended' = ended
  BY DEF Change
<1>2. CASE GoesOn
  BY <1>1, <1>2 DEF GoesOn, RowTyped
<1>3. CASE \E i \in DOMAIN claim, status \in Outcomes : Ends(i, status)
  <2>1. PICK i \in DOMAIN claim, status \in Outcomes : Ends(i, status)
    BY <1>3
  <2>. DEFINE state == AfterOutcome(claim[i].step, status)
  <2>2. state \in ActiveStates \cup Terminal
    BY DEF AfterOutcome, Outcomes, ActiveStates, Terminal
  <2>. HIDE DEF state
  <2>3. workflow' = Entering(state, counters', claim', ended', edge')
    BY <2>1 DEF Ends, state
  <2>. QED  BY <1>1, <2>2, <2>3, EnteringTyped DEF RowTyped
<1>4. CASE Stops
  <2>1. PICK state \in Terminal :
            workflow' = Entering(state, counters', claim', ended', edge')
    BY <1>4 DEF Stops
  <2>. QED  BY <1>1, <2>1, EnteringTyped DEF RowTyped
<1>. QED  BY <1>2, <1>3, <1>4 DEF Change, Admits, Rejects

LEMMA TablesTyped ==
    ASSUME Rows, BookInv, RowTyped
    PROVE  TypeOK
<1>1. clock \in 0 .. MaxClock /\ \A c \in DOMAIN Zero : counters[c] \in Int
  BY DEF BookInv, CountersTyped
<1>2. \A e \in edge : e.step \in Step
  <2>1. \A k \in DOMAIN claim : CheckReport(k).step \in Step
    BY ClaimTyped DEF CheckReport
  <2>2. \A s \in DispatchStep : s \in Step
    BY DEF DispatchStep
  <2>. QED  BY <2>1, <2>2 DEF BookInv, Reported
<1>. QED  BY <1>1, <1>2 DEF TypeOK, Rows, RowTyped

-----------------------------------------------------------------------------
(* Theorems                                                                *)

\* However often leases run out and claims are reconciled, a step is attempted
\* at most max_attempts times, and after the steps it depends on have succeeded
\* (_activate, reconcile).
THEOREM AttemptsStayInOrder == Spec => []AttemptsInOrder
<1>1. IndInv => AttemptsInOrder
  BY DEF IndInv
<1>. QED  BY <1>1, Invariance, PTL

\* The three tables that activation, renewal, outcomes and reconciliation write
\* stay in step as long as the workflow is active.
THEOREM ClaimsStayInStep == Spec => []ClaimsAgree
<1>1. IndInv => ClaimsAgree
  <2>. SUFFICES ASSUME IndInv PROVE ClaimsAgree
    OBVIOUS
  <2>1. \A i, k \in ActiveClaims(claim) : claim[i].step = claim[k].step => i = k
    BY DEF IndInv, OneClaim
  <2>2. ASSUME workflow.state \in ActiveStates
        PROVE  /\ \A s \in ProviderStep \cup CheckStep :
                    (step[s].state = "running") <=>
                        \E i \in ActiveClaims(claim) :
                            claim[i].step = s /\ claim[i].attempt = step[s].attempts
               /\ counters.active_steps =
                        Cardinality(ActiveClaims(claim)) + counters.active_dispatches
    <3>1. Open
      BY <2>2 DEF Open
    <3>2. InStep /\ counters.active_steps = Cardinality(ActiveClaims(claim))
      BY <3>1 DEF IndInv, Books
    <3>3. counters.active_steps \in Nat /\ counters.active_dispatches = 0
      BY <3>1, OpenBooks
    <3>4. \A s \in ProviderStep \cup CheckStep : s \in Step
      BY DEF ProviderStep, CheckStep
    <3>. QED  BY <3>2, <3>3, <3>4 DEF InStep
  <2>. QED  BY <2>1, <2>2 DEF ClaimsAgree
<1>. QED  BY <1>1, Invariance, PTL

\* The receipt is there exactly when the workflow has ended, tells what the
\* tables hold then and ever after, and a completed workflow has one success for
\* each step (_complete_attempt, _budget_exhausted, cancel, _freeze_receipt).
THEOREM ReceiptIsTrue == Spec => []ReceiptTells
<1>1. IndInv => ReceiptTells
  <2>. SUFFICES ASSUME IndInv PROVE ReceiptTells
    OBVIOUS
  <2>1. CASE Open
    BY <2>1 DEF IndInv, ReceiptTells, Open, ActiveStates, Terminal
  <2>2. CASE ~Open
    <3>1. workflow.receipt.status = workflow.state /\ workflow.state \in Terminal
      BY <2>2 DEF IndInv, Told, ReceiptOf
    <3>2. workflow.receipt # NoReceipt
      BY <3>1 DEF NoReceipt, None, Terminal
    <3>. QED  BY <2>2, <3>1, <3>2 DEF IndInv, Told, ReceiptTells
  <2>. QED  BY <2>1, <2>2
<1>. QED  BY <1>1, Invariance, PTL

\* No late answer reaches a claim that was superseded (_checked_claim).
THEOREM SupersededClaimsStay == Spec => SupersededStays
<1>1. IndInv /\ [Next]_vars =>
        [\A i \in DOMAIN claim : claim[i].status # "active" => claim'[i] = claim[i]]_vars
  <2>. SUFFICES ASSUME IndInv, Next, NEW i \in DOMAIN claim, claim[i].status # "active"
                PROVE  claim'[i] = claim[i]
    OBVIOUS
  <2>1. CASE Tick
    BY <2>1 DEF Tick, tables
  <2>2. CASE Change
    <3>1. CASE \E s \in Step : Admits(s)
      BY <2>2, <3>1, AdmitsOK DEF Change
    <3>2. CASE ~(\E s \in Step : Admits(s))
      <4>1. Carries(claim')
        BY <2>2, <3>2 DEF Change, Rejects, Ends, Stops
      <4>. QED  BY <4>1 DEF Carries
    <3>. QED  BY <3>1, <3>2
  <2>. QED  BY <2>1, <2>2, StepChanges DEF IndInv
<1>. QED  BY Invariance, <1>1, PTL DEF Spec, SupersededStays

\* Nobody loses a claim before its lease has run out (reconcile).
THEOREM LeasesAreKept == Spec => LeaseIsKept
<1>1. IndInv /\ [Next]_vars =>
        [\A i \in ActiveClaims(claim) :
            /\ claim'[i].status = "stale_rejected"
            /\ workflow'.state \in ActiveStates
            => claim[i].expires < clock]_vars
  <2>. SUFFICES ASSUME IndInv, Next, NEW i \in ActiveClaims(claim),
                       claim'[i].status = "stale_rejected",
                       workflow'.state \in ActiveStates
                PROVE  claim[i].expires < clock
    OBVIOUS
  <2>0. i \in DOMAIN claim /\ claim[i].status = "active"
    BY DEF ActiveClaims
  <2>1. claim'[i] # claim[i]
    BY <2>0
  <2>2. ~Tick
    BY <2>1 DEF Tick, tables
  <2>3. Change
    BY <2>2, StepChanges DEF IndInv
  <2>4. CASE \E s \in Step : Admits(s)
    BY <2>0, <2>1, <2>3, <2>4, AdmitsOK DEF Change
  <2>5. CASE \E I \in SUBSET DOMAIN claim : Rejects(I)
    BY <2>0, <2>5 DEF Rejects
  <2>6. CASE \E k \in DOMAIN claim, status \in Outcomes : Ends(k, status)
    BY <2>0, <2>1, <2>6 DEF Ends, Outcomes
  <2>7. CASE Stops
    <3>1. ~Open'
      BY <2>3, <2>7, StopsOK DEF Change
    <3>. QED  BY <3>1 DEF Open
  <2>. QED  BY <2>3, <2>4, <2>5, <2>6, <2>7 DEF Change
<1>. QED  BY Invariance, <1>1, PTL DEF Spec, LeaseIsKept

\* The runtime charged to a workflow is what its claims account for, claim by
\* claim, within the budget and never more than a claim has run; the edges
\* counted are those there are (_account_runtime, update, reconcile).
THEOREM RuntimeIsMetered == Spec => []Metered
<1>1. IndInv /\ BookInv => Metered
  BY BooksMetered DEF IndInv
<1>. QED  BY <1>1, Invariance, BooksAreKept, PTL

\* Every table holds what its columns allow.
THEOREM WorkflowTyped == Spec => []TypeOK
<1>1. IndInv /\ BookInv => TypeOK
  <2>. SUFFICES ASSUME IndInv, BookInv PROVE TypeOK
    OBVIOUS
  <2>1. RowTyped
    BY DEF IndInv, Open, Told, ReceiptOf, NoReceipt, RowTyped
  <2>. QED  BY <2>1, TablesTyped DEF IndInv
<1>. QED  BY <1>1, Invariance, BooksAreKept, PTL

=============================================================================
