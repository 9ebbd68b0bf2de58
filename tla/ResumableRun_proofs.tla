------------------------- MODULE ResumableRun_proofs -------------------------
(***************************************************************************)
(* Theorems about the runs of a plan, for every plan, any number of hosts, *)
(* keys and versions.                                                      *)
(*                                                                         *)
(* A host writes a snapshot made of the copy it keeps, and the repository  *)
(* only compares versions.  That no write is lost rests on what hosts keep *)
(* in mind: a copy is older than the snapshot, or it is the snapshot.      *)
(*                                                                         *)
(* RunOK says what a run is at any of its steps: the plan it was given     *)
(* goes on from what was completed before (Fits), its steps are in an      *)
(* order in which dependencies come first (Orders), and it has reported a  *)
(* prefix of it, of which it passed all but at most the last (Behind).     *)
(* Each thing that can happen at a step reports that step (Reports), so    *)
(* one lemma (ReportedOK) covers them all.                                 *)
(*                                                                         *)
(* ClaimsOK says who may call: at most one host at a time has claimed the  *)
(* snapshot with steps left and no unknown outcome, it takes everything    *)
(* completed so far to be done, and while it may call nobody can claim.    *)
(***************************************************************************)
EXTENDS ResumableRun, PlanOrder_proofs

\* What a host knows of the snapshot: its copy, or the one it replaced it by.
Known(c) ==
    IF c.pc = "claimed"
    THEN [c.copy EXCEPT !.version = @ + 1, !.state = "running"]
    ELSE c.copy

\* The host may come to write what it knows.
Keeps(c) ==
    \/ c.pc \in {"deciding", "claimed", "refused"}
    \/ c.pc = "running" /\ c.mode = "claimed"

OldOrCurrent(known) ==
    /\ known.version \in 0 .. snapshot.version
    /\ known.version = snapshot.version => known = snapshot

HostOK(c) ==
    /\ DOMAIN c = {"pc", "copy", "mode", "run"}
    /\ Keeps(c) => OldOrCurrent(Known(c))

HostsOK ==
    /\ snapshot.version \in Nat
    /\ DOMAIN host = Host
    /\ \A h \in Host : HostOK(host[h])

\* A checkpoint without a decision is under no key, any other under one.
LedgerOK ==
    /\ DOMAIN byKey = Key
    /\ DOMAIN byCheckpoint = 1 .. MaxVersion
    /\ \A id \in 1 .. MaxVersion :
        IF byCheckpoint[id] = NoDecision
        THEN {k \in Key : byKey[k].checkpoint = id} = {}
        ELSE \E k \in Key : {j \in Key : byKey[j].checkpoint = id} = {k}

IndInv == HostsOK /\ LedgerOK

-----------------------------------------------------------------------------
(* The snapshot                                                            *)

\* One host moves, and the others know no more than before.
LEMMA OneMoves ==
    ASSUME HostsOK, NEW h \in Host,
           DOMAIN host' = Host,
           \A x \in Host \ {h} : host'[x] = host[x],
           snapshot' = snapshot \/ snapshot'.version = snapshot.version + 1,
           HostOK(host[h])'
    PROVE  HostsOK'
<1>1. snapshot'.version \in Nat /\ snapshot'.version >= snapshot.version
  BY DEF HostsOK
<1>2. ASSUME NEW x \in Host \ {h}
      PROVE  HostOK(host[x])'
  <2>1. host'[x] = host[x] /\ HostOK(host[x])
    BY <1>2 DEF HostsOK
  <2>2. ASSUME Keeps(host[x])
        PROVE  OldOrCurrent(Known(host[x]))'
    <3>. DEFINE k == Known(host[x])
    <3>1. Known(host[x])' = k
      BY <2>1 DEF Known
    <3>2. OldOrCurrent(k)
      BY <2>1, <2>2 DEF HostOK
    <3>. HIDE DEF k
    <3>3. CASE snapshot' = snapshot
      BY <3>1, <3>2, <3>3 DEF OldOrCurrent
    <3>4. CASE snapshot'.version = snapshot.version + 1
      BY <3>1, <3>2, <3>4, <1>1 DEF OldOrCurrent, HostsOK
    <3>. QED  BY <3>3, <3>4
  <2>. QED  BY <2>1, <2>2 DEF HostOK, Keeps
<1>. QED  BY <1>1, <1>2 DEF HostsOK

\* What is true of the host that moves suffices when it keeps no copy to write.
LEMMA LeaveOK ==
    ASSUME HostsOK, NEW h \in Host, Leave(h), UNCHANGED snapshot
    PROVE  HostsOK'
<1>1. DOMAIN host' = Host /\ host'[h] = Idle /\ \A x \in Host \ {h} : host'[x] = host[x]
  BY DEF Leave, HostsOK
<1>2. HostOK(host[h])'
  BY <1>1 DEF HostOK, Idle, Keeps
<1>. QED  BY <1>1, <1>2, OneMoves

\* A write of the next version is that of a host whose copy was current.
LEMMA WritesOK ==
    ASSUME HostsOK, NEW h \in Host, NEW new, NEW pc \in {"claimed", "over"},
           Keeps(host[h]), host[h].pc # "claimed",
           pc = "claimed" =>
                new = [host[h].copy EXCEPT !.version = @ + 1, !.state = "running"],
           Writes(h, new, pc)
    PROVE  HostsOK' /\ Replaced
<1>0. HostOK(host[h]) /\ OldOrCurrent(host[h].copy)
  BY DEF HostsOK, HostOK, Known
<1>1. CASE Leave(h) /\ UNCHANGED snapshot
  BY <1>1, LeaveOK DEF Replaced
<1>2. CASE CompareAndSet(host[h].copy.version, new) /\ Goto(h, pc)
  <2>1. /\ host[h].copy = snapshot
        /\ snapshot'.version = snapshot.version + 1
        /\ snapshot' = new
    BY <1>0, <1>2 DEF OldOrCurrent, CompareAndSet
  <2>2. /\ DOMAIN host' = Host
        /\ \A x \in Host \ {h} : host'[x] = host[x]
        /\ DOMAIN host'[h] = {"pc", "copy", "mode", "run"}
        /\ host'[h].pc = pc /\ host'[h].copy = host[h].copy
    BY <1>0, <1>2 DEF Goto, HostsOK, HostOK
  <2>3. host'[h] # host[h]
    BY <2>2 DEF Keeps
  <2>4. Keeps(host[h])' => OldOrCurrent(Known(host[h]))'
    <3>1. CASE pc = "over"
      BY <2>2, <3>1 DEF Keeps
    <3>2. CASE pc = "claimed"
      <4>1. Known(host[h])' = snapshot'
        BY <2>1, <2>2, <3>2 DEF Known
      <4>2. snapshot'.version \in 0 .. snapshot'.version
        BY <2>1 DEF HostsOK
      <4>. QED  BY <4>1, <4>2 DEF OldOrCurrent
    <3>. QED  BY <3>1, <3>2
  <2>5. HostsOK'
    BY <2>1, <2>2, <2>4, OneMoves DEF HostOK
  <2>. QED  BY <2>1, <2>3, <2>5 DEF Replaced
<1>. QED  BY <1>1, <1>2 DEF Writes

\* A host starts from the snapshot it puts or reads.
LEMMA BeginOK ==
    ASSUME HostsOK, NEW h \in Host, Begin(h)
    PROVE  HostsOK' /\ Replaced
<1>1. /\ snapshot = NoSnapshot
      /\ snapshot'.version = 1
      /\ DOMAIN host' = Host
      /\ \A x \in Host \ {h} : host'[x] = host[x]
      /\ DOMAIN host'[h] = {"pc", "copy", "mode", "run"}
      /\ host'[h].pc = "running" /\ host'[h].copy = snapshot'
  BY DEF Begin, HostsOK, Snapshot
<1>2. snapshot'.version = snapshot.version + 1
  BY <1>1 DEF NoSnapshot
<1>3. HostOK(host[h])'
  BY <1>1 DEF HostOK, Known, OldOrCurrent
<1>. QED  BY <1>1, <1>2, <1>3, OneMoves DEF Replaced

LEMMA ReadOK ==
    ASSUME HostsOK, NEW h \in Host, Read(h)
    PROVE  HostsOK'
<1>1. /\ snapshot' = snapshot
      /\ DOMAIN host' = Host
      /\ \A x \in Host \ {h} : host'[x] = host[x]
      /\ DOMAIN host'[h] = {"pc", "copy", "mode", "run"}
      /\ host'[h].pc = "deciding" /\ host'[h].copy = snapshot
  BY DEF Read, HostsOK, HostOK
<1>2. Known(host[h])' = snapshot' /\ snapshot'.version \in 0 .. snapshot'.version
  BY <1>1 DEF Known, HostsOK
<1>3. HostOK(host[h])'
  BY <1>1, <1>2 DEF HostOK, OldOrCurrent
<1>. QED  BY <1>1, <1>3, OneMoves

\* resume_snapshot works with the snapshot the host wrote when it claimed it.
LEMMA ResumeSnapshotOK ==
    ASSUME HostsOK, NEW h \in Host, ResumeSnapshot(h)
    PROVE  HostsOK'
<1>0. HostOK(host[h]) /\ host[h].pc = "claimed" /\ OldOrCurrent(Known(host[h]))
  BY DEF ResumeSnapshot, HostsOK, HostOK, Keeps
<1>1. /\ snapshot' = snapshot
      /\ DOMAIN host' = Host
      /\ \A x \in Host \ {h} : host'[x] = host[x]
      /\ DOMAIN host'[h] = {"pc", "copy", "mode", "run"}
      /\ host'[h].pc \in {"running", "refused"}
      /\ host'[h].copy = [host[h].copy EXCEPT !.version = @ + 1, !.state = "running"]
  BY <1>0 DEF ResumeSnapshot, HostsOK, HostOK
<1>2. Known(host[h])' = Known(host[h])
  BY <1>0, <1>1 DEF Known
<1>3. HostOK(host[h])'
  BY <1>0, <1>1, <1>2 DEF HostOK, OldOrCurrent
<1>. QED  BY <1>1, <1>3, OneMoves

LEMMA ResumePlanOK ==
    ASSUME HostsOK, NEW h \in Host, NEW id, ResumePlan(h, id)
    PROVE  HostsOK'
<1>1. /\ snapshot' = snapshot
      /\ DOMAIN host' = Host
      /\ \A x \in Host \ {h} : host'[x] = host[x]
      /\ DOMAIN host'[h] = {"pc", "copy", "mode", "run"}
      /\ host'[h].pc = "running" /\ host'[h].mode = "free"
  BY DEF ResumePlan, HostsOK, HostOK
<1>2. HostOK(host[h])'
  BY <1>1 DEF HostOK, Keeps
<1>. QED  BY <1>1, <1>2, OneMoves

\* The steps of a run are nothing to the snapshot.
LEMMA DispatchOK ==
    ASSUME HostsOK, NEW h \in Host, Dispatch(h)
    PROVE  /\ HostsOK'
           /\ UNCHANGED <<snapshot, byKey, byCheckpoint>>
<1>1. \E run : Goes(h, run)
  BY DEF Dispatch, InputMissing, Approval, Verify, Transform, NoExecutor, Execute, Finish
<1>2. PICK run : Goes(h, run)
  BY <1>1
<1>3. /\ DOMAIN host' = Host
      /\ \A x \in Host \ {h} : host'[x] = host[x]
      /\ DOMAIN host'[h] = {"pc", "copy", "mode", "run"}
      /\ host'[h].pc = host[h].pc /\ host'[h].mode = host[h].mode
      /\ host'[h].copy = host[h].copy
  BY <1>2 DEF Goes, HostsOK, HostOK
<1>4. UNCHANGED <<snapshot, byKey, byCheckpoint>>
  BY <1>2 DEF Goes
<1>5. HostOK(host[h])'
  BY <1>3, <1>4 DEF HostOK, HostsOK, Keeps, Known, OldOrCurrent
<1>. QED  BY <1>3, <1>4, <1>5, OneMoves

LEMMA SaveOK ==
    ASSUME HostsOK, NEW h \in Host, Save(h)
    PROVE  HostsOK' /\ Replaced
<1>1. \E new : Writes(h, new, "over")
  BY DEF Save
<1>2. Keeps(host[h]) /\ host[h].pc # "claimed"
  BY DEF Save, Keeps
<1>. QED  BY <1>1, <1>2, WritesOK

-----------------------------------------------------------------------------
(* The ledger                                                              *)

\* The keys of a checkpoint, counted.
LEMMA KeysCounted ==
    ASSUME NEW keys, NEW decision,
           IF decision = NoDecision THEN keys = {} ELSE \E k \in Key : keys = {k}
    PROVE  Cardinality(keys) = IF decision = NoDecision THEN 0 ELSE 1
<1>1. CASE decision = NoDecision
  BY <1>1, FS_EmptySet
<1>2. CASE decision # NoDecision
  <2>1. PICK k \in Key : keys = {k}
    BY <1>2
  <2>. QED  BY <1>2, <2>1, FS_Singleton
<1>. QED  BY <1>1, <1>2

LEMMA LedgerStays ==
    ASSUME LedgerOK, UNCHANGED <<byKey, byCheckpoint>>
    PROVE  LedgerOK' /\ DecidedOnce
<1>1. ASSUME NEW id \in DOMAIN byCheckpoint
      PROVE  Cardinality({k \in Key : byKey[k].checkpoint = id}) =
                IF byCheckpoint[id] = NoDecision THEN 0 ELSE 1
  <2>. DEFINE keys == {k \in Key : byKey[k].checkpoint = id}
              decision == byCheckpoint[id]
  <2>1. IF decision = NoDecision THEN keys = {} ELSE \E k \in Key : keys = {k}
    BY <1>1 DEF LedgerOK
  <2>. HIDE DEF keys, decision
  <2>2. Cardinality(keys) = IF decision = NoDecision THEN 0 ELSE 1
    BY <2>1, KeysCounted
  <2>. QED  BY <2>2 DEF keys, decision
<1>. QED  BY <1>1 DEF LedgerOK, DecidedOnce, NoDecision

\* A decision is taken in where neither its key nor its checkpoint has one.
LEMMA DecideOK ==
    ASSUME LedgerOK, NEW key \in Key, NEW id, NEW verdict \in {"approved", "rejected"},
           Decide(key, id, verdict)
    PROVE  LedgerOK' /\ DecidedOnce
<1>. DEFINE new == [verdict |-> verdict, checkpoint |-> id]
<1>1. new # NoDecision
  BY DEF NoDecision
<1>2. /\ DOMAIN byKey' = Key
      /\ byKey[key] = NoDecision
      /\ byKey'[key].checkpoint = id
      /\ \A k \in Key \ {key} : byKey'[k] = byKey[k]
  BY DEF Decide, LedgerOK
<1>3. /\ DOMAIN byCheckpoint' = DOMAIN byCheckpoint
      /\ byCheckpoint[id] = NoDecision
      /\ id \in DOMAIN byCheckpoint => byCheckpoint'[id] = new
      /\ \A i \in DOMAIN byCheckpoint \ {id} : byCheckpoint'[i] = byCheckpoint[i]
  BY DEF Decide
<1>4. ASSUME NEW i \in 1 .. MaxVersion
      PROVE  {k \in Key : byKey'[k].checkpoint = i} =
                IF i = id THEN {key} ELSE {k \in Key : byKey[k].checkpoint = i}
  <2>1. byKey[key].checkpoint # i
    BY <1>2, <1>4, InstanceOK DEF NoDecision
  <2>2. CASE i = id
    <3>1. \A k \in Key : byKey[k].checkpoint # i
      BY <1>3, <2>2 DEF LedgerOK
    <3>. QED  BY <1>2, <2>2, <3>1
  <2>3. CASE i # id
    BY <1>2, <2>1, <2>3
  <2>. QED  BY <2>2, <2>3
<1>5. LedgerOK'
  <2>1. ASSUME NEW i \in 1 .. MaxVersion
        PROVE  IF byCheckpoint'[i] = NoDecision
               THEN {k \in Key : byKey'[k].checkpoint = i} = {}
               ELSE \E k \in Key : {j \in Key : byKey'[j].checkpoint = i} = {k}
    <3>1. CASE i = id
      BY <1>1, <1>3, <1>4, <3>1 DEF LedgerOK
    <3>2. CASE i # id
      BY <1>3, <1>4, <3>2 DEF LedgerOK
    <3>. QED  BY <3>1, <3>2
  <2>. QED  BY <1>2, <1>3, <2>1 DEF LedgerOK, NoDecision
<1>6. ASSUME NEW i \in DOMAIN byCheckpoint
      PROVE  Cardinality({k \in Key : byKey'[k].checkpoint = i}) =
                IF byCheckpoint'[i] = NoDecision THEN 0 ELSE 1
  <2>1. i \in 1 .. MaxVersion
    BY DEF LedgerOK
  <2>2. NoDecision' = NoDecision
    BY DEF NoDecision
  <2>. QED  BY <1>5, <2>1, <2>2, KeysCounted DEF LedgerOK
<1>. QED  BY <1>2, <1>3, <1>5, <1>6 DEF DecidedOnce, NoDecision

-----------------------------------------------------------------------------

LEMMA InitOK == Init => IndInv
<1>. SUFFICES ASSUME Init PROVE IndInv
  OBVIOUS
<1>1. HostsOK
  BY DEF Init, HostsOK, HostOK, Idle, Keeps, NoSnapshot
<1>2. ASSUME NEW id \in 1 .. MaxVersion
      PROVE  {k \in Key : byKey[k].checkpoint = id} = {}
  BY InstanceOK DEF Init, NoDecision
<1>3. LedgerOK
  BY <1>2 DEF Init, LedgerOK
<1>. QED  BY <1>1, <1>3 DEF IndInv

\* Every step keeps the invariant, and by it writes no snapshot over one that
\* was not read and takes in one decision.
LEMMA StepOK ==
    ASSUME IndInv, Next
    PROVE  IndInv' /\ Replaced /\ DecidedOnce
<1>. USE DEF IndInv
<1>1. ASSUME NEW k \in Key, NEW id \in DOMAIN checkpoints,
             NEW verdict \in {"approved", "rejected"}, Decide(k, id, verdict)
      PROVE  IndInv' /\ Replaced /\ DecidedOnce
  <2>1. LedgerOK' /\ DecidedOnce
    BY <1>1, DecideOK
  <2>2. UNCHANGED <<snapshot, host>>
    BY <1>1 DEF Decide
  <2>. QED  BY <2>1, <2>2 DEF HostsOK, HostOK, Keeps, Known, OldOrCurrent, Replaced
<1>2. ASSUME NEW s \in stored, Lose(s)
      PROVE  IndInv' /\ Replaced /\ DecidedOnce
  <2>1. UNCHANGED <<snapshot, host, byKey, byCheckpoint>>
    BY <1>2 DEF Lose
  <2>. QED  BY <2>1, LedgerStays DEF HostsOK, HostOK, Keeps, Known, OldOrCurrent, Replaced
<1>3. ASSUME NEW h \in Host,
             \/ Begin(h) \/ Read(h) \/ Claim(h) \/ Cancel(h) \/ Recover(h)
             \/ ResumeSnapshot(h) \/ Dispatch(h) \/ Save(h) \/ SaveRefused(h) \/ Drop(h)
             \/ \E id \in DOMAIN checkpoints : ResumePlan(h, id)
      PROVE  IndInv' /\ Replaced /\ DecidedOnce
  <2>. SUFFICES HostsOK' /\ Replaced /\ UNCHANGED <<byKey, byCheckpoint>>
    BY LedgerStays
  <2>1. CASE Begin(h)
    BY <2>1, BeginOK DEF Begin
  <2>2. CASE Read(h)
    BY <2>2, ReadOK DEF Read, Replaced
  <2>3. CASE Claim(h)
    <3>1. Keeps(host[h]) /\ host[h].pc # "claimed"
      BY <2>3 DEF Claim, Keeps
    <3>. QED  BY <2>3, <3>1, WritesOK DEF Claim
  <2>4. CASE Cancel(h)
    <3>1. Keeps(host[h]) /\ host[h].pc # "claimed"
      BY <2>4 DEF Cancel, Keeps
    <3>. QED  BY <2>4, <3>1, WritesOK DEF Cancel
  <2>5. CASE Recover(h)
    <3>1. Keeps(host[h]) /\ host[h].pc # "claimed"
      BY <2>5 DEF Recover, Keeps
    <3>. QED  BY <2>5, <3>1, WritesOK DEF Recover
  <2>6. CASE ResumeSnapshot(h)
    BY <2>6, ResumeSnapshotOK DEF ResumeSnapshot, Replaced
  <2>7. CASE Dispatch(h)
    BY <2>7, DispatchOK DEF Replaced
  <2>8. CASE Save(h)
    BY <2>8, SaveOK DEF Save
  <2>9. CASE SaveRefused(h)
    <3>1. Keeps(host[h]) /\ host[h].pc # "claimed"
      BY <2>9 DEF SaveRefused, Keeps
    <3>. QED  BY <2>9, <3>1, WritesOK DEF SaveRefused
  <2>10. CASE Drop(h)
    BY <2>10, LeaveOK DEF Drop, Replaced
  <2>11. CASE \E id \in DOMAIN checkpoints : ResumePlan(h, id)
    BY <2>11, ResumePlanOK DEF ResumePlan, Replaced
  <2>. QED
    BY <1>3, <2>1, <2>2, <2>3, <2>4, <2>5, <2>6, <2>7, <2>8, <2>9, <2>10, <2>11
<1>. QED  BY <1>1, <1>2, <1>3 DEF Next

LEMMA StutterOK ==
    ASSUME IndInv, UNCHANGED vars
    PROVE  IndInv' /\ Replaced /\ DecidedOnce
<1>1. UNCHANGED <<snapshot, host, byKey, byCheckpoint>>
  BY DEF vars
<1>. QED
  BY <1>1, LedgerStays
  DEF IndInv, HostsOK, HostOK, Keeps, Known, OldOrCurrent, Replaced

LEMMA Invariance == Spec => []IndInv
<1>1. IndInv /\ [Next]_vars => IndInv'
  BY StepOK, StutterOK
<1>. QED  BY InitOK, <1>1, PTL DEF Spec

\* However many hosts claim, cancel, recover and save one run, a snapshot is
\* only replaced by a host whose copy is that snapshot, so that no write is
\* lost; and a checkpoint gets one decision, which nothing changes
\* (snapshots.compare_and_set, ApprovalLedger.record).
THEOREM NoWriteIsLost == Spec => OneWriterWins
<1>1. IndInv /\ [Next]_vars => [Replaced /\ DecidedOnce]_vars
  BY StepOK
<1>. QED  BY Invariance, <1>1, PTL DEF Spec, OneWriterWins

-----------------------------------------------------------------------------
(* What hosts hold                                                         *)

\* A run that has not been started.
Fresh(run) == run = NewRun([version |-> "none"], {})

\* A run that ended before its first step.
Unbegun(run) ==
    /\ run.ended /\ run.todo = <<>> /\ run.done = {} /\ run.called = {}
    /\ run.results = <<>> /\ run.checks = <<>>
    /\ run.status \in {"failed", "blocked"}
    /\ \/ run.reports = <<>> /\ Refused(run.plan)
       \/ /\ run.status = "blocked"
          /\ \E id : run.reports = <<[id |-> id, status |-> "blocked"]>>

\* A run that ended with an expert step nobody may stand in for was blocked.
ExpertsBlock(run) ==
    run.ended /\ Experts(run.plan) # {} /\ (run.plan.version = "v1" \/ ~setup.mock) =>
        run.status = "blocked"

\* A linear order of the steps, with what they depend on first.
Orders(order, steps) ==
    /\ order \in Seq(IdsOf(steps)) /\ ToSet(order) = IdsOf(steps)
    /\ \A i, j \in DOMAIN order : order[i] = order[j] => i = j
    /\ \A i \in DOMAIN steps, n \in DOMAIN order :
        order[n] = steps[i].id => ToSet(steps[i].deps) \subseteq {order[j] : j \in 1 .. n - 1}

\* A run has passed the first k of the n steps that it has reported.
Behind(run, order, n, k) ==
    /\ n \in 0 .. Len(order) /\ k \in {n, n - 1} \cap Nat
    /\ Len(run.reports) = n
    /\ \A i \in 1 .. n : run.reports[i].id = order[i]
    /\ \A i \in 1 .. k : run.reports[i].status \in {"completed", "mocked"}
    /\ k < n => run.reports[n].status \in {"failed", "blocked"}
    /\ run.done = {order[i] : i \in 1 .. k}
    /\ run.called \subseteq {order[i] : i \in 1 .. n}

\* It has passed all of them, and goes on with the next.
OnItsWay(run, order, n, k) ==
    /\ n = k /\ ~ run.ended /\ run.checks = <<>>
    /\ IdsOf(run.plan.steps) # {} /\ Experts(run.plan) = {}
    /\ Len(run.todo) = Len(order) - n
    /\ \A i \in 1 .. Len(run.todo) : run.todo[i].id = order[n + i]
    /\ run.status \in {"completed", "completed_with_review"}
    /\ ToSet(run.results) \subseteq {"pass", "review"}
    /\ run.status = "completed" <=>
            /\ \A i \in 1 .. n : run.reports[i].status = "completed"
            /\ ToSet(run.results) \subseteq {"pass"}

\* The last step ended it.
Stopped(run, order, n, k) ==
    /\ n = k + 1 /\ ~ run.ended /\ run.checks = <<>> /\ run.todo = <<>>
    /\ IdsOf(run.plan.steps) # {} /\ Experts(run.plan) = {}
    /\ run.status = run.reports[n].status

\* ReportTells, of one run, but for the expert steps.
Tells(run) ==
    LET n == Len(run.reports)
        passed == {i \in 1 .. n : run.reports[i].status \in {"completed", "mocked"}}
        verdicts == ToSet(run.results) \cup ToSet(run.checks)
        stopped == \E i \in DOMAIN run.checks :
                        run.checks[i] = "fail" /\ run.plan.checks[i].stop
        whole == /\ run.plan.steps # <<>>
                 /\ {run.reports[i].id : i \in passed} = IdsOf(run.plan.steps)
        clean == /\ \A i \in passed : run.reports[i].status = "completed"
                 /\ verdicts \subseteq {"pass"}
    IN  /\ run.status = "completed" <=> whole /\ clean
        /\ run.status = "completed_with_review" <=> whole /\ ~clean /\ ~stopped
        /\ n > 0 => (run.status = "blocked" <=> run.reports[n].status = "blocked")
        /\ n = 0 => run.status \in {"failed", "blocked"} /\ Refused(run.plan)
        /\ passed \in {1 .. n, 1 .. n - 1}
        /\ run.done = {run.reports[i].id : i \in passed}

Begun(run, order, n, k) ==
    /\ Orders(order, run.plan.steps)
    /\ Behind(run, order, n, k)
    /\ \/ OnItsWay(run, order, n, k)
       \/ Stopped(run, order, n, k)
       \/ run.ended /\ run.todo = <<>> /\ Tells(run)

\* The plan of a run and what was completed before it make up the host's.
Fits(plan, base) ==
    /\ base \subseteq StepIds
    /\ IdsOf(plan.steps) \subseteq StepIds \ base
    /\ \A i \in DOMAIN plan.steps :
        ToSet(DepsOf(setup.plan.steps, plan.steps[i].id)) \cap StepIds
            \subseteq base \cup ToSet(plan.steps[i].deps)

Typed(run) ==
    /\ DOMAIN run = {"plan", "base", "todo", "done", "outputs", "called", "reports",
                     "results", "checks", "status", "ended"}
    /\ run.todo \in Seq(PlanSteps)
    /\ run.reports \in Seq([id : StepIds, status : StepStatus])
    /\ run.results \in Seq(Verdicts)
    /\ run.status \in RunStatus

RunOK(run) ==
    /\ Typed(run)
    /\ run.base \subseteq StepIds
    /\ ExpertsBlock(run)
    /\ \/ Fresh(run)
       \/ Unbegun(run) /\ (run.plan.steps = <<>> \/ IdsOf(run.plan.steps) # {})
       \/ /\ Fits(run.plan, run.base)
          /\ \E order : \E n, k \in Nat : Begun(run, order, n, k)

-----------------------------------------------------------------------------
(* The plan of a run                                                       *)

\* Kept holds what it should.
LEMMA KeptHolds ==
    ASSUME NEW X, NEW s \in Seq(X), NEW keep
    PROVE  Kept(s, keep) \in Seq(X) /\ ToSet(Kept(s, keep)) = ToSet(s) \cap keep
<1> DEFINE S == ToSet(s)
           A == Seq(S)
           F == [x \in S |-> [kept \in A |-> IF x \in keep THEN Append(kept, x) ELSE kept]]
<1>1. s \in Seq(S)
    BY SeqOfPart
<1>2. F \in [S -> [A -> A]]
  <2>1. ASSUME NEW x \in S, NEW kept \in A
        PROVE  (IF x \in keep THEN Append(kept, x) ELSE kept) \in A
      BY Appended
  <2>2. \A x \in S : [kept \in A |-> IF x \in keep THEN Append(kept, x) ELSE kept] \in [A -> A]
    <3> HIDE DEF A, S
    <3> QED  BY <2>1
  <2> HIDE DEF A, S
  <2> QED  BY <2>2
<1>3. \A x \in S, kept \in A : F[x][kept] = IF x \in keep THEN Append(kept, x) ELSE kept
    OBVIOUS
<1>4. <<>> \in A /\ ToSet(<<>>) = {}
    BY DEF ToSet
<1>5. Kept(s, keep) = Through(F, <<>>, s)
    BY DEF Kept
<1> HIDE DEF F, S
<1>6. PICK acc : Trace(A, F, <<>>, s, acc)
    BY <1>1, <1>2, <1>4, ThroughTrace
<1>7. /\ acc \in [0 .. Len(s) -> A]
      /\ acc[0] = <<>>
      /\ \A i \in 1 .. Len(s) : acc[i] = F[s[i]][acc[i - 1]]
      /\ Through(F, <<>>, s) = acc[Len(s)]
    BY <1>6 DEF Trace
<1>8. Len(s) \in Nat /\ DOMAIN s = 1 .. Len(s) /\ \A i \in 1 .. Len(s) : s[i] \in S
    BY <1>1
<1> DEFINE G == {n \in Nat : n <= Len(s) =>
                    \A x : x \in ToSet(acc[n]) <=> x \in keep /\ \E i \in 1 .. n : s[i] = x}
<1> HIDE DEF A
<1>9. 0 \in G
    BY <1>4, <1>7
<1>10. ASSUME NEW n \in Nat, n \in G
       PROVE  n + 1 \in G
  <2>1. SUFFICES ASSUME n + 1 <= Len(s), NEW x
                 PROVE  x \in ToSet(acc[n + 1]) <=> x \in keep /\ \E i \in 1 .. (n + 1) : s[i] = x
      OBVIOUS
  <2>2. n + 1 \in 1 .. Len(s) /\ (n + 1) - 1 = n /\ n \in 0 .. Len(s) /\ n <= Len(s)
      BY <1>8, <2>1
  <2>3. acc[n] \in A /\ s[n + 1] \in S
      BY <1>7, <1>8, <2>2
  <2>4. acc[n + 1] = IF s[n + 1] \in keep THEN Append(acc[n], s[n + 1]) ELSE acc[n]
      BY <1>3, <1>7, <2>2, <2>3
  <2>5. x \in ToSet(acc[n]) <=> x \in keep /\ \E i \in 1 .. n : s[i] = x
      BY <1>10, <2>2
  <2>6. ToSet(Append(acc[n], s[n + 1])) = ToSet(acc[n]) \cup {s[n + 1]}
      BY <2>3, Appended DEF A
  <2>7. (\E i \in 1 .. (n + 1) : s[i] = x) <=> (\E i \in 1 .. n : s[i] = x) \/ s[n + 1] = x
    <3>1. \A i : i \in 1 .. (n + 1) <=> i \in 1 .. n \/ i = n + 1
        OBVIOUS
    <3> QED  BY <3>1
  <2> QED  BY <2>4, <2>5, <2>6, <2>7
<1>11. \A n \in Nat : n \in G
  <2> HIDE DEF G
  <2> QED  BY <1>9, <1>10, UpInduction
<1>12. Len(s) \in 0 .. Len(s) /\ Len(s) <= Len(s)
    BY <1>8
<1>13. acc[Len(s)] \in Seq(S)
    BY <1>7, <1>12 DEF A
<1>14. \A x : x \in ToSet(acc[Len(s)]) <=> x \in keep /\ \E i \in 1 .. Len(s) : s[i] = x
    BY <1>8, <1>11, <1>12
<1>15. ToSet(acc[Len(s)]) = ToSet(s) \cap keep
    BY <1>8, <1>14 DEF ToSet
<1>16. S \subseteq X
    BY DEF S, ToSet
<1>17. acc[Len(s)] \in Seq(X)
  <2>1. ToSet(acc[Len(s)]) \subseteq X
      BY <1>15, <1>16 DEF S
  <2> QED  BY <1>13, <2>1, SeqOfPart
<1> QED  BY <1>5, <1>7, <1>15, <1>17

LEMMA LeastOf ==
    ASSUME NEW n \in Nat, NEW S \in SUBSET (1 .. n), S # {}
    PROVE  \E m \in S : \A x \in S : m <= x
<1> DEFINE T == {i \in 0 .. n : \A x \in S : i <= x}
<1>1. T \in SUBSET Nat /\ IsFiniteSet(T)
  <2>1. IsFiniteSet(0 .. n) /\ T \in SUBSET (0 .. n)
      BY FS_Interval
  <2> QED  BY <2>1, FS_Subset
<1>2. 0 \in T
    OBVIOUS
<1>3. PICK m \in T : \A x \in T : x <= m
  <2> HIDE DEF T
  <2> QED  BY <1>1, <1>2, Greatest
<1>4. m \in 0 .. n /\ \A x \in S : m <= x
    OBVIOUS
<1>5. m + 1 \notin T
    BY <1>3, <1>4
<1>6. m \in S
  <2>1. SUFFICES ASSUME m \notin S PROVE FALSE
      OBVIOUS
  <2>2. \A x \in S : m + 1 <= x /\ x <= n
      BY <1>4, <2>1
  <2>3. PICK x \in S : x \in 1 .. n
      OBVIOUS
  <2>4. m + 1 <= x /\ x <= n /\ m + 1 \in 0 .. n
      BY <1>4, <2>2, <2>3
  <2> QED  BY <1>5, <2>2, <2>4
<1> QED  BY <1>4, <1>6

\* The translation keeps the graph.
LEMMA NormalizedKeeps ==
    ASSUME NEW plan \in Plans, ~ Refused(plan)
    PROVE  LET new == Normalized(plan)
           IN  /\ new.steps \in Seq(PlanSteps)
               /\ DOMAIN new.steps = DOMAIN plan.steps
               /\ \A i \in DOMAIN plan.steps : /\ new.steps[i].id = plan.steps[i].id
                                               /\ new.steps[i].deps = plan.steps[i].deps
               /\ Valid(new.steps)
<1>0. plan.steps \in Seq(PlanSteps) /\ plan.version \in {"v0", "v1"}
        /\ DOMAIN plan = {"version", "steps", "checks", "default"}
    BY DEF Plans
<1>1. Valid(Normalized(plan).steps)
    BY DEF Refused
<1>2. CASE plan.version = "v1"
    BY <1>0, <1>1, <1>2 DEF Normalized
<1>3. CASE plan.version = "v0"
  <2> DEFINE n == Len(plan.steps)
             old(i) == Rewritten(plan.steps[i])
             new == Normalized(plan)
  <2>1. n \in Nat /\ DOMAIN plan.steps = 1 .. n /\ \A i \in 1 .. n : plan.steps[i] \in PlanSteps
      BY <1>0
  <2>2. new.steps = [i \in 1 .. n |-> TranslatedStep(old(i))]
      BY <1>0, <1>3, <2>1 DEF Normalized
  <2>3. ASSUME NEW i \in 1 .. n
        PROVE  /\ old(i) \in PlanSteps
               /\ old(i).id = plan.steps[i].id /\ old(i).deps = plan.steps[i].deps
    <3>1. plan.steps[i] \in PlanSteps
        BY <2>1
    <3> QED  BY <3>1 DEF Rewritten, PlanSteps, StepKinds, LegacyKinds
  <2>4. ASSUME NEW i \in 1 .. n
        PROVE  old(i).kind \in {"skill", "fixture", "human_input", "verification"}
    <3>1. Translatable([j \in DOMAIN plan.steps |-> Rewritten(plan.steps[j])])
        BY <1>3 DEF Refused, Untranslatable
    <3> QED  BY <2>1, <3>1 DEF Translatable, LegacyKinds
  <2>5. ASSUME NEW i \in 1 .. n
        PROVE  /\ TranslatedStep(old(i)) \in PlanSteps
               /\ TranslatedStep(old(i)).id = plan.steps[i].id
               /\ TranslatedStep(old(i)).deps = plan.steps[i].deps
    <3> DEFINE s == old(i)
               kind == CASE s.kind \in {"skill", "fixture"} -> "tool"
                         [] s.kind = "human_input" -> "approval"
                         [] s.kind = "verification" -> "verify"
               policy == IF s.kind = "human_input" THEN "yes" ELSE "none"
    <3>1. s \in PlanSteps /\ kind \in StepKinds /\ policy \in {"none", "yes", "no"}
        BY <2>3, <2>4 DEF StepKinds
    <3>2. TranslatedStep(s) = [s EXCEPT !.kind = kind, !.policy = policy, !.checks = <<>>]
        BY DEF TranslatedStep
    <3> HIDE DEF kind, policy, s
    <3>3. TranslatedStep(s) =
            [id |-> s.id, kind |-> kind, deps |-> s.deps, needs |-> s.needs,
             policy |-> policy, tool |-> s.tool, checks |-> <<>>]
      <4>1. s = [id |-> s.id, kind |-> s.kind, deps |-> s.deps, needs |-> s.needs,
                 policy |-> s.policy, tool |-> s.tool, checks |-> s.checks]
          BY <3>1 DEF PlanSteps
      <4> QED  BY <3>2, <4>1
    <3>4. <<>> \in Seq(PlanChecks)
        OBVIOUS
    <3>5. TranslatedStep(s) \in PlanSteps
        BY <3>1, <3>3, <3>4 DEF PlanSteps
    <3> QED  BY <2>3, <3>3, <3>5 DEF s
  <2> HIDE DEF old, new
  <2>6. /\ DOMAIN new.steps = 1 .. n
        /\ \A i \in 1 .. n : /\ new.steps[i] \in PlanSteps
                             /\ new.steps[i].id = plan.steps[i].id
                             /\ new.steps[i].deps = plan.steps[i].deps
      BY <2>2, <2>5
  <2>7. new.steps \in Seq(PlanSteps)
    <3>1. new.steps \in [1 .. n -> PlanSteps]
        BY <2>2, <2>5
    <3> QED  BY <2>1, <3>1
  <2> QED  BY <1>1, <2>1, <2>6, <2>7 DEF new
<1> QED  BY <1>0, <1>2, <1>3

\* A plan that is not refused has no expert steps, and order_steps raises nothing.
LEMMA AcceptedIs ==
    ASSUME NEW plan \in Plans, ~ Refused(plan)
    PROVE  Experts(Normalized(plan)) = {} /\ ~ Unordered(Normalized(plan).steps)
<1> DEFINE steps == Normalized(plan).steps
<1>1. steps \in Seq(PlanSteps) /\ Valid(steps)
    BY NormalizedKeeps
<1>2. Experts(Normalized(plan)) = {}
    BY <1>1 DEF Valid, WellFormed, Experts
<1> HIDE DEF steps
<1>3. UniqueIds(steps) /\ KnownDeps(steps) /\ ~ HasCycle(steps)
    BY <1>1 DEF Valid
<1>4. ~ Order(steps).cycle
    BY <1>1, <1>3, GraphsAreRead DEF GraphIsRead
<1>. QED  BY <1>2, <1>3, <1>4 DEF Unordered, steps

\* It is put in a linear order.
LEMMA SortedIs ==
    ASSUME NEW plan \in Plans, ~ Refused(plan)
    PROVE  LET steps == Normalized(plan).steps
               order == Order(steps).ordered
           IN  /\ Orders(order, steps)
               /\ steps # <<>>
               /\ Sorted(steps) \in Seq(PlanSteps)
               /\ Len(Sorted(steps)) = Len(order)
               /\ \A i \in 1 .. Len(order) : Sorted(steps)[i].id = order[i]
<1> DEFINE steps == Normalized(plan).steps
           order == Order(steps).ordered
<1>1. steps \in Seq(PlanSteps) /\ Valid(steps)
    BY NormalizedKeeps
<1>2. KnownDeps(steps) /\ UniqueIds(steps) /\ steps # <<>> /\ ~ Order(steps).cycle
    BY <1>1, AcceptedIs DEF Valid, WellFormed, Unordered
<1> HIDE DEF steps
<1>3. Order(steps) \in Found(IdsOf(steps))
    BY <1>1, <1>2, OrderFinds
<1>4. /\ Topological(steps, order)
      /\ ToSet(order) = IdsOf(steps)
      /\ \A i, j \in DOMAIN order : order[i] = order[j] => i = j
    BY <1>1, <1>2, OrderFinds
<1>5. order \in Seq(IdsOf(steps))
    BY <1>3 DEF Found
<1> HIDE DEF order
<1>6. \A i \in 1 .. Len(order) : order[i] \in IdsOf(steps)
    BY <1>5
<1>7. ASSUME NEW i \in DOMAIN steps, NEW n \in DOMAIN order, order[n] = steps[i].id
      PROVE  ToSet(steps[i].deps) \subseteq {order[j] : j \in 1 .. n - 1}
  <2>1. order[n] \in IdsOf(steps)
      BY <1>7 DEF IdsOf
  <2>2. PICK j \in DOMAIN steps : StepOf(steps, order[n]) = steps[j] /\ steps[j].id = order[n]
      BY <2>1, StepOfId
  <2>3. i = j
      BY <1>1, <1>2, <1>7, <2>2, IdsFinite
  <2>4. DepsOf(steps, order[n]) = steps[i].deps
      BY <2>2, <2>3 DEF DepsOf
  <2> QED  BY <1>4, <2>4 DEF Topological
<1>8. Orders(order, steps)
    BY <1>4, <1>5, <1>7 DEF Orders
<1>9. ASSUME NEW i \in 1 .. Len(order)
      PROVE  StepOf(steps, order[i]) \in PlanSteps /\ StepOf(steps, order[i]).id = order[i]
  <2>1. PICK j \in DOMAIN steps : StepOf(steps, order[i]) = steps[j] /\ steps[j].id = order[i]
      BY <1>6, StepOfId
  <2>2. steps[j] \in PlanSteps
      BY <1>1
  <2> QED  BY <2>1, <2>2
<1>10. /\ Len(order) \in Nat
       /\ Sorted(steps) = [i \in 1 .. Len(order) |-> StepOf(steps, order[i])]
    BY <1>5 DEF Sorted, order
<1>11. /\ Sorted(steps) \in [1 .. Len(order) -> PlanSteps]
       /\ \A i \in 1 .. Len(order) : Sorted(steps)[i].id = order[i]
    BY <1>9, <1>10
<1>12. Sorted(steps) \in Seq(PlanSteps) /\ Len(Sorted(steps)) = Len(order)
    BY <1>10, <1>11
<1> QED  BY <1>2, <1>8, <1>11, <1>12 DEF steps, order

\* A run starts with nothing done, or ends before its first step.
LEMMA StartedOK ==
    ASSUME NEW plan \in Plans, NEW base \in SUBSET StepIds,
           IdsOf(plan.steps) \subseteq StepIds,
           UniqueIds(plan.steps) => Fits(plan, base),
           NEW run \in Started(plan, setup.mock, base)
    PROVE  /\ RunOK(run) /\ ~ Fresh(run)
           /\ run.base = base /\ run.done = {} /\ run.called = {}
<1> DEFINE new == NewRun(plan, base)
<1>0. plan.steps \in Seq(PlanSteps) /\ plan.version \in {"v0", "v1"}
        /\ DOMAIN plan = {"version", "steps", "checks", "default"}
    BY DEF Plans
<1>1. /\ Typed(new) /\ new.plan = plan /\ new.base = base /\ new.todo = <<>>
      /\ new.done = {} /\ new.called = {} /\ new.reports = <<>> /\ new.results = <<>>
      /\ new.checks = <<>> /\ new.status = "completed" /\ ~ new.ended
    BY DEF NewRun, Typed, RunStatus
<1>2. plan.steps = <<>> \/ IdsOf(plan.steps) # {}
  <2>1. ASSUME plan.steps # <<>> PROVE plan.steps[1].id \in IdsOf(plan.steps)
      BY <1>0, <2>1 DEF IdsOf
  <2> QED  BY <2>1
<1> HIDE DEF new
<1>3. ASSUME NEW status \in {"failed", "blocked"}, NEW reports,
             \/ reports = <<>> /\ Refused(plan)
             \/ status = "blocked" /\ \E id \in StepIds :
                    reports = <<[id |-> id, status |-> "blocked"]>>,
             Experts(plan) # {} /\ (plan.version = "v1" \/ ~setup.mock) => status = "blocked",
             run = EmptyFailure(new, status, reports)
      PROVE  RunOK(run) /\ run.base = base /\ run.done = {} /\ run.called = {} /\ run.plan = plan
  <2>1. /\ DOMAIN run = DOMAIN new
        /\ run.plan = plan /\ run.base = base /\ run.todo = <<>> /\ run.done = {}
        /\ run.called = {} /\ run.reports = reports /\ run.results = <<>>
        /\ run.checks = <<>> /\ run.status = status /\ run.ended
      BY <1>1, <1>3 DEF EmptyFailure, Typed
  <2>2. reports \in Seq([id : StepIds, status : StepStatus])
    <3>1. CASE reports = <<>>
        BY <3>1
    <3>2. ASSUME NEW id \in StepIds, reports = <<[id |-> id, status |-> "blocked"]>>
          PROVE  reports \in Seq([id : StepIds, status : StepStatus])
      <4>1. [id |-> id, status |-> "blocked"] \in [id : StepIds, status : StepStatus]
          BY DEF StepStatus
      <4> HIDE DEF StepIds
      <4> QED  BY <3>2, <4>1
    <3> QED  BY <1>3, <3>1, <3>2
  <2>3. Typed(run)
      BY <1>1, <2>1, <2>2 DEF Typed, RunStatus
  <2>4. Unbegun(run)
      BY <1>3, <2>1 DEF Unbegun
  <2>5. ExpertsBlock(run)
      BY <1>3, <2>1 DEF ExpertsBlock
  <2> QED  BY <1>2, <2>1, <2>3, <2>4, <2>5 DEF RunOK
<1>4. CASE plan.version = "v0" /\ ~setup.mock /\ Experts(plan) # {}
  <2>1. run = EmptyFailure(new, "blocked",
                <<[id |-> plan.steps[Min(Experts(plan))].id, status |-> "blocked"]>>)
      BY <1>4 DEF Started, new
  <2>2. Experts(plan) \subseteq 1 .. Len(plan.steps) /\ Len(plan.steps) \in Nat
      BY <1>0 DEF Experts
  <2>3. Min(Experts(plan)) \in DOMAIN plan.steps
    <3>1. PICK m \in Experts(plan) : \A x \in Experts(plan) : m <= x
        BY <1>4, <2>2, LeastOf
    <3>2. Min(Experts(plan)) \in Experts(plan)
        BY <3>1 DEF Min
    <3> QED  BY <1>0, <2>2, <3>2
  <2>4. plan.steps[Min(Experts(plan))].id \in StepIds
      BY <2>3 DEF IdsOf
  <2>5. RunOK(run) /\ run.base = base /\ run.done = {} /\ run.called = {} /\ run.plan = plan
      BY <1>3, <2>1, <2>4
  <2>6. ~ Fresh(run)
      BY <1>0, <2>5 DEF Fresh, NewRun
  <2> QED  BY <2>5, <2>6
<1>5. CASE ~ (plan.version = "v0" /\ ~setup.mock /\ Experts(plan) # {}) /\ Refused(plan)
  <2>1. PICK status \in Refusals(plan) : run = EmptyFailure(new, status, <<>>)
      BY <1>5 DEF Started, new
  <2>2. status \in {"failed", "blocked"}
      BY DEF Refusals
  <2>3. Experts(plan) # {} /\ (plan.version = "v1" \/ ~setup.mock) => status = "blocked"
      BY <1>0, <1>5 DEF Refusals
  <2>4. RunOK(run) /\ run.base = base /\ run.done = {} /\ run.called = {} /\ run.plan = plan
      BY <1>3, <1>5, <2>1, <2>2, <2>3
  <2>5. ~ Fresh(run)
      BY <1>0, <2>4 DEF Fresh, NewRun
  <2> QED  BY <2>4, <2>5
<1>6. CASE ~ (plan.version = "v0" /\ ~setup.mock /\ Experts(plan) # {}) /\ ~ Refused(plan)
  <2> DEFINE p == Normalized(plan)
             order == Order(p.steps).ordered
             todo == Sorted(p.steps)
  <2>1. run = [new EXCEPT !.plan = p, !.todo = todo]
      BY <1>6, AcceptedIs DEF Started, new
  <2>2. /\ Orders(order, p.steps) /\ p.steps # <<>>
        /\ todo \in Seq(PlanSteps) /\ Len(todo) = Len(order)
        /\ \A i \in 1 .. Len(order) : todo[i].id = order[i]
      BY <1>6, SortedIs
  <2>3. /\ p.steps \in Seq(PlanSteps)
        /\ DOMAIN p.steps = DOMAIN plan.steps
        /\ \A i \in DOMAIN plan.steps : /\ p.steps[i].id = plan.steps[i].id
                                        /\ p.steps[i].deps = plan.steps[i].deps
        /\ Valid(p.steps)
      BY <1>6, NormalizedKeeps
  <2>4. p.version = "v1" /\ Experts(p) = {}
      BY <1>0, <1>6, AcceptedIs DEF Normalized
  <2> HIDE DEF p, order, todo
  <2>5. IdsOf(p.steps) = IdsOf(plan.steps)
      BY <2>3 DEF IdsOf
  <2>51. IdsOf(p.steps) # {}
    <3>1. p.steps[1].id \in IdsOf(p.steps)
        BY <2>2, <2>3 DEF IdsOf
    <3> QED  BY <3>1
  <2>6. UniqueIds(plan.steps)
    <3>1. Len(p.steps) = Len(plan.steps)
        BY <1>0, <2>3
    <3> QED  BY <2>3, <2>5, <3>1 DEF Valid, UniqueIds
  <2>7. Fits(p, base)
      BY <2>3, <2>5, <2>6 DEF Fits
  <2>8. /\ DOMAIN run = DOMAIN new
        /\ run.plan = p /\ run.base = base /\ run.todo = todo /\ run.done = {}
        /\ run.called = {} /\ run.reports = <<>> /\ run.results = <<>>
        /\ run.checks = <<>> /\ run.status = "completed" /\ ~ run.ended
      BY <1>1, <2>1 DEF Typed
  <2>9. Typed(run)
      BY <1>1, <2>2, <2>8 DEF Typed, RunStatus
  <2>10. order \in Seq(IdsOf(p.steps)) /\ Len(order) \in Nat
      BY <2>2 DEF Orders
  <2>11. Behind(run, order, 0, 0)
      BY <2>8, <2>10 DEF Behind
  <2>12. OnItsWay(run, order, 0, 0)
      BY <2>2, <2>4, <2>51, <2>8, <2>10 DEF OnItsWay, ToSet
  <2>13. Begun(run, order, 0, 0)
      BY <2>2, <2>8, <2>11, <2>12 DEF Begun
  <2>14. ~ Fresh(run)
      BY <2>4, <2>8 DEF Fresh, NewRun
  <2>15. \E o : \E n, k \in Nat : Begun(run, o, n, k)
      BY <2>13
  <2>16. RunOK(run)
      BY <2>7, <2>8, <2>9, <2>15 DEF RunOK, ExpertsBlock
  <2> QED  BY <2>8, <2>14, <2>16
<1> QED  BY <1>4, <1>5, <1>6

-----------------------------------------------------------------------------
(* The steps of a run                                                      *)

\* The next step is reported: it is passed, or ends the run.
Reports(run, new, status, results) ==
    /\ DOMAIN new = DOMAIN run
    /\ new.plan = run.plan /\ new.base = run.base
    /\ new.checks = run.checks /\ new.ended = run.ended
    /\ results \in Seq(Verdicts) /\ new.results = run.results \o results
    /\ new.reports = Append(run.reports, [id |-> Head(run.todo).id, status |-> status])
    /\ new.called \in {run.called, run.called \cup {Head(run.todo).id}}
    /\ \/ /\ status \in {"completed", "mocked"}
          /\ new.todo = Tail(run.todo)
          /\ new.done = run.done \cup {Head(run.todo).id}
          /\ ToSet(results) \subseteq {"pass", "review"}
          /\ new.status = IF status = "completed" /\ ToSet(results) \subseteq {"pass"}
                          THEN run.status ELSE Reviewed(run.status)
       \/ /\ status \in {"failed", "blocked"}
          /\ new.todo = <<>> /\ new.done = run.done
          /\ new.status = status

\* What a step may do to a run.
Advances(run, new) ==
    /\ RunOK(new) /\ ~ Fresh(new)
    /\ new.base = run.base
    /\ new.called \ run.called \subseteq StepIds \ (run.base \cup run.done)
    /\ run.done \subseteq new.done /\ new.done \subseteq run.done \cup StepIds

\* A run with a step before it.
LEMMA AtAStep ==
    ASSUME NEW run, RunOK(run), run.todo # <<>>
    PROVE  /\ Typed(run) /\ Fits(run.plan, run.base)
           /\ \E order : \E n \in Nat :
                /\ Orders(order, run.plan.steps)
                /\ Behind(run, order, n, n)
                /\ OnItsWay(run, order, n, n)
<1>1. ~ Fresh(run) /\ ~ Unbegun(run)
    BY DEF Fresh, NewRun, Unbegun
<1>2. Typed(run) /\ Fits(run.plan, run.base)
    BY <1>1 DEF RunOK
<1>3. PICK order : \E n, k \in Nat : Begun(run, order, n, k)
    BY <1>1 DEF RunOK
<1>4. PICK n \in Nat, k \in Nat : Begun(run, order, n, k)
    BY <1>3
<1>5. OnItsWay(run, order, n, k)
    BY <1>4 DEF Begun, Stopped
<1>6. n = k
    BY <1>5 DEF OnItsWay
<1> QED  BY <1>2, <1>4, <1>5, <1>6 DEF Begun

LEMMA ReportedOK ==
    ASSUME NEW run, RunOK(run), run.todo # <<>>,
           NEW new, NEW status, NEW results, Reports(run, new, status, results)
    PROVE  Advances(run, new)
<1>1. Typed(run) /\ Fits(run.plan, run.base)
    BY AtAStep
<1>0. PICK order : \E n \in Nat : /\ Orders(order, run.plan.steps)
                                 /\ Behind(run, order, n, n)
                                 /\ OnItsWay(run, order, n, n)
    BY AtAStep
<1>2. PICK n \in Nat : /\ Orders(order, run.plan.steps)
                       /\ Behind(run, order, n, n)
                       /\ OnItsWay(run, order, n, n)
    BY <1>0
<1> DEFINE id == Head(run.todo).id
           ids == IdsOf(run.plan.steps)
           report == [id |-> id, status |-> status]
<1>3. /\ run.todo \in Seq(PlanSteps)
      /\ Len(run.todo) \in Nat /\ Len(run.todo) > 0
      /\ Head(run.todo) = run.todo[1]
    BY <1>1 DEF Typed
<1>4. /\ order \in Seq(ids) /\ Len(order) \in Nat /\ DOMAIN order = 1 .. Len(order)
      /\ \A i, j \in DOMAIN order : order[i] = order[j] => i = j
      /\ ToSet(order) = ids
    BY <1>2 DEF Orders
<1>41. DOMAIN order = 1 .. Len(order) /\ Len(order) \in Nat /\ \A i \in DOMAIN order : order[i] \in ids
  <2> HIDE DEF ids
  <2> QED  BY <1>4
<1>42. \A i, j \in DOMAIN order : order[i] = order[j] => i = j
    BY <1>4
<1>5. /\ Len(run.todo) = Len(order) - n /\ n + 1 \in 1 .. Len(order)
      /\ Len(order) \in Nat /\ n + 1 <= Len(order)
  <2>1. Len(run.todo) = Len(order) - n
      BY <1>2 DEF OnItsWay
  <2> HIDE DEF ids
  <2>2. Len(order) \in Nat /\ Len(run.todo) \in Nat /\ Len(run.todo) > 0
      BY <1>3, <1>4
  <2> QED  BY <2>1, <2>2
<1>6. id = order[n + 1] /\ id \in ids
  <2>1. run.todo[1].id = order[n + 1]
    <3>1. 1 \in 1 .. Len(run.todo)
        BY <1>3
    <3> QED  BY <1>2, <3>1 DEF OnItsWay
  <2>2. id = order[n + 1]
      BY <1>3, <2>1
  <2> HIDE DEF ids, id
  <2>3. order[n + 1] \in ids
      BY <1>41, <1>5
  <2> QED  BY <2>2, <2>3
<1>7. run.done = {order[i] : i \in 1 .. n} /\ id \notin run.done
  <2>1. run.done = {order[i] : i \in 1 .. n}
      BY <1>2 DEF Behind
  <2> HIDE DEF ids, id
  <2>2. ASSUME NEW i \in 1 .. n PROVE order[i] # id
    <3>1. i \in DOMAIN order /\ n + 1 \in DOMAIN order /\ i # n + 1
      <4>2. i \in 1 .. Len(order) /\ i # n + 1
          BY <1>5
      <4> QED  BY <1>41, <1>5, <4>2
    <3> QED  BY <1>42, <1>6, <3>1
  <2> QED  BY <2>1, <2>2
<1>8. id \in StepIds \ (run.base \cup run.done)
    BY <1>1, <1>6, <1>7 DEF Fits
<1>9. status \in StepStatus /\ report \in [id : StepIds, status : StepStatus]
    BY <1>8 DEF Reports, StepStatus
<1>10. run.reports \in Seq([id : StepIds, status : StepStatus]) /\ Len(run.reports) = n
    BY <1>1, <1>2 DEF Typed, Behind
<1>11. new.reports = Append(run.reports, report)
    BY DEF Reports
<1>12. run.status \in {"completed", "completed_with_review"}
    BY <1>2 DEF OnItsWay
<1> HIDE DEF id, report
<1>13. /\ new.reports \in Seq([id : StepIds, status : StepStatus])
       /\ Len(new.reports) = n + 1
       /\ new.reports[n + 1] = report
       /\ \A i \in 1 .. n : new.reports[i] = run.reports[i]
  <2> HIDE DEF StepIds
  <2> QED  BY <1>9, <1>10, <1>11
<1>14. report.id = id /\ report.status = status
    BY DEF report
<1>15. \A i \in 1 .. (n + 1) : i \in 1 .. n \/ i = n + 1
    OBVIOUS
<1>16. \A i \in 1 .. (n + 1) : new.reports[i].id = order[i]
    BY <1>2, <1>6, <1>13, <1>14, <1>15 DEF Behind
<1>17. /\ run.results \in Seq(Verdicts) /\ results \in Seq(Verdicts)
       /\ new.results = run.results \o results
    BY <1>1 DEF Typed, Reports
<1>18. new.results \in Seq(Verdicts)
       /\ ToSet(new.results) = ToSet(run.results) \cup ToSet(results)
  <2>1. /\ Len(run.results) \in Nat /\ Len(results) \in Nat
        /\ Len(new.results) = Len(run.results) + Len(results)
        /\ DOMAIN run.results = 1 .. Len(run.results)
        /\ DOMAIN results = 1 .. Len(results)
        /\ DOMAIN new.results = 1 .. (Len(run.results) + Len(results))
        /\ new.results \in Seq(Verdicts)
      BY <1>17
  <2>2. \A i \in DOMAIN new.results :
            new.results[i] = IF i <= Len(run.results) THEN run.results[i]
                             ELSE results[i - Len(run.results)]
      BY <1>17, <2>1
  <2>3. ASSUME NEW x \in ToSet(new.results) PROVE x \in ToSet(run.results) \cup ToSet(results)
    <3>1. PICK i \in DOMAIN new.results : new.results[i] = x
        BY <2>3 DEF ToSet
    <3>2. CASE i <= Len(run.results)
        BY <2>1, <2>2, <3>1, <3>2 DEF ToSet
    <3>3. CASE ~ (i <= Len(run.results))
      <4>1. i \in 1 .. (Len(run.results) + Len(results))
          BY <2>1
      <4>2. i - Len(run.results) \in DOMAIN results
          BY <2>1, <3>3, <4>1
      <4>3. results[i - Len(run.results)] = x
          BY <2>2, <3>1, <3>3
      <4> QED  BY <4>2, <4>3 DEF ToSet
    <3> QED  BY <3>2, <3>3
  <2>4. ASSUME NEW x \in ToSet(run.results) PROVE x \in ToSet(new.results)
    <3>1. PICK i \in DOMAIN run.results : run.results[i] = x
        BY <2>4 DEF ToSet
    <3>2. i \in DOMAIN new.results /\ new.results[i] = x
        BY <2>1, <2>2, <3>1
    <3> QED  BY <3>2 DEF ToSet
  <2>5. ASSUME NEW x \in ToSet(results) PROVE x \in ToSet(new.results)
    <3>1. PICK i \in DOMAIN results : results[i] = x
        BY <2>5 DEF ToSet
    <3>2. i + Len(run.results) \in DOMAIN new.results /\ new.results[i + Len(run.results)] = x
      <4>1. i \in Nat /\ i > 0 /\ ~ (i + Len(run.results) <= Len(run.results))
                /\ (i + Len(run.results)) - Len(run.results) = i
                /\ i + Len(run.results) \in DOMAIN new.results
          BY <2>1
      <4> QED  BY <2>2, <3>1, <4>1
    <3> QED  BY <3>2 DEF ToSet
  <2> QED  BY <2>1, <2>3, <2>4, <2>5
<1>19. new.called \subseteq {order[i] : i \in 1 .. (n + 1)}
  <2>1. run.called \subseteq {order[i] : i \in 1 .. n}
      BY <1>2 DEF Behind
  <2>2. new.called \subseteq run.called \cup {id}
      BY DEF Reports, id
  <2> QED  BY <1>6, <2>1, <2>2
<1>20. ~ Fresh(new)
    BY <1>13, <1>10 DEF Fresh, NewRun
<1>21. /\ DOMAIN new = DOMAIN run /\ new.plan = run.plan /\ new.base = run.base
       /\ new.checks = <<>> /\ ~ new.ended
       /\ IdsOf(run.plan.steps) # {} /\ Experts(run.plan) = {}
    BY <1>2 DEF Reports, OnItsWay
<1>22. CASE status \in {"completed", "mocked"}
  <2>1. /\ new.todo = Tail(run.todo) /\ new.done = run.done \cup {id}
        /\ ToSet(results) \subseteq {"pass", "review"}
        /\ new.status = IF status = "completed" /\ ToSet(results) \subseteq {"pass"}
                        THEN run.status ELSE Reviewed(run.status)
      BY <1>22 DEF Reports, id
  <2>2. /\ new.todo \in Seq(PlanSteps)
        /\ Len(new.todo) = Len(order) - (n + 1)
        /\ \A i \in 1 .. Len(new.todo) : new.todo[i] = run.todo[i + 1]
      BY <1>3, <1>5, <2>1
  <2>3. \A i \in 1 .. Len(new.todo) : new.todo[i].id = order[(n + 1) + i]
    <3>1. ASSUME NEW i \in 1 .. Len(new.todo)
          PROVE  new.todo[i].id = order[(n + 1) + i]
      <4>1. /\ Len(run.todo) = Len(order) - n /\ Len(new.todo) = Len(order) - (n + 1)
            /\ Len(order) \in Nat
          BY <1>5, <2>2
      <4>2. i + 1 \in 1 .. Len(run.todo) /\ n + (i + 1) = (n + 1) + i
          BY <4>1
      <4> QED  BY <1>2, <2>2, <4>2 DEF OnItsWay
    <3> QED  BY <3>1
  <2>4. new.status \in {"completed", "completed_with_review"}
        /\ (new.status = "completed" <=>
                /\ run.status = "completed" /\ status = "completed"
                /\ ToSet(results) \subseteq {"pass"})
      BY <1>12, <2>1 DEF Reviewed
  <2>5. run.status = "completed" <=>
            /\ \A i \in 1 .. n : run.reports[i].status = "completed"
            /\ ToSet(run.results) \subseteq {"pass"}
      BY <1>2 DEF OnItsWay
  <2>6. (\A i \in 1 .. (n + 1) : new.reports[i].status = "completed") <=>
            /\ \A i \in 1 .. n : run.reports[i].status = "completed"
            /\ status = "completed"
    <3>1. \A i \in 1 .. n : i \in 1 .. (n + 1)
        OBVIOUS
    <3>2. n + 1 \in 1 .. (n + 1)
        OBVIOUS
    <3> QED  BY <1>13, <1>14, <1>15, <3>1, <3>2
  <2>7. new.done = {order[i] : i \in 1 .. (n + 1)}
    <3>1. \A x : x \in new.done <=> \E i \in 1 .. (n + 1) : x = order[i]
      <4>1. \A i \in 1 .. n : i \in 1 .. (n + 1)
          OBVIOUS
      <4>2. n + 1 \in 1 .. (n + 1)
          OBVIOUS
      <4> QED  BY <1>6, <1>7, <1>15, <2>1, <4>1, <4>2
    <3> QED  BY <3>1
  <2>8. \A i \in 1 .. (n + 1) : new.reports[i].status \in {"completed", "mocked"}
      BY <1>2, <1>13, <1>14, <1>15, <1>22 DEF Behind
  <2>9. Behind(new, order, n + 1, n + 1)
      BY <1>5, <1>13, <1>16, <1>19, <2>7, <2>8 DEF Behind
  <2>10. ToSet(run.results) \subseteq {"pass", "review"}
      BY <1>2 DEF OnItsWay
  <2>11. OnItsWay(new, order, n + 1, n + 1)
      BY <1>18, <1>21, <2>1, <2>2, <2>3, <2>4, <2>5, <2>6, <2>10 DEF OnItsWay
  <2>12. Begun(new, order, n + 1, n + 1)
      BY <1>2, <1>21, <2>9, <2>11 DEF Begun
  <2>13. Typed(new)
      BY <1>1, <1>13, <1>18, <1>21, <2>2, <2>4 DEF Typed, RunStatus
  <2>14. \E o : \E i, j \in Nat : Begun(new, o, i, j)
      BY <2>12
  <2>15. RunOK(new)
      BY <1>1, <1>21, <2>13, <2>14 DEF RunOK, Fits, ExpertsBlock
  <2>16. new.called \in {run.called, run.called \cup {id}}
      BY DEF Reports, id
  <2> QED  BY <1>8, <1>20, <1>21, <2>1, <2>15, <2>16 DEF Advances
<1>23. CASE status \in {"failed", "blocked"}
  <2>1. new.todo = <<>> /\ new.done = run.done /\ new.status = status
      BY <1>23 DEF Reports
  <2>2. Behind(new, order, n + 1, n)
    <3>1. (n + 1) - 1 = n /\ n + 1 \in 0 .. Len(order)
        BY <1>5
    <3>2. \A i \in 1 .. n : new.reports[i].status \in {"completed", "mocked"}
        BY <1>2, <1>13 DEF Behind
    <3> QED  BY <1>7, <1>13, <1>14, <1>16, <1>19, <1>23, <2>1, <3>1, <3>2 DEF Behind
  <2>3. Stopped(new, order, n + 1, n)
      BY <1>13, <1>14, <1>21, <2>1 DEF Stopped
  <2>4. Begun(new, order, n + 1, n)
      BY <1>2, <1>21, <2>2, <2>3 DEF Begun
  <2>5. <<>> \in Seq(PlanSteps)
      OBVIOUS
  <2>6. Typed(new)
      BY <1>1, <1>13, <1>18, <1>21, <1>23, <2>1, <2>5 DEF Typed, RunStatus
  <2>7. \E o : \E i, j \in Nat : Begun(new, o, i, j)
      BY <2>4
  <2>8. RunOK(new)
      BY <1>1, <1>21, <2>6, <2>7 DEF RunOK, Fits, ExpertsBlock
  <2>9. new.called \in {run.called, run.called \cup {id}}
      BY DEF Reports, id
  <2> QED  BY <1>8, <1>20, <1>21, <2>1, <2>8, <2>9 DEF Advances
<1> QED  BY <1>22, <1>23 DEF Reports

LEMMA BreakOK ==
    ASSUME NEW run, RunOK(run), run.todo # <<>>, NEW status \in {"failed", "blocked"}
    PROVE  Advances(run, Break(run, status))
<1> DEFINE new == Break(run, status)
<1>1. Typed(run)
    BY AtAStep
<1>2. run.results \in Seq(Verdicts)
    BY <1>1 DEF Typed
<1>3. <<>> \in Seq(Verdicts) /\ run.results \o <<>> = run.results
    BY <1>2
<1>4. Reports(run, new, status, <<>>)
    BY <1>1, <1>3 DEF Reports, Break, Typed
<1> HIDE DEF new
<1>5. Advances(run, new)
    BY <1>4, ReportedOK
<1> QED  BY <1>5 DEF new

LEMMA PassedOK ==
    ASSUME NEW run, RunOK(run), run.todo # <<>>, NEW status \in {"completed", "mocked"}
    PROVE  Advances(run, Passed(run, status))
<1> DEFINE new == Passed(run, status)
<1>1. Typed(run)
    BY AtAStep
<1>2. run.results \in Seq(Verdicts)
    BY <1>1 DEF Typed
<1>3. <<>> \in Seq(Verdicts) /\ run.results \o <<>> = run.results /\ ToSet(<<>>) = {}
    BY <1>2 DEF ToSet
<1>4. Reports(run, new, status, <<>>)
    BY <1>1, <1>3 DEF Reports, Passed, Typed
<1> HIDE DEF new
<1>5. Advances(run, new)
    BY <1>4, ReportedOK
<1> QED  BY <1>5 DEF new

\* The checks of a step or a plan come out as verdicts.
LEMMA EvaluationsAre ==
    ASSUME NEW checks \in Seq(PlanChecks), NEW done, NEW missing,
           NEW results \in Evaluations(checks, done, missing)
    PROVE  results \in Seq(Verdicts) /\ DOMAIN results = DOMAIN checks
<1>1. results \in [DOMAIN checks -> Verdicts]
    BY DEF Evaluations
<1>2. DOMAIN checks = 1 .. Len(checks) /\ Len(checks) \in Nat
    OBVIOUS
<1> QED  BY <1>1, <1>2

LEMMA VerifiedOK ==
    ASSUME NEW run, RunOK(run), run.todo # <<>>, NEW results \in Seq(Verdicts)
    PROVE  Advances(run, Verified(run, results))
<1> DEFINE new == Verified(run, results)
<1>1. Typed(run)
    BY AtAStep
<1>2. ToSet(results) \subseteq Verdicts
    BY DEF ToSet
<1>3. CASE "fail" \in ToSet(results)
  <2>1. new = Break([run EXCEPT !.results = @ \o results], "failed")
      BY <1>3 DEF Verified
  <2>2. Reports(run, new, "failed", results)
      BY <1>1, <2>1 DEF Reports, Break, Typed
  <2> HIDE DEF new
  <2>3. Advances(run, new)
      BY <2>2, ReportedOK
  <2> QED  BY <2>3 DEF new
<1>4. CASE "fail" \notin ToSet(results)
  <2> DEFINE seen == [run EXCEPT !.results = @ \o results]
  <2>1. ToSet(results) \subseteq {"pass", "review"}
      BY <1>2, <1>4 DEF Verdicts
  <2>2. new = [Passed(seen, "completed") EXCEPT
                !.outputs = run.outputs,
                !.status = IF "review" \in ToSet(results) THEN Reviewed(@) ELSE @]
      BY <1>4 DEF Verified
  <2>3. new.status = IF ToSet(results) \subseteq {"pass"} THEN run.status
                     ELSE Reviewed(run.status)
      BY <1>1, <2>1, <2>2 DEF Passed, Typed
  <2>4. Reports(run, new, "completed", results)
    <3>1. /\ DOMAIN new = DOMAIN run
          /\ new.plan = run.plan /\ new.base = run.base
          /\ new.checks = run.checks /\ new.ended = run.ended
          /\ new.results = run.results \o results
          /\ new.reports = Append(run.reports,
                                  [id |-> Head(run.todo).id, status |-> "completed"])
          /\ new.called = run.called
          /\ new.todo = Tail(run.todo)
          /\ new.done = run.done \cup {Head(run.todo).id}
        BY <1>1, <2>2 DEF Passed, Typed
    <3> HIDE DEF new
    <3> QED  BY <2>1, <2>3, <3>1 DEF Reports
  <2> HIDE DEF new
  <2>5. Advances(run, new)
      BY <2>4, ReportedOK
  <2> QED  BY <2>5 DEF new
<1> QED  BY <1>3, <1>4

LEMMA ExecutedOK ==
    ASSUME NEW run, RunOK(run), run.todo # <<>>,
           NEW outcome \in {"ok", "short", "raises", "bad_refs"}
    PROVE  Advances(run, Executed(run, outcome))
<1> DEFINE new == Executed(run, outcome)
           called == [run EXCEPT !.called = @ \cup {Head(run.todo).id}]
           status == IF outcome \in {"ok", "short"} THEN "completed" ELSE "failed"
<1>1. Typed(run)
    BY AtAStep
<1>2. run.results \in Seq(Verdicts)
    BY <1>1 DEF Typed
<1>3. <<>> \in Seq(Verdicts) /\ run.results \o <<>> = run.results /\ ToSet(<<>>) = {}
    BY <1>2 DEF ToSet
<1>4. CASE outcome = "ok"
  <2>1. new = Passed(called, "completed")
      BY <1>4 DEF Executed
  <2>2. Reports(run, new, "completed", <<>>)
      BY <1>1, <1>3, <2>1 DEF Reports, Passed, Typed
  <2> HIDE DEF new
  <2>3. Advances(run, new)
      BY <2>2, ReportedOK
  <2> QED  BY <2>3 DEF new
<1>5. CASE outcome = "short"
  <2>1. new = [Passed(called, "completed") EXCEPT !.outputs = run.outputs]
      BY <1>5 DEF Executed
  <2>2. Reports(run, new, "completed", <<>>)
      BY <1>1, <1>3, <2>1 DEF Reports, Passed, Typed
  <2> HIDE DEF new
  <2>3. Advances(run, new)
      BY <2>2, ReportedOK
  <2> QED  BY <2>3 DEF new
<1>6. CASE outcome \in {"raises", "bad_refs"}
  <2>1. new = Break(called, "failed")
      BY <1>6 DEF Executed
  <2>2. Reports(run, new, "failed", <<>>)
      BY <1>1, <1>3, <2>1 DEF Reports, Break, Typed
  <2> HIDE DEF new
  <2>3. Advances(run, new)
      BY <2>2, ReportedOK
  <2> QED  BY <2>3 DEF new
<1> QED  BY <1>4, <1>5, <1>6

\* The manifest tells what the run was.
LEMMA EndedOK ==
    ASSUME NEW run, RunOK(run), ~ Fresh(run), ~ run.ended, run.todo = <<>>,
           NEW results, ToSet(results) \subseteq Verdicts
    PROVE  Advances(run, Ended(run, results)) /\ Tells(Ended(run, results))
<1> DEFINE new == Ended(run, results)
           m == Len(run.reports)
           passed == {i \in 1 .. m : run.reports[i].status \in {"completed", "mocked"}}
           stopped == \E i \in DOMAIN results : results[i] = "fail" /\ run.plan.checks[i].stop
<1>1. Typed(run) /\ Fits(run.plan, run.base)
    BY DEF RunOK, Unbegun
<1>2. PICK order : \E n, k \in Nat : Begun(run, order, n, k)
    BY DEF RunOK, Unbegun
<1>3. PICK n \in Nat, k \in Nat : Begun(run, order, n, k)
    BY <1>2
<1>4. Orders(order, run.plan.steps) /\ Behind(run, order, n, k)
    BY <1>3 DEF Begun
<1>5. OnItsWay(run, order, n, k) \/ Stopped(run, order, n, k)
    BY <1>3 DEF Begun
<1>6. m = n /\ IdsOf(run.plan.steps) # {} /\ run.plan.steps # <<>>
  <2>1. m = n /\ IdsOf(run.plan.steps) # {}
      BY <1>4, <1>5 DEF Behind, OnItsWay, Stopped
  <2>2. ASSUME run.plan.steps = <<>> PROVE IdsOf(run.plan.steps) = {}
      BY <2>2 DEF IdsOf
  <2> QED  BY <2>1, <2>2
<1>7. /\ DOMAIN new = DOMAIN run
      /\ new.plan = run.plan /\ new.base = run.base /\ new.todo = <<>>
      /\ new.done = run.done /\ new.called = run.called
      /\ new.reports = run.reports /\ new.results = run.results
      /\ new.checks = results /\ new.status = FinalStatus(run, results) /\ new.ended
    BY <1>1 DEF Ended, Typed
<1>8. ToSet(results) \subseteq {"pass", "fail", "review"}
    BY DEF Verdicts
<1>9. /\ DOMAIN order = 1 .. Len(order) /\ Len(order) \in Nat
      /\ \A i, j \in DOMAIN order : order[i] = order[j] => i = j
      /\ \A x : x \in IdsOf(run.plan.steps) <=> \E i \in 1 .. Len(order) : order[i] = x
    BY <1>4 DEF Orders, ToSet
<1>10. /\ n \in 0 .. Len(order)
       /\ \A i \in 1 .. n : run.reports[i].id = order[i]
       /\ \A i \in 1 .. k : run.reports[i].status \in {"completed", "mocked"}
       /\ run.done = {order[i] : i \in 1 .. k}
       /\ run.status \in RunStatus
    BY <1>1, <1>4 DEF Behind, Typed
<1> HIDE DEF new
<1>11. ASSUME OnItsWay(run, order, n, k)
       PROVE  Tells(new)
  <2>1. n = k /\ n = Len(order)
    <3>1. Len(run.todo) = 0
        OBVIOUS
    <3>2. Len(run.todo) = Len(order) - n /\ n = k
        BY <1>11 DEF OnItsWay
    <3>3. Len(order) \in Nat
        BY <1>9
    <3>4. Len(order) = n
        BY <3>1, <3>2, <3>3
    <3> QED  BY <3>2, <3>4
  <2>2. passed = 1 .. n
      BY <1>6, <1>10, <2>1
  <2>3. {run.reports[i].id : i \in passed} = IdsOf(run.plan.steps)
      BY <1>9, <1>10, <2>1, <2>2
  <2>4. run.done = {run.reports[i].id : i \in passed}
      BY <1>10, <2>1, <2>2
  <2>5. /\ run.status \in {"completed", "completed_with_review"}
        /\ ToSet(run.results) \subseteq {"pass", "review"}
        /\ run.status = "completed" <=>
                /\ \A i \in passed : run.reports[i].status = "completed"
                /\ ToSet(run.results) \subseteq {"pass"}
      BY <1>11, <2>2 DEF OnItsWay
  <2>6. n > 0 /\ run.reports[n].status # "blocked"
    <3>1. PICK i \in 1 .. Len(order) : order[i] \in IdsOf(run.plan.steps)
        BY <1>6, <1>9
    <3>2. n > 0
        BY <1>9, <2>1, <3>1
    <3> QED  BY <1>10, <2>1, <3>2
  <2> DEFINE clean == /\ \A i \in passed : run.reports[i].status = "completed"
                      /\ ToSet(run.results) \cup ToSet(results) \subseteq {"pass"}
  <2>7. stopped => "fail" \in ToSet(results)
      BY DEF ToSet
  <2> HIDE DEF passed
  <2>8. /\ FinalStatus(run, results) = "completed" <=> clean
        /\ FinalStatus(run, results) = "completed_with_review" <=> ~ clean /\ ~ stopped
        /\ FinalStatus(run, results) # "blocked"
    <3> DEFINE whole == \A i \in passed : run.reports[i].status = "completed"
    <3>1. FinalStatus(run, results) =
            IF "fail" \in ToSet(results)
            THEN IF stopped THEN "failed" ELSE "completed_with_review"
            ELSE IF "review" \in ToSet(run.results) \cup ToSet(results)
            THEN "completed_with_review"
            ELSE run.status
        BY <2>5 DEF FinalStatus, Reviewed
    <3> HIDE DEF stopped
    <3>2. "fail" \notin ToSet(results) /\ "review" \notin ToSet(run.results) \cup ToSet(results)
            <=> ToSet(run.results) \cup ToSet(results) \subseteq {"pass"}
        BY <1>8, <2>5
    <3> HIDE DEF whole
    <3>3. clean <=> /\ whole
                    /\ ToSet(run.results) \cup ToSet(results) \subseteq {"pass"}
        BY DEF whole
    <3>4. run.status = "completed" <=> whole /\ ToSet(run.results) \subseteq {"pass"}
        BY <2>5 DEF whole
    <3> HIDE DEF clean
    <3>5. clean <=> /\ run.status = "completed"
                    /\ "fail" \notin ToSet(results)
                    /\ "review" \notin ToSet(run.results) \cup ToSet(results)
        BY <3>2, <3>3, <3>4
    <3> QED  BY <2>5, <2>7, <3>1, <3>5
  <2>9. Tells(new)
    <3>1. {i \in 1 .. m : run.reports[i].status \in {"completed", "mocked"}} = 1 .. n
        BY <2>2 DEF passed
    <3>2. (\E i \in DOMAIN new.checks : new.checks[i] = "fail" /\ new.plan.checks[i].stop)
            <=> stopped
        BY <1>7
    <3> HIDE DEF stopped, m
    <3> QED
      BY <1>6, <1>7, <2>2, <2>3, <2>4, <2>6, <2>8, <3>1, <3>2 DEF Tells, m
  <2> QED  BY <2>9
<1>12. ASSUME Stopped(run, order, n, k)
       PROVE  Tells(new)
  <2>1. n = k + 1 /\ run.status = run.reports[n].status
      BY <1>12 DEF Stopped
  <2>2. run.reports[n].status \in {"failed", "blocked"}
      BY <1>4, <2>1 DEF Behind
  <2>3. n \in 1 .. Len(order) /\ k = n - 1
      BY <1>10, <2>1
  <2>4. passed = 1 .. k
      BY <1>6, <1>10, <2>1, <2>2
  <2>5. {run.reports[i].id : i \in passed} # IdsOf(run.plan.steps)
    <3>1. order[n] \in IdsOf(run.plan.steps)
        BY <1>9, <2>3
    <3>2. ASSUME NEW i \in passed PROVE run.reports[i].id # order[n]
      <4>1. i \in 1 .. n /\ i \in DOMAIN order /\ n \in DOMAIN order /\ i # n
          BY <1>9, <2>1, <2>3, <2>4
      <4> QED  BY <1>9, <1>10, <4>1
    <3> HIDE DEF passed
    <3> QED  BY <3>1, <3>2
  <2>6. run.done = {run.reports[i].id : i \in passed}
    <3>1. \A i \in 1 .. k : i \in 1 .. n
        BY <2>1
    <3>2. \A i \in 1 .. k : order[i] = run.reports[i].id
        BY <1>10, <3>1
    <3> HIDE DEF passed
    <3> QED  BY <1>10, <2>4, <3>2
  <2>7. FinalStatus(run, results) = run.status
      BY <2>1, <2>2 DEF FinalStatus, Reviewed
  <2>8. Tells(new)
    <3>1. {i \in 1 .. m : run.reports[i].status \in {"completed", "mocked"}} = 1 .. (n - 1)
        BY <2>3, <2>4
    <3>2. n > 0
        BY <2>3
    <3> HIDE DEF m
    <3> QED
      BY <1>6, <1>7, <2>1, <2>2, <2>3, <2>4, <2>5, <2>6, <2>7, <3>1, <3>2 DEF Tells, m
  <2> QED  BY <2>8
<1>13. Tells(new)
    BY <1>5, <1>11, <1>12
<1>14. Begun(new, order, n, k)
    BY <1>4, <1>7, <1>13 DEF Begun, Behind
<1>15. FinalStatus(run, results) \in RunStatus
    BY <1>10 DEF FinalStatus, Reviewed, RunStatus
<1>16. Typed(new)
    BY <1>1, <1>7, <1>15 DEF Typed
<1>17. \E o : \E i, j \in Nat : Begun(new, o, i, j)
    BY <1>14
<1>171. Experts(new.plan) = {}
    BY <1>5, <1>7 DEF OnItsWay, Stopped
<1>18. RunOK(new)
    BY <1>1, <1>7, <1>16, <1>17, <1>171 DEF RunOK, Fits, ExpertsBlock
<1>19. ~ Fresh(new)
    BY <1>7 DEF Fresh, NewRun
<1>20. Advances(run, new)
    BY <1>7, <1>18, <1>19 DEF Advances
<1> QED  BY <1>13, <1>20 DEF new

-----------------------------------------------------------------------------
(* The plan a run is given                                                 *)

\* A checkpoint parts the steps of the plan.
Parts(checkpoint) ==
    /\ checkpoint.completed \cup checkpoint.pending = StepIds
    /\ checkpoint.completed \cap checkpoint.pending = {}

\* A plan to be run after the steps in base.
PlanFor(plan, base) ==
    /\ plan \in Plans
    /\ base \subseteq StepIds /\ IdsOf(plan.steps) \subseteq StepIds
    /\ UniqueIds(plan.steps) => Fits(plan, base)

LEMMA SetupIs ==
    ASSUME setup \in Setups
    PROVE  setup.plan \in Plans /\ setup.mock \in BOOLEAN
BY InstanceOK

LEMMA FirstPlan ==
    ASSUME setup \in Setups
    PROVE  PlanFor(setup.plan, {})
<1>1. setup.plan \in Plans
    BY SetupIs
<1>2. setup.plan.steps \in Seq(PlanSteps)
    BY <1>1 DEF Plans
<1>3. ASSUME UniqueIds(setup.plan.steps), NEW i \in DOMAIN setup.plan.steps
      PROVE  DepsOf(setup.plan.steps, setup.plan.steps[i].id) = setup.plan.steps[i].deps
  <2> DEFINE steps == setup.plan.steps
  <2>1. steps[i].id \in IdsOf(steps)
      BY DEF IdsOf
  <2>2. PICK j \in DOMAIN steps : StepOf(steps, steps[i].id) = steps[j]
                                    /\ steps[j].id = steps[i].id
      BY <2>1, StepOfId
  <2>3. i = j
      BY <1>2, <1>3, <2>2, IdsFinite
  <2> QED  BY <2>2, <2>3 DEF DepsOf
<1> QED  BY <1>1, <1>3 DEF PlanFor, Fits, StepIds

LEMMA SettableSteps ==
    ASSUME NEW plan \in Plans, NEW steps \in Seq(PlanSteps)
    PROVE  /\ [plan EXCEPT !.steps = steps] \in Plans
           /\ [plan EXCEPT !.steps = steps].steps = steps
BY DEF Plans

LEMMA SettableStep ==
    ASSUME NEW step \in PlanSteps
    PROVE  /\ \A deps \in Seq(STRING) :
                /\ [step EXCEPT !.deps = deps] \in PlanSteps
                /\ [step EXCEPT !.deps = deps].id = step.id
                /\ [step EXCEPT !.deps = deps].deps = deps
           /\ \A needs \in SUBSET STRING :
                /\ [step EXCEPT !.needs = needs] \in PlanSteps
                /\ [step EXCEPT !.needs = needs].id = step.id
                /\ [step EXCEPT !.needs = needs].deps = step.deps
BY DEF PlanSteps

\* What is pending goes on from what is completed.
LEMMA PendingPlan ==
    ASSUME setup \in Setups, NEW checkpoint, Parts(checkpoint)
    PROVE  PlanFor(Pending(setup.plan, checkpoint), checkpoint.completed)
<1> DEFINE old == setup.plan.steps
           mine == {step \in ToSet(old) : step.id \in checkpoint.pending}
           left == Kept(old, mine)
           deps(i) == Kept(left[i].deps, checkpoint.pending)
           new == [i \in DOMAIN left |-> [left[i] EXCEPT !.deps = deps(i)]]
           plan == Pending(setup.plan, checkpoint)
<1>1. setup.plan \in Plans /\ old \in Seq(PlanSteps)
  <2>1. setup.plan \in Plans
      BY SetupIs
  <2> QED  BY <2>1 DEF Plans
<1>2. plan = [setup.plan EXCEPT !.steps = new]
    BY DEF Pending
<1>3. left \in Seq(PlanSteps) /\ ToSet(left) = mine
  <2> HIDE DEF mine, left, old
  <2>1. Kept(old, mine) \in Seq(PlanSteps) /\ ToSet(Kept(old, mine)) = ToSet(old) \cap mine
      BY <1>1, KeptHolds
  <2> QED  BY <2>1 DEF left, mine
<1> HIDE DEF left
<1>4. DOMAIN left = 1 .. Len(left) /\ Len(left) \in Nat
        /\ \A i \in DOMAIN left : left[i] \in PlanSteps /\ left[i] \in mine
  <2> HIDE DEF mine
  <2>1. DOMAIN left = 1 .. Len(left) /\ Len(left) \in Nat
            /\ \A i \in DOMAIN left : left[i] \in PlanSteps
      BY <1>3
  <2>2. \A i \in DOMAIN left : left[i] \in mine
      BY <1>3 DEF ToSet
  <2> QED  BY <2>1, <2>2
<1>5. ASSUME NEW i \in DOMAIN left
      PROVE  /\ new[i] \in PlanSteps /\ new[i].id = left[i].id
             /\ ToSet(new[i].deps) = ToSet(left[i].deps) \cap checkpoint.pending
  <2>1. left[i] \in PlanSteps
      BY <1>4
  <2>2. left[i].deps \in Seq(STRING)
      BY <2>1 DEF PlanSteps
  <2>3. deps(i) \in Seq(STRING) /\ ToSet(deps(i)) = ToSet(left[i].deps) \cap checkpoint.pending
      BY <2>2, KeptHolds
  <2>4. new[i] = [left[i] EXCEPT !.deps = deps(i)]
      OBVIOUS
  <2> HIDE DEF deps, new
  <2>5. new[i] \in PlanSteps /\ new[i].id = left[i].id /\ new[i].deps = deps(i)
      BY <2>1, <2>3, <2>4, SettableStep
  <2> QED  BY <2>3, <2>5
<1>6. DOMAIN new = DOMAIN left
    OBVIOUS
<1> HIDE DEF new, deps
<1>7. new \in Seq(PlanSteps)
  <2>1. new \in [1 .. Len(left) -> PlanSteps]
      BY <1>4, <1>5, <1>6 DEF new
  <2> QED  BY <1>4, <2>1
<1>8. plan \in Plans /\ plan.steps = new
    BY <1>1, <1>2, <1>7, SettableSteps
<1> HIDE DEF plan
<1>9. IdsOf(new) \subseteq checkpoint.pending
    BY <1>4, <1>5, <1>6 DEF IdsOf, mine
<1>10. /\ checkpoint.pending \subseteq StepIds /\ checkpoint.completed \subseteq StepIds
       /\ checkpoint.pending \subseteq StepIds \ checkpoint.completed
    BY DEF Parts
<1>11. ASSUME UniqueIds(new), NEW i \in DOMAIN new
       PROVE  DepsOf(old, new[i].id) = left[i].deps
  <2>1. left[i] \in mine /\ new[i].id = left[i].id
      BY <1>4, <1>5, <1>6
  <2>2. new[i].id \in IdsOf(old) /\ new[i].id \in checkpoint.pending
      BY <2>1 DEF mine, ToSet, IdsOf
  <2>3. PICK j \in DOMAIN old : StepOf(old, new[i].id) = old[j] /\ old[j].id = new[i].id
      BY <2>2, StepOfId
  <2>4. old[j] \in mine
      BY <2>2, <2>3 DEF mine, ToSet
  <2>5. PICK l \in DOMAIN left : left[l] = old[j]
      BY <1>3, <2>4 DEF ToSet
  <2>6. new[l].id = new[i].id
      BY <1>5, <2>3, <2>5
  <2>7. l = i
      BY <1>6, <1>7, <1>11, <2>6, IdsFinite
  <2> QED  BY <2>3, <2>5, <2>7 DEF DepsOf
<1>12. ASSUME UniqueIds(new)
       PROVE  Fits(plan, checkpoint.completed)
  <2>1. ASSUME NEW i \in DOMAIN new
        PROVE  ToSet(DepsOf(old, new[i].id)) \cap StepIds
                    \subseteq checkpoint.completed \cup ToSet(new[i].deps)
      BY <1>5, <1>6, <1>11, <1>12 DEF Parts
  <2> QED  BY <1>8, <1>9, <1>10, <2>1 DEF Fits
<1>13. PlanFor(plan, checkpoint.completed)
    BY <1>8, <1>9, <1>10, <1>12 DEF PlanFor
<1> QED  BY <1>13 DEF plan

\* And so it does with values in place of the references to them.
LEMMA MaterializedPlan ==
    ASSUME NEW plan, NEW base, PlanFor(plan, base)
    PROVE  PlanFor(Materialized(plan, base), base)
<1> DEFINE old == plan.steps
           new == [i \in DOMAIN old |-> [old[i] EXCEPT !.needs = @ \ base]]
           mat == Materialized(plan, base)
<1>1. plan \in Plans
    BY DEF PlanFor
<1>2. old \in Seq(PlanSteps)
    BY <1>1 DEF Plans
<1>3. mat = [plan EXCEPT !.steps = new]
    BY DEF Materialized
<1> HIDE DEF old
<1>4. DOMAIN old = 1 .. Len(old) /\ Len(old) \in Nat
        /\ \A i \in DOMAIN old : old[i] \in PlanSteps
    BY <1>2
<1>5. ASSUME NEW i \in DOMAIN old
      PROVE  /\ new[i] \in PlanSteps /\ new[i].id = old[i].id
             /\ new[i].deps = old[i].deps
  <2>1. old[i] \in PlanSteps
      BY <1>4
  <2>2. old[i].needs \ base \in SUBSET STRING
      BY <2>1 DEF PlanSteps
  <2> DEFINE needs == old[i].needs \ base
             step == old[i]
  <2>3. new[i] = [step EXCEPT !.needs = needs]
      OBVIOUS
  <2> HIDE DEF new
  <2>4. needs \in SUBSET STRING /\ step \in PlanSteps
      BY <2>1, <2>2
  <2> HIDE DEF needs, step
  <2>5. /\ [step EXCEPT !.needs = needs] \in PlanSteps
        /\ [step EXCEPT !.needs = needs].id = step.id
        /\ [step EXCEPT !.needs = needs].deps = step.deps
      BY <2>4, SettableStep
  <2> QED  BY <2>3, <2>5 DEF step
<1>6. DOMAIN new = DOMAIN old
    OBVIOUS
<1>7. new \in [1 .. Len(old) -> PlanSteps]
    BY <1>4, <1>5
<1> HIDE DEF new
<1>8. new \in Seq(PlanSteps)
    BY <1>4, <1>7
<1>9. mat \in Plans /\ mat.steps = new
    BY <1>1, <1>3, <1>8, SettableSteps
<1> HIDE DEF mat
<1>10. IdsOf(new) = IdsOf(old)
    BY <1>5, <1>6 DEF IdsOf
<1>11. Len(new) = Len(old)
    BY <1>2, <1>6, <1>8
<1>12. UniqueIds(new) <=> UniqueIds(old)
    BY <1>10, <1>11 DEF UniqueIds
<1>13. ASSUME UniqueIds(new)
       PROVE  Fits(mat, base)
  <2>1. Fits(plan, base)
      BY <1>12, <1>13 DEF PlanFor, old
  <2> QED  BY <1>5, <1>6, <1>9, <1>10, <2>1 DEF Fits, old
<1>14. PlanFor(mat, base)
    BY <1>9, <1>10, <1>13 DEF PlanFor, old
<1> QED  BY <1>14 DEF mat

\* So each run starts well.
LEMMA PlanStarts ==
    ASSUME NEW plan, NEW base, PlanFor(plan, base),
           NEW run \in Started(plan, setup.mock, base)
    PROVE  /\ RunOK(run) /\ ~ Fresh(run)
           /\ run.base = base /\ run.done = {} /\ run.called = {}
BY StartedOK DEF PlanFor

-----------------------------------------------------------------------------
(* Checkpoints, snapshots and runs                                         *)

\* A snapshot, or a copy of one, is of one of the checkpoints.
SnapOK(s, cps) ==
    /\ DOMAIN s = {"version", "state", "id", "status", "checkpoint", "unknown", "bound"}
    /\ s.version \in Nat
    /\ s.id \in DOMAIN cps /\ s.checkpoint = cps[s.id]

CheckpointsOK ==
    /\ checkpoints \in Seq([completed : SUBSET StepIds, pending : SUBSET StepIds])
    /\ \A id \in DOMAIN checkpoints : Parts(checkpoints[id])

RunAt(h) ==
    /\ RunOK(host[h].run)
    /\ host[h].pc = "running" => ~ Fresh(host[h].run)
    /\ Keeps(host[h]) => SnapOK(host[h].copy, checkpoints)

DataOK ==
    /\ setup \in Setups
    /\ CheckpointsOK
    /\ snapshot.version \in 0 .. MaxVersion
    /\ snapshot # NoSnapshot => SnapOK(snapshot, checkpoints) /\ ValidSnapshot(snapshot)
    /\ \A h \in Host : RunAt(h)

\* Checkpoints stay, and one may come to them.
Grow ==
    \/ checkpoints' = checkpoints
    \/ \E completed \in SUBSET StepIds : checkpoints' = Append(checkpoints, Checkpoint(completed))

LEMMA GrowKeeps ==
    ASSUME CheckpointsOK, Grow, setup' = setup
    PROVE  /\ CheckpointsOK'
           /\ \A id \in DOMAIN checkpoints : id \in DOMAIN checkpoints'
                                                /\ checkpoints'[id] = checkpoints[id]
<1>0. StepIds' = StepIds
    BY DEF StepIds
<1>1. CASE checkpoints' = checkpoints
    BY <1>0, <1>1 DEF CheckpointsOK, Parts
<1>2. ASSUME NEW completed \in SUBSET StepIds,
             checkpoints' = Append(checkpoints, Checkpoint(completed))
      PROVE  /\ CheckpointsOK'
             /\ \A id \in DOMAIN checkpoints : id \in DOMAIN checkpoints'
                                                  /\ checkpoints'[id] = checkpoints[id]
  <2> DEFINE C == [completed : SUBSET StepIds, pending : SUBSET StepIds]
             new == Checkpoint(completed)
             n == Len(checkpoints)
  <2>1. new \in C /\ Parts(new)
      BY DEF Checkpoint, Parts
  <2>2. checkpoints \in Seq(C) /\ n \in Nat /\ DOMAIN checkpoints = 1 .. n
    <3>1. checkpoints \in Seq(C)
        BY DEF CheckpointsOK
    <3> HIDE DEF C
    <3> QED  BY <3>1
  <2> HIDE DEF C, new
  <2>3. /\ checkpoints' \in Seq(C)
        /\ DOMAIN checkpoints' = 1 .. (n + 1)
        /\ checkpoints'[n + 1] = new
        /\ \A id \in 1 .. n : checkpoints'[id] = checkpoints[id]
      BY <1>2, <2>1, <2>2 DEF new
  <2>4. \A id \in 1 .. (n + 1) : id \in 1 .. n \/ id = n + 1
      BY <2>2
  <2>5. \A id \in DOMAIN checkpoints' : Parts(checkpoints'[id])
      BY <2>1, <2>2, <2>3, <2>4 DEF CheckpointsOK
  <2>6. CheckpointsOK'
      BY <1>0, <2>3, <2>5 DEF CheckpointsOK, Parts, C
  <2>7. \A id \in 1 .. n : id \in 1 .. (n + 1)
      BY <2>2
  <2> QED  BY <2>2, <2>3, <2>6, <2>7
<1> QED  BY <1>1, <1>2 DEF Grow

\* What was true of a run stays true of it.
LEMMA RunStays ==
    ASSUME setup' = setup, NEW h, NEW run, run = host'[h].run, RunOK(run)
    PROVE  RunOK(host[h].run)'
BY DEF RunOK, Typed, Fits, StepIds, ExpertsBlock

\* A host moves: what it says of itself is to be shown, the others stay.
LEMMA DataMoves ==
    ASSUME DataOK, NEW h \in Host, setup' = setup, Grow,
           \A x \in Host \ {h} : host'[x] = host[x],
           \/ snapshot' = snapshot
           \/ /\ snapshot'.version \in 0 .. MaxVersion
              /\ SnapOK(snapshot', checkpoints') /\ ValidSnapshot(snapshot'),
           NEW run, run = host'[h].run, RunOK(run),
           host'[h].pc = "running" => ~ Fresh(run),
           Keeps(host'[h]) => SnapOK(host'[h].copy, checkpoints)
                                \/ SnapOK(host'[h].copy, checkpoints')
    PROVE  DataOK'
<1>1. /\ CheckpointsOK'
      /\ \A id \in DOMAIN checkpoints : id \in DOMAIN checkpoints'
                                            /\ checkpoints'[id] = checkpoints[id]
    BY GrowKeeps DEF DataOK
<1>2. ASSUME NEW s, SnapOK(s, checkpoints)
      PROVE  SnapOK(s, checkpoints')
    BY <1>1, <1>2 DEF SnapOK
<1>3. /\ snapshot'.version \in 0 .. MaxVersion
      /\ snapshot' # NoSnapshot => SnapOK(snapshot', checkpoints') /\ ValidSnapshot(snapshot')
    BY <1>2 DEF DataOK
<1>4. RunAt(h)'
  <2>1. RunOK(host[h].run)'
      BY RunStays
  <2> QED  BY <1>2, <2>1 DEF RunAt
<1>5. ASSUME NEW x \in Host \ {h}
      PROVE  RunAt(x)'
  <2>1. host'[x] = host[x] /\ RunAt(x)
      BY DEF DataOK
  <2>2. RunOK(host[x].run)'
    <3> DEFINE r == host[x].run
    <3>1. r = host'[x].run /\ RunOK(r)
        BY <2>1 DEF RunAt
    <3> HIDE DEF r
    <3> QED  BY <3>1, RunStays
  <2> QED  BY <1>2, <2>1, <2>2 DEF RunAt
<1>6. setup' \in Setups
    BY DEF DataOK
<1> QED  BY <1>1, <1>3, <1>4, <1>5, <1>6 DEF DataOK, NoSnapshot

LEMMA FreshOK ==
    RunOK(NewRun([version |-> "none"], {}))
<1> DEFINE run == NewRun([version |-> "none"], {})
<1>1. Typed(run) /\ run.base = {}
    BY DEF NewRun, Typed, RunStatus
<1>2. Fresh(run)
    BY DEF Fresh
<1>21. ~ run.ended
    BY DEF NewRun
<1> HIDE DEF run
<1>3. RunOK(run)
    BY <1>1, <1>2, <1>21 DEF RunOK, ExpertsBlock
<1> QED  BY <1>3 DEF run

LEMMA DataLeaves ==
    ASSUME DataOK, HostsOK, NEW h \in Host, Leave(h), UNCHANGED <<setup, snapshot, checkpoints>>
    PROVE  DataOK'
<1>1. DOMAIN host' = Host /\ host'[h] = Idle /\ \A x \in Host \ {h} : host'[x] = host[x]
    BY DEF Leave, HostsOK
<1>2. /\ host'[h].run = NewRun([version |-> "none"], {})
      /\ host'[h].pc = "idle" /\ ~ Keeps(host'[h])
    BY <1>1 DEF Idle, Keeps
<1> DEFINE run == NewRun([version |-> "none"], {})
<1>3. RunOK(run) /\ run = host'[h].run
    BY <1>2, FreshOK
<1> HIDE DEF run
<1> QED  BY <1>1, <1>2, <1>3, DataMoves DEF Grow

\* A host whose write comes in has the snapshot as its copy.
LEMMA CopyIsCurrent ==
    ASSUME HostsOK, NEW h \in Host, Keeps(host[h]), host[h].pc # "claimed", NEW new,
           CompareAndSet(host[h].copy.version, new)
    PROVE  host[h].copy = snapshot
BY DEF HostsOK, HostOK, Known, OldOrCurrent, CompareAndSet

LEMMA DataWritten ==
    ASSUME DataOK, HostsOK, NEW h \in Host, NEW new, NEW pc \in {"claimed", "over"},
           Keeps(host[h]), host[h].pc # "claimed", Writes(h, new, pc),
           setup' = setup, Grow, snapshot' = snapshot => checkpoints' = checkpoints,
           CompareAndSet(host[h].copy.version, new) => SnapOK(new, checkpoints')
    PROVE  DataOK'
<1>1. CASE Leave(h) /\ UNCHANGED snapshot
    BY <1>1, DataLeaves
<1>2. CASE CompareAndSet(host[h].copy.version, new) /\ Goto(h, pc)
  <2>1. host[h].copy = snapshot /\ snapshot # NoSnapshot
      BY <1>2, CopyIsCurrent DEF CompareAndSet
  <2>2. snapshot' = new /\ ValidSnapshot(new) /\ new.version = snapshot.version + 1
            /\ snapshot.version < MaxVersion
      BY <1>2, <2>1 DEF CompareAndSet, Writes
  <2>3. snapshot'.version \in 0 .. MaxVersion
      BY <2>2, InstanceOK DEF DataOK
  <2>4. SnapOK(snapshot', checkpoints')
      BY <1>2, <2>2
  <2>5. /\ \A x \in Host \ {h} : host'[x] = host[x]
        /\ host'[h].pc = pc /\ host'[h].copy = host[h].copy /\ host'[h].run = host[h].run
      BY <1>2 DEF Goto, HostsOK, HostOK
  <2> DEFINE run == host[h].run
  <2>6. RunOK(run) /\ run = host'[h].run
      BY <2>5 DEF DataOK, RunAt
  <2>7. SnapOK(host'[h].copy, checkpoints)
      BY <2>1, <2>5 DEF DataOK
  <2>8. host'[h].pc # "running"
      BY <2>5
  <2> HIDE DEF run
  <2> QED  BY <2>2, <2>3, <2>4, <2>5, <2>6, <2>7, <2>8, DataMoves
<1> QED  BY <1>1, <1>2 DEF Writes

\* A copy with another version, state, status or unknown steps.
LEMMA CopyRewritten ==
    ASSUME NEW cps, NEW s, SnapOK(s, cps), NEW state, NEW status, NEW unknown
    PROVE  /\ SnapOK([s EXCEPT !.version = @ + 1, !.state = state], cps)
           /\ SnapOK([s EXCEPT !.version = @ + 1, !.state = state, !.status = status], cps)
           /\ SnapOK([s EXCEPT !.version = @ + 1, !.state = state, !.unknown = unknown], cps)
BY DEF SnapOK

\* The runs of a host: what they did is of the plan.
LEMMA RunSteps ==
    ASSUME NEW run, RunOK(run)
    PROVE  run.base \subseteq StepIds /\ run.done \subseteq StepIds \ run.base
<1>1. CASE Fresh(run)
    BY <1>1 DEF Fresh, NewRun
<1>2. CASE Unbegun(run)
    BY <1>2 DEF Unbegun, RunOK
<1>3. ASSUME Fits(run.plan, run.base), NEW order, NEW n \in Nat, NEW k \in Nat,
             Begun(run, order, n, k)
      PROVE  run.done \subseteq StepIds \ run.base
  <2>1. order \in Seq(IdsOf(run.plan.steps))
      BY <1>3 DEF Begun, Orders
  <2>2. run.done = {order[i] : i \in 1 .. k} /\ k \in {n, n - 1} /\ n \in 0 .. Len(order)
      BY <1>3 DEF Begun, Behind
  <2>3. IdsOf(run.plan.steps) \subseteq StepIds \ run.base
      BY <1>3 DEF Fits
  <2> DEFINE ids == IdsOf(run.plan.steps)
  <2> HIDE DEF ids
  <2>4. \A i \in 1 .. Len(order) : order[i] \in ids
      BY <2>1 DEF ids
  <2>5. \A i \in 1 .. k : i \in 1 .. Len(order)
    <3>1. Len(order) \in Nat
        BY <2>1
    <3> QED  BY <2>2, <3>1
  <2> QED  BY <2>2, <2>3, <2>4, <2>5 DEF ids
<1>4. run.base \subseteq StepIds
    BY DEF RunOK
<1>5. ASSUME ~ Fresh(run), ~ Unbegun(run)
      PROVE  run.done \subseteq StepIds \ run.base
  <2>1. Fits(run.plan, run.base)
      BY <1>5 DEF RunOK
  <2>2. PICK order : \E n, k \in Nat : Begun(run, order, n, k)
      BY <1>5 DEF RunOK
  <2>3. PICK n \in Nat, k \in Nat : Begun(run, order, n, k)
      BY <2>2
  <2> QED  BY <1>3, <2>1, <2>3
<1> QED  BY <1>1, <1>2, <1>4, <1>5 DEF Unbegun

LEMMA DataBegins ==
    ASSUME DataOK, HostsOK, checkpoints = <<>>, NEW h \in Host, Begin(h)
    PROVE  DataOK'
<1> DEFINE first == Snapshot(1, "running", 1, Checkpoint({}), {}, {})
<1>1. /\ snapshot' = first /\ ValidSnapshot(first) /\ checkpoints' = <<first.checkpoint>>
      /\ setup' = setup
    BY DEF Begin
<1>11. PICK run \in Started(setup.plan, setup.mock, {}) :
            host' = [host EXCEPT ![h] = [pc |-> "running", copy |-> first, mode |-> "claimed",
                                         run |-> run]]
    BY DEF Begin
<1>2. first.checkpoint = Checkpoint({}) /\ first.version = 1
        /\ SnapOK(first, <<first.checkpoint>>)
    BY DEF Snapshot, SnapOK
<1> HIDE DEF first
<1>3. /\ \A x \in Host \ {h} : host'[x] = host[x]
      /\ host'[h].pc = "running" /\ host'[h].copy = first /\ host'[h].run = run
    BY <1>11 DEF HostsOK
<1>4. PlanFor(setup.plan, {})
    BY FirstPlan DEF DataOK
<1>5. RunOK(run) /\ ~ Fresh(run)
    BY <1>4, PlanStarts
<1>6. Grow
  <2>1. <<Checkpoint({})>> = Append(<<>>, Checkpoint({}))
      OBVIOUS
  <2> QED  BY <1>1, <1>2, <2>1 DEF Grow
<1>7. snapshot'.version \in 0 .. MaxVersion /\ SnapOK(snapshot', checkpoints')
    BY <1>1, <1>2, InstanceOK
<1> QED  BY <1>1, <1>3, <1>5, <1>6, <1>7, DataMoves

LEMMA DataReads ==
    ASSUME DataOK, HostsOK, NEW h \in Host, Read(h)
    PROVE  DataOK'
<1>1. /\ UNCHANGED <<setup, snapshot, checkpoints>> /\ snapshot # NoSnapshot
      /\ \A x \in Host \ {h} : host'[x] = host[x]
      /\ host'[h].pc = "deciding" /\ host'[h].copy = snapshot /\ host'[h].run = host[h].run
    BY DEF Read, HostsOK, HostOK
<1> DEFINE run == host[h].run
<1>2. RunOK(run) /\ run = host'[h].run
    BY <1>1 DEF DataOK, RunAt
<1>3. SnapOK(host'[h].copy, checkpoints)
    BY <1>1 DEF DataOK
<1> HIDE DEF run
<1> QED  BY <1>1, <1>2, <1>3, DataMoves DEF Grow

LEMMA DataResumes ==
    ASSUME DataOK, HostsOK, NEW h \in Host, ResumeSnapshot(h)
    PROVE  DataOK'
<1> DEFINE c == host[h]
           done == c.copy.checkpoint.completed
           resumed == Materialized(Pending(setup.plan, c.copy.checkpoint), done)
           runs == IF Resumes(c.copy, setup.plan) THEN Started(resumed, setup.mock, done)
                   ELSE {c.run}
<1>1. /\ UNCHANGED <<setup, snapshot, checkpoints>> /\ c.pc = "claimed"
      /\ \A x \in Host \ {h} : host'[x] = host[x]
      /\ host'[h].pc = IF Resumes(c.copy, setup.plan) THEN "running" ELSE "refused"
      /\ host'[h].copy = [c.copy EXCEPT !.version = @ + 1, !.state = "running"]
    BY DEF ResumeSnapshot, HostsOK, HostOK
<1>11. PICK run \in runs : host'[h].run = run
    BY DEF ResumeSnapshot, HostsOK, HostOK
<1>2. SnapOK(c.copy, checkpoints) /\ RunOK(c.run)
    BY <1>1 DEF DataOK, RunAt, Keeps
<1>3. SnapOK(host'[h].copy, checkpoints)
  <2>1. SnapOK([c.copy EXCEPT !.version = @ + 1, !.state = "running"], checkpoints)
      BY <1>2, CopyRewritten
  <2> QED  BY <1>1, <2>1
<1>4. Parts(c.copy.checkpoint)
    BY <1>2 DEF SnapOK, DataOK, CheckpointsOK
<1>5. PlanFor(resumed, done)
  <2>1. setup \in Setups
      BY DEF DataOK
  <2> QED  BY <1>4, <2>1, PendingPlan, MaterializedPlan
<1>6. \A r \in Started(resumed, setup.mock, done) : RunOK(r) /\ ~ Fresh(r)
    BY <1>5, PlanStarts
<1>7. RunOK(run) /\ (host'[h].pc = "running" => ~ Fresh(run))
  <2> HIDE DEF resumed, done
  <2> QED  BY <1>1, <1>2, <1>6
<1> QED  BY <1>1, <1>11, <1>3, <1>7, DataMoves DEF Grow

LEMMA DataResumesPlan ==
    ASSUME DataOK, HostsOK, NEW h \in Host, NEW id \in DOMAIN checkpoints, ResumePlan(h, id)
    PROVE  DataOK'
<1> DEFINE plan == Pending(setup.plan, checkpoints[id])
           base == checkpoints[id].completed
<1>1. /\ UNCHANGED <<setup, snapshot, checkpoints>>
      /\ \A x \in Host \ {h} : host'[x] = host[x]
      /\ host'[h].pc = "running" /\ host'[h].mode = "free"
    BY DEF ResumePlan, HostsOK, HostOK
<1>11. PICK run \in Started(plan, setup.mock, base) : host'[h].run = run
    BY DEF ResumePlan, HostsOK, HostOK
<1>2. PlanFor(plan, base)
  <2>1. setup \in Setups /\ Parts(checkpoints[id])
      BY DEF DataOK, CheckpointsOK
  <2> QED  BY <2>1, PendingPlan
<1>3. RunOK(run) /\ ~ Fresh(run)
    BY <1>2, PlanStarts
<1>4. ~ Keeps(host'[h])
    BY <1>1 DEF Keeps
<1> QED  BY <1>1, <1>11, <1>3, <1>4, DataMoves DEF Grow

\* What a step of a run makes of it.
LEMMA DispatchAdvances ==
    ASSUME DataOK, NEW h \in Host, Dispatch(h)
    PROVE  \E new : Goes(h, new) /\ Advances(host[h].run, new)
<1> DEFINE run == host[h].run
<1>1. RunOK(run) /\ (host[h].pc = "running" => ~ Fresh(run))
    BY DEF DataOK, RunAt
<1>2. CASE InputMissing(h)
    BY <1>1, <1>2, BreakOK DEF InputMissing, AtStep
<1>3. CASE Approval(h)
  <2>1. Advances(run, Passed(run, "mocked")) /\ Advances(run, Break(run, "blocked"))
      BY <1>1, <1>3, BreakOK, PassedOK DEF Approval, AtStep
  <2> HIDE DEF run
  <2> QED  BY <1>3, <2>1 DEF Approval, run
<1>4. CASE Verify(h)
  <2>1. PICK results \in Evaluations(NextStep(h).checks, run.done, setup.missing) :
                Goes(h, Verified(run, results))
      BY <1>4 DEF Verify
  <2>2. run.todo # <<>>
      BY <1>4 DEF Verify, AtStep
  <2>3. run.todo \in Seq(PlanSteps)
      BY <1>1, <2>2, AtAStep DEF Typed
  <2>4. Head(run.todo) \in PlanSteps
      BY <2>2, <2>3
  <2>5. NextStep(h).checks \in Seq(PlanChecks)
      BY <2>4 DEF NextStep, PlanSteps
  <2>6. results \in Seq(Verdicts)
      BY <2>1, <2>5, EvaluationsAre
  <2>7. Advances(run, Verified(run, results))
      BY <1>1, <2>2, <2>6, VerifiedOK
  <2> QED  BY <2>1, <2>7
<1>5. CASE Transform(h)
  <2>1. Advances(run, Passed(run, "mocked")) /\ Advances(run, Break(run, "failed"))
      BY <1>1, <1>5, BreakOK, PassedOK DEF Transform, AtStep
  <2> HIDE DEF run
  <2> QED  BY <1>5, <2>1 DEF Transform, run
<1>6. CASE NoExecutor(h)
  <2>1. Advances(run, Passed(run, "mocked")) /\ Advances(run, Break(run, "failed"))
      BY <1>1, <1>6, BreakOK, PassedOK DEF NoExecutor, AtStep
  <2> HIDE DEF run
  <2> QED  BY <1>6, <2>1 DEF NoExecutor, run
<1>7. CASE Execute(h)
  <2>1. run.todo # <<>>
      BY <1>7 DEF Execute, AtStep
  <2>2. PICK outcome \in {"ok", "short", "raises", "bad_refs"} :
                Goes(h, Executed(run, outcome))
      BY <1>7 DEF Execute
  <2>3. Advances(run, Executed(run, outcome))
      BY <1>1, <2>1, ExecutedOK
  <2> QED  BY <2>2, <2>3
<1>8. CASE Finish(h)
  <2>1. ~ Fresh(run) /\ ~ run.ended /\ run.todo = <<>>
      BY <1>1, <1>8 DEF Finish
  <2>2. PICK results \in Evaluations(run.plan.checks, run.done, setup.missing) :
                Goes(h, Ended(run, results))
      BY <1>8 DEF Finish
  <2>3. ToSet(results) \subseteq Verdicts
      BY <2>2 DEF Evaluations, ToSet
  <2>4. Advances(run, Ended(run, results))
      BY <1>1, <2>1, <2>3, EndedOK
  <2> QED  BY <2>2, <2>4
<1> QED  BY <1>2, <1>3, <1>4, <1>5, <1>6, <1>7, <1>8 DEF Dispatch

LEMMA DataDispatches ==
    ASSUME DataOK, HostsOK, NEW h \in Host, Dispatch(h)
    PROVE  DataOK'
<1>1. PICK new : Goes(h, new) /\ Advances(host[h].run, new)
    BY DispatchAdvances
<1>2. /\ UNCHANGED <<setup, snapshot, checkpoints>>
      /\ \A x \in Host \ {h} : host'[x] = host[x]
      /\ host'[h].pc = host[h].pc /\ host'[h].mode = host[h].mode
      /\ host'[h].copy = host[h].copy /\ host'[h].run = new
    BY <1>1 DEF Goes, HostsOK, HostOK
<1>3. RunOK(new) /\ ~ Fresh(new)
    BY <1>1 DEF Advances
<1>4. Keeps(host'[h]) => SnapOK(host'[h].copy, checkpoints)
    BY <1>2 DEF DataOK, RunAt, Keeps
<1> QED  BY <1>2, <1>3, <1>4, DataMoves DEF Grow

\* The steps a decision is about.
Gates(run) ==
    {s \in StepIds \ (run.base \cup run.done) :
        /\ StepOf(setup.plan.steps, s).kind \in {"approval", "human_input"}
        /\ [id |-> s, status |-> "blocked"] \in ToSet(run.reports)}

\* What a host saves.
LEMMA Saved ==
    ASSUME DataOK, NEW h \in Host, Save(h)
    PROVE  LET c == host[h]
               done == c.run.base \cup c.run.done
           IN  \/ \E passed \in SUBSET StepIds :
                    LET new == Snapshot(c.copy.version + 1, "awaiting_approval",
                                        Len(checkpoints) + 1, Checkpoint(done \cup passed), {},
                                        c.copy.bound \cup c.run.outputs)
                    IN  /\ Writes(h, new, "over")
                        /\ checkpoints' = IF snapshot' = snapshot THEN checkpoints
                                          ELSE Append(checkpoints, new.checkpoint)
               \/ /\ Writes(h, [c.copy EXCEPT !.version = @ + 1, !.state = c.run.status], "over")
                  /\ UNCHANGED checkpoints
<1>1. Gates(host[h].run) \subseteq StepIds
    BY DEF Gates
<1> QED  BY <1>1 DEF Save, Gates

LEMMA DataSaves ==
    ASSUME DataOK, HostsOK, NEW h \in Host, Save(h)
    PROVE  DataOK'
<1> DEFINE c == host[h]
           done == c.run.base \cup c.run.done
<1>1. Keeps(c) /\ c.pc # "claimed" /\ setup' = setup /\ SnapOK(c.copy, checkpoints)
    BY DEF Save, Keeps, DataOK, RunAt
<1>2. done \subseteq StepIds
    BY RunSteps DEF DataOK, RunAt
<1>3. ASSUME NEW passed \in SUBSET StepIds, NEW new,
             new = Snapshot(c.copy.version + 1, "awaiting_approval", Len(checkpoints) + 1,
                            Checkpoint(done \cup passed), {}, c.copy.bound \cup c.run.outputs),
             Writes(h, new, "over"),
             checkpoints' = IF snapshot' = snapshot THEN checkpoints
                            ELSE Append(checkpoints, new.checkpoint)
      PROVE  DataOK'
  <2>1. /\ new.checkpoint = Checkpoint(done \cup passed)
        /\ new.id = Len(checkpoints) + 1 /\ new.version = c.copy.version + 1
        /\ DOMAIN new = {"version", "state", "id", "status", "checkpoint", "unknown", "bound"}
      BY <1>3 DEF Snapshot
  <2>2. Grow
      BY <1>2, <1>3, <2>1 DEF Grow
  <2>3. ASSUME CompareAndSet(c.copy.version, new)
        PROVE  SnapOK(new, checkpoints')
    <3>1. c.copy = snapshot
        BY <1>1, <2>3, CopyIsCurrent
    <3>2. snapshot' # snapshot
      <4>1. c.copy.version \in Nat
          BY <1>1 DEF SnapOK
      <4>2. snapshot'.version = snapshot.version + 1
          BY <2>1, <2>3, <3>1 DEF CompareAndSet
      <4> QED  BY <3>1, <4>1, <4>2
    <3>3. checkpoints' = Append(checkpoints, new.checkpoint)
        BY <1>3, <3>2
    <3> DEFINE C == [completed : SUBSET StepIds, pending : SUBSET StepIds]
    <3>4. checkpoints \in Seq(C)
        BY DEF DataOK, CheckpointsOK
    <3>5. new.checkpoint \in C
        BY <1>2, <2>1 DEF Checkpoint
    <3> HIDE DEF C
    <3>6. /\ Len(checkpoints) + 1 \in DOMAIN checkpoints'
          /\ checkpoints'[Len(checkpoints) + 1] = new.checkpoint
        BY <3>3, <3>4, <3>5
    <3>7. new.version \in Nat
        BY <1>1, <2>1 DEF SnapOK
    <3> QED  BY <2>1, <3>6, <3>7 DEF SnapOK
  <2> QED  BY <1>1, <1>3, <2>2, <2>3, DataWritten
<1>4. ASSUME Writes(h, [c.copy EXCEPT !.version = @ + 1, !.state = c.run.status], "over"),
             UNCHANGED checkpoints
      PROVE  DataOK'
  <2>1. SnapOK([c.copy EXCEPT !.version = @ + 1, !.state = c.run.status], checkpoints')
      BY <1>1, <1>4, CopyRewritten
  <2> QED  BY <1>1, <1>4, <2>1, DataWritten DEF Grow
<1> QED  BY <1>3, <1>4, Saved

\* The writes of a copy in another state.
LEMMA DataRewritten ==
    ASSUME DataOK, HostsOK, NEW h \in Host,
           Claim(h) \/ Cancel(h) \/ Recover(h) \/ SaveRefused(h)
    PROVE  DataOK'
<1> DEFINE copy == host[h].copy
<1>1. Keeps(host[h]) /\ host[h].pc # "claimed" /\ UNCHANGED <<setup, checkpoints>>
    BY DEF Claim, Cancel, Recover, SaveRefused, Keeps
<1>2. SnapOK(copy, checkpoints')
    BY <1>1 DEF DataOK, RunAt
<1>3. CASE Claim(h)
    BY <1>1, <1>2, <1>3, DataWritten, CopyRewritten DEF Claim, Grow
<1>4. CASE Cancel(h)
    BY <1>1, <1>2, <1>4, DataWritten, CopyRewritten DEF Cancel, Grow
<1>5. CASE Recover(h)
    BY <1>1, <1>2, <1>5, DataWritten, CopyRewritten DEF Recover, Grow
<1>6. CASE SaveRefused(h)
    BY <1>1, <1>2, <1>6, DataWritten, CopyRewritten DEF SaveRefused, Grow
<1> QED  BY <1>3, <1>4, <1>5, <1>6

-----------------------------------------------------------------------------
(* What runs report                                                        *)

\* A run in progress, or one that ended after its steps.
LEMMA Kinds ==
    ASSUME NEW run, RunOK(run)
    PROVE  \/ Fresh(run)
           \/ Unbegun(run) /\ (run.plan.steps = <<>> \/ IdsOf(run.plan.steps) # {})
           \/ /\ Fits(run.plan, run.base)
              /\ \E order : \E n \in Nat : \E k \in Nat : Begun(run, order, n, k)
<1>1. ASSUME ~ Fresh(run),
             ~ (Unbegun(run) /\ (run.plan.steps = <<>> \/ IdsOf(run.plan.steps) # {}))
      PROVE  /\ Fits(run.plan, run.base)
             /\ \E order : \E n \in Nat : \E k \in Nat : Begun(run, order, n, k)
    BY <1>1 DEF RunOK
<1> QED  BY <1>1

LEMMA UnbegunReports ==
    ASSUME NEW run, Unbegun(run)
    PROVE  /\ run.done = {} /\ run.called = {} /\ run.status \in {"failed", "blocked"}
           /\ \/ Len(run.reports) = 0 /\ Refused(run.plan)
              \/ /\ Len(run.reports) = 1 /\ run.reports[1].status = "blocked"
                 /\ run.status = "blocked"
<1>1. run.done = {} /\ run.called = {} /\ run.status \in {"failed", "blocked"}
    BY DEF Unbegun
<1>2. CASE run.reports = <<>> /\ Refused(run.plan)
    BY <1>1, <1>2
<1>3. ASSUME run.status = "blocked", NEW id, run.reports = <<[id |-> id, status |-> "blocked"]>>
      PROVE  Len(run.reports) = 1 /\ run.reports[1].status = "blocked"
  <2> DEFINE report == [id |-> id, status |-> "blocked"]
  <2>1. report.status = "blocked" /\ run.reports = <<report>>
      BY <1>3
  <2> HIDE DEF report
  <2> QED  BY <2>1
<1> QED  BY <1>1, <1>2, <1>3 DEF Unbegun

LEMMA RunTells ==
    ASSUME NEW run, RunOK(run), run.ended
    PROVE  Tells(run)
<1>1. ~ Fresh(run)
    BY DEF Fresh, NewRun
<1>2. ASSUME Unbegun(run), run.plan.steps = <<>> \/ IdsOf(run.plan.steps) # {}
      PROVE  Tells(run)
  <2> DEFINE n == Len(run.reports)
             passed == {i \in 1 .. n : run.reports[i].status \in {"completed", "mocked"}}
  <2>1. /\ run.done = {} /\ run.status \in {"failed", "blocked"}
        /\ \/ n = 0 /\ Refused(run.plan)
           \/ n = 1 /\ run.reports[1].status = "blocked" /\ run.status = "blocked"
      BY <1>2, UnbegunReports
  <2>2. n \in {0, 1} /\ passed = {}
    <3>1. CASE n = 0
        BY <3>1
    <3>2. CASE n = 1 /\ run.reports[1].status = "blocked"
        BY <3>2
    <3> QED  BY <2>1, <3>1, <3>2
  <2>3. {run.reports[i].id : i \in passed} = {}
      BY <2>2
  <2>4. passed \in {1 .. n, 1 .. n - 1}
      BY <2>2
  <2>5. {i \in 1 .. Len(run.reports) : run.reports[i].status \in {"completed", "mocked"}}
            = passed
      OBVIOUS
  <2> HIDE DEF passed
  <2>6. /\ n > 0 => (run.status = "blocked" <=> run.reports[n].status = "blocked")
        /\ n = 0 => run.status \in {"failed", "blocked"} /\ Refused(run.plan)
      BY <2>1, <2>2
  <2> QED  BY <1>2, <2>1, <2>2, <2>3, <2>4, <2>5, <2>6 DEF Tells
<1>3. ASSUME NEW order, NEW n \in Nat, NEW k \in Nat, Begun(run, order, n, k)
      PROVE  Tells(run)
    BY <1>3 DEF Begun, OnItsWay, Stopped
<1> QED  BY <1>1, <1>2, <1>3, Kinds

\* What InOrder and TypeOK say of one run.
LEMMA RunReports ==
    ASSUME NEW run, RunOK(run)
    PROVE  LET passed(i) == {run.reports[j].id : j \in 1 .. i}
           IN  /\ run.status \in RunStatus
               /\ \A i, j \in DOMAIN run.reports :
                    /\ run.reports[i].status \in StepStatus
                    /\ run.reports[i].id = run.reports[j].id => i = j
               /\ run.done \cup run.called \subseteq passed(Len(run.reports))
               /\ \A i \in DOMAIN run.reports :
                    run.reports[i].id \in run.done \cup run.called =>
                        ToSet(DepsOf(setup.plan.steps, run.reports[i].id)) \cap StepIds
                            \subseteq run.base \cup (passed(i - 1) \cap run.done)
<1> DEFINE passed(i) == {run.reports[j].id : j \in 1 .. i}
<1>1. Typed(run)
    BY DEF RunOK
<1>2. /\ run.status \in RunStatus
      /\ \A i \in DOMAIN run.reports : run.reports[i].status \in StepStatus
      /\ DOMAIN run.reports = 1 .. Len(run.reports) /\ Len(run.reports) \in Nat
  <2> DEFINE R == [id : StepIds, status : StepStatus]
  <2>1. run.reports \in Seq(R) /\ run.status \in RunStatus
      BY <1>1 DEF Typed
  <2>2. \A r \in R : r.status \in StepStatus
      OBVIOUS
  <2> HIDE DEF R
  <2>3. \A i \in DOMAIN run.reports : run.reports[i] \in R
      BY <2>1
  <2>4. DOMAIN run.reports = 1 .. Len(run.reports) /\ Len(run.reports) \in Nat
      BY <2>1
  <2> QED  BY <2>1, <2>2, <2>3, <2>4
<1>3. ASSUME Fresh(run) \/ Unbegun(run)
      PROVE  /\ run.done = {} /\ run.called = {}
             /\ \A i, j \in DOMAIN run.reports : i = j
  <2>1. CASE Fresh(run)
      BY <2>1 DEF Fresh, NewRun
  <2>2. CASE Unbegun(run)
    <3>1. run.done = {} /\ run.called = {}
        BY <2>2, UnbegunReports
    <3>2. Len(run.reports) \in {0, 1}
        BY <2>2, UnbegunReports
    <3> QED  BY <1>2, <3>1, <3>2
  <2> QED  BY <1>3, <2>1, <2>2
<1>4. ASSUME Fits(run.plan, run.base), NEW order, NEW n \in Nat, NEW k \in Nat,
             Begun(run, order, n, k)
      PROVE  /\ \A i, j \in DOMAIN run.reports : run.reports[i].id = run.reports[j].id => i = j
             /\ run.done \cup run.called \subseteq passed(Len(run.reports))
             /\ \A i \in DOMAIN run.reports :
                    ToSet(DepsOf(setup.plan.steps, run.reports[i].id)) \cap StepIds
                        \subseteq run.base \cup (passed(i - 1) \cap run.done)
  <2>1. /\ Len(run.reports) = n /\ n \in 0 .. Len(order) /\ k \in {n, n - 1}
        /\ \A i \in 1 .. n : run.reports[i].id = order[i]
        /\ run.done = {order[i] : i \in 1 .. k}
        /\ run.called \subseteq {order[i] : i \in 1 .. n}
      BY <1>4 DEF Begun, Behind
  <2>2. /\ order \in Seq(IdsOf(run.plan.steps))
        /\ \A i, j \in DOMAIN order : order[i] = order[j] => i = j
        /\ \A i \in DOMAIN run.plan.steps, m \in DOMAIN order :
                order[m] = run.plan.steps[i].id =>
                    ToSet(run.plan.steps[i].deps) \subseteq {order[j] : j \in 1 .. m - 1}
      BY <1>4 DEF Begun, Orders
  <2> DEFINE ids == IdsOf(run.plan.steps)
  <2> HIDE DEF ids
  <2>3. DOMAIN order = 1 .. Len(order) /\ Len(order) \in Nat
            /\ \A i \in DOMAIN order : order[i] \in ids
      BY <2>2 DEF ids
  <2>4. \A i \in 1 .. n : i \in DOMAIN order
      BY <2>1, <2>3
  <2>5. \A i, j \in DOMAIN run.reports : run.reports[i].id = run.reports[j].id => i = j
      BY <1>2, <2>1, <2>2, <2>4
  <2>6. passed(n) = {order[i] : i \in 1 .. n}
      BY <2>1
  <2>7. \A i \in 1 .. k : i \in 1 .. n
      BY <2>1
  <2>8. run.done \cup run.called \subseteq passed(n)
      BY <2>1, <2>6, <2>7
  <2>9. ASSUME NEW i \in DOMAIN run.reports
        PROVE  ToSet(DepsOf(setup.plan.steps, run.reports[i].id)) \cap StepIds
                    \subseteq run.base \cup (passed(i - 1) \cap run.done)
    <3>1. i \in 1 .. n /\ run.reports[i].id = order[i]
        BY <1>2, <2>1
    <3>2. order[i] \in ids
        BY <2>3, <2>4, <3>1
    <3>3. PICK p \in DOMAIN run.plan.steps : run.plan.steps[p].id = order[i]
        BY <3>2 DEF ids, IdsOf
    <3>4. ToSet(DepsOf(setup.plan.steps, order[i])) \cap StepIds
                \subseteq run.base \cup ToSet(run.plan.steps[p].deps)
        BY <1>4, <3>3 DEF Fits
    <3>5. ToSet(run.plan.steps[p].deps) \subseteq {order[j] : j \in 1 .. i - 1}
        BY <2>2, <2>4, <3>1, <3>3
    <3>6. \A j \in 1 .. i - 1 : j \in 1 .. n /\ j \in 1 .. k
        BY <2>1, <3>1
    <3>7. {order[j] : j \in 1 .. i - 1} \subseteq passed(i - 1) \cap run.done
        BY <2>1, <3>6
    <3> HIDE DEF passed
    <3> QED  BY <3>1, <3>4, <3>5, <3>7
  <2> QED  BY <2>1, <2>5, <2>8, <2>9
<1> HIDE DEF passed
<1>5. CASE Fresh(run) \/ Unbegun(run)
  <2>1. run.done \cup run.called \subseteq passed(Len(run.reports))
      BY <1>3, <1>5
  <2> QED  BY <1>2, <1>3, <1>5, <2>1 DEF passed
<1>6. CASE Fits(run.plan, run.base) /\ \E order : \E n \in Nat : \E k \in Nat : Begun(run, order, n, k)
  <2>1. /\ \A i, j \in DOMAIN run.reports : run.reports[i].id = run.reports[j].id => i = j
        /\ run.done \cup run.called \subseteq passed(Len(run.reports))
        /\ \A i \in DOMAIN run.reports :
                ToSet(DepsOf(setup.plan.steps, run.reports[i].id)) \cap StepIds
                    \subseteq run.base \cup (passed(i - 1) \cap run.done)
      BY <1>4, <1>6
  <2> QED  BY <1>2, <2>1 DEF passed
<1> QED  BY <1>5, <1>6, Kinds

-----------------------------------------------------------------------------
(* Who may call                                                            *)

\* The host has claimed the snapshot, and not written what came of it.
Holder(c) == c.pc = "claimed" \/ (c.pc = "running" /\ c.mode = "claimed")

\* It has steps to call, and may come to do so.
MayCall(c) ==
    Holder(c) /\ c.copy.unknown = {} /\ c.copy.checkpoint.pending # {}

\* What it takes to be done.
Line(c) == IF c.pc = "claimed" THEN c.copy.checkpoint.completed ELSE c.run.base \cup c.run.done

\* A host that claims the snapshot may come to call.
Claimable(s) ==
    /\ s # NoSnapshot
    /\ s.state = "awaiting_approval" /\ s.unknown = {} /\ s.checkpoint.pending # {}

\* A run under a claim goes on from the copy of the host.
FromCopy(c) ==
    c.pc = "running" /\ c.mode = "claimed" =>
        c.copy.unknown = {} /\ c.run.base = c.copy.checkpoint.completed

ClaimsOK ==
    /\ finished \subseteq StepIds
    /\ snapshot = NoSnapshot =>
        checkpoints = <<>> /\ finished = {} /\ \A h \in Host : host[h] = Idle
    /\ \A h \in Host :
        /\ FromCopy(host[h])
        /\ MayCall(host[h]) => finished \subseteq Line(host[h])
    /\ \A g, h \in Host : MayCall(host[g]) /\ MayCall(host[h]) => g = h
    /\ Claimable(snapshot) =>
        /\ finished \subseteq snapshot.checkpoint.completed
        /\ \A h \in Host : ~ MayCall(host[h])

\* A host that may not call moves, and nobody can claim what could not be
\* claimed before.
LEMMA ClaimsStay ==
    ASSUME ClaimsOK, NEW h \in Host, setup' = setup, finished' = finished,
           \A x \in Host \ {h} : host'[x] = host[x],
           FromCopy(host'[h]), ~ MayCall(host'[h]),
           snapshot' # NoSnapshot,
           snapshot' = snapshot \/ ~ Claimable(snapshot')
    PROVE  ClaimsOK'
<1>1. StepIds' = StepIds
    BY DEF StepIds
<1>2. \A x \in Host : MayCall(host'[x]) => x # h /\ MayCall(host[x]) /\ host'[x] = host[x]
    OBVIOUS
<1>3. \A x \in Host : FromCopy(host'[x])
    BY DEF ClaimsOK
<1>4. \A x \in Host : MayCall(host'[x]) => finished' \subseteq Line(host'[x])
    BY <1>2 DEF ClaimsOK
<1>5. \A g, x \in Host : MayCall(host'[g]) /\ MayCall(host'[x]) => g = x
    BY <1>2 DEF ClaimsOK
<1>6. Claimable(snapshot') =>
        /\ finished' \subseteq snapshot'.checkpoint.completed
        /\ \A x \in Host : ~ MayCall(host'[x])
    BY <1>2 DEF ClaimsOK
<1>7. finished' \subseteq StepIds'
    BY <1>1 DEF ClaimsOK
<1>8. snapshot' # NoSnapshot'
    BY DEF NoSnapshot
<1> QED  BY <1>3, <1>4, <1>5, <1>6, <1>7, <1>8 DEF ClaimsOK

\* It leaves.
LEMMA ClaimsLeave ==
    ASSUME ClaimsOK, HostsOK, NEW h \in Host, Leave(h), host[h] # Idle,
           UNCHANGED <<setup, snapshot, finished>>
    PROVE  ClaimsOK'
<1>1. host'[h] = Idle /\ \A x \in Host \ {h} : host'[x] = host[x]
    BY DEF Leave, HostsOK
<1>2. FromCopy(host'[h]) /\ ~ MayCall(host'[h])
    BY <1>1 DEF FromCopy, MayCall, Holder, Idle
<1>3. snapshot' # NoSnapshot
    BY DEF ClaimsOK
<1> QED  BY <1>1, <1>2, <1>3, ClaimsStay

\* A write by which nobody can claim.
LEMMA ClaimsClosed ==
    ASSUME ClaimsOK, DataOK, HostsOK, NEW h \in Host, NEW new,
           Keeps(host[h]), host[h].pc # "claimed", Writes(h, new, "over"),
           ~ Claimable(new), UNCHANGED <<setup, finished>>
    PROVE  ClaimsOK'
<1>0. host[h] # Idle
    BY DEF Keeps, Idle
<1>1. CASE Leave(h) /\ UNCHANGED snapshot
    BY <1>0, <1>1, ClaimsLeave
<1>2. CASE CompareAndSet(host[h].copy.version, new) /\ Goto(h, "over")
  <2>1. /\ \A x \in Host \ {h} : host'[x] = host[x]
        /\ host'[h].pc = "over"
      BY <1>2 DEF Goto, HostsOK, HostOK
  <2>2. FromCopy(host'[h]) /\ ~ MayCall(host'[h])
      BY <2>1 DEF FromCopy, MayCall, Holder
  <2>3. snapshot' = new /\ new.version = snapshot.version + 1
      BY <1>2 DEF CompareAndSet
  <2>4. snapshot' # NoSnapshot
      BY <2>3 DEF HostsOK, NoSnapshot
  <2> QED  BY <2>1, <2>2, <2>3, <2>4, ClaimsStay
<1> QED  BY <1>1, <1>2 DEF Writes

LEMMA ClaimsBegin ==
    ASSUME ClaimsOK, DataOK, HostsOK, NEW h \in Host, Begin(h)
    PROVE  ClaimsOK'
<1> DEFINE first == Snapshot(1, "running", 1, Checkpoint({}), {}, {})
<1>1. snapshot = NoSnapshot /\ snapshot' = first /\ UNCHANGED <<setup, finished>>
    BY DEF Begin
<1>11. PICK run \in Started(setup.plan, setup.mock, {}) :
            host' = [host EXCEPT ![h] = [pc |-> "running", copy |-> first, mode |-> "claimed",
                                         run |-> run]]
    BY DEF Begin
<1>2. /\ first.version = 1 /\ first.state = "running" /\ first.unknown = {}
      /\ first.checkpoint.completed = {}
    BY DEF Snapshot, Checkpoint
<1> HIDE DEF first
<1>3. PlanFor(setup.plan, {})
    BY FirstPlan DEF DataOK
<1>4. run.base = {}
    BY <1>3, PlanStarts
<1>5. /\ \A x \in Host \ {h} : host'[x] = Idle
      /\ host'[h].pc = "running" /\ host'[h].copy = first /\ host'[h].run = run
    BY <1>1, <1>11 DEF HostsOK, ClaimsOK
<1>6. \A x \in Host : MayCall(host'[x]) => x = h
    BY <1>5 DEF MayCall, Holder, Idle
<1>7. finished' = {} /\ ~ Claimable(snapshot') /\ snapshot' # NoSnapshot'
    BY <1>1, <1>2 DEF ClaimsOK, Claimable, NoSnapshot
<1>8. \A x \in Host : FromCopy(host'[x])
  <2>1. FromCopy(host'[h])
      BY <1>2, <1>4, <1>5 DEF FromCopy
  <2>2. ASSUME NEW x \in Host \ {h}
        PROVE  FromCopy(host'[x])
    <3>1. host'[x].pc = "idle"
        BY <1>5 DEF Idle
    <3> QED  BY <3>1 DEF FromCopy
  <2> QED  BY <2>1, <2>2
<1> QED  BY <1>6, <1>7, <1>8 DEF ClaimsOK

LEMMA ClaimsClaim ==
    ASSUME ClaimsOK, DataOK, HostsOK, NEW h \in Host, Claim(h)
    PROVE  ClaimsOK'
<1> DEFINE copy == host[h].copy
           new == [copy EXCEPT !.version = @ + 1, !.state = "running"]
<1>1. /\ host[h].pc = "deciding" /\ copy.state = "awaiting_approval"
      /\ Writes(h, new, "claimed") /\ UNCHANGED <<setup, finished, checkpoints>>
    BY DEF Claim
<1>2. Keeps(host[h]) /\ host[h] # Idle /\ SnapOK(copy, checkpoints)
    BY <1>1 DEF Keeps, Idle, DataOK, RunAt
<1>3. CASE Leave(h) /\ UNCHANGED snapshot
    BY <1>1, <1>2, <1>3, ClaimsLeave
<1>4. CASE CompareAndSet(copy.version, new) /\ Goto(h, "claimed")
  <2>1. copy = snapshot /\ snapshot # NoSnapshot
      BY <1>1, <1>2, <1>4, CopyIsCurrent DEF CompareAndSet
  <2>2. /\ \A x \in Host \ {h} : host'[x] = host[x]
        /\ host'[h].pc = "claimed" /\ host'[h].copy = copy
      BY <1>4 DEF Goto, HostsOK, HostOK
  <2>3. snapshot' = new /\ new.state = "running" /\ new.version = snapshot.version + 1
      BY <1>2, <1>4, <2>1 DEF CompareAndSet, SnapOK
  <2>4. snapshot' # NoSnapshot' /\ ~ Claimable(snapshot')
    <3> DEFINE s == snapshot'
    <3>1. s.state = "running" /\ s.version = snapshot.version + 1
        BY <2>3
    <3> HIDE DEF s
    <3>2. ~ Claimable(s)
        BY <3>1 DEF Claimable
    <3>3. s # NoSnapshot
        BY <3>1 DEF HostsOK, NoSnapshot
    <3> QED  BY <3>2, <3>3 DEF s, NoSnapshot
  <2>5. FromCopy(host'[h])
      BY <2>2 DEF FromCopy
  <2>6. MayCall(host'[h]) => Claimable(snapshot)
      BY <1>1, <2>1, <2>2 DEF MayCall, Claimable
  <2>7. MayCall(host'[h]) =>
            /\ finished' \subseteq Line(host'[h])
            /\ \A x \in Host : ~ MayCall(host[x])
      BY <1>1, <2>1, <2>2, <2>6 DEF ClaimsOK, Line
  <2>8. \A x \in Host \ {h} :
            /\ FromCopy(host'[x])
            /\ MayCall(host'[x]) => finished' \subseteq Line(host'[x])
      BY <1>1, <2>2 DEF ClaimsOK
  <2>9. \A g, x \in Host : MayCall(host'[g]) /\ MayCall(host'[x]) => g = x
      BY <2>2, <2>7 DEF ClaimsOK
  <2>10. finished' \subseteq StepIds'
      BY <1>1 DEF ClaimsOK, StepIds
  <2> QED  BY <2>4, <2>5, <2>7, <2>8, <2>9, <2>10 DEF ClaimsOK
<1> QED  BY <1>1, <1>3, <1>4 DEF Writes

LEMMA ClaimsResume ==
    ASSUME ClaimsOK, DataOK, HostsOK, NEW h \in Host, ResumeSnapshot(h)
    PROVE  ClaimsOK'
<1> DEFINE c == host[h]
           done == c.copy.checkpoint.completed
           resumed == Materialized(Pending(setup.plan, c.copy.checkpoint), done)
           runs == IF Resumes(c.copy, setup.plan) THEN Started(resumed, setup.mock, done)
                   ELSE {c.run}
<1>1. /\ UNCHANGED <<setup, snapshot, finished>> /\ c.pc = "claimed"
      /\ \A x \in Host \ {h} : host'[x] = host[x]
      /\ host'[h].pc = IF Resumes(c.copy, setup.plan) THEN "running" ELSE "refused"
      /\ host'[h].copy = [c.copy EXCEPT !.version = @ + 1, !.state = "running"]
    BY DEF ResumeSnapshot, HostsOK, HostOK
<1>11. PICK run \in runs : host'[h].run = run
    BY DEF ResumeSnapshot, HostsOK, HostOK
<1>2. SnapOK(c.copy, checkpoints) /\ c # Idle
    BY <1>1 DEF DataOK, RunAt, Keeps, Idle
<1>3. snapshot' # NoSnapshot
    BY <1>1, <1>2 DEF ClaimsOK
<1>4. CASE ~ Resumes(c.copy, setup.plan)
  <2>1. FromCopy(host'[h]) /\ ~ MayCall(host'[h])
      BY <1>1, <1>4 DEF FromCopy, MayCall, Holder
  <2> QED  BY <1>1, <1>3, <2>1, ClaimsStay
<1>5. CASE Resumes(c.copy, setup.plan)
  <2>1. /\ host'[h].copy.unknown = c.copy.unknown
        /\ host'[h].copy.checkpoint = c.copy.checkpoint
      BY <1>1, <1>2 DEF SnapOK
  <2>2. c.copy.unknown = {}
      BY <1>5 DEF Resumes
  <2>3. Parts(c.copy.checkpoint) /\ setup \in Setups
      BY <1>2 DEF SnapOK, DataOK, CheckpointsOK
  <2>4. run.base = done /\ run.done = {}
    <3>1. PlanFor(resumed, done)
        BY <2>3, PendingPlan, MaterializedPlan
    <3>2. run \in Started(resumed, setup.mock, done)
        BY <1>5
    <3> HIDE DEF resumed
    <3> QED  BY <3>1, <3>2, PlanStarts
  <2>5. FromCopy(host'[h])
      BY <1>1, <1>11, <2>1, <2>2, <2>4 DEF FromCopy
  <2>6. /\ MayCall(host'[h]) => MayCall(c)
        /\ Line(host'[h]) = Line(c)
      BY <1>1, <1>11, <1>5, <2>1, <2>4 DEF MayCall, Holder, Line
  <2>7. \A x \in Host : MayCall(host'[x]) => MayCall(host[x]) /\ Line(host'[x]) = Line(host[x])
      BY <1>1, <2>6
  <2>8. \A x \in Host : FromCopy(host'[x])
      BY <1>1, <2>5 DEF ClaimsOK
  <2>9. finished' \subseteq StepIds'
      BY <1>1 DEF ClaimsOK, StepIds
  <2>10. \A x \in Host : MayCall(host'[x]) => finished' \subseteq Line(host'[x])
      BY <1>1, <2>7 DEF ClaimsOK
  <2>11. \A g, x \in Host : MayCall(host'[g]) /\ MayCall(host'[x]) => g = x
      BY <2>7 DEF ClaimsOK
  <2>12. Claimable(snapshot') =>
            /\ finished' \subseteq snapshot'.checkpoint.completed
            /\ \A x \in Host : ~ MayCall(host'[x])
      BY <1>1, <2>7 DEF ClaimsOK
  <2>13. snapshot' # NoSnapshot'
      BY <1>3 DEF NoSnapshot
  <2> QED  BY <2>8, <2>9, <2>10, <2>11, <2>12, <2>13 DEF ClaimsOK
<1> QED  BY <1>4, <1>5

\* A host that runs under a claim and may not call completes nothing.
LEMMA NothingLeft ==
    ASSUME ClaimsOK, DataOK, NEW h \in Host,
           host[h].pc = "running", host[h].mode = "claimed", ~ MayCall(host[h])
    PROVE  host[h].run.base = StepIds
<1>1. /\ host[h].copy.unknown = {} /\ host[h].run.base = host[h].copy.checkpoint.completed
      /\ Holder(host[h])
    BY DEF ClaimsOK, FromCopy, Holder
<1>2. host[h].copy.checkpoint.pending = {}
    BY <1>1 DEF MayCall
<1>3. SnapOK(host[h].copy, checkpoints)
    BY DEF DataOK, RunAt, Keeps
<1>4. Parts(host[h].copy.checkpoint)
    BY <1>3 DEF SnapOK, DataOK, CheckpointsOK
<1> QED  BY <1>1, <1>2, <1>4 DEF Parts

LEMMA ClaimsDispatch ==
    ASSUME ClaimsOK, DataOK, HostsOK, NEW h \in Host, NEW new,
           Goes(h, new), Advances(host[h].run, new), host[h].pc = "running"
    PROVE  ClaimsOK'
<1> DEFINE c == host[h]
<1>1. /\ UNCHANGED <<setup, snapshot, checkpoints>>
      /\ \A x \in Host \ {h} : host'[x] = host[x]
      /\ host'[h].pc = c.pc /\ host'[h].mode = c.mode
      /\ host'[h].copy = c.copy /\ host'[h].run = new
      /\ finished' = IF c.mode = "claimed" THEN finished \cup new.done ELSE finished
    BY DEF Goes, HostsOK, HostOK
<1>2. /\ RunOK(new) /\ new.base = c.run.base /\ c.run.done \subseteq new.done
    BY DEF Advances
<1>3. new.base \subseteq StepIds /\ new.done \subseteq StepIds \ new.base
    BY <1>2, RunSteps
<1>4. snapshot' # NoSnapshot'
  <2>1. c # Idle
      BY DEF Idle
  <2> QED  BY <1>1, <2>1 DEF ClaimsOK, NoSnapshot
<1>5. finished' \subseteq StepIds'
    BY <1>1, <1>3 DEF ClaimsOK, StepIds
<1>6. FromCopy(host'[h])
  <2>1. FromCopy(c)
      BY DEF ClaimsOK
  <2> QED  BY <1>1, <1>2, <2>1 DEF FromCopy
<1>7. MayCall(host'[h]) <=> MayCall(c)
    BY <1>1 DEF MayCall, Holder
<1>8. \A x \in Host : MayCall(host'[x]) <=> MayCall(host[x])
    BY <1>1, <1>7
<1>9. \A x \in Host : FromCopy(host'[x])
    BY <1>1, <1>6 DEF ClaimsOK
<1>10. \A g, x \in Host : MayCall(host'[g]) /\ MayCall(host'[x]) => g = x
    BY <1>8 DEF ClaimsOK
<1>11. MayCall(c) \/ finished' = finished
  <2>1. CASE c.mode = "claimed" /\ ~ MayCall(c)
    <3>1. new.base = StepIds
        BY <1>2, <2>1, NothingLeft
    <3> QED  BY <1>1, <1>3, <3>1
  <2> QED  BY <1>1, <2>1
<1>12. MayCall(host'[h]) => finished' \subseteq Line(host'[h])
    BY <1>1, <1>2, <1>7 DEF ClaimsOK, Line
<1>13. \A x \in Host \ {h} : MayCall(host'[x]) => finished' \subseteq Line(host'[x])
  <2>1. ASSUME NEW x \in Host \ {h}, MayCall(host'[x])
        PROVE  finished' \subseteq Line(host'[x])
    <3>1. MayCall(host[x]) /\ ~ MayCall(c) /\ host'[x] = host[x]
        BY <1>1, <2>1 DEF ClaimsOK
    <3>2. finished' = finished
        BY <1>11, <3>1
    <3> QED  BY <3>1, <3>2 DEF ClaimsOK
  <2> QED  BY <2>1
<1>14. Claimable(snapshot') =>
            /\ finished' \subseteq snapshot'.checkpoint.completed
            /\ \A x \in Host : ~ MayCall(host'[x])
    BY <1>1, <1>8, <1>11 DEF ClaimsOK
<1> QED  BY <1>4, <1>5, <1>9, <1>10, <1>12, <1>13, <1>14 DEF ClaimsOK

LEMMA ClaimsSave ==
    ASSUME ClaimsOK, DataOK, HostsOK, NEW h \in Host, Save(h)
    PROVE  ClaimsOK'
<1> DEFINE c == host[h]
           done == c.run.base \cup c.run.done
<1>1. /\ Keeps(c) /\ c.pc = "running" /\ c.mode = "claimed"
      /\ UNCHANGED <<setup, finished>> /\ SnapOK(c.copy, checkpoints) /\ c # Idle
    BY DEF Save, Keeps, DataOK, RunAt, Idle
<1>2. ASSUME NEW passed \in SUBSET StepIds, NEW new,
             new = Snapshot(c.copy.version + 1, "awaiting_approval", Len(checkpoints) + 1,
                            Checkpoint(done \cup passed), {}, c.copy.bound \cup c.run.outputs),
             Writes(h, new, "over")
      PROVE  ClaimsOK'
  <2>1. /\ new.checkpoint.completed = done \cup passed
        /\ new.checkpoint.pending = StepIds \ (done \cup passed)
      BY <1>2 DEF Snapshot, Checkpoint
  <2>2. CASE Leave(h) /\ UNCHANGED snapshot
      BY <1>1, <2>2, ClaimsLeave
  <2>3. CASE CompareAndSet(c.copy.version, new) /\ Goto(h, "over")
    <3>1. /\ \A x \in Host \ {h} : host'[x] = host[x]
          /\ host'[h].pc = "over"
        BY <2>3 DEF Goto, HostsOK, HostOK
    <3>2. FromCopy(host'[h]) /\ ~ MayCall(host'[h])
        BY <3>1 DEF FromCopy, MayCall, Holder
    <3>3. snapshot' = new /\ new.version = snapshot.version + 1
        BY <2>3 DEF CompareAndSet
    <3>4. snapshot' # NoSnapshot
        BY <3>3 DEF HostsOK, NoSnapshot
    <3>5. CASE ~ Claimable(new)
        BY <1>1, <3>1, <3>2, <3>3, <3>4, <3>5, ClaimsStay
    <3>6. CASE Claimable(new)
      <4>1. MayCall(c)
        <5>1. c.run.base # StepIds
            BY <2>1, <3>6 DEF Claimable
        <5> QED  BY <1>1, <5>1, NothingLeft
      <4>2. finished \subseteq done
          BY <1>1, <4>1 DEF ClaimsOK, Line
      <4>3. finished' \subseteq snapshot'.checkpoint.completed
          BY <1>1, <2>1, <3>3, <4>2
      <4>4. \A x \in Host : ~ MayCall(host'[x])
          BY <3>1, <3>2, <4>1 DEF ClaimsOK
      <4>5. \A x \in Host : FromCopy(host'[x])
          BY <3>1, <3>2 DEF ClaimsOK
      <4>6. finished' \subseteq StepIds'
          BY <1>1 DEF ClaimsOK, StepIds
      <4>7. snapshot' # NoSnapshot'
          BY <3>4 DEF NoSnapshot
      <4> QED  BY <4>3, <4>4, <4>5, <4>6, <4>7 DEF ClaimsOK
    <3> QED  BY <3>5, <3>6
  <2> QED  BY <1>2, <2>2, <2>3 DEF Writes
<1>3. ASSUME NEW new,
             new = [c.copy EXCEPT !.version = @ + 1, !.state = c.run.status],
             Writes(h, new, "over")
      PROVE  ClaimsOK'
  <2>1. c.run.status \in RunStatus
      BY DEF DataOK, RunAt, RunOK, Typed
  <2>2. new.state = c.run.status
      BY <1>1, <1>3 DEF SnapOK
  <2>3. ~ Claimable(new)
      BY <2>1, <2>2 DEF Claimable, RunStatus
  <2> QED  BY <1>1, <1>3, <2>3, ClaimsClosed
<1> QED  BY <1>2, <1>3, Saved

LEMMA ClaimsRewritten ==
    ASSUME ClaimsOK, DataOK, HostsOK, NEW h \in Host,
           Cancel(h) \/ Recover(h) \/ SaveRefused(h)
    PROVE  ClaimsOK'
<1> DEFINE copy == host[h].copy
<1>1. Keeps(host[h]) /\ host[h].pc # "claimed" /\ UNCHANGED <<setup, finished>>
        /\ SnapOK(copy, checkpoints)
    BY DEF Cancel, Recover, SaveRefused, Keeps, DataOK, RunAt
<1>2. ASSUME NEW new, Writes(h, new, "over"), ~ Claimable(new)
      PROVE  ClaimsOK'
    BY <1>1, <1>2, ClaimsClosed
<1>3. CASE Cancel(h)
  <2> DEFINE new == [copy EXCEPT !.version = @ + 1, !.state = "cancelled",
                                 !.status = "cancelled"]
  <2>1. Writes(h, new, "over")
      BY <1>3 DEF Cancel
  <2>2. ~ Claimable(new)
      BY <1>1 DEF Claimable, SnapOK
  <2> HIDE DEF new
  <2> QED  BY <1>2, <2>1, <2>2
<1>4. CASE Recover(h)
  <2> DEFINE new == [copy EXCEPT !.version = @ + 1, !.state = "awaiting_approval",
                                 !.unknown = copy.checkpoint.pending]
  <2>1. Writes(h, new, "over")
      BY <1>4 DEF Recover
  <2>2. ~ Claimable(new)
      BY <1>1 DEF Claimable, SnapOK
  <2> HIDE DEF new
  <2> QED  BY <1>2, <2>1, <2>2
<1>5. CASE SaveRefused(h)
  <2> DEFINE new == [copy EXCEPT !.version = @ + 1, !.state = "failed"]
  <2>1. Writes(h, new, "over")
      BY <1>5 DEF SaveRefused
  <2>2. ~ Claimable(new)
      BY <1>1 DEF Claimable, SnapOK
  <2> HIDE DEF new
  <2> QED  BY <1>2, <2>1, <2>2
<1> QED  BY <1>3, <1>4, <1>5

-----------------------------------------------------------------------------
(* The invariant of runs, and the theorems about them                      *)

RunInv == DataOK /\ ClaimsOK

LEMMA RunInitOK == Init => RunInv
<1> SUFFICES ASSUME Init PROVE RunInv
    OBVIOUS
<1>1. CheckpointsOK
  <2> DEFINE C == [completed : SUBSET StepIds, pending : SUBSET StepIds]
  <2>1. <<>> \in Seq(C)
      OBVIOUS
  <2> QED  BY <2>1 DEF Init, CheckpointsOK
<1>2. snapshot = NoSnapshot /\ snapshot.version \in 0 .. MaxVersion
    BY InstanceOK DEF Init, NoSnapshot
<1>3. ASSUME NEW h \in Host
      PROVE  RunAt(h) /\ FromCopy(host[h]) /\ ~ MayCall(host[h]) /\ host[h] = Idle
  <2>1. host[h] = Idle
      BY DEF Init
  <2>2. host[h].run = NewRun([version |-> "none"], {}) /\ host[h].pc = "idle"
      BY <2>1 DEF Idle
  <2>3. RunOK(host[h].run)
      BY <2>2, FreshOK
  <2> QED  BY <2>1, <2>2, <2>3 DEF RunAt, Keeps, FromCopy, MayCall, Holder
<1>4. DataOK
    BY <1>1, <1>2, <1>3 DEF Init, DataOK
<1>5. ClaimsOK
    BY <1>2, <1>3 DEF Init, ClaimsOK, Claimable
<1> QED  BY <1>4, <1>5 DEF RunInv

\* Steps that neither move a host nor write anything a run depends on.
LEMMA NothingMoves ==
    ASSUME RunInv, UNCHANGED <<setup, snapshot, checkpoints, host, finished>>
    PROVE  RunInv' /\ CallsOnce
<1>1. StepIds' = StepIds /\ NoSnapshot' = NoSnapshot /\ Idle' = Idle
    BY DEF StepIds, NoSnapshot, Idle
<1>2. CheckpointsOK'
    BY <1>1 DEF RunInv, DataOK, CheckpointsOK, Parts
<1>3. ASSUME NEW h \in Host
      PROVE  RunAt(h)'
  <2> DEFINE run == host[h].run
  <2>1. RunAt(h) /\ run = host'[h].run /\ RunOK(run)
      BY DEF RunInv, DataOK, RunAt
  <2> HIDE DEF run
  <2>2. RunOK(host[h].run)'
      BY <2>1, RunStays
  <2> QED  BY <2>1, <2>2 DEF RunAt
<1>4. DataOK'
    BY <1>1, <1>2, <1>3 DEF RunInv, DataOK
<1>5. ClaimsOK'
    BY <1>1 DEF RunInv, ClaimsOK
<1>6. CallsOnce
    BY DEF CallsOnce
<1> QED  BY <1>4, <1>5, <1>6 DEF RunInv

\* A host that moves, and calls nothing.
LEMMA CallsNothing ==
    ASSUME NEW h \in Host, \A x \in Host \ {h} : host'[x] = host[x],
           host'[h].run.called \subseteq host[h].run.called
    PROVE  CallsOnce
BY DEF CallsOnce

LEMMA LeaveCallsNothing ==
    ASSUME HostsOK, NEW h \in Host, Leave(h)
    PROVE  CallsOnce
<1>1. host'[h] = Idle /\ \A x \in Host \ {h} : host'[x] = host[x]
    BY DEF Leave, HostsOK
<1>2. host'[h].run.called = {}
    BY <1>1 DEF Idle, NewRun
<1> QED  BY <1>1, <1>2, CallsNothing

LEMMA WritesCallsNothing ==
    ASSUME HostsOK, NEW h \in Host, NEW new, NEW pc, Writes(h, new, pc)
    PROVE  CallsOnce
<1>1. CASE Leave(h)
    BY <1>1, LeaveCallsNothing
<1>2. CASE Goto(h, pc)
  <2>1. /\ \A x \in Host \ {h} : host'[x] = host[x]
        /\ host'[h].run = host[h].run
      BY <1>2 DEF Goto, HostsOK, HostOK
  <2> QED  BY <2>1, CallsNothing
<1> QED  BY <1>1, <1>2 DEF Writes

\* The call of a host that runs under a claim is of a step nobody completed:
\* else the host had nothing left to call.
LEMMA DispatchCallsOnce ==
    ASSUME ClaimsOK, DataOK, HostsOK, NEW h \in Host, NEW new,
           Goes(h, new), Advances(host[h].run, new), host[h].pc = "running"
    PROVE  CallsOnce
<1> DEFINE c == host[h]
<1>1. /\ \A x \in Host \ {h} : host'[x] = host[x]
      /\ host'[h].run = new
    BY DEF Goes, HostsOK, HostOK
<1>2. ASSUME NEW s \in StepIds, s \in new.called \ c.run.called
      PROVE  s \notin c.run.base /\ (c.mode = "claimed" => s \notin finished)
  <2>1. s \in StepIds \ (c.run.base \cup c.run.done)
      BY <1>2 DEF Advances
  <2>2. ASSUME c.mode = "claimed"
        PROVE  s \notin finished
    <3>1. MayCall(c)
        BY <2>1, <2>2, NothingLeft
    <3>2. finished \subseteq c.run.base \cup c.run.done
        BY <3>1 DEF ClaimsOK, Line
    <3> QED  BY <2>1, <3>2
  <2> QED  BY <2>1, <2>2
<1> QED  BY <1>1, <1>2 DEF CallsOnce

LEMMA RunStepOK ==
    ASSUME IndInv, RunInv, Next
    PROVE  RunInv' /\ CallsOnce
<1> USE DEF IndInv
<1>1. ASSUME NEW k \in Key, NEW id \in DOMAIN checkpoints,
             NEW verdict \in {"approved", "rejected"}, Decide(k, id, verdict)
      PROVE  RunInv' /\ CallsOnce
  <2>1. UNCHANGED <<setup, snapshot, checkpoints, host, finished>>
      BY <1>1 DEF Decide
  <2> QED  BY <2>1, NothingMoves
<1>2. ASSUME NEW s \in stored, Lose(s)
      PROVE  RunInv' /\ CallsOnce
  <2>1. UNCHANGED <<setup, snapshot, checkpoints, host, finished>>
      BY <1>2 DEF Lose
  <2> QED  BY <2>1, NothingMoves
<1> USE DEF RunInv
<1>3. ASSUME NEW h \in Host, Begin(h)
      PROVE  RunInv' /\ CallsOnce
  <2>1. checkpoints = <<>>
      BY <1>3 DEF Begin, ClaimsOK
  <2>2. PlanFor(setup.plan, {})
      BY FirstPlan DEF DataOK
  <2>3. PICK run \in Started(setup.plan, setup.mock, {}) :
            (\A x \in Host \ {h} : host'[x] = host[x]) /\ host'[h].run = run
      BY <1>3 DEF Begin, HostsOK
  <2>4. run.called = {}
      BY <2>2, PlanStarts
  <2>5. CallsOnce
      BY <2>3, <2>4, CallsNothing
  <2> QED  BY <1>3, <2>1, <2>5, DataBegins, ClaimsBegin
<1>4. ASSUME NEW h \in Host, Read(h)
      PROVE  RunInv' /\ CallsOnce
  <2>1. /\ \A x \in Host \ {h} : host'[x] = host[x]
        /\ host'[h].pc = "deciding" /\ host'[h].run = host[h].run
        /\ UNCHANGED <<setup, snapshot, finished>> /\ snapshot # NoSnapshot
      BY <1>4 DEF Read, HostsOK, HostOK
  <2>2. FromCopy(host'[h]) /\ ~ MayCall(host'[h])
      BY <2>1 DEF FromCopy, MayCall, Holder
  <2> QED  BY <1>4, <2>1, <2>2, DataReads, ClaimsStay, CallsNothing
<1>5. ASSUME NEW h \in Host, Claim(h)
      PROVE  RunInv' /\ CallsOnce
    BY <1>5, DataRewritten, ClaimsClaim, WritesCallsNothing DEF Claim
<1>6. ASSUME NEW h \in Host, Cancel(h)
      PROVE  RunInv' /\ CallsOnce
    BY <1>6, DataRewritten, ClaimsRewritten, WritesCallsNothing DEF Cancel
<1>7. ASSUME NEW h \in Host, Recover(h)
      PROVE  RunInv' /\ CallsOnce
    BY <1>7, DataRewritten, ClaimsRewritten, WritesCallsNothing DEF Recover
<1>8. ASSUME NEW h \in Host, SaveRefused(h)
      PROVE  RunInv' /\ CallsOnce
    BY <1>8, DataRewritten, ClaimsRewritten, WritesCallsNothing DEF SaveRefused
<1>9. ASSUME NEW h \in Host, Save(h)
      PROVE  RunInv' /\ CallsOnce
  <2>1. \E new : Writes(h, new, "over")
      BY <1>9 DEF Save
  <2> QED  BY <1>9, <2>1, DataSaves, ClaimsSave, WritesCallsNothing
<1>10. ASSUME NEW h \in Host, ResumeSnapshot(h)
       PROVE  RunInv' /\ CallsOnce
  <2> DEFINE c == host[h]
             done == c.copy.checkpoint.completed
             resumed == Materialized(Pending(setup.plan, c.copy.checkpoint), done)
  <2>1. /\ \A x \in Host \ {h} : host'[x] = host[x]
        /\ host'[h].run \in Started(resumed, setup.mock, done) \cup {c.run}
        /\ c.pc = "claimed"
      BY <1>10 DEF ResumeSnapshot, HostsOK, HostOK
  <2>2. SnapOK(c.copy, checkpoints)
      BY <2>1 DEF DataOK, RunAt, Keeps
  <2>3. Parts(c.copy.checkpoint) /\ setup \in Setups
      BY <2>2 DEF SnapOK, DataOK, CheckpointsOK
  <2>4. PlanFor(resumed, done)
      BY <2>3, PendingPlan, MaterializedPlan
  <2> HIDE DEF resumed, done
  <2>5. host'[h].run = c.run \/ host'[h].run.called = {}
      BY <2>1, <2>4, PlanStarts
  <2>6. CallsOnce
      BY <2>1, <2>5, CallsNothing
  <2> QED  BY <1>10, <2>6, DataResumes, ClaimsResume
<1>11. ASSUME NEW h \in Host, NEW id \in DOMAIN checkpoints, ResumePlan(h, id)
       PROVE  RunInv' /\ CallsOnce
  <2> DEFINE plan == Pending(setup.plan, checkpoints[id])
             base == checkpoints[id].completed
  <2>1. /\ \A x \in Host \ {h} : host'[x] = host[x]
        /\ host'[h].pc = "running" /\ host'[h].mode = "free"
        /\ host'[h].run \in Started(plan, setup.mock, base)
        /\ UNCHANGED <<setup, snapshot, finished>>
      BY <1>11 DEF ResumePlan, HostsOK, HostOK
  <2>2. PlanFor(plan, base)
    <3>1. setup \in Setups /\ Parts(checkpoints[id])
        BY DEF DataOK, CheckpointsOK
    <3> QED  BY <3>1, PendingPlan
  <2> HIDE DEF plan, base
  <2>3. host'[h].run.called = {}
      BY <2>1, <2>2, PlanStarts
  <2>4. CallsOnce
      BY <2>1, <2>3, CallsNothing
  <2>5. snapshot' # NoSnapshot
      BY <2>1 DEF ClaimsOK
  <2>6. FromCopy(host'[h]) /\ ~ MayCall(host'[h])
      BY <2>1 DEF FromCopy, MayCall, Holder
  <2>7. ClaimsOK'
      BY <2>1, <2>5, <2>6, ClaimsStay
  <2> QED  BY <1>11, <2>4, <2>7, DataResumesPlan
<1>12. ASSUME NEW h \in Host, Dispatch(h)
       PROVE  RunInv' /\ CallsOnce
  <2>1. PICK new : Goes(h, new) /\ Advances(host[h].run, new)
      BY <1>12, DispatchAdvances
  <2>2. host[h].pc = "running"
      BY <1>12 DEF Dispatch, InputMissing, Approval, Verify, Transform, NoExecutor,
                   Execute, Finish, AtStep
  <2> QED  BY <1>12, <2>1, <2>2, DataDispatches, ClaimsDispatch, DispatchCallsOnce
<1>13. ASSUME NEW h \in Host, Drop(h)
       PROVE  RunInv' /\ CallsOnce
    BY <1>13, DataLeaves, ClaimsLeave, LeaveCallsNothing DEF Drop
<1> QED
  BY <1>1, <1>2, <1>3, <1>4, <1>5, <1>6, <1>7, <1>8, <1>9, <1>10, <1>11, <1>12, <1>13
  DEF Next

LEMMA RunsInvariant == Spec => []RunInv
<1>1. IndInv /\ RunInv /\ [Next]_vars => RunInv'
  <2>1. ASSUME RunInv, UNCHANGED vars PROVE RunInv'
      BY <2>1, NothingMoves DEF vars
  <2> QED  BY <2>1, RunStepOK
<1> QED  BY RunInitOK, Invariance, <1>1, PTL DEF Spec

\* Whatever plan is set up, checkpoints are partitions of its steps, the
\* snapshot in the repository is valid and of one of them, and no run reports
\* a step twice (snapshots.py, approval.create_checkpoint, Dispatcher.run).
THEOREM RunsTyped == Spec => []TypeOK
<1>1. ASSUME RunInv PROVE TypeOK
  <2>1. /\ snapshot.version \in 0 .. MaxVersion
        /\ snapshot # NoSnapshot =>
                ValidSnapshot(snapshot) /\ snapshot.checkpoint = checkpoints[snapshot.id]
      BY <1>1 DEF RunInv, DataOK, SnapOK
  <2>2. \A id \in DOMAIN checkpoints :
            /\ checkpoints[id].completed \cup checkpoints[id].pending = StepIds
            /\ checkpoints[id].completed \cap checkpoints[id].pending = {}
      BY <1>1 DEF RunInv, DataOK, CheckpointsOK, Parts
  <2>3. finished \subseteq StepIds
      BY <1>1 DEF RunInv, ClaimsOK
  <2>4. ASSUME NEW h \in Host
        PROVE  /\ host[h].run.status \in RunStatus
               /\ \A i, j \in DOMAIN host[h].run.reports :
                    /\ host[h].run.reports[i].status \in StepStatus
                    /\ host[h].run.reports[i].id = host[h].run.reports[j].id => i = j
    <3> DEFINE run == host[h].run
    <3>1. RunOK(run)
        BY <1>1 DEF RunInv, DataOK, RunAt
    <3> HIDE DEF run
    <3>2. /\ run.status \in RunStatus
          /\ \A i, j \in DOMAIN run.reports :
                /\ run.reports[i].status \in StepStatus
                /\ run.reports[i].id = run.reports[j].id => i = j
        BY <3>1, RunReports
    <3> QED  BY <3>2 DEF run
  <2> QED  BY <2>1, <2>2, <2>3, <2>4 DEF TypeOK
<1> QED  BY <1>1, RunsInvariant, PTL

\* The validator and order_steps read the graph of every plan alike; and in no
\* run, whatever it was resumed from, is a step called or passed before all
\* steps that the host's plan makes it depend on (validate_execution_plan,
\* order_steps, build_resumed_plan).
THEOREM StepsComeInOrder == Spec => []InOrder
<1>1. ASSUME RunInv PROVE InOrder
  <2>1. GraphIsRead(setup.plan.steps)
    <3>1. setup.plan \in Plans
        BY <1>1, SetupIs DEF RunInv, DataOK
    <3>2. setup.plan.steps \in Seq(PlanSteps)
        BY <3>1 DEF Plans
    <3> QED  BY <3>2, GraphsAreRead
  <2>2. ASSUME NEW h \in Host
        PROVE  LET run == host[h].run
                   passed(i) == {run.reports[j].id : j \in 1 .. i}
               IN  /\ run.done \cup run.called \subseteq passed(Len(run.reports))
                   /\ \A i \in DOMAIN run.reports :
                        run.reports[i].id \in run.done \cup run.called =>
                            ToSet(DepsOf(setup.plan.steps, run.reports[i].id)) \cap StepIds
                                \subseteq run.base \cup (passed(i - 1) \cap run.done)
    <3> DEFINE run == host[h].run
    <3>1. RunOK(run)
        BY <1>1 DEF RunInv, DataOK, RunAt
    <3> HIDE DEF run
    <3>2. LET passed(i) == {run.reports[j].id : j \in 1 .. i}
          IN  /\ run.done \cup run.called \subseteq passed(Len(run.reports))
              /\ \A i \in DOMAIN run.reports :
                    run.reports[i].id \in run.done \cup run.called =>
                        ToSet(DepsOf(setup.plan.steps, run.reports[i].id)) \cap StepIds
                            \subseteq run.base \cup (passed(i - 1) \cap run.done)
        BY <3>1, RunReports
    <3> QED  BY <3>2 DEF run
  <2> QED  BY <2>1, <2>2 DEF InOrder
<1> QED  BY <1>1, RunsInvariant, PTL

\* What a manifest says of its run agrees with what the run reports of its
\* steps and checks (Dispatcher.run, _final_status).
THEOREM ManifestsTell == Spec => []ReportTells
<1>1. ASSUME RunInv PROVE ReportTells
  <2>1. ASSUME NEW h \in Host, host[h].run.ended
        PROVE  Tells(host[h].run) /\ ExpertsBlock(host[h].run)
      BY <1>1, <2>1, RunTells DEF RunInv, DataOK, RunAt, RunOK
  <2> QED  BY <2>1 DEF ReportTells, Tells, ExpertsBlock
<1> QED  BY <1>1, RunsInvariant, PTL

\* No run calls a step its checkpoint has as completed, and of the runs that
\* claim the snapshot first none calls a step that another has completed,
\* however hosts die, recover and come late (compare_and_set, resume_snapshot).
THEOREM NothingIsRepeated == Spec => NotRepeated
<1>1. IndInv /\ RunInv /\ [Next]_vars => [CallsOnce]_vars
    BY RunStepOK
<1> QED  BY Invariance, RunsInvariant, <1>1, PTL DEF Spec, NotRepeated
=============================================================================
