--------------------------- MODULE JobQueue_proofs ---------------------------
(***************************************************************************)
(* Theorems about the job queue, for every number of jobs, workers and     *)
(* requests and every value of the bounds.                                 *)
(*                                                                         *)
(* The invariants of JobQueue are not inductive: what a worker writes back *)
(* is a record it read earlier, so an invariant of the rows needs to know  *)
(* what the copies in the workers and the request threads look like.       *)
(* IndInv says it: RowOK of every row, WorkerOK of every worker's copy and *)
(* RequestOK of every request's copy.  The heart of it is the last         *)
(* conjunct of WorkerOK: as long as a worker's token is the one in the     *)
(* row, its copy agrees with the row on attempt_count and run_id.          *)
(*                                                                         *)
(* That payloads are held rests on PayloadInv: a payload belongs to one    *)
(* job from its insertion on, every copy of a record names the payload of  *)
(* its own job, and who is about to delete one read that the job is over.  *)
(***************************************************************************)
EXTENDS JobQueue, TLAPS

\* A row r whose job has been claimed n times.
RowOK(r, n) ==
    /\ Coherent(r)
    /\ r.state = "completed" <=> r.result # NoToken
    /\ r.result # NoToken => r.result = r.run /\ r.attempts = n
    /\ n <= MaxAttempts
    /\ r.state \in Active => r.attempts = n
    /\ r.state = "absent" => n = 0

\* A worker: its token was issued, its copy is an active record, and the copy
\* is current on what the worker will write back while its token is in the row.
WorkerOK(me, table, issued) ==
    me.pc # "idle" =>
        /\ me.token \in 1..issued
        /\ table[me.job].state # "absent"
        /\ me.seen.state \in Active
        /\ Coherent(me.seen)
        /\ me.seen.result = NoToken
        /\ me.pc \in {"gate", "write"} =>
               me.outcome \in {"pending", "completed", "failed", "blocked"}
        /\ HeldUnder(table[me.job], me.token) =>
               /\ me.seen.attempts = table[me.job].attempts
               /\ me.seen.run = me.token

\* A request thread about to insert has a payload, and one about to finalize
\* has a record without a result and a terminal state that stores none.
RequestOK(me) ==
    /\ me.pc = "insert" => me.handle # NoHandle
    /\ me.pc \in {"probe", "release", "finalize"} => me.seen.result = NoToken
    /\ me.pc = "finalize" => me.outcome \in {"cancelled", "failed", "timed_out"}

IndInv ==
    /\ TypeOK
    /\ \A j \in Job : RowOK(row[j], claims[j])
    /\ \A w \in Worker : WorkerOK(worker[w], row, tokens)
    /\ \A c \in Client : RequestOK(request[c])

-----------------------------------------------------------------------------
(* The records that are written                                            *)

\* A claimed row is a running row with one claim more.
LEMMA ClaimedRowOK ==
    ASSUME ConstantsOK, tokens \in Nat, clock \in Nat,
           NEW r \in Row, NEW n \in Nat, NEW w \in Worker,
           RowOK(r, n), r.state \in Active, r.attempts < MaxAttempts
    PROVE  /\ ClaimedRow(r, w) \in Row
           /\ RowOK(ClaimedRow(r, w), n + 1)
           /\ Coherent(ClaimedRow(r, w))
           /\ ClaimedRow(r, w).state = "running"
           /\ ClaimedRow(r, w).token = tokens + 1
           /\ ClaimedRow(r, w).run = tokens + 1
           /\ ClaimedRow(r, w).result = NoToken
<1> DEFINE s == ClaimedRow(r, w)
<1>1. s \in Row
  <2>1. r.attempts + 1 \in Nat /\ clock + LeaseSeconds \in Nat /\ tokens + 1 \in Nat
    BY DEF ConstantsOK, Row
  <2> QED
    BY <2>1, Zenon DEF ClaimedRow, Row, Active
<1>2. /\ s.state = "running" /\ s.attempts = r.attempts + 1 /\ s.owner = w
      /\ s.token = tokens + 1 /\ s.run = tokens + 1
      /\ s.handle = r.handle /\ s.result = r.result
  BY DEF ClaimedRow, Row
<1>3. r.result = NoToken /\ r.attempts = n /\ r.handle # NoHandle
  BY DEF RowOK, Coherent, Active
<1>4. Coherent(s)
  BY <1>2, <1>3 DEF ConstantsOK, Coherent, Active, NoToken
<1>5. RowOK(s, n + 1)
  BY <1>2, <1>3, <1>4 DEF ConstantsOK, RowOK, Active, Row
<1> QED
  BY <1>1, <1>2, <1>3, <1>4, <1>5

\* Retrying a job and releasing its lease put an active record back into the
\* queue.
LEMMA RequeuedRowOK ==
    ASSUME ConstantsOK, NEW r \in Row, NEW n \in Nat,
           r.state \in Active, Coherent(r), r.result = NoToken,
           r.attempts = n, n <= MaxAttempts
    PROVE  /\ [Unleased(r) EXCEPT !.state = "pending"] \in Row
           /\ RowOK([Unleased(r) EXCEPT !.state = "pending"], n)
           /\ [Unleased(r) EXCEPT !.state = "pending"].state = "pending"
<1> DEFINE s == [Unleased(r) EXCEPT !.state = "pending"]
<1>1. s \in Row
  <2>1. 0 \in Nat
    OBVIOUS
  <2> QED
    BY <2>1, Zenon DEF Unleased, NoToken, Row, Active
<1>2. /\ s.state = "pending" /\ s.attempts = r.attempts /\ s.owner = NoWorker
      /\ s.token = NoToken /\ s.handle = r.handle /\ s.result = r.result
  BY DEF Unleased, Row
<1>3. RowOK(s, n)
  BY <1>2 DEF RowOK, Coherent, Active
<1> QED
  BY <1>1, <1>2, <1>3

\* Finalizing a record that has no result, in any state but "completed".
LEMMA FinalizedRowOK ==
    ASSUME ConstantsOK, NEW r \in Row, NEW n \in Nat, NEW t \in Terminal,
           r.result = NoToken, t # "completed", n <= MaxAttempts
    PROVE  /\ Finalized(r, t) \in Row
           /\ RowOK(Finalized(r, t), n)
           /\ Finalized(r, t).state = t
<1> DEFINE s == Finalized(r, t)
<1>1. s \in Row
  <2>1. 0 \in Nat
    OBVIOUS
  <2> QED
    BY <2>1, Zenon DEF Finalized, Unleased, NoToken, NoHandle, Handle, Row
<1>2. /\ s.state = t /\ s.owner = NoWorker /\ s.token = NoToken
      /\ s.handle = NoHandle /\ s.result = r.result
  BY DEF Finalized, Unleased, Row
<1>3. RowOK(s, n)
  BY <1>2 DEF RowOK, Coherent, Active, Terminal
<1> QED
  BY <1>1, <1>2, <1>3

\* Completing a record under the claim its run_id names.
LEMMA CompletedRowOK ==
    ASSUME ConstantsOK, NEW r \in Row, NEW n \in Nat, NEW t \in Nat \ {0},
           r.run = t, r.attempts = n, n <= MaxAttempts
    PROVE  /\ [Finalized(r, "completed") EXCEPT !.result = t] \in Row
           /\ RowOK([Finalized(r, "completed") EXCEPT !.result = t], n)
           /\ [Finalized(r, "completed") EXCEPT !.result = t].state = "completed"
<1> DEFINE s == [Finalized(r, "completed") EXCEPT !.result = t]
<1>1. s \in Row
  <2>1. 0 \in Nat /\ t \in Nat
    OBVIOUS
  <2> QED
    BY <2>1, Zenon DEF Finalized, Unleased, NoToken, NoHandle, Handle, Row, Terminal
<1>2. /\ s.state = "completed" /\ s.owner = NoWorker /\ s.token = NoToken
      /\ s.handle = NoHandle /\ s.result = t /\ s.run = t
      /\ s.attempts = r.attempts
  BY DEF Finalized, Unleased, Row
<1>3. RowOK(s, n)
  BY <1>2 DEF RowOK, Coherent, Active, NoToken
<1> QED
  BY <1>1, <1>2, <1>3
-----------------------------------------------------------------------------
(* What a step has to keep                                                 *)

\* A worker that is not idle holds a Busy record.
LEMMA BusyWorker ==
    ASSUME TypeOK, NEW w \in Worker, worker[w].pc # "idle"
    PROVE  worker[w] \in Busy
  BY DEF TypeOK, Idle

LEMMA ServingRequest ==
    ASSUME TypeOK, NEW c \in Client, request[c].pc # "idle"
    PROVE  request[c] \in Serving
  BY DEF TypeOK, Idle

LEMMA IdleOK == (\A table, issued : WorkerOK(Idle, table, issued)) /\ RequestOK(Idle) /\ Idle.pc = "idle"
  BY DEF WorkerOK, RequestOK, Idle

\* Writing one row: the rows stay right, and the copies of the workers that do
\* not step stay right, because the row they copied from either leaves the
\* state "running", gets a token no worker has, or keeps what they copied.
LEMMA WriteRow ==
    ASSUME IndInv, NEW j \in Job, NEW r \in Row, NEW n \in Nat,
           row' = [row EXCEPT ![j] = r],
           claims' = [claims EXCEPT ![j] = n],
           RowOK(r, n), r.state # "absent",
           \/ r.state # "running"
           \/ r.token = tokens + 1
           \/ /\ row[j].state = "running"
              /\ r.token = row[j].token
              /\ r.attempts = row[j].attempts,
           tokens' \in Nat, tokens <= tokens'
    PROVE  /\ row' \in [Job -> Row]
           /\ claims' \in [Job -> Nat]
           /\ \A k \in Job : RowOK(row'[k], claims'[k])
           /\ \A w \in Worker : worker'[w] = worker[w] => WorkerOK(worker[w], row, tokens)'
<1>1. row' \in [Job -> Row] /\ claims' \in [Job -> Nat]
  BY DEF IndInv, TypeOK
<1>2. \A k \in Job : RowOK(row'[k], claims'[k])
  BY DEF IndInv, TypeOK
<1>3. ASSUME NEW w \in Worker, worker'[w] = worker[w]
      PROVE  WorkerOK(worker[w], row, tokens)'
  <2> DEFINE me == worker[w]
  <2>1. CASE me.pc = "idle"
    BY <1>3, <2>1 DEF WorkerOK
  <2>2. CASE me.pc # "idle"
    <3>1. me \in Busy /\ WorkerOK(me, row, tokens)
      BY <2>2, BusyWorker DEF IndInv
    <3>2. me.token \in 1..tokens /\ me.job \in Job /\ tokens \in Nat
      BY <3>1, <2>2 DEF WorkerOK, Busy, IndInv, TypeOK
    <3>3. me.token \in 1..tokens'
      BY <3>2
    <3>4. row'[me.job].state # "absent"
      BY <3>1, <3>2, <2>2 DEF WorkerOK, IndInv, TypeOK
    <3>5. ASSUME HeldUnder(row'[me.job], me.token)
          PROVE  /\ me.seen.attempts = row'[me.job].attempts
                 /\ me.seen.run = me.token
      <4>1. CASE me.job # j
        <5>1. row'[me.job] = row[me.job]
          BY <3>2, <4>1 DEF IndInv, TypeOK
        <5> QED
          BY <3>1, <3>5, <5>1, <2>2 DEF WorkerOK
      <4>2. CASE me.job = j
        <5>1. row'[me.job] = r
          BY <3>2, <4>2 DEF IndInv, TypeOK
        <5>2. r.token # tokens + 1 /\ r.state = "running"
          BY <3>2, <3>5, <5>1 DEF HeldUnder
        <5>3. HeldUnder(row[j], me.token) /\ r.attempts = row[j].attempts
          BY <3>5, <5>1, <5>2 DEF HeldUnder
        <5> QED
          BY <3>1, <4>2, <5>1, <5>3, <2>2 DEF WorkerOK
      <4> QED
        BY <4>1, <4>2
    <3> QED
      BY <1>3, <2>2, <3>1, <3>3, <3>4, <3>5 DEF WorkerOK
  <2> QED
    BY <2>1, <2>2
<1> QED
  BY <1>1, <1>2, <1>3

\* A step of one worker that writes no row.
LEMMA LocalWorkerStep ==
    ASSUME IndInv, NEW w \in Worker, NEW v \in {Idle} \cup Busy, WorkerOK(v, row, tokens),
           worker' = [worker EXCEPT ![w] = v],
           UNCHANGED <<clock, store, tokens, handles, request>>,
           staging' \in SUBSET Handle
    PROVE  IndInv'
<1>1. TypeOK'
  BY DEF IndInv, TypeOK, store
<1>2. \A j \in Job : RowOK(row[j], claims[j])'
  BY DEF IndInv, store
<1>3. ASSUME NEW u \in Worker PROVE WorkerOK(worker[u], row, tokens)'
  <2>1. worker'[u] = IF u = w THEN v ELSE worker[u]
    BY DEF IndInv, TypeOK
  <2>2. WorkerOK(worker'[u], row, tokens)
    BY <2>1 DEF IndInv
  <2> QED
    BY <2>2 DEF WorkerOK, store
<1>4. \A c \in Client : RequestOK(request[c])'
  BY DEF IndInv, RequestOK
<1> QED
  BY <1>1, <1>2, <1>3, <1>4 DEF IndInv

\* A step of one request thread that writes no row.
LEMMA LocalRequestStep ==
    ASSUME IndInv, NEW c \in Client, NEW v \in {Idle} \cup Serving, RequestOK(v),
           request' = [request EXCEPT ![c] = v],
           UNCHANGED <<clock, store, tokens, worker>>,
           staging' \in SUBSET Handle, handles' \in Nat
    PROVE  IndInv'
<1>1. TypeOK'
  BY DEF IndInv, TypeOK, store
<1>2. \A j \in Job : RowOK(row[j], claims[j])'
  BY DEF IndInv, store
<1>3. \A w \in Worker : WorkerOK(worker[w], row, tokens)'
  BY DEF IndInv, WorkerOK, store
<1>4. ASSUME NEW d \in Client PROVE RequestOK(request[d])'
  <2>1. request'[d] = IF d = c THEN v ELSE request[d]
    BY DEF IndInv, TypeOK
  <2> QED
    BY <2>1 DEF IndInv, RequestOK
<1> QED
  BY <1>1, <1>2, <1>3, <1>4 DEF IndInv
-----------------------------------------------------------------------------
(* The steps of a worker                                                   *)

LEMMA ClaimStep ==
    ASSUME ConstantsOK, IndInv, NEW w \in Worker, NEW j \in Job, Claim(w, j)
    PROVE  IndInv'
<1> DEFINE r == ClaimedRow(row[j], w)
           n == claims[j] + 1
           v == [pc |-> "enter", job |-> j, token |-> tokens + 1, seen |-> r,
                 lost |-> FALSE, outcome |-> "none"]
<1>1. /\ tokens \in Nat /\ clock \in Nat /\ row[j] \in Row /\ claims[j] \in Nat
      /\ RowOK(row[j], claims[j])
  BY DEF IndInv, TypeOK, ConstantsOK
<1>2. row[j].state \in Active /\ row[j].attempts < MaxAttempts
  BY DEF Claim, NextToClaim, Claimable, LeaseExpired, Active
<1>3. /\ r \in Row /\ RowOK(r, n) /\ Coherent(r) /\ r.state = "running"
      /\ r.token = tokens + 1 /\ r.run = tokens + 1 /\ r.result = NoToken
  BY <1>1, <1>2, ClaimedRowOK
<1>4. /\ row' = [row EXCEPT ![j] = r] /\ claims' = [claims EXCEPT ![j] = n]
      /\ tokens' = tokens + 1 /\ worker' = [worker EXCEPT ![w] = v]
      /\ UNCHANGED <<clock, rows, staging, handles, request>>
  BY DEF Claim, files
<1>5. n \in Nat /\ tokens' \in Nat /\ tokens <= tokens'
  BY <1>1, <1>4
<1> HIDE DEF r, n
<1>6. /\ row' \in [Job -> Row] /\ claims' \in [Job -> Nat]
      /\ \A k \in Job : RowOK(row'[k], claims'[k])
      /\ \A u \in Worker : worker'[u] = worker[u] => WorkerOK(worker[u], row, tokens)'
  BY <1>3, <1>4, <1>5, WriteRow
<1>7. v \in Busy
  BY <1>3, <1>5, <1>4 DEF Busy
<1>8. WorkerOK(v, row', tokens')
  BY <1>1, <1>3, <1>4, <1>5 DEF WorkerOK, Active, IndInv, TypeOK
<1>9. TypeOK'
  BY <1>4, <1>5, <1>6, <1>7 DEF IndInv, TypeOK
<1>10. ASSUME NEW u \in Worker PROVE WorkerOK(worker[u], row, tokens)'
  <2>1. worker'[u] = IF u = w THEN v ELSE worker[u]
    BY <1>4 DEF IndInv, TypeOK
  <2> QED
    BY <2>1, <1>6, <1>8 DEF WorkerOK
<1>11. \A c \in Client : RequestOK(request[c])'
  BY <1>4 DEF IndInv, RequestOK
<1> QED
  BY <1>4, <1>6, <1>9, <1>10, <1>11 DEF IndInv
LEMMA CheckLeaseStep ==
    ASSUME IndInv, NEW w \in Worker, CheckLease(w)
    PROVE  IndInv'
<1> DEFINE me == worker[w]
           v == [me EXCEPT !.pc = AfterCheck(me.pc),
                           !.outcome = IF me.pc = "confirm" THEN "completed" ELSE @]
<1>1. me \in Busy /\ WorkerOK(me, row, tokens) /\ me.pc # "idle"
  BY BusyWorker DEF CheckLease, IndInv
<1>2. CASE me.lost \/ ~HoldsLease(w)
  BY <1>2, IdleOK, LocalWorkerStep DEF CheckLease, Leave, files, IndInv, TypeOK
<1>3. CASE ~(me.lost \/ ~HoldsLease(w))
  <2>1. worker' = [worker EXCEPT ![w] = v]
    BY <1>3 DEF CheckLease
  <2>2. /\ AfterCheck(me.pc) \in {"fetch", "refetch", "gate", "write"}
        /\ AfterCheck(me.pc) = "gate" => me.pc = "confirm"
        /\ AfterCheck(me.pc) = "write" => me.pc = "gate"
    BY DEF CheckLease, AfterCheck
  <2>3. v \in Busy
    BY <1>1, <2>2 DEF Busy, Terminal
  <2>4. WorkerOK(v, row, tokens)
    BY <1>1, <2>2 DEF WorkerOK, Busy
  <2> QED
    BY <2>1, <2>3, <2>4, LocalWorkerStep DEF CheckLease, files, IndInv, TypeOK
<1> QED
  BY <1>2, <1>3

LEMMA FetchStep ==
    ASSUME IndInv, NEW w \in Worker, Fetch(w)
    PROVE  IndInv'
<1> DEFINE me == worker[w]
           v == [me EXCEPT !.pc = "load", !.seen = row[me.job]]
<1>1. me \in Busy /\ WorkerOK(me, row, tokens) /\ me.pc # "idle"
  BY BusyWorker DEF Fetch, IndInv
<1>2. CASE row[me.job].state \in Terminal
  BY <1>2, IdleOK, LocalWorkerStep DEF Fetch, Leave, files, IndInv, TypeOK
<1>3. CASE row[me.job].state \notin Terminal
  <2>1. worker' = [worker EXCEPT ![w] = v]
    BY <1>3 DEF Fetch
  <2>2. row[me.job] \in Row /\ RowOK(row[me.job], claims[me.job])
    BY <1>1 DEF IndInv, TypeOK, Busy
  <2>3. v \in Busy
    BY <1>1, <2>2 DEF Busy
  <2>4. row[me.job].state \in Active
    BY <1>1, <1>3, <2>2 DEF WorkerOK, Row
  <2>5. WorkerOK(v, row, tokens)
    BY <1>1, <2>2, <2>4 DEF WorkerOK, Busy, RowOK, Coherent, HeldUnder, Active, NoToken
  <2> QED
    BY <2>1, <2>3, <2>5, LocalWorkerStep DEF Fetch, files, IndInv, TypeOK
<1> QED
  BY <1>2, <1>3

LEMMA LoadStep ==
    ASSUME IndInv, NEW w \in Worker, Load(w)
    PROVE  IndInv'
<1> DEFINE me == worker[w]
           p == IF Alive(me.seen.handle) /\ me.job \notin Unsupported
                THEN "kernel" ELSE "gate"
           o == IF ~Alive(me.seen.handle) THEN "failed"
                ELSE IF me.job \in Unsupported THEN "blocked" ELSE me.outcome
           v == [me EXCEPT !.pc = p, !.outcome = o]
<1>1. me \in Busy /\ WorkerOK(me, row, tokens) /\ me.pc # "idle"
  BY BusyWorker DEF Load, IndInv
<1>2. worker' = [worker EXCEPT ![w] = v] /\ staging' \in SUBSET Handle
  BY DEF Load, Probe, IndInv, TypeOK
<1>3. p = "kernel" \/ (p = "gate" /\ o \in {"failed", "blocked"})
  OBVIOUS
<1>4. p \in {"kernel", "gate"} /\ o \in {me.outcome, "failed", "blocked"}
  OBVIOUS
<1> HIDE DEF p, o
<1>5. v \in Busy
  BY <1>1, <1>4 DEF Busy, Terminal
<1>6. WorkerOK(v, row, tokens)
  BY <1>1, <1>3, <1>4 DEF WorkerOK, Busy
<1> QED
  BY <1>2, <1>5, <1>6, LocalWorkerStep DEF Load

LEMMA KernelAnswersStep ==
    ASSUME IndInv, NEW w \in Worker, KernelAnswers(w)
    PROVE  IndInv'
<1> DEFINE me == worker[w]
           v == [me EXCEPT !.pc = "settled"]
<1>1. me \in Busy /\ WorkerOK(me, row, tokens) /\ me.pc # "idle"
  BY BusyWorker DEF KernelAnswers, IndInv
<1>2. v \in Busy
  BY <1>1 DEF Busy
<1>3. WorkerOK(v, row, tokens)
  BY <1>1 DEF WorkerOK, Busy
<1> QED
  BY <1>2, <1>3, LocalWorkerStep DEF KernelAnswers, Goto, files, IndInv, TypeOK

LEMMA KernelFailsStep ==
    ASSUME IndInv, NEW w \in Worker, KernelFails(w)
    PROVE  IndInv'
<1> DEFINE me == worker[w]
           o == IF me.seen.attempts < MaxAttempts THEN "pending" ELSE "failed"
           v == [me EXCEPT !.pc = "gate", !.outcome = o]
<1>1. me \in Busy /\ WorkerOK(me, row, tokens) /\ me.pc # "idle"
  BY BusyWorker DEF KernelFails, IndInv
<1>2. worker' = [worker EXCEPT ![w] = v]
  BY DEF KernelFails
<1>3. o \in {"pending", "failed"}
  OBVIOUS
<1> HIDE DEF o
<1>4. v \in Busy
  BY <1>1, <1>3 DEF Busy, Terminal
<1>5. WorkerOK(v, row, tokens)
  BY <1>1, <1>3 DEF WorkerOK, Busy
<1> QED
  BY <1>2, <1>4, <1>5, LocalWorkerStep DEF KernelFails, files, IndInv, TypeOK

LEMMA RefetchStep ==
    ASSUME IndInv, NEW w \in Worker, Refetch(w)
    PROVE  IndInv'
<1> DEFINE me == worker[w]
           d == [me EXCEPT !.pc = "discard"]
           v == [me EXCEPT !.pc = "confirm", !.seen = row[me.job]]
<1>1. me \in Busy /\ WorkerOK(me, row, tokens) /\ me.pc # "idle"
  BY BusyWorker DEF Refetch, IndInv
<1>2. CASE row[me.job].state \in Terminal
  <2>1. worker' = [worker EXCEPT ![w] = d]
    BY <1>2 DEF Refetch
  <2>2. d \in Busy
    BY <1>1 DEF Busy
  <2>3. WorkerOK(d, row, tokens)
    BY <1>1 DEF WorkerOK, Busy
  <2> QED
    BY <2>1, <2>2, <2>3, LocalWorkerStep DEF Refetch, files, IndInv, TypeOK
<1>3. CASE row[me.job].state \notin Terminal
  <2>1. worker' = [worker EXCEPT ![w] = v]
    BY <1>3 DEF Refetch
  <2>2. row[me.job] \in Row /\ RowOK(row[me.job], claims[me.job])
    BY <1>1 DEF IndInv, TypeOK, Busy
  <2>3. v \in Busy
    BY <1>1, <2>2 DEF Busy
  <2>4. row[me.job].state \in Active
    BY <1>1, <1>3, <2>2 DEF WorkerOK, Row
  <2>5. WorkerOK(v, row, tokens)
    BY <1>1, <2>2, <2>4 DEF WorkerOK, Busy, RowOK, Coherent, HeldUnder, Active, NoToken
  <2> QED
    BY <2>1, <2>3, <2>5, LocalWorkerStep DEF Refetch, files, IndInv, TypeOK
<1> QED
  BY <1>2, <1>3

\* What the update of a worker that still holds its claim leaves in the row.
LEMMA OutcomeOK ==
    ASSUME ConstantsOK, IndInv, NEW w \in Worker, worker[w].pc = "write",
           HeldUnder(row[worker[w].job], worker[w].token)
    PROVE  /\ Outcome(worker[w]) \in Row
           /\ RowOK(Outcome(worker[w]), claims[worker[w].job])
           /\ Outcome(worker[w]).state \in {"pending", "completed", "failed", "blocked"}
<1> DEFINE me == worker[w]
           n == claims[me.job]
<1>1. me \in Busy /\ WorkerOK(me, row, tokens) /\ me.pc = "write"
  BY BusyWorker DEF IndInv
<1>2. /\ me.seen \in Row /\ me.job \in Job /\ n \in Nat /\ tokens \in Nat
      /\ me.token \in 1..tokens /\ RowOK(row[me.job], n)
      /\ row[me.job].state = "running"
  BY <1>1 DEF Busy, IndInv, TypeOK, WorkerOK, HeldUnder
<1>3. /\ me.seen.state \in Active /\ Coherent(me.seen) /\ me.seen.result = NoToken
      /\ me.seen.attempts = n /\ me.seen.run = me.token /\ n <= MaxAttempts
      /\ me.outcome \in {"pending", "completed", "failed", "blocked"}
  BY <1>1, <1>2 DEF WorkerOK, RowOK, Active
<1>4. CASE me.outcome = "pending"
  <2>1. Outcome(me) = [Unleased(me.seen) EXCEPT !.state = "pending"]
    BY <1>4 DEF Outcome
  <2> QED
    BY <1>2, <1>3, <2>1, RequeuedRowOK
<1>5. CASE me.outcome = "completed"
  <2>1. Outcome(me) = [Finalized(me.seen, "completed") EXCEPT !.result = me.token]
    BY <1>5 DEF Outcome
  <2>2. me.token \in Nat \ {0}
    BY <1>2
  <2> QED
    BY <1>2, <1>3, <2>1, <2>2, CompletedRowOK
<1>6. CASE me.outcome \in {"failed", "blocked"}
  <2>1. Outcome(me) = Finalized(me.seen, me.outcome) /\ me.outcome \in Terminal
    BY <1>6 DEF Outcome, Terminal
  <2> QED
    BY <1>2, <1>3, <1>6, <2>1, FinalizedRowOK
<1> QED
  BY <1>3, <1>4, <1>5, <1>6

LEMMA WriteOutcomeStep ==
    ASSUME ConstantsOK, IndInv, NEW w \in Worker, WriteOutcome(w)
    PROVE  IndInv'
<1> DEFINE me == worker[w]
           ok == UpdateApplies(row[me.job], me.token)
           v == WriterNext(me, ok)
<1>1. /\ me \in Busy /\ WorkerOK(me, row, tokens) /\ me.pc = "write"
      /\ me.job \in Job /\ me.token \in 1..tokens /\ tokens \in Nat
  BY BusyWorker DEF WriteOutcome, IndInv, WorkerOK, Busy, TypeOK
<1>2. ok <=> HeldUnder(row[me.job], me.token)
  BY <1>1 DEF UpdateApplies, NoToken
<1>3. /\ worker' = [worker EXCEPT ![w] = v]
      /\ UNCHANGED <<clock, rows, tokens, claims, staging, handles, request>>
  BY DEF WriteOutcome, files
<1>4. v \in {Idle} \cup Busy
  <2>1. [me EXCEPT !.pc = "discard", !.outcome = "none"] \in Busy
    BY <1>1 DEF Busy
  <2> QED
    BY <2>1 DEF WriterNext
<1>5. CASE ~ok
  <2>1. v = Idle /\ row' = row
    BY <1>5 DEF WriteOutcome, WriterNext
  <2> QED
    BY <1>3, <1>4, <2>1, IdleOK, LocalWorkerStep DEF store, IndInv, TypeOK
<1>6. CASE ok
  <2> DEFINE r == Outcome(me)
  <2>1. /\ r \in Row /\ RowOK(r, claims[me.job])
        /\ r.state \in {"pending", "completed", "failed", "blocked"}
    BY <1>1, <1>2, <1>6, OutcomeOK
  <2> HIDE DEF r
  <2>2. row' = [row EXCEPT ![me.job] = r]
    BY <1>6 DEF WriteOutcome, r
  <2>3. /\ claims[me.job] \in Nat /\ claims' = [claims EXCEPT ![me.job] = claims[me.job]]
        /\ tokens' = tokens /\ tokens' \in Nat /\ tokens <= tokens'
        /\ r.state # "running" /\ r.state # "absent"
    BY <1>1, <1>3, <2>1 DEF IndInv, TypeOK
  <2>4. /\ row' \in [Job -> Row] /\ claims' \in [Job -> Nat]
        /\ \A k \in Job : RowOK(row'[k], claims'[k])
        /\ \A u \in Worker : worker'[u] = worker[u] => WorkerOK(worker[u], row, tokens)'
    BY <1>1, <2>1, <2>2, <2>3, WriteRow
  <2>5. WorkerOK(v, row', tokens')
    <3>1. CASE me.outcome = "pending"
      BY <3>1, IdleOK DEF WriterNext
    <3>2. CASE me.outcome # "pending"
      <4>1. v = [me EXCEPT !.pc = "discard", !.outcome = "none"]
        BY <1>6, <3>2 DEF WriterNext
      <4>2. /\ v.pc = "discard" /\ v.job = me.job /\ v.token = me.token /\ v.seen = me.seen
        BY <4>1, <1>1 DEF Busy
      <4>3. row'[me.job] = r
        BY <1>1, <2>2 DEF IndInv, TypeOK
      <4>4. ~HeldUnder(row'[me.job], me.token) /\ row'[me.job].state # "absent"
        BY <2>1, <4>3 DEF HeldUnder
      <4> HIDE DEF v
      <4> QED
        BY <1>1, <2>3, <4>2, <4>4 DEF WorkerOK
    <3> QED
      BY <3>1, <3>2
  <2> HIDE DEF v
  <2>6. TypeOK'
    BY <1>3, <1>4, <2>4 DEF IndInv, TypeOK
  <2>7. ASSUME NEW u \in Worker PROVE WorkerOK(worker[u], row, tokens)'
    <3>1. worker'[u] = IF u = w THEN v ELSE worker[u]
      BY <1>3 DEF IndInv, TypeOK
    <3> QED
      BY <3>1, <2>4, <2>5
  <2>8. \A c \in Client : RequestOK(request[c])'
    BY <1>3 DEF IndInv, RequestOK
  <2> QED
    BY <2>4, <2>6, <2>7, <2>8 DEF IndInv
<1> QED
  BY <1>5, <1>6

LEMMA DiscardPayloadStep ==
    ASSUME IndInv, NEW w \in Worker, DiscardPayload(w)
    PROVE  IndInv'
  BY IdleOK, LocalWorkerStep DEF DiscardPayload, Discard, Leave, IndInv, TypeOK

LEMMA WorkerCrashStep ==
    ASSUME IndInv, NEW w \in Worker, WorkerCrash(w)
    PROVE  IndInv'
  BY IdleOK, LocalWorkerStep DEF WorkerCrash, Leave, files, IndInv, TypeOK

\* Renewing the lease changes nothing but its expiry.
LEMMA HeartbeatStep ==
    ASSUME ConstantsOK, IndInv, NEW w \in Worker, Heartbeat(w)
    PROVE  IndInv'
<1> DEFINE me == worker[w]
           v == [me EXCEPT !.lost = TRUE]
           r == [row[me.job] EXCEPT !.expires = clock + LeaseSeconds]
<1>1. /\ me \in Busy /\ WorkerOK(me, row, tokens) /\ me.pc # "idle" /\ me.job \in Job
      /\ row[me.job] \in Row /\ claims[me.job] \in Nat /\ clock \in Nat
      /\ RowOK(row[me.job], claims[me.job])
  BY BusyWorker DEF Heartbeat, IndInv, WorkerOK, Busy, TypeOK, ConstantsOK
<1>2. CASE ~HoldsLease(w)
  <2>1. worker' = [worker EXCEPT ![w] = v] /\ row' = row
    BY <1>2 DEF Heartbeat
  <2>2. v \in Busy
    BY <1>1 DEF Busy
  <2>3. WorkerOK(v, row, tokens)
    BY <1>1 DEF WorkerOK, Busy
  <2> QED
    BY <2>1, <2>2, <2>3, LocalWorkerStep DEF Heartbeat, files, store, IndInv, TypeOK
<1>3. CASE HoldsLease(w)
  <2>1. row' = [row EXCEPT ![me.job] = r] /\ worker' = worker
    BY <1>3, <1>1 DEF Heartbeat, IndInv, TypeOK
  <2>2. /\ r \in Row /\ r.state = row[me.job].state /\ r.token = row[me.job].token
        /\ r.attempts = row[me.job].attempts /\ r.owner = row[me.job].owner
        /\ r.run = row[me.job].run /\ r.handle = row[me.job].handle
        /\ r.result = row[me.job].result
    BY <1>1 DEF Row, ConstantsOK
  <2>3. RowOK(r, claims[me.job])
    BY <1>1, <2>2 DEF RowOK, Coherent
  <2>4. r.state = "running"
    BY <1>3, <2>2 DEF HoldsLease, HeldUnder
  <2> HIDE DEF r
  <2>5. /\ UNCHANGED <<clock, rows, tokens, claims, staging, handles, request>>
        /\ claims' = [claims EXCEPT ![me.job] = claims[me.job]]
        /\ tokens' \in Nat /\ tokens <= tokens'
    BY <1>1 DEF Heartbeat, files, IndInv, TypeOK
  <2>6. /\ row' \in [Job -> Row] /\ claims' \in [Job -> Nat]
        /\ \A k \in Job : RowOK(row'[k], claims'[k])
        /\ \A u \in Worker : worker'[u] = worker[u] => WorkerOK(worker[u], row, tokens)'
    BY <1>1, <2>1, <2>2, <2>3, <2>4, <2>5, WriteRow
  <2>7. TypeOK'
    BY <2>1, <2>5, <2>6 DEF IndInv, TypeOK
  <2>8. \A c \in Client : RequestOK(request[c])'
    BY <2>5 DEF IndInv, RequestOK
  <2> QED
    BY <2>1, <2>6, <2>7, <2>8 DEF IndInv
<1> QED
  BY <1>2, <1>3

-----------------------------------------------------------------------------
(* The steps of a request thread                                           *)

LEMMA BeginStep ==
    ASSUME IndInv, NEW c \in Client, NEW j \in Job,
           BeginCreate(c, j) \/ BeginCancel(c, j) \/ BeginReconcile(c, j)
    PROVE  IndInv'
<1>1. row[j] \in Row /\ RowOK(row[j], claims[j]) /\ clock \in Nat
  BY DEF IndInv, TypeOK
<1>2. UNCHANGED <<clock, store, tokens, worker>> /\ staging' \in SUBSET Handle /\ handles' \in Nat
  BY DEF BeginCreate, BeginCancel, BeginReconcile, files, IndInv, TypeOK
<1>3. CASE BeginCreate(c, j)
  <2> DEFINE v == NewRequest("exists", j, NoRow)
  <2>1. v \in Serving /\ v.pc = "exists"
    BY DEF NewRequest, NoRow, NoHandle, NoToken, Handle, Serving, Row
  <2>2. RequestOK(v)
    BY <2>1 DEF RequestOK
  <2> QED
    BY <1>2, <1>3, <2>1, <2>2, LocalRequestStep DEF BeginCreate
<1>4. CASE BeginCancel(c, j)
  <2> DEFINE v == [NewRequest("finalize", j, row[j]) EXCEPT !.outcome = "cancelled"]
  <2>1. v \in Serving /\ v.outcome = "cancelled" /\ v.seen = row[j] /\ v.pc = "finalize"
    BY <1>1 DEF NewRequest, NoToken, Serving, Row, Terminal
  <2>2. row[j].result = NoToken
    BY <1>1, <1>4 DEF BeginCancel, RowOK, Active
  <2>3. RequestOK(v)
    BY <2>1, <2>2 DEF RequestOK
  <2> QED
    BY <1>2, <1>4, <2>1, <2>3, LocalRequestStep DEF BeginCancel
<1>5. CASE BeginReconcile(c, j)
  <2> DEFINE v == [NewRequest("probe", j, row[j]) EXCEPT !.now = clock]
  <2>1. v \in Serving /\ v.seen = row[j] /\ v.pc = "probe"
    BY <1>1 DEF NewRequest, NoToken, Serving, Row
  <2>2. row[j].result = NoToken
    BY <1>1, <1>5 DEF BeginReconcile, RowOK, Active
  <2>3. RequestOK(v)
    BY <2>1, <2>2 DEF RequestOK
  <2> QED
    BY <1>2, <1>5, <2>1, <2>3, LocalRequestStep DEF BeginReconcile
<1> QED
  BY <1>3, <1>4, <1>5

LEMMA CheckJobIdStep ==
    ASSUME IndInv, NEW c \in Client, CheckJobId(c)
    PROVE  IndInv'
<1> DEFINE v == [request[c] EXCEPT !.pc = "stage"]
<1>1. v \in Serving /\ RequestOK(v)
  BY ServingRequest DEF CheckJobId, IndInv, Serving, RequestOK
<1> QED
  BY <1>1, IdleOK, LocalRequestStep
     DEF CheckJobId, Proceed, Reply, files, IndInv, TypeOK

LEMMA StagePayloadStep ==
    ASSUME ConstantsOK, IndInv, NEW c \in Client, StagePayload(c)
    PROVE  IndInv'
<1> DEFINE h == [id |-> handles + 1, expires |-> clock + StagingTTL]
           v == [request[c] EXCEPT !.pc = "insert", !.handle = h]
<1>1. h \in Handle /\ h # NoHandle
  BY DEF Handle, NoHandle, IndInv, TypeOK, ConstantsOK
<1>2. v \in Serving /\ RequestOK(v)
  BY <1>1, ServingRequest DEF StagePayload, IndInv, Serving, RequestOK
<1>3. CASE Reply(c) /\ UNCHANGED files
  BY <1>3, IdleOK, LocalRequestStep DEF StagePayload, Reply, files, IndInv, TypeOK
<1>4. CASE /\ handles' = handles + 1 /\ staging' = staging \cup {h}
           /\ request' = [request EXCEPT ![c] = v]
  <2>1. staging' \in SUBSET Handle /\ handles' \in Nat
    BY <1>1, <1>4 DEF IndInv, TypeOK
  <2> QED
    BY <1>2, <1>4, <2>1, LocalRequestStep DEF StagePayload
<1> QED
  BY <1>3, <1>4 DEF StagePayload

LEMMA ProbeStagingStep ==
    ASSUME ConstantsOK, IndInv, NEW c \in Client, ProbeStaging(c)
    PROVE  IndInv'
<1> DEFINE me == request[c]
           f == [me EXCEPT !.pc = "finalize", !.now = 0, !.outcome = Verdict(me),
                           !.fence = ReconcileFence(me.seen)]
           l == [me EXCEPT !.pc = "release", !.now = clock]
<1>1. me \in Serving /\ RequestOK(me) /\ me.pc = "probe" /\ clock \in Nat
  BY ServingRequest DEF ProbeStaging, IndInv, TypeOK
<1>2. staging' \in SUBSET Handle /\ handles' \in Nat
  BY DEF ProbeStaging, Probe, IndInv, TypeOK
<1>3. UNCHANGED <<clock, store, tokens, worker>>
  BY DEF ProbeStaging
<1>4. CASE Verdict(me) # "none"
  <2>1. Verdict(me) \in {"timed_out", "failed"} /\ ReconcileFence(me.seen) \in Nat
    BY <1>1, <1>4 DEF Verdict, ReconcileFence, Serving, Row, NoToken
  <2>2. f \in Serving
    BY <1>1, <2>1 DEF Serving, Terminal
  <2>3. f.pc = "finalize" /\ f.outcome = Verdict(me) /\ f.seen = me.seen
    BY <1>1 DEF Serving
  <2>4. RequestOK(f)
    BY <1>1, <2>1, <2>3 DEF RequestOK
  <2>5. request' = [request EXCEPT ![c] = f]
    BY <1>4 DEF ProbeStaging
  <2> HIDE DEF f
  <2> QED
    BY <1>2, <1>3, <2>2, <2>4, <2>5, LocalRequestStep
<1>5. CASE Verdict(me) = "none" /\ LeaseExpired(me.seen, clock)
  <2>1. l \in Serving /\ l.pc = "release" /\ l.seen = me.seen
    BY <1>1 DEF Serving
  <2>2. RequestOK(l)
    BY <1>1, <2>1 DEF RequestOK
  <2>3. request' = [request EXCEPT ![c] = l]
    BY <1>5 DEF ProbeStaging
  <2> HIDE DEF l
  <2> QED
    BY <1>2, <1>3, <2>1, <2>2, <2>3, LocalRequestStep
<1>6. CASE Verdict(me) = "none" /\ ~LeaseExpired(me.seen, clock)
  BY <1>2, <1>6, <1>3, IdleOK, LocalRequestStep DEF ProbeStaging, Reply
<1> QED
  BY <1>4, <1>5, <1>6

LEMMA UnlinkPayloadStep ==
    ASSUME IndInv, NEW c \in Client, UnlinkPayload(c)
    PROVE  IndInv'
  BY IdleOK, LocalRequestStep DEF UnlinkPayload, Discard, Reply, IndInv, TypeOK

LEMMA RequestCrashStep ==
    ASSUME IndInv, NEW c \in Client, RequestCrash(c)
    PROVE  IndInv'
  BY IdleOK, LocalRequestStep DEF RequestCrash, Reply, files, IndInv, TypeOK

\* The requests that write a row: create, reconcile's release, and _finalize.
LEMMA WriteRowStep ==
    ASSUME ConstantsOK, IndInv, NEW c \in Client, NEW j \in Job, NEW r \in Row,
           RowOK(r, claims[j]), r.state # "absent", r.state # "running",
           row' = [row EXCEPT ![j] = r], rows' \in Nat,
           NEW v \in {Idle} \cup Serving, RequestOK(v),
           request' = [request EXCEPT ![c] = v],
           UNCHANGED <<clock, tokens, claims, files, worker>>
    PROVE  IndInv'
<1>1. /\ claims[j] \in Nat /\ claims' = [claims EXCEPT ![j] = claims[j]]
      /\ tokens' \in Nat /\ tokens <= tokens'
  BY DEF IndInv, TypeOK
<1>2. /\ row' \in [Job -> Row] /\ claims' \in [Job -> Nat]
      /\ \A k \in Job : RowOK(row'[k], claims'[k])
      /\ \A u \in Worker : worker'[u] = worker[u] => WorkerOK(worker[u], row, tokens)'
  BY <1>1, WriteRow
<1>3. TypeOK'
  BY <1>2 DEF IndInv, TypeOK, files
<1>4. ASSUME NEW d \in Client PROVE RequestOK(request[d])'
  <2>1. request'[d] = IF d = c THEN v ELSE request[d]
    BY DEF IndInv, TypeOK
  <2> QED
    BY <2>1 DEF IndInv, RequestOK
<1> QED
  BY <1>2, <1>3, <1>4 DEF IndInv

LEMMA InsertRowStep ==
    ASSUME ConstantsOK, IndInv, NEW c \in Client, InsertRow(c)
    PROVE  IndInv'
<1> DEFINE me == request[c]
           r == [NoRow EXCEPT !.state = "pending", !.rowid = rows + 1,
                              !.handle = me.handle]
<1>1. /\ me \in Serving /\ RequestOK(me) /\ me.pc = "insert" /\ me.job \in Job
      /\ me.handle \in Handle /\ me.handle # NoHandle /\ rows \in Nat
      /\ RowOK(row[me.job], claims[me.job]) /\ claims[me.job] \in Nat
  BY ServingRequest DEF InsertRow, IndInv, TypeOK, Serving, RequestOK
<1>2. request' = [request EXCEPT ![c] = Idle] /\ rows' \in Nat
  BY <1>1 DEF InsertRow, Reply
<1>3. CASE row[me.job].state = "absent" /\ ~KeyTaken(me.job)
  <2>1. row' = [row EXCEPT ![me.job] = r]
    BY <1>3 DEF InsertRow
  <2>2. /\ r \in Row /\ r.state = "pending" /\ r.attempts = 0 /\ r.owner = NoWorker
        /\ r.token = NoToken /\ r.handle = me.handle /\ r.result = NoToken
    <3>1. 0 \in Nat /\ rows + 1 \in Nat
      BY <1>1
    <3>2. r \in Row
      BY <1>1, <3>1, Zenon DEF NoRow, Row, Active, NoToken, NoHandle, Handle
    <3> QED
      BY <3>2 DEF NoRow
  <2>3. claims[me.job] = 0
    BY <1>1, <1>3 DEF RowOK
  <2>4. RowOK(r, claims[me.job])
    BY <1>1, <2>2, <2>3 DEF RowOK, Coherent, Active, ConstantsOK
  <2> HIDE DEF r
  <2> QED
    BY <1>1, <1>2, <2>1, <2>2, <2>4, IdleOK, WriteRowStep DEF InsertRow
<1>4. CASE ~(row[me.job].state = "absent" /\ ~KeyTaken(me.job))
  <2>1. row' = row /\ rows' = rows
    BY <1>4 DEF InsertRow
  <2> QED
    BY <1>2, <2>1, IdleOK, LocalRequestStep DEF InsertRow, files, store, IndInv, TypeOK
<1> QED
  BY <1>3, <1>4

LEMMA ReleaseLeaseStep ==
    ASSUME ConstantsOK, IndInv, NEW c \in Client, ReleaseLease(c)
    PROVE  IndInv'
<1> DEFINE me == request[c]
           r == [Unleased(row[me.job]) EXCEPT !.state = "pending"]
           ok == /\ HeldUnder(row[me.job], me.seen.token)
                 /\ LeaseExpired(row[me.job], me.now)
<1>1. /\ me \in Serving /\ me.job \in Job /\ row[me.job] \in Row
      /\ RowOK(row[me.job], claims[me.job]) /\ claims[me.job] \in Nat
  BY ServingRequest DEF ReleaseLease, IndInv, TypeOK, Serving
<1>2. /\ request' = [request EXCEPT ![c] = Idle] /\ rows' = rows /\ rows' \in Nat
      /\ UNCHANGED <<clock, tokens, claims, files, worker>>
  BY DEF ReleaseLease, Reply, IndInv, TypeOK
<1>3. CASE ok
  <2>1. row' = [row EXCEPT ![me.job] = r]
    BY <1>3 DEF ReleaseLease
  <2>2. /\ row[me.job].state \in Active /\ Coherent(row[me.job])
        /\ row[me.job].result = NoToken /\ row[me.job].attempts = claims[me.job]
        /\ claims[me.job] <= MaxAttempts
    BY <1>1, <1>3 DEF RowOK, HeldUnder, Active
  <2>3. r \in Row /\ RowOK(r, claims[me.job]) /\ r.state = "pending"
    BY <1>1, <2>2, RequeuedRowOK
  <2> HIDE DEF r
  <2> QED
    BY <1>1, <1>2, <2>1, <2>3, IdleOK, WriteRowStep
<1>4. CASE ~ok
  <2>1. row' = row
    BY <1>4 DEF ReleaseLease
  <2> QED
    BY <1>2, <2>1, IdleOK, LocalRequestStep DEF files, store, IndInv, TypeOK
<1> QED
  BY <1>3, <1>4

LEMMA FinalizeRowStep ==
    ASSUME ConstantsOK, IndInv, NEW c \in Client, FinalizeRow(c)
    PROVE  IndInv'
<1> DEFINE me == request[c]
           r == Finalized(me.seen, me.outcome)
           u == [NewRequest("unlink", me.job, NoRow) EXCEPT !.handle = me.handle]
           ok == UpdateApplies(row[me.job], me.fence)
<1>1. /\ me \in Serving /\ RequestOK(me) /\ me.pc = "finalize"
      /\ me.job \in Job /\ me.seen \in Row /\ me.handle \in Handle
      /\ RowOK(row[me.job], claims[me.job]) /\ claims[me.job] \in Nat
  BY ServingRequest DEF FinalizeRow, IndInv, TypeOK, Serving
<1>2. /\ rows' = rows /\ rows' \in Nat
      /\ UNCHANGED <<clock, tokens, claims, files, worker>>
  BY DEF FinalizeRow, IndInv, TypeOK
<1>3. CASE ok
  <2>1. row' = [row EXCEPT ![me.job] = r] /\ request' = [request EXCEPT ![c] = u]
    BY <1>3 DEF FinalizeRow
  <2>2. /\ me.seen.result = NoToken /\ claims[me.job] <= MaxAttempts
        /\ me.outcome \in Terminal /\ me.outcome # "completed"
    BY <1>1 DEF RequestOK, RowOK, Terminal
  <2>3. r \in Row /\ RowOK(r, claims[me.job]) /\ r.state = me.outcome
    BY <1>1, <2>2, FinalizedRowOK
  <2>4. r.state # "absent" /\ r.state # "running"
    BY <2>2, <2>3 DEF Terminal
  <2>5. u \in Serving /\ u.pc = "unlink"
    BY <1>1 DEF NewRequest, NoRow, NoHandle, NoToken, Handle, Serving, Row
  <2>6. RequestOK(u)
    BY <2>5 DEF RequestOK
  <2> HIDE DEF r, u
  <2> QED
    BY <1>1, <1>2, <2>1, <2>3, <2>4, <2>5, <2>6, WriteRowStep
<1>4. CASE ~ok
  <2>1. row' = row /\ request' = [request EXCEPT ![c] = Idle]
    BY <1>4 DEF FinalizeRow, Reply
  <2> QED
    BY <1>2, <2>1, IdleOK, LocalRequestStep DEF files, store, IndInv, TypeOK
<1> QED
  BY <1>3, <1>4

-----------------------------------------------------------------------------
(* The theorems                                                            *)

LEMMA InitOK == ASSUME ConstantsOK, Init PROVE IndInv
<1>1. NoRow \in Row
  BY DEF NoRow, NoHandle, NoToken, Handle, Row
<1>2. TypeOK
  BY <1>1 DEF Init, TypeOK, ConstantsOK
<1>3. RowOK(NoRow, 0)
  BY DEF NoRow, NoToken, RowOK, Coherent, Active, ConstantsOK
<1> QED
  BY <1>2, <1>3, IdleOK DEF IndInv, Init

LEMMA NextOK == ASSUME ConstantsOK, IndInv, [Next]_vars PROVE IndInv'
<1>1. CASE Tick
  BY <1>1 DEF Tick, IndInv, TypeOK, RequestOK, WorkerOK, store, files
<1>2. ASSUME NEW w \in Worker, WorkerStep(w) \/ Heartbeat(w) \/ WorkerCrash(w)
      PROVE  IndInv'
  BY <1>2, ClaimStep, CheckLeaseStep, FetchStep, LoadStep, KernelAnswersStep,
     KernelFailsStep, RefetchStep, WriteOutcomeStep, DiscardPayloadStep,
     HeartbeatStep, WorkerCrashStep DEF WorkerStep
<1>3. ASSUME NEW c \in Client,
             RequestArrives(c) \/ RequestStep(c) \/ RequestCrash(c)
      PROVE  IndInv'
  BY <1>3, BeginStep, CheckJobIdStep, StagePayloadStep, InsertRowStep,
     ProbeStagingStep, ReleaseLeaseStep, FinalizeRowStep, UnlinkPayloadStep,
     RequestCrashStep DEF RequestArrives, RequestStep
<1>4. CASE UNCHANGED vars
  BY <1>4 DEF vars, IndInv, TypeOK, RequestOK, WorkerOK
<1> QED
  BY <1>1, <1>2, <1>3, <1>4 DEF Next

\* The records read by workers and requests stay consistent with the rows.
THEOREM Invariance == Spec => []IndInv
<1>1. Init => IndInv
  BY ConstantsOK, InitOK
<1>2. IndInv /\ [Next]_vars => IndInv'
  BY ConstantsOK, NextOK
<1> QED
  BY <1>1, <1>2, PTL DEF Spec

\* Every variable of the queue always has its type.
THEOREM TypeCorrect == Spec => []TypeOK
<1>1. IndInv => TypeOK
  BY DEF IndInv
<1> QED
  BY <1>1, Invariance, PTL

\* The lease, the run_id and the staging handle of a row always agree with its
\* state (JobStore.update, claim_next, release_expired_lease).
THEOREM RowsCoherent == Spec => []RowCoherent
<1>1. IndInv => RowCoherent
  BY DEF IndInv, RowOK, RowCoherent
<1> QED
  BY <1>1, Invariance, PTL

\* A stored result is always the one of the last claim: the lease token fences
\* the update of a worker whose job was claimed again.
THEOREM ResultsOfLastClaim == Spec => []ResultOfLastClaim
<1>1. IndInv => ResultOfLastClaim
  BY DEF IndInv, RowOK, ResultOfLastClaim
<1> QED
  BY <1>1, Invariance, PTL

\* No job is handed to workers more than max_attempts times.
THEOREM AttemptsBounded == Spec => []AttemptBudget
<1>1. IndInv => AttemptBudget
  BY DEF IndInv, RowOK, AttemptBudget
<1> QED
  BY <1>1, Invariance, PTL

\* The row of a terminal job is written only by a request that read it before
\* it became terminal, and such a request makes it terminal again.
LEMMA TerminalStays ==
    ASSUME ConstantsOK, IndInv, [Next]_vars, NEW j \in Job, row[j].state \in Terminal
    PROVE  row'[j].state \in Terminal
<1>1. row \in [Job -> Row]
  BY DEF IndInv, TypeOK
<1>2. CASE UNCHANGED row
  BY <1>2
<1>3. ASSUME NEW w \in Worker, NEW k \in Job, Claim(w, k)
      PROVE  row'[j].state \in Terminal
  <2>1. k # j
    BY <1>3 DEF Claim, NextToClaim, Claimable, LeaseExpired, Terminal
  <2> QED
    BY <1>1, <1>3, <2>1 DEF Claim
<1>4. ASSUME NEW w \in Worker, WriteOutcome(w)
      PROVE  row'[j].state \in Terminal
  <2>1. worker[w] \in Busy /\ worker[w].token \in 1..tokens
    BY <1>4, BusyWorker DEF WriteOutcome, IndInv, WorkerOK
  <2>2. UpdateApplies(row[worker[w].job], worker[w].token) => worker[w].job # j
    BY <2>1 DEF UpdateApplies, HeldUnder, NoToken, Terminal
  <2> QED
    BY <1>1, <1>4, <2>2 DEF WriteOutcome
<1>5. ASSUME NEW w \in Worker, Heartbeat(w)
      PROVE  row'[j].state \in Terminal
  BY <1>1, <1>5 DEF Heartbeat, HoldsLease, HeldUnder, Terminal
<1>6. ASSUME NEW c \in Client, InsertRow(c)
      PROVE  row'[j].state \in Terminal
  BY <1>1, <1>6 DEF InsertRow, Terminal
<1>7. ASSUME NEW c \in Client, ReleaseLease(c)
      PROVE  row'[j].state \in Terminal
  BY <1>1, <1>7 DEF ReleaseLease, HeldUnder, Terminal
<1>8. ASSUME NEW c \in Client, FinalizeRow(c)
      PROVE  row'[j].state \in Terminal
  <2> DEFINE r == Finalized(request[c].seen, request[c].outcome)
  <2>1. /\ request[c] \in Serving /\ request[c].outcome \in Terminal
    BY <1>8, ServingRequest DEF FinalizeRow, IndInv, RequestOK, Terminal
  <2>2. r.state \in Terminal
    BY <2>1 DEF Finalized, Unleased, Serving, Row
  <2>3. row' = row \/ row' = [row EXCEPT ![request[c].job] = r]
    BY <1>8 DEF FinalizeRow
  <2> HIDE DEF r
  <2> QED
    BY <1>1, <2>2, <2>3
<1> QED
  BY <1>2, <1>3, <1>4, <1>5, <1>6, <1>7, <1>8
     DEF Next, WorkerStep, RequestArrives, RequestStep, vars, store, Tick,
         CheckLease, Fetch, Load, KernelAnswers, KernelFails, Refetch,
         DiscardPayload, WorkerCrash, BeginCreate, BeginCancel, BeginReconcile,
         CheckJobId, StagePayload, ProbeStaging, UnlinkPayload, RequestCrash

\* A terminal job never goes back into the queue and never loses its row.
THEOREM NeverReopens == Spec => TerminalNeverReopens
<1>1. IndInv /\ [Next]_vars =>
          [\A j \in Job : row[j].state \in Terminal => row'[j].state \in Terminal]_row
  BY ConstantsOK, TerminalStays
<1> QED
  BY <1>1, Invariance, PTL DEF Spec, TerminalNeverReopens

-----------------------------------------------------------------------------
(* Payloads                                                                *)

\* The bytes can still be read, or their own time is up.
Held(h) == h \in staging \/ h.expires < clock

\* h is the payload of job j and of no other, and none that is yet to be
\* inserted is it.
Owns(j, h) ==
    /\ row[j].state # "absent"
    /\ h.id \in 1 .. handles
    /\ \A k \in Job : row[k].state \in Active => (row[k].handle = h <=> k = j)
    /\ \A c \in Client : request[c].pc = "insert" => request[c].handle # h

\* Whoever has a payload to delete has it of a terminal job.
PayloadInv ==
    /\ \A j \in Job : row[j].state \in Active =>
            Owns(j, row[j].handle) /\ Held(row[j].handle)
    /\ \A w \in Worker :
        /\ worker[w].pc # "idle" => Owns(worker[w].job, worker[w].seen.handle)
        /\ worker[w].pc = "discard" => row[worker[w].job].state \in Terminal
    /\ \A c \in Client :
        /\ request[c].pc \in {"probe", "release", "finalize", "unlink"} =>
                Owns(request[c].job, request[c].handle)
        /\ request[c].pc = "unlink" => row[request[c].job].state \in Terminal
        /\ request[c].pc = "insert" =>
            /\ request[c].handle.id \in 1 .. handles /\ Held(request[c].handle)
            /\ \A d \in Client \ {c} :
                  request[d].pc = "insert" => request[d].handle # request[c].handle

LEMMA StatesApart ==
    /\ "absent" \notin Active /\ "absent" \notin Terminal
    /\ Active \cap Terminal = {}
    /\ \A r \in Row : r.state = "absent" \/ r.state \in Active \/ r.state \in Terminal
BY DEF Active, Terminal, Row

\* Who writes rows, and how the clock and the count of payloads go on.
LEMMA Writers ==
    ASSUME [Next]_vars
    PROVE  /\ \/ row' = row
              \/ \E w \in Worker :
                    WriteOutcome(w) \/ Heartbeat(w) \/ \E j \in Job : Claim(w, j)
              \/ \E c \in Client : InsertRow(c) \/ ReleaseLease(c) \/ FinalizeRow(c)
           /\ clock' = clock \/ clock' = clock + 1
           /\ handles' = handles \/ handles' = handles + 1
BY DEF Next, WorkerStep, RequestArrives, RequestStep, vars, store, files, Tick, Claim,
   WriteOutcome, CheckLease, Fetch, Load, KernelAnswers, KernelFails, Refetch, Heartbeat,
   DiscardPayload, WorkerCrash, BeginCreate, BeginCancel, BeginReconcile, InsertRow,
   CheckJobId, StagePayload, ProbeStaging, UnlinkPayload, RequestCrash, ReleaseLease,
   FinalizeRow

\* A row that is there stays there, and with its payload as long as it is active.
LEMMA RowsKept ==
    ASSUME IndInv, PayloadInv, [Next]_vars, NEW j \in Job, row[j].state # "absent"
    PROVE  /\ row'[j].state # "absent"
           /\ row'[j].state \in Active =>
                  row[j].state \in Active /\ row'[j].handle = row[j].handle
<1> DEFINE Kept == /\ row'[j].state # "absent"
                   /\ row'[j].state \in Active =>
                        row[j].state \in Active /\ row'[j].handle = row[j].handle
<1>1. row \in [Job -> Row] /\ row[j] \in Row
  BY DEF IndInv, TypeOK
<1>2. CASE row'[j] = row[j]
  BY <1>2
<1>3. ASSUME NEW w \in Worker, NEW k \in Job, Claim(w, k)
      PROVE  Kept
  <2>1. row' = [row EXCEPT ![k] = ClaimedRow(row[k], w)]
    BY <1>3 DEF Claim
  <2>2. row[k].state \in Active
    BY <1>3 DEF Claim, NextToClaim, Claimable, LeaseExpired, Active
  <2>3. /\ ClaimedRow(row[k], w).state = "running"
        /\ ClaimedRow(row[k], w).handle = row[k].handle
    BY <1>1 DEF ClaimedRow, Row
  <2> QED
    BY <1>1, <2>1, <2>2, <2>3
<1>4. ASSUME NEW w \in Worker, WriteOutcome(w), worker[w].job = j,
             UpdateApplies(row[j], worker[w].token)
      PROVE  Kept
  <2> DEFINE me == worker[w]
  <2>1. me \in Busy /\ WorkerOK(me, row, tokens) /\ me.pc = "write" /\ me.seen \in Row
    BY <1>4, BusyWorker DEF WriteOutcome, IndInv, Busy
  <2>2. HeldUnder(row[j], me.token) /\ row[j].state \in Active
    BY <1>4, <2>1 DEF WorkerOK, UpdateApplies, NoToken, HeldUnder, Active
  <2>3. Owns(j, me.seen.handle)
    BY <1>4, <2>1 DEF PayloadInv
  <2>4. me.seen.handle = row[j].handle
    BY <2>2, <2>3 DEF Owns
  <2>5. row'[j] = Outcome(me)
    BY <1>1, <1>4 DEF WriteOutcome
  <2>6. me.outcome \in {"pending", "completed", "failed", "blocked"}
    BY <2>1 DEF WorkerOK
  <2>7. CASE me.outcome = "pending"
    <3>1. Outcome(me).state = "pending" /\ Outcome(me).handle = me.seen.handle
      BY <2>1, <2>7 DEF Outcome, Unleased, Row
    <3> QED
      BY <2>2, <2>4, <2>5, <3>1
  <2>8. CASE me.outcome # "pending"
    <3>1. Outcome(me).state = me.outcome
      BY <2>1, <2>6, <2>8 DEF Outcome, Finalized, Unleased, Row
    <3> QED
      BY <2>5, <2>6, <2>8, <3>1 DEF Active
  <2> QED
    BY <2>7, <2>8
<1>5. ASSUME NEW w \in Worker, Heartbeat(w)
      PROVE  Kept
  <2>1. row' = row \/ row' = [row EXCEPT ![worker[w].job].expires = clock + LeaseSeconds]
    BY <1>5 DEF Heartbeat
  <2>2. row'[j].state = row[j].state /\ row'[j].handle = row[j].handle
    BY <1>1, <2>1 DEF Row
  <2> QED
    BY <2>2
<1>6. ASSUME NEW c \in Client, InsertRow(c)
      PROVE  row'[j] = row[j]
  BY <1>1, <1>6 DEF InsertRow
<1>7. ASSUME NEW c \in Client, ReleaseLease(c)
      PROVE  Kept
  <2> DEFINE r == [Unleased(row[j]) EXCEPT !.state = "pending"]
  <2>1. row'[j] = row[j] \/ (row[j].state = "running" /\ row'[j] = r)
    BY <1>1, <1>7 DEF ReleaseLease, HeldUnder
  <2>2. r.state = "pending" /\ r.handle = row[j].handle
    BY <1>1 DEF Unleased, Row
  <2> HIDE DEF r
  <2> QED
    BY <2>1, <2>2 DEF Active
<1>8. ASSUME NEW c \in Client, FinalizeRow(c)
      PROVE  Kept
  <2> DEFINE r == Finalized(request[c].seen, request[c].outcome)
  <2>1. request[c] \in Serving /\ request[c].outcome \in Terminal
    BY <1>8, ServingRequest DEF FinalizeRow, IndInv, RequestOK, Terminal
  <2>2. r.state \in Terminal
    BY <2>1 DEF Finalized, Unleased, Serving, Row
  <2>3. row' = row \/ row' = [row EXCEPT ![request[c].job] = r]
    BY <1>8 DEF FinalizeRow
  <2> HIDE DEF r
  <2> QED
    BY <1>1, <2>2, <2>3, StatesApart
<1>9. ASSUME NEW w \in Worker, WriteOutcome(w)
      PROVE  Kept
  <2>1. \/ worker[w].job = j /\ UpdateApplies(row[j], worker[w].token)
        \/ row'[j] = row[j]
    BY <1>1, <1>9 DEF WriteOutcome
  <2> QED
    BY <1>2, <1>4, <1>9, <2>1
<1>10. ASSUME NEW c \in Client, InsertRow(c)
       PROVE  Kept
  BY <1>2, <1>6, <1>10
<1>11. CASE row' = row
  BY <1>2, <1>11
<1> QED
  BY <1>3, <1>5, <1>7, <1>8, <1>9, <1>10, <1>11, Writers

\* A row that was not there is inserted, with the payload staged for it.
LEMMA RowsInserted ==
    ASSUME IndInv, PayloadInv, [Next]_vars, NEW j \in Job, row[j].state = "absent",
           row'[j].state # "absent"
    PROVE  \E c \in Client :
              /\ request[c].pc = "insert" /\ request'[c].pc # "insert"
              /\ row'[j].handle = request[c].handle
              /\ \A k \in Job \ {j} : row'[k] = row[k]
<1> DEFINE Goal == \E c \in Client :
              /\ request[c].pc = "insert" /\ request'[c].pc # "insert"
              /\ row'[j].handle = request[c].handle
              /\ \A k \in Job \ {j} : row'[k] = row[k]
<1>1. row \in [Job -> Row] /\ row[j] \in Row
  BY DEF IndInv, TypeOK
<1>2. row'[j] # row[j]
  OBVIOUS
<1>3. ASSUME NEW w \in Worker, NEW k \in Job, Claim(w, k)
      PROVE  row'[j] = row[j]
  BY <1>1, <1>3 DEF Claim, NextToClaim, Claimable, LeaseExpired
<1>4. ASSUME NEW w \in Worker, WriteOutcome(w)
      PROVE  row'[j] = row[j]
  <2>1. worker[w] \in Busy /\ row[worker[w].job].state # "absent"
    BY <1>4, BusyWorker DEF WriteOutcome, IndInv, WorkerOK
  <2> QED
    BY <1>1, <1>4, <2>1 DEF WriteOutcome
<1>5. ASSUME NEW w \in Worker, Heartbeat(w)
      PROVE  row'[j] = row[j]
  BY <1>1, <1>5 DEF Heartbeat, HoldsLease, HeldUnder
<1>6. ASSUME NEW c \in Client, InsertRow(c)
      PROVE  Goal
  <2> DEFINE r == [NoRow EXCEPT !.state = "pending", !.rowid = rows + 1,
                                !.handle = request[c].handle]
  <2>1. row' = [row EXCEPT ![request[c].job] = r] \/ row' = row
    BY <1>6 DEF InsertRow
  <2>2. r.handle = request[c].handle
    BY DEF NoRow
  <2>3. request[c].pc = "insert" /\ request'[c].pc # "insert"
    BY <1>6, IdleOK DEF InsertRow, Reply, IndInv, TypeOK
  <2> HIDE DEF r
  <2> QED
    BY <1>1, <1>2, <2>1, <2>2, <2>3
<1>7. ASSUME NEW c \in Client, ReleaseLease(c)
      PROVE  row'[j] = row[j]
  BY <1>1, <1>7 DEF ReleaseLease, HeldUnder
<1>8. ASSUME NEW c \in Client, FinalizeRow(c)
      PROVE  row'[j] = row[j]
  <2>1. row[request[c].job].state # "absent"
    BY <1>8 DEF FinalizeRow, PayloadInv, Owns
  <2> QED
    BY <1>1, <1>8, <2>1 DEF FinalizeRow
<1> HIDE DEF Goal
<1>9. Goal
  BY <1>2, <1>3, <1>4, <1>5, <1>6, <1>7, <1>8, Writers
<1> QED
  BY <1>9 DEF Goal

\* Only what is expired, or belongs to a job that is over, is deleted.
LEMMA Deleted ==
    ASSUME IndInv, [Next]_vars, NEW h \in Handle, Held(h),
           \A w \in Worker : worker[w].pc = "discard" => worker[w].seen.handle # h,
           \A c \in Client : request[c].pc = "unlink" => request[c].handle # h
    PROVE  Held(h)' /\ handles <= handles'
<1>1. clock' = clock \/ clock' = clock + 1
  BY Writers
<1>2. handles' = handles \/ handles' = handles + 1
  BY Writers
<1>3. h \in staging => h \in staging' \/ h.expires < clock
  BY DEF Next, WorkerStep, RequestArrives, RequestStep, vars, files, Tick, Claim, WriteOutcome,
         CheckLease, Fetch, Load, KernelAnswers, KernelFails, Refetch, Heartbeat,
         DiscardPayload, WorkerCrash, BeginCreate, BeginCancel, BeginReconcile, InsertRow,
         CheckJobId, StagePayload, ProbeStaging, UnlinkPayload, RequestCrash, ReleaseLease,
         FinalizeRow, Probe, Discard
<1>4. h.expires \in Nat /\ clock \in Nat /\ handles \in Nat
  BY DEF Handle, IndInv, TypeOK, ConstantsOK
<1>5. h.expires < clock => h.expires < clock'
  BY <1>1, <1>4
<1> QED
  BY <1>2, <1>3, <1>4, <1>5 DEF Held

\* A payload that waits to be inserted did so before, or is new.
LEMMA InsertsKept ==
    ASSUME IndInv, [Next]_vars, NEW c \in Client, request'[c].pc = "insert"
    PROVE  \/ request[c].pc = "insert" /\ request'[c].handle = request[c].handle
           \/ /\ request[c].pc = "stage" /\ handles' = handles + 1
              /\ request'[c].handle.id = handles + 1 /\ request'[c].handle \in staging'
              /\ \A d \in Client \ {c} : request'[d] = request[d]
<1> DEFINE Kept == \/ (request[c].pc = "insert" /\ request'[c].handle = request[c].handle)
                   \/ /\ request[c].pc = "stage" /\ handles' = handles + 1
                      /\ request'[c].handle.id = handles + 1 /\ request'[c].handle \in staging'
                      /\ \A d \in Client \ {c} : request'[d] = request[d]
<1>1. DOMAIN request = Client
  BY DEF IndInv, TypeOK
<1>2. CASE request'[c] = request[c]
  BY <1>2
<1>3. ASSUME NEW d \in Client, NEW v, request' = [request EXCEPT ![d] = v],
             v.pc # "insert"
      PROVE  Kept
  BY <1>1, <1>2, <1>3
<1>4. ASSUME NEW d \in Client, StagePayload(d)
      PROVE  Kept
  <2> DEFINE h == [id |-> handles + 1, expires |-> clock + StagingTTL]
             v == [request[d] EXCEPT !.pc = "insert", !.handle = h]
  <2>1. CASE /\ handles' = handles + 1 /\ staging' = staging \cup {h}
             /\ request' = [request EXCEPT ![d] = v]
    <3>1. request[d] \in Serving /\ request[d].pc = "stage"
      BY <1>4, ServingRequest DEF StagePayload, IndInv
    <3>2. v.handle = h
      BY <3>1 DEF Serving
    <3>3. h.id = handles + 1
      OBVIOUS
    <3> HIDE DEF h, v
    <3> QED
      BY <1>1, <1>2, <2>1, <3>1, <3>2, <3>3
  <2>2. CASE Reply(d)
    BY <1>3, <2>2, IdleOK DEF Reply, Idle
  <2> QED
    BY <1>4, <2>1, <2>2 DEF StagePayload
<1>5. ASSUME NEW d \in Client, NEW j \in Job,
             BeginCreate(d, j) \/ BeginCancel(d, j) \/ BeginReconcile(d, j)
      PROVE  \E v : v.pc # "insert" /\ request' = [request EXCEPT ![d] = v]
  <2>1. /\ NewRequest("exists", j, NoRow).pc # "insert"
        /\ [NewRequest("finalize", j, row[j]) EXCEPT !.outcome = "cancelled"].pc # "insert"
        /\ [NewRequest("probe", j, row[j]) EXCEPT !.now = clock].pc # "insert"
    BY DEF NewRequest
  <2> QED
    BY <1>5, <2>1 DEF BeginCreate, BeginCancel, BeginReconcile
<1>6. ASSUME NEW d \in Client,
             \/ CheckJobId(d) \/ InsertRow(d) \/ ProbeStaging(d) \/ ReleaseLease(d)
             \/ FinalizeRow(d) \/ UnlinkPayload(d) \/ RequestCrash(d)
      PROVE  \E v : v.pc # "insert" /\ request' = [request EXCEPT ![d] = v]
  <2>1. request[d] \in Serving /\ Idle.pc # "insert"
    BY <1>6, ServingRequest DEF CheckJobId, InsertRow, ProbeStaging, ReleaseLease,
       FinalizeRow, UnlinkPayload, RequestCrash, IndInv, Idle
  <2>2. [request[d] EXCEPT !.pc = "stage"].pc # "insert"
    BY <2>1 DEF Serving
  <2>3. /\ [request[d] EXCEPT !.pc = "finalize", !.now = 0, !.outcome = Verdict(request[d]),
                              !.fence = ReconcileFence(request[d].seen)].pc # "insert"
        /\ [request[d] EXCEPT !.pc = "release", !.now = clock].pc # "insert"
    BY <2>1 DEF Serving
  <2>4. [NewRequest("unlink", request[d].job, NoRow) EXCEPT
            !.handle = request[d].handle].pc # "insert"
    BY DEF NewRequest
  <2>5. CASE CheckJobId(d)
    BY <2>1, <2>2, <2>5 DEF CheckJobId, Proceed, Reply
  <2>6. CASE ProbeStaging(d)
    <3> DEFINE f == [request[d] EXCEPT !.pc = "finalize", !.now = 0,
                        !.outcome = Verdict(request[d]),
                        !.fence = ReconcileFence(request[d].seen)]
               l == [request[d] EXCEPT !.pc = "release", !.now = clock]
    <3>1. \/ request' = [request EXCEPT ![d] = f]
          \/ request' = [request EXCEPT ![d] = l]
          \/ request' = [request EXCEPT ![d] = Idle]
      BY <2>6 DEF ProbeStaging, Reply
    <3>2. f.pc # "insert" /\ l.pc # "insert"
      BY <2>3
    <3> HIDE DEF f, l
    <3> QED
      BY <2>1, <3>1, <3>2
  <2>7. CASE FinalizeRow(d)
    BY <2>1, <2>4, <2>7 DEF FinalizeRow, Reply
  <2>8. CASE InsertRow(d) \/ ReleaseLease(d) \/ UnlinkPayload(d) \/ RequestCrash(d)
    BY <2>1, <2>8 DEF InsertRow, ReleaseLease, UnlinkPayload, RequestCrash, Reply
  <2> QED
    BY <1>6, <2>5, <2>6, <2>7, <2>8
<1>7. CASE UNCHANGED request
  BY <1>2, <1>7
<1> QED
  BY <1>2, <1>3, <1>4, <1>5, <1>6, <1>7
     DEF Next, WorkerStep, RequestArrives, RequestStep, vars, Tick, Claim, WriteOutcome,
         CheckLease, Fetch, Load, KernelAnswers, KernelFails, Refetch, Heartbeat,
         DiscardPayload, WorkerCrash
\* A payload stays with its job.
LEMMA OwnsStays ==
    ASSUME IndInv, PayloadInv, [Next]_vars, NEW j \in Job, NEW h \in Handle, Owns(j, h)
    PROVE  Owns(j, h)'
<1>1. row[j].state # "absent" /\ row'[j].state # "absent"
  BY RowsKept DEF Owns
<1>2. h.id \in 1 .. handles /\ handles \in Nat
  BY DEF Owns, IndInv, TypeOK
<1>3. handles' = handles \/ handles' = handles + 1
  BY Writers
<1>4. h.id \in 1 .. handles'
  BY <1>2, <1>3
<1>5. ASSUME NEW k \in Job, row'[k].state \in Active
      PROVE  row'[k].handle = h <=> k = j
  <2>1. CASE row[k].state # "absent"
    <3>1. row[k].state \in Active /\ row'[k].handle = row[k].handle
      BY <1>5, <2>1, RowsKept
    <3> QED
      BY <3>1 DEF Owns
  <2>2. CASE row[k].state = "absent"
    <3>1. k # j
      BY <1>1, <2>2
    <3>2. row'[k].state # "absent"
      BY <1>5, StatesApart
    <3>3. PICK c \in Client : request[c].pc = "insert" /\ row'[k].handle = request[c].handle
      BY <2>2, <3>2, RowsInserted
    <3> QED
      BY <3>1, <3>3 DEF Owns
  <2> QED
    BY <2>1, <2>2
<1>6. ASSUME NEW c \in Client, request'[c].pc = "insert"
      PROVE  request'[c].handle # h
  BY <1>2, <1>6, InsertsKept DEF Owns
<1> QED
  BY <1>1, <1>4, <1>5, <1>6 DEF Owns

\* What a worker knows of its payload is what it knew, or what the row says.
KnewPayload(w) ==
    LET me == worker[w]
        you == worker'[w]
    IN  /\ \/ me.pc # "idle" /\ you.job = me.job /\ you.seen.handle = me.seen.handle
           \/ row[you.job].state \in Active /\ you.seen.handle = row[you.job].handle
        /\ you.pc = "discard" =>
              \/ me.pc = "discard" /\ you.job = me.job
              \/ row'[you.job].state \in Terminal

LEMMA WorkersKept ==
    ASSUME IndInv, [Next]_vars, NEW w \in Worker, worker'[w].pc # "idle"
    PROVE  KnewPayload(w)
<1> DEFINE me == worker[w]
<1>1. /\ DOMAIN worker = Worker
      /\ me.pc # "idle" => me \in Busy /\ me.job \in Job /\ WorkerOK(me, row, tokens)
      /\ \A k \in Job : row[k] \in Row
  BY BusyWorker DEF IndInv, TypeOK, Busy
<1>2. CASE worker'[w] = worker[w]
  BY <1>2 DEF KnewPayload
<1>3. ASSUME NEW j \in Job, Claim(w, j)
      PROVE  KnewPayload(w)
  <2>1. /\ worker'[w].job = j /\ worker'[w].seen.handle = ClaimedRow(row[j], w).handle
        /\ worker'[w].pc = "enter"
    BY <1>1, <1>3 DEF Claim
  <2>2. row[j].state \in Active
    BY <1>3 DEF Claim, NextToClaim, Claimable, LeaseExpired, Active
  <2>3. ClaimedRow(row[j], w).handle = row[j].handle
    BY <1>1 DEF ClaimedRow, Row
  <2> QED
    BY <2>1, <2>2, <2>3 DEF KnewPayload
<1>4. CASE CheckLease(w)
  <2>1. me.pc # "idle" /\ AfterCheck(me.pc) # "discard"
    BY <1>4 DEF CheckLease, AfterCheck
  <2>2. /\ worker'[w].job = me.job /\ worker'[w].seen = me.seen
        /\ worker'[w].pc # "discard"
    BY <1>1, <1>4, <2>1, IdleOK DEF CheckLease, Leave, Busy
  <2> QED
    BY <2>1, <2>2 DEF KnewPayload
<1>5. CASE Fetch(w)
  <2>1. me.pc # "idle" /\ row[me.job].state \notin Terminal
    BY <1>1, <1>5, IdleOK DEF Fetch, Leave
  <2>2. /\ worker'[w].job = me.job /\ worker'[w].seen = row[me.job]
        /\ worker'[w].pc # "discard"
    BY <1>1, <1>5, <2>1 DEF Fetch, Busy
  <2>3. row[me.job].state \in Active
    BY <1>1, <2>1, StatesApart DEF WorkerOK
  <2> QED
    BY <2>1, <2>2, <2>3 DEF KnewPayload
<1>6. CASE Load(w) \/ KernelAnswers(w) \/ KernelFails(w)
  <2>1. me.pc # "idle"
    BY <1>6 DEF Load, KernelAnswers, KernelFails
  <2>2. /\ worker'[w].job = me.job /\ worker'[w].seen = me.seen
        /\ worker'[w].pc # "discard"
    BY <1>1, <1>6, <2>1 DEF Load, KernelAnswers, KernelFails, Goto, Busy
  <2> QED
    BY <2>1, <2>2 DEF KnewPayload
<1>7. CASE Refetch(w)
  <2>1. me.pc # "idle" /\ UNCHANGED row
    BY <1>7 DEF Refetch, store
  <2>2. CASE row[me.job].state \in Terminal
    <3>1. worker'[w].job = me.job /\ worker'[w].seen = me.seen
      BY <1>1, <1>7, <2>1, <2>2 DEF Refetch, Busy
    <3> QED
      BY <2>1, <2>2, <3>1 DEF KnewPayload
  <2>3. CASE row[me.job].state \notin Terminal
    <3>1. /\ worker'[w].job = me.job /\ worker'[w].seen = row[me.job]
          /\ worker'[w].pc # "discard"
      BY <1>1, <1>7, <2>1, <2>3 DEF Refetch, Busy
    <3>2. row[me.job].state \in Active
      BY <1>1, <2>1, <2>3, StatesApart DEF WorkerOK
    <3> QED
      BY <2>1, <3>1, <3>2 DEF KnewPayload
  <2> QED
    BY <2>2, <2>3
<1>8. CASE WriteOutcome(w)
  <2>1. /\ me.pc = "write" /\ me \in Busy /\ me.job \in Job /\ me.seen \in Row
        /\ me.outcome \in {"pending", "completed", "failed", "blocked"}
    BY <1>1, <1>8 DEF WriteOutcome, WorkerOK, Busy
  <2>2. /\ UpdateApplies(row[me.job], me.token) /\ me.outcome # "pending"
        /\ worker'[w] = [me EXCEPT !.pc = "discard", !.outcome = "none"]
    BY <1>1, <1>8, IdleOK DEF WriteOutcome, WriterNext
  <2>3. worker'[w].job = me.job /\ worker'[w].seen = me.seen
    BY <2>1, <2>2 DEF Busy
  <2>4. row'[me.job] = Outcome(me)
    BY <1>8, <2>1, <2>2 DEF WriteOutcome, IndInv, TypeOK
  <2>5. Outcome(me).state \in Terminal
    BY <2>1, <2>2 DEF Outcome, Finalized, Unleased, Row, Terminal
  <2> QED
    BY <2>1, <2>3, <2>4, <2>5 DEF KnewPayload
<1>9. CASE Heartbeat(w)
  <2>1. me.pc # "idle"
    BY <1>9 DEF Heartbeat
  <2>2. worker'[w] = worker[w] \/ worker'[w] = [me EXCEPT !.lost = TRUE]
    BY <1>1, <1>9 DEF Heartbeat
  <2>3. worker'[w].job = me.job /\ worker'[w].seen = me.seen /\ worker'[w].pc = me.pc
    BY <1>1, <2>1, <2>2 DEF Busy
  <2> QED
    BY <2>1, <2>3 DEF KnewPayload
<1>10. ASSUME NEW u \in Worker \ {w},
              WorkerStep(u) \/ Heartbeat(u) \/ WorkerCrash(u)
       PROVE  worker'[w] = worker[w]
  BY <1>1, <1>10 DEF WorkerStep, Claim, CheckLease, Leave, Fetch, Load, KernelAnswers, Goto,
     KernelFails, Refetch, WriteOutcome, DiscardPayload, Heartbeat, WorkerCrash
<1>11. CASE DiscardPayload(w) \/ WorkerCrash(w)
  BY <1>1, <1>11, IdleOK DEF DiscardPayload, WorkerCrash, Leave
<1>12. CASE UNCHANGED worker
  BY <1>2, <1>12
<1>13. CASE WorkerStep(w) \/ Heartbeat(w) \/ WorkerCrash(w)
  BY <1>3, <1>4, <1>5, <1>6, <1>7, <1>8, <1>9, <1>11, <1>13 DEF WorkerStep
<1>14. \/ UNCHANGED worker
       \/ \E u \in Worker : WorkerStep(u) \/ Heartbeat(u) \/ WorkerCrash(u)
  BY DEF Next, RequestArrives, RequestStep, vars, Tick, BeginCreate, BeginCancel,
     BeginReconcile, InsertRow, CheckJobId, StagePayload, ProbeStaging, UnlinkPayload,
     RequestCrash, ReleaseLease, FinalizeRow
<1> QED
  BY <1>2, <1>10, <1>12, <1>13, <1>14

\* So does a request, of the payload it may delete.
KnewRequestPayload(c) ==
    LET me == request[c]
        you == request'[c]
    IN  /\ \/ /\ me.pc \in {"probe", "release", "finalize", "unlink"}
              /\ you.job = me.job /\ you.handle = me.handle
           \/ row[you.job].state \in Active /\ you.handle = row[you.job].handle
        /\ you.pc = "unlink" =>
              \/ me.pc = "unlink" /\ you.job = me.job
              \/ row'[you.job].state \in Terminal

LEMMA RequestsKept ==
    ASSUME IndInv, [Next]_vars, NEW c \in Client,
           request'[c].pc \in {"probe", "release", "finalize", "unlink"}
    PROVE  KnewRequestPayload(c)
<1> DEFINE me == request[c]
<1>1. /\ DOMAIN request = Client
      /\ me.pc # "idle" => me \in Serving /\ me.job \in Job /\ me.seen \in Row /\ RequestOK(me)
      /\ Idle.pc = "idle"
  BY ServingRequest, IdleOK DEF IndInv, TypeOK, Serving
<1>2. CASE request'[c] = request[c]
  BY <1>2 DEF KnewRequestPayload
<1>3. ASSUME NEW j \in Job, BeginCreate(c, j)
      PROVE  FALSE
  BY <1>1, <1>3 DEF BeginCreate, NewRequest
<1>4. ASSUME NEW j \in Job, BeginCancel(c, j) \/ BeginReconcile(c, j)
      PROVE  KnewRequestPayload(c)
  <2>1. /\ request'[c].job = j /\ request'[c].handle = row[j].handle
        /\ request'[c].pc # "unlink" /\ row[j].state \in Active
    BY <1>1, <1>4 DEF BeginCancel, BeginReconcile, NewRequest
  <2> QED
    BY <2>1 DEF KnewRequestPayload
<1>5. CASE CheckJobId(c) \/ StagePayload(c)
  <2>1. me \in Serving
    BY <1>1, <1>5 DEF CheckJobId, StagePayload
  <2>2. request'[c].pc \in {"stage", "insert", "idle"}
    BY <1>1, <1>5, <2>1 DEF CheckJobId, StagePayload, Proceed, Reply, Serving
  <2> QED
    BY <2>2
<1>6. CASE ProbeStaging(c)
  <2> DEFINE f == [me EXCEPT !.pc = "finalize", !.now = 0, !.outcome = Verdict(me),
                             !.fence = ReconcileFence(me.seen)]
             l == [me EXCEPT !.pc = "release", !.now = clock]
  <2>1. me.pc = "probe" /\ me \in Serving
    BY <1>1, <1>6 DEF ProbeStaging
  <2>2. request'[c] = f \/ request'[c] = l \/ request'[c] = Idle
    BY <1>1, <1>6 DEF ProbeStaging, Reply
  <2>3. /\ f.job = me.job /\ f.handle = me.handle /\ f.pc = "finalize"
        /\ l.job = me.job /\ l.handle = me.handle /\ l.pc = "release"
    BY <2>1 DEF Serving
  <2> HIDE DEF f, l
  <2> QED
    BY <1>1, <2>1, <2>2, <2>3 DEF KnewRequestPayload
<1>7. CASE FinalizeRow(c)
  <2> DEFINE r == Finalized(me.seen, me.outcome)
  <2>1. /\ me.pc = "finalize" /\ me \in Serving /\ me.job \in Job /\ me.seen \in Row
        /\ me.outcome \in Terminal
    BY <1>1, <1>7 DEF FinalizeRow, RequestOK, Terminal
  <2>2. /\ request'[c] = [NewRequest("unlink", me.job, NoRow) EXCEPT !.handle = me.handle]
        /\ row' = [row EXCEPT ![me.job] = r]
    BY <1>1, <1>7 DEF FinalizeRow, Reply
  <2>3. request'[c].job = me.job /\ request'[c].handle = me.handle
    BY <2>2 DEF NewRequest
  <2>4. r.state \in Terminal
    BY <2>1 DEF Finalized, Unleased, Row
  <2>5. row'[me.job] = r
    BY <2>1, <2>2 DEF IndInv, TypeOK
  <2> QED
    BY <2>1, <2>3, <2>4, <2>5 DEF KnewRequestPayload
<1>8. CASE InsertRow(c) \/ ReleaseLease(c) \/ UnlinkPayload(c) \/ RequestCrash(c)
  BY <1>1, <1>8 DEF InsertRow, ReleaseLease, UnlinkPayload, RequestCrash, Reply
<1>9. ASSUME NEW d \in Client \ {c},
             RequestArrives(d) \/ RequestStep(d) \/ RequestCrash(d)
      PROVE  request'[c] = request[c]
  BY <1>1, <1>9 DEF RequestArrives, RequestStep, BeginCreate, BeginCancel, BeginReconcile,
     InsertRow, CheckJobId, StagePayload, ProbeStaging, UnlinkPayload, RequestCrash,
     ReleaseLease, FinalizeRow, Proceed, Reply
<1>10. CASE RequestArrives(c) \/ RequestStep(c) \/ RequestCrash(c)
  BY <1>3, <1>4, <1>5, <1>6, <1>7, <1>8, <1>10 DEF RequestArrives, RequestStep
<1>11. \/ UNCHANGED request
       \/ \E d \in Client : RequestArrives(d) \/ RequestStep(d) \/ RequestCrash(d)
  BY DEF Next, WorkerStep, vars, Tick, Claim, CheckLease, Fetch, Load, KernelAnswers,
     KernelFails, Refetch, WriteOutcome, DiscardPayload, Heartbeat, WorkerCrash
<1> QED
  BY <1>2, <1>9, <1>10, <1>11

\* What a job owns, or waits to be inserted, nobody deletes before its time.
LEMMA HeldStays ==
    ASSUME IndInv, PayloadInv, [Next]_vars, NEW h \in Handle, Held(h),
           \/ \E j \in Job : row[j].state \in Active /\ row[j].handle = h
           \/ \E c \in Client : request[c].pc = "insert" /\ request[c].handle = h
    PROVE  Held(h)'
<1>1. ASSUME NEW k \in Job, Owns(k, h), row[k].state \in Terminal
      PROVE  FALSE
  <2>1. CASE \E c \in Client : request[c].pc = "insert" /\ request[c].handle = h
    BY <1>1, <2>1 DEF Owns
  <2>2. ASSUME NEW j \in Job, row[j].state \in Active, row[j].handle = h
        PROVE  FALSE
    BY <1>1, <2>2, StatesApart DEF Owns
  <2> QED
    BY <2>1, <2>2
<1>2. \A w \in Worker : worker[w].pc = "discard" => worker[w].seen.handle # h
  <2>1. ASSUME NEW w \in Worker, worker[w].pc = "discard", worker[w].seen.handle = h
        PROVE  FALSE
    <3>1. /\ worker[w].job \in Job /\ Owns(worker[w].job, h)
          /\ row[worker[w].job].state \in Terminal
      BY <2>1, BusyWorker DEF PayloadInv, IndInv, Busy
    <3> QED
      BY <1>1, <3>1
  <2> QED
    BY <2>1
<1>3. \A c \in Client : request[c].pc = "unlink" => request[c].handle # h
  <2>1. ASSUME NEW c \in Client, request[c].pc = "unlink", request[c].handle = h
        PROVE  FALSE
    <3>1. /\ request[c].job \in Job /\ Owns(request[c].job, h)
          /\ row[request[c].job].state \in Terminal
      BY <2>1, ServingRequest DEF PayloadInv, IndInv, Serving
    <3> QED
      BY <1>1, <3>1
  <2> QED
    BY <2>1
<1> QED
  BY <1>2, <1>3, Deleted

\* Every active row keeps its payload, the inserted one the payload staged for it.
LEMMA RowsOwn ==
    ASSUME IndInv, PayloadInv, [Next]_vars, NEW j \in Job, row'[j].state \in Active
    PROVE  Owns(j, row[j].handle)' /\ Held(row[j].handle)'
<1>1. PICK h : h = row'[j].handle
  OBVIOUS
<1>2. CASE row[j].state # "absent"
  <2>1. row[j].state \in Active /\ h = row[j].handle
    BY <1>1, <1>2, RowsKept
  <2>2. h \in Handle /\ Owns(j, h) /\ Held(h)
    BY <2>1 DEF PayloadInv, IndInv, TypeOK, Row
  <2>3. Owns(j, h)' /\ Held(h)'
    BY <2>1, <2>2, OwnsStays, HeldStays
  <2> QED
    BY <1>1, <2>3 DEF Owns, Held
<1>3. CASE row[j].state = "absent"
  <2>1. row'[j].state # "absent"
    BY StatesApart
  <2>2. PICK c \in Client : /\ request[c].pc = "insert" /\ request'[c].pc # "insert"
                            /\ h = request[c].handle
                            /\ \A k \in Job \ {j} : row'[k] = row[k]
    BY <1>1, <1>3, <2>1, RowsInserted
  <2>3. /\ h \in Handle /\ h.id \in 1 .. handles /\ Held(h)
        /\ \A d \in Client \ {c} : request[d].pc = "insert" => request[d].handle # h
    BY <2>2, ServingRequest DEF PayloadInv, IndInv, Serving
  <2>4. Held(h)'
    BY <2>2, <2>3, HeldStays
  <2>5. handles \in Nat /\ (handles' = handles \/ handles' = handles + 1)
    BY Writers DEF IndInv, TypeOK
  <2>6. ASSUME NEW k \in Job, row'[k].state \in Active
        PROVE  row'[k].handle = h <=> k = j
    <3>1. CASE k = j
      BY <1>1, <3>1
    <3>2. CASE k # j
      <4>1. row'[k] = row[k]
        BY <2>2, <3>2
      <4>2. Owns(k, row[k].handle)
        BY <2>6, <4>1 DEF PayloadInv
      <4>3. row[k].handle # h
        BY <2>2, <4>2 DEF Owns
      <4> QED
        BY <3>2, <4>1, <4>3
    <3> QED
      BY <3>1, <3>2
  <2>7. ASSUME NEW d \in Client, request'[d].pc = "insert"
        PROVE  request'[d].handle # h
    <3>1. d # c
      BY <2>2, <2>7
    <3>2. CASE request[d].pc = "insert" /\ request'[d].handle = request[d].handle
      BY <2>3, <3>1, <3>2
    <3>3. CASE request'[d].handle.id = handles + 1
      BY <2>3, <2>5, <3>3
    <3> QED
      BY <2>7, <3>2, <3>3, InsertsKept
  <2>8. h.id \in 1 .. handles'
    BY <2>3, <2>5
  <2>9. Owns(j, h)'
    BY <2>1, <2>6, <2>7, <2>8 DEF Owns
  <2> QED
    BY <1>1, <2>4, <2>9 DEF Owns, Held
<1> QED
  BY <1>2, <1>3

\* A terminal job stays terminal, and so does what was to be deleted of it.
LEMMA PayloadInvStays ==
    ASSUME IndInv, PayloadInv, [Next]_vars PROVE PayloadInv'
<1>1. \A j \in Job : row[j].state \in Terminal => row'[j].state \in Terminal
  BY TerminalStays, ConstantsOK
<1>2. ASSUME NEW j \in Job, row[j].state \in Active
      PROVE  row[j].handle \in Handle /\ Owns(j, row[j].handle)
  BY <1>2 DEF PayloadInv, IndInv, TypeOK, Row
<1>3. ASSUME NEW w \in Worker, worker'[w].pc # "idle"
      PROVE  /\ Owns(worker[w].job, worker[w].seen.handle)'
             /\ worker'[w].pc = "discard" => row'[worker'[w].job].state \in Terminal
  <2>1. PICK j, h : j = worker'[w].job /\ h = worker'[w].seen.handle
    OBVIOUS
  <2>2. KnewPayload(w)
    BY <1>3, WorkersKept
  <2>3. j \in Job
    <3>1. IndInv'
      BY ConstantsOK, NextOK
    <3> QED
      BY <1>3, <2>1, <3>1 DEF IndInv, TypeOK, Busy, Idle
  <2>4. ASSUME worker[w].pc # "idle", j = worker[w].job, h = worker[w].seen.handle
        PROVE  Owns(j, h)'
    <3>1. h \in Handle /\ Owns(j, h)
      BY <2>4, BusyWorker DEF PayloadInv, IndInv, Busy, Row
    <3> QED
      BY <2>3, <3>1, OwnsStays
  <2>5. ASSUME row[j].state \in Active, h = row[j].handle
        PROVE  Owns(j, h)'
    BY <1>2, <2>3, <2>5, OwnsStays
  <2>6. Owns(j, h)'
    BY <2>1, <2>2, <2>4, <2>5 DEF KnewPayload
  <2>7. worker'[w].pc = "discard" => row'[j].state \in Terminal
    BY <1>1, <2>1, <2>2, <2>3 DEF KnewPayload, PayloadInv
  <2> QED
    BY <2>1, <2>6, <2>7 DEF Owns
<1>4. ASSUME NEW c \in Client,
             request'[c].pc \in {"probe", "release", "finalize", "unlink"}
      PROVE  /\ Owns(request[c].job, request[c].handle)'
             /\ request'[c].pc = "unlink" => row'[request'[c].job].state \in Terminal
  <2>1. PICK j, h : j = request'[c].job /\ h = request'[c].handle
    OBVIOUS
  <2>2. KnewRequestPayload(c)
    BY <1>4, RequestsKept
  <2>3. j \in Job
    <3>1. IndInv'
      BY ConstantsOK, NextOK
    <3> QED
      BY <1>4, <2>1, <3>1 DEF IndInv, TypeOK, Serving, Idle
  <2>4. ASSUME request[c].pc \in {"probe", "release", "finalize", "unlink"},
               j = request[c].job, h = request[c].handle
        PROVE  Owns(j, h)'
    <3>1. h \in Handle /\ Owns(j, h)
      BY <2>4, ServingRequest DEF PayloadInv, IndInv, Serving
    <3> QED
      BY <2>3, <3>1, OwnsStays
  <2>5. ASSUME row[j].state \in Active, h = row[j].handle
        PROVE  Owns(j, h)'
    BY <1>2, <2>3, <2>5, OwnsStays
  <2>6. Owns(j, h)'
    BY <2>1, <2>2, <2>4, <2>5 DEF KnewRequestPayload
  <2>7. request'[c].pc = "unlink" => row'[j].state \in Terminal
    BY <1>1, <2>1, <2>2, <2>3 DEF KnewRequestPayload, PayloadInv
  <2> QED
    BY <2>1, <2>6, <2>7 DEF Owns
<1>5. ASSUME NEW c \in Client, request'[c].pc = "insert"
      PROVE  /\ request'[c].handle.id \in 1 .. handles' /\ Held(request[c].handle)'
             /\ \A d \in Client \ {c} :
                   request'[d].pc = "insert" => request'[d].handle # request'[c].handle
  <2>1. PICK h : h = request'[c].handle
    OBVIOUS
  <2>2. handles \in Nat /\ (handles' = handles \/ handles' = handles + 1)
    BY Writers DEF IndInv, TypeOK
  <2>3. CASE request[c].pc = "insert" /\ h = request[c].handle
    <3>1. h \in Handle /\ h.id \in 1 .. handles /\ Held(h)
      BY <2>3, ServingRequest DEF PayloadInv, IndInv, Serving
    <3>2. Held(h)'
      BY <2>3, <3>1, HeldStays
    <3>3. ASSUME NEW d \in Client \ {c}, request'[d].pc = "insert"
          PROVE  request'[d].handle # h
      <4>1. CASE request[d].pc = "insert" /\ request'[d].handle = request[d].handle
        BY <2>3, <4>1 DEF PayloadInv
      <4>2. CASE request'[d].handle.id = handles + 1
        BY <2>2, <3>1, <4>2
      <4> QED
        BY <3>3, <4>1, <4>2, InsertsKept
    <3> QED
      BY <2>1, <2>2, <3>1, <3>2, <3>3 DEF Held
  <2>4. CASE /\ handles' = handles + 1 /\ h.id = handles + 1 /\ h \in staging'
             /\ \A d \in Client \ {c} : request'[d] = request[d]
    <3>1. ASSUME NEW d \in Client \ {c}, request'[d].pc = "insert"
          PROVE  request'[d].handle # h
      <4>1. request[d].pc = "insert" /\ request'[d].handle = request[d].handle
        BY <2>4, <3>1
      <4>2. request[d].handle.id \in 1 .. handles
        BY <4>1 DEF PayloadInv
      <4> QED
        BY <2>2, <2>4, <4>1, <4>2
    <3> QED
      BY <2>1, <2>2, <2>4, <3>1 DEF Held
  <2> QED
    BY <1>5, <2>1, <2>3, <2>4, InsertsKept
<1> QED
  BY <1>3, <1>4, <1>5, RowsOwn DEF PayloadInv

\* A job that can still be claimed has its payload as long as the payload lives:
\* no worker that lost its lease, and no request that lost a race, deletes the
\* bytes that another attempt reads.
THEOREM PayloadsHeld == Spec => []PayloadHeld
<1>1. Init => PayloadInv
  BY DEF Init, PayloadInv, NoRow, Idle, Active
<1>2. IndInv /\ PayloadInv /\ [Next]_vars => PayloadInv'
  BY PayloadInvStays
<1>3. PayloadInv => PayloadHeld
  BY DEF PayloadInv, PayloadHeld, Held
<1> QED
  BY <1>1, <1>2, <1>3, Invariance, PTL DEF Spec
=============================================================================
