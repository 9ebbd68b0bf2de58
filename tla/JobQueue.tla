------------------------------ MODULE JobQueue ------------------------------
(***************************************************************************)
(* The private job queue of the engine: the SQLite job rows (JobStore),    *)
(* the staging directory that holds payload bytes until they are used      *)
(* (StagingStore), the HTTP handlers that create, cancel and reconcile     *)
(* jobs (JobService, one thread per request), and the worker processes     *)
(* that claim a job under a lease and run it on the kernel (JobWorker).    *)
(*                                                                         *)
(* Every JobStore method is one SQLite statement or one short transaction, *)
(* so it is one atomic step here.  Everything between two store calls (a   *)
(* request handler that read a row and has not written it yet, a worker    *)
(* whose kernel call is running) is a program counter of that handler or   *)
(* worker, and any other actor may step in between.                        *)
(***************************************************************************)
EXTENDS Naturals

CONSTANTS
    Job,            \* job ids
    Worker,         \* worker processes
    Client,         \* request threads of the HTTP server
    NoWorker,       \* the NULL of the lease_owner column
    IdemKey,        \* the idempotency key each job is created under
    Unsupported,    \* the jobs whose operation no worker executes
    MaxAttempts,    \* JobWorker.max_attempts
    LeaseSeconds,   \* JobWorker.lease_seconds
    StagingTTL,     \* StagingStore.ttl_seconds
    Deadline,       \* deadline_at of each job
    MaxClock,       \* bound: the last instant of the clock
    MaxHandles      \* bound: the number of payloads ever staged

ASSUME ConstantsOK ==
    /\ NoWorker \notin Worker
    /\ Unsupported \subseteq Job
    /\ MaxAttempts \in Nat \ {0}
    /\ LeaseSeconds \in Nat
    /\ StagingTTL \in Nat
    /\ Deadline \in [Job -> Nat]
    /\ MaxClock \in Nat
    /\ MaxHandles \in Nat

VARIABLES
    clock,          \* time.time()
    row,            \* the jobs table: one record per job id
    rows,           \* the number of rows inserted so far (the next rowid)
    tokens,         \* the number of lease tokens drawn so far
    staging,        \* the payload files present in the staging directory
    handles,        \* the number of staging handles drawn so far
    worker,         \* each worker process: where it is, and what it has read
    request,        \* each request thread: where it is, and what it has read
    claims          \* history: how many times each job has been claimed

store == <<row, rows, claims>>
files == <<staging, handles>>
vars  == <<clock, row, rows, tokens, staging, handles, worker, request, claims>>

-----------------------------------------------------------------------------
(* Job records                                                             *)

Terminal == {"completed", "failed", "blocked", "cancelled", "timed_out"}
Active   == {"pending", "running"}

NoToken  == 0
NoHandle == [id |-> 0, expires |-> 0]
Handle   == [id : Nat, expires : Nat]

\* A row: the columns that control flow depends on.  `run' is the run_id of
\* the status document (the token of the claim that wrote it), `handle' its
\* staging handle, and `result' the token of the claim that produced the
\* stored result (NoToken: no result).
Row == [state : {"absent"} \cup Active \cup Terminal, rowid : Nat,
        attempts : Nat, owner : Worker \cup {NoWorker}, expires : Nat,
        token : Nat, run : Nat, handle : Handle, result : Nat]

NoRow == [state |-> "absent", rowid |-> 0, attempts |-> 0, owner |-> NoWorker,
          expires |-> 0, token |-> NoToken, run |-> NoToken,
          handle |-> NoHandle, result |-> NoToken]

\* The record with its lease columns set to NULL.
Unleased(r) == [r EXCEPT !.owner = NoWorker, !.expires = 0, !.token = NoToken]

\* Finalizing without clearing the lease columns (a mutant).
FinalizedLeased(r, s) == [r EXCEPT !.state = s, !.handle = NoHandle]

\* JobService._finalize: a terminal record holds neither lease nor staging.
Finalized(r, s) == [Unleased(r) EXCEPT !.state = s, !.handle = NoHandle]

-----------------------------------------------------------------------------
(* The store's conditions                                                  *)

\* The WHERE clause of a fenced update: still running under this token.
HeldUnder(r, t) == r.state = "running" /\ r.token = t

\* The update without its WHERE clause on the lease (a mutant).
UnfencedUpdate(r, t) == TRUE

\* JobStore.update: unconditional unless the caller passes a lease token.
UpdateApplies(r, t) == t # NoToken => HeldUnder(r, t)

\* A lease has run out strictly after its expiry second.
LeaseExpired(r, now) == r.state = "running" /\ r.expires < now

\* The selection without its bound on the attempts (a mutant).
ClaimableForever(r, now) == r.state = "pending" \/ LeaseExpired(r, now)

\* The rows claim_next selects, the oldest first.
Claimable(r, now) ==
    /\ r.state = "pending" \/ LeaseExpired(r, now)
    /\ r.attempts < MaxAttempts

NextToClaim(j) ==
    /\ Claimable(row[j], clock)
    /\ \A k \in Job : Claimable(row[k], clock) => row[j].rowid <= row[k].rowid

\* StagingStore.get_handle and read_bytes find a file that is there and has not
\* expired; they delete the one they find expired.
Alive(h)   == h \in staging /\ ~(h.expires < clock)
Probe(h)   == staging' = IF h.expires < clock THEN staging \ {h} ELSE staging
Discard(h) == staging' = staging \ {h}

-----------------------------------------------------------------------------
(* Workers and request threads                                             *)

Idle == [pc |-> "idle"]

\* A worker inside _process: the claim it works under, its last read of the
\* row, the heartbeat's `lost' event and the outcome it is about to write.
Busy == [pc : {"enter", "fetch", "load", "kernel", "settled", "refetch",
               "confirm", "gate", "write", "discard"},
         job : Job, token : Nat, seen : Row, lost : BOOLEAN,
         outcome : {"none", "pending"} \cup Terminal]

\* A request thread inside create, cancel or reconcile: the row it read, the
\* time it read, the state it is about to write and the token that fences the
\* write (NoToken: not fenced), and the payload it staged or must delete.
Serving == [pc : {"exists", "stage", "insert", "probe", "release", "finalize",
                  "unlink"},
            job : Job, seen : Row, now : Nat, fence : Nat,
            outcome : {"none"} \cup Terminal, handle : Handle]

NewRequest(p, j, r) ==
    [pc |-> p, job |-> j, seen |-> r, now |-> 0, fence |-> NoToken,
     outcome |-> "none", handle |-> r.handle]

Goto(w, p)     == worker' = [worker EXCEPT ![w].pc = p]
Leave(w)       == worker' = [worker EXCEPT ![w] = Idle]
Proceed(c, p)  == request' = [request EXCEPT ![c].pc = p]
Reply(c)       == request' = [request EXCEPT ![c] = Idle]

Init ==
    /\ clock = 0
    /\ row = [j \in Job |-> NoRow]
    /\ rows = 0
    /\ tokens = 0
    /\ staging = {}
    /\ handles = 0
    /\ worker = [w \in Worker |-> Idle]
    /\ request = [c \in Client |-> Idle]
    /\ claims = [j \in Job |-> 0]

Tick ==
    /\ clock < MaxClock
    /\ clock' = clock + 1
    /\ UNCHANGED <<store, tokens, files, worker, request>>

-----------------------------------------------------------------------------
(* The worker: JobWorker.run_once                                          *)

\* The row claim_next leaves behind.
ClaimedRow(r, w) ==
    [r EXCEPT !.state = "running", !.attempts = @ + 1, !.owner = w,
              !.expires = clock + LeaseSeconds, !.token = tokens + 1,
              !.run = tokens + 1]

Claim(w, j) ==
    /\ worker[w].pc = "idle"
    /\ NextToClaim(j)
    /\ row' = [row EXCEPT ![j] = ClaimedRow(row[j], w)]
    /\ tokens' = tokens + 1
    /\ claims' = [claims EXCEPT ![j] = @ + 1]
    /\ worker' = [worker EXCEPT ![w] =
           [pc |-> "enter", job |-> j, token |-> tokens + 1,
            seen |-> ClaimedRow(row[j], w), lost |-> FALSE, outcome |-> "none"]]
    /\ UNCHANGED <<clock, rows, files, request>>

\* holds_lease: this process still owns the claim it was given.
HoldsLease(w) ==
    LET me == worker[w] IN
    HeldUnder(row[me.job], me.token) /\ row[me.job].owner = w

\* _lease_lost, asked before the row is read, after the kernel answered,
\* before the result is stored and before any terminal or retry write.
AfterCheck(p) == CASE p = "enter"   -> "fetch"
                   [] p = "settled" -> "refetch"
                   [] p = "confirm" -> "gate"
                   [] p = "gate"    -> "write"

CheckLease(w) ==
    LET me == worker[w] IN
    /\ me.pc \in {"enter", "settled", "confirm", "gate"}
    /\ IF me.lost \/ ~HoldsLease(w)
       THEN Leave(w)
       ELSE worker' = [worker EXCEPT
                ![w].pc = AfterCheck(me.pc),
                ![w].outcome = IF me.pc = "confirm" THEN "completed" ELSE @]
    /\ UNCHANGED <<clock, store, tokens, files, request>>

\* _process_locked re-reads the row; a terminal one is not touched.
Fetch(w) ==
    LET me == worker[w] IN
    /\ me.pc = "fetch"
    /\ IF row[me.job].state \in Terminal
       THEN Leave(w)
       ELSE worker' = [worker EXCEPT ![w].pc = "load", ![w].seen = row[me.job]]
    /\ UNCHANGED <<clock, store, tokens, files, request>>

\* The payload is read.  A missing or expired one fails the job, and an
\* operation no worker executes blocks it.
Load(w) ==
    LET me == worker[w] IN
    /\ me.pc = "load"
    /\ Probe(me.seen.handle)
    /\ worker' = [worker EXCEPT
           ![w].pc = IF Alive(me.seen.handle) /\ me.job \notin Unsupported
                     THEN "kernel" ELSE "gate",
           ![w].outcome = IF ~Alive(me.seen.handle) THEN "failed"
                          ELSE IF me.job \in Unsupported THEN "blocked" ELSE @]
    /\ UNCHANGED <<clock, store, tokens, handles, request>>

KernelAnswers(w) ==
    /\ worker[w].pc = "kernel"
    /\ Goto(w, "settled")
    /\ UNCHANGED <<clock, store, tokens, files, request>>

\* _maybe_retry_or_fail, for any exception out of the kernel calls.
KernelFails(w) ==
    LET me == worker[w] IN
    /\ me.pc = "kernel"
    /\ worker' = [worker EXCEPT
           ![w].pc = "gate",
           ![w].outcome = IF me.seen.attempts < MaxAttempts
                          THEN "pending" ELSE "failed"]
    /\ UNCHANGED <<clock, store, tokens, files, request>>

\* The row is read again after the kernel answered: if it became terminal
\* meanwhile, the worker only deletes the payload.
Refetch(w) ==
    LET me == worker[w] IN
    /\ me.pc = "refetch"
    /\ worker' = IF row[me.job].state \in Terminal
                 THEN [worker EXCEPT ![w].pc = "discard"]
                 ELSE [worker EXCEPT ![w].pc = "confirm",
                                     ![w].seen = row[me.job]]
    /\ UNCHANGED <<clock, store, tokens, files, request>>

\* What the worker writes: the record it read, with its outcome.
Outcome(me) ==
    CASE me.outcome = "pending"   -> [Unleased(me.seen) EXCEPT !.state = "pending"]
      [] me.outcome = "completed" -> [Finalized(me.seen, "completed")
                                          EXCEPT !.result = me.token]
      [] OTHER                    -> Finalized(me.seen, me.outcome)

\* Deleting the payload even when the update did not apply (a mutant).
WriterDiscards(me, applied) == [me EXCEPT !.pc = "discard", !.outcome = "none"]

\* _finalize deletes the payload only after its update took effect.
WriterNext(me, applied) ==
    IF applied /\ me.outcome # "pending"
    THEN [me EXCEPT !.pc = "discard", !.outcome = "none"]
    ELSE Idle

WriteOutcome(w) ==
    LET me == worker[w]
        ok == UpdateApplies(row[me.job], me.token)
    IN  /\ me.pc = "write"
        /\ row' = IF ok THEN [row EXCEPT ![me.job] = Outcome(me)] ELSE row
        /\ worker' = [worker EXCEPT ![w] = WriterNext(me, ok)]
        /\ UNCHANGED <<clock, rows, tokens, claims, files, request>>

DiscardPayload(w) ==
    /\ worker[w].pc = "discard"
    /\ Discard(worker[w].seen.handle)
    /\ Leave(w)
    /\ UNCHANGED <<clock, store, tokens, handles, request>>

\* The heartbeat thread: it runs beside every step from the claim to the end
\* of _process, and may be late.  renew_lease does not look at the old expiry.
Heartbeat(w) ==
    LET me == worker[w] IN
    /\ me.pc # "idle"
    /\ ~me.lost
    /\ IF HoldsLease(w)
       THEN /\ row' = [row EXCEPT ![me.job].expires = clock + LeaseSeconds]
            /\ UNCHANGED worker
       ELSE /\ worker' = [worker EXCEPT ![w].lost = TRUE]
            /\ UNCHANGED row
    /\ UNCHANGED <<clock, rows, tokens, claims, files, request>>

\* The process dies at any point and is started again.
WorkerCrash(w) ==
    /\ worker[w].pc # "idle"
    /\ Leave(w)
    /\ UNCHANGED <<clock, store, tokens, files, request>>

-----------------------------------------------------------------------------
(* The service: JobService.create                                          *)

KeyTaken(j) == \E k \in Job : row[k].state # "absent" /\ IdemKey[k] = IdemKey[j]

\* get_by_idempotency.  A taken key ends the request: the stored status is
\* returned, or 409 when the operation digests differ.
BeginCreate(c, j) ==
    /\ request[c].pc = "idle"
    /\ ~KeyTaken(j)
    /\ request' = [request EXCEPT ![c] = NewRequest("exists", j, NoRow)]
    /\ UNCHANGED <<clock, store, tokens, files, worker>>

CheckJobId(c) ==
    LET me == request[c] IN
    /\ me.pc = "exists"
    /\ IF row[me.job].state = "absent" THEN Proceed(c, "stage") ELSE Reply(c)
    /\ UNCHANGED <<clock, store, tokens, files, worker>>

\* A payload that is not what the request says, or too large, is refused.
StagePayload(c) ==
    LET h == [id |-> handles + 1, expires |-> clock + StagingTTL] IN
    /\ request[c].pc = "stage"
    /\ \/ /\ handles < MaxHandles
          /\ handles' = handles + 1
          /\ staging' = staging \cup {h}
          /\ request' = [request EXCEPT ![c].pc = "insert", ![c].handle = h]
       \/ Reply(c) /\ UNCHANGED files
    /\ UNCHANGED <<clock, store, tokens, worker>>

\* The insert fails on the primary key or the idempotency index when another
\* request won the race; the payload staged for it stays behind.
InsertRow(c) ==
    LET me == request[c]
        ok == row[me.job].state = "absent" /\ ~KeyTaken(me.job)
    IN  /\ me.pc = "insert"
        /\ row' = IF ok
                  THEN [row EXCEPT ![me.job] =
                           [NoRow EXCEPT !.state = "pending", !.rowid = rows + 1,
                                         !.handle = me.handle]]
                  ELSE row
        /\ rows' = IF ok THEN rows + 1 ELSE rows
        /\ Reply(c)
        /\ UNCHANGED <<clock, tokens, claims, files, worker>>

-----------------------------------------------------------------------------
(* JobService.cancel and JobService.reconcile                              *)

\* cancel reads the row; a terminal job is refused with JOB_TERMINAL.
BeginCancel(c, j) ==
    /\ request[c].pc = "idle"
    /\ row[j].state \in Active
    /\ request' = [request EXCEPT ![c] =
           [NewRequest("finalize", j, row[j]) EXCEPT !.outcome = "cancelled"]]
    /\ UNCHANGED <<clock, store, tokens, files, worker>>

\* reconcile reads the row and the time; a terminal job is left alone.
BeginReconcile(c, j) ==
    /\ request[c].pc = "idle"
    /\ row[j].state \in Active
    /\ request' = [request EXCEPT ![c] =
           [NewRequest("probe", j, row[j]) EXCEPT !.now = clock]]
    /\ UNCHANGED <<clock, store, tokens, files, worker>>

\* Fencing by the owner of the lease instead of the claim (a mutant).
OwnerFence(r) == r.owner

\* _reconcile_finalize fences its write only when the row it read was running.
ReconcileFence(r) == IF r.state = "running" THEN r.token ELSE NoToken

\* Reconciling without looking at the deadline (a mutant).
VerdictNoDeadline(me) == IF ~Alive(me.handle) THEN "failed" ELSE "none"

\* With the payload probed, reconcile decides: past the deadline, payload
\* gone, lease run out, or nothing to do.
Verdict(me) ==
    IF me.now > Deadline[me.job] THEN "timed_out"
    ELSE IF ~Alive(me.handle) THEN "failed" ELSE "none"

ProbeStaging(c) ==
    LET me == request[c] IN
    /\ me.pc = "probe"
    /\ Probe(me.handle)
    /\ IF Verdict(me) # "none"
       THEN request' = [request EXCEPT
                ![c].pc = "finalize", ![c].now = 0, ![c].outcome = Verdict(me),
                ![c].fence = ReconcileFence(me.seen)]
       ELSE IF LeaseExpired(me.seen, clock)
            THEN request' = [request EXCEPT ![c].pc = "release", ![c].now = clock]
            ELSE Reply(c)
    /\ UNCHANGED <<clock, store, tokens, handles, worker>>

\* release_expired_lease, with the token and the time reconcile read.
ReleaseLease(c) ==
    LET me == request[c]
        ok == /\ HeldUnder(row[me.job], me.seen.token)
              /\ LeaseExpired(row[me.job], me.now)
    IN  /\ me.pc = "release"
        /\ row' = IF ok THEN [row EXCEPT ![me.job] =
                                 [Unleased(row[me.job]) EXCEPT !.state = "pending"]]
                        ELSE row
        /\ Reply(c)
        /\ UNCHANGED <<clock, rows, tokens, claims, files, worker>>

\* _finalize: the record as it was read, made terminal.
FinalizeRow(c) ==
    LET me == request[c]
        ok == UpdateApplies(row[me.job], me.fence)
    IN  /\ me.pc = "finalize"
        /\ row' = IF ok THEN [row EXCEPT ![me.job] = Finalized(me.seen, me.outcome)]
                        ELSE row
        /\ IF ok THEN request' = [request EXCEPT ![c] =
                          [NewRequest("unlink", me.job, NoRow) EXCEPT
                              !.handle = me.handle]]
                 ELSE Reply(c)
        /\ UNCHANGED <<clock, rows, tokens, claims, files, worker>>

UnlinkPayload(c) ==
    /\ request[c].pc = "unlink"
    /\ Discard(request[c].handle)
    /\ Reply(c)
    /\ UNCHANGED <<clock, store, tokens, handles, worker>>

\* The thread or the whole server dies in the middle of a request.
RequestCrash(c) ==
    /\ request[c].pc # "idle"
    /\ Reply(c)
    /\ UNCHANGED <<clock, store, tokens, files, worker>>

-----------------------------------------------------------------------------
WorkerStep(w) ==
    \/ \E j \in Job : Claim(w, j)
    \/ CheckLease(w)
    \/ Fetch(w)
    \/ Load(w)
    \/ KernelAnswers(w)
    \/ KernelFails(w)
    \/ Refetch(w)
    \/ WriteOutcome(w)
    \/ DiscardPayload(w)

\* What a request thread does once it has begun.
RequestStep(c) ==
    \/ CheckJobId(c)
    \/ StagePayload(c)
    \/ InsertRow(c)
    \/ ProbeStaging(c)
    \/ ReleaseLease(c)
    \/ FinalizeRow(c)
    \/ UnlinkPayload(c)

RequestArrives(c) ==
    \E j \in Job : BeginCreate(c, j) \/ BeginCancel(c, j) \/ BeginReconcile(c, j)

Next ==
    \/ Tick
    \/ \E w \in Worker : WorkerStep(w) \/ Heartbeat(w) \/ WorkerCrash(w)
    \/ \E c \in Client : RequestArrives(c) \/ RequestStep(c) \/ RequestCrash(c)

Spec == Init /\ [][Next]_vars

\* What the liveness property below assumes: time passes, a request thread
\* goes on until it has answered or its server dies, the control plane
\* keeps asking for every job it created to be reconciled (a request may be
\* refused a thread or lose its server, and is sent again), and a request that
\* is sent again and again is not killed at the same step every time.  Nothing
\* is assumed of the workers: they may stop, crash, or hang under a lease that
\* their heartbeat renews.
FairSpec ==
    /\ Spec
    /\ WF_clock(Tick)
    /\ \A c \in Client : WF_request(RequestStep(c))
    /\ \A j \in Job :
          /\ SF_request(\E c \in Client : BeginReconcile(c, j))
          /\ SF_request(\E c \in Client : ProbeStaging(c) /\ request[c].job = j)
          /\ SF_request(\E c \in Client : FinalizeRow(c) /\ request[c].job = j)

-----------------------------------------------------------------------------
(* Properties                                                              *)

TypeOK ==
    /\ clock \in 0..MaxClock
    /\ row \in [Job -> Row]
    /\ rows \in Nat
    /\ tokens \in Nat
    /\ staging \in SUBSET Handle
    /\ handles \in Nat
    /\ worker \in [Worker -> {Idle} \cup Busy]
    /\ request \in [Client -> {Idle} \cup Serving]
    /\ claims \in [Job -> Nat]

Coherent(r) ==
    /\ r.state = "running" <=> r.token # NoToken
    /\ r.token # NoToken <=> r.owner # NoWorker
    /\ r.token # NoToken => r.token = r.run
    /\ r.state \in Active <=> r.handle # NoHandle

\* The lease columns, the run_id and the staging handle of a row agree with
\* its state: exactly a running row carries a lease, exactly an active row has
\* a payload, whatever mixture of claims, retries, releases and stale
\* whole-row updates wrote its columns (JobStore.update rewrites all of them).
RowCoherent == \A j \in Job : Coherent(row[j])

\* A job that can still be claimed has its payload until the payload's own
\* time to live runs out: no worker that lost its lease, and no request that
\* lost a race, deletes the bytes another attempt is going to read.
PayloadHeld ==
    \A j \in Job : row[j].state \in Active =>
        \/ row[j].handle \in staging
        \/ row[j].handle.expires < clock

\* A stored result is always the one of the job's last claim: a worker whose
\* job was claimed again never gets its result into the row (the lease token
\* fences JobStore.update), and only a completed job has a result.
ResultOfLastClaim ==
    \A j \in Job :
        /\ row[j].state = "completed" <=> row[j].result # NoToken
        /\ row[j].result # NoToken =>
              row[j].result = row[j].run /\ row[j].attempts = claims[j]

\* However attempts fail, expire, are released and are claimed again, and
\* whichever stale record overwrites the row, a job is handed to workers at
\* most max_attempts times, and attempt_count counts the claims of a job that
\* is not terminal.
AttemptBudget ==
    \A j \in Job :
        /\ claims[j] <= MaxAttempts
        /\ row[j].state \in Active => row[j].attempts = claims[j]

\* A terminal job is never put back into the queue and never loses its row:
\* retries, lease releases and claims that read the job before it became
\* terminal all come too late.
TerminalNeverReopens ==
    [][\A j \in Job : row[j].state \in Terminal => row'[j].state \in Terminal]_row

\* As long as the control plane keeps reconciling, every job becomes terminal,
\* even when every worker dies or hangs under a lease it keeps renewing.
ReconcileConverges ==
    \A j \in Job : row[j].state \in Active ~> row[j].state \in Terminal

\* What reconcile promises (tests/test_phase3_release_gates.py, "Reconcile
\* snapshot of attempt A must not wipe worker B's new claim"): a row that is
\* running is made terminal by reconcile only under the claim reconcile read.
\* Does not hold: a row read as pending is written without a fence.
ReconcileSparesNewClaims ==
    [][\A c \in Client :
           LET me == request[c] IN
           (me.pc = "finalize" /\ me.outcome # "cancelled"
               /\ row[me.job].state = "running" /\ row'[me.job].state \in Terminal
               /\ request'[c] # me)
           => row[me.job].token = me.seen.token]_<<row, request>>

=============================================================================
