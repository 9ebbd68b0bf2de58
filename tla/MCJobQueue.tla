----------------------------- MODULE MCJobQueue -----------------------------
(* Small instances of JobQueue for TLC. *)
EXTENDS JobQueue, TLC

\* One idempotency key for each job.
MCIdemKey == [j \in Job |-> j]

\* One idempotency key for all of them: only one job can be created.
MCSharedKey == [j \in Job |-> "key"]

\* The deadline every job is created with.
CONSTANT DeadlineAt
MCDeadline == [j \in Job |-> DeadlineAt]

\* Workers and request threads are interchangeable.
Symmetry == Permutations(Worker) \cup Permutations(Client)
=============================================================================
