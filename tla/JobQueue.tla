------------------------------ MODULE JobQueue ------------------------------
(***************************************************************************)
(* The database-backed job queue (src/src/lib/jobs): rows of the table     *)
(* `jobs`, the workers that claim them under a renewable lease, the        *)
(* executions each worker has in flight, and the administrator's retry.    *)
(*                                                                         *)
(* Every SQL statement of the code is one step, because each is its own    *)
(* transaction: between the statement that buries exhausted leases and the *)
(* one that claims, and between a handler and the write of its result, any *)
(* other step may happen.  Durations are abstracted: `due` says that run_at *)
(* has passed, `expired` that locked_until has, and separate steps let time *)
(* pass.  A database error either loses a statement or applies it without   *)
(* the caller learning of it.                                               *)
(***************************************************************************)
EXTENDS Integers, FiniteSets

CONSTANTS
  AppKeys,      \* jobs enqueued by business code, one per dedupe key
  Buckets,      \* time buckets of the recurring job, 1..n: also dedupe keys
  Workers,      \* worker processes; a restarted process has a new workerId
  NoWorker,     \* locked_by IS NULL
  MaxAttempts,  \* jobs.max_attempts
  Concurrency,  \* WorkerOptions.concurrency
  MaxGen,       \* bound: deletions of one key's finished row
  MaxStalls,    \* bound: leases of a key that run out in a live worker
  MaxDbErrors   \* bound: failed statements

Keys == AppKeys \cup Buckets

ASSUME ConstantsAssumption ==
  /\ Buckets \subseteq Nat \ {0}
  /\ IsFiniteSet(AppKeys) /\ IsFiniteSet(Buckets)
  /\ NoWorker \notin Workers
  /\ MaxAttempts \in Nat \ {0}
  /\ Concurrency \in Nat \ {0}
  /\ {MaxGen, MaxStalls, MaxDbErrors} \subseteq Nat

VARIABLES
  jobs,        \* key -> its row, or a row with status "none"
  execs,       \* executions in flight, of all workers
  mode,        \* worker -> "up", "stopping" or "gone"
  poll,        \* worker -> progress of its current pollOnce
  bucket,      \* the bucket that contains the present moment
  lastBucket,  \* worker -> lastRecurringBucket (0: none yet)
  succeeded,   \* history: rows whose handler has returned
  retried,     \* history: rows an administrator re-scheduled
  stalls,      \* history: key -> leases that ran out in a live worker
  dbErrors     \* history: number of failed statements

vars == <<jobs, execs, mode, poll, bucket, lastBucket, succeeded, retried,
          stalls, dbErrors>>
processes == <<mode, poll, lastBucket>>
history == <<succeeded, retried, stalls, dbErrors>>

-----------------------------------------------------------------------------
Statuses == {"none", "queued", "running", "done", "failed", "dead"}

\* A row of `jobs`; gen tells the row from an earlier, deleted one with its key.
Row == [status: Statuses, attempts: Nat, lockedBy: Workers \cup {NoWorker},
        expired: BOOLEAN, due: BOOLEAN, gen: Nat]

\* The promise of JobWorker.execute: the handler runs, its result is written.
Execution == [worker: Workers, key: Keys, gen: Nat, attempt: Nat,
              at: {"handler", "completing", "failing"}]

Idle == [at |-> "idle", free |-> 0]

Vacant(g) == [status |-> "none", attempts |-> 0, lockedBy |-> NoWorker,
              expired |-> FALSE, due |-> FALSE, gen |-> g]

TypeOK ==
  /\ jobs \in [Keys -> Row]
  /\ execs \subseteq Execution
  /\ IsFiniteSet(execs)
  /\ mode \in [Workers -> {"up", "stopping", "gone"}]
  /\ poll \in [Workers -> [at: {"idle", "expire", "claim"}, free: Nat]]
  /\ bucket \in Nat
  /\ lastBucket \in [Workers -> Nat]
  /\ succeeded \subseteq Keys \X Nat
  /\ retried \subseteq Keys \X Nat
  /\ stalls \in [Keys -> Nat]
  /\ dbErrors \in Nat

Init ==
  /\ jobs = [k \in Keys |-> Vacant(0)]
  /\ execs = {}
  /\ mode = [w \in Workers |-> "up"]
  /\ poll = [w \in Workers |-> Idle]
  /\ bucket = 1
  /\ lastBucket = [w \in Workers |-> 0]
  /\ succeeded = {}
  /\ retried = {}
  /\ stalls = [k \in Keys |-> 0]
  /\ dbErrors = 0

-----------------------------------------------------------------------------
\* Rows and executions

RowId(k) == <<k, jobs[k].gen>>
InFlight(w) == {e \in execs : e.worker = w}
Alive(w) == mode[w] # "gone"
OtherWorkerUp(w) == \E v \in Workers \ {w} : mode[v] = "up"

\* Faulty variant: the row is claimed by somebody.
OwnedByAnyone(w, k, g) == jobs[k].gen = g /\ jobs[k].status = "running"

\* JobWorker.ownedBy: what every write of a worker about a job requires.
OwnedBy(w, k, g) ==
  /\ jobs[k].gen = g
  /\ jobs[k].status = "running"
  /\ jobs[k].lockedBy = w

Exhausted == {k \in Keys : /\ jobs[k].status = "running" /\ jobs[k].expired
                           /\ jobs[k].attempts >= MaxAttempts}

\* Faulty variants, for the mutants: a lease is not looked at; a lost lease is
\* never recovered; only the time is looked at, not the status.
ClaimableUnexpired == {k \in Keys : \/ jobs[k].status = "running"
                                    \/ jobs[k].status \in {"queued", "failed"} /\ jobs[k].due}
ClaimableFresh == {k \in Keys : jobs[k].status \in {"queued", "failed"} /\ jobs[k].due}
ClaimableByTime == {k \in Keys : \/ jobs[k].status \notin {"none", "running"} /\ jobs[k].due
                                 \/ jobs[k].status = "running" /\ jobs[k].expired}

Claimable == {k \in Keys : \/ jobs[k].status \in {"queued", "failed"} /\ jobs[k].due
                           \/ jobs[k].status = "running" /\ jobs[k].expired}

\* INSERT ... ON CONFLICT (dedupe_key) DO NOTHING
Insert(k, isDue) ==
  IF jobs[k].status = "none"
  THEN [jobs EXCEPT ![k] = [@ EXCEPT !.status = "queued", !.due = isDue]]
  ELSE jobs

Bury(S) ==
  [k \in Keys |-> IF k \in S
                  THEN [jobs[k] EXCEPT !.status = "dead", !.lockedBy = NoWorker,
                                       !.expired = FALSE]
                  ELSE jobs[k]]

\* Faulty variants: the attempt is not counted; attempts left are counted down.
LeaseUncounted(w, S) ==
  [k \in Keys |-> IF k \in S
                  THEN [jobs[k] EXCEPT !.status = "running", !.lockedBy = w,
                                       !.expired = FALSE]
                  ELSE jobs[k]]
LeaseCountedDown(w, S) ==
  [k \in Keys |-> IF k \in S
                  THEN [jobs[k] EXCEPT !.status = "running", !.lockedBy = w,
                                       !.expired = FALSE, !.attempts = @ - 1]
                  ELSE jobs[k]]

Lease(w, S) ==
  [k \in Keys |-> IF k \in S
                  THEN [jobs[k] EXCEPT !.status = "running", !.lockedBy = w,
                                       !.expired = FALSE, !.attempts = @ + 1]
                  ELSE jobs[k]]

Finished(e) ==
  IF OwnedBy(e.worker, e.key, e.gen)
  THEN [jobs EXCEPT ![e.key] = [@ EXCEPT !.status = "done", !.lockedBy = NoWorker,
                                         !.expired = FALSE]]
  ELSE jobs

\* A failed attempt waits for its backoff; the last allowed one kills the job.
Failed(e) ==
  IF ~OwnedBy(e.worker, e.key, e.gen) THEN jobs
  ELSE IF e.attempt >= MaxAttempts THEN Bury({e.key})
  ELSE [jobs EXCEPT ![e.key] = [@ EXCEPT !.status = "failed", !.lockedBy = NoWorker,
                                         !.expired = FALSE, !.due = FALSE]]

DbError == dbErrors < MaxDbErrors /\ dbErrors' = dbErrors + 1

-----------------------------------------------------------------------------
\* Producers, the administrator, retention, and time

Enqueue(k, isDue) ==
  /\ jobs' = Insert(k, isDue)
  /\ UNCHANGED <<execs, processes, bucket, history>>

\* POST /admin/jobs/:id/retry; bound: once per row.
AdminRetry(k) ==
  /\ jobs[k].status = "dead"
  /\ RowId(k) \notin retried
  /\ jobs' = [jobs EXCEPT ![k] = [@ EXCEPT !.status = "queued", !.attempts = 0,
                                             !.due = TRUE]]
  /\ retried' = retried \cup {RowId(k)}
  /\ UNCHANGED <<execs, processes, bucket, succeeded, stalls, dbErrors>>

\* Retention frees the dedupe key of a finished job; dead jobs stay.
DeleteFinished(k) ==
  /\ jobs[k].status = "done"
  /\ jobs[k].gen < MaxGen
  /\ jobs' = [jobs EXCEPT ![k] = Vacant(jobs[k].gen + 1)]
  /\ UNCHANGED <<execs, processes, bucket, history>>

RunAtPasses(k) ==
  /\ jobs[k].status \in {"queued", "failed"}
  /\ ~jobs[k].due
  /\ jobs' = [jobs EXCEPT ![k] = [@ EXCEPT !.due = TRUE]]
  /\ UNCHANGED <<execs, processes, bucket, history>>

BucketPasses ==
  /\ bucket + 1 \in Buckets
  /\ bucket' = bucket + 1
  /\ UNCHANGED <<jobs, execs, processes, history>>

Renewing(k) == \E e \in execs : /\ e.key = k
                                /\ OwnedBy(e.worker, k, e.gen)

\* Nobody renews: the owner died, or lost track of the job.
LeaseRunsOut(k) ==
  /\ jobs[k].status = "running"
  /\ ~jobs[k].expired
  /\ ~Renewing(k)
  /\ jobs' = [jobs EXCEPT ![k] = [@ EXCEPT !.expired = TRUE]]
  /\ UNCHANGED <<execs, processes, bucket, history>>

\* The owner works on, but its renewals fail or its event loop is blocked.
LeaseStalls(k) ==
  /\ jobs[k].status = "running"
  /\ ~jobs[k].expired
  /\ Renewing(k)
  /\ stalls[k] < MaxStalls
  /\ jobs' = [jobs EXCEPT ![k] = [@ EXCEPT !.expired = TRUE]]
  /\ stalls' = [stalls EXCEPT ![k] = @ + 1]
  /\ UNCHANGED <<execs, processes, bucket, succeeded, retried, dbErrors>>

-----------------------------------------------------------------------------
\* One poll of a worker: schedule the recurring job, bury, claim

RecurringInsert(w) ==
  IF bucket \in Buckets /\ lastBucket[w] # bucket THEN Insert(bucket, TRUE) ELSE jobs

\* Faulty variant: executions in flight are not counted.
ScheduleWithoutCounting(w) ==
  /\ mode[w] = "up"
  /\ poll[w].at = "idle"
  /\ jobs' = RecurringInsert(w)
  /\ lastBucket' = [lastBucket EXCEPT ![w] = bucket]
  /\ poll' = [poll EXCEPT ![w] = [at |-> "expire", free |-> Concurrency]]
  /\ UNCHANGED <<execs, mode, bucket, history>>

ScheduleRecurring(w) ==
  /\ mode[w] = "up"
  /\ poll[w].at = "idle"
  /\ jobs' = RecurringInsert(w)
  /\ lastBucket' = [lastBucket EXCEPT ![w] = bucket]
  /\ LET free == Concurrency - Cardinality(InFlight(w))
     IN  poll' = IF free > 0
                 THEN [poll EXCEPT ![w] = [at |-> "expire", free |-> free]]
                 ELSE poll
  /\ UNCHANGED <<execs, mode, bucket, history>>

ExpireExhausted(w) ==
  /\ Alive(w)
  /\ poll[w].at = "expire"
  /\ jobs' = Bury(Exhausted)
  /\ poll' = [poll EXCEPT ![w].at = "claim"]
  /\ UNCHANGED <<execs, mode, bucket, lastBucket, history>>

\* SKIP LOCKED may return fewer rows than are due, never more than the limit.
\* The rows are started at once: stop() does not look between claim and run.
Claim(w, S) ==
  /\ Alive(w)
  /\ poll[w].at = "claim"
  /\ S \subseteq Claimable
  /\ Cardinality(S) <= poll[w].free
  /\ jobs' = Lease(w, S)
  /\ execs' = execs \cup {[worker |-> w, key |-> k, gen |-> jobs[k].gen,
                           attempt |-> jobs[k].attempts + 1,
                           at |-> "handler"] : k \in S}
  /\ poll' = [poll EXCEPT ![w] = Idle]
  /\ UNCHANGED <<mode, bucket, lastBucket, history>>

\* A statement of the poll fails: the poll ends, whatever the database did.
PollFails(w) ==
  /\ Alive(w)
  /\ DbError
  /\ \/ /\ mode[w] = "up" /\ poll[w].at = "idle"
        /\ jobs' = RecurringInsert(w)
     \/ /\ poll[w].at = "expire"
        /\ jobs' \in {jobs, Bury(Exhausted)}
     \/ /\ poll[w].at = "claim"
        /\ \E S \in SUBSET Claimable :
             /\ Cardinality(S) <= poll[w].free
             /\ jobs' = Lease(w, S)
  /\ poll' = [poll EXCEPT ![w] = Idle]
  /\ UNCHANGED <<execs, mode, bucket, lastBucket, succeeded, retried, stalls>>

-----------------------------------------------------------------------------
\* JobWorker.execute

MoveTo(e, place) == execs' = (execs \ {e}) \cup {[e EXCEPT !.at = place]}

\* The renewal timer runs until the execution ends, also past the deadline.
Renew(e) ==
  /\ OwnedBy(e.worker, e.key, e.gen)
  /\ jobs[e.key].expired
  /\ jobs' = [jobs EXCEPT ![e.key] = [@ EXCEPT !.expired = FALSE]]
  /\ UNCHANGED <<execs, processes, bucket, history>>

HandlerReturns(e) ==
  /\ e.at = "handler"
  /\ MoveTo(e, "completing")
  /\ succeeded' = succeeded \cup {<<e.key, e.gen>>}
  /\ UNCHANGED <<jobs, processes, bucket, retried, stalls, dbErrors>>

\* Faulty variant: the error of the handler is swallowed.
HandlerThrowsSilently(e) ==
  /\ e.at = "handler"
  /\ MoveTo(e, "completing")
  /\ UNCHANGED <<jobs, processes, bucket, history>>

HandlerThrows(e) ==
  /\ e.at = "handler"
  /\ MoveTo(e, "failing")
  /\ UNCHANGED <<jobs, processes, bucket, history>>

Complete(e) ==
  /\ e.at = "completing"
  /\ jobs' = Finished(e)
  /\ execs' = execs \ {e}
  /\ UNCHANGED <<processes, bucket, history>>

\* An error of the completing UPDATE is caught like one of the handler.
CompleteErrors(e) ==
  /\ e.at = "completing"
  /\ DbError
  /\ jobs' \in {jobs, Finished(e)}
  /\ MoveTo(e, "failing")
  /\ UNCHANGED <<processes, bucket, succeeded, retried, stalls>>

Fail(e) ==
  /\ e.at = "failing"
  /\ jobs' = Failed(e)
  /\ execs' = execs \ {e}
  /\ UNCHANGED <<processes, bucket, history>>

Die(w) ==
  /\ OtherWorkerUp(w)
  /\ mode' = [mode EXCEPT ![w] = "gone"]
  /\ execs' = execs \ InFlight(w)
  /\ poll' = [poll EXCEPT ![w] = Idle]

\* Nothing catches an error of the failing UPDATE: the rejection ends the process.
FailErrors(e) ==
  /\ e.at = "failing"
  /\ DbError
  /\ jobs' \in {jobs, Failed(e)}
  /\ Die(e.worker)
  /\ UNCHANGED <<bucket, lastBucket, succeeded, retried, stalls>>

\* stop(): no further poll starts, a poll under way goes on.
Stop(w) ==
  /\ mode[w] = "up"
  /\ OtherWorkerUp(w)
  /\ mode' = [mode EXCEPT ![w] = "stopping"]
  /\ UNCHANGED <<jobs, execs, poll, bucket, lastBucket, history>>

\* A crash, or the end of stop() after its drain time: leases are left behind.
Exit(w) ==
  /\ Alive(w)
  /\ Die(w)
  /\ UNCHANGED <<jobs, bucket, lastBucket, history>>

-----------------------------------------------------------------------------
TimeStep == \/ BucketPasses
            \/ \E k \in Keys : RunAtPasses(k) \/ LeaseRunsOut(k) \/ LeaseStalls(k)

OutsideStep == \/ \E k \in AppKeys, isDue \in BOOLEAN : Enqueue(k, isDue)
               \/ \E k \in Keys : AdminRetry(k) \/ DeleteFinished(k)

PollStep(w) == \/ ScheduleRecurring(w) \/ ExpireExhausted(w) \/ PollFails(w)
               \/ \E S \in SUBSET Keys : Claim(w, S)

ExecStep(e) == \/ Renew(e) \/ HandlerReturns(e) \/ HandlerThrows(e)
               \/ Complete(e) \/ CompleteErrors(e) \/ Fail(e) \/ FailErrors(e)

Next == \/ TimeStep
        \/ OutsideStep
        \/ \E w \in Workers : PollStep(w) \/ Stop(w) \/ Exit(w)
        \/ \E e \in execs : ExecStep(e)

Spec == Init /\ [][Next]_vars

\* Fairness.  Time passes; the poll timer of a live worker goes on firing; a
\* handler ends and its result is written; and since claims go by run_at, a job
\* that is due again and again is not passed over for ever.
Fairness ==
  /\ \A k \in Keys : WF_vars(RunAtPasses(k)) /\ WF_vars(LeaseRunsOut(k))
  /\ \A w \in Workers : /\ WF_vars(ScheduleRecurring(w))
                        /\ WF_vars(ExpireExhausted(w))
                        /\ WF_vars(\E S \in SUBSET Keys : Claim(w, S))
  /\ \A k \in Keys : SF_vars(\E w \in Workers, S \in SUBSET Keys :
                               k \in S /\ Claim(w, S))
  /\ \A w \in Workers, k \in Keys :
       WF_vars(\E e \in execs : /\ e.worker = w /\ e.key = k
                                /\ \/ HandlerReturns(e) \/ HandlerThrows(e)
                                   \/ Complete(e) \/ Fail(e))

FairSpec == Spec /\ Fairness

-----------------------------------------------------------------------------
\* Properties

\* The lease is a lock: as long as no lease of a live worker ran out, no two
\* executions of a job run its handler or are about to write its success,
\* whatever crashes, lost statements and administrator's retries there were.
NoOverlap ==
  \A e1, e2 \in execs :
    (/\ e1.key = e2.key /\ stalls[e1.key] = 0
     /\ e1.at # "failing" /\ e2.at # "failing") => e1 = e2

\* Two executions of a row never have the same attempt number, not even when a
\* lease ran out under a live worker, unless an administrator reset the count:
\* the number tells a handler (notify/email-job.ts) which attempt is speaking.
AttemptsDistinct ==
  \A e1, e2 \in execs :
    (/\ e1.key = e2.key /\ e1.gen = e2.gen /\ e1.attempt = e2.attempt
     /\ <<e1.key, e1.gen>> \notin retried) => e1 = e2

\* A worker never holds more executions, claimed or about to be claimed, than
\* its concurrency: the free places are counted before two statements run.
WithinConcurrency ==
  \A w \in Workers : Cardinality(InFlight(w)) + poll[w].free <= Concurrency

\* "processes every job exactly once": a row whose handler has returned is not
\* executed again unless a lease ran out in a live worker, a statement failed,
\* or a process ended before it could write the result.
Faultless(k) == stalls[k] = 0 /\ dbErrors = 0 /\ \A w \in Workers : Alive(w)

ExactlyOnceWhenFaultless ==
  [][\A e \in execs' \ execs :
       (e.at = "handler" /\ <<e.key, e.gen>> \in succeeded) => ~Faultless(e.key)]_vars

\* A row under an unexpired lease changes only by the hand of an execution of
\* the lease's owner, or by the deadline passing.
LeaseRespected ==
  [][\A k \in Keys :
       (jobs[k].status = "running" /\ ~jobs[k].expired) =>
          \/ jobs'[k] \in {jobs[k], [jobs[k] EXCEPT !.expired = TRUE]}
          \/ \E e \in execs \ execs' : e.key = k /\ e.worker = jobs[k].lockedBy]_vars

\* The queue keeps its promise to the code that enqueues (module JobPromise).
Promise == INSTANCE JobPromise WITH
  Keys <- Keys,
  life <- [k \in Keys |-> IF jobs[k].status \in {"none", "done", "dead"}
                          THEN jobs[k].status ELSE "open"],
  performed <- {k \in Keys : RowId(k) \in succeeded}

PromiseKept == Promise!Spec
EventuallySettled == Promise!EverySettles

\* The comment at worker.ts:172, of jobs whose lease expired after their last
\* allowed attempt: "are dead, not retried a further time".
NotRetriedAFurtherTime == \A k \in Keys : jobs[k].attempts <= MaxAttempts
=============================================================================
