--------------------------- MODULE JobQueueProofs ---------------------------
(***************************************************************************)
(* Proofs about JobQueue, for every number of jobs, workers and faults.     *)
(***************************************************************************)
EXTENDS JobQueue, FiniteSetTheorems, TLAPS

\* There are finitely many dedupe keys, so a claim starts finitely many handlers.
LEMMA KeysFinite == IsFiniteSet(Keys)
  BY ConstantsAssumption, FS_Union DEF Keys

\* What the statements assign to a row leaves it well-formed.
LEMMA RowTyped ==
  ASSUME NEW r \in Row, NEW w \in Workers \cup {NoWorker}, NEW n \in Nat, NEW d \in BOOLEAN
  PROVE  /\ [r EXCEPT !.status = "queued", !.due = d] \in Row
         /\ [r EXCEPT !.due = d] \in Row
         /\ [r EXCEPT !.expired = d] \in Row
         /\ [r EXCEPT !.status = "queued", !.attempts = 0, !.due = TRUE] \in Row
         /\ [r EXCEPT !.status = "dead", !.lockedBy = NoWorker, !.expired = FALSE] \in Row
         /\ [r EXCEPT !.status = "done", !.lockedBy = NoWorker, !.expired = FALSE] \in Row
         /\ [r EXCEPT !.status = "failed", !.lockedBy = NoWorker, !.expired = FALSE,
                      !.due = FALSE] \in Row
         /\ [r EXCEPT !.status = "running", !.lockedBy = w, !.expired = FALSE,
                      !.attempts = n] \in Row
         /\ Vacant(n) \in Row
  <1>1. [r EXCEPT !.status = "queued", !.due = d] \in Row
    BY Zenon DEF Row, Statuses
  <1>2. [r EXCEPT !.due = d] \in Row
    BY Zenon DEF Row, Statuses
  <1>3. [r EXCEPT !.expired = d] \in Row
    BY Zenon DEF Row, Statuses
  <1>4. [r EXCEPT !.status = "queued", !.attempts = 0, !.due = TRUE] \in Row
    <2>1. 0 \in Nat
      OBVIOUS
    <2>2. QED
      BY <2>1, Zenon DEF Row, Statuses
  <1>5. [r EXCEPT !.status = "dead", !.lockedBy = NoWorker, !.expired = FALSE] \in Row
    BY Zenon DEF Row, Statuses
  <1>6. [r EXCEPT !.status = "done", !.lockedBy = NoWorker, !.expired = FALSE] \in Row
    BY Zenon DEF Row, Statuses
  <1>7. [r EXCEPT !.status = "failed", !.lockedBy = NoWorker, !.expired = FALSE,
                  !.due = FALSE] \in Row
    BY Zenon DEF Row, Statuses
  <1>8. [r EXCEPT !.status = "running", !.lockedBy = w, !.expired = FALSE,
                  !.attempts = n] \in Row
    BY Zenon DEF Row, Statuses
  <1>9. Vacant(n) \in Row
    BY DEF Row, Statuses, Vacant
  <1>10. QED
    BY <1>1, <1>2, <1>3, <1>4, <1>5, <1>6, <1>7, <1>8, <1>9

\* Every row update of an action leaves a well-formed table.
LEMMA StatementsTyped ==
  ASSUME jobs \in [Keys -> Row]
  PROVE  /\ \A k \in Keys, d \in BOOLEAN : Insert(k, d) \in [Keys -> Row]
         /\ \A S \in SUBSET Keys : Bury(S) \in [Keys -> Row]
         /\ \A w \in Workers, S \in SUBSET Keys : Lease(w, S) \in [Keys -> Row]
         /\ \A e \in Execution : /\ Finished(e) \in [Keys -> Row]
                                 /\ Failed(e) \in [Keys -> Row]
  <1>1. ASSUME NEW k \in Keys, NEW d \in BOOLEAN
        PROVE  Insert(k, d) \in [Keys -> Row]
    <2>1. [jobs[k] EXCEPT !.status = "queued", !.due = d] \in Row
      BY <1>1, RowTyped
    <2>2. QED
      BY <2>1 DEF Insert
  <1>2. ASSUME NEW S \in SUBSET Keys
        PROVE  Bury(S) \in [Keys -> Row]
    <2>1. \A k \in Keys : [jobs[k] EXCEPT !.status = "dead", !.lockedBy = NoWorker,
                                          !.expired = FALSE] \in Row
      BY RowTyped
    <2>2. QED
      BY <2>1 DEF Bury
  <1>3. ASSUME NEW w \in Workers, NEW S \in SUBSET Keys
        PROVE  Lease(w, S) \in [Keys -> Row]
    <2>1. \A k \in Keys : jobs[k].attempts + 1 \in Nat
      BY DEF Row
    <2>2. \A k \in Keys : [jobs[k] EXCEPT !.status = "running", !.lockedBy = w,
                                          !.expired = FALSE, !.attempts = @ + 1] \in Row
      BY <2>1, <1>3, RowTyped
    <2>3. QED
      BY <2>2 DEF Lease
  <1>4. ASSUME NEW e \in Execution
        PROVE  Finished(e) \in [Keys -> Row]
    <2>1. e.key \in Keys
      BY DEF Execution
    <2>2. [jobs[e.key] EXCEPT !.status = "done", !.lockedBy = NoWorker,
                              !.expired = FALSE] \in Row
      BY <2>1, RowTyped
    <2>3. QED
      BY <2>1, <2>2 DEF Finished
  <1>5. ASSUME NEW e \in Execution
        PROVE  Failed(e) \in [Keys -> Row]
    <2>1. e.key \in Keys
      BY DEF Execution
    <2>2. Bury({e.key}) \in [Keys -> Row]
      BY <1>2, <2>1
    <2>3. [jobs[e.key] EXCEPT !.status = "failed", !.lockedBy = NoWorker,
                              !.expired = FALSE, !.due = FALSE] \in Row
      BY <2>1, RowTyped
    <2>4. QED
      BY <2>1, <2>2, <2>3 DEF Failed
  <1>6. QED
    BY <1>1, <1>2, <1>3, <1>4, <1>5

\* Claiming finitely many rows starts finitely many executions, no more than rows.
LEMMA StartedFinite ==
  ASSUME NEW S \in SUBSET Keys, NEW w
  PROVE  LET E == {[worker |-> w, key |-> k, gen |-> jobs[k].gen,
                    attempt |-> jobs[k].attempts + 1, at |-> "handler"] : k \in S}
         IN  IsFiniteSet(E) /\ Cardinality(E) <= Cardinality(S)
  <1> DEFINE f(k) == [worker |-> w, key |-> k, gen |-> jobs[k].gen,
                      attempt |-> jobs[k].attempts + 1, at |-> "handler"]
             g == [k \in S |-> f(k)]
             E == {f(k) : k \in S}
  <1>1. IsFiniteSet(S)
    BY KeysFinite, FS_Subset
  <1>2. g \in Surjection(S, E)
    BY DEF Surjection
  <1>3. IsFiniteSet(E) /\ Cardinality(E) <= Cardinality(S)
    BY <1>1, <1>2, FS_Surjection
  <1>4. QED
    BY <1>3

-----------------------------------------------------------------------------
(***************************************************************************)
(* Type correctness.  One step per action; the row updates are             *)
(* StatementsTyped, the finiteness of execs is StartedFinite.               *)
(***************************************************************************)

\* A helper for steps that move one execution on.
LEMMA MoveTyped ==
  ASSUME NEW e \in execs, execs \subseteq Execution, IsFiniteSet(execs),
         NEW place \in {"handler", "completing", "failing"}, MoveTo(e, place)
  PROVE  execs' \subseteq Execution /\ IsFiniteSet(execs')
  <1>1. [e EXCEPT !.at = place] \in Execution
    BY DEF Execution
  <1>2. IsFiniteSet(execs \ {e})
    BY FS_RemoveElement
  <1>3. IsFiniteSet((execs \ {e}) \cup {[e EXCEPT !.at = place]})
    BY <1>2, FS_AddElement
  <1>4. QED
    BY <1>1, <1>3 DEF MoveTo

\* Deadlines and buckets that pass leave the state well-formed.
LEMMA TypeTime == ASSUME TypeOK, TimeStep PROVE TypeOK'
  <1> USE DEF TypeOK, processes, history
  <1>1. CASE BucketPasses
    BY <1>1, ConstantsAssumption DEF BucketPasses
  <1>2. ASSUME NEW k \in Keys, RunAtPasses(k) PROVE TypeOK'
    <2>1. [jobs[k] EXCEPT !.due = TRUE] \in Row
      BY RowTyped
    <2>2. QED
      BY <1>2, <2>1 DEF RunAtPasses
  <1>3. ASSUME NEW k \in Keys, LeaseRunsOut(k) PROVE TypeOK'
    <2>1. [jobs[k] EXCEPT !.expired = TRUE] \in Row
      BY RowTyped
    <2>2. QED
      BY <1>3, <2>1 DEF LeaseRunsOut
  <1>4. ASSUME NEW k \in Keys, LeaseStalls(k) PROVE TypeOK'
    <2>1. [jobs[k] EXCEPT !.expired = TRUE] \in Row
      BY RowTyped
    <2>2. QED
      BY <1>4, <2>1 DEF LeaseStalls
  <1>5. QED
    BY <1>1, <1>2, <1>3, <1>4 DEF TimeStep

\* So do enqueue(), the retry of the administrator and retention.
LEMMA TypeOutside == ASSUME TypeOK, OutsideStep PROVE TypeOK'
  <1> USE DEF TypeOK, processes, history
  <1>1. ASSUME NEW k \in AppKeys, NEW d \in BOOLEAN, Enqueue(k, d) PROVE TypeOK'
    BY <1>1, StatementsTyped DEF Enqueue, Keys
  <1>2. ASSUME NEW k \in Keys, AdminRetry(k) PROVE TypeOK'
    <2>1. [jobs[k] EXCEPT !.status = "queued", !.attempts = 0, !.due = TRUE] \in Row
      BY RowTyped
    <2>2. RowId(k) \in Keys \X Nat
      BY DEF RowId, Row
    <2>3. QED
      BY <1>2, <2>1, <2>2 DEF AdminRetry
  <1>3. ASSUME NEW k \in Keys, DeleteFinished(k) PROVE TypeOK'
    <2>1. jobs[k].gen + 1 \in Nat
      BY DEF Row
    <2>2. Vacant(jobs[k].gen + 1) \in Row
      BY <2>1 DEF Vacant, Row, Statuses
    <2>3. QED
      BY <1>3, <2>2 DEF DeleteFinished
  <1>4. QED
    BY <1>1, <1>2, <1>3 DEF OutsideStep

\* So does every statement of JobWorker.pollOnce, also one that fails.
LEMMA TypePoll == ASSUME TypeOK, NEW w \in Workers, PollStep(w) PROVE TypeOK'
  <1> USE DEF TypeOK, processes, history
  <1>1. bucket \in Buckets => Insert(bucket, TRUE) \in [Keys -> Row]
    BY StatementsTyped DEF Keys
  <1>2. RecurringInsert(w) \in [Keys -> Row]
    BY <1>1 DEF RecurringInsert
  <1>3. IsFiniteSet(InFlight(w)) /\ Cardinality(InFlight(w)) \in Nat
    BY FS_Subset, FS_CardinalityType DEF InFlight
  <1>4. Idle \in [at: {"idle", "expire", "claim"}, free: Nat]
    BY DEF Idle
  <1>5. Exhausted \in SUBSET Keys /\ Claimable \in SUBSET Keys
    BY DEF Exhausted, Claimable
  <1>6. CASE ScheduleRecurring(w)
    <2> DEFINE free == Concurrency - Cardinality(InFlight(w))
    <2>1. free > 0 => [at |-> "expire", free |-> free] \in
                        [at: {"idle", "expire", "claim"}, free: Nat]
      BY <1>3, ConstantsAssumption
    <2>2. poll' \in [Workers -> [at: {"idle", "expire", "claim"}, free: Nat]]
      BY <1>6, <2>1 DEF ScheduleRecurring
    <2>3. QED
      BY <1>2, <1>6, <2>2 DEF ScheduleRecurring
  <1>7. CASE ExpireExhausted(w)
    <2>1. jobs' \in [Keys -> Row]
      BY <1>5, <1>7, StatementsTyped DEF ExpireExhausted
    <2>2. QED
      BY <1>7, <2>1 DEF ExpireExhausted
  <1>8. CASE PollFails(w)
    <2>1. Bury(Exhausted) \in [Keys -> Row]
      BY <1>5, StatementsTyped
    <2>2. \A S \in SUBSET Claimable : Lease(w, S) \in [Keys -> Row]
      BY <1>5, StatementsTyped
    <2>3. jobs' \in [Keys -> Row]
      BY <1>2, <1>8, <2>1, <2>2 DEF PollFails
    <2>4. poll' \in [Workers -> [at: {"idle", "expire", "claim"}, free: Nat]]
      BY <1>4, <1>8 DEF PollFails
    <2>5. QED
      BY <1>8, <2>3, <2>4, ConstantsAssumption DEF PollFails, DbError
  <1>9. ASSUME NEW S \in SUBSET Keys, Claim(w, S) PROVE TypeOK'
    <2> DEFINE E == {[worker |-> w, key |-> k, gen |-> jobs[k].gen,
                      attempt |-> jobs[k].attempts + 1, at |-> "handler"] : k \in S}
    <2>1. jobs' \in [Keys -> Row]
      BY <1>9, StatementsTyped DEF Claim
    <2>2. E \subseteq Execution
      BY DEF Execution, Row
    <2>3. IsFiniteSet(execs \cup E)
      BY StartedFinite, FS_Union
    <2>4. poll' \in [Workers -> [at: {"idle", "expire", "claim"}, free: Nat]]
      BY <1>4, <1>9 DEF Claim
    <2>5. QED
      BY <1>9, <2>1, <2>2, <2>3, <2>4 DEF Claim
  <1>10. QED
    BY <1>6, <1>7, <1>8, <1>9 DEF PollStep

\* A process that ends takes its executions along and leaves the rest well-formed.
LEMMA DieTyped ==
  ASSUME TypeOK, NEW w \in Workers, Die(w)
  PROVE  /\ mode' \in [Workers -> {"up", "stopping", "gone"}]
         /\ execs' \subseteq Execution /\ IsFiniteSet(execs')
         /\ poll' \in [Workers -> [at: {"idle", "expire", "claim"}, free: Nat]]
  <1>1. Idle \in [at: {"idle", "expire", "claim"}, free: Nat]
    BY DEF Idle
  <1>2. IsFiniteSet(execs \ InFlight(w))
    BY FS_Difference DEF TypeOK
  <1>3. QED
    BY <1>1, <1>2 DEF TypeOK, Die

\* Every step of JobWorker.execute leaves the state well-formed.
LEMMA TypeExec == ASSUME TypeOK, NEW e \in execs, ExecStep(e) PROVE TypeOK'
  <1> USE DEF TypeOK, processes, history
  <1>0. /\ e \in Execution /\ e.key \in Keys /\ e.worker \in Workers
        /\ <<e.key, e.gen>> \in Keys \X Nat
        /\ IsFiniteSet(execs \ {e})
    BY FS_RemoveElement DEF Execution
  <1>1. Finished(e) \in [Keys -> Row] /\ Failed(e) \in [Keys -> Row]
    BY <1>0, StatementsTyped
  <1>2. CASE Renew(e)
    <2>1. [jobs[e.key] EXCEPT !.expired = FALSE] \in Row
      BY <1>0, RowTyped
    <2>2. QED
      BY <1>0, <1>2, <2>1 DEF Renew
  <1>3. CASE HandlerReturns(e)
    BY <1>0, <1>3, MoveTyped DEF HandlerReturns
  <1>4. CASE HandlerThrows(e)
    BY <1>4, MoveTyped DEF HandlerThrows
  <1>5. CASE Complete(e)
    BY <1>0, <1>1, <1>5 DEF Complete
  <1>6. CASE CompleteErrors(e)
    BY <1>1, <1>6, MoveTyped DEF CompleteErrors, DbError
  <1>7. CASE Fail(e)
    BY <1>0, <1>1, <1>7 DEF Fail
  <1>8. CASE FailErrors(e)
    BY <1>0, <1>1, <1>8, DieTyped DEF FailErrors, DbError
  <1>9. QED
    BY <1>2, <1>3, <1>4, <1>5, <1>6, <1>7, <1>8 DEF ExecStep

\* The queue's state stays well-formed: every row has a legal status, every
\* execution belongs to a worker and a key, and only finitely many are in flight.
THEOREM TypeCorrect == Spec => []TypeOK
  <1>1. Init => TypeOK
    <2> SUFFICES ASSUME Init PROVE TypeOK
      OBVIOUS
    <2>1. Vacant(0) \in Row
      BY DEF Vacant, Row, Statuses
    <2>2. Idle \in [at: {"idle", "expire", "claim"}, free: Nat]
      BY DEF Idle
    <2>3. IsFiniteSet(execs)
      BY FS_EmptySet DEF Init
    <2>4. QED
      BY <2>1, <2>2, <2>3 DEF Init, TypeOK
  <1>2. TypeOK /\ [Next]_vars => TypeOK'
    <2> SUFFICES ASSUME TypeOK, [Next]_vars PROVE TypeOK'
      OBVIOUS
    <2>1. ASSUME NEW w \in Workers, Stop(w) PROVE TypeOK'
      BY <2>1 DEF Stop, TypeOK, history
    <2>2. ASSUME NEW w \in Workers, Exit(w) PROVE TypeOK'
      BY <2>2, DieTyped DEF Exit, TypeOK, history
    <2>3. CASE UNCHANGED vars
      BY <2>3 DEF vars, TypeOK
    <2>4. QED
      BY <2>1, <2>2, <2>3, TypeTime, TypeOutside, TypePoll, TypeExec DEF Next
  <1>3. QED
    BY <1>1, <1>2, PTL DEF Spec

-----------------------------------------------------------------------------
(***************************************************************************)
(* The lease is a lock.  NoOverlap alone is not inductive.  LeaseInv says   *)
(* what each execution of a job whose lease never ran out under a live      *)
(* worker knows of its row: either the row is leased to it, unexpired and   *)
(* with its attempt number, or the row is over, which is left behind by a    *)
(* completing UPDATE that was applied but reported as failed.                *)
(***************************************************************************)
Held(e) ==
  /\ OwnedBy(e.worker, e.key, e.gen)
  /\ ~jobs[e.key].expired
  /\ jobs[e.key].attempts = e.attempt

Over(e) ==
  /\ e.at = "failing"
  /\ \/ jobs[e.key].gen > e.gen
     \/ jobs[e.key].gen = e.gen /\ jobs[e.key].status = "done"

LeaseInv ==
  /\ \A e \in execs : stalls[e.key] = 0 => Held(e) \/ Over(e)
  /\ \A e1, e2 \in execs :
       (e1.key = e2.key /\ stalls[e1.key] = 0 /\ Held(e1) /\ Held(e2)) => e1 = e2

\* A step that starts no execution keeps LeaseInv when it leaves held rows held
\* and rows that are over, over.
LEMMA LeaseFrame ==
  ASSUME LeaseInv, execs' \subseteq execs,
         \A e \in execs' : stalls'[e.key] = 0 => stalls[e.key] = 0,
         \A e \in execs' : stalls[e.key] = 0 =>
            /\ Held(e) => Held(e)'
            /\ Over(e) => Over(e)' /\ ~Held(e)'
  PROVE  LeaseInv'
  <1>1. \A e \in execs' : stalls'[e.key] = 0 => Held(e)' \/ Over(e)'
    BY DEF LeaseInv
  <1>2. ASSUME NEW e1 \in execs', NEW e2 \in execs', e1.key = e2.key,
               stalls'[e1.key] = 0, Held(e1)', Held(e2)'
        PROVE  e1 = e2
    <2>1. stalls[e1.key] = 0 /\ stalls[e2.key] = 0
      BY <1>2
    <2>2. Held(e1) /\ Held(e2)
      BY <1>2, <2>1 DEF LeaseInv
    <2>3. QED
      BY <1>2, <2>1, <2>2 DEF LeaseInv
  <1>3. QED
    BY <1>1, <1>2 DEF LeaseInv

\* The facts about types that the steps below need.
LEMMA LeaseTypes ==
  ASSUME TypeOK
  PROVE  /\ jobs \in [Keys -> Row]
         /\ stalls \in [Keys -> Nat]
         /\ \A k \in Keys : jobs[k].gen \in Nat /\ jobs[k].attempts \in Nat
         /\ \A e \in execs : /\ e.key \in Keys /\ e.worker \in Workers
                             /\ e.gen \in Nat /\ e.attempt \in Nat
  BY DEF TypeOK, Row, Execution

\* Deadlines: a lease runs out only under a dead owner, or counts as a stall.
LEMMA LeaseTime == ASSUME TypeOK, LeaseInv, TimeStep PROVE LeaseInv'
  <1>0. /\ jobs \in [Keys -> Row]
        /\ \A k \in Keys : jobs[k].gen \in Nat
        /\ \A e \in execs : e.key \in Keys /\ e.gen \in Nat
        /\ stalls \in [Keys -> Nat]
    BY LeaseTypes
  <1> USE DEF processes, history
  <1>1. CASE BucketPasses
    <2>1. jobs' = jobs /\ execs' = execs /\ stalls' = stalls
      BY <1>1 DEF BucketPasses
    <2>2. QED
      BY <2>1 DEF LeaseInv, Held, Over, OwnedBy
  <1>2. ASSUME NEW k \in Keys, RunAtPasses(k) PROVE LeaseInv'
    <2>1. \A e \in execs : /\ Held(e) => Held(e)'
                           /\ Over(e) => Over(e)' /\ ~Held(e)'
      BY <1>0, <1>2 DEF RunAtPasses, Held, Over, OwnedBy, Row
    <2>2. QED
      BY <1>2, <2>1, LeaseFrame DEF RunAtPasses
  <1>3. ASSUME NEW k \in Keys, LeaseRunsOut(k) PROVE LeaseInv'
    <2>1. \A e \in execs : /\ Held(e) => Held(e)'
                           /\ Over(e) => Over(e)' /\ ~Held(e)'
      BY <1>0, <1>3 DEF LeaseRunsOut, Renewing, Held, Over, OwnedBy, Row
    <2>2. QED
      BY <1>3, <2>1, LeaseFrame DEF LeaseRunsOut
  <1>4. ASSUME NEW k \in Keys, LeaseStalls(k) PROVE LeaseInv'
    <2>1. \A e \in execs : e.key # k => /\ Held(e) <=> Held(e)'
                                        /\ Over(e) <=> Over(e)'
      BY <1>0, <1>4 DEF LeaseStalls, Held, Over, OwnedBy
    <2>2. stalls'[k] # 0 /\ \A i \in Keys : i # k => stalls'[i] = stalls[i]
      BY <1>0, <1>4 DEF LeaseStalls
    <2>3. execs' = execs
      BY <1>4 DEF LeaseStalls
    <2>4. QED
      BY <1>0, <2>1, <2>2, <2>3 DEF LeaseInv
  <1>5. QED
    BY <1>1, <1>2, <1>3, <1>4 DEF TimeStep

\* Producers touch no leased row; a retry revives only what nobody holds; a deleted
\* row is over for whoever still writes to it.
LEMMA LeaseOutside == ASSUME TypeOK, LeaseInv, OutsideStep PROVE LeaseInv'
  <1>0. /\ jobs \in [Keys -> Row]
        /\ \A k \in Keys : jobs[k].gen \in Nat
        /\ \A e \in execs : e.key \in Keys /\ e.gen \in Nat
    BY LeaseTypes
  <1> USE DEF processes, history
  <1>1. ASSUME NEW k \in AppKeys, NEW d \in BOOLEAN, Enqueue(k, d) PROVE LeaseInv'
    <2>1. \A e \in execs : /\ Held(e) => Held(e)'
                           /\ Over(e) => Over(e)' /\ ~Held(e)'
      BY <1>0, <1>1 DEF Enqueue, Insert, Held, Over, OwnedBy, Row
    <2>2. QED
      BY <1>1, <2>1, LeaseFrame DEF Enqueue
  <1>2. ASSUME NEW k \in Keys, AdminRetry(k) PROVE LeaseInv'
    <2>1. \A e \in execs : /\ Held(e) => Held(e)'
                           /\ Over(e) => Over(e)' /\ ~Held(e)'
      BY <1>0, <1>2 DEF AdminRetry, Held, Over, OwnedBy, Row
    <2>2. QED
      BY <1>2, <2>1, LeaseFrame DEF AdminRetry
  <1>3. ASSUME NEW k \in Keys, DeleteFinished(k) PROVE LeaseInv'
    <2>1. \A e \in execs : /\ Held(e) => Held(e)'
                           /\ Over(e) => Over(e)' /\ ~Held(e)'
      BY <1>0, <1>3 DEF DeleteFinished, Vacant, Held, Over, OwnedBy, Row
    <2>2. QED
      BY <1>3, <2>1, LeaseFrame DEF DeleteFinished
  <1>4. QED
    BY <1>1, <1>2, <1>3 DEF OutsideStep

\* No statement of a worker changes which row a key has.
LEMMA RowFrame ==
  ASSUME NEW r \in Row, NEW w, NEW n
  PROVE  /\ LET x == [r EXCEPT !.status = "running", !.lockedBy = w, !.expired = FALSE,
                               !.attempts = n]
            IN  /\ x.gen = r.gen /\ x.status = "running" /\ x.lockedBy = w
                /\ x.expired = FALSE /\ x.attempts = n
         /\ \A s \in {"dead", "done"} :
              [r EXCEPT !.status = s, !.lockedBy = NoWorker, !.expired = FALSE].gen = r.gen
         /\ [r EXCEPT !.status = "failed", !.lockedBy = NoWorker, !.expired = FALSE,
                      !.due = FALSE].gen = r.gen
  BY DEF Row

\* What the three statements of a poll do to rows that executions hold.
LEMMA LeasePollRows ==
  ASSUME TypeOK, LeaseInv, NEW e \in execs, stalls[e.key] = 0,
         NEW w \in Workers,
         \/ jobs' \in {jobs, RecurringInsert(w), Bury(Exhausted)}
         \/ \E S \in SUBSET Claimable : jobs' = Lease(w, S)
  PROVE  /\ Held(e) => Held(e)'
         /\ Over(e) => Over(e)' /\ ~Held(e)'
  <1>0. /\ jobs \in [Keys -> Row] /\ e.key \in Keys
        /\ jobs[e.key].gen \in Nat /\ e.gen \in Nat
    BY LeaseTypes
  <1>1. CASE jobs' = jobs
    BY <1>0, <1>1 DEF Held, Over, OwnedBy
  <1>2. CASE jobs' = RecurringInsert(w)
    BY <1>0, <1>2 DEF RecurringInsert, Insert, Held, Over, OwnedBy, Row
  <1>3. CASE jobs' = Bury(Exhausted)
    <2>1. Held(e) => e.key \notin Exhausted
      BY DEF Held, Exhausted
    <2>2. jobs'[e.key].gen = jobs[e.key].gen
      BY <1>0, <1>3, RowFrame DEF Bury
    <2>3. jobs[e.key].status = "done" => e.key \notin Exhausted
      BY DEF Exhausted
    <2>4. e.key \notin Exhausted => jobs'[e.key] = jobs[e.key]
      BY <1>0, <1>3 DEF Bury
    <2>5. QED
      BY <1>0, <2>1, <2>2, <2>3, <2>4 DEF Held, Over, OwnedBy
  <1>4. ASSUME NEW S \in SUBSET Claimable, jobs' = Lease(w, S)
        PROVE  /\ Held(e) => Held(e)'
               /\ Over(e) => Over(e)' /\ ~Held(e)'
    <2>1. Held(e) => e.key \notin S
      BY <1>4 DEF Held, OwnedBy, Claimable
    <2>2. jobs'[e.key].gen = jobs[e.key].gen
      <3>1. CASE e.key \in S
        <4>1. jobs'[e.key] = [jobs[e.key] EXCEPT !.status = "running", !.lockedBy = w,
                               !.expired = FALSE, !.attempts = @ + 1]
          BY <1>0, <1>4, <3>1 DEF Lease
        <4>2. QED
          BY <1>0, <4>1, RowFrame
      <3>2. CASE e.key \notin S
        BY <1>0, <1>4, <3>2 DEF Lease
      <3>3. QED
        BY <3>1, <3>2
    <2>3. jobs[e.key].status = "done" => e.key \notin S
      BY <1>4 DEF Claimable
    <2>4. e.key \notin S => jobs'[e.key] = jobs[e.key]
      BY <1>0, <1>4 DEF Lease
    <2>5. QED
      BY <1>0, <2>1, <2>2, <2>3, <2>4 DEF Held, Over, OwnedBy
  <1>5. QED
    BY <1>1, <1>2, <1>3, <1>4

\* Burying and claiming touch a leased row only when its lease is expired, and then
\* no execution holds it: what a claim starts is the one holder.
LEMMA LeasePoll == ASSUME TypeOK, LeaseInv, NEW w \in Workers, PollStep(w) PROVE LeaseInv'
  <1>0. /\ jobs \in [Keys -> Row]
        /\ \A k \in Keys : jobs[k].gen \in Nat
        /\ \A e \in execs : e.key \in Keys /\ e.gen \in Nat
    BY LeaseTypes
  <1> USE DEF processes, history
  <1>1. CASE ScheduleRecurring(w)
    BY <1>1, LeasePollRows, LeaseFrame DEF ScheduleRecurring
  <1>2. CASE ExpireExhausted(w)
    BY <1>2, LeasePollRows, LeaseFrame DEF ExpireExhausted
  <1>3. CASE PollFails(w)
    <2>1. \/ jobs' \in {jobs, RecurringInsert(w), Bury(Exhausted)}
          \/ \E S \in SUBSET Claimable : jobs' = Lease(w, S)
      BY <1>3 DEF PollFails
    <2>2. execs' = execs /\ stalls' = stalls
      BY <1>3 DEF PollFails
    <2>3. QED
      BY <2>1, <2>2, LeasePollRows, LeaseFrame
  <1>4. ASSUME NEW S \in SUBSET Keys, Claim(w, S) PROVE LeaseInv'
    <2> DEFINE new(k) == [worker |-> w, key |-> k, gen |-> jobs[k].gen,
                          attempt |-> jobs[k].attempts + 1, at |-> "handler"]
    <2>1. /\ S \in SUBSET Claimable /\ jobs' = Lease(w, S) /\ stalls' = stalls
          /\ execs' = execs \cup {new(k) : k \in S}
      BY <1>4 DEF Claim
    <2>2. ASSUME NEW e \in execs, stalls[e.key] = 0
          PROVE  /\ Held(e) => Held(e)'
                 /\ Over(e) => Over(e)' /\ ~Held(e)'
      BY <2>1, <2>2, LeasePollRows
    <2>3. ASSUME NEW k \in S, NEW e, e = new(k)
          PROVE  Held(e)'
      <3>1. jobs'[k] = [jobs[k] EXCEPT !.status = "running", !.lockedBy = w,
                                       !.expired = FALSE, !.attempts = @ + 1]
        BY <1>0, <2>1 DEF Lease
      <3>2. /\ jobs'[k].status = "running" /\ jobs'[k].lockedBy = w
            /\ ~jobs'[k].expired /\ jobs'[k].attempts = jobs[k].attempts + 1
            /\ jobs'[k].gen = jobs[k].gen
        <4>1. jobs[k] \in Row
          BY <1>0, <1>4
        <4>2. QED
          BY <3>1, <4>1, RowFrame
      <3>3. QED
        BY <2>3, <3>2 DEF Held, OwnedBy
    <2>4. ASSUME NEW e \in execs, e.key \in S, stalls[e.key] = 0
          PROVE  ~Held(e)'
      <3>1. ~Held(e)
        BY <2>1, <2>4 DEF Held, OwnedBy, Claimable
      <3>2. QED
        BY <2>2, <2>4, <3>1 DEF LeaseInv
    <2>5. \A e \in execs' : stalls'[e.key] = 0 => Held(e)' \/ Over(e)'
      <3>1. ASSUME NEW e \in execs, stalls'[e.key] = 0 PROVE Held(e)' \/ Over(e)'
        BY <2>1, <2>2, <3>1 DEF LeaseInv
      <3>2. \A e \in {new(k) : k \in S} : Held(e)'
        BY <2>3
      <3>3. QED
        BY <2>1, <3>1, <3>2
    <2>6. ASSUME NEW e1 \in execs', NEW e2 \in execs', e1.key = e2.key,
                 stalls'[e1.key] = 0, Held(e1)', Held(e2)'
          PROVE  e1 = e2
      <3>1. CASE e1.key \in S
        BY <2>1, <2>4, <2>6, <3>1
      <3>2. CASE e1.key \notin S
        <4>1. e1 \in execs /\ e2 \in execs /\ stalls[e1.key] = 0 /\ stalls[e2.key] = 0
          BY <2>1, <2>6, <3>2
        <4>2. Held(e1) /\ Held(e2)
          BY <2>2, <2>6, <4>1 DEF LeaseInv
        <4>3. QED
          BY <2>6, <4>1, <4>2 DEF LeaseInv
      <3>3. QED
        BY <3>1, <3>2
    <2>7. QED
      BY <2>5, <2>6 DEF LeaseInv
  <1>5. QED
    BY <1>1, <1>2, <1>3, <1>4 DEF PollStep

\* A write of one execution's result leaves every other execution's row alone,
\* because an execution that holds its row is the only one to do so.
LEMMA LeaseResultRows ==
  ASSUME TypeOK, LeaseInv, NEW e \in execs, NEW o \in execs, o # e,
         stalls[o.key] = 0, jobs' \in {jobs, Finished(e), Failed(e)}
  PROVE  /\ Held(o) => Held(o)'
         /\ Over(o) => Over(o)' /\ ~Held(o)'
  <1>0. /\ jobs \in [Keys -> Row] /\ e.key \in Keys /\ o.key \in Keys
        /\ jobs[o.key].gen \in Nat /\ o.gen \in Nat
    BY LeaseTypes
  <1>1. CASE jobs' = jobs
    BY <1>0, <1>1 DEF Held, Over, OwnedBy
  <1>2. CASE jobs' # jobs
    <2>1. OwnedBy(e.worker, e.key, e.gen)
      BY <1>2 DEF Finished, Failed
    <2>2. \A k \in Keys : k # e.key => jobs'[k] = jobs[k]
      BY <1>0, <1>2 DEF Finished, Failed, Bury
    <2>3. CASE o.key # e.key
      BY <1>0, <2>2, <2>3 DEF Held, Over, OwnedBy
    <2>4. CASE o.key = e.key
      <3>1. Held(e)
        BY <1>0, <2>1, <2>4 DEF LeaseInv, Over, OwnedBy
      <3>2. ~Held(o)
        BY <2>4, <3>1 DEF LeaseInv
      <3>3. Over(o) => jobs[o.key].gen > o.gen
        BY <2>1, <2>4 DEF Over, OwnedBy
      <3>4. jobs'[o.key].gen = jobs[o.key].gen
        <4>1. jobs[e.key] \in Row
          BY <1>0
        <4>2. CASE jobs' = Finished(e)
          BY <1>0, <2>4, <4>1, <4>2, RowFrame DEF Finished
        <4>3. CASE jobs' = Failed(e)
          BY <1>0, <2>4, <4>1, <4>3, RowFrame DEF Failed, Bury
        <4>4. QED
          BY <1>2, <4>2, <4>3
      <3>5. QED
        BY <1>0, <3>2, <3>3, <3>4 DEF Over, Held, OwnedBy
    <2>5. QED
      BY <2>3, <2>4
  <1>3. QED
    BY <1>1, <1>2

\* An execution changes the row it holds and no other one, and then it is gone or
\* its row is over.
LEMMA LeaseExec == ASSUME TypeOK, LeaseInv, NEW e \in execs, ExecStep(e) PROVE LeaseInv'
  <1>0. /\ jobs \in [Keys -> Row]
        /\ \A k \in Keys : jobs[k].gen \in Nat
        /\ \A x \in execs : x.key \in Keys /\ x.gen \in Nat /\ x \in Execution
    BY LeaseTypes DEF TypeOK
  <1> USE DEF processes, history
  <1>1. CASE Renew(e)
    <2>1. \A x \in execs : stalls[x.key] = 0 => /\ Held(x) => Held(x)'
                                                /\ Over(x) => Over(x)' /\ ~Held(x)'
      BY <1>0, <1>1 DEF Renew, Held, Over, OwnedBy, Row
    <2>2. QED
      BY <1>1, <2>1, LeaseFrame DEF Renew
  <1>2. CASE Complete(e) \/ Fail(e)
    <2>1. /\ jobs' \in {jobs, Finished(e), Failed(e)}
          /\ execs' = execs \ {e} /\ stalls' = stalls
      BY <1>2 DEF Complete, Fail
    <2>2. QED
      BY <2>1, LeaseResultRows, LeaseFrame
  <1>3. CASE FailErrors(e)
    <2>1. /\ jobs' \in {jobs, Finished(e), Failed(e)}
          /\ execs' \subseteq execs \ {e} /\ stalls' = stalls
      BY <1>3 DEF FailErrors, Die, InFlight
    <2>2. QED
      BY <2>1, LeaseResultRows, LeaseFrame
  <1>4. CASE HandlerReturns(e) \/ HandlerThrows(e) \/ CompleteErrors(e)
    <2>1. PICK place \in {"completing", "failing"} :
             execs' = (execs \ {e}) \cup {[e EXCEPT !.at = place]}
      BY <1>4 DEF HandlerReturns, HandlerThrows, CompleteErrors, MoveTo
    <2> DEFINE n == [e EXCEPT !.at = place]
    <2>2. /\ n.key = e.key /\ n.gen = e.gen /\ n.worker = e.worker
          /\ n.attempt = e.attempt /\ n.at = place
      BY <1>0 DEF Execution
    <2>3. stalls' = stalls /\ jobs' \in {jobs, Finished(e), Failed(e)}
      BY <1>4 DEF HandlerReturns, HandlerThrows, CompleteErrors
    <2>4. \A o \in execs \ {e} : stalls[o.key] = 0 =>
             /\ Held(o) => Held(o)'
             /\ Over(o) => Over(o)' /\ ~Held(o)'
      BY <2>3, LeaseResultRows
    <2>5. ASSUME stalls[e.key] = 0
          PROVE  /\ Held(n)' \/ Over(n)'
                 /\ Held(n)' => Held(e)
      <3>1. CASE jobs' = jobs
        <4>1. Held(n)' <=> Held(e)
          BY <2>2, <3>1 DEF Held, OwnedBy
        <4>2. Held(e) \/ e.at = "failing"
          BY <2>5 DEF LeaseInv, Over
        <4>3. e.at # "failing"
          BY <1>4 DEF HandlerReturns, HandlerThrows, CompleteErrors
        <4>4. QED
          BY <4>1, <4>2, <4>3
      <3>2. CASE jobs' # jobs
        <4>1. CompleteErrors(e) /\ jobs' = Finished(e)
          BY <1>4, <3>2 DEF HandlerReturns, HandlerThrows, CompleteErrors
        <4>2. OwnedBy(e.worker, e.key, e.gen)
          BY <3>2, <4>1 DEF Finished
        <4>3. jobs'[e.key] = [jobs[e.key] EXCEPT !.status = "done",
                                 !.lockedBy = NoWorker, !.expired = FALSE]
          BY <1>0, <4>1, <4>2 DEF Finished
        <4>4. jobs'[e.key].status = "done" /\ jobs'[e.key].gen = e.gen
          BY <1>0, <4>2, <4>3 DEF Row, OwnedBy
        <4>5. e.at = "completing"
          BY <4>1 DEF CompleteErrors
        <4>6. place = "failing"
          <5>1. n \in execs' /\ [e EXCEPT !.at = "failing"] \in execs'
            BY <2>1, <4>1 DEF CompleteErrors, MoveTo
          <5>2. execs' = (execs \ {e}) \cup {[e EXCEPT !.at = "failing"]}
            BY <4>1 DEF CompleteErrors, MoveTo
          <5>3. CASE place = "completing"
            <6>1. n = e
              BY <1>0, <4>5, <5>3 DEF Execution
            <6>2. [e EXCEPT !.at = "failing"] # e
              BY <1>0, <4>5 DEF Execution
            <6>3. QED
              BY <5>1, <5>2, <6>1, <6>2
          <5>4. QED
            BY <5>3
        <4>7. QED
          BY <2>2, <4>4, <4>6 DEF Over, Held, OwnedBy
      <3>3. QED
        BY <3>1, <3>2
    <2>6. \A x \in execs' : stalls'[x.key] = 0 => Held(x)' \/ Over(x)'
      BY <2>1, <2>2, <2>3, <2>4, <2>5 DEF LeaseInv
    <2>7. ASSUME NEW x \in execs', NEW y \in execs', x.key = y.key,
                 stalls'[x.key] = 0, Held(x)', Held(y)'
          PROVE  x = y
      <3>1. ASSUME NEW o \in execs \ {e}, o.key = e.key, stalls[e.key] = 0,
                   Held(o)', Held(n)'
            PROVE  FALSE
        <4>1. Held(o)
          BY <2>4, <3>1 DEF LeaseInv
        <4>2. Held(e)
          BY <2>5, <3>1
        <4>3. QED
          BY <3>1, <4>1, <4>2 DEF LeaseInv
      <3>2. CASE x \in execs \ {e} /\ y \in execs \ {e}
        <4>1. Held(x) /\ Held(y) /\ stalls[x.key] = 0
          BY <2>3, <2>4, <2>7, <3>2 DEF LeaseInv
        <4>2. QED
          BY <2>7, <3>2, <4>1 DEF LeaseInv
      <3>3. CASE x = n \/ y = n
        BY <2>1, <2>2, <2>3, <2>7, <3>1, <3>3
      <3>4. QED
        BY <2>1, <3>2, <3>3
    <2>8. QED
      BY <2>6, <2>7 DEF LeaseInv
  <1>5. QED
    BY <1>1, <1>2, <1>3, <1>4 DEF ExecStep

\* LeaseInv is an invariant of the queue, for every value of the constants.
LEMMA LeaseIsInvariant == Spec => []LeaseInv
  <1>1. Init => LeaseInv
    BY DEF Init, LeaseInv
  <1>2. TypeOK /\ LeaseInv /\ [Next]_vars => LeaseInv'
    <2> SUFFICES ASSUME TypeOK, LeaseInv, [Next]_vars PROVE LeaseInv'
      OBVIOUS
    <2>1. ASSUME NEW w \in Workers, Stop(w) \/ Exit(w) PROVE LeaseInv'
      <3>1. jobs' = jobs /\ stalls' = stalls /\ execs' \subseteq execs
        BY <2>1 DEF Stop, Exit, Die, history
      <3>2. \A e \in execs : /\ Held(e)' <=> Held(e)
                             /\ Over(e)' <=> Over(e)
        BY <3>1 DEF Held, Over, OwnedBy
      <3>3. QED
        BY <3>1, <3>2 DEF LeaseInv
    <2>2. CASE UNCHANGED vars
      <3>1. jobs' = jobs /\ stalls' = stalls /\ execs' = execs
        BY <2>2 DEF vars
      <3>2. QED
        BY <3>1 DEF LeaseInv, Held, Over, OwnedBy
    <2>3. QED
      BY <2>1, <2>2, LeaseTime, LeaseOutside, LeasePoll, LeaseExec DEF Next
  <1>3. QED
    BY <1>1, <1>2, TypeCorrect, PTL DEF Spec

\* Mutual exclusion of the handlers of one job: as long as no lease of the job
\* ran out under a live worker, at most one execution runs its handler, through
\* crashes, failed statements, deletions and administrator's retries.
THEOREM LeaseIsALock == Spec => []NoOverlap
  <1>1. LeaseInv => NoOverlap
    BY DEF LeaseInv, NoOverlap, Over
  <1>2. QED
    BY <1>1, LeaseIsInvariant, PTL

-----------------------------------------------------------------------------
(***************************************************************************)
(* What executions and the history know of the rows.  QueueInv is inductive *)
(* without the lease: whatever stalls, an execution belongs to the row of   *)
(* its key or to a deleted one, has been counted in `attempts` unless an     *)
(* administrator reset the count, and a row is done only once its handler    *)
(* has returned.                                                            *)
(***************************************************************************)
KnowsItsRow(e) ==
  /\ e.gen <= jobs[e.key].gen
  /\ e.gen = jobs[e.key].gen => jobs[e.key].status # "none"
  /\ (e.gen = jobs[e.key].gen /\ <<e.key, e.gen>> \notin retried)
       => e.attempt <= jobs[e.key].attempts
  /\ e.at = "completing" => <<e.key, e.gen>> \in succeeded

RecordIsTrue ==
  \A k \in Keys : /\ \A g \in Nat : <<k, g>> \in succeeded => g <= jobs[k].gen
                  /\ jobs[k].status = "done" => RowId(k) \in succeeded

QueueInv ==
  /\ \A e \in execs : KnowsItsRow(e)
  /\ AttemptsDistinct
  /\ RecordIsTrue

\* Row by row, what the statements write: none of them changes which row a key
\* has, and only a claim touches the count of attempts.
LEMMA StatementRows ==
  ASSUME jobs \in [Keys -> Row], NEW k \in Keys
  PROVE  /\ \A i \in Keys, d \in BOOLEAN :
              /\ Insert(i, d)[k].gen = jobs[k].gen
              /\ Insert(i, d)[k].attempts = jobs[k].attempts
              /\ Insert(i, d)[k].status = IF k = i /\ jobs[k].status = "none"
                                          THEN "queued" ELSE jobs[k].status
         /\ \A S \in SUBSET Keys :
              /\ Bury(S)[k].gen = jobs[k].gen
              /\ Bury(S)[k].attempts = jobs[k].attempts
              /\ Bury(S)[k].status = IF k \in S THEN "dead" ELSE jobs[k].status
         /\ \A w \in Workers, S \in SUBSET Keys :
              /\ Lease(w, S)[k].gen = jobs[k].gen
              /\ Lease(w, S)[k].attempts = IF k \in S THEN jobs[k].attempts + 1
                                                      ELSE jobs[k].attempts
              /\ Lease(w, S)[k].status = IF k \in S THEN "running" ELSE jobs[k].status
  <1>0. jobs[k] \in Row
    OBVIOUS
  <1>1. ASSUME NEW i \in Keys, NEW d \in BOOLEAN
        PROVE  /\ Insert(i, d)[k].gen = jobs[k].gen
               /\ Insert(i, d)[k].attempts = jobs[k].attempts
               /\ Insert(i, d)[k].status = IF k = i /\ jobs[k].status = "none"
                                           THEN "queued" ELSE jobs[k].status
    BY <1>0 DEF Insert, Row
  <1>2. ASSUME NEW S \in SUBSET Keys
        PROVE  /\ Bury(S)[k].gen = jobs[k].gen
               /\ Bury(S)[k].attempts = jobs[k].attempts
               /\ Bury(S)[k].status = IF k \in S THEN "dead" ELSE jobs[k].status
    BY <1>0 DEF Bury, Row
  <1>3. ASSUME NEW w \in Workers, NEW S \in SUBSET Keys
        PROVE  /\ Lease(w, S)[k].gen = jobs[k].gen
               /\ Lease(w, S)[k].attempts = IF k \in S THEN jobs[k].attempts + 1
                                                       ELSE jobs[k].attempts
               /\ Lease(w, S)[k].status = IF k \in S THEN "running" ELSE jobs[k].status
    BY <1>0 DEF Lease, Row
  <1>4. QED
    BY <1>1, <1>2, <1>3

\* The same of the two statements that write an execution's result.
LEMMA ResultRows ==
  ASSUME jobs \in [Keys -> Row], NEW e \in Execution, NEW k \in Keys
  PROVE  /\ Finished(e)[k].gen = jobs[k].gen
         /\ Finished(e)[k].attempts = jobs[k].attempts
         /\ Finished(e)[k].status =
              IF k = e.key /\ OwnedBy(e.worker, e.key, e.gen) THEN "done" ELSE jobs[k].status
         /\ Failed(e)[k].gen = jobs[k].gen
         /\ Failed(e)[k].attempts = jobs[k].attempts
         /\ Failed(e)[k].status =
              IF k = e.key /\ OwnedBy(e.worker, e.key, e.gen)
              THEN IF e.attempt >= MaxAttempts THEN "dead" ELSE "failed"
              ELSE jobs[k].status
  <1>0. jobs[k] \in Row /\ e.key \in Keys
    BY DEF Execution
  <1>1. /\ Finished(e)[k].gen = jobs[k].gen
        /\ Finished(e)[k].attempts = jobs[k].attempts
        /\ Finished(e)[k].status =
             IF k = e.key /\ OwnedBy(e.worker, e.key, e.gen) THEN "done" ELSE jobs[k].status
    BY <1>0 DEF Finished, Row
  <1>2. CASE ~OwnedBy(e.worker, e.key, e.gen)
    BY <1>1, <1>2 DEF Failed
  <1>3. CASE OwnedBy(e.worker, e.key, e.gen) /\ e.attempt >= MaxAttempts
    <2>1. Failed(e) = Bury({e.key})
      BY <1>3 DEF Failed
    <2>2. QED
      BY <1>0, <1>1, <1>3, <2>1, StatementRows
  <1>4. CASE OwnedBy(e.worker, e.key, e.gen) /\ ~(e.attempt >= MaxAttempts)
    <2>1. Failed(e) = [jobs EXCEPT ![e.key] = [@ EXCEPT !.status = "failed",
                         !.lockedBy = NoWorker, !.expired = FALSE, !.due = FALSE]]
      BY <1>4 DEF Failed
    <2>2. QED
      BY <1>0, <1>1, <1>4, <2>1 DEF Row
  <1>5. QED
    BY <1>2, <1>3, <1>4

\* A step that starts no execution keeps QueueInv when every key keeps its row, no
\* attempt is taken back, no row vanishes and every newly done one has succeeded.
LEMMA QueueFrame ==
  ASSUME TypeOK, QueueInv,
         execs' \subseteq execs, retried \subseteq retried', succeeded' = succeeded,
         \A k \in Keys :
           /\ jobs'[k].gen = jobs[k].gen
           /\ RowId(k) \notin retried' => jobs[k].attempts <= jobs'[k].attempts
           /\ jobs'[k].attempts \in Nat
           /\ jobs'[k].status = "none" => jobs[k].status = "none"
           /\ jobs'[k].status = "done" => jobs[k].status = "done" \/ RowId(k) \in succeeded
  PROVE  QueueInv'
  <1>0. /\ \A k \in Keys : jobs[k].gen \in Nat /\ jobs[k].attempts \in Nat
        /\ \A e \in execs : e.key \in Keys /\ e.gen \in Nat /\ e.attempt \in Nat
    BY LeaseTypes
  <1>1. ASSUME NEW e \in execs' PROVE KnowsItsRow(e)'
    <2>1. e \in execs /\ KnowsItsRow(e) /\ e.key \in Keys
      BY <1>0 DEF QueueInv
    <2>2. jobs'[e.key].gen = jobs[e.key].gen
      BY <2>1
    <2>3. ASSUME e.gen = jobs'[e.key].gen, <<e.key, e.gen>> \notin retried'
          PROVE  e.attempt <= jobs'[e.key].attempts
      <3>1. RowId(e.key) \notin retried' /\ <<e.key, e.gen>> \notin retried
        BY <2>2, <2>3 DEF RowId
      <3>2. /\ e.attempt <= jobs[e.key].attempts
            /\ jobs[e.key].attempts <= jobs'[e.key].attempts
        BY <2>1, <2>2, <2>3, <3>1 DEF KnowsItsRow
      <3>3. QED
        BY <1>0, <2>1, <3>2
    <2>4. QED
      BY <2>1, <2>2, <2>3 DEF KnowsItsRow
  <1>2. AttemptsDistinct'
    BY DEF QueueInv, AttemptsDistinct
  <1>3. RecordIsTrue'
    BY DEF QueueInv, RecordIsTrue, RowId
  <1>4. QED
    BY <1>1, <1>2, <1>3 DEF QueueInv

\* A step that moves one execution on and writes no new row keeps QueueInv too.
LEMMA QueueMoves ==
  ASSUME TypeOK, QueueInv, NEW e \in execs, NEW place \in {"completing", "failing"},
         MoveTo(e, place), retried' = retried,
         succeeded' \in {succeeded, succeeded \cup {<<e.key, e.gen>>}},
         place = "completing" => <<e.key, e.gen>> \in succeeded',
         jobs' \in {jobs, Finished(e)},
         jobs' = jobs \/ <<e.key, e.gen>> \in succeeded
  PROVE  QueueInv'
  <1>0. /\ jobs \in [Keys -> Row]
        /\ \A k \in Keys : jobs[k].gen \in Nat /\ jobs[k].attempts \in Nat
        /\ \A x \in execs : /\ x.key \in Keys /\ x.gen \in Nat /\ x.attempt \in Nat
                            /\ x \in Execution
    BY LeaseTypes DEF TypeOK
  <1> DEFINE n == [e EXCEPT !.at = place]
  <1>1. /\ n.key = e.key /\ n.gen = e.gen /\ n.attempt = e.attempt /\ n.at = place
        /\ execs' = (execs \ {e}) \cup {n}
    BY <1>0 DEF Execution, MoveTo
  <1>2. \A k \in Keys : /\ jobs'[k].gen = jobs[k].gen
                        /\ jobs'[k].attempts = jobs[k].attempts
                        /\ jobs'[k].status = "none" => jobs[k].status = "none"
                        /\ jobs'[k].status = "done" =>
                             jobs[k].status = "done" \/ RowId(k) \in succeeded
    <2>1. CASE jobs' = jobs
      BY <2>1
    <2>2. CASE jobs' = Finished(e) /\ <<e.key, e.gen>> \in succeeded
      BY <1>0, <2>2, ResultRows DEF OwnedBy, RowId
    <2>3. QED
      BY <2>1, <2>2
  <1>3. ASSUME NEW x \in execs' PROVE KnowsItsRow(x)'
    <2>1. PICK y \in execs : /\ y.key = x.key /\ y.gen = x.gen /\ y.attempt = x.attempt
                             /\ x = y \/ (x = n /\ y = e)
      BY <1>1
    <2>2. KnowsItsRow(y) /\ y.key \in Keys
      BY <1>0 DEF QueueInv
    <2>3. x.at = "completing" => <<x.key, x.gen>> \in succeeded'
      <3>1. CASE x = y
        <4>1. succeeded \subseteq succeeded'
          OBVIOUS
        <4>2. QED
          BY <2>2, <3>1, <4>1 DEF KnowsItsRow
      <3>2. CASE x = n /\ y = e
        BY <1>1, <3>2
      <3>3. QED
        BY <2>1, <3>1, <3>2
    <2>4. QED
      BY <1>2, <2>1, <2>2, <2>3 DEF KnowsItsRow
  <1>4. AttemptsDistinct'
    <2> SUFFICES ASSUME NEW e1 \in execs', NEW e2 \in execs',
                        e1.key = e2.key, e1.gen = e2.gen, e1.attempt = e2.attempt,
                        <<e1.key, e1.gen>> \notin retried
                 PROVE  e1 = e2
      BY DEF AttemptsDistinct
    <2>1. ASSUME NEW o \in execs \ {e}, o.key = e.key, o.gen = e.gen,
                 o.attempt = e.attempt, <<e.key, e.gen>> \notin retried
          PROVE  FALSE
      BY <2>1 DEF QueueInv, AttemptsDistinct
    <2>2. CASE e1 \in execs \ {e} /\ e2 \in execs \ {e}
      BY <2>2 DEF QueueInv, AttemptsDistinct
    <2>3. CASE e1 = n \/ e2 = n
      BY <1>1, <2>1, <2>3
    <2>4. QED
      BY <1>1, <2>2, <2>3
  <1>5. RecordIsTrue'
    <2>1. ASSUME NEW k \in Keys, NEW g \in Nat, <<k, g>> \in succeeded'
          PROVE  g <= jobs'[k].gen
      <3>1. CASE <<k, g>> \in succeeded
        BY <1>2, <3>1 DEF QueueInv, RecordIsTrue
      <3>2. CASE k = e.key /\ g = e.gen
        BY <1>2, <3>2 DEF QueueInv, KnowsItsRow
      <3>3. QED
        BY <2>1, <3>1, <3>2
    <2>2. ASSUME NEW k \in Keys, jobs'[k].status = "done"
          PROVE  RowId(k)' \in succeeded'
      BY <1>2, <2>2 DEF QueueInv, RecordIsTrue, RowId
    <2>3. QED
      BY <2>1, <2>2 DEF RecordIsTrue
  <1>6. QED
    BY <1>3, <1>4, <1>5 DEF QueueInv

\* Deadlines that pass leave what is known of the rows as it is.
LEMMA QueueTime == ASSUME TypeOK, QueueInv, TimeStep PROVE QueueInv'
  <1>0. /\ jobs \in [Keys -> Row]
        /\ \A k \in Keys : jobs[k] \in Row /\ jobs[k].attempts \in Nat
    BY LeaseTypes
  <1> USE DEF processes, history
  <1>1. CASE BucketPasses
    BY <1>0, <1>1, QueueFrame DEF BucketPasses
  <1>2. ASSUME NEW k \in Keys, RunAtPasses(k) \/ LeaseRunsOut(k) \/ LeaseStalls(k)
        PROVE  QueueInv'
    <2>1. /\ jobs' \in {[jobs EXCEPT ![k] = [@ EXCEPT !.due = TRUE]],
                        [jobs EXCEPT ![k] = [@ EXCEPT !.expired = TRUE]]}
          /\ execs' = execs /\ retried' = retried /\ succeeded' = succeeded
      BY <1>2 DEF RunAtPasses, LeaseRunsOut, LeaseStalls
    <2>2. \A i \in Keys : /\ jobs'[i].gen = jobs[i].gen
                          /\ jobs'[i].attempts = jobs[i].attempts
                          /\ jobs'[i].status = jobs[i].status
      BY <1>0, <2>1 DEF Row
    <2>3. QED
      BY <1>0, <2>1, <2>2, QueueFrame
  <1>3. QED
    BY <1>1, <1>2 DEF TimeStep

\* A retry remembers that it took attempts back; a deletion retires the row.
LEMMA QueueOutside == ASSUME TypeOK, QueueInv, OutsideStep PROVE QueueInv'
  <1>0. /\ jobs \in [Keys -> Row]
        /\ \A k \in Keys : jobs[k] \in Row /\ jobs[k].attempts \in Nat /\ jobs[k].gen \in Nat
        /\ \A e \in execs : e.key \in Keys /\ e.gen \in Nat
    BY LeaseTypes
  <1> USE DEF processes, history
  <1>1. ASSUME NEW k \in AppKeys, NEW d \in BOOLEAN, Enqueue(k, d) PROVE QueueInv'
    <2>1. \A i \in Keys : /\ jobs'[i].gen = jobs[i].gen
                          /\ jobs'[i].attempts = jobs[i].attempts
                          /\ jobs'[i].status = "none" => jobs[i].status = "none"
                          /\ jobs'[i].status = "done" => jobs[i].status = "done"
      BY <1>0, <1>1, StatementRows DEF Enqueue, Keys
    <2>2. QED
      BY <1>0, <1>1, <2>1, QueueFrame DEF Enqueue
  <1>2. ASSUME NEW k \in Keys, AdminRetry(k) PROVE QueueInv'
    <2>1. jobs' = [jobs EXCEPT ![k] = [@ EXCEPT !.status = "queued", !.attempts = 0,
                                                !.due = TRUE]]
      BY <1>2 DEF AdminRetry
    <2>2. /\ jobs'[k].gen = jobs[k].gen /\ jobs'[k].attempts = 0
          /\ jobs'[k].status = "queued"
          /\ \A i \in Keys \ {k} : jobs'[i] = jobs[i]
      BY <1>0, <2>1 DEF Row
    <2>3. retried' = retried \cup {RowId(k)} /\ execs' = execs /\ succeeded' = succeeded
      BY <1>2 DEF AdminRetry
    <2>4. QED
      BY <1>0, <2>2, <2>3, QueueFrame
  <1>3. ASSUME NEW k \in Keys, DeleteFinished(k) PROVE QueueInv'
    <2>1. /\ jobs' = [jobs EXCEPT ![k] = Vacant(jobs[k].gen + 1)]
          /\ execs' = execs /\ retried' = retried /\ succeeded' = succeeded
      BY <1>3 DEF DeleteFinished
    <2>2. /\ jobs'[k].gen = jobs[k].gen + 1 /\ jobs'[k].status = "none"
          /\ \A i \in Keys \ {k} : jobs'[i] = jobs[i]
      BY <1>0, <2>1 DEF Vacant
    <2>3. ASSUME NEW e \in execs PROVE KnowsItsRow(e)'
      <3>1. KnowsItsRow(e)
        BY DEF QueueInv
      <3>2. CASE e.key = k
        <4>1. e.gen < jobs'[k].gen
          BY <1>0, <2>2, <3>1, <3>2 DEF KnowsItsRow
        <4>2. QED
          BY <1>0, <2>1, <2>2, <3>1, <3>2, <4>1 DEF KnowsItsRow
      <3>3. CASE e.key # k
        BY <1>0, <2>1, <2>2, <3>1, <3>3 DEF KnowsItsRow
      <3>4. QED
        BY <3>2, <3>3
    <2>4. AttemptsDistinct'
      BY <2>1 DEF QueueInv, AttemptsDistinct
    <2>5. RecordIsTrue'
      <3>1. ASSUME NEW i \in Keys, NEW g \in Nat, <<i, g>> \in succeeded
            PROVE  g <= jobs'[i].gen
        <4>1. g <= jobs[i].gen
          BY <3>1 DEF QueueInv, RecordIsTrue
        <4>2. QED
          BY <1>0, <2>2, <4>1
      <3>2. ASSUME NEW i \in Keys, jobs'[i].status = "done"
            PROVE  <<i, jobs'[i].gen>> \in succeeded
        BY <2>2, <3>2 DEF QueueInv, RecordIsTrue, RowId
      <3>3. QED
        BY <2>1, <3>1, <3>2 DEF RecordIsTrue, RowId
    <2>6. QED
      BY <2>1, <2>3, <2>4, <2>5 DEF QueueInv
  <1>4. QED
    BY <1>1, <1>2, <1>3 DEF OutsideStep

\* A claim counts the attempt it starts: no execution of the row before it has
\* that number.
LEMMA QueueClaim ==
  ASSUME TypeOK, QueueInv, NEW w \in Workers, NEW S \in SUBSET Keys, Claim(w, S)
  PROVE  QueueInv'
  <1>0. /\ jobs \in [Keys -> Row]
        /\ \A k \in Keys : jobs[k].attempts \in Nat /\ jobs[k].gen \in Nat
        /\ \A e \in execs : e.key \in Keys /\ e.gen \in Nat /\ e.attempt \in Nat
    BY LeaseTypes
  <1> DEFINE new(k) == [worker |-> w, key |-> k, gen |-> jobs[k].gen,
                        attempt |-> jobs[k].attempts + 1, at |-> "handler"]
  <1>1. /\ execs' = execs \cup {new(k) : k \in S}
        /\ retried' = retried /\ succeeded' = succeeded
    BY DEF Claim, history
  <1>2. \A k \in Keys : /\ jobs'[k].gen = jobs[k].gen
                        /\ jobs'[k].attempts = IF k \in S THEN jobs[k].attempts + 1
                                                         ELSE jobs[k].attempts
                        /\ jobs'[k].status = IF k \in S THEN "running" ELSE jobs[k].status
    BY <1>0, StatementRows DEF Claim
  <1>3. ASSUME NEW e \in execs PROVE KnowsItsRow(e)'
    <2>1. KnowsItsRow(e) /\ e.key \in Keys
      BY <1>0 DEF QueueInv
    <2>2. QED
      BY <1>0, <1>1, <1>2, <2>1 DEF KnowsItsRow
  <1>4. ASSUME NEW k \in S, NEW e, e = new(k) PROVE KnowsItsRow(e)'
    <2>1. /\ e.key = k /\ e.gen = jobs[k].gen /\ e.attempt = jobs[k].attempts + 1
          /\ e.at = "handler"
      BY <1>4
    <2>2. QED
      BY <1>0, <1>2, <2>1 DEF KnowsItsRow
  <1>5. ASSUME NEW k \in S, NEW e \in execs, e.key = k, e.gen = jobs[k].gen,
               <<e.key, e.gen>> \notin retried
        PROVE  e.attempt # jobs[k].attempts + 1
    <2>1. e.attempt <= jobs[k].attempts
      BY <1>5 DEF QueueInv, KnowsItsRow
    <2>2. QED
      BY <1>0, <2>1
  <1>6. AttemptsDistinct'
    <2> SUFFICES ASSUME NEW e1 \in execs', NEW e2 \in execs',
                        e1.key = e2.key, e1.gen = e2.gen, e1.attempt = e2.attempt,
                        <<e1.key, e1.gen>> \notin retried
                 PROVE  e1 = e2
      BY <1>1 DEF AttemptsDistinct
    <2>1. CASE e1 \in execs /\ e2 \in execs
      BY <2>1 DEF QueueInv, AttemptsDistinct
    <2>2. CASE e1 \in {new(k) : k \in S} /\ e2 \in {new(k) : k \in S}
      BY <2>2
    <2>3. ASSUME NEW e \in execs, NEW k \in S, e.key = k, e.gen = jobs[k].gen,
                 e.attempt = jobs[k].attempts + 1, <<e.key, e.gen>> \notin retried
          PROVE  FALSE
      BY <1>5, <2>3
    <2>4. QED
      BY <1>1, <2>1, <2>2, <2>3
  <1>7. RecordIsTrue'
    BY <1>1, <1>2 DEF QueueInv, RecordIsTrue, RowId
  <1>8. \A e \in execs' : KnowsItsRow(e)'
    <2>1. \A e \in {new(k) : k \in S} : KnowsItsRow(e)'
      BY <1>4
    <2>2. QED
      BY <1>1, <1>3, <2>1
  <1>9. QED
    BY <1>6, <1>7, <1>8 DEF QueueInv

\* The three statements of a poll, each of which may fail.
LEMMA QueuePoll == ASSUME TypeOK, QueueInv, NEW w \in Workers, PollStep(w) PROVE QueueInv'
  <1>0. /\ jobs \in [Keys -> Row]
        /\ \A k \in Keys : jobs[k].attempts \in Nat
        /\ Exhausted \in SUBSET Keys /\ Claimable \in SUBSET Keys
    BY LeaseTypes DEF Exhausted, Claimable
  <1>1. CASE \E S \in SUBSET Keys : Claim(w, S)
    BY <1>1, QueueClaim
  <1>2. CASE ScheduleRecurring(w) \/ ExpireExhausted(w) \/ PollFails(w)
    <2>1. /\ execs' = execs /\ retried' = retried /\ succeeded' = succeeded
          /\ \/ jobs' \in {jobs, RecurringInsert(w), Bury(Exhausted)}
             \/ \E S \in SUBSET Claimable : jobs' = Lease(w, S)
      BY <1>2 DEF ScheduleRecurring, ExpireExhausted, PollFails, history
    <2>2. ASSUME NEW k \in Keys
          PROVE  /\ jobs'[k].gen = jobs[k].gen
                 /\ jobs'[k].attempts \in {jobs[k].attempts, jobs[k].attempts + 1}
                 /\ jobs'[k].status = "none" => jobs[k].status = "none"
                 /\ jobs'[k].status = "done" => jobs[k].status = "done"
      <3>1. CASE jobs' = jobs
        BY <3>1
      <3>2. CASE jobs' = RecurringInsert(w)
        <4>1. jobs' = jobs \/ (bucket \in Keys /\ jobs' = Insert(bucket, TRUE))
          BY <3>2 DEF RecurringInsert, Keys
        <4>2. \A i \in Keys :
                 /\ Insert(i, TRUE)[k].gen = jobs[k].gen
                 /\ Insert(i, TRUE)[k].attempts = jobs[k].attempts
                 /\ Insert(i, TRUE)[k].status \in {jobs[k].status, "queued"}
          BY <1>0, jobs[k] \in Row DEF Insert, Row
        <4>3. QED
          BY <4>1, <4>2
      <3>3. CASE jobs' = Bury(Exhausted)
        BY <1>0, <3>3, StatementRows
      <3>4. ASSUME NEW S \in SUBSET Claimable, jobs' = Lease(w, S)
            PROVE  /\ jobs'[k].gen = jobs[k].gen
                   /\ jobs'[k].attempts \in {jobs[k].attempts, jobs[k].attempts + 1}
                   /\ jobs'[k].status = "none" => jobs[k].status = "none"
                   /\ jobs'[k].status = "done" => jobs[k].status = "done"
        BY <1>0, <3>4, StatementRows
      <3>5. QED
        BY <2>1, <3>1, <3>2, <3>3, <3>4
    <2>3. \A k \in Keys : jobs[k].attempts <= jobs'[k].attempts /\ jobs'[k].attempts \in Nat
      BY <1>0, <2>2
    <2>4. QED
      BY <2>1, <2>2, <2>3, QueueFrame
  <1>3. QED
    BY <1>1, <1>2 DEF PollStep

\* An execution writes "done" only once its handler has returned.
LEMMA QueueExec == ASSUME TypeOK, QueueInv, NEW e \in execs, ExecStep(e) PROVE QueueInv'
  <1>0. /\ jobs \in [Keys -> Row] /\ e \in Execution /\ e.key \in Keys
        /\ \A k \in Keys : jobs[k] \in Row /\ jobs[k].attempts \in Nat
    BY LeaseTypes DEF TypeOK
  <1> USE DEF processes, history
  <1>1. CASE Renew(e)
    <2>1. \A k \in Keys : /\ jobs'[k].gen = jobs[k].gen
                          /\ jobs'[k].attempts = jobs[k].attempts
                          /\ jobs'[k].status = jobs[k].status
      BY <1>0, <1>1 DEF Renew, Row
    <2>2. QED
      BY <1>0, <1>1, <2>1, QueueFrame DEF Renew
  <1>2. CASE HandlerReturns(e)
    BY <1>2, QueueMoves DEF HandlerReturns
  <1>3. CASE HandlerThrows(e)
    BY <1>3, QueueMoves DEF HandlerThrows
  <1>4. e.at = "completing" => <<e.key, e.gen>> \in succeeded
    BY DEF QueueInv, KnowsItsRow
  <1>5. CASE CompleteErrors(e)
    BY <1>4, <1>5, QueueMoves DEF CompleteErrors
  <1>6. CASE Complete(e)
    <2>1. /\ jobs' = Finished(e) /\ execs' \subseteq execs
          /\ retried' = retried /\ succeeded' = succeeded
      BY <1>6 DEF Complete
    <2>2. \A k \in Keys : /\ jobs'[k].gen = jobs[k].gen
                          /\ jobs'[k].attempts = jobs[k].attempts
                          /\ jobs'[k].status = "none" => jobs[k].status = "none"
                          /\ jobs'[k].status = "done" =>
                               jobs[k].status = "done" \/ RowId(k) \in succeeded
      BY <1>0, <1>4, <1>6, <2>1, ResultRows DEF Complete, OwnedBy, RowId
    <2>3. QED
      BY <1>0, <2>1, <2>2, QueueFrame
  <1>7. CASE Fail(e) \/ FailErrors(e)
    <2>1. /\ jobs' \in {jobs, Failed(e)} /\ execs' \subseteq execs
          /\ retried' = retried /\ succeeded' = succeeded
      BY <1>7 DEF Fail, FailErrors, Die
    <2>2. \A k \in Keys : /\ jobs'[k].gen = jobs[k].gen
                          /\ jobs'[k].attempts = jobs[k].attempts
                          /\ jobs'[k].status = "none" => jobs[k].status = "none"
                          /\ jobs'[k].status = "done" => jobs[k].status = "done"
      BY <1>0, <2>1, ResultRows
    <2>3. QED
      BY <1>0, <2>1, <2>2, QueueFrame
  <1>8. QED
    BY <1>1, <1>2, <1>3, <1>5, <1>6, <1>7 DEF ExecStep

\* QueueInv is an invariant of the queue, for every value of the constants.
LEMMA QueueIsInvariant == Spec => []QueueInv
  <1>1. Init => QueueInv
    <2> SUFFICES ASSUME Init PROVE QueueInv
      OBVIOUS
    <2>1. \A k \in Keys : jobs[k].status = "none"
      BY DEF Init, Vacant
    <2>2. QED
      BY <2>1 DEF Init, QueueInv, AttemptsDistinct, RecordIsTrue
  <1>2. TypeOK /\ QueueInv /\ [Next]_vars => QueueInv'
    <2> SUFFICES ASSUME TypeOK, QueueInv, [Next]_vars PROVE QueueInv'
      OBVIOUS
    <2>0. \A k \in Keys : jobs[k].attempts \in Nat
      BY LeaseTypes
    <2>1. ASSUME NEW w \in Workers, Stop(w) \/ Exit(w) PROVE QueueInv'
      <3>1. /\ jobs' = jobs /\ execs' \subseteq execs
            /\ retried' = retried /\ succeeded' = succeeded
        BY <2>1 DEF Stop, Exit, Die, history
      <3>2. QED
        BY <2>0, <3>1, QueueFrame
    <2>2. CASE UNCHANGED vars
      <3>1. /\ jobs' = jobs /\ execs' = execs
            /\ retried' = retried /\ succeeded' = succeeded
        BY <2>2 DEF vars
      <3>2. QED
        BY <2>0, <3>1, QueueFrame
    <2>3. QED
      BY <2>1, <2>2, QueueTime, QueueOutside, QueuePoll, QueueExec DEF Next
  <1>3. QED
    BY <1>1, <1>2, TypeCorrect, PTL DEF Spec

\* Two executions of a row never have the same attempt number, whatever leases
\* run out, unless an administrator reset the count: the handler of a mail is told
\* which attempt is speaking, and no other one claims to be it.
THEOREM AttemptsAreDistinct == Spec => []AttemptsDistinct
  <1>1. QueueInv => AttemptsDistinct
    BY DEF QueueInv
  <1>2. QED
    BY <1>1, QueueIsInvariant, PTL

-----------------------------------------------------------------------------
(***************************************************************************)
(* WithinConcurrency is inductive on its own: between the counting of free   *)
(* places and the claim only the worker's own executions end.                *)
(***************************************************************************)

\* A step that starts no execution of any worker and reserves no place keeps it.
LEMMA PlacesFrame ==
  ASSUME TypeOK, WithinConcurrency, IsFiniteSet(execs'),
         NEW w \in Workers, InFlight(w)' \subseteq InFlight(w),
         poll'[w].free \in Nat, poll'[w].free <= poll[w].free
  PROVE  (Cardinality(InFlight(w)) + poll[w].free <= Concurrency)'
  <1>1. IsFiniteSet(InFlight(w))
    BY FS_Subset DEF TypeOK, InFlight
  <1>2. Cardinality(InFlight(w)') <= Cardinality(InFlight(w)) /\ IsFiniteSet(InFlight(w)')
    BY <1>1, FS_Subset
  <1>3. Cardinality(InFlight(w)) \in Nat /\ Cardinality(InFlight(w)') \in Nat
    BY <1>1, <1>2, FS_CardinalityType
  <1>4. poll[w].free \in Nat
    BY DEF TypeOK
  <1>5. Cardinality(InFlight(w)) + poll[w].free <= Concurrency
    BY DEF WithinConcurrency
  <1>6. QED
    BY <1>2, <1>3, <1>4, <1>5, ConstantsAssumption

\* Replacing an execution of a worker by one at another place leaves as many.
LEMMA MoveCounts ==
  ASSUME TypeOK, NEW e \in execs, NEW place, MoveTo(e, place), NEW w \in Workers
  PROVE  Cardinality(InFlight(w)') <= Cardinality(InFlight(w)) /\ IsFiniteSet(InFlight(w)')
  <1> DEFINE n == [e EXCEPT !.at = place]
             rest == InFlight(w) \ {e}
  <1>1. IsFiniteSet(InFlight(w)) /\ Cardinality(InFlight(w)) \in Nat
    BY FS_Subset, FS_CardinalityType DEF TypeOK, InFlight
  <1>2. n.worker = e.worker
    BY DEF TypeOK, Execution
  <1>3. CASE e.worker = w
    <2>1. e \in InFlight(w) /\ InFlight(w)' = rest \cup {n}
      BY <1>2, <1>3 DEF MoveTo, InFlight
    <2>2. IsFiniteSet(rest) /\ Cardinality(rest) = Cardinality(InFlight(w)) - 1
      BY <1>1, <2>1, FS_RemoveElement
    <2>3. /\ IsFiniteSet(rest \cup {n})
          /\ \/ Cardinality(rest \cup {n}) = Cardinality(rest)
             \/ Cardinality(rest \cup {n}) = Cardinality(rest) + 1
      BY <2>2, FS_AddElement
    <2>4. QED
      BY <1>1, <2>1, <2>2, <2>3
  <1>4. CASE e.worker # w
    <2>1. InFlight(w)' = InFlight(w)
      BY <1>2, <1>4 DEF MoveTo, InFlight
    <2>2. QED
      BY <1>1, <2>1
  <1>5. QED
    BY <1>3, <1>4

\* The polls of a worker: places are reserved, given back, or taken by the claim.
LEMMA PlacesPoll ==
  ASSUME TypeOK, TypeOK', WithinConcurrency, NEW w \in Workers, PollStep(w)
  PROVE  WithinConcurrency'
  <1> USE DEF processes, history
  <1>0. /\ \A v \in Workers : /\ IsFiniteSet(InFlight(v)) /\ Cardinality(InFlight(v)) \in Nat
                              /\ poll[v].free \in Nat
                              /\ Cardinality(InFlight(v)) + poll[v].free <= Concurrency
        /\ poll \in [Workers -> [at: {"idle", "expire", "claim"}, free: Nat]]
        /\ IsFiniteSet(execs) /\ IsFiniteSet(execs')
    BY FS_Subset, FS_CardinalityType DEF TypeOK, InFlight, WithinConcurrency
  <1>1. ASSUME NEW v \in Workers, v # w
        PROVE  (Cardinality(InFlight(v)) + poll[v].free <= Concurrency)'
    <2>1. InFlight(v)' \subseteq InFlight(v)
      BY <1>1 DEF PollStep, ScheduleRecurring, ExpireExhausted, PollFails, Claim, InFlight
    <2>2. poll'[v] = poll[v]
      BY <1>0, <1>1 DEF PollStep, ScheduleRecurring, ExpireExhausted, PollFails, Claim
    <2>3. QED
      BY <1>0, <2>1, <2>2, PlacesFrame
  <1>2. (Cardinality(InFlight(w)) + poll[w].free <= Concurrency)'
    <2>1. CASE ScheduleRecurring(w)
      <3>1. InFlight(w)' = InFlight(w)
        BY <2>1 DEF ScheduleRecurring, InFlight
      <3>2. poll'[w].free = poll[w].free \/ poll'[w].free = Concurrency - Cardinality(InFlight(w))
        BY <1>0, <2>1 DEF ScheduleRecurring
      <3>3. QED
        BY <1>0, <3>1, <3>2, ConstantsAssumption
    <2>2. CASE ExpireExhausted(w) \/ PollFails(w)
      <3>1. InFlight(w)' = InFlight(w)
        BY <2>2 DEF ExpireExhausted, PollFails, InFlight
      <3>2. poll'[w].free \in {poll[w].free, 0}
        BY <1>0, <2>2 DEF ExpireExhausted, PollFails, Idle
      <3>3. QED
        BY <1>0, <3>1, <3>2, ConstantsAssumption
    <2>3. ASSUME NEW S \in SUBSET Keys, Claim(w, S)
          PROVE  (Cardinality(InFlight(w)) + poll[w].free <= Concurrency)'
      <3> DEFINE E == {[worker |-> w, key |-> k, gen |-> jobs[k].gen,
                        attempt |-> jobs[k].attempts + 1, at |-> "handler"] : k \in S}
      <3>1. IsFiniteSet(E) /\ Cardinality(E) <= Cardinality(S)
        BY StartedFinite
      <3>2. Cardinality(S) <= poll[w].free /\ Cardinality(S) \in Nat
        BY <2>3, KeysFinite, FS_Subset, FS_CardinalityType DEF Claim
      <3>3. InFlight(w)' = InFlight(w) \cup E
        BY <2>3 DEF Claim, InFlight
      <3>4. /\ Cardinality(InFlight(w) \cup E) <= Cardinality(InFlight(w)) + Cardinality(E)
            /\ Cardinality(E) \in Nat
            /\ Cardinality(InFlight(w) \cup E) \in Nat
        <4>1. /\ IsFiniteSet(InFlight(w) \cup E) /\ IsFiniteSet(InFlight(w) \cap E)
              /\ Cardinality(InFlight(w) \cup E) =
                   Cardinality(InFlight(w)) + Cardinality(E) - Cardinality(InFlight(w) \cap E)
          BY <1>0, <3>1, FS_Union, FS_Subset
        <4>2. /\ Cardinality(E) \in Nat /\ Cardinality(InFlight(w) \cap E) \in Nat
              /\ Cardinality(InFlight(w) \cup E) \in Nat
          BY <3>1, <4>1, FS_CardinalityType
        <4>3. QED
          BY <1>0, <4>1, <4>2
      <3>5. poll'[w].free = 0
        BY <1>0, <2>3 DEF Claim, Idle
      <3>6. QED
        BY <1>0, <3>1, <3>2, <3>3, <3>4, <3>5, ConstantsAssumption
    <2>4. QED
      BY <2>1, <2>2, <2>3 DEF PollStep
  <1>3. QED
    BY <1>1, <1>2 DEF WithinConcurrency

\* A worker never holds more executions, claimed or about to be claimed, than its
\* concurrency, whatever ends, fails or restarts between counting and claiming.
THEOREM ConcurrencyIsKept == Spec => []WithinConcurrency
  <1>1. Init => WithinConcurrency
    <2> SUFFICES ASSUME Init, NEW w \in Workers
                 PROVE  Cardinality(InFlight(w)) + poll[w].free <= Concurrency
      BY DEF WithinConcurrency
    <2>1. InFlight(w) = {} /\ poll[w].free = 0
      BY DEF Init, InFlight, Idle
    <2>2. Cardinality(InFlight(w)) = 0
      BY <2>1, FS_EmptySet
    <2>3. QED
      BY <2>1, <2>2, ConstantsAssumption
  <1>2. TypeOK /\ TypeOK' /\ WithinConcurrency /\ [Next]_vars => WithinConcurrency'
    <2> SUFFICES ASSUME TypeOK, TypeOK', WithinConcurrency, [Next]_vars
                 PROVE  WithinConcurrency'
      OBVIOUS
    <2>0. /\ IsFiniteSet(execs') /\ \A w \in Workers : poll[w].free \in Nat
          /\ poll \in [Workers -> [at: {"idle", "expire", "claim"}, free: Nat]]
      BY DEF TypeOK
    <2> USE DEF processes, history
    <2>1. CASE execs' \subseteq execs /\ poll' = poll
      BY <2>0, <2>1, PlacesFrame DEF InFlight, WithinConcurrency
    <2>2. ASSUME NEW v \in Workers, Die(v) PROVE WithinConcurrency'
      <3>1. execs' \subseteq execs
        BY <2>2 DEF Die
      <3>2. \A w \in Workers : poll'[w].free \in {poll[w].free, 0}
        BY <2>0, <2>2 DEF Die, Idle
      <3>3. ASSUME NEW w \in Workers
            PROVE  (Cardinality(InFlight(w)) + poll[w].free <= Concurrency)'
        <4>1. InFlight(w)' \subseteq InFlight(w)
          BY <3>1 DEF InFlight
        <4>2. poll'[w].free \in Nat /\ poll'[w].free <= poll[w].free
          BY <2>0, <3>2
        <4>3. QED
          BY <2>0, <4>1, <4>2, PlacesFrame
      <3>4. QED
        BY <3>3 DEF WithinConcurrency
    <2>3. ASSUME NEW e \in execs, NEW place, MoveTo(e, place), poll' = poll
          PROVE  WithinConcurrency'
      <3> SUFFICES ASSUME NEW w \in Workers
                   PROVE  (Cardinality(InFlight(w)) + poll[w].free <= Concurrency)'
        BY DEF WithinConcurrency
      <3>1. Cardinality(InFlight(w)') <= Cardinality(InFlight(w)) /\ IsFiniteSet(InFlight(w)')
        BY <2>3, MoveCounts
      <3>2. IsFiniteSet(InFlight(w))
        BY FS_Subset DEF TypeOK, InFlight
      <3>3. Cardinality(InFlight(w)) \in Nat /\ Cardinality(InFlight(w)') \in Nat
        BY <3>1, <3>2, FS_CardinalityType
      <3>4. Cardinality(InFlight(w)) + poll[w].free <= Concurrency
        BY DEF WithinConcurrency
      <3>5. QED
        BY <2>0, <2>3, <3>1, <3>3, <3>4, ConstantsAssumption
    <2>4. CASE TimeStep \/ OutsideStep
      BY <2>1, <2>4 DEF TimeStep, OutsideStep, BucketPasses, RunAtPasses, LeaseRunsOut,
                        LeaseStalls, Enqueue, AdminRetry, DeleteFinished
    <2>5. ASSUME NEW e \in execs, ExecStep(e) PROVE WithinConcurrency'
      <3>1. e.worker \in Workers
        BY DEF TypeOK, Execution
      <3>2. QED
        BY <2>1, <2>2, <2>3, <2>5, <3>1
           DEF ExecStep, Renew, HandlerReturns, HandlerThrows, Complete, CompleteErrors,
               Fail, FailErrors
    <2>6. ASSUME NEW w \in Workers, Stop(w) \/ Exit(w) PROVE WithinConcurrency'
      BY <2>1, <2>2, <2>6 DEF Stop, Exit
    <2>7. CASE UNCHANGED vars
      BY <2>1, <2>7 DEF vars
    <2>8. QED
      BY <2>4, <2>5, <2>6, <2>7, PlacesPoll DEF Next
  <1>3. QED
    BY <1>1, <1>2, TypeCorrect, PTL DEF Spec

-----------------------------------------------------------------------------
(***************************************************************************)
(* Action properties.                                                       *)
(***************************************************************************)

\* A write of an execution's result, seen from one row: the row is untouched, or
\* the execution was the owner of its lease.
LEMMA OwnerWrites ==
  ASSUME jobs \in [Keys -> Row], NEW e \in Execution, NEW k \in Keys,
         jobs' \in {jobs, Finished(e), Failed(e)}
  PROVE  jobs'[k] = jobs[k] \/ (e.key = k /\ e.worker = jobs[k].lockedBy)
  <1>1. CASE OwnedBy(e.worker, e.key, e.gen)
    BY <1>1 DEF Finished, Failed, Bury, OwnedBy
  <1>2. CASE ~OwnedBy(e.worker, e.key, e.gen)
    BY <1>2 DEF Finished, Failed
  <1>3. QED
    BY <1>1, <1>2

\* A row under an unexpired lease changes only by the hand of an execution of the
\* lease's owner, or by the deadline passing: no poll of another worker, no
\* administrator and no retention step touches it.
THEOREM LeasesAreRespected == Spec => LeaseRespected
  <1> DEFINE Respected(k) ==
        (jobs[k].status = "running" /\ ~jobs[k].expired) =>
           \/ jobs'[k] \in {jobs[k], [jobs[k] EXCEPT !.expired = TRUE]}
           \/ \E e \in execs \ execs' : e.key = k /\ e.worker = jobs[k].lockedBy
  <1>1. TypeOK /\ [Next]_vars => [\A k \in Keys : Respected(k)]_vars
    <2> SUFFICES ASSUME TypeOK, [Next]_vars, NEW k \in Keys,
                        jobs[k].status = "running", ~jobs[k].expired
                 PROVE  \/ jobs'[k] \in {jobs[k], [jobs[k] EXCEPT !.expired = TRUE]}
                        \/ \E e \in execs \ execs' : e.key = k /\ e.worker = jobs[k].lockedBy
      OBVIOUS
    <2>0. jobs \in [Keys -> Row] /\ \A e \in execs : e \in Execution
      BY DEF TypeOK
    <2>1. CASE TimeStep \/ OutsideStep
      BY <2>0, <2>1 DEF TimeStep, OutsideStep, BucketPasses, RunAtPasses, LeaseRunsOut,
                        LeaseStalls, Enqueue, Insert, AdminRetry, DeleteFinished
    <2>2. ASSUME NEW w \in Workers, PollStep(w) PROVE jobs'[k] = jobs[k]
      <3>1. k \notin Exhausted /\ k \notin Claimable
        BY DEF Exhausted, Claimable
      <3>2. RecurringInsert(w)[k] = jobs[k]
        BY <2>0 DEF RecurringInsert, Insert
      <3>3. Bury(Exhausted)[k] = jobs[k]
        BY <3>1 DEF Bury
      <3>4. \A S \in SUBSET Claimable : Lease(w, S)[k] = jobs[k]
        BY <3>1 DEF Lease
      <3>5. \/ jobs' \in {jobs, RecurringInsert(w), Bury(Exhausted)}
            \/ \E S \in SUBSET Claimable : jobs' = Lease(w, S)
        BY <2>2 DEF PollStep, ScheduleRecurring, ExpireExhausted, PollFails, Claim
      <3>6. QED
        BY <3>2, <3>3, <3>4, <3>5
    <2>3. ASSUME NEW e \in execs, ExecStep(e)
          PROVE  \/ jobs'[k] = jobs[k]
                 \/ e \in execs \ execs' /\ e.key = k /\ e.worker = jobs[k].lockedBy
      <3>1. CASE Renew(e)
        BY <2>0, <3>1 DEF Renew
      <3>2. CASE HandlerReturns(e) \/ HandlerThrows(e)
        BY <3>2 DEF HandlerReturns, HandlerThrows
      <3>3. CASE Complete(e) \/ Fail(e) \/ FailErrors(e) \/ CompleteErrors(e)
        <4>1. e \notin execs'
          <5>1. CASE CompleteErrors(e)
            <6>1. [e EXCEPT !.at = "failing"] # e
              BY <2>0, <5>1 DEF CompleteErrors, Execution
            <6>2. QED
              BY <5>1, <6>1 DEF CompleteErrors, MoveTo
          <5>2. QED
            BY <3>3, <5>1 DEF Complete, Fail, FailErrors, Die, InFlight
        <4>2. jobs' \in {jobs, Finished(e), Failed(e)}
          BY <3>3 DEF Complete, Fail, FailErrors, CompleteErrors
        <4>3. QED
          BY <2>0, <4>1, <4>2, OwnerWrites
      <3>4. QED
        BY <2>3, <3>1, <3>2, <3>3 DEF ExecStep
    <2>4. (\E w \in Workers : Stop(w) \/ Exit(w)) \/ UNCHANGED vars => jobs' = jobs
      BY DEF Stop, Exit, vars
    <2>5. QED
      BY <2>1, <2>2, <2>3, <2>4 DEF Next
  <1>2. QED
    BY <1>1, TypeCorrect, PTL DEF Spec, LeaseRespected

-----------------------------------------------------------------------------
(***************************************************************************)
(* Exactly once.  OnceInv says where a row is whose handler has returned     *)
(* while nothing went wrong: it is done, or the execution that will write so *)
(* holds its lease.  Either way nobody can claim it.                         *)
(***************************************************************************)
WritesSuccess(k) == \E e \in execs : e.key = k /\ e.at = "completing" /\ Held(e)

OnceInv ==
  \A k \in Keys : (RowId(k) \in succeeded /\ Faultless(k)) =>
                    jobs[k].status = "done" \/ WritesSuccess(k)

\* What went wrong stays: a queue that is faultless after a step was so before.
LEMMA FaultsStay ==
  ASSUME TypeOK, [Next]_vars, NEW k \in Keys, Faultless(k)'
  PROVE  /\ Faultless(k) /\ stalls[k] = 0 /\ ~DbError
         /\ \A w \in Workers : ~Exit(w)
  <1> USE DEF processes, history
  <1>0. stalls \in [Keys -> Nat] /\ dbErrors \in Nat /\ MaxDbErrors \in Nat
        /\ mode \in [Workers -> {"up", "stopping", "gone"}]
    BY ConstantsAssumption DEF TypeOK
  <1>1. dbErrors' = 0 /\ stalls'[k] = 0 /\ \A w \in Workers : mode'[w] # "gone"
    BY DEF Faultless, Alive
  <1>2. ~DbError
    BY <1>0, <1>1 DEF DbError
  <1>3. \A w \in Workers : ~Die(w)
    BY <1>0, <1>1 DEF Die
  <1>4. \A w \in Workers : ~Exit(w)
    BY <1>3 DEF Exit
  <1>5. ASSUME NEW w \in Workers, Stop(w) PROVE Faultless(k)
    BY <1>0, <1>1, <1>5 DEF Stop, Faultless, Alive
  <1>6. ASSUME NEW i \in Keys, LeaseStalls(i) PROVE Faultless(k)
    BY <1>0, <1>1, <1>6 DEF LeaseStalls, Faultless, Alive
  <1>7. ASSUME UNCHANGED <<stalls, dbErrors, mode>> PROVE Faultless(k)
    BY <1>1, <1>7 DEF Faultless, Alive
  <1>8. TimeStep => Faultless(k)
    BY <1>6, <1>7 DEF TimeStep, BucketPasses, RunAtPasses, LeaseRunsOut
  <1>9. OutsideStep => Faultless(k)
    BY <1>7 DEF OutsideStep, Enqueue, AdminRetry, DeleteFinished
  <1>10. ASSUME NEW w \in Workers, PollStep(w) PROVE Faultless(k)
    BY <1>2, <1>7, <1>10 DEF PollStep, ScheduleRecurring, ExpireExhausted, PollFails, Claim
  <1>11. ASSUME NEW e \in execs, ExecStep(e) PROVE Faultless(k)
    BY <1>2, <1>7, <1>11 DEF ExecStep, Renew, HandlerReturns, HandlerThrows, Complete,
                            CompleteErrors, Fail, FailErrors
  <1>12. UNCHANGED vars => Faultless(k)
    BY <1>7 DEF vars
  <1>13. Faultless(k)
    BY <1>4, <1>5, <1>8, <1>9, <1>10, <1>11, <1>12 DEF Next
  <1>14. QED
    BY <1>2, <1>4, <1>13 DEF Faultless

\* A step that ends no execution of the key, and leaves a done row done and a held
\* one held, keeps what OnceInv says of it.
LEMMA OnceFrame ==
  ASSUME OnceInv, NEW k \in Keys, RowId(k) \in succeeded, Faultless(k),
         jobs[k].status = "done" => jobs'[k].status = "done",
         \A e \in execs : (e.key = k /\ e.at = "completing" /\ Held(e)) =>
            \/ e \in execs' /\ Held(e)'
            \/ jobs'[k].status = "done"
  PROVE  (jobs[k].status = "done" \/ WritesSuccess(k))'
  BY DEF OnceInv, WritesSuccess

\* The steps of time and of outsiders.
LEMMA OnceOutside ==
  ASSUME TypeOK, QueueInv, OnceInv, TimeStep \/ OutsideStep,
         NEW k \in Keys, RowId(k)' \in succeeded', Faultless(k), stalls'[k] = 0
  PROVE  (jobs[k].status = "done" \/ WritesSuccess(k))'
  <1> USE DEF processes, history
  <1>0. /\ jobs \in [Keys -> Row] /\ jobs[k] \in Row /\ jobs[k].gen \in Nat
        /\ \A e \in execs : e.key \in Keys
        /\ stalls \in [Keys -> Nat]
    BY LeaseTypes
  <1>1. execs' = execs /\ succeeded' = succeeded
    BY DEF TimeStep, OutsideStep, BucketPasses, RunAtPasses, LeaseRunsOut, LeaseStalls,
           Enqueue, AdminRetry, DeleteFinished
  <1>2. CASE jobs'[k] = jobs[k]
    <2>1. RowId(k) \in succeeded
      BY <1>1, <1>2 DEF RowId
    <2>2. \A e \in execs : (e.key = k /\ Held(e)) => Held(e)'
      BY <1>2 DEF Held, OwnedBy
    <2>3. QED
      BY <1>1, <1>2, <2>1, <2>2, OnceFrame
  <1>3. CASE RunAtPasses(k) \/ AdminRetry(k)
    <2>1. jobs'[k].gen = jobs[k].gen
      <3>1. jobs' \in {[jobs EXCEPT ![k] = [@ EXCEPT !.due = TRUE]],
                       [jobs EXCEPT ![k] = [@ EXCEPT !.status = "queued", !.attempts = 0,
                                                     !.due = TRUE]]}
        BY <1>3 DEF RunAtPasses, AdminRetry
      <3>2. QED
        BY <1>0, <3>1 DEF Row
    <2>2. RowId(k) \in succeeded /\ jobs[k].status \notin {"done", "running"}
      BY <1>1, <1>3, <2>1 DEF RunAtPasses, AdminRetry, RowId
    <2>3. QED
      BY <2>2 DEF OnceInv, WritesSuccess, Held, OwnedBy
  <1>4. CASE LeaseRunsOut(k)
    <2>1. jobs'[k].gen = jobs[k].gen
      BY <1>0, <1>4 DEF LeaseRunsOut, Row
    <2>2. RowId(k) \in succeeded /\ jobs[k].status # "done" /\ ~WritesSuccess(k)
      BY <1>1, <1>4, <2>1 DEF LeaseRunsOut, Renewing, RowId, WritesSuccess, Held
    <2>3. QED
      BY <2>2 DEF OnceInv
  <1>5. ~LeaseStalls(k)
    BY <1>0 DEF LeaseStalls
  <1>6. CASE DeleteFinished(k)
    <2>1. jobs'[k].gen = jobs[k].gen + 1
      BY <1>0, <1>6 DEF DeleteFinished, Vacant
    <2>2. <<k, jobs[k].gen + 1>> \in succeeded
      BY <1>1, <2>1 DEF RowId
    <2>3. QED
      BY <1>0, <2>2 DEF QueueInv, RecordIsTrue
  <1>7. ASSUME NEW i \in AppKeys, NEW d \in BOOLEAN, Enqueue(i, d)
        PROVE  (jobs[k].status = "done" \/ WritesSuccess(k))'
    <2>1. /\ jobs'[k].gen = jobs[k].gen
          /\ jobs[k].status # "none" => jobs'[k] = jobs[k]
      BY <1>0, <1>7 DEF Enqueue, Insert, Row
    <2>2. RowId(k) \in succeeded
      BY <1>1, <2>1 DEF RowId
    <2>3. jobs[k].status # "none"
      BY <2>2 DEF OnceInv, WritesSuccess, Held, OwnedBy
    <2>4. QED
      BY <1>2, <2>1, <2>3
  <1>8. ASSUME NEW i \in Keys, i # k,
               \/ RunAtPasses(i) \/ LeaseRunsOut(i) \/ LeaseStalls(i)
               \/ AdminRetry(i) \/ DeleteFinished(i)
        PROVE  jobs'[k] = jobs[k]
    BY <1>0, <1>8 DEF RunAtPasses, LeaseRunsOut, LeaseStalls, AdminRetry, DeleteFinished
  <1>9. BucketPasses => jobs'[k] = jobs[k]
    BY DEF BucketPasses
  <1>10. QED
    BY <1>2, <1>3, <1>4, <1>5, <1>6, <1>7, <1>8, <1>9 DEF TimeStep, OutsideStep

\* The statements of a poll that no error hits.
LEMMA OncePoll ==
  ASSUME TypeOK, LeaseInv, OnceInv, NEW w \in Workers, PollStep(w), ~DbError,
         NEW k \in Keys, RowId(k)' \in succeeded', Faultless(k), stalls[k] = 0
  PROVE  (jobs[k].status = "done" \/ WritesSuccess(k))'
  <1> USE DEF processes, history
  <1>0. jobs \in [Keys -> Row] /\ jobs[k] \in Row
    BY LeaseTypes
  <1>1. /\ execs \subseteq execs' /\ succeeded' = succeeded
        /\ \/ jobs' \in {jobs, RecurringInsert(w), Bury(Exhausted)}
           \/ \E S \in SUBSET Claimable : jobs' = Lease(w, S)
    BY DEF PollStep, ScheduleRecurring, ExpireExhausted, PollFails, Claim
  <1>2. \A e \in execs : (e.key = k /\ Held(e)) => Held(e)'
    BY <1>1, LeasePollRows
  <1>3. /\ jobs'[k].gen = jobs[k].gen
        /\ jobs[k].status = "done" => jobs'[k].status = "done"
    <2>1. CASE jobs' = jobs
      BY <2>1
    <2>2. CASE jobs' = RecurringInsert(w)
      BY <1>0, <2>2 DEF RecurringInsert, Insert, Row
    <2>3. CASE jobs' = Bury(Exhausted)
      <3>1. Exhausted \in SUBSET Keys /\ (jobs[k].status = "done" => k \notin Exhausted)
        BY DEF Exhausted
      <3>2. QED
        BY <1>0, <2>3, <3>1, StatementRows
    <2>4. ASSUME NEW S \in SUBSET Claimable, jobs' = Lease(w, S)
          PROVE  /\ jobs'[k].gen = jobs[k].gen
                 /\ jobs[k].status = "done" => jobs'[k].status = "done"
      <3>1. S \in SUBSET Keys /\ (jobs[k].status = "done" => k \notin S)
        BY DEF Claimable
      <3>2. QED
        BY <1>0, <2>4, <3>1, StatementRows
    <2>5. QED
      BY <1>1, <2>1, <2>2, <2>3, <2>4
  <1>4. RowId(k) \in succeeded
    BY <1>1, <1>3 DEF RowId
  <1>5. QED
    BY <1>1, <1>2, <1>3, <1>4, OnceFrame

\* The steps of an execution that no error hits.
LEMMA OnceExec ==
  ASSUME TypeOK, LeaseInv, OnceInv, NEW e \in execs, ExecStep(e), ~DbError,
         NEW k \in Keys, RowId(k)' \in succeeded', Faultless(k), stalls[k] = 0
  PROVE  (jobs[k].status = "done" \/ WritesSuccess(k))'
  <1> USE DEF processes, history
  <1>0. /\ jobs \in [Keys -> Row] /\ jobs[k] \in Row
        /\ e \in Execution /\ e.key \in Keys
    BY LeaseTypes DEF TypeOK
  <1>1. CASE Renew(e)
    <2>1. /\ execs' = execs /\ succeeded' = succeeded
          /\ jobs'[k].gen = jobs[k].gen /\ jobs'[k].status = jobs[k].status
      BY <1>0, <1>1 DEF Renew, Row
    <2>2. \A x \in execs : (x.key = k /\ Held(x)) => Held(x)'
      BY <1>0, <1>1 DEF Renew, Held, OwnedBy
    <2>3. QED
      BY <2>1, <2>2, OnceFrame DEF RowId
  <1>2. CASE HandlerReturns(e)
    <2>1. /\ jobs' = jobs /\ succeeded' = succeeded \cup {<<e.key, e.gen>>}
          /\ e.at = "handler" /\ execs \ {e} \subseteq execs'
          /\ [e EXCEPT !.at = "completing"] \in execs'
      BY <1>2 DEF HandlerReturns, MoveTo
    <2>2. CASE RowId(k) \in succeeded
      <3>1. \A x \in execs : Held(x) => Held(x)'
        BY <2>1 DEF Held, OwnedBy
      <3>2. QED
        BY <2>1, <2>2, <3>1, OnceFrame
    <2>3. CASE e.key = k /\ e.gen = jobs[k].gen
      <3> DEFINE n == [e EXCEPT !.at = "completing"]
      <3>1. n.key = k /\ n.at = "completing" /\ n.worker = e.worker /\ n.gen = e.gen
            /\ n.attempt = e.attempt
        BY <1>0, <2>3 DEF Execution
      <3>2. Held(e)
        BY <2>1, <2>3 DEF LeaseInv, Over
      <3>3. Held(n)'
        BY <2>1, <3>1, <3>2, <2>3 DEF Held, OwnedBy
      <3>4. QED
        BY <2>1, <3>1, <3>3 DEF WritesSuccess
    <2>4. QED
      BY <2>1, <2>2, <2>3 DEF RowId
  <1>3. CASE HandlerThrows(e)
    <2>1. /\ jobs' = jobs /\ succeeded' = succeeded
          /\ e.at = "handler" /\ execs \ {e} \subseteq execs'
      BY <1>3 DEF HandlerThrows, MoveTo
    <2>2. \A x \in execs : Held(x) => Held(x)'
      BY <2>1 DEF Held, OwnedBy
    <2>3. QED
      BY <2>1, <2>2, OnceFrame DEF RowId
  <1>4. CASE Complete(e) \/ Fail(e)
    <2>1. /\ jobs' \in {Finished(e), Failed(e)} /\ succeeded' = succeeded
          /\ execs' = execs \ {e}
          /\ e.at = "completing" => jobs' = Finished(e)
          /\ e.at \in {"completing", "failing"}
      BY <1>4 DEF Complete, Fail
    <2>2. jobs'[k].gen = jobs[k].gen
      BY <1>0, <2>1, ResultRows
    <2>3. RowId(k) \in succeeded
      BY <2>1, <2>2 DEF RowId
    <2>4. CASE ~OwnedBy(e.worker, e.key, e.gen) \/ e.key # k
      <3>1. jobs'[k] = jobs[k]
        BY <1>0, <2>1, <2>4 DEF Finished, Failed, Bury
      <3>2. ASSUME NEW x \in execs, x.key = k, Held(x) PROVE x \in execs' /\ Held(x)'
        BY <2>1, <2>4, <3>1, <3>2 DEF Held, OwnedBy
      <3>3. QED
        BY <2>3, <3>1, <3>2, OnceFrame
    <2>5. CASE OwnedBy(e.worker, e.key, e.gen) /\ e.key = k
      <3>1. CASE e.at = "completing"
        BY <1>0, <2>1, <2>5, <3>1, ResultRows
      <3>2. CASE e.at = "failing"
        <4>1. Held(e)
          BY <2>5, LeaseTypes DEF LeaseInv, Over, OwnedBy
        <4>2. ASSUME NEW x \in execs, x.key = k, x.at = "completing", Held(x) PROVE FALSE
          BY <2>5, <3>2, <4>1, <4>2 DEF LeaseInv
        <4>3. QED
          BY <2>3, <2>5, <4>2 DEF OnceInv, WritesSuccess, OwnedBy
      <3>3. QED
        BY <2>1, <3>1, <3>2
    <2>6. QED
      BY <2>4, <2>5
  <1>5. ~CompleteErrors(e) /\ ~FailErrors(e)
    BY DEF CompleteErrors, FailErrors
  <1>6. QED
    BY <1>1, <1>2, <1>3, <1>4, <1>5 DEF ExecStep

\* OnceInv is an invariant of the queue, for every value of the constants.
LEMMA OnceIsInvariant == Spec => []OnceInv
  <1>1. Init => OnceInv
    BY DEF Init, OnceInv
  <1>2. TypeOK /\ LeaseInv /\ QueueInv /\ OnceInv /\ [Next]_vars => OnceInv'
    <2> SUFFICES ASSUME TypeOK, LeaseInv, QueueInv, OnceInv, [Next]_vars,
                        NEW k \in Keys, RowId(k)' \in succeeded', Faultless(k)'
                 PROVE  (jobs[k].status = "done" \/ WritesSuccess(k))'
      BY DEF OnceInv
    <2>1. /\ Faultless(k) /\ stalls[k] = 0 /\ stalls'[k] = 0 /\ ~DbError
          /\ \A w \in Workers : ~Exit(w)
      BY FaultsStay DEF Faultless
    <2>2. ASSUME jobs' = jobs, execs' = execs, succeeded' = succeeded
          PROVE  (jobs[k].status = "done" \/ WritesSuccess(k))'
      BY <2>1, <2>2 DEF OnceInv, WritesSuccess, Held, OwnedBy, RowId
    <2>3. (\E w \in Workers : Stop(w)) \/ UNCHANGED vars
            => jobs' = jobs /\ execs' = execs /\ succeeded' = succeeded
      BY DEF Stop, vars, history
    <2>4. QED
      BY <2>1, <2>2, <2>3, OnceOutside, OncePoll, OnceExec DEF Next
  <1>3. QED
    BY <1>1, <1>2, TypeCorrect, LeaseIsInvariant, QueueIsInvariant, PTL DEF Spec

\* A row whose handler has returned is not executed again unless a lease ran out in
\* a live worker, a statement failed, or a process ended.
THEOREM ExactlyOnce == Spec => ExactlyOnceWhenFaultless
  <1> DEFINE NotAgain == \A e \in execs' \ execs :
        (e.at = "handler" /\ <<e.key, e.gen>> \in succeeded) => ~Faultless(e.key)
  <1>1. TypeOK /\ OnceInv /\ [Next]_vars => [NotAgain]_vars
    <2> SUFFICES ASSUME TypeOK, OnceInv, [Next]_vars, NEW e \in execs' \ execs,
                        e.at = "handler", <<e.key, e.gen>> \in succeeded, Faultless(e.key)
                 PROVE  FALSE
      OBVIOUS
    <2>1. \A x \in execs, place \in {"completing", "failing"} :
             [x EXCEPT !.at = place].at = place
      BY DEF TypeOK, Execution
    <2>2. ASSUME NEW x \in execs, ExecStep(x) PROVE FALSE
      BY <2>1, <2>2 DEF ExecStep, Renew, HandlerReturns, HandlerThrows, Complete,
                        CompleteErrors, Fail, FailErrors, MoveTo, Die
    <2>3. ASSUME NEW w \in Workers, NEW S \in SUBSET Keys, Claim(w, S) PROVE FALSE
      <3>1. PICK k \in S : e.key = k /\ e.gen = jobs[k].gen
        BY <2>3 DEF Claim
      <3>2. k \in Keys /\ RowId(k) \in succeeded /\ k \in Claimable
        BY <2>3, <3>1 DEF RowId, Claim, Claimable
      <3>3. jobs[k].status # "done" /\ ~WritesSuccess(k)
        BY <3>2 DEF Claimable, WritesSuccess, Held, OwnedBy
      <3>4. QED
        BY <3>1, <3>2, <3>3 DEF OnceInv
    <2>4. ASSUME NEW w \in Workers, PollStep(w) PROVE FALSE
      BY <2>3, <2>4 DEF PollStep, ScheduleRecurring, ExpireExhausted, PollFails
    <2>5. TimeStep \/ OutsideStep => FALSE
      BY DEF TimeStep, OutsideStep, BucketPasses, RunAtPasses, LeaseRunsOut, LeaseStalls,
             Enqueue, AdminRetry, DeleteFinished
    <2>6. ASSUME NEW w \in Workers, Stop(w) \/ Exit(w) PROVE FALSE
      BY <2>6 DEF Stop, Exit, Die
    <2>7. UNCHANGED vars => FALSE
      BY DEF vars
    <2>8. QED
      BY <2>2, <2>4, <2>5, <2>6, <2>7 DEF Next
  <1>2. QED
    BY <1>1, TypeCorrect, OnceIsInvariant, PTL DEF Spec, ExactlyOnceWhenFaultless

-----------------------------------------------------------------------------
(***************************************************************************)
(* The queue implements JobPromise.  LifeOf and Performed are the mapping;   *)
(* PromiseSteps says which steps of the rows are which steps of the promise, *)
(* and the step theorem sorts the actions of the queue into them.            *)
(***************************************************************************)
LifeOf(k) == IF jobs[k].status \in {"none", "done", "dead"} THEN jobs[k].status ELSE "open"
Performed == {k \in Keys : RowId(k) \in succeeded}

\* The steps of the promise, in terms of the rows.
PromiseStep == Promise!Next \/ UNCHANGED Promise!vars

\* A step that changes neither the life of a row nor what was performed is none of
\* the promise.
LEMMA Stutters ==
  ASSUME \A k \in Keys : LifeOf(k)' = LifeOf(k), Performed' = Performed
  PROVE  PromiseStep
  BY DEF PromiseStep, Promise!vars, LifeOf, Performed

\* A row that comes to be queued is an accepted job.
LEMMA Accepts ==
  ASSUME NEW i \in Keys, LifeOf(i) = "none", LifeOf(i)' = "open",
         \A k \in Keys \ {i} : LifeOf(k)' = LifeOf(k), Performed' = Performed
  PROVE  PromiseStep
  <1>1. Promise!Accept({i})
    BY DEF Promise!Accept, LifeOf, Performed
  <1>2. QED
    BY <1>1 DEF PromiseStep, Promise!Next

\* Rows that become dead in one statement are jobs given up together.
LEMMA GivesUp ==
  ASSUME NEW S \in SUBSET Keys, \A k \in S : LifeOf(k) = "open" /\ LifeOf(k)' = "dead",
         \A k \in Keys \ S : LifeOf(k)' = LifeOf(k), Performed' = Performed
  PROVE  PromiseStep
  <1>1. CASE S = {}
    BY <1>1, Stutters
  <1>2. CASE S # {}
    <2>1. Promise!GiveUp(S)
      BY <1>2 DEF Promise!GiveUp, LifeOf, Performed
    <2>2. QED
      BY <2>1 DEF PromiseStep, Promise!Next
  <1>3. QED
    BY <1>1, <1>2

\* A handler that returns for a row that is not done has performed the job.
LEMMA Performs ==
  ASSUME NEW i \in Keys, LifeOf(i) \in {"open", "dead"},
         \A k \in Keys : LifeOf(k)' = LifeOf(k), Performed' = Performed \cup {i}
  PROVE  PromiseStep
  <1>1. Promise!Perform(i)
    BY DEF Promise!Perform, LifeOf, Performed
  <1>2. QED
    BY <1>1 DEF PromiseStep, Promise!Next

\* A row that becomes done after its handler returned is a job that succeeded.
LEMMA Succeeds ==
  ASSUME NEW i \in Keys, LifeOf(i) = "open", LifeOf(i)' = "done", i \in Performed,
         \A k \in Keys \ {i} : LifeOf(k)' = LifeOf(k), Performed' = Performed
  PROVE  PromiseStep
  <1>1. Promise!Succeed(i)
    BY DEF Promise!Succeed, LifeOf, Performed
  <1>2. QED
    BY <1>1 DEF PromiseStep, Promise!Next

\* A dead row that is queued again is a revived job.
LEMMA Revives ==
  ASSUME NEW i \in Keys, LifeOf(i) = "dead", LifeOf(i)' = "open",
         \A k \in Keys \ {i} : LifeOf(k)' = LifeOf(k), Performed' = Performed
  PROVE  PromiseStep
  <1>1. Promise!Revive(i)
    BY DEF Promise!Revive, LifeOf, Performed
  <1>2. QED
    BY <1>1 DEF PromiseStep, Promise!Next

\* A done row that goes frees the key and what was performed under it.
LEMMA Forgets ==
  ASSUME NEW i \in Keys, LifeOf(i) = "done", LifeOf(i)' = "none",
         \A k \in Keys \ {i} : LifeOf(k)' = LifeOf(k), Performed' = Performed \ {i}
  PROVE  PromiseStep
  <1>1. Promise!Forget(i)
    BY DEF Promise!Forget, LifeOf, Performed
  <1>2. QED
    BY <1>1 DEF PromiseStep, Promise!Next

\* What a step leaves of the rows decides what was performed: while every key keeps
\* its row, only a new success counts.
LEMMA PerformedFrame ==
  ASSUME \A k \in Keys : jobs'[k].gen = jobs[k].gen, succeeded' = succeeded
  PROVE  Performed' = Performed
  BY DEF Performed, RowId

\* INSERT ... ON CONFLICT DO NOTHING accepts a job, or changes nothing.
LEMMA PromiseInsert ==
  ASSUME jobs \in [Keys -> Row], NEW i \in Keys, NEW d \in BOOLEAN,
         jobs' = Insert(i, d), succeeded' = succeeded
  PROVE  PromiseStep
  <1>1. \A k \in Keys : /\ jobs'[k].gen = jobs[k].gen
                        /\ jobs'[k].status = IF k = i /\ jobs[k].status = "none"
                                             THEN "queued" ELSE jobs[k].status
    BY StatementRows
  <1>2. Performed' = Performed
    BY <1>1, PerformedFrame
  <1>3. CASE jobs[i].status = "none"
    BY <1>1, <1>2, <1>3, Accepts DEF LifeOf
  <1>4. CASE jobs[i].status # "none"
    BY <1>1, <1>2, <1>4, Stutters DEF LifeOf
  <1>5. QED
    BY <1>3, <1>4

\* The burial of running rows gives their jobs up.
LEMMA PromiseBury ==
  ASSUME jobs \in [Keys -> Row], NEW S \in SUBSET Keys,
         \A k \in S : jobs[k].status = "running",
         jobs' = Bury(S), succeeded' = succeeded
  PROVE  PromiseStep
  <1>1. \A k \in Keys : /\ jobs'[k].gen = jobs[k].gen
                        /\ jobs'[k].status = IF k \in S THEN "dead" ELSE jobs[k].status
    BY StatementRows
  <1>2. Performed' = Performed
    BY <1>1, PerformedFrame
  <1>3. QED
    BY <1>1, <1>2, GivesUp DEF LifeOf

\* Time and outsiders: an insert accepts a job, the administrator revives a dead
\* one, retention forgets a done one; deadlines are not part of the promise.
LEMMA PromiseOutside ==
  ASSUME TypeOK, QueueInv, TimeStep \/ OutsideStep PROVE PromiseStep
  <1> USE DEF processes, history
  <1>0. jobs \in [Keys -> Row] /\ \A k \in Keys : jobs[k] \in Row /\ jobs[k].gen \in Nat
    BY LeaseTypes
  <1>1. CASE BucketPasses
    BY <1>1, Stutters DEF BucketPasses, LifeOf, Performed, RowId
  <1>2. ASSUME NEW i \in Keys, RunAtPasses(i) \/ LeaseRunsOut(i) \/ LeaseStalls(i)
        PROVE  PromiseStep
    <2>1. /\ jobs' \in {[jobs EXCEPT ![i] = [@ EXCEPT !.due = TRUE]],
                        [jobs EXCEPT ![i] = [@ EXCEPT !.expired = TRUE]]}
          /\ succeeded' = succeeded
      BY <1>2 DEF RunAtPasses, LeaseRunsOut, LeaseStalls
    <2>2. \A k \in Keys : jobs'[k].gen = jobs[k].gen /\ jobs'[k].status = jobs[k].status
      BY <1>0, <2>1 DEF Row
    <2>3. QED
      BY <2>1, <2>2, PerformedFrame, Stutters DEF LifeOf
  <1>3. ASSUME NEW i \in AppKeys, NEW d \in BOOLEAN, Enqueue(i, d) PROVE PromiseStep
    <2>1. i \in Keys /\ jobs' = Insert(i, d) /\ succeeded' = succeeded
      BY <1>3 DEF Enqueue, Keys
    <2>2. QED
      BY <1>0, <2>1, PromiseInsert
  <1>4. ASSUME NEW i \in Keys, AdminRetry(i) PROVE PromiseStep
    <2>1. /\ jobs' = [jobs EXCEPT ![i] = [@ EXCEPT !.status = "queued", !.attempts = 0,
                                                    !.due = TRUE]]
          /\ jobs[i].status = "dead" /\ succeeded' = succeeded
      BY <1>4 DEF AdminRetry
    <2>2. /\ \A k \in Keys : jobs'[k].gen = jobs[k].gen
          /\ \A k \in Keys \ {i} : jobs'[k].status = jobs[k].status
          /\ jobs'[i].status = "queued"
      BY <1>0, <2>1 DEF Row
    <2>3. QED
      BY <2>1, <2>2, PerformedFrame, Revives DEF LifeOf
  <1>5. ASSUME NEW i \in Keys, DeleteFinished(i) PROVE PromiseStep
    <2>1. /\ jobs' = [jobs EXCEPT ![i] = Vacant(jobs[i].gen + 1)]
          /\ jobs[i].status = "done" /\ succeeded' = succeeded
      BY <1>5 DEF DeleteFinished
    <2>2. /\ \A k \in Keys \ {i} : jobs'[k] = jobs[k]
          /\ jobs'[i].status = "none" /\ jobs'[i].gen = jobs[i].gen + 1
      BY <1>0, <2>1 DEF Vacant
    <2>3. <<i, jobs[i].gen + 1>> \notin succeeded
      BY <1>0 DEF QueueInv, RecordIsTrue
    <2>4. Performed' = Performed \ {i}
      BY <2>1, <2>2, <2>3 DEF Performed, RowId
    <2>5. QED
      BY <2>1, <2>2, <2>4, Forgets DEF LifeOf
  <1>6. QED
    BY <1>1, <1>2, <1>3, <1>4, <1>5 DEF TimeStep, OutsideStep

\* A poll accepts the recurring job and gives exhausted jobs up; a claim is no step
\* of the promise, and neither is a statement that failed unapplied.
LEMMA PromisePoll ==
  ASSUME TypeOK, NEW w \in Workers, PollStep(w) PROVE PromiseStep
  <1> USE DEF processes, history
  <1>0. jobs \in [Keys -> Row]
    BY LeaseTypes
  <1>1. /\ succeeded' = succeeded
        /\ \/ jobs' \in {jobs, RecurringInsert(w), Bury(Exhausted)}
           \/ \E S \in SUBSET Claimable : jobs' = Lease(w, S)
    BY DEF PollStep, ScheduleRecurring, ExpireExhausted, PollFails, Claim
  <1>2. CASE jobs' = jobs
    BY <1>1, <1>2, PerformedFrame, Stutters DEF LifeOf
  <1>3. CASE jobs' = RecurringInsert(w)
    <2>1. CASE jobs' = jobs
      BY <1>2, <2>1
    <2>2. CASE bucket \in Buckets /\ jobs' = Insert(bucket, TRUE)
      <3>1. bucket \in Keys
        BY <2>2 DEF Keys
      <3>2. QED
        BY <1>0, <1>1, <2>2, <3>1, PromiseInsert
    <2>3. QED
      BY <1>3, <2>1, <2>2 DEF RecurringInsert
  <1>4. CASE jobs' = Bury(Exhausted)
    <2>1. Exhausted \in SUBSET Keys /\ \A k \in Exhausted : jobs[k].status = "running"
      BY DEF Exhausted
    <2>2. QED
      BY <1>0, <1>1, <1>4, <2>1, PromiseBury
  <1>5. ASSUME NEW S \in SUBSET Claimable, jobs' = Lease(w, S) PROVE PromiseStep
    <2>1. S \in SUBSET Keys /\ \A k \in S : jobs[k].status \in {"queued", "failed", "running"}
      BY DEF Claimable
    <2>2. \A k \in Keys : /\ jobs'[k].gen = jobs[k].gen
                          /\ jobs'[k].status = IF k \in S THEN "running" ELSE jobs[k].status
      BY <1>0, <1>5, <2>1, StatementRows
    <2>3. \A k \in Keys : LifeOf(k)' = LifeOf(k)
      BY <2>1, <2>2 DEF LifeOf
    <2>4. QED
      BY <1>1, <2>2, <2>3, PerformedFrame, Stutters
  <1>6. QED
    BY <1>1, <1>2, <1>3, <1>4, <1>5

\* An execution performs its job when the handler returns, unless the row is done
\* already or another has its key; its result ends the job, or lets it wait.
LEMMA PromiseExec ==
  ASSUME TypeOK, QueueInv, NEW e \in execs, ExecStep(e) PROVE PromiseStep
  <1> USE DEF processes, history
  <1>0. /\ jobs \in [Keys -> Row] /\ \A k \in Keys : jobs[k] \in Row
        /\ e \in Execution /\ e.key \in Keys /\ KnowsItsRow(e)
    BY LeaseTypes DEF TypeOK, QueueInv
  <1>1. ASSUME jobs' = jobs, succeeded' = succeeded PROVE PromiseStep
    BY <1>1, PerformedFrame, Stutters DEF LifeOf
  <1>2. CASE Renew(e)
    <2>1. \A k \in Keys : jobs'[k].gen = jobs[k].gen /\ jobs'[k].status = jobs[k].status
      BY <1>0, <1>2 DEF Renew, Row
    <2>2. succeeded' = succeeded
      BY <1>2 DEF Renew
    <2>3. QED
      BY <2>1, <2>2, PerformedFrame, Stutters DEF LifeOf
  <1>3. CASE HandlerReturns(e)
    <2>1. jobs' = jobs /\ succeeded' = succeeded \cup {<<e.key, e.gen>>}
      BY <1>3 DEF HandlerReturns
    <2>2. \A k \in Keys : LifeOf(k)' = LifeOf(k)
      BY <2>1 DEF LifeOf
    <2>3. CASE e.gen # jobs[e.key].gen \/ LifeOf(e.key) = "done"
      <3>1. Performed' = Performed
        BY <1>0, <2>1, <2>3 DEF Performed, RowId, LifeOf, QueueInv, RecordIsTrue
      <3>2. QED
        BY <2>2, <3>1, Stutters
    <2>4. CASE e.gen = jobs[e.key].gen /\ LifeOf(e.key) # "done"
      <3>1. Performed' = Performed \cup {e.key}
        BY <1>0, <2>1, <2>4 DEF Performed, RowId
      <3>2. LifeOf(e.key) \in {"open", "dead"}
        BY <1>0, <2>4 DEF LifeOf, KnowsItsRow
      <3>3. QED
        BY <1>0, <2>2, <3>1, <3>2, Performs
    <2>5. QED
      BY <2>3, <2>4
  <1>4. CASE HandlerThrows(e)
    BY <1>1, <1>4 DEF HandlerThrows
  <1>5. ASSUME jobs' = Finished(e), succeeded' = succeeded, e.at = "completing"
        PROVE  PromiseStep
    <2>1. CASE ~OwnedBy(e.worker, e.key, e.gen)
      BY <1>1, <1>5, <2>1 DEF Finished
    <2>2. CASE OwnedBy(e.worker, e.key, e.gen)
      <3>1. /\ \A k \in Keys : jobs'[k].gen = jobs[k].gen
            /\ \A k \in Keys \ {e.key} : jobs'[k].status = jobs[k].status
            /\ jobs'[e.key].status = "done" /\ jobs[e.key].status = "running"
        BY <1>0, <1>5, <2>2, ResultRows DEF OwnedBy
      <3>2. e.key \in Performed
        BY <1>0, <1>5, <2>2 DEF Performed, RowId, KnowsItsRow, OwnedBy
      <3>3. QED
        BY <1>0, <1>5, <3>1, <3>2, PerformedFrame, Succeeds DEF LifeOf
    <2>3. QED
      BY <2>1, <2>2
  <1>6. ASSUME jobs' = Failed(e), succeeded' = succeeded PROVE PromiseStep
    <2>1. CASE ~OwnedBy(e.worker, e.key, e.gen)
      BY <1>1, <1>6, <2>1 DEF Failed
    <2>2. CASE OwnedBy(e.worker, e.key, e.gen) /\ e.attempt >= MaxAttempts
      <3>1. jobs' = Bury({e.key}) /\ jobs[e.key].status = "running"
        BY <1>6, <2>2 DEF Failed, OwnedBy
      <3>2. QED
        BY <1>0, <1>6, <3>1, PromiseBury
    <2>3. CASE OwnedBy(e.worker, e.key, e.gen) /\ ~(e.attempt >= MaxAttempts)
      <3>1. /\ \A k \in Keys : jobs'[k].gen = jobs[k].gen
            /\ \A k \in Keys \ {e.key} : jobs'[k].status = jobs[k].status
            /\ jobs'[e.key].status = "failed" /\ jobs[e.key].status = "running"
        BY <1>0, <1>6, <2>3, ResultRows DEF OwnedBy
      <3>2. \A k \in Keys : LifeOf(k)' = LifeOf(k)
        BY <3>1 DEF LifeOf
      <3>3. QED
        BY <1>6, <3>1, <3>2, PerformedFrame, Stutters
    <2>4. QED
      BY <2>1, <2>2, <2>3
  <1>7. CASE Complete(e) \/ CompleteErrors(e)
    <2>1. jobs' \in {jobs, Finished(e)} /\ succeeded' = succeeded /\ e.at = "completing"
      BY <1>7 DEF Complete, CompleteErrors
    <2>2. QED
      BY <1>1, <1>5, <2>1
  <1>8. CASE Fail(e) \/ FailErrors(e)
    <2>1. jobs' \in {jobs, Failed(e)} /\ succeeded' = succeeded
      BY <1>8 DEF Fail, FailErrors
    <2>2. QED
      BY <1>1, <1>6, <2>1
  <1>9. QED
    BY <1>2, <1>3, <1>4, <1>7, <1>8 DEF ExecStep

\* The queue keeps its promise to the code that enqueues: it refines JobPromise. A
\* job is done only after its handler returned, it ends done or dead, and stays so
\* until an administrator revives it or retention forgets it.
THEOREM QueueKeepsPromise == Spec => PromiseKept
  <1>1. Init => Promise!Init
    BY DEF Init, Promise!Init, RowId, Vacant
  <1>2. TypeOK /\ QueueInv /\ [Next]_vars => PromiseStep
    <2> SUFFICES ASSUME TypeOK, QueueInv, [Next]_vars PROVE PromiseStep
      OBVIOUS
    <2>1. (\E w \in Workers : Stop(w) \/ Exit(w)) \/ UNCHANGED vars
            => jobs' = jobs /\ succeeded' = succeeded
      BY DEF Stop, Exit, vars, history
    <2>2. jobs' = jobs /\ succeeded' = succeeded => PromiseStep
      BY PerformedFrame, Stutters DEF LifeOf
    <2>3. QED
      BY <2>1, <2>2, PromiseOutside, PromisePoll, PromiseExec DEF Next
  <1>3. PromiseStep => [Promise!Next]_(Promise!vars)
    BY DEF PromiseStep
  <1>4. QED
    BY <1>1, <1>2, <1>3, TypeCorrect, QueueIsInvariant, PTL
       DEF Spec, PromiseKept, Promise!Spec
=============================================================================
