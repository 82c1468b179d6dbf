----------------------------- MODULE OfficeProofs ------------------------------
(***************************************************************************)
(* Proofs about what runs in the office of a club: the delivery of a message,  *)
(* the recorded hours, a membership and the categories with their age          *)
(* transition, each for any numbers of people, days, calls and faults.         *)
(***************************************************************************)
EXTENDS Delivery, TimeTracking, Membership, Categories, FiniteSetTheorems, TLAPS

-----------------------------------------------------------------------------
(***************************************************************************)
(* One delivery.  Every time a message may still be handed over is somebody's *)
(* token: a job that waits or whose lease ran out, a handler that has not      *)
(* handed over yet.  Budget counts them: only trouble and resends make new     *)
(* ones.  While no execution has outlived its lease a resend makes none that   *)
(* another use has not given back: there is one live job and one handler, and  *)
(* what it has handed over is recorded before anything else happens.           *)
(***************************************************************************)
JobRow == [status: {"waiting", "running", "expired", "done", "dead"}, attempts: Nat]
Ended == {"done", "dead"}
NewestJob == Cardinality(DOMAIN sendJobs)

FreeJobs == {j \in DOMAIN sendJobs : sendJobs[j].status \in {"waiting", "expired"}}
Hands == {h \in handlers : h.at # "accepted"}

Budget ==
  /\ IsFiniteSet(handlers)
  /\ mailed + Cardinality(FreeJobs) + Cardinality(Hands) <= 1 + trouble + Resends

\* The one live job, and its one handler.
OneAtWork ==
  /\ \A g, h \in handlers : g = h
  /\ \A h \in handlers : sendJobs[h.job].status = "running" /\ sendJobs[h.job].attempts = h.attempt
  /\ \A j \in DOMAIN sendJobs : j # NewestJob => sendJobs[j].status \in Ended
  /\ delivery.status = "failed" => sendJobs[NewestJob].status \in Ended

\* The row while its handler works.
RowFollows ==
  /\ delivery.status = "sending" => IsMail
  /\ Open => /\ sendJobs[NewestJob].status # "done"
             /\ delivery.attempts <= sendJobs[NewestJob].attempts
  /\ \A h \in handlers :
       /\ delivery.status \notin {"sent", "failed"}
       /\ h.at \in {"guarding", "passed"} /\ Open => delivery.attempts < h.attempt
       /\ h.at = "passed" => IsMail
       /\ h.at \in {"claimed", "accepted", "rejected"} =>
            delivery.status \in IF IsMail THEN {"sending"} ELSE {"queued", "skipped"}

\* What was handed over is accounted for by trouble, or by the row or the handler
\* that is about to write it.
Accounted ==
  \/ mailed <= trouble
  \/ /\ mailed <= trouble + 1
     /\ \/ \E h \in handlers : h.at = "accepted"
        \/ handlers = {} /\ delivery.status \in {"sent", "skipped"}

DeliveryInv ==
  /\ DeliveryTypeOK
  /\ \A h \in handlers : h.job \in DOMAIN sendJobs
  /\ Budget
  /\ ~outlived => OneAtWork /\ RowFollows /\ Accounted

\* Tokens that stay, move, come and go.
LEMMA TokensStay ==
  ASSUME NEW S, IsFiniteSet(S), NEW T \in SUBSET S
  PROVE  IsFiniteSet(T) /\ Cardinality(T) \in Nat /\ Cardinality(S) \in Nat
         /\ Cardinality(T) <= Cardinality(S)
  BY FS_Subset, FS_CardinalityType

LEMMA TokenComes ==
  ASSUME NEW S, IsFiniteSet(S), NEW x, NEW T \in SUBSET (S \cup {x})
  PROVE  IsFiniteSet(T) /\ Cardinality(T) \in Nat /\ Cardinality(S) \in Nat
         /\ Cardinality(T) <= Cardinality(S) + 1
  <1>1. IsFiniteSet(S \cup {x}) /\ Cardinality(S \cup {x}) <= Cardinality(S) + 1
    <2> DEFINE more == S \cup {x}
    <2>1. IsFiniteSet(more)
          /\ Cardinality(more) = IF x \in S THEN Cardinality(S) ELSE Cardinality(S) + 1
      BY FS_AddElement
    <2>2. Cardinality(S) \in Nat
      BY FS_CardinalityType
    <2> HIDE DEF more
    <2>3. IsFiniteSet(more) /\ Cardinality(more) <= Cardinality(S) + 1
      BY <2>1, <2>2
    <2>4. QED
      BY <2>3 DEF more
  <1>2. QED
    BY <1>1, FS_Subset, FS_CardinalityType

LEMMA TokenGoes ==
  ASSUME NEW S, IsFiniteSet(S), NEW x \in S, NEW T \in SUBSET (S \ {x})
  PROVE  IsFiniteSet(T) /\ Cardinality(T) \in Nat /\ Cardinality(S) \in Nat
         /\ Cardinality(T) + 1 <= Cardinality(S)
  <1>1. IsFiniteSet(S \ {x}) /\ Cardinality(S \ {x}) = Cardinality(S) - 1
    BY FS_RemoveElement
  <1>2. QED
    BY <1>1, FS_Subset, FS_CardinalityType

LEMMA TokenMoves ==
  ASSUME NEW S, IsFiniteSet(S), NEW x \in S, NEW y, NEW T \in SUBSET ((S \ {x}) \cup {y})
  PROVE  IsFiniteSet(T) /\ Cardinality(T) \in Nat /\ Cardinality(S) \in Nat
         /\ Cardinality(T) <= Cardinality(S)
  <1>1. IsFiniteSet(S \ {x}) /\ Cardinality(S \ {x}) = Cardinality(S) - 1
    BY FS_RemoveElement
  <1>2. Cardinality(S \ {x}) \in Nat /\ Cardinality(S) \in Nat
    BY <1>1, FS_CardinalityType
  <1>3. IsFiniteSet(T) /\ Cardinality(T) \in Nat /\ Cardinality(T) <= Cardinality(S \ {x}) + 1
    BY <1>1, TokenComes
  <1>4. QED
    BY <1>1, <1>2, <1>3

\* The jobs are numbered from 1 to the newest.
LEMMA JobsNumbered ==
  ASSUME NEW n \in Nat, NEW f, DOMAIN f = 1..n
  PROVE  Cardinality(DOMAIN f) = n /\ IsFiniteSet(DOMAIN f)
  BY FS_Interval

LEMMA DeliveryTypes ==
  ASSUME DeliveryTypeOK
  PROVE  /\ NewestJob \in 1..(MaxResends + 1)
         /\ sendJobs \in [1..NewestJob -> JobRow]
         /\ DOMAIN sendJobs = 1..NewestJob
         /\ IsFiniteSet(FreeJobs) /\ Cardinality(FreeJobs) \in Nat
         /\ Resends = NewestJob - 1
  <1>1. PICK n \in 1..(MaxResends + 1) : sendJobs \in [1..n -> JobRow]
    BY DEF DeliveryTypeOK, JobRow
  <1>2. NewestJob = n /\ IsFiniteSet(DOMAIN sendJobs)
    BY <1>1, JobsNumbered, DeliveryAssumption DEF NewestJob
  <1>3. IsFiniteSet(FreeJobs) /\ Cardinality(FreeJobs) \in Nat
    BY <1>2, TokensStay DEF FreeJobs
  <1>4. QED
    BY <1>1, <1>2, <1>3 DEF NewestJob, Resends

LEMMA HandlerTypes ==
  ASSUME DeliveryInv, NEW h \in handlers
  PROVE  /\ h.job \in DOMAIN sendJobs /\ h.attempt \in Nat
         /\ h.at \in {"guarding", "passed", "claimed", "accepted", "rejected"}
         /\ \A at : [h EXCEPT !.at = at].job = h.job
                    /\ [h EXCEPT !.at = at].attempt = h.attempt
                    /\ [h EXCEPT !.at = at].at = at
         /\ \A at \in {"passed", "claimed", "accepted", "rejected"} : [h EXCEPT !.at = at] \in Handler
  BY DEF DeliveryInv, DeliveryTypeOK, Handler

LEMMA HandsCounted ==
  ASSUME Budget
  PROVE  IsFiniteSet(Hands) /\ Cardinality(Hands) \in Nat
  BY TokensStay DEF Budget, Hands

\* A handler returns, or the process ends.
LEMMA HandLeaves ==
  ASSUME Budget, NEW h \in handlers, handlers' = handlers \ {h}
  PROVE  /\ IsFiniteSet(handlers') /\ Cardinality(Hands') \in Nat
         /\ Cardinality(Hands') <= Cardinality(Hands)
         /\ h.at # "accepted" => Cardinality(Hands') + 1 <= Cardinality(Hands)
  <1>1. IsFiniteSet(handlers')
    BY TokensStay DEF Budget
  <1>2. Hands' \in SUBSET Hands /\ (h.at # "accepted" => h \in Hands /\ Hands' \in SUBSET (Hands \ {h}))
    BY DEF Hands
  <1>3. IsFiniteSet(Hands)
    BY HandsCounted
  <1>4. Cardinality(Hands') \in Nat /\ Cardinality(Hands') <= Cardinality(Hands)
    BY <1>2, <1>3, TokensStay
  <1>5. h.at # "accepted" => Cardinality(Hands') + 1 <= Cardinality(Hands)
    BY <1>2, <1>3, TokenGoes
  <1>6. QED
    BY <1>1, <1>4, <1>5

\* A handler goes on; with the message handed over its token is spent.
LEMMA HandGoesOn ==
  ASSUME Budget, NEW h \in handlers, h.at # "accepted", NEW at, MovesTo(h, at),
         [h EXCEPT !.at = at].at = at
  PROVE  /\ IsFiniteSet(handlers') /\ Cardinality(Hands') \in Nat
         /\ Cardinality(Hands') <= Cardinality(Hands)
         /\ at = "accepted" => Cardinality(Hands') + 1 <= Cardinality(Hands)
  <1> DEFINE next == [h EXCEPT !.at = at]
  <1>0. next.at = at
    OBVIOUS
  <1>a. handlers' = (handlers \ {h}) \cup {next}
    BY DEF MovesTo
  <1> HIDE DEF next
  <1>1. IsFiniteSet(handlers')
    BY <1>a, FS_AddElement, FS_RemoveElement DEF Budget
  <1>2. h \in Hands /\ Hands' \in SUBSET ((Hands \ {h}) \cup {next})
        /\ (at = "accepted" => Hands' \in SUBSET (Hands \ {h}))
    BY <1>0, <1>a DEF Hands
  <1>3. IsFiniteSet(Hands)
    BY HandsCounted
  <1>4. Cardinality(Hands') \in Nat /\ Cardinality(Hands') <= Cardinality(Hands)
    BY <1>2, <1>3, TokenMoves
  <1>5. at = "accepted" => Cardinality(Hands') + 1 <= Cardinality(Hands)
    BY <1>2, <1>3, TokenGoes
  <1>6. QED
    BY <1>1, <1>4, <1>5

\* What an execution, or the end of it, makes of its job.
JobWritten(j, status) ==
  \/ sendJobs' = [sendJobs EXCEPT ![j].status = status]
  \/ sendJobs' = sendJobs

LEMMA JobAfter ==
  ASSUME DeliveryTypeOK, NEW j \in DOMAIN sendJobs,
         NEW status \in {"waiting", "running", "expired", "done", "dead"}, JobWritten(j, status)
  PROVE  /\ \E n \in 1..(MaxResends + 1) : sendJobs' \in [1..n -> JobRow]
         /\ DOMAIN sendJobs' = DOMAIN sendJobs /\ NewestJob' = NewestJob /\ Resends' = Resends
         /\ \A i \in DOMAIN sendJobs : sendJobs'[i].attempts = sendJobs[i].attempts
         /\ \A i \in DOMAIN sendJobs \ {j} : sendJobs'[i] = sendJobs[i]
         /\ Cardinality(FreeJobs') \in Nat
         /\ Cardinality(FreeJobs') <= Cardinality(FreeJobs) + 1
         /\ status \in Ended => Cardinality(FreeJobs') <= Cardinality(FreeJobs)
  <1>1. PICK n \in 1..(MaxResends + 1) : n = NewestJob /\ sendJobs \in [1..n -> JobRow]
    BY DeliveryTypes
  <1>2. sendJobs' \in [1..n -> JobRow]
    BY <1>1 DEF JobWritten, JobRow
  <1>3. /\ DOMAIN sendJobs' = DOMAIN sendJobs
        /\ \A i \in DOMAIN sendJobs : sendJobs'[i].attempts = sendJobs[i].attempts
        /\ \A i \in DOMAIN sendJobs \ {j} : sendJobs'[i] = sendJobs[i]
        /\ sendJobs'[j] = sendJobs[j] \/ sendJobs'[j].status = status
    BY <1>1 DEF JobWritten, JobRow
  <1>4. NewestJob' = NewestJob /\ Resends' = Resends
    BY <1>3 DEF NewestJob, Resends
  <1>5. FreeJobs' \in SUBSET (FreeJobs \cup {j})
    BY <1>3 DEF FreeJobs
  <1>6. status \in Ended => FreeJobs' \in SUBSET FreeJobs
    BY <1>3 DEF FreeJobs, Ended
  <1>7. IsFiniteSet(FreeJobs)
    BY DeliveryTypes
  <1>8. Cardinality(FreeJobs') \in Nat /\ Cardinality(FreeJobs') <= Cardinality(FreeJobs) + 1
    BY <1>5, <1>7, TokenComes
  <1>9. status \in Ended => Cardinality(FreeJobs') <= Cardinality(FreeJobs)
    BY <1>6, <1>7, TokensStay
  <1>10. QED
    BY <1>2, <1>3, <1>4, <1>8, <1>9

LEMMA EndWritesJob ==
  ASSUME NEW h, NEW status, EndsJob(h, status)
  PROVE  JobWritten(h.job, status)
  BY DEF EndsJob, JobWritten

\* While no execution has outlived its lease, a handler is the only one, its job
\* is the newest, and ending it ends the job.
LEMMA AloneAtWork ==
  ASSUME DeliveryInv, ~outlived, NEW h \in handlers
  PROVE  /\ handlers = {h} /\ h.job = NewestJob
         /\ sendJobs[h.job].status = "running" /\ sendJobs[h.job].attempts = h.attempt
         /\ \A status : EndsJob(h, status) => sendJobs' = [sendJobs EXCEPT ![h.job].status = status]
  <1>1. h.job \in DOMAIN sendJobs
    BY DEF DeliveryInv
  <1>2. handlers = {h} /\ sendJobs[h.job].status = "running" /\ sendJobs[h.job].attempts = h.attempt
    BY DEF DeliveryInv, OneAtWork
  <1>3. h.job = NewestJob
    BY <1>1, <1>2 DEF DeliveryInv, OneAtWork, Ended
  <1>4. QED
    BY <1>2, <1>3 DEF EndsJob

\* What a handler leaves behind when it returns, throws or dies.
LEMMA HandlerLeaves ==
  ASSUME DeliveryInv, NEW h \in handlers, NEW status \in {"waiting", "expired", "done", "dead"},
         handlers' = handlers \ {h}, JobWritten(h.job, status),
         ~outlived => sendJobs' = [sendJobs EXCEPT ![h.job].status = status],
         delivery' \in [channel: {"email", "push"}, status: {"queued", "sending"} \cup SettledMail,
                        attempts: Nat],
         delivery'.channel = delivery.channel,
         UNCHANGED <<unwanted, mailed, outlived>>,
         \/ trouble' = trouble /\ (status \in Ended \/ h.at # "accepted")
         \/ trouble' = trouble + 1 /\ trouble < MaxTrouble,
         ~outlived =>
           \/ /\ delivery'.status \in {"sent", "skipped"} /\ status = "done"
              /\ mailed <= trouble' + 1
           \/ /\ delivery'.status = "failed" /\ status = "done"
              /\ mailed <= trouble'
           \/ /\ delivery'.status \in {"queued", "sending", "skipped"} /\ status # "done"
              /\ (delivery'.status # "skipped" => delivery'.attempts <= h.attempt) /\ mailed <= trouble'
              /\ delivery'.status = "sending" => delivery.channel = "email"
           \/ delivery'.status \in {"sent", "skipped"} /\ mailed <= trouble'
  PROVE  DeliveryInv'
  <1>0. h.job \in DOMAIN sendJobs /\ h.attempt \in Nat
    BY HandlerTypes
  <1>1. /\ \E n \in 1..(MaxResends + 1) : sendJobs' \in [1..n -> JobRow]
        /\ DOMAIN sendJobs' = DOMAIN sendJobs /\ NewestJob' = NewestJob /\ Resends' = Resends
        /\ \A i \in DOMAIN sendJobs : sendJobs'[i].attempts = sendJobs[i].attempts
        /\ \A i \in DOMAIN sendJobs \ {h.job} : sendJobs'[i] = sendJobs[i]
        /\ Cardinality(FreeJobs') \in Nat
        /\ Cardinality(FreeJobs') <= Cardinality(FreeJobs) + 1
        /\ status \in Ended => Cardinality(FreeJobs') <= Cardinality(FreeJobs)
    BY <1>0, JobAfter DEF DeliveryInv
  <1>2. DeliveryTypeOK'
    <2>1. \E n \in 1..(MaxResends + 1) :
            sendJobs' \in [1..n -> [status: {"waiting", "running", "expired", "done", "dead"},
                                   attempts: Nat]]
      BY <1>1 DEF JobRow
    <2>2. trouble' \in 0..MaxTrouble
      BY DeliveryAssumption DEF DeliveryInv, DeliveryTypeOK
    <2>3. handlers' \subseteq Handler /\ unwanted' \in BOOLEAN /\ outlived' \in BOOLEAN /\ mailed' \in Nat
      BY DEF DeliveryInv, DeliveryTypeOK
    <2>4. QED
      BY <2>1, <2>2, <2>3 DEF DeliveryTypeOK
  <1>3. (\A g \in handlers : g.job \in DOMAIN sendJobs)'
    BY <1>1 DEF DeliveryInv
  <1>4. Budget'
    <2>1. /\ IsFiniteSet(handlers') /\ Cardinality(Hands') \in Nat
          /\ Cardinality(Hands') <= Cardinality(Hands)
          /\ h.at # "accepted" => Cardinality(Hands') + 1 <= Cardinality(Hands)
      BY HandLeaves DEF DeliveryInv
    <2>2. Cardinality(Hands) \in Nat
      BY HandsCounted DEF DeliveryInv
    <2>3. Cardinality(FreeJobs) \in Nat /\ Resends \in Int
      BY DeliveryTypes DEF DeliveryInv
    <2>4. mailed \in Nat /\ trouble \in Nat
      BY DEF DeliveryInv, DeliveryTypeOK
    <2>5. mailed + Cardinality(FreeJobs) + Cardinality(Hands) <= 1 + trouble + Resends
      BY DEF DeliveryInv, Budget
    <2>6. Cardinality(FreeJobs') + Cardinality(Hands') - trouble'
            <= Cardinality(FreeJobs) + Cardinality(Hands) - trouble
      <3>0. /\ Cardinality(FreeJobs') \in Nat /\ Cardinality(FreeJobs') <= Cardinality(FreeJobs) + 1
            /\ status \in Ended => Cardinality(FreeJobs') <= Cardinality(FreeJobs)
        BY <1>1
      <3>1. CASE trouble' = trouble /\ status \in Ended
        BY <2>1, <2>2, <2>3, <2>4, <3>0, <3>1
      <3>2. CASE trouble' = trouble /\ h.at # "accepted"
        BY <2>1, <2>2, <2>3, <2>4, <3>0, <3>2
      <3>3. CASE trouble' = trouble + 1
        BY <2>1, <2>2, <2>3, <2>4, <3>0, <3>3
      <3>4. QED
        BY <3>1, <3>2, <3>3
    <2>7. mailed' + Cardinality(FreeJobs') + Cardinality(Hands') <= 1 + trouble' + Resends'
      <3>1. /\ Cardinality(FreeJobs') \in Nat /\ Resends' = Resends
            /\ mailed' = mailed /\ trouble' \in Nat
        BY <1>1, <2>4
      <3>2. QED
        BY <2>1, <2>2, <2>3, <2>4, <2>5, <2>6, <3>1
    <2>8. QED
      BY <2>1, <2>7 DEF Budget
  <1>5. ASSUME ~outlived'
        PROVE  OneAtWork' /\ RowFollows' /\ Accounted'
    <2>1. /\ handlers = {h} /\ h.job = NewestJob /\ sendJobs[h.job].attempts = h.attempt
          /\ sendJobs' = [sendJobs EXCEPT ![h.job].status = status]
      BY <1>5, AloneAtWork
    <2>2. handlers' = {}
      BY <2>1
    <2>3. sendJobs'[NewestJob'].status = status /\ sendJobs'[NewestJob'].attempts = h.attempt
      BY <1>0, <1>1, <2>1, DeliveryTypes DEF DeliveryInv, JobRow
    <2>4. OneAtWork'
      BY <1>1, <1>5, <2>1, <2>2, <2>3 DEF DeliveryInv, OneAtWork, Ended
    <2>5. RowFollows'
      BY <1>5, <2>2, <2>3 DEF RowFollows, Open, IsMail
    <2>6. Accounted'
      BY <1>5, <2>2 DEF Accounted
    <2>7. QED
      BY <2>4, <2>5, <2>6
  <1>6. QED
    BY <1>2, <1>3, <1>4, <1>5 DEF DeliveryInv

\* What a handler does between two steps: its place, the row, and the message.
LEMMA HandlerGoesOn ==
  ASSUME DeliveryInv, NEW h \in handlers, h.at # "accepted",
         NEW at \in {"passed", "claimed", "accepted", "rejected"},
         MovesTo(h, at), sendJobs' = sendJobs,
         delivery' \in [channel: {"email", "push"}, status: {"queued", "sending"} \cup SettledMail,
                        attempts: Nat],
         delivery'.channel = delivery.channel,
         UNCHANGED <<unwanted, trouble, outlived>>,
         mailed' = IF at = "accepted" THEN mailed + 1 ELSE mailed,
         ~outlived =>
           /\ delivery'.status \in {"queued", "sending", "skipped"}
           /\ delivery'.status = "sending" => IsMail
           /\ delivery'.status # "skipped" => delivery'.attempts <= h.attempt
           /\ at = "passed" => IsMail /\ (delivery'.status # "skipped" => delivery'.attempts < h.attempt)
           /\ at # "passed" => delivery'.status \in IF IsMail THEN {"sending"} ELSE {"queued", "skipped"}
  PROVE  DeliveryInv'
  <1> DEFINE next == [h EXCEPT !.at = at]
  <1>0. /\ h.job \in DOMAIN sendJobs /\ h.attempt \in Nat
        /\ next.at = at /\ next.job = h.job /\ next.attempt = h.attempt /\ next \in Handler
    BY HandlerTypes
  <1>a. handlers' = (handlers \ {h}) \cup {next}
    BY DEF MovesTo
  <1>b. /\ IsFiniteSet(handlers') /\ Cardinality(Hands') \in Nat
        /\ Cardinality(Hands') <= Cardinality(Hands)
        /\ at = "accepted" => Cardinality(Hands') + 1 <= Cardinality(Hands)
    BY <1>0, HandGoesOn DEF DeliveryInv
  <1> HIDE DEF next
  <1>1. FreeJobs' = FreeJobs /\ NewestJob' = NewestJob /\ Resends' = Resends
    BY DEF FreeJobs, NewestJob, Resends
  <1>2. DeliveryTypeOK'
    <2>1. handlers' \subseteq Handler
      BY <1>0, <1>a DEF DeliveryInv, DeliveryTypeOK
    <2>2. mailed' \in Nat
      BY DEF DeliveryInv, DeliveryTypeOK
    <2>3. QED
      BY <2>1, <2>2 DEF DeliveryInv, DeliveryTypeOK
  <1>3. (\A g \in handlers : g.job \in DOMAIN sendJobs)'
    BY <1>0, <1>a DEF DeliveryInv
  <1>4. Budget'
    <2>1. Cardinality(Hands) \in Nat
      BY HandsCounted DEF DeliveryInv
    <2>2. Cardinality(FreeJobs) \in Nat /\ Resends \in Int
      BY DeliveryTypes DEF DeliveryInv
    <2>3. mailed \in Nat /\ trouble \in Nat
      BY DEF DeliveryInv, DeliveryTypeOK
    <2>4. mailed + Cardinality(FreeJobs) + Cardinality(Hands) <= 1 + trouble + Resends
      BY DEF DeliveryInv, Budget
    <2>5. mailed' + Cardinality(Hands') <= mailed + Cardinality(Hands) /\ mailed' \in Nat
      BY <1>b, <2>1, <2>3
    <2>6. mailed' + Cardinality(FreeJobs) + Cardinality(Hands') <= 1 + trouble + Resends
      BY <1>b, <2>1, <2>2, <2>3, <2>4, <2>5
    <2>7. QED
      BY <1>1, <1>b, <2>6 DEF Budget
  <1>5. ASSUME ~outlived'
        PROVE  OneAtWork' /\ RowFollows' /\ Accounted'
    <2>1. /\ handlers = {h} /\ h.job = NewestJob
          /\ sendJobs[h.job].status = "running" /\ sendJobs[h.job].attempts = h.attempt
      BY <1>5, AloneAtWork
    <2>2. handlers' = {next}
      BY <1>a, <2>1
    <2>3. OneAtWork'
      <3>1. \A j \in DOMAIN sendJobs : j # NewestJob => sendJobs[j].status \in Ended
        BY <1>5 DEF DeliveryInv, OneAtWork
      <3>2. QED
        BY <1>0, <1>1, <1>5, <2>1, <2>2, <3>1 DEF OneAtWork
    <2>4. RowFollows'
      <3>1. delivery'.status \in {"queued", "sending", "skipped"} /\ (Open' => delivery'.status # "skipped")
        BY <1>5 DEF Open
      <3>2. (delivery.status = "sending" => IsMail)'
        BY <1>5 DEF IsMail
      <3>3. (Open => /\ sendJobs[NewestJob].status # "done"
                     /\ delivery.attempts <= sendJobs[NewestJob].attempts)'
        BY <1>1, <1>5, <2>1, <3>1
      <3>4. (\A g \in handlers :
               /\ delivery.status \notin {"sent", "failed"}
               /\ g.at \in {"guarding", "passed"} /\ Open => delivery.attempts < g.attempt
               /\ g.at = "passed" => IsMail
               /\ g.at \in {"claimed", "accepted", "rejected"} =>
                    delivery.status \in IF IsMail THEN {"sending"} ELSE {"queued", "skipped"})'
        BY <1>0, <1>5, <2>2, <3>1 DEF IsMail
      <3>5. QED
        BY <3>2, <3>3, <3>4 DEF RowFollows
    <2>5. mailed <= trouble
      BY <1>5, <2>1 DEF DeliveryInv, Accounted
    <2>6. Accounted'
      BY <1>0, <2>2, <2>5 DEF Accounted, DeliveryInv, DeliveryTypeOK
    <2>7. QED
      BY <2>3, <2>4, <2>6
  <1>6. QED
    BY <1>2, <1>3, <1>4, <1>5 DEF DeliveryInv

\* What a handler knows before it acts.
LEMMA BeforeActing ==
  ASSUME DeliveryInv, NEW h \in handlers
  PROVE  /\ delivery \in [channel: {"email", "push"}, status: {"queued", "sending"} \cup SettledMail,
                          attempts: Nat]
         /\ mailed \in Nat /\ trouble \in Nat /\ h.attempt \in Nat
         /\ ~outlived =>
              /\ delivery.status \in {"queued", "sending", "skipped"}
              /\ delivery.status = "sending" => IsMail
              /\ delivery.status # "skipped" => delivery.attempts <= h.attempt
              /\ h.at = "passed" => IsMail
              /\ h.at \in {"guarding", "passed"} /\ Open => delivery.attempts < h.attempt
              /\ h.at \in {"claimed", "accepted", "rejected"} =>
                   delivery.status \in IF IsMail THEN {"sending"} ELSE {"queued", "skipped"}
              /\ mailed <= trouble + 1 /\ (h.at # "accepted" => mailed <= trouble)
  <1>1. /\ delivery \in [channel: {"email", "push"}, status: {"queued", "sending"} \cup SettledMail,
                         attempts: Nat]
        /\ mailed \in Nat /\ trouble \in Nat /\ h.attempt \in Nat
    <2>1. h.attempt \in Nat
      BY HandlerTypes
    <2>2. QED
      BY <2>1, DeliveryAssumption DEF DeliveryInv, DeliveryTypeOK
  <1>2. ASSUME ~outlived
        PROVE  /\ delivery.status \in {"queued", "sending", "skipped"}
               /\ delivery.status = "sending" => IsMail
               /\ delivery.status # "skipped" => delivery.attempts <= h.attempt
               /\ h.at = "passed" => IsMail
               /\ h.at \in {"guarding", "passed"} /\ Open => delivery.attempts < h.attempt
               /\ h.at \in {"claimed", "accepted", "rejected"} =>
                    delivery.status \in IF IsMail THEN {"sending"} ELSE {"queued", "skipped"}
               /\ mailed <= trouble + 1 /\ (h.at # "accepted" => mailed <= trouble)
    <2>1. handlers = {h} /\ h.job = NewestJob /\ sendJobs[h.job].attempts = h.attempt
      BY <1>2, AloneAtWork
    <2>2. delivery.status \in {"queued", "sending", "skipped"}
      BY <1>1, <1>2 DEF DeliveryInv, RowFollows, SettledMail
    <2>3. mailed <= trouble + 1 /\ (h.at # "accepted" => mailed <= trouble)
      BY <1>1, <1>2, <2>1 DEF DeliveryInv, Accounted
    <2>4. delivery.status # "skipped" => delivery.attempts <= h.attempt
      BY <1>2, <2>1, <2>2 DEF DeliveryInv, RowFollows, Open
    <2>5. QED
      BY <1>2, <2>2, <2>3, <2>4 DEF DeliveryInv, RowFollows
  <1>3. QED
    BY <1>1, <1>2

LEMMA GuardKeeps ==
  ASSUME DeliveryInv, NEW h \in handlers, Guard(h)
  PROVE  DeliveryInv'
  <1>1. CASE unwanted
    <2>1. /\ handlers' = handlers \ {h} /\ EndsJob(h, "done")
          /\ delivery' = IF Open /\ (IsMail \/ delivery.status = "queued")
                         THEN [delivery EXCEPT !.status = "skipped"] ELSE delivery
          /\ UNCHANGED <<unwanted, mailed, trouble, outlived>>
      BY <1>1 DEF Guard, Succeeds
    <2>2. /\ delivery' \in [channel: {"email", "push"}, status: {"queued", "sending"} \cup SettledMail,
                            attempts: Nat]
          /\ delivery'.channel = delivery.channel
          /\ ~outlived => delivery'.status = "skipped" /\ mailed <= trouble
      BY <2>1, BeforeActing DEF Open, IsMail, SettledMail, Guard
    <2>3. JobWritten(h.job, "done")
          /\ (~outlived => sendJobs' = [sendJobs EXCEPT ![h.job].status = "done"])
      BY <2>1, EndWritesJob, AloneAtWork
    <2>4. QED
      BY <2>1, <2>2, <2>3, HandlerLeaves DEF Ended, DeliveryInv, DeliveryTypeOK
  <1>2. CASE ~unwanted
    <2>1. /\ MovesTo(h, IF IsMail THEN "passed" ELSE "claimed") /\ h.at = "guarding"
          /\ delivery' = delivery /\ sendJobs' = sendJobs
          /\ UNCHANGED <<unwanted, mailed, trouble, outlived>>
      BY <1>2 DEF Guard
    <2>2. CASE IsMail
      BY <2>1, <2>2, BeforeActing, HandlerGoesOn DEF Open
    <2>3. CASE ~IsMail
      BY <2>1, <2>3, BeforeActing, HandlerGoesOn DEF Open
    <2>4. QED
      BY <2>2, <2>3
  <1>3. QED
    BY <1>1, <1>2 DEF DeliveryInv, DeliveryTypeOK

LEMMA ClaimKeeps ==
  ASSUME DeliveryInv, NEW h \in handlers, Claim(h)
  PROVE  DeliveryInv'
  <1>1. CASE Takeable(h.attempt)
    <2>1. /\ delivery' = [delivery EXCEPT !.status = "sending", !.attempts = h.attempt]
          /\ MovesTo(h, "claimed") /\ sendJobs' = sendJobs /\ h.at = "passed"
          /\ UNCHANGED <<unwanted, mailed, trouble, outlived>>
      BY <1>1 DEF Claim
    <2>2. /\ delivery' \in [channel: {"email", "push"}, status: {"queued", "sending"} \cup SettledMail,
                            attempts: Nat]
          /\ delivery'.channel = delivery.channel /\ delivery'.status = "sending"
          /\ delivery'.attempts = h.attempt
      BY <2>1, BeforeActing
    <2>3. ~outlived => IsMail
      BY <2>1, BeforeActing
    <2>4. QED
      BY <2>1, <2>2, <2>3, BeforeActing, HandlerGoesOn
  <1>2. CASE ~Takeable(h.attempt)
    <2>1. /\ handlers' = handlers \ {h} /\ EndsJob(h, "done") /\ delivery' = delivery /\ h.at = "passed"
          /\ UNCHANGED <<unwanted, mailed, trouble, outlived>>
      BY <1>2 DEF Claim, Succeeds
    <2>2. ~outlived => delivery.status = "skipped" /\ mailed <= trouble
      BY <1>2, <2>1, BeforeActing DEF Takeable, Open, IsMail
    <2>3. JobWritten(h.job, "done")
          /\ (~outlived => sendJobs' = [sendJobs EXCEPT ![h.job].status = "done"])
      BY <2>1, EndWritesJob, AloneAtWork
    <2>4. QED
      BY <2>1, <2>2, <2>3, BeforeActing, HandlerLeaves DEF Ended
  <1>3. QED
    BY <1>1, <1>2

LEMMA HandOverKeeps ==
  ASSUME DeliveryInv, NEW h \in handlers, NEW accepts \in BOOLEAN, HandOver(h, accepts)
  PROVE  DeliveryInv'
  <1>1. /\ MovesTo(h, IF accepts THEN "accepted" ELSE "rejected")
        /\ h.at = "claimed" /\ mailed' = (IF accepts THEN mailed + 1 ELSE mailed)
        /\ delivery' = delivery /\ sendJobs' = sendJobs
        /\ UNCHANGED <<unwanted, trouble, outlived>>
    BY DEF HandOver
  <1>2. CASE accepts
    BY <1>1, <1>2, BeforeActing, HandlerGoesOn
  <1>3. CASE ~accepts
    BY <1>1, <1>3, BeforeActing, HandlerGoesOn
  <1>4. QED
    BY <1>2, <1>3

LEMMA AcceptedKeeps ==
  ASSUME DeliveryInv, NEW h \in handlers, Accepted(h)
  PROVE  DeliveryInv'
  <1>1. /\ handlers' = handlers \ {h} /\ EndsJob(h, "done") /\ h.at = "accepted"
        /\ delivery' = (IF InHand THEN [delivery EXCEPT !.status = "sent", !.attempts = h.attempt]
                                  ELSE delivery)
        /\ UNCHANGED <<unwanted, mailed, trouble, outlived>>
    BY DEF Accepted, Succeeds, Records
  <1>2. /\ delivery' \in [channel: {"email", "push"}, status: {"queued", "sending"} \cup SettledMail,
                          attempts: Nat]
        /\ delivery'.channel = delivery.channel
        /\ ~outlived => delivery'.status \in {"sent", "skipped"} /\ mailed <= trouble + 1
    BY <1>1, BeforeActing DEF InHand, SettledMail
  <1>3. JobWritten(h.job, "done")
        /\ (~outlived => sendJobs' = [sendJobs EXCEPT ![h.job].status = "done"])
    BY <1>1, EndWritesJob, AloneAtWork
  <1>4. QED
    BY <1>1, <1>2, <1>3, HandlerLeaves DEF Ended

LEMMA RejectedKeeps ==
  ASSUME DeliveryInv, NEW h \in handlers, Rejected(h)
  PROVE  DeliveryInv'
  <1> DEFINE after == AfterFailure(h.attempt)
  <1>1. /\ handlers' = handlers \ {h} /\ h.at = "rejected"
        /\ after = "failed" => EndsJob(h, "done")
        /\ after = "queued" => EndsJob(h, "waiting")
        /\ after \in {"failed", "queued"}
        /\ delivery' = (IF InHand THEN [delivery EXCEPT !.status = after, !.attempts = h.attempt]
                                  ELSE delivery)
        /\ UNCHANGED <<unwanted, mailed, trouble, outlived>>
    BY BeforeActing, DeliveryAssumption DEF Rejected, Succeeds, Throws, Records, AfterFailure
  <1> HIDE DEF after
  <1>2. /\ delivery' \in [channel: {"email", "push"}, status: {"queued", "sending"} \cup SettledMail,
                          attempts: Nat]
        /\ delivery'.channel = delivery.channel
        /\ ~outlived => delivery'.status \in {after, "skipped"} /\ mailed <= trouble
                        /\ (delivery'.status # "skipped" => delivery'.attempts <= h.attempt)
    <2>1. /\ delivery' \in [channel: {"email", "push"}, status: {"queued", "sending"} \cup SettledMail,
                            attempts: Nat]
          /\ delivery'.channel = delivery.channel
      BY <1>1, BeforeActing DEF SettledMail
    <2>2. ASSUME ~outlived
          PROVE  /\ delivery'.status \in {after, "skipped"}
                 /\ delivery'.status # "skipped" => delivery'.attempts <= h.attempt
      <3>1. delivery.status \in IF IsMail THEN {"sending"} ELSE {"queued", "skipped"}
        BY <1>1, <2>2, BeforeActing
      <3>2. CASE InHand
        BY <1>1, <3>2, BeforeActing
      <3>3. CASE ~InHand
        BY <1>1, <3>1, <3>3 DEF InHand
      <3>4. QED
        BY <3>2, <3>3
    <2>3. QED
      BY <1>1, <2>1, <2>2, BeforeActing
  <1>3. CASE after = "failed"
    <2>1. JobWritten(h.job, "done")
          /\ (~outlived => sendJobs' = [sendJobs EXCEPT ![h.job].status = "done"])
      BY <1>1, <1>3, EndWritesJob, AloneAtWork
    <2>2. QED
      BY <1>1, <1>2, <1>3, <2>1, HandlerLeaves DEF Ended
  <1>4. CASE after = "queued"
    <2>1. JobWritten(h.job, "waiting")
          /\ (~outlived => sendJobs' = [sendJobs EXCEPT ![h.job].status = "waiting"])
      BY <1>1, <1>4, EndWritesJob, AloneAtWork
    <2>2. QED
      BY <1>1, <1>2, <1>4, <2>1, HandlerLeaves
  <1>5. QED
    BY <1>1, <1>3, <1>4

LEMMA BreakKeeps ==
  ASSUME DeliveryInv, NEW h \in handlers, Break(h)
  PROVE  DeliveryInv'
  <1> DEFINE status == IF h.attempt < MaxAttempts THEN "waiting" ELSE "dead"
  <1>1. /\ handlers' = handlers \ {h} /\ EndsJob(h, status) /\ delivery' = delivery
        /\ trouble' = trouble + 1 /\ trouble < MaxTrouble
        /\ UNCHANGED <<unwanted, mailed, outlived>>
    BY DEF Break, Happens, Throws
  <1>2. status \in {"waiting", "dead"}
    OBVIOUS
  <1> HIDE DEF status
  <1>3. JobWritten(h.job, status)
        /\ (~outlived => sendJobs' = [sendJobs EXCEPT ![h.job].status = status])
    BY <1>1, <1>2, EndWritesJob, AloneAtWork
  <1>4. QED
    BY <1>1, <1>2, <1>3, BeforeActing, HandlerLeaves DEF IsMail

LEMMA CrashKeeps ==
  ASSUME DeliveryInv, NEW h \in handlers, Crash(h)
  PROVE  DeliveryInv'
  <1>1. /\ handlers' = handlers \ {h} /\ delivery' = delivery
        /\ trouble' = trouble + 1 /\ trouble < MaxTrouble
        /\ UNCHANGED <<unwanted, mailed, outlived>>
    BY DEF Crash, Happens
  <1>2. JobWritten(h.job, "expired")
        /\ (~outlived => sendJobs' = [sendJobs EXCEPT ![h.job].status = "expired"])
    BY AloneAtWork DEF Crash, LeaseLost, JobWritten
  <1>3. QED
    BY <1>1, <1>2, BeforeActing, HandlerLeaves DEF IsMail

LEMMA OutliveKeeps ==
  ASSUME DeliveryInv, NEW h \in handlers, Outlive(h)
  PROVE  DeliveryInv'
  <1>1. /\ JobWritten(h.job, "expired") /\ outlived' = TRUE
        /\ trouble' = trouble + 1 /\ trouble < MaxTrouble
        /\ UNCHANGED <<delivery, handlers, unwanted, mailed>>
    BY DEF Outlive, Happens, LeaseLost, JobWritten
  <1>2. /\ \E n \in 1..(MaxResends + 1) : sendJobs' \in [1..n -> JobRow]
        /\ DOMAIN sendJobs' = DOMAIN sendJobs /\ Resends' = Resends
        /\ Cardinality(FreeJobs') \in Nat
        /\ Cardinality(FreeJobs') <= Cardinality(FreeJobs) + 1
    BY <1>1, HandlerTypes, JobAfter DEF DeliveryInv
  <1>3. DeliveryTypeOK'
    <2>1. \E n \in 1..(MaxResends + 1) :
            sendJobs' \in [1..n -> [status: {"waiting", "running", "expired", "done", "dead"},
                                   attempts: Nat]]
      BY <1>2 DEF JobRow
    <2>2. trouble' \in 0..MaxTrouble
      BY <1>1, DeliveryAssumption DEF DeliveryInv, DeliveryTypeOK
    <2>3. QED
      BY <1>1, <2>1, <2>2 DEF DeliveryInv, DeliveryTypeOK
  <1>4. Budget'
    <2>1. Hands' = Hands /\ Cardinality(Hands) \in Nat
      BY <1>1, HandsCounted DEF Hands, DeliveryInv
    <2>2. Cardinality(FreeJobs) \in Nat /\ Resends \in Int
      BY DeliveryTypes DEF DeliveryInv
    <2>3. mailed \in Nat /\ trouble \in Nat /\ IsFiniteSet(handlers)
          /\ mailed + Cardinality(FreeJobs) + Cardinality(Hands) <= 1 + trouble + Resends
      BY DEF DeliveryInv, DeliveryTypeOK, Budget
    <2>4. mailed' + Cardinality(FreeJobs') + Cardinality(Hands') <= 1 + trouble' + Resends'
      <3>1. Cardinality(FreeJobs') \in Nat /\ Resends' = Resends /\ mailed' = mailed
            /\ Cardinality(FreeJobs') <= Cardinality(FreeJobs) + 1 /\ trouble' = trouble + 1
        BY <1>1, <1>2
      <3>2. QED
        BY <2>1, <2>2, <2>3, <3>1
    <2>5. QED
      BY <1>1, <2>3, <2>4 DEF Budget
  <1>5. QED
    BY <1>1, <1>2, <1>3, <1>4 DEF DeliveryInv

\* A worker claims the one job that is alive.
LEMMA BeginKeeps ==
  ASSUME DeliveryInv, NEW j \in DOMAIN sendJobs, Begin(j)
  PROVE  DeliveryInv'
  <1> DEFINE attempt == sendJobs[j].attempts + 1
             new == [job |-> j, attempt |-> attempt, at |-> "guarding"]
             status == IF Takeable(attempt) THEN "running" ELSE "done"
  <1>0. /\ sendJobs \in [1..NewestJob -> JobRow] /\ DOMAIN sendJobs = 1..NewestJob
        /\ NewestJob \in 1..(MaxResends + 1) /\ Resends = NewestJob - 1
        /\ IsFiniteSet(FreeJobs) /\ Cardinality(FreeJobs) \in Nat
    BY DeliveryTypes DEF DeliveryInv
  <1>1. /\ sendJobs[j].status \in {"waiting", "expired"}
        /\ sendJobs' = [sendJobs EXCEPT ![j] = [status |-> status, attempts |-> attempt]]
        /\ handlers' = IF Takeable(attempt) THEN handlers \cup {new} ELSE handlers
        /\ UNCHANGED <<delivery, unwanted, mailed, trouble, outlived>>
    BY DEF Begin
  <1>2. /\ attempt \in Nat /\ status \in {"running", "done"}
        /\ new \in Handler /\ new.at = "guarding" /\ new.job = j /\ new.attempt = attempt
    BY <1>0, DeliveryAssumption DEF JobRow, Handler
  <1>3. sendJobs' \in [1..NewestJob -> JobRow] /\ DOMAIN sendJobs' = DOMAIN sendJobs
        /\ sendJobs'[j].status = status /\ sendJobs'[j].attempts = attempt
        /\ \A i \in DOMAIN sendJobs \ {j} : sendJobs'[i] = sendJobs[i]
    BY <1>0, <1>1, <1>2 DEF JobRow
  <1>4. NewestJob' = NewestJob /\ Resends' = Resends
    BY <1>3 DEF NewestJob, Resends
  <1>a. Takeable(attempt) => status = "running"
    OBVIOUS
  <1>b. ~Takeable(attempt) => status = "done"
    OBVIOUS
  <1> HIDE DEF new, attempt, status
  <1>5. DeliveryTypeOK'
    <2>1. \E n \in 1..(MaxResends + 1) :
            sendJobs' \in [1..n -> [status: {"waiting", "running", "expired", "done", "dead"},
                                   attempts: Nat]]
      BY <1>0, <1>3 DEF JobRow
    <2>2. handlers' \subseteq Handler
      BY <1>1, <1>2 DEF DeliveryInv, DeliveryTypeOK
    <2>3. QED
      BY <1>1, <2>1, <2>2 DEF DeliveryInv, DeliveryTypeOK
  <1>6. (\A h \in handlers : h.job \in DOMAIN sendJobs)'
    BY <1>1, <1>2, <1>3 DEF DeliveryInv
  <1>7. Budget'
    <2>1. IsFiniteSet(Hands) /\ Cardinality(Hands) \in Nat
      BY HandsCounted DEF DeliveryInv
    <2>2. j \in FreeJobs /\ FreeJobs' \in SUBSET (FreeJobs \ {j})
      BY <1>1, <1>2, <1>3 DEF FreeJobs
    <2>3. Cardinality(FreeJobs') \in Nat /\ Cardinality(FreeJobs') + 1 <= Cardinality(FreeJobs)
      BY <1>0, <2>2, TokenGoes
    <2>4. IsFiniteSet(handlers) /\ mailed \in Nat /\ trouble \in Nat
          /\ mailed + Cardinality(FreeJobs) + Cardinality(Hands) <= 1 + trouble + Resends
      BY DEF DeliveryInv, DeliveryTypeOK, Budget
    <2>5. IsFiniteSet(handlers')
      BY <1>1, <2>4, FS_AddElement
    <2>6. Hands' \in SUBSET (Hands \cup {new})
      BY <1>1 DEF Hands
    <2>7. Cardinality(Hands') \in Nat /\ Cardinality(Hands') <= Cardinality(Hands) + 1
      BY <2>1, <2>6, TokenComes
    <2>8. mailed + Cardinality(FreeJobs') + Cardinality(Hands') <= 1 + trouble + Resends
      BY <1>0, <2>1, <2>3, <2>4, <2>7
    <2>9. QED
      BY <1>1, <1>4, <2>5, <2>8 DEF Budget
  <1>8. ASSUME ~outlived'
        PROVE  OneAtWork' /\ RowFollows' /\ Accounted'
    <2>0. ~outlived
      BY <1>1, <1>8
    <2>1. j = NewestJob /\ handlers = {}
      <3>1. j = NewestJob
        BY <1>1, <2>0 DEF DeliveryInv, OneAtWork, Ended
      <3>2. ASSUME NEW h \in handlers PROVE FALSE
        BY <1>1, <2>0, <3>1, AloneAtWork
      <3>3. QED
        BY <3>1, <3>2
    <2>2. delivery.status # "failed"
      BY <1>1, <2>0, <2>1 DEF DeliveryInv, OneAtWork, Ended
    <2>3. Takeable(attempt) <=> Open
      <3>1. Open => delivery.attempts <= sendJobs[j].attempts /\ (delivery.status = "sending" => IsMail)
        BY <2>0, <2>1 DEF DeliveryInv, RowFollows
      <3>2. delivery.attempts \in Nat /\ sendJobs[j].attempts \in Nat
        BY <1>0 DEF DeliveryInv, DeliveryTypeOK, JobRow
      <3>3. QED
        BY <3>1, <3>2 DEF Takeable, Open, attempt
    <2>4. OneAtWork'
      <3>1. \A i \in DOMAIN sendJobs : i # j => sendJobs[i].status \in Ended
        BY <2>0, <2>1 DEF DeliveryInv, OneAtWork
      <3>2. \A h \in handlers' : h = new /\ status = "running"
        BY <1>1, <1>a, <2>1
      <3>3. QED
        BY <1>1, <1>2, <1>3, <1>4, <2>1, <2>2, <3>1, <3>2 DEF OneAtWork
    <2>5. RowFollows'
      <3>1. Open => status = "running" /\ delivery.attempts <= sendJobs[j].attempts
        BY <1>a, <2>0, <2>1, <2>3 DEF DeliveryInv, RowFollows
      <3>2. delivery.attempts \in Nat /\ sendJobs[j].attempts \in Nat
        BY <1>0 DEF DeliveryInv, DeliveryTypeOK, JobRow
      <3>3. Open => delivery.attempts < attempt
        BY <3>1, <3>2 DEF attempt
      <3>4. \A h \in handlers' : h = new /\ Open
        BY <1>1, <2>1, <2>3
      <3>5. attempt \in Nat
        BY <1>2
      <3>6. (delivery.status = "sending" => IsMail)'
        BY <1>1, <2>0 DEF DeliveryInv, RowFollows, IsMail
      <3>7. (Open => /\ sendJobs[NewestJob].status # "done"
                     /\ delivery.attempts <= sendJobs[NewestJob].attempts)'
        BY <1>1, <1>3, <1>4, <2>1, <3>1, <3>2, <3>3, <3>5 DEF Open
      <3>8. (\A g \in handlers :
               /\ delivery.status \notin {"sent", "failed"}
               /\ g.at \in {"guarding", "passed"} /\ Open => delivery.attempts < g.attempt
               /\ g.at = "passed" => IsMail
               /\ g.at \in {"claimed", "accepted", "rejected"} =>
                    delivery.status \in IF IsMail THEN {"sending"} ELSE {"queued", "skipped"})'
        BY <1>1, <1>2, <3>3, <3>4 DEF Open
      <3>9. QED
        BY <3>6, <3>7, <3>8 DEF RowFollows
    <2>6. Accounted'
      <3>1. mailed <= trouble \/ (mailed <= trouble + 1 /\ delivery.status \in {"sent", "skipped"})
        BY <2>0, <2>1 DEF DeliveryInv, Accounted
      <3>2. delivery.status \in {"sent", "skipped"} => handlers' = {}
        BY <1>1, <2>1, <2>3 DEF Open
      <3>3. QED
        BY <1>1, <3>1, <3>2 DEF Accounted
    <2>7. QED
      BY <2>4, <2>5, <2>6
  <1>9. QED
    BY <1>5, <1>6, <1>7, <1>8 DEF DeliveryInv

\* The reaper and whoever takes the message back write the row only.
LEMMA RowWritten ==
  ASSUME DeliveryInv, UNCHANGED <<sendJobs, handlers, mailed, trouble, outlived>>,
         unwanted' \in BOOLEAN,
         NEW status \in {"failed", "skipped"},
         delivery' \in {delivery, [delivery EXCEPT !.status = status]},
         delivery' # delivery /\ ~outlived =>
           IF status = "failed" THEN handlers = {} /\ sendJobs[NewestJob].status \in Ended
                                ELSE delivery.status \in {"queued", "failed"}
                                     /\ (~IsMail \/ \A h \in handlers : h.at \in {"guarding", "passed"}),
         delivery' # delivery /\ status = "failed" => Open
  PROVE  DeliveryInv'
  <1>1. DeliveryTypeOK'
    BY DEF DeliveryInv, DeliveryTypeOK, SettledMail
  <1>2. FreeJobs' = FreeJobs /\ Hands' = Hands /\ NewestJob' = NewestJob /\ Resends' = Resends
    BY DEF FreeJobs, Hands, NewestJob, Resends
  <1>3. Budget'
    BY <1>2 DEF DeliveryInv, Budget
  <1>4. ASSUME ~outlived, delivery' = delivery
        PROVE  OneAtWork' /\ RowFollows' /\ Accounted'
    BY <1>2, <1>4 DEF DeliveryInv, OneAtWork, RowFollows, Accounted, Open, IsMail
  <1>5. ASSUME ~outlived, delivery' # delivery, delivery' = [delivery EXCEPT !.status = status]
        PROVE  OneAtWork' /\ RowFollows' /\ Accounted'
    <2>1. delivery'.status = status /\ delivery'.channel = delivery.channel
      BY <1>5 DEF DeliveryInv, DeliveryTypeOK
    <2>2. OneAtWork'
      BY <1>2, <1>5, <2>1 DEF DeliveryInv, OneAtWork
    <2>3. RowFollows'
      BY <1>2, <1>5, <2>1 DEF DeliveryInv, RowFollows, Open, IsMail
    <2>4. Accounted'
      BY <1>5, <2>1 DEF DeliveryInv, Accounted, Open
    <2>5. QED
      BY <2>2, <2>3, <2>4
  <1>6. (\A h \in handlers : h.job \in DOMAIN sendJobs)'
    BY DEF DeliveryInv
  <1>7. QED
    BY <1>1, <1>3, <1>4, <1>5, <1>6 DEF DeliveryInv

LEMMA ReapKeeps ==
  ASSUME DeliveryInv, Reap
  PROVE  DeliveryInv'
  <1>1. ~outlived => handlers = {} /\ sendJobs[NewestJob].status \in Ended
    <2>1. NewestJob \in DOMAIN sendJobs
      BY DeliveryTypes DEF DeliveryInv
    <2>2. ASSUME ~outlived, NEW h \in handlers PROVE FALSE
      BY <2>2, AloneAtWork, HandlerTypes DEF Reap, Reapable
    <2>3. QED
      BY <2>1, <2>2 DEF Reap, Reapable, Ended
  <1>2. Open /\ delivery' = [delivery EXCEPT !.status = "failed"]
        /\ UNCHANGED <<sendJobs, handlers, unwanted, mailed, trouble, outlived>>
    BY DEF Reap, Reapable
  <1>3. unwanted' \in BOOLEAN
    BY <1>2 DEF DeliveryInv, DeliveryTypeOK
  <1>4. QED
    BY <1>1, <1>2, <1>3, RowWritten

LEMMA UnwantKeeps ==
  ASSUME DeliveryInv, Unwant
  PROVE  DeliveryInv'
  <1>1. /\ delivery' \in {delivery, [delivery EXCEPT !.status = "skipped"]}
        /\ delivery' # delivery => delivery.status = "queued"
        /\ UNCHANGED <<sendJobs, handlers, mailed, trouble, outlived>> /\ unwanted' \in BOOLEAN
    BY DEF Unwant
  <1>2. ASSUME ~outlived, delivery.status = "queued"
        PROVE  ~IsMail \/ \A h \in handlers : h.at \in {"guarding", "passed"}
    BY <1>2, BeforeActing, HandlerTypes
  <1>3. QED
    BY <1>1, <1>2, RowWritten

\* The queue buries a job; nobody works on it unless a lease has been outlived.
LEMMA BuryKeeps ==
  ASSUME DeliveryInv, NEW j \in DOMAIN sendJobs, Bury(j)
  PROVE  DeliveryInv'
  <1>1. /\ JobWritten(j, "dead") /\ sendJobs[j].status = "expired"
        /\ UNCHANGED <<delivery, handlers, unwanted, mailed, trouble, outlived>>
    BY DEF Bury, JobWritten
  <1>2. /\ \E n \in 1..(MaxResends + 1) : sendJobs' \in [1..n -> JobRow]
        /\ DOMAIN sendJobs' = DOMAIN sendJobs /\ NewestJob' = NewestJob /\ Resends' = Resends
        /\ \A i \in DOMAIN sendJobs : sendJobs'[i].attempts = sendJobs[i].attempts
        /\ \A i \in DOMAIN sendJobs \ {j} : sendJobs'[i] = sendJobs[i]
        /\ Cardinality(FreeJobs') \in Nat
        /\ Cardinality(FreeJobs') <= Cardinality(FreeJobs)
    BY <1>1, JobAfter DEF DeliveryInv, Ended
  <1>3. sendJobs'[j].status = "dead"
    BY DeliveryTypes DEF Bury, DeliveryInv, JobRow
  <1>4. DeliveryTypeOK'
    <2>1. \E n \in 1..(MaxResends + 1) :
            sendJobs' \in [1..n -> [status: {"waiting", "running", "expired", "done", "dead"},
                                   attempts: Nat]]
      BY <1>2 DEF JobRow
    <2>2. QED
      BY <1>1, <2>1 DEF DeliveryInv, DeliveryTypeOK
  <1>5. Budget'
    <2>1. Hands' = Hands /\ Cardinality(Hands) \in Nat
      BY <1>1, HandsCounted DEF Hands, DeliveryInv
    <2>2. Cardinality(FreeJobs) \in Nat /\ Resends \in Int
      BY DeliveryTypes DEF DeliveryInv
    <2>3. mailed \in Nat /\ trouble \in Nat /\ IsFiniteSet(handlers)
          /\ mailed + Cardinality(FreeJobs) + Cardinality(Hands) <= 1 + trouble + Resends
      BY DEF DeliveryInv, DeliveryTypeOK, Budget
    <2>4. Cardinality(FreeJobs') \in Nat /\ Cardinality(FreeJobs') <= Cardinality(FreeJobs)
      BY <1>2
    <2>5. mailed + Cardinality(FreeJobs') + Cardinality(Hands) <= 1 + trouble + Resends
      BY <2>1, <2>2, <2>3, <2>4
    <2>6. QED
      BY <1>1, <1>2, <2>1, <2>3, <2>5 DEF Budget
  <1>6. ASSUME ~outlived'
        PROVE  OneAtWork' /\ RowFollows' /\ Accounted'
    <2>0. ~outlived
      BY <1>1, <1>6
    <2>1. handlers = {} /\ handlers' = {}
      BY <1>1, <2>0, AloneAtWork, DeliveryTypes DEF DeliveryInv, OneAtWork, Ended
    <2>2. NewestJob \in DOMAIN sendJobs
      BY DeliveryTypes DEF DeliveryInv
    <2>3. OneAtWork'
      BY <1>1, <1>2, <1>3, <2>0, <2>1, <2>2 DEF DeliveryInv, OneAtWork, Ended
    <2>4. RowFollows'
      BY <1>1, <1>2, <1>3, <2>0, <2>1, <2>2 DEF DeliveryInv, RowFollows, Open, IsMail
    <2>5. Accounted'
      BY <1>1, <2>0 DEF DeliveryInv, Accounted
    <2>6. QED
      BY <2>3, <2>4, <2>5
  <1>7. (\A h \in handlers : h.job \in DOMAIN sendJobs)'
    BY <1>1, <1>2 DEF DeliveryInv
  <1>8. QED
    BY <1>4, <1>5, <1>6, <1>7 DEF DeliveryInv

\* What failed is sent again by a job of its own.
LEMMA ResendKeeps ==
  ASSUME DeliveryInv, Resend
  PROVE  DeliveryInv'
  <1>1. CASE unwanted
    <2>1. /\ delivery.status = "failed" /\ delivery' = [delivery EXCEPT !.status = "skipped"]
          /\ UNCHANGED <<sendJobs, handlers, unwanted, mailed, trouble, outlived>>
      BY <1>1 DEF Resend, Resendable
    <2>2. ~outlived => handlers = {}
      BY <2>1, BeforeActing
    <2>3. unwanted' \in BOOLEAN
      BY <2>1 DEF DeliveryInv, DeliveryTypeOK
    <2>4. QED
      BY <2>1, <2>2, <2>3, RowWritten
  <1>2. CASE ~unwanted
    <2>0. /\ sendJobs \in [1..NewestJob -> JobRow] /\ DOMAIN sendJobs = 1..NewestJob
          /\ NewestJob \in 1..(MaxResends + 1) /\ Resends = NewestJob - 1
          /\ IsFiniteSet(FreeJobs) /\ Cardinality(FreeJobs) \in Nat
      BY DeliveryTypes DEF DeliveryInv
    <2> DEFINE n == NewestJob + 1
    <2>1. /\ IsMail /\ delivery.status = "failed" /\ NewestJob <= MaxResends
          /\ delivery' = [delivery EXCEPT !.status = "queued", !.attempts = 0]
          /\ sendJobs' = [j \in 1..n |-> IF j \in DOMAIN sendJobs THEN sendJobs[j] ELSE NewJob]
          /\ UNCHANGED <<handlers, unwanted, mailed, trouble, outlived>>
      BY <1>2 DEF Resend, Resendable, NewestJob
    <2>2. n \in 1..(MaxResends + 1) /\ n \notin DOMAIN sendJobs
          /\ 1..n = (1..NewestJob) \cup {n}
      BY <2>0, <2>1, DeliveryAssumption
    <2>3. /\ sendJobs' \in [1..n -> JobRow] /\ DOMAIN sendJobs' = 1..n
          /\ \A j \in DOMAIN sendJobs : sendJobs'[j] = sendJobs[j]
          /\ sendJobs'[n].status = "waiting" /\ sendJobs'[n].attempts = 0
      BY <2>0, <2>1, <2>2 DEF JobRow, NewJob
    <2>4. NewestJob' = n /\ Resends' = Resends + 1
      <3>1. Cardinality(1..n) = n
        BY <2>2, JobsNumbered, FS_Interval, DeliveryAssumption
      <3>2. QED
        BY <2>0, <2>3, <3>1 DEF NewestJob, Resends
    <2> HIDE DEF n
    <2>5. DeliveryTypeOK'
      <3>1. \E m \in 1..(MaxResends + 1) :
              sendJobs' \in [1..m -> [status: {"waiting", "running", "expired", "done", "dead"},
                                     attempts: Nat]]
        BY <2>2, <2>3 DEF JobRow
      <3>2. QED
        BY <2>1, <3>1 DEF DeliveryInv, DeliveryTypeOK
    <2>6. Budget'
      <3>1. Hands' = Hands /\ Cardinality(Hands) \in Nat
        BY <2>1, HandsCounted DEF Hands, DeliveryInv
      <3>2. FreeJobs' \in SUBSET (FreeJobs \cup {n})
        BY <2>0, <2>2, <2>3 DEF FreeJobs
      <3>3. Cardinality(FreeJobs') \in Nat /\ Cardinality(FreeJobs') <= Cardinality(FreeJobs) + 1
        BY <2>0, <3>2, TokenComes
      <3>4. mailed \in Nat /\ trouble \in Nat /\ IsFiniteSet(handlers) /\ Resends \in Int
            /\ mailed + Cardinality(FreeJobs) + Cardinality(Hands) <= 1 + trouble + Resends
        BY <2>0 DEF DeliveryInv, DeliveryTypeOK, Budget
      <3>5. mailed + Cardinality(FreeJobs') + Cardinality(Hands) <= 1 + trouble + (Resends + 1)
        BY <2>0, <3>1, <3>3, <3>4
      <3>6. QED
        BY <2>1, <2>4, <3>1, <3>4, <3>5 DEF Budget
    <2>7. ASSUME ~outlived'
          PROVE  OneAtWork' /\ RowFollows' /\ Accounted'
      <3>0. ~outlived
        BY <2>1, <2>7
      <3>1. handlers = {} /\ handlers' = {}
        BY <2>1, <3>0, BeforeActing
      <3>2. \A j \in DOMAIN sendJobs : sendJobs[j].status \in Ended
        BY <2>1, <3>0 DEF DeliveryInv, OneAtWork
      <3>3. delivery'.status = "queued" /\ delivery'.attempts = 0
        BY <2>1 DEF DeliveryInv, DeliveryTypeOK
      <3>4. OneAtWork'
        BY <2>0, <2>2, <2>3, <2>4, <3>1, <3>2, <3>3 DEF OneAtWork
      <3>5. RowFollows'
        BY <2>3, <2>4, <3>1, <3>3 DEF RowFollows
      <3>6. Accounted'
        BY <2>1, <3>0, <3>1 DEF DeliveryInv, Accounted
      <3>7. QED
        BY <3>4, <3>5, <3>6
    <2>8. (\A h \in handlers : h.job \in DOMAIN sendJobs)'
      BY <2>0, <2>1, <2>2, <2>3 DEF DeliveryInv
    <2>9. QED
      BY <2>5, <2>6, <2>7, <2>8 DEF DeliveryInv
  <1>3. QED
    BY <1>1, <1>2

LEMMA DeliveryStarts ==
  ASSUME DeliveryInit
  PROVE  DeliveryInv
  <1>1. DOMAIN sendJobs = 1..1 /\ sendJobs \in [1..1 -> JobRow]
        /\ sendJobs[1].status = "waiting" /\ sendJobs[1].attempts = 0
    BY DEF DeliveryInit, NewJob, JobRow
  <1>2. NewestJob = 1 /\ Resends = 0
    <2>1. Cardinality(DOMAIN sendJobs) = 1
      BY <1>1, JobsNumbered
    <2>2. QED
      BY <2>1 DEF NewestJob, Resends
  <1>3. FreeJobs = {1} /\ Hands = {}
    BY <1>1 DEF FreeJobs, Hands, DeliveryInit
  <1>4. Cardinality(FreeJobs) = 1 /\ Cardinality(Hands) = 0 /\ IsFiniteSet(handlers)
    BY <1>3, FS_EmptySet, FS_Singleton DEF DeliveryInit
  <1>5. DeliveryTypeOK
    <2>1. \E n \in 1..(MaxResends + 1) :
            sendJobs \in [1..n -> [status: {"waiting", "running", "expired", "done", "dead"},
                                  attempts: Nat]]
      BY <1>1, DeliveryAssumption DEF JobRow
    <2>2. QED
      <3>1. 0 \in 0..MaxTrouble /\ 0 \in Nat
        BY DeliveryAssumption
      <3>2. delivery \in [channel: {"email", "push"}, status: {"queued", "sending"} \cup SettledMail,
                          attempts: Nat]
        BY <3>1 DEF DeliveryInit
      <3>3. QED
        BY <2>1, <3>1, <3>2 DEF DeliveryInit, DeliveryTypeOK
  <1>6. QED
    BY <1>1, <1>2, <1>4, <1>5 DEF DeliveryInit, DeliveryInv, Budget, OneAtWork, RowFollows, Accounted

LEMMA DeliveryStepKeeps ==
  ASSUME DeliveryInv, [DeliveryNext]_deliveryVars
  PROVE  DeliveryInv'
  <1>1. CASE UNCHANGED deliveryVars
    BY <1>1 DEF deliveryVars, DeliveryInv, DeliveryTypeOK, Budget, Hands, FreeJobs, Resends,
                OneAtWork, RowFollows, Accounted, NewestJob, Open, IsMail
  <1>2. ASSUME NEW h \in handlers, HandlerStep(h) PROVE DeliveryInv'
    BY <1>2, GuardKeeps, ClaimKeeps, HandOverKeeps, AcceptedKeeps, RejectedKeeps DEF HandlerStep
  <1>3. CASE Work
    BY <1>2, <1>3, BeginKeeps, BuryKeeps DEF Work
  <1>4. QED
    BY <1>1, <1>3, ReapKeeps, ResendKeeps, UnwantKeeps, BreakKeeps, CrashKeeps, OutliveKeeps
       DEF DeliveryNext

\* DeliveryPromise, for any numbers of attempts, resends and faults: mail is handed
\* over again only for trouble or on request, no open delivery is without a job,
\* and what is recorded as sent stays recorded (lib/notify/email-job.ts, push.ts).
THEOREM DeliveryIsSound == DeliverySpec => DeliveryPromise
  <1>1. DeliveryInit => DeliveryInv
    BY DeliveryStarts
  <1>2. DeliveryInv /\ [DeliveryNext]_deliveryVars => DeliveryInv'
    BY DeliveryStepKeeps
  <1>3. DeliveryInv => DeliveryTypeOK /\ HandedOverOnce /\ NotStranded
    <2> SUFFICES ASSUME DeliveryInv PROVE HandedOverOnce /\ NotStranded
      BY DEF DeliveryInv
    <2>1. HandedOverOnce
      <3>1. Cardinality(Hands) \in Nat /\ Cardinality(FreeJobs) \in Nat /\ Resends \in Nat
        BY HandsCounted, DeliveryTypes DEF DeliveryInv
      <3>2. mailed \in Nat /\ trouble \in Nat
            /\ mailed + Cardinality(FreeJobs) + Cardinality(Hands) <= 1 + trouble + Resends
        BY DEF DeliveryInv, DeliveryTypeOK, Budget
      <3>3. mailed <= 1 + trouble + Resends
        BY <3>1, <3>2
      <3>4. ~outlived => mailed <= 1 + trouble
        BY <3>2 DEF DeliveryInv, Accounted
      <3>5. QED
        BY <3>2, <3>3, <3>4 DEF HandedOverOnce
    <2>2. NotStranded
      BY DeliveryTypes DEF DeliveryInv, RowFollows, NotStranded
    <2>3. QED
      BY <2>1, <2>2
  <1>4. [DeliveryNext]_deliveryVars => [delivery.status = "sent" => delivery' = delivery]_deliveryVars
    <2> SUFFICES ASSUME DeliveryNext, delivery.status = "sent" PROVE delivery' = delivery
      OBVIOUS
    <2>1. \A status, attempt : Records(status, attempt) => delivery' = delivery
      BY DEF Records, InHand
    <2>2. ASSUME NEW h \in handlers, HandlerStep(h) PROVE delivery' = delivery
      BY <2>1, <2>2 DEF HandlerStep, Guard, Claim, HandOver, Accepted, Rejected, Open, Takeable
    <2>3. QED
      BY <2>2 DEF DeliveryNext, Work, Begin, Bury, Reap, Reapable, Resend, Resendable, Unwant,
                  Open, Break, Crash, Outlive
  <1>5. DeliverySpec => [](DeliveryTypeOK /\ HandedOverOnce /\ NotStranded)
    BY <1>1, <1>2, <1>3, PTL DEF DeliverySpec
  <1>6. DeliverySpec => ProofStands
    BY <1>4, PTL DEF DeliverySpec, ProofStands
  <1>7. QED
    BY <1>5, <1>6, PTL DEF DeliveryPromise

-----------------------------------------------------------------------------
(***************************************************************************)
(* The hours of one person.  TimeInv: an entry that runs is taken to run for   *)
(* ever, and still shares at most the slack with every other; there is one of  *)
(* them at most.  What is about to be corrected is open and stopped, and no     *)
(* time ahead of the clock by more than the slack is on its way.               *)
(***************************************************************************)
StopCall == [op: {"stop"}]
AdoptCall == [op: {"adopt"}, from: EntryTimes, to: EntryTimes]
CorrectCall == [op: {"correct"}, entry: TimeEntries, from: EntryTimes, to: EntryTimes]

Stopped == Entered \ Clocked
Later(a, b) == IF a > b THEN a ELSE b
Earlier(a, b) == IF a < b THEN a ELSE b

\* What two entries share, however long the first one runs on.
ApartEver(e, f) ==
  IF e.to = Unfinished THEN f.to - Later(e.from, f.from) <= Slack
                       ELSE Earlier(e.to, f.to) - Later(e.from, f.from) <= Slack

OneClock == \A e, f \in Clocked : e = f

EntriesApart == \A e \in CountedEntries, f \in CountedEntries \cap Stopped :
                  e # f => ApartEver(entries[e], entries[f])

EntriesFit == \A e \in Entered :
  IF e \in Clocked THEN entries[e].status = "offen" /\ entries[e].from <= clock
                   ELSE entries[e].to <= clock + Slack

CallsFit == \A c \in TimeCalls :
  /\ timeCalls[c].op \in {"adopt", "correct"} =>
       timeCalls[c].from < timeCalls[c].to /\ timeCalls[c].to <= clock + Slack
  /\ timeCalls[c].op = "correct" =>
       /\ timeCalls[c].entry \in Stopped /\ entries[timeCalls[c].entry].status = "offen"
       /\ \A d \in TimeCalls : timeCalls[d].op = "correct" /\ timeCalls[d].entry = timeCalls[c].entry
                               => d = c

TimeInv == TimeTypeOK /\ OneClock /\ EntriesApart /\ EntriesFit /\ CallsFit

LEMMA TimesAreNumbers ==
  /\ EntryTimes \subseteq Nat /\ Unfinished \notin EntryTimes /\ Slack = 1 /\ Unfinished = 0
  /\ LastTime \in Nat
  BY TimeTrackingAssumption DEF EntryTimes, Slack, Unfinished

LEMMA EntryTyped ==
  ASSUME TimeTypeOK, NEW e \in Entered
  PROVE  /\ e \in TimeEntries /\ entries[e] \in TimeEntry
         /\ entries[e].from \in EntryTimes /\ entries[e].to \in EntryTimes \cup {Unfinished}
         /\ entries[e].status \in {"offen", "bestaetigt", "abgelehnt"} /\ entries[e].event \in BOOLEAN
         /\ e \in Clocked <=> entries[e].to = Unfinished
  <1>1. e \in TimeEntries /\ entries[e] \in TimeEntry
    BY DEF TimeTypeOK, Entered
  <1>2. QED
    BY <1>1 DEF TimeEntry, Clocked

LEMMA TimeCallTyped ==
  ASSUME TimeTypeOK, NEW c \in TimeCalls
  PROVE  /\ timeCalls[c] \in {NoTimeCall} \cup StopCall \cup AdoptCall \cup CorrectCall
         /\ timeCalls[c].op = "adopt" => timeCalls[c] \in AdoptCall
         /\ timeCalls[c].op = "correct" => timeCalls[c] \in CorrectCall
         /\ timeCalls[c].op \in {"none", "stop", "adopt", "correct"}
  <1>1. timeCalls[c] \in {NoTimeCall} \cup StopCall \cup AdoptCall \cup CorrectCall
    BY DEF TimeTypeOK, StopCall, AdoptCall, CorrectCall
  <1>2. QED
    BY <1>1 DEF NoTimeCall, StopCall, AdoptCall, CorrectCall

\* The calls are the same and the time does not go back.
LEMMA WrittenEntries ==
  ASSUME TimeInv, NEW e \in TimeEntries, NEW new \in TimeEntry \cup {NoTimeEntry}, PutEntry(e, new)
  PROVE  /\ entries' \in [TimeEntries -> TimeEntry \cup {NoTimeEntry}]
         /\ entries'[e] = new
         /\ \A f \in TimeEntries \ {e} : /\ entries'[f] = entries[f]
                                         /\ f \in Entered' <=> f \in Entered
                                         /\ f \in Clocked' <=> f \in Clocked
                                         /\ f \in Stopped' <=> f \in Stopped
                                         /\ f \in CountedEntries' <=> f \in CountedEntries
         /\ e \in Entered' <=> new # NoTimeEntry
         /\ e \in Clocked' <=> new # NoTimeEntry /\ new.to = Unfinished
         /\ e \in Stopped' <=> new # NoTimeEntry /\ new.to # Unfinished
         /\ e \in CountedEntries' <=> new # NoTimeEntry /\ new.status # "abgelehnt"
  <1>1. /\ entries' \in [TimeEntries -> TimeEntry \cup {NoTimeEntry}]
        /\ entries'[e] = new /\ \A f \in TimeEntries \ {e} : entries'[f] = entries[f]
    BY DEF TimeInv, TimeTypeOK, PutEntry
  <1>2. QED
    BY <1>1 DEF Entered, Clocked, Stopped, CountedEntries

\* Entries, and what of them the times of the calls rely on.
EntriesGood == OneClock /\ EntriesApart /\ EntriesFit

\* An entry is written whose place among the others was checked.
LEMMA EntryWritten ==
  ASSUME TimeInv, clock' = clock,
         NEW e \in TimeEntries, NEW new \in TimeEntry, PutEntry(e, new),
         new.to = Unfinished => /\ new.status = "offen" /\ new.from <= clock
                                /\ \A f \in Clocked : f = e,
         new.to # Unfinished => new.to <= clock + Slack,
         new.status # "abgelehnt" =>
           \A f \in CountedEntries \ {e} :
             /\ f \in Stopped => ApartEver(new, entries[f])
             /\ new.to # Unfinished => ApartEver(entries[f], new)
  PROVE  EntriesGood'
  <1>0. new # NoTimeEntry
    BY DEF TimeEntry, NoTimeEntry
  <1>1. /\ entries'[e] = new
        /\ \A f \in TimeEntries \ {e} : /\ entries'[f] = entries[f]
                                        /\ f \in Entered' <=> f \in Entered
                                        /\ f \in Clocked' <=> f \in Clocked
                                        /\ f \in Stopped' <=> f \in Stopped
                                        /\ f \in CountedEntries' <=> f \in CountedEntries
        /\ e \in Clocked' <=> new.to = Unfinished
        /\ e \in Stopped' <=> new.to # Unfinished
        /\ e \in CountedEntries' <=> new.status # "abgelehnt"
    BY <1>0, WrittenEntries
  <1>2. CountedEntries' \subseteq TimeEntries /\ Clocked' \subseteq TimeEntries /\ Entered' \subseteq TimeEntries
    BY DEF CountedEntries, Clocked, Entered
  <1>3. OneClock'
    BY <1>1, <1>2 DEF TimeInv, OneClock
  <1>4. EntriesFit'
    BY <1>1, <1>2 DEF TimeInv, EntriesFit
  <1>5. EntriesApart'
    <2> SUFFICES ASSUME NEW x \in CountedEntries', NEW y \in CountedEntries' \cap Stopped', x # y
                 PROVE  ApartEver(entries'[x], entries'[y])
      BY DEF EntriesApart
    <2>1. x \in TimeEntries /\ y \in TimeEntries
      BY <1>2
    <2>2. CASE x = e
      BY <1>1, <2>1, <2>2
    <2>3. CASE y = e
      BY <1>1, <2>1, <2>3
    <2>4. CASE x # e /\ y # e
      BY <1>1, <2>1, <2>4 DEF TimeInv, EntriesApart
    <2>5. QED
      BY <2>2, <2>3, <2>4
  <1>6. QED
    BY <1>3, <1>4, <1>5 DEF EntriesGood

\* The check of the overlap is enough for the future too.
LEMMA NoOverlapIsApart ==
  ASSUME TimeInv, NEW from \in EntryTimes, NEW to \in EntryTimes, NEW e \in TimeEntries,
         from < to, to <= clock + Slack, NoOverlap(from, to, e),
         NEW new \in TimeEntry, new.from = from, new.to = to,
         NEW f \in CountedEntries \ {e}
  PROVE  /\ f \in Stopped => ApartEver(new, entries[f])
         /\ ApartEver(entries[f], new)
  <1>1. f \in Entered /\ ~Clashes(f, from, to)
    BY DEF CountedEntries, NoOverlap
  <1>2. /\ entries[f].from \in EntryTimes /\ entries[f].to \in EntryTimes \cup {Unfinished}
        /\ f \in Clocked <=> entries[f].to = Unfinished
    BY <1>1, EntryTyped DEF TimeInv
  <1>3. clock \in Nat /\ from \in Nat /\ to \in Nat /\ to # Unfinished /\ Slack = 1
        /\ entries[f].from \in Nat /\ entries[f].to \in Nat
    <2>1. clock \in Nat
      BY TimesAreNumbers DEF TimeInv, TimeTypeOK
    <2>2. EntryTimes \cup {Unfinished} \subseteq Nat
      BY TimesAreNumbers
    <2>3. QED
      BY <1>2, <2>1, <2>2, TimesAreNumbers
  <1>4. CASE entries[f].to = Unfinished
    <2>1. entries[f].from > to \/ clock <= from
      BY <1>1, <1>3, <1>4 DEF Clashes, EndOf
    <2>2. f \notin Stopped
      BY <1>2, <1>4 DEF Stopped
    <2>3. to - Later(entries[f].from, from) <= Slack
      BY <1>3, <2>1 DEF Later
    <2>4. QED
      BY <1>4, <2>2, <2>3 DEF ApartEver
  <1>5. CASE entries[f].to # Unfinished
    <2>1. entries[f].from > to \/ entries[f].to <= from
      BY <1>1, <1>3, <1>5 DEF Clashes, EndOf
    <2>2. Earlier(entries[f].to, to) - Later(entries[f].from, from) <= Slack
          /\ Earlier(to, entries[f].to) - Later(from, entries[f].from) <= Slack
      BY <1>3, <2>1 DEF Later, Earlier
    <2>3. QED
      BY <1>3, <1>5, <2>2 DEF ApartEver
  <1>6. QED
    BY <1>4, <1>5

TimeWritten == TimeTypeOK' /\ EntriesGood' /\ CallsFit'

\* A call ends; the others, their entries apart, are still right.
LEMMA CallsStay ==
  ASSUME TimeInv, clock' = clock,
         \A d \in TimeCalls : timeCalls'[d] \in {timeCalls[d], NoTimeCall},
         \A d \in TimeCalls : timeCalls'[d].op = "correct" =>
           entries'[timeCalls[d].entry] = entries[timeCalls[d].entry]
  PROVE  CallsFit'
  <1> SUFFICES ASSUME NEW c \in TimeCalls, timeCalls'[c].op \in {"adopt", "correct"}
               PROVE  /\ timeCalls'[c].from < timeCalls'[c].to /\ timeCalls'[c].to <= clock + Slack
                      /\ timeCalls'[c].op = "correct" =>
                           /\ timeCalls'[c].entry \in Stopped'
                           /\ entries'[timeCalls'[c].entry].status = "offen"
                           /\ \A d \in TimeCalls : timeCalls'[d].op = "correct"
                                 /\ timeCalls'[d].entry = timeCalls'[c].entry => d = c
    BY DEF CallsFit
  <1>1. timeCalls'[c] = timeCalls[c]
    BY DEF NoTimeCall
  <1>2. \A d \in TimeCalls : timeCalls'[d].op = "correct" => timeCalls'[d] = timeCalls[d]
    BY DEF NoTimeCall
  <1>3. timeCalls[c].op = "correct" =>
          timeCalls[c].entry \in Stopped' /\ entries'[timeCalls[c].entry].status = "offen"
    BY <1>1 DEF TimeInv, CallsFit, Stopped, Entered, Clocked
  <1>4. QED
    BY <1>1, <1>2, <1>3 DEF TimeInv, CallsFit

\* A call begins with what it has read.
LEMMA CallBegins ==
  ASSUME TimeInv, NEW c \in TimeCalls, NEW call \in StopCall \cup AdoptCall \cup CorrectCall,
         Calling(c, call), UNCHANGED <<clock, eventAt, entries>>,
         call.op # "stop" => call.from < call.to /\ call.to <= clock + Slack,
         call.op = "correct" => /\ call.entry \in Stopped /\ entries[call.entry].status = "offen"
                                /\ RowIsFree(call.entry)
  PROVE  TimeInv'
  <1>1. /\ timeCalls' \in [TimeCalls -> {NoTimeCall} \cup StopCall \cup AdoptCall \cup CorrectCall]
        /\ timeCalls'[c] = call /\ \A d \in TimeCalls \ {c} : timeCalls'[d] = timeCalls[d]
    <2>1. timeCalls \in [TimeCalls -> {NoTimeCall} \cup StopCall \cup AdoptCall \cup CorrectCall]
      BY DEF TimeInv, TimeTypeOK, StopCall, AdoptCall, CorrectCall
    <2>2. QED
      BY <2>1 DEF Calling
  <1>2. TimeTypeOK'
    BY <1>1 DEF TimeInv, TimeTypeOK, StopCall, AdoptCall, CorrectCall
  <1>3. EntriesGood'
    BY DEF TimeInv, EntriesGood, OneClock, EntriesApart, EntriesFit, Entered, Clocked, Stopped,
           CountedEntries
  <1>4. CallsFit'
    <2>1. Stopped' = Stopped
      BY DEF Stopped, Entered, Clocked
    <2>2. call.op \in {"stop", "adopt", "correct"}
      BY DEF StopCall, AdoptCall, CorrectCall
    <2>3. \A d \in TimeCalls : d # c /\ timeCalls[d].op = "correct" /\ call.op = "correct"
                               => timeCalls[d].entry # call.entry
      BY DEF RowIsFree
    <2>4. QED
      BY <1>1, <2>1, <2>2, <2>3 DEF TimeInv, CallsFit
  <1>5. QED
    BY <1>2, <1>3, <1>4 DEF TimeInv, EntriesGood

\* What is written by a call that ends, or without one.
LEMMA CallsTyped ==
  ASSUME TimeInv, UNCHANGED <<clock, eventAt>>,
         entries' \in [TimeEntries -> TimeEntry \cup {NoTimeEntry}],
         \/ timeCalls' = timeCalls
         \/ \E c \in TimeCalls : Calling(c, NoTimeCall)
  PROVE  /\ TimeTypeOK'
         /\ \A d \in TimeCalls : timeCalls'[d] \in {timeCalls[d], NoTimeCall}
         /\ \A c \in TimeCalls : Calling(c, NoTimeCall) =>
              timeCalls'[c] = NoTimeCall /\ \A d \in TimeCalls \ {c} : timeCalls'[d] = timeCalls[d]
  <1>1. timeCalls \in [TimeCalls -> {NoTimeCall} \cup StopCall \cup AdoptCall \cup CorrectCall]
    BY DEF TimeInv, TimeTypeOK, StopCall, AdoptCall, CorrectCall
  <1>2. /\ timeCalls' \in [TimeCalls -> {NoTimeCall} \cup StopCall \cup AdoptCall \cup CorrectCall]
        /\ \A d \in TimeCalls : timeCalls'[d] \in {timeCalls[d], NoTimeCall}
        /\ \A c \in TimeCalls : Calling(c, NoTimeCall) =>
             timeCalls'[c] = NoTimeCall /\ \A d \in TimeCalls \ {c} : timeCalls'[d] = timeCalls[d]
    BY <1>1 DEF Calling
  <1>3. TimeTypeOK'
    BY <1>2 DEF TimeInv, TimeTypeOK, StopCall, AdoptCall, CorrectCall
  <1>4. QED
    BY <1>2, <1>3

\* No call is about to correct the entry.
NotCorrected(e) == \A d \in TimeCalls : timeCalls'[d].op = "correct" => timeCalls[d].entry # e

\* New hours, of the length and at the place that were checked.
LEMMA HoursPut ==
  ASSUME TimeInv, UNCHANGED <<clock, eventAt>>,
         NEW e \in TimeEntries, NEW new \in TimeEntry, PutEntry(e, new),
         \/ timeCalls' = timeCalls
         \/ \E c \in TimeCalls : Calling(c, NoTimeCall),
         NotCorrected(e),
         new.to # Unfinished, new.from < new.to, new.to <= clock + Slack,
         NoOverlap(new.from, new.to, e)
  PROVE  TimeInv'
  <1>1. new.from \in EntryTimes /\ new.to \in EntryTimes
    BY DEF TimeEntry
  <1>2. EntriesGood'
    <2>1. \A f \in CountedEntries \ {e} : (f \in Stopped => ApartEver(new, entries[f]))
                                          /\ ApartEver(entries[f], new)
      BY <1>1, NoOverlapIsApart
    <2>2. QED
      BY <2>1, EntryWritten
  <1>3. /\ entries' \in [TimeEntries -> TimeEntry \cup {NoTimeEntry}]
        /\ \A f \in TimeEntries \ {e} : entries'[f] = entries[f]
    BY WrittenEntries
  <1>4. TimeTypeOK' /\ \A d \in TimeCalls : timeCalls'[d] \in {timeCalls[d], NoTimeCall}
    BY <1>3, CallsTyped
  <1>5. CallsFit'
    <2>1. \A d \in TimeCalls : timeCalls'[d].op = "correct" =>
            entries'[timeCalls[d].entry] = entries[timeCalls[d].entry]
      <3> SUFFICES ASSUME NEW d \in TimeCalls, timeCalls'[d].op = "correct"
                   PROVE  entries'[timeCalls[d].entry] = entries[timeCalls[d].entry]
        OBVIOUS
      <3>1. timeCalls[d].op = "correct"
        BY <1>4 DEF NoTimeCall
      <3>2. timeCalls[d].entry \in TimeEntries
        BY <3>1, TimeCallTyped DEF TimeInv, CorrectCall
      <3>3. QED
        BY <1>3, <3>2 DEF NotCorrected
    <2>2. QED
      BY <1>4, <2>1, CallsStay
  <1>6. QED
    BY <1>2, <1>4, <1>5 DEF TimeInv, EntriesGood

LEMMA EntersKeeps ==
  ASSUME TimeInv, NEW e \in TimeEntries, NEW from \in EntryTimes, NEW to \in EntryTimes,
         Enters(e, from, to)
  PROVE  TimeInv'
  <1> DEFINE new == RecordedHours(from, to, FALSE)
  <1>1. new \in TimeEntry /\ new.from = from /\ new.to = to /\ to # Unfinished
    BY TimesAreNumbers DEF RecordedHours, TimeEntry
  <1>2. NotCorrected(e)
    <2>1. \A d \in TimeCalls : timeCalls[d].op = "correct" => timeCalls[d].entry \in Entered
      BY DEF TimeInv, CallsFit, Stopped
    <2>2. QED
      BY <2>1 DEF Enters, NotCorrected, Entered
  <1>3. PutEntry(e, new) /\ NoOverlap(from, to, e) /\ from < to /\ to <= clock + Slack
        /\ UNCHANGED <<clock, eventAt, timeCalls>>
    BY DEF Enters, InWindow
  <1> HIDE DEF new
  <1>4. QED
    BY <1>1, <1>2, <1>3, HoursPut

\* A refused call only ends.
LEMMA CallEnds ==
  ASSUME TimeInv, NEW c \in TimeCalls, Calling(c, NoTimeCall), UNCHANGED <<clock, eventAt, entries>>
  PROVE  TimeInv'
  <1>1. entries' \in [TimeEntries -> TimeEntry \cup {NoTimeEntry}]
    BY DEF TimeInv, TimeTypeOK
  <1>2. TimeTypeOK' /\ \A d \in TimeCalls : timeCalls'[d] \in {timeCalls[d], NoTimeCall}
    BY <1>1, CallsTyped
  <1>3. EntriesGood'
    BY DEF TimeInv, EntriesGood, OneClock, EntriesApart, EntriesFit, Entered, Clocked, Stopped,
           CountedEntries
  <1>4. CallsFit'
    BY <1>2, CallsStay
  <1>5. QED
    BY <1>2, <1>3, <1>4 DEF TimeInv, EntriesGood

LEMMA AdoptsKeeps ==
  ASSUME TimeInv, NEW c \in TimeCalls, NEW e \in TimeEntries, Adopts(c, e)
  PROVE  TimeInv'
  <1> DEFINE new == RecordedHours(timeCalls[c].from, timeCalls[c].to, TRUE)
  <1>0. timeCalls[c] \in AdoptCall
    BY TimeCallTyped DEF Adopts, TimeInv
  <1>1. /\ new \in TimeEntry /\ new.from = timeCalls[c].from /\ new.to = timeCalls[c].to
        /\ new.to # Unfinished
    BY <1>0, TimesAreNumbers DEF RecordedHours, TimeEntry, AdoptCall
  <1>2. NotCorrected(e)
    <2>1. \A d \in TimeCalls : timeCalls[d].op = "correct" => timeCalls[d].entry \in Entered
      BY DEF TimeInv, CallsFit, Stopped
    <2>2. \A d \in TimeCalls : timeCalls'[d] \in {timeCalls[d], NoTimeCall}
      BY DEF Adopts, Calling, TimeInv, TimeTypeOK
    <2>3. QED
      BY <2>1, <2>2 DEF Adopts, NotCorrected, Entered, NoTimeCall
  <1>3. new.from < new.to /\ new.to <= clock + Slack
    BY <1>1 DEF TimeInv, CallsFit, Adopts
  <1>4. /\ Calling(c, NoTimeCall) /\ UNCHANGED <<clock, eventAt>>
        /\ \/ PutEntry(e, new) /\ NoOverlap(new.from, new.to, e)
           \/ UNCHANGED entries
    BY <1>1 DEF Adopts
  <1> HIDE DEF new
  <1>5. QED
    BY <1>1, <1>2, <1>3, <1>4, HoursPut, CallEnds

LEMMA CorrectsKeeps ==
  ASSUME TimeInv, NEW c \in TimeCalls, Corrects(c)
  PROVE  TimeInv'
  <1> DEFINE e == timeCalls[c].entry
             new == [entries[e] EXCEPT !.from = timeCalls[c].from, !.to = timeCalls[c].to]
  <1>0. timeCalls[c] \in CorrectCall /\ timeCalls[c].op = "correct"
    BY TimeCallTyped DEF Corrects, TimeInv
  <1>1. e \in Entered /\ e \in TimeEntries
    BY <1>0 DEF TimeInv, CallsFit, Stopped, CorrectCall
  <1>2. /\ new \in TimeEntry /\ new.from = timeCalls[c].from /\ new.to = timeCalls[c].to
        /\ new.to # Unfinished
    <2>1. timeCalls[c].from \in EntryTimes /\ timeCalls[c].to \in EntryTimes
      BY <1>0 DEF CorrectCall
    <2>2. Unfinished \notin EntryTimes
      BY TimesAreNumbers
    <2>3. entries[e] \in TimeEntry
      BY <1>1, EntryTyped DEF TimeInv
    <2> HIDE DEF e
    <2>4. QED
      BY <2>1, <2>2, <2>3 DEF TimeEntry
  <1>3. NotCorrected(e)
    <2>1. timeCalls'[c] = NoTimeCall /\ \A d \in TimeCalls \ {c} : timeCalls'[d] = timeCalls[d]
      BY DEF Corrects, Calling, TimeInv, TimeTypeOK
    <2>2. QED
      BY <1>0, <2>1 DEF NotCorrected, NoTimeCall, TimeInv, CallsFit
  <1>4. new.from < new.to /\ new.to <= clock + Slack
    BY <1>0, <1>2 DEF TimeInv, CallsFit
  <1>5. /\ Calling(c, NoTimeCall) /\ UNCHANGED <<clock, eventAt>>
        /\ \/ PutEntry(e, new) /\ NoOverlap(new.from, new.to, e)
           \/ UNCHANGED entries
    BY <1>2 DEF Corrects
  <1> HIDE DEF new, e
  <1>6. QED
    BY <1>1, <1>2, <1>3, <1>4, <1>5, HoursPut, CallEnds

LEMMA ClocksInKeeps ==
  ASSUME TimeInv, NEW e \in TimeEntries, ClocksIn(e)
  PROVE  TimeInv'
  <1> DEFINE new == RecordedHours(clock, Unfinished, FALSE)
  <1>0. clock \in EntryTimes /\ clock \in Nat
    BY TimesAreNumbers DEF TimeInv, TimeTypeOK, EntryTimes
  <1>1. new \in TimeEntry /\ new.from = clock /\ new.to = Unfinished /\ new.status = "offen"
    BY <1>0 DEF RecordedHours, TimeEntry
  <1>2. PutEntry(e, new) /\ Clocked = {} /\ UNCHANGED <<clock, eventAt, timeCalls>>
        /\ entries[e] = NoTimeEntry
    BY DEF ClocksIn
  <1> HIDE DEF new
  <1>3. EntriesGood'
    <2>1. ASSUME NEW f \in CountedEntries \ {e}, f \in Stopped
          PROVE  ApartEver(new, entries[f])
      <3>1. entries[f].to <= clock + Slack
        BY <2>1 DEF TimeInv, EntriesFit, Stopped
      <3>2. entries[f].from \in Nat /\ entries[f].to \in Nat
        BY <2>1, EntryTyped, TimesAreNumbers DEF TimeInv, Stopped
      <3>3. entries[f].to - Later(clock, entries[f].from) <= Slack
        BY <1>0, <3>1, <3>2, TimesAreNumbers DEF Later
      <3>4. QED
        BY <1>1, <3>3 DEF ApartEver
    <2>2. QED
      BY <1>0, <1>1, <1>2, <2>1, EntryWritten
  <1>4. /\ entries' \in [TimeEntries -> TimeEntry \cup {NoTimeEntry}]
        /\ \A f \in TimeEntries \ {e} : entries'[f] = entries[f]
    BY <1>1, <1>2, WrittenEntries
  <1>5. TimeTypeOK'
    BY <1>2, <1>4, CallsTyped
  <1>6. CallsFit'
    <2>1. \A d \in TimeCalls : timeCalls[d].op = "correct" =>
            timeCalls[d].entry \in TimeEntries /\ entries[timeCalls[d].entry] # NoTimeEntry
      BY DEF TimeInv, CallsFit, Stopped, Entered
    <2>2. QED
      BY <1>2, <1>4, <2>1, CallsStay
  <1>7. QED
    BY <1>3, <1>5, <1>6 DEF TimeInv, EntriesGood

LEMMA StopsKeeps ==
  ASSUME TimeInv, NEW c \in TimeCalls, StopsAt(c)
  PROVE  TimeInv'
  <1>1. CASE UNCHANGED entries
    BY <1>1, CallEnds DEF StopsAt
  <1>2. ASSUME NEW e \in Clocked, RowIsFree(e), PutEntry(e, [entries[e] EXCEPT !.to = clock]),
               InWindow(entries[e].from, clock)
        PROVE  TimeInv'
    <2> DEFINE new == [entries[e] EXCEPT !.to = clock]
    <2>0. clock \in EntryTimes /\ clock \in Nat /\ e \in Entered /\ e \in TimeEntries
      BY TimesAreNumbers DEF TimeInv, TimeTypeOK, EntryTimes, Clocked, Entered
    <2>1. /\ new \in TimeEntry /\ new.from = entries[e].from /\ new.to = clock
          /\ new.to # Unfinished /\ entries[e].to = Unfinished /\ entries[e].from \in Nat
          /\ entries[e].status = new.status
      BY <2>0, EntryTyped, TimesAreNumbers DEF TimeInv, TimeEntry, Clocked
    <2>2. PutEntry(e, new) /\ UNCHANGED <<clock, eventAt>> /\ Calling(c, NoTimeCall)
      BY <1>2 DEF StopsAt
    <2> HIDE DEF new
    <2>3. EntriesGood'
      <3>1. ASSUME NEW f \in CountedEntries \ {e}, new.status # "abgelehnt"
            PROVE  ApartEver(new, entries[f]) /\ ApartEver(entries[f], new)
        <4>0. e \in CountedEntries /\ f \in Entered
          BY <2>0, <2>1, <3>1 DEF CountedEntries
        <4>1. f \in Stopped
          BY <3>1, <4>0 DEF TimeInv, OneClock, Stopped
        <4>2. entries[f].to - Later(entries[e].from, entries[f].from) <= Slack
          BY <2>1, <3>1, <4>0, <4>1 DEF TimeInv, EntriesApart, ApartEver
        <4>3. entries[f].from \in Nat /\ entries[f].to \in Nat /\ entries[f].to # Unfinished
          BY <4>0, <4>1, EntryTyped, TimesAreNumbers DEF TimeInv, Stopped
        <4>4. /\ Earlier(clock, entries[f].to) - Later(entries[e].from, entries[f].from) <= Slack
              /\ Earlier(entries[f].to, clock) - Later(entries[f].from, entries[e].from) <= Slack
          BY <2>0, <2>1, <4>2, <4>3, TimesAreNumbers DEF Earlier, Later
        <4>5. QED
          BY <2>1, <4>3, <4>4 DEF ApartEver
      <3>2. new.to <= clock + Slack
        BY <2>0, <2>1, TimesAreNumbers
      <3>3. QED
        BY <2>0, <2>1, <2>2, <3>1, <3>2, EntryWritten
    <2>4. /\ entries' \in [TimeEntries -> TimeEntry \cup {NoTimeEntry}]
          /\ \A f \in TimeEntries \ {e} : entries'[f] = entries[f]
      BY <2>0, <2>1, <2>2, WrittenEntries
    <2>5. TimeTypeOK' /\ \A d \in TimeCalls : timeCalls'[d] \in {timeCalls[d], NoTimeCall}
      BY <2>2, <2>4, CallsTyped
    <2>6. CallsFit'
      <3>1. \A d \in TimeCalls : timeCalls[d].op = "correct" =>
              timeCalls[d].entry \in TimeEntries /\ timeCalls[d].entry # e
        BY <1>2 DEF TimeInv, CallsFit, Stopped, Entered, RowIsFree
      <3>2. \A d \in TimeCalls : timeCalls'[d].op = "correct" =>
              entries'[timeCalls[d].entry] = entries[timeCalls[d].entry]
        BY <2>4, <2>5, <3>1 DEF NoTimeCall
      <3>3. QED
        BY <2>2, <2>5, <3>2, CallsStay
    <2>7. QED
      BY <2>3, <2>5, <2>6 DEF TimeInv, EntriesGood
  <1>3. QED
    BY <1>1, <1>2 DEF StopsAt

\* Somebody else decides about the hours, or they are deleted.
LEMMA DecidesKeeps ==
  ASSUME TimeInv, NEW e \in TimeEntries, NEW status \in {"bestaetigt", "abgelehnt"},
         DecidesHours(e, status)
  PROVE  TimeInv'
  <1> DEFINE new == [entries[e] EXCEPT !.status = status]
  <1>1. e \in Entered /\ entries[e].status = "offen" /\ entries[e].to # Unfinished /\ RowIsFree(e)
        /\ PutEntry(e, new) /\ UNCHANGED <<clock, eventAt, timeCalls>>
    BY DEF DecidesHours, StillOpen
  <1>2. /\ new \in TimeEntry /\ new.from = entries[e].from /\ new.to = entries[e].to
        /\ new.status = status /\ e \in Stopped /\ e \in CountedEntries
    BY <1>1, EntryTyped DEF TimeInv, TimeEntry, Stopped, CountedEntries
  <1> HIDE DEF new
  <1>3. EntriesGood'
    <2>1. ASSUME NEW f \in CountedEntries \ {e}
          PROVE  /\ f \in Stopped => ApartEver(new, entries[f])
                 /\ ApartEver(entries[f], new)
      <3>1. f \in Stopped => ApartEver(entries[e], entries[f])
        BY <1>2, <2>1 DEF TimeInv, EntriesApart
      <3>2. ApartEver(entries[f], entries[e])
        BY <1>2, <2>1 DEF TimeInv, EntriesApart
      <3>3. QED
        BY <1>2, <3>1, <3>2 DEF ApartEver
    <2>2. new.to # Unfinished /\ new.to <= clock + Slack
      BY <1>1, <1>2 DEF TimeInv, EntriesFit, Stopped
    <2>3. QED
      BY <1>1, <1>2, <2>1, <2>2, EntryWritten
  <1>4. /\ entries' \in [TimeEntries -> TimeEntry \cup {NoTimeEntry}]
        /\ \A f \in TimeEntries \ {e} : entries'[f] = entries[f]
    BY <1>1, <1>2, WrittenEntries
  <1>5. TimeTypeOK'
    BY <1>1, <1>4, CallsTyped
  <1>6. CallsFit'
    <2>1. \A d \in TimeCalls : timeCalls[d].op = "correct" =>
            timeCalls[d].entry \in TimeEntries /\ timeCalls[d].entry # e
      BY <1>1 DEF TimeInv, CallsFit, Stopped, Entered, RowIsFree
    <2>2. QED
      BY <1>1, <1>4, <2>1, CallsStay
  <1>7. QED
    BY <1>3, <1>5, <1>6 DEF TimeInv, EntriesGood

LEMMA DeletesKeeps ==
  ASSUME TimeInv, NEW e \in TimeEntries, Deletes(e)
  PROVE  TimeInv'
  <1>1. PutEntry(e, NoTimeEntry) /\ RowIsFree(e) /\ UNCHANGED <<clock, eventAt, timeCalls>>
    BY DEF Deletes
  <1>2. /\ entries' \in [TimeEntries -> TimeEntry \cup {NoTimeEntry}]
        /\ \A f \in TimeEntries \ {e} : /\ entries'[f] = entries[f]
                                        /\ f \in Entered' <=> f \in Entered
                                        /\ f \in Clocked' <=> f \in Clocked
                                        /\ f \in Stopped' <=> f \in Stopped
                                        /\ f \in CountedEntries' <=> f \in CountedEntries
        /\ e \notin Entered'
    BY <1>1, WrittenEntries
  <1>3. EntriesGood'
    <2>1. /\ Entered' \subseteq Entered \ {e} /\ Clocked' \subseteq Clocked \ {e}
          /\ CountedEntries' \subseteq CountedEntries \ {e} /\ Stopped' \subseteq Stopped
          /\ \A f \in Entered' : entries'[f] = entries[f] /\ (f \in Clocked' <=> f \in Clocked)
      BY <1>2 DEF Entered, Clocked, CountedEntries, Stopped
    <2>2. CountedEntries' \subseteq Entered'
      BY DEF CountedEntries
    <2>3. OneClock'
      BY <2>1 DEF TimeInv, OneClock
    <2>4. EntriesApart'
      BY <2>1, <2>2 DEF TimeInv, EntriesApart
    <2>5. EntriesFit'
      BY <1>1, <2>1 DEF TimeInv, EntriesFit
    <2>6. QED
      BY <2>3, <2>4, <2>5 DEF EntriesGood
  <1>4. TimeTypeOK'
    BY <1>1, <1>2, CallsTyped
  <1>5. CallsFit'
    <2>1. \A d \in TimeCalls : timeCalls[d].op = "correct" =>
            timeCalls[d].entry \in TimeEntries /\ timeCalls[d].entry # e
      BY <1>1 DEF TimeInv, CallsFit, Stopped, Entered, RowIsFree
    <2>2. QED
      BY <1>1, <1>2, <2>1, CallsStay
  <1>6. QED
    BY <1>3, <1>4, <1>5 DEF TimeInv, EntriesGood

LEMMA CallsBeginKeep ==
  ASSUME TimeInv, NEW c \in TimeCalls,
         \/ StartsStop(c) \/ ReadsProposal(c)
         \/ \E e \in TimeEntries, from, to \in EntryTimes : StartsCorrection(c, e, from, to)
  PROVE  TimeInv'
  <1>1. CASE StartsStop(c)
    <2>1. [op |-> "stop"] \in StopCall
      BY DEF StopCall
    <2>2. QED
      BY <1>1, <2>1, CallBegins DEF StartsStop
  <1>2. CASE ReadsProposal(c)
    <2> DEFINE call == [op |-> "adopt", from |-> eventAt[1], to |-> eventAt[2]]
    <2>1. eventAt[1] \in Nat \ {0} /\ eventAt[2] \in Nat /\ clock \in 1..LastTime
      BY TimeTrackingAssumption DEF TimeInv, TimeTypeOK
    <2>2. eventAt[1] < eventAt[2] /\ eventAt[2] <= clock + Slack
      BY <1>2 DEF ReadsProposal, InWindow
    <2>3. eventAt[1] \in EntryTimes /\ eventAt[2] \in EntryTimes
      BY <2>1, <2>2, TimesAreNumbers DEF EntryTimes
    <2>4. call \in AdoptCall /\ call.op = "adopt" /\ call.from < call.to /\ call.to <= clock + Slack
      BY <2>2, <2>3 DEF AdoptCall
    <2>5. Calling(c, call) /\ UNCHANGED <<clock, eventAt, entries>>
      BY <1>2 DEF ReadsProposal
    <2> HIDE DEF call
    <2>6. QED
      BY <2>4, <2>5, CallBegins
  <1>3. ASSUME NEW e \in TimeEntries, NEW from \in EntryTimes, NEW to \in EntryTimes,
               StartsCorrection(c, e, from, to)
        PROVE  TimeInv'
    <2> DEFINE call == [op |-> "correct", entry |-> e, from |-> from, to |-> to]
    <2>1. /\ call \in CorrectCall /\ call.op = "correct" /\ call.from = from /\ call.to = to
          /\ call.entry = e
      BY DEF CorrectCall
    <2>2. /\ Calling(c, call) /\ UNCHANGED <<clock, eventAt, entries>>
          /\ from < to /\ to <= clock + Slack
          /\ RowIsFree(e) /\ e \in Entered /\ entries[e].status = "offen" /\ entries[e].to # Unfinished
      BY <1>3 DEF StartsCorrection, Correctable, StillOpen, InWindow
    <2>3. e \in Stopped
      BY <2>2 DEF Stopped, Clocked
    <2> HIDE DEF call
    <2>4. QED
      BY <2>1, <2>2, <2>3, CallBegins
  <1>4. QED
    BY <1>1, <1>2, <1>3

\* Time passes, and the event is moved.
LEMMA OthersKeep ==
  ASSUME TimeInv, MovesEvent \/ TimeGoesOn
  PROVE  TimeInv'
  <1>1. /\ UNCHANGED <<entries, timeCalls>>
        /\ clock \in Nat /\ clock' \in Nat /\ clock <= clock'
        /\ clock' \in 1..LastTime /\ eventAt' \in EventTimes
    BY TimeTrackingAssumption DEF MovesEvent, TimeGoesOn, TimeInv, TimeTypeOK
  <1>2. TimeTypeOK'
    BY <1>1 DEF TimeInv, TimeTypeOK
  <1>3. /\ Entered' = Entered /\ Clocked' = Clocked /\ Stopped' = Stopped
        /\ CountedEntries' = CountedEntries
    BY <1>1 DEF Entered, Clocked, Stopped, CountedEntries
  <1>4. OneClock' /\ EntriesApart'
    BY <1>1, <1>3 DEF TimeInv, OneClock, EntriesApart
  <1>5. EntriesFit'
    <2> SUFFICES ASSUME NEW e \in Entered
                 PROVE  IF e \in Clocked THEN entries[e].status = "offen" /\ entries[e].from <= clock'
                                         ELSE entries[e].to <= clock' + Slack
      BY <1>1, <1>3 DEF EntriesFit
    <2>1. entries[e].from \in Nat /\ entries[e].to \in Nat
      <3>1. EntryTimes \cup {Unfinished} \subseteq Nat
        BY TimesAreNumbers
      <3>2. QED
        BY <3>1, EntryTyped DEF TimeInv
    <2>2. QED
      BY <1>1, <2>1, TimesAreNumbers DEF TimeInv, EntriesFit
  <1>6. CallsFit'
    <2>1. \A c \in TimeCalls : timeCalls[c].op \in {"adopt", "correct"} =>
            timeCalls[c].to <= clock' + Slack
      <3> SUFFICES ASSUME NEW c \in TimeCalls, timeCalls[c].op \in {"adopt", "correct"}
                   PROVE  timeCalls[c].to <= clock' + Slack
        OBVIOUS
      <3>1. timeCalls[c].to \in Nat
        BY TimeCallTyped, TimesAreNumbers DEF TimeInv, AdoptCall, CorrectCall
      <3>2. QED
        BY <1>1, <3>1, TimesAreNumbers DEF TimeInv, CallsFit
    <2>2. QED
      BY <1>1, <1>3, <2>1 DEF TimeInv, CallsFit
  <1>7. QED
    BY <1>2, <1>4, <1>5, <1>6 DEF TimeInv

LEMMA TimeStarts ==
  ASSUME TimeInit
  PROVE  TimeInv
  <1>1. TimeTypeOK
    BY TimeTrackingAssumption DEF TimeInit, TimeTypeOK, NoTimeCall
  <1>2. Entered = {} /\ \A c \in TimeCalls : timeCalls[c].op = "none"
    BY DEF TimeInit, Entered, NoTimeCall
  <1>3. QED
    BY <1>1, <1>2 DEF TimeInv, OneClock, EntriesApart, EntriesFit, CallsFit, Clocked, CountedEntries

LEMMA TimeStepKeeps ==
  ASSUME TimeInv, [TimeNext]_timeVars
  PROVE  TimeInv'
  <1>1. CASE UNCHANGED timeVars
    <2>1. /\ Entered' = Entered /\ Clocked' = Clocked /\ Stopped' = Stopped
          /\ CountedEntries' = CountedEntries
      BY <1>1 DEF timeVars, Entered, Clocked, Stopped, CountedEntries
    <2>2. QED
      BY <1>1, <2>1 DEF timeVars, TimeInv, TimeTypeOK, OneClock, EntriesApart, EntriesFit, CallsFit
  <1>2. ASSUME NEW e \in TimeEntries, OnEntry(e) PROVE TimeInv'
    BY <1>2, ClocksInKeeps, DeletesKeeps, DecidesKeeps, EntersKeeps DEF OnEntry
  <1>3. ASSUME NEW c \in TimeCalls, OnTimeCall(c) PROVE TimeInv'
    BY <1>3, CallsBeginKeep, StopsKeeps, CorrectsKeeps, AdoptsKeeps DEF OnTimeCall
  <1>4. QED
    BY <1>1, <1>2, <1>3, OthersKeep DEF TimeNext

LEMMA HoursAreApart ==
  ASSUME TimeInv
  PROVE  HoursCountOnce
  <1> SUFFICES ASSUME NEW e \in CountedEntries, NEW f \in CountedEntries, e # f
               PROVE  Shared(e, f) <= Slack
    BY DEF HoursCountOnce
  <1> DEFINE a == entries[e].from   b == entries[e].to
             c == entries[f].from   d == entries[f].to
  <1>1. e \in Entered /\ f \in Entered
    BY DEF CountedEntries
  <1>2. /\ a \in Nat /\ b \in Nat /\ c \in Nat /\ d \in Nat
        /\ e \in Clocked <=> b = Unfinished
        /\ f \in Clocked <=> d = Unfinished
    <2>1. EntryTimes \cup {Unfinished} \subseteq Nat
      BY TimesAreNumbers
    <2>2. QED
      BY <1>1, <2>1, EntryTyped DEF TimeInv
  <1>3. clock \in Nat /\ Slack = 1
    BY TimesAreNumbers DEF TimeInv, TimeTypeOK
  <1>4. Shared(e, f) = Earlier(EndOf(e), EndOf(f)) - Later(a, c)
    BY DEF Shared, Earlier, Later
  <1>5. b # Unfinished \/ d # Unfinished
    BY <1>2 DEF TimeInv, OneClock
  <1>6. /\ d # Unfinished => IF b = Unfinished THEN d - Later(a, c) <= Slack
                                               ELSE Earlier(b, d) - Later(a, c) <= Slack
        /\ b # Unfinished => IF d = Unfinished THEN b - Later(c, a) <= Slack
                                               ELSE Earlier(d, b) - Later(c, a) <= Slack
    BY <1>1, <1>2 DEF TimeInv, EntriesApart, ApartEver, Stopped
  <1>7. EndOf(e) = (IF b = Unfinished THEN clock ELSE b) /\ EndOf(f) = (IF d = Unfinished THEN clock ELSE d)
    BY DEF EndOf
  <1> HIDE DEF a, b, c, d
  <1>8. QED
    BY <1>2, <1>3, <1>4, <1>5, <1>6, <1>7 DEF Earlier, Later

\* TimePromise, for any number of entries, calls and times: no hour is counted
\* twice, stopping and correcting never wait for each other, and decided hours
\* stand (routes/time-tracking.ts, lib/time-tracking.ts).
THEOREM TimeIsSound == TimeSpec => TimePromise
  <1>1. TimeInit => TimeInv
    BY TimeStarts
  <1>2. TimeInv /\ [TimeNext]_timeVars => TimeInv'
    BY TimeStepKeeps
  <1>3. TimeInv => TimeTypeOK /\ HoursCountOnce /\ NoTimeLockCycle
    BY HoursAreApart DEF TimeInv, CallsFit, Stopped, NoTimeLockCycle
  <1>4. TimeInv /\ [TimeNext]_timeVars =>
          [\A e \in Entered : entries[e].status # "offen" => entries'[e] = entries[e]]_timeVars
    <2> SUFFICES ASSUME TimeInv, TimeNext, NEW e \in Entered, entries[e].status # "offen"
                 PROVE  entries'[e] = entries[e]
      OBVIOUS
    <2>0. e \in TimeEntries /\ entries[e] # NoTimeEntry
      BY DEF Entered
    <2>a. \A f \in TimeEntries : \A new : PutEntry(f, new) => f = e \/ entries'[e] = entries[e]
      BY <2>0 DEF PutEntry, TimeInv, TimeTypeOK
    <2>1. ASSUME NEW f \in TimeEntries, OnEntry(f) PROVE entries'[e] = entries[e]
      BY <2>0, <2>1, <2>a DEF OnEntry, ClocksIn, Deletes, DecidesHours, Enters, StillOpen
    <2>2. ASSUME NEW c \in TimeCalls, OnTimeCall(c) PROVE entries'[e] = entries[e]
      <3>1. CASE StopsAt(c)
        <4>1. \A f \in Clocked : f \in TimeEntries /\ f # e
          BY DEF TimeInv, EntriesFit, Clocked, Entered
        <4>2. QED
          BY <2>a, <3>1, <4>1 DEF StopsAt
      <3>2. CASE Corrects(c)
        <4>1. timeCalls[c].entry \in TimeEntries /\ timeCalls[c].entry # e
          BY <3>2 DEF TimeInv, CallsFit, Corrects, Stopped, Entered
        <4>2. QED
          BY <2>a, <3>2, <4>1 DEF Corrects
      <3>3. CASE \E f \in TimeEntries : Adopts(c, f)
        BY <2>0, <2>a, <3>3 DEF Adopts
      <3>4. QED
        BY <2>2, <3>1, <3>2, <3>3 DEF OnTimeCall, StartsStop, ReadsProposal, StartsCorrection
    <2>3. QED
      BY <2>1, <2>2 DEF TimeNext, MovesEvent, TimeGoesOn
  <1>5. TimeSpec => [](TimeTypeOK /\ HoursCountOnce /\ NoTimeLockCycle)
    BY <1>1, <1>2, <1>3, PTL DEF TimeSpec
  <1>6. TimeSpec => DecidedHoursStand
    BY <1>1, <1>2, <1>4, PTL DEF TimeSpec, DecidedHoursStand
  <1>7. QED
    BY <1>5, <1>6, PTL DEF TimePromise

-----------------------------------------------------------------------------
(***************************************************************************)
(* A membership.  MembershipInv: whoever has left, or is about to, has no      *)
(* open request, but for a row closed because its account is gone; there is    *)
(* one open request at most, so that approving it leaves none; and only days    *)
(* that have come are announced.  A call on its way has read a day that has     *)
(* come, and room for the request it is going to file.                         *)
(***************************************************************************)
Today == 1..LastDay

PersonRow == [status: DOMAIN Allowed, leftAt: Days \cup {NoDay},
              account: {"linked", "removed"}, detached: BOOLEAN]

AskCall == [op: {"request"}, day: Today, form: {"none", "submitted"}]
RecordCall == [op: {"record"}, day: Today, by: Officers, kind: {"cancellation", "exclusion"},
               effectiveOn: Days, form: {"none", "submitted"}]
ApproveCall == [op: {"approve"}, day: Today, request: DOMAIN requests, effectiveOn: Days]

CallFits ==
  /\ exitCall \in {NoExitCall} \cup AskCall \cup RecordCall \cup ApproveCall
  /\ exitCall.op \in {"request", "record"} => Len(requests) < MaxRequests

NothingOpen == person.status \in LeftStates \/ person.leftAt # NoDay => person.detached \/ Pending = {}

OnePending == \A i, j \in Pending : i = j

MembershipInv ==
  /\ MembershipTypeOK
  /\ CallFits
  /\ NothingOpen
  /\ OnePending
  /\ FormFollows
  /\ due \subseteq 1..day

LEMMA Statuses ==
  /\ DOMAIN Allowed = {"aktiv", "ruhend", "ausgetreten", "ausgeschlossen", "verstorben"}
  /\ LeftStates = {"ausgetreten", "ausgeschlossen", "verstorben"}
  /\ \A s \in LeftStates : Allowed[s] = {"aktiv"}
  BY DEF Allowed, LeftStates

LEMMA DaysAreNumbers ==
  /\ LastDay \in Nat \ {0} /\ KeepDays \in Nat /\ MaxRequests \in Nat
  /\ Today \subseteq Days /\ Days \subseteq Nat \ {0} /\ NoDay = 0
  BY MembershipAssumption DEF Today, Days, NoDay

\* The row after a change of status that is allowed.
LEMMA MovedRow ==
  ASSUME NEW p \in PersonRow, NEW to \in DOMAIN Allowed, NEW on \in Days, NEW today \in Today,
         MayMove(p, to, on, today)
  PROVE  /\ Moved(p, to, on, today) \in PersonRow
         /\ to \notin LeftStates \/ TakesBack(p, to, today) =>
              /\ Moved(p, to, on, today).status \notin LeftStates
              /\ Moved(p, to, on, today).leftAt = NoDay
  <1> DEFINE kept == [p EXCEPT !.leftAt = NoDay, !.detached = FALSE]
             q == Moved(p, to, on, today)
  <1>1. kept \in PersonRow /\ kept.leftAt = NoDay /\ kept.status = p.status
    BY DEF PersonRow
  <1>2. CASE TakesBack(p, to, today)
    <2>1. q = kept
      BY <1>2 DEF Moved
    <2>2. p.status \notin LeftStates
      BY <1>2 DEF TakesBack, HasScheduledExit
    <2>3. QED
      BY <1>1, <2>1, <2>2
  <1>3. CASE ~TakesBack(p, to, today) /\ to \notin LeftStates
    <2>1. q = [kept EXCEPT !.status = to]
      BY <1>3 DEF Moved
    <2>2. q \in PersonRow /\ q.status = to /\ q.leftAt = NoDay
      BY <1>1, <2>1 DEF PersonRow
    <2>3. QED
      BY <1>3, <2>2
  <1>4. CASE ~TakesBack(p, to, today) /\ to \in LeftStates
    <2>1. q = [kept EXCEPT !.leftAt = on, !.status = IF on > today THEN kept.status ELSE to]
      BY <1>4 DEF Moved
    <2>2. q \in PersonRow
      BY <1>1, <2>1 DEF PersonRow
    <2>3. QED
      BY <1>4, <2>2
  <1>5. QED
    BY <1>2, <1>3, <1>4

LEMMA RowTyped ==
  ASSUME MembershipTypeOK
  PROVE  person \in PersonRow /\ day \in Today
  BY DEF MembershipTypeOK, PersonRow, Today

\* TransitionMember keeps the card and the document what they are.
LEMMA TransitionTypes ==
  ASSUME MembershipTypeOK, NEW to \in DOMAIN Allowed, NEW on \in Days, NEW today \in Today,
         TransitionMember(to, on, today)
  PROVE  /\ person' \in PersonRow
         /\ card' \in {"none", "aktiv", "austritt", "manuell"}
         /\ proof' \in [until: 0..(LastDay + 1 + KeepDays), status: {"aktiv", "zur_loeschung", "deleted"}]
         /\ to \notin LeftStates \/ TakesBack(person, to, today) =>
              person'.status \notin LeftStates /\ person'.leftAt = NoDay
  <1>1. /\ person' \in PersonRow
        /\ to \notin LeftStates \/ TakesBack(person, to, today) =>
              person'.status \notin LeftStates /\ person'.leftAt = NoDay
    BY RowTyped, MovedRow DEF TransitionMember
  <1>2. card' \in {"none", "aktiv", "austritt", "manuell"}
    BY DEF TransitionMember, CardAfter, MembershipTypeOK
  <1>3. proof' \in [until: 0..(LastDay + 1 + KeepDays), status: {"aktiv", "zur_loeschung", "deleted"}]
    <2>1. person'.leftAt \in Days \cup {NoDay}
      BY <1>1 DEF PersonRow
    <2> DEFINE until == IF person'.leftAt = NoDay THEN NoDay ELSE person'.leftAt + KeepDays
    <2>2. until \in 0..(LastDay + 1 + KeepDays)
      BY <2>1, DaysAreNumbers DEF Days
    <2> HIDE DEF until
    <2>3. proof' = IF proof.status = "deleted" THEN proof ELSE [proof EXCEPT !.until = until]
      BY DEF TransitionMember, ProofAfter, until
    <2>4. QED
      BY <2>2, <2>3 DEF MembershipTypeOK
  <1>4. QED
    BY <1>1, <1>2, <1>3

FormFits(r) ==
  r.form \in {"none", [pending |-> "submitted", approved |-> "accepted",
                       rejected |-> "rejected", withdrawn |-> "withdrawn"][r.status]}

LEMMA FormsFit ==
  ASSUME NEW r
  PROVE  /\ r.status = "pending" => (FormFits(r) <=> r.form \in {"none", "submitted"})
         /\ r.status = "approved" => (FormFits(r) <=> r.form \in {"none", "accepted"})
         /\ r.status = "rejected" => (FormFits(r) <=> r.form \in {"none", "rejected"})
         /\ r.status = "withdrawn" => (FormFits(r) <=> r.form \in {"none", "withdrawn"})
  BY DEF FormFits

LEMMA RequestsTyped ==
  ASSUME MembershipTypeOK
  PROVE  /\ Len(requests) \in Nat /\ DOMAIN requests = 1..Len(requests)
         /\ requests \in [1..Len(requests) -> ExitRequest] /\ Len(requests) <= MaxRequests
  BY DEF MembershipTypeOK

LEMMA DecidedFits ==
  ASSUME NEW r \in ExitRequest, NEW status \in {"approved", "rejected", "withdrawn"}
  PROVE  /\ Decided(r, status) \in ExitRequest /\ Decided(r, status).status = status
         /\ FormFits(Decided(r, status))
  <1> DEFINE form == FormAfter(r, status)
  <1>1. form \in {"none", "accepted", "rejected", "withdrawn"}
        /\ (status = "approved" => form \in {"none", "accepted"})
        /\ (status = "rejected" => form \in {"none", "rejected"})
        /\ (status = "withdrawn" => form \in {"none", "withdrawn"})
    BY DEF FormAfter
  <1>2. Decided(r, status) = [r EXCEPT !.status = status, !.form = form]
    BY DEF Decided
  <1> HIDE DEF form
  <1>3. /\ Decided(r, status) \in ExitRequest /\ Decided(r, status).status = status
        /\ Decided(r, status).form = form
    BY <1>1, <1>2 DEF ExitRequest
  <1>4. QED
    BY <1>1, <1>3, FormsFit

\* Requests are decided, or lose the account that made them; none is opened.
Rewrites(f) ==
  /\ f \in [DOMAIN requests -> ExitRequest]
  /\ \A i \in DOMAIN requests :
       FormFits(f[i]) /\ (f[i].status = "pending" => requests[i].status = "pending")

RequestsFit ==
  /\ requests \in Seq(ExitRequest) /\ Len(requests) <= MaxRequests
  /\ OnePending /\ FormFollows

LEMMA FormsOfAll ==
  FormFollows <=> \A i \in DOMAIN requests : FormFits(requests[i])
  BY DEF FormFollows, FormFits

LEMMA RequestsRewritten ==
  ASSUME MembershipInv, Rewrites(requests')
  PROVE  /\ RequestsFit' /\ Pending' \subseteq Pending
         /\ DOMAIN requests' = DOMAIN requests /\ Len(requests') = Len(requests)
  <1>1. /\ Len(requests) \in Nat /\ DOMAIN requests = 1..Len(requests) /\ Len(requests) <= MaxRequests
    BY RequestsTyped DEF MembershipInv
  <1>2. requests' \in [1..Len(requests) -> ExitRequest]
    BY <1>1 DEF Rewrites
  <1>3. requests' \in Seq(ExitRequest) /\ Len(requests') = Len(requests)
        /\ DOMAIN requests' = DOMAIN requests
    BY <1>1, <1>2
  <1>4. Pending' \subseteq Pending
    BY <1>3 DEF Pending, Rewrites
  <1>5. OnePending'
    BY <1>4 DEF MembershipInv, OnePending
  <1>6. FormFollows'
    BY <1>3 DEF Rewrites, FormFollows, FormFits
  <1>7. QED
    BY <1>1, <1>3, <1>4, <1>5, <1>6 DEF RequestsFit

\* A request is filed behind the others; it may be open if no other is.
LEMMA RequestFiled ==
  ASSUME MembershipInv, NEW f, Rewrites(f), NEW r \in ExitRequest, FormFits(r),
         requests' = Append(f, r), Len(requests) < MaxRequests,
         r.status = "pending" => Pending = {}
  PROVE  /\ RequestsFit'
         /\ r.status # "pending" /\ (\A i \in DOMAIN requests : f[i].status # "pending") => Pending' = {}
  <1>1. /\ Len(requests) \in Nat /\ DOMAIN requests = 1..Len(requests)
    BY RequestsTyped DEF MembershipInv
  <1>2. f \in Seq(ExitRequest) /\ Len(f) = Len(requests) /\ DOMAIN f = DOMAIN requests
    BY <1>1 DEF Rewrites
  <1>3. /\ requests' \in Seq(ExitRequest) /\ Len(requests') = Len(requests) + 1
        /\ DOMAIN requests' = 1..(Len(requests) + 1)
        /\ \A i \in DOMAIN requests : requests'[i] = f[i]
        /\ requests'[Len(requests) + 1] = r
    BY <1>1, <1>2
  <1>4. DOMAIN requests' = DOMAIN requests \cup {Len(requests) + 1}
    BY <1>1, <1>3
  <1>5. FormFollows'
    BY <1>3, <1>4 DEF Rewrites, FormFollows, FormFits
  <1>6. OnePending'
    BY <1>3, <1>4 DEF Rewrites, OnePending, Pending, MembershipInv
  <1>7. r.status # "pending" /\ (\A i \in DOMAIN requests : f[i].status # "pending") => Pending' = {}
    BY <1>3, <1>4 DEF Pending
  <1>8. Len(requests') <= MaxRequests
    BY <1>1, <1>3, DaysAreNumbers
  <1>9. QED
    BY <1>3, <1>5, <1>6, <1>7, <1>8 DEF RequestsFit

LEMMA SupersededRewrites ==
  ASSUME MembershipInv
  PROVE  /\ Rewrites(Superseded)
         /\ \A i \in DOMAIN requests : Superseded[i].status # "pending"
  <1> SUFFICES ASSUME NEW i \in DOMAIN requests
               PROVE  /\ Superseded[i] \in ExitRequest /\ FormFits(Superseded[i])
                      /\ Superseded[i].status # "pending"
    BY DEF Superseded, Rewrites
  <1>1. requests[i] \in ExitRequest /\ FormFits(requests[i])
    BY RequestsTyped, FormsOfAll DEF MembershipInv
  <1>2. CASE i \in Pending
    BY <1>1, <1>2, DecidedFits DEF Superseded
  <1>3. CASE i \notin Pending
    BY <1>1, <1>3 DEF Superseded, Pending
  <1>4. QED
    BY <1>2, <1>3

\* One request is decided.
LEMMA OneDecided ==
  ASSUME MembershipInv, NEW i \in DOMAIN requests, NEW r \in ExitRequest,
         NEW status \in {"approved", "rejected", "withdrawn"},
         requests' = [requests EXCEPT ![i] = Decided(r, status)]
  PROVE  Rewrites(requests') /\ i \notin Pending'
  <1> DEFINE new == Decided(r, status)
  <1>1. new \in ExitRequest /\ new.status = status /\ FormFits(new)
    BY DecidedFits
  <1> HIDE DEF new
  <1>2. requests' = [requests EXCEPT ![i] = new]
    BY DEF new
  <1>3. /\ DOMAIN requests' = DOMAIN requests
        /\ requests' \in [DOMAIN requests -> ExitRequest] /\ requests'[i] = new
        /\ \A j \in DOMAIN requests \ {i} : requests'[j] = requests[j]
    BY <1>1, <1>2, RequestsTyped DEF MembershipInv
  <1>4. \A j \in DOMAIN requests : FormFits(requests[j])
    BY FormsOfAll DEF MembershipInv
  <1>5. QED
    BY <1>1, <1>3, <1>4 DEF Rewrites, Pending

\* A step that leaves the calls on their way as they were, or ends one.
CallGoes ==
  \/ exitCall' = NoExitCall
  \/ exitCall' = exitCall /\ DOMAIN requests' = DOMAIN requests /\ Len(requests') = Len(requests)

LEMMA CallStillFits ==
  ASSUME MembershipInv, CallGoes
  PROVE  CallFits'
  <1>1. CASE exitCall' = NoExitCall
    BY <1>1 DEF CallFits, NoExitCall
  <1>2. CASE exitCall' = exitCall /\ DOMAIN requests' = DOMAIN requests /\ Len(requests') = Len(requests)
    <2>1. ApproveCall' = ApproveCall
      BY <1>2 DEF ApproveCall
    <2>2. QED
      BY <1>2, <2>1 DEF MembershipInv, CallFits
  <1>3. QED
    BY <1>1, <1>2 DEF CallGoes

LEMMA CallIsTyped ==
  ASSUME CallFits
  PROVE  exitCall.op \in {"none", "request", "record", "approve"}
  BY DEF CallFits, NoExitCall, AskCall, RecordCall, ApproveCall

\* What every action leaves typed, put together.
LEMMA MembershipKept ==
  ASSUME MembershipInv, day' \in Today, day <= day', noticeSetting' \in NoticePeriods,
         person' \in PersonRow, RequestsFit', CallFits',
         card' \in {"none", "aktiv", "austritt", "manuell"},
         proof' \in [until: 0..(LastDay + 1 + KeepDays), status: {"aktiv", "zur_loeschung", "deleted"}],
         announced' \subseteq due', due' \subseteq Days, due' \subseteq 1..day',
         personMoves' \in 0..MaxPersonMoves,
         NothingOpen'
  PROVE  MembershipInv'
  <1>1. exitCall'.op \in {"none", "request", "record", "approve"}
    BY DEF CallFits, NoExitCall, AskCall, RecordCall, ApproveCall
  <1>2. MembershipTypeOK'
    BY <1>1 DEF MembershipTypeOK, RequestsFit, PersonRow, Today
  <1>3. QED
    BY <1>2 DEF MembershipInv, RequestsFit

\* Nothing but the call on its way has changed.
LEMMA RowsRest ==
  ASSUME MembershipInv, UNCHANGED requests
  PROVE  RequestsFit' /\ Pending' = Pending /\ DOMAIN requests' = DOMAIN requests
         /\ Len(requests') = Len(requests)
  BY DEF MembershipInv, MembershipTypeOK, RequestsFit, OnePending, FormFollows, Pending

LEMMA OpensCall ==
  ASSUME MembershipInv, NEW call \in AskCall \cup RecordCall \cup ApproveCall,
         exitCall' = call, call.op \in {"request", "record"} => Len(requests) < MaxRequests,
         UNCHANGED <<day, noticeSetting, person, requests, card, proof, due, announced>>,
         personMoves' \in 0..MaxPersonMoves
  PROVE  MembershipInv'
  <1>1. RequestsFit' /\ Pending' = Pending /\ DOMAIN requests' = DOMAIN requests
    BY RowsRest
  <1>2. CallFits'
    BY <1>1 DEF CallFits, ApproveCall
  <1>3. NothingOpen'
    BY <1>1 DEF MembershipInv, NothingOpen
  <1>4. QED
    BY <1>1, <1>2, <1>3, RowTyped, MembershipKept, DaysAreNumbers DEF MembershipInv, MembershipTypeOK, Today

LEMMA AsksKeeps ==
  ASSUME MembershipInv, NEW form \in {"none", "submitted"}, AsksToLeave(form),
         personMoves' \in 0..MaxPersonMoves
  PROVE  MembershipInv'
  <1> DEFINE call == [op |-> "request", day |-> day, form |-> form]
  <1>1. call \in AskCall
    BY RowTyped DEF MembershipInv, AskCall
  <1>2. exitCall' = call /\ Len(requests) < MaxRequests
        /\ UNCHANGED <<day, noticeSetting, person, requests, card, proof, due, announced>>
    BY DEF AsksToLeave
  <1> HIDE DEF call
  <1>3. QED
    BY <1>1, <1>2, OpensCall

LEMMA RecordsKeeps ==
  ASSUME MembershipInv, NEW by \in Officers, NEW kind \in {"cancellation", "exclusion"}, NEW d \in Days,
         NEW form \in {"none", "submitted"}, RecordsExit(by, kind, d, form),
         personMoves' \in 0..MaxPersonMoves
  PROVE  MembershipInv'
  <1> DEFINE call == [op |-> "record", day |-> day, by |-> by, kind |-> kind,
                      effectiveOn |-> d, form |-> form]
  <1>1. call \in RecordCall
    BY RowTyped DEF MembershipInv, RecordCall
  <1>2. exitCall' = call /\ Len(requests) < MaxRequests
        /\ UNCHANGED <<day, noticeSetting, person, requests, card, proof, due, announced>>
    BY DEF RecordsExit
  <1> HIDE DEF call
  <1>3. QED
    BY <1>1, <1>2, OpensCall

LEMMA StartsApprovalKeeps ==
  ASSUME MembershipInv, NEW i \in DOMAIN requests, NEW by \in Officers, NEW d \in Days,
         StartsApproval(i, by, d), personMoves' \in 0..MaxPersonMoves
  PROVE  MembershipInv'
  <1> DEFINE call == [op |-> "approve", day |-> day, request |-> i, effectiveOn |-> d]
  <1>1. call \in ApproveCall /\ call.op = "approve"
    BY RowTyped DEF MembershipInv, ApproveCall
  <1>2. exitCall' = call
        /\ UNCHANGED <<day, noticeSetting, person, requests, card, proof, due, announced>>
    BY DEF StartsApproval
  <1> HIDE DEF call
  <1>3. QED
    BY <1>1, <1>2, OpensCall

\* The member's own request: only whoever neither has left nor is about to files one.
LEMMA FilesRequestKeeps ==
  ASSUME MembershipInv, FilesRequest, UNCHANGED personMoves
  PROVE  MembershipInv'
  <1> DEFINE r == Request("cancellation", IF person.account = "linked" THEN Member ELSE NoOfficer,
                          exitCall.day, NoDay, "pending", exitCall.form)
  <1>0. exitCall \in AskCall /\ Len(requests) < MaxRequests
    BY DEF FilesRequest, MembershipInv, CallFits, NoExitCall, AskCall, RecordCall, ApproveCall
  <1>1. r \in ExitRequest /\ r.status = "pending" /\ r.form \in {"none", "submitted"}
    BY <1>0, DaysAreNumbers DEF Request, ExitRequest, AskCall
  <1>2. requests' = Append(requests, r) /\ exitCall' = NoExitCall /\ CanLeave(person, exitCall.day)
        /\ UNCHANGED <<day, noticeSetting, person, card, proof, due, announced>>
    BY DEF FilesRequest
  <1> HIDE DEF r
  <1>3. FormFits(r)
    BY <1>1, FormsFit
  <1>4. Rewrites(requests)
    BY RequestsTyped, FormsOfAll DEF MembershipInv, Rewrites
  <1>5. Pending = {} /\ person.status \notin LeftStates /\ person.leftAt = NoDay
    <2>1. /\ ~HasLeft(person, exitCall.day) /\ ~HasScheduledExit(person, exitCall.day) /\ Pending = {}
      BY <1>2 DEF CanLeave
    <2>2. person.status \notin LeftStates
      BY <2>1, Statuses DEF HasLeft, EffectiveStatus
    <2>3. person.leftAt \in Nat /\ exitCall.day \in Nat
      <3>1. Days \cup {NoDay} \subseteq Nat /\ Today \subseteq Nat
        BY DaysAreNumbers
      <3>2. person.leftAt \in Days \cup {NoDay} /\ exitCall.day \in Today
        BY <1>0, RowTyped DEF MembershipInv, PersonRow, AskCall
      <3>3. QED
        BY <3>1, <3>2
    <2>4. person.leftAt = NoDay
      BY <2>1, <2>2, <2>3, Statuses DEF HasLeft, EffectiveStatus, HasScheduledExit
    <2>5. QED
      BY <2>1, <2>2, <2>4
  <1>6. RequestsFit'
    BY <1>0, <1>1, <1>2, <1>3, <1>4, <1>5, RequestFiled
  <1>7. CallFits'
    BY <1>2, CallStillFits DEF CallGoes
  <1>8. NothingOpen'
    BY <1>2, <1>5 DEF NothingOpen
  <1>9. QED
    BY <1>2, <1>6, <1>7, <1>8, RowTyped, MembershipKept, DaysAreNumbers
       DEF MembershipInv, MembershipTypeOK, Today

\* A change of status keeps the invariant if an exit leaves no request open.
LEMMA TransitionKeeps ==
  ASSUME MembershipInv, NEW to \in DOMAIN Allowed, NEW on \in Days, NEW today \in Today,
         TransitionMember(to, on, today), RequestsFit', CallFits',
         to \in LeftStates /\ ~TakesBack(person, to, today) => Pending' = {},
         UNCHANGED <<day, noticeSetting, due, announced>>, personMoves' \in 0..MaxPersonMoves
  PROVE  MembershipInv'
  <1>1. /\ person' \in PersonRow
        /\ card' \in {"none", "aktiv", "austritt", "manuell"}
        /\ proof' \in [until: 0..(LastDay + 1 + KeepDays), status: {"aktiv", "zur_loeschung", "deleted"}]
        /\ to \notin LeftStates \/ TakesBack(person, to, today) =>
              person'.status \notin LeftStates /\ person'.leftAt = NoDay
    BY TransitionTypes DEF MembershipInv
  <1>2. NothingOpen'
    BY <1>1 DEF NothingOpen
  <1>3. day' \in Today /\ day <= day' /\ due' \subseteq 1..day'
    BY RowTyped, DaysAreNumbers DEF MembershipInv, Today
  <1>4. noticeSetting' \in NoticePeriods /\ announced' \subseteq due' /\ due' \subseteq Days
    BY DEF MembershipInv, MembershipTypeOK
  <1>5. QED
    BY <1>1, <1>2, <1>3, <1>4, MembershipKept

\* What the board records: a cancellation finds nothing open, an exclusion closes it.
LEMMA FilesRecordKeeps ==
  ASSUME MembershipInv, FilesRecord, UNCHANGED personMoves
  PROVE  MembershipInv'
  <1> DEFINE r == Request(exitCall.kind, exitCall.by, exitCall.day, exitCall.effectiveOn, "approved",
                          RecordedForm(exitCall.form))
             f == IF exitCall.kind = "exclusion" THEN Superseded ELSE requests
             to == IF exitCall.kind = "exclusion" THEN "ausgeschlossen" ELSE "ausgetreten"
  <1>0. exitCall \in RecordCall /\ Len(requests) < MaxRequests
    BY DEF FilesRecord, MembershipInv, CallFits, NoExitCall, AskCall, RecordCall, ApproveCall
  <1>1. r \in ExitRequest /\ r.status = "approved" /\ r.form \in {"none", "accepted"}
    BY <1>0, DaysAreNumbers DEF Request, ExitRequest, RecordCall, RecordedForm
  <1>2. /\ requests' = Append(f, r) /\ exitCall' = NoExitCall
        /\ exitCall.kind = "exclusion" \/ Pending = {}
        /\ TransitionMember(to, exitCall.effectiveOn, exitCall.day)
        /\ UNCHANGED <<day, noticeSetting, due, announced>>
    BY <1>0 DEF FilesRecord, RecordCall, CanLeave
  <1>3. to \in DOMAIN Allowed
    BY Statuses
  <1>4. Rewrites(f) /\ \A i \in DOMAIN requests : f[i].status # "pending"
    <2>1. CASE exitCall.kind = "exclusion"
      BY <2>1, SupersededRewrites
    <2>2. CASE exitCall.kind # "exclusion"
      <3>1. Rewrites(requests)
        BY RequestsTyped, FormsOfAll DEF MembershipInv, Rewrites
      <3>2. QED
        BY <3>1, <2>2, <1>2 DEF Pending
    <2>3. QED
      BY <2>1, <2>2
  <1> HIDE DEF r, f, to
  <1>5. FormFits(r)
    BY <1>1, FormsFit
  <1>6. RequestsFit' /\ Pending' = {}
    BY <1>0, <1>1, <1>2, <1>4, <1>5, RequestFiled
  <1>7. CallFits'
    BY <1>2, CallStillFits DEF CallGoes
  <1>8. exitCall.effectiveOn \in Days /\ exitCall.day \in Today /\ personMoves' \in 0..MaxPersonMoves
    BY <1>0 DEF RecordCall, MembershipInv, MembershipTypeOK
  <1>9. QED
    BY <1>2, <1>3, <1>6, <1>7, <1>8, TransitionKeeps

\* An approval decides the only open request.
LEMMA ApprovesKeeps ==
  ASSUME MembershipInv, Approves, UNCHANGED personMoves
  PROVE  MembershipInv'
  <1> DEFINE i == exitCall.request
             r == [requests[i] EXCEPT !.effectiveOn = exitCall.effectiveOn]
  <1>0. exitCall \in ApproveCall
    BY DEF Approves, MembershipInv, CallFits, NoExitCall, AskCall, RecordCall, ApproveCall
  <1>1. i \in DOMAIN requests /\ exitCall.effectiveOn \in Days /\ exitCall.day \in Today
    BY <1>0 DEF ApproveCall
  <1>2. requests[i] \in ExitRequest
    BY <1>1, RequestsTyped DEF MembershipInv
  <1>3. r \in ExitRequest
    BY <1>1, <1>2 DEF ExitRequest
  <1>4. /\ requests[i].status = "pending" /\ exitCall' = NoExitCall
        /\ requests' = [requests EXCEPT ![i] = Decided(r, "approved")]
        /\ TransitionMember("ausgetreten", exitCall.effectiveOn, exitCall.day)
        /\ UNCHANGED <<day, noticeSetting, due, announced>>
    BY DEF Approves
  <1>5. Pending \subseteq {i}
    BY <1>1, <1>4 DEF MembershipInv, OnePending, Pending
  <1> HIDE DEF i, r
  <1>6. Rewrites(requests') /\ i \notin Pending'
    BY <1>1, <1>3, <1>4, OneDecided
  <1>7. RequestsFit' /\ Pending' = {}
    BY <1>5, <1>6, RequestsRewritten
  <1>8. CallFits'
    BY <1>4, CallStillFits DEF CallGoes
  <1>9. personMoves' \in 0..MaxPersonMoves /\ "ausgetreten" \in DOMAIN Allowed
    BY Statuses DEF MembershipInv, MembershipTypeOK
  <1>10. QED
    BY <1>1, <1>4, <1>7, <1>8, <1>9, TransitionKeeps

\* A step that decides requests, or ends a call, and leaves the row alone.
LEMMA DecisionKeeps ==
  ASSUME MembershipInv, Rewrites(requests'), CallGoes,
         UNCHANGED <<day, noticeSetting, person, card, proof, due, announced>>,
         personMoves' \in 0..MaxPersonMoves
  PROVE  MembershipInv'
  <1>1. RequestsFit' /\ Pending' \subseteq Pending
    BY RequestsRewritten
  <1>2. CallFits'
    BY CallStillFits
  <1>3. NothingOpen'
    BY <1>1 DEF MembershipInv, NothingOpen
  <1>4. QED
    BY <1>1, <1>2, <1>3, RowTyped, MembershipKept, DaysAreNumbers DEF MembershipInv, MembershipTypeOK, Today

LEMMA RequestsRewriteThemselves ==
  ASSUME MembershipInv, UNCHANGED requests
  PROVE  Rewrites(requests')
  BY RequestsTyped, FormsOfAll DEF MembershipInv, Rewrites

LEMMA CallFailsKeeps ==
  ASSUME MembershipInv, CallFails, UNCHANGED personMoves
  PROVE  MembershipInv'
  <1>1. /\ exitCall' = NoExitCall
        /\ UNCHANGED <<day, noticeSetting, person, requests, card, proof, due, announced>>
    BY DEF CallFails
  <1>2. personMoves' \in 0..MaxPersonMoves
    BY DEF MembershipInv, MembershipTypeOK
  <1>3. QED
    BY <1>1, <1>2, RequestsRewriteThemselves, DecisionKeeps DEF CallGoes

LEMMA RejectsKeeps ==
  ASSUME MembershipInv, NEW i \in DOMAIN requests, RejectsExit(i), personMoves' \in 0..MaxPersonMoves
  PROVE  MembershipInv'
  <1>1. requests[i] \in ExitRequest
    BY RequestsTyped DEF MembershipInv
  <1>2. /\ requests' = [requests EXCEPT ![i] = Decided(requests[i], "rejected")]
        /\ UNCHANGED <<day, noticeSetting, person, exitCall, card, proof, due, announced>>
    BY DEF RejectsExit
  <1>3. Rewrites(requests')
    BY <1>1, <1>2, OneDecided
  <1>4. CallGoes
    BY <1>2, <1>3, RequestsRewritten DEF CallGoes
  <1>5. QED
    BY <1>2, <1>3, <1>4, DecisionKeeps

\* Withdrawing what is approved takes the scheduled exit back.
LEMMA WithdrawsKeeps ==
  ASSUME MembershipInv, NEW i \in DOMAIN requests, WithdrawsExit(i), personMoves' \in 0..MaxPersonMoves
  PROVE  MembershipInv'
  <1>1. requests[i] \in ExitRequest
    BY RequestsTyped DEF MembershipInv
  <1>2. /\ requests' = [requests EXCEPT ![i] = Decided(requests[i], "withdrawn")]
        /\ UNCHANGED <<day, noticeSetting, exitCall, due, announced>>
    BY DEF WithdrawsExit
  <1>3. Rewrites(requests')
    BY <1>1, <1>2, OneDecided
  <1>4. CallGoes /\ RequestsFit'
    BY <1>2, <1>3, RequestsRewritten DEF CallGoes
  <1>5. CASE UNCHANGED <<person, card, proof>>
    BY <1>2, <1>3, <1>4, <1>5, DecisionKeeps
  <1>6. CASE HasScheduledExit(person, day) /\ TransitionMember(person.status, day, day)
    <2>1. TakesBack(person, person.status, day)
      BY <1>6 DEF TakesBack
    <2>2. person.status \in DOMAIN Allowed /\ day \in Days /\ day \in Today
      BY RowTyped, DaysAreNumbers DEF MembershipInv, PersonRow
    <2>3. CallFits'
      BY <1>4, CallStillFits
    <2>4. QED
      BY <1>2, <1>4, <1>6, <2>1, <2>2, <2>3, TransitionKeeps
  <1>7. QED
    BY <1>5, <1>6 DEF WithdrawsExit

LEMMA StatusMovesKeeps ==
  ASSUME MembershipInv, NEW to \in DOMAIN Allowed, NEW d \in Days, StatusMoves(to, d),
         personMoves' \in 0..MaxPersonMoves
  PROVE  MembershipInv'
  <1>1. /\ TransitionMember(to, d, day)
        /\ requests' = IF ClosesRequests(person, to, day) THEN Superseded ELSE requests
        /\ UNCHANGED <<day, noticeSetting, exitCall, due, announced>>
    BY DEF StatusMoves
  <1>2. Rewrites(requests')
    <2>1. CASE ClosesRequests(person, to, day)
      <3>1. requests' = Superseded
        BY <1>1, <2>1
      <3>2. QED
        BY <3>1, SupersededRewrites
    <2>2. CASE ~ClosesRequests(person, to, day)
      BY <1>1, <2>2, RequestsRewriteThemselves
    <2>3. QED
      BY <2>1, <2>2
  <1>3. CallGoes /\ RequestsFit' /\ DOMAIN requests' = DOMAIN requests
    BY <1>1, <1>2, RequestsRewritten DEF CallGoes
  <1>4. to \in LeftStates /\ ~TakesBack(person, to, day) => Pending' = {}
    <2>1. SUFFICES ASSUME to \in LeftStates, ~TakesBack(person, to, day) PROVE Pending' = {}
      OBVIOUS
    <2>2. requests' = Superseded
      BY <1>1, <2>1 DEF ClosesRequests
    <2>3. QED
      BY <1>3, <2>2, SupersededRewrites DEF Pending
  <1>5. CallFits' /\ day \in Today
    BY <1>3, CallStillFits, RowTyped DEF MembershipInv
  <1>6. QED
    BY <1>1, <1>3, <1>4, <1>5, TransitionKeeps

\* The row loses its account: the requests keep what they are.
LEMMA AccountEndsKeeps ==
  ASSUME MembershipInv, AccountEnds, personMoves' \in 0..MaxPersonMoves
  PROVE  MembershipInv'
  <1>1. /\ person' = [person EXCEPT !.account = "removed"]
        /\ requests' = [i \in DOMAIN requests |->
                          [requests[i] EXCEPT !.by = IF requests[i].by = Member THEN NoOfficer ELSE requests[i].by]]
        /\ UNCHANGED <<day, noticeSetting, exitCall, card, proof, due, announced>>
    BY DEF AccountEnds
  <1>2. Rewrites(requests')
    <2>1. \A i \in DOMAIN requests : requests[i] \in ExitRequest /\ FormFits(requests[i])
      BY RequestsTyped, FormsOfAll DEF MembershipInv
    <2>2. ASSUME NEW i \in DOMAIN requests
          PROVE  /\ requests'[i] \in ExitRequest
                 /\ requests'[i].form = requests[i].form /\ requests'[i].status = requests[i].status
      BY <1>1, <2>1 DEF ExitRequest
    <2>3. DOMAIN requests' = DOMAIN requests
      BY <1>1
    <2>4. requests' \in [DOMAIN requests -> ExitRequest]
      BY <1>1, <2>2, <2>3
    <2>5. ASSUME NEW i \in DOMAIN requests PROVE FormFits(requests'[i])
      BY <2>1, <2>2 DEF FormFits
    <2>6. QED
      BY <2>2, <2>4, <2>5 DEF Rewrites
  <1>3. CallGoes /\ RequestsFit' /\ Pending' \subseteq Pending
    BY <1>1, <1>2, RequestsRewritten DEF CallGoes
  <1>4. /\ person' \in PersonRow /\ person'.status = person.status /\ person'.leftAt = person.leftAt
        /\ person'.detached = person.detached
    BY <1>1, RowTyped DEF MembershipInv, PersonRow
  <1>5. NothingOpen'
    BY <1>3, <1>4 DEF NothingOpen, MembershipInv
  <1>6. CallFits'
    BY <1>3, CallStillFits
  <1>7. QED
    BY <1>1, <1>3, <1>4, <1>5, <1>6, RowTyped, MembershipKept, DaysAreNumbers
       DEF MembershipInv, MembershipTypeOK, Today

\* A step that touches neither the requests nor the calls on their way.
LEMMA RowStepKeeps ==
  ASSUME MembershipInv, UNCHANGED <<requests, exitCall>>,
         day' \in Today, day <= day', noticeSetting' \in NoticePeriods, person' \in PersonRow,
         \/ UNCHANGED person
         \/ person'.detached
         \/ person'.status \notin LeftStates /\ person'.leftAt = NoDay,
         card' \in {"none", "aktiv", "austritt", "manuell"},
         proof' \in [until: 0..(LastDay + 1 + KeepDays), status: {"aktiv", "zur_loeschung", "deleted"}],
         announced' \subseteq due', due' \subseteq Days, due' \subseteq 1..day',
         personMoves' \in 0..MaxPersonMoves
  PROVE  MembershipInv'
  <1>1. RequestsFit' /\ Pending' = Pending
    BY RowsRest
  <1>2. CallFits'
    BY CallStillFits DEF CallGoes
  <1>3. NothingOpen'
    BY <1>1 DEF NothingOpen, MembershipInv
  <1>4. QED
    BY <1>1, <1>2, <1>3, MembershipKept

LEMMA StateTyped ==
  ASSUME MembershipInv
  PROVE  /\ day \in Today /\ day <= day /\ noticeSetting \in NoticePeriods /\ person \in PersonRow
         /\ card \in {"none", "aktiv", "austritt", "manuell"}
         /\ proof \in [until: 0..(LastDay + 1 + KeepDays), status: {"aktiv", "zur_loeschung", "deleted"}]
         /\ announced \subseteq due /\ due \subseteq Days /\ due \subseteq 1..day
         /\ personMoves \in 0..MaxPersonMoves
  BY RowTyped, DaysAreNumbers DEF MembershipInv, MembershipTypeOK, Today

LEMMA RowStepsKeep ==
  ASSUME MembershipInv, personMoves' \in 0..MaxPersonMoves,
         \/ ClosesExit \/ Rejoins \/ IssuesCard \/ ReissuesCard \/ RevokesCard
         \/ \E rules \in NoticePeriods : ChangesNotice(rules)
  PROVE  MembershipInv'
  <1>1. CASE ClosesExit
    <2>1. person' \in PersonRow /\ person'.detached
      BY <1>1, StateTyped, Statuses, DaysAreNumbers DEF ClosesExit, PersonRow
    <2>2. QED
      BY <1>1, <2>1, StateTyped, RowStepKeeps DEF ClosesExit
  <1>2. CASE Rejoins
    <2>1. person' \in PersonRow /\ person'.status \notin LeftStates /\ person'.leftAt = NoDay
      BY <1>2, Statuses DEF Rejoins, PersonRow
    <2>2. QED
      BY <1>2, <2>1, StateTyped, RowStepKeeps DEF Rejoins
  <1>3. CASE IssuesCard
    BY <1>3, StateTyped, RowStepKeeps DEF IssuesCard
  <1>4. CASE ReissuesCard
    BY <1>4, StateTyped, RowStepKeeps DEF ReissuesCard
  <1>5. CASE RevokesCard
    BY <1>5, StateTyped, RowStepKeeps DEF RevokesCard
  <1>6. CASE \E rules \in NoticePeriods : ChangesNotice(rules)
    BY <1>6, StateTyped, RowStepKeeps DEF ChangesNotice
  <1>7. QED
    BY <1>1, <1>2, <1>3, <1>4, <1>5, <1>6

LEMMA SweepStepsKeep ==
  ASSUME MembershipInv, UNCHANGED personMoves,
         SweepsDocuments \/ SweepsExits \/ (\E d \in due : AnnouncesExit(d)) \/ DayPasses
  PROVE  MembershipInv'
  <1>1. CASE SweepsDocuments
    <2>1. NoDay \in 0..(LastDay + 1 + KeepDays)
      BY DaysAreNumbers
    <2>2. proof' \in [until: 0..(LastDay + 1 + KeepDays), status: {"aktiv", "zur_loeschung", "deleted"}]
      BY <1>1, <2>1, StateTyped DEF SweepsDocuments
    <2>3. QED
      BY <1>1, <2>2, StateTyped, RowStepKeeps DEF SweepsDocuments
  <1>2. CASE SweepsExits
    <2>1. person.leftAt \in Days /\ person.leftAt \in Nat \ {0} /\ person.leftAt <= day
      BY <1>2, StateTyped, DaysAreNumbers DEF SweepsExits, PersonRow
    <2>2. day \in Nat
      BY StateTyped DEF Today
    <2>3. person.leftAt \in 1..day
      BY <2>1, <2>2
    <2>4. due' \subseteq Days /\ due' \subseteq 1..day /\ announced \subseteq due'
      BY <1>2, <2>1, <2>3, StateTyped DEF SweepsExits
    <2>5. QED
      BY <1>2, <2>4, StateTyped, RowStepKeeps DEF SweepsExits
  <1>3. CASE \E d \in due : AnnouncesExit(d)
    BY <1>3, StateTyped, RowStepKeeps DEF AnnouncesExit
  <1>4. CASE DayPasses
    <2>1. day \in Nat /\ day' \in Today /\ day <= day' /\ 1..day \subseteq 1..day'
      BY <1>4, StateTyped, DaysAreNumbers DEF DayPasses, Today
    <2>2. due \subseteq 1..day'
      BY <2>1, StateTyped
    <2>3. QED
      BY <1>4, <2>1, <2>2, StateTyped, RowStepKeeps DEF DayPasses
  <1>5. QED
    BY <1>1, <1>2, <1>3, <1>4

LEMMA MembershipStarts == MembershipInit => MembershipInv
  <1> SUFFICES ASSUME MembershipInit PROVE MembershipInv
    OBVIOUS
  <1>1. day \in 1..LastDay /\ personMoves \in 0..MaxPersonMoves /\ Len(requests) <= MaxRequests
        /\ DOMAIN requests = {} /\ requests \in Seq(ExitRequest)
    BY MembershipAssumption DEF MembershipInit
  <1>2. person \in PersonRow /\ proof \in [until: 0..(LastDay + 1 + KeepDays), status: {"aktiv", "zur_loeschung", "deleted"}]
    BY Statuses, DaysAreNumbers DEF MembershipInit, PersonRow
  <1>3. MembershipTypeOK
    BY <1>1, <1>2 DEF MembershipInit, MembershipTypeOK, PersonRow, NoExitCall
  <1>4. CallFits /\ NothingOpen /\ OnePending /\ FormFollows /\ due \subseteq 1..day
    BY <1>1, Statuses DEF MembershipInit, CallFits, NoExitCall, NothingOpen, OnePending, FormFollows, Pending
  <1>5. QED
    BY <1>3, <1>4 DEF MembershipInv

LEMMA MembershipStepKeeps ==
  MembershipInv /\ [MembershipNext]_membershipVars => MembershipInv'
  <1> SUFFICES ASSUME MembershipInv, [MembershipNext]_membershipVars PROVE MembershipInv'
    OBVIOUS
  <1>1. CASE personMoves < MaxPersonMoves /\ personMoves' = personMoves + 1 /\ Calls
    <2>1. personMoves' \in 0..MaxPersonMoves
      <3>1. MaxPersonMoves \in Nat
        BY MembershipAssumption
      <3>2. QED
        BY <1>1, <3>1, StateTyped
    <2>2. CASE \E form \in {"none", "submitted"} : AsksToLeave(form)
      BY <2>1, <2>2, AsksKeeps
    <2>3. CASE \E by \in Officers, kind \in {"cancellation", "exclusion"}, d \in Days,
                  form \in {"none", "submitted"} : RecordsExit(by, kind, d, form)
      BY <2>1, <2>3, RecordsKeeps
    <2>4. CASE \E i \in DOMAIN requests : OnRequest(i)
      <3>1. PICK i \in DOMAIN requests : OnRequest(i)
        BY <2>4
      <3>2. QED
        BY <2>1, <3>1, RejectsKeeps, WithdrawsKeeps, StartsApprovalKeeps DEF OnRequest
    <2>5. CASE \E to \in DOMAIN Allowed, d \in Days : StatusMoves(to, d)
      BY <2>1, <2>5, StatusMovesKeeps
    <2>6. CASE AccountEnds
      BY <2>1, <2>6, AccountEndsKeeps
    <2>7. CASE \/ ClosesExit \/ Rejoins \/ IssuesCard \/ ReissuesCard \/ RevokesCard
               \/ \E rules \in NoticePeriods : ChangesNotice(rules)
      BY <2>1, <2>7, RowStepsKeep
    <2>8. QED
      BY <1>1, <2>2, <2>3, <2>4, <2>5, <2>6, <2>7 DEF Calls
  <1>2. CASE Proceeds /\ UNCHANGED personMoves
    <2>1. personMoves' \in 0..MaxPersonMoves
      BY <1>2, StateTyped
    <2>2. CASE Files
      BY <1>2, <2>2, FilesRequestKeeps, FilesRecordKeeps, ApprovesKeeps, CallFailsKeeps DEF Files
    <2>3. CASE ClosesExit
      BY <2>1, <2>3, RowStepsKeep
    <2>4. CASE SweepsDocuments \/ SweepsExits \/ (\E d \in due : AnnouncesExit(d)) \/ DayPasses
      BY <1>2, <2>4, SweepStepsKeep
    <2>5. QED
      BY <1>2, <2>2, <2>3, <2>4 DEF Proceeds
  <1>3. CASE UNCHANGED membershipVars
    <2>1. Rewrites(requests')
      BY <1>3, RequestsRewriteThemselves DEF membershipVars
    <2>2. QED
      BY <1>3, <2>1, StateTyped, DecisionKeeps DEF membershipVars, CallGoes
  <1>4. QED
    BY <1>1, <1>2, <1>3 DEF MembershipNext

LEMMA OpenRequestsEndWithTheExit ==
  MembershipInv => MembershipTypeOK /\ NothingOpenOnceLeft /\ FormFollows
  <1> SUFFICES ASSUME MembershipInv PROVE NothingOpenOnceLeft
    BY DEF MembershipInv
  <1>1. HasLeft(person, day) => person.status \in LeftStates \/ person.leftAt # NoDay
    BY DEF HasLeft, EffectiveStatus
  <1>2. QED
    BY <1>1 DEF MembershipInv, NothingOpen, NothingOpenOnceLeft

LEMMA AnnouncedHaveLeft ==
  MembershipInv /\ [MembershipNext]_membershipVars
     => [\A d \in announced' \ announced : HasLeft(person, day) /\ person.leftAt = d]_membershipVars
  <1> SUFFICES ASSUME MembershipInv, MembershipNext, NEW d \in announced' \ announced
               PROVE  HasLeft(person, day) /\ person.leftAt = d
    OBVIOUS
  <1>1. d \in due /\ AnnouncesExit(d)
    <2>1. CASE Calls
      BY <2>1 DEF Calls, OnRequest, AsksToLeave, RecordsExit, RejectsExit, WithdrawsExit, StartsApproval,
                  StatusMoves, AccountEnds, Rejoins, IssuesCard, ReissuesCard, RevokesCard, ChangesNotice
    <2>2. CASE Proceeds
      BY <2>2 DEF Proceeds, Files, FilesRequest, FilesRecord, Approves, CallFails, ClosesExit,
                  SweepsDocuments, SweepsExits, DayPasses, AnnouncesExit
    <2>3. QED
      BY <2>1, <2>2 DEF MembershipNext
  <1>2. person.leftAt = d
    BY <1>1 DEF AnnouncesExit, StillEndsOn
  <1>3. d \in 1..day /\ day \in Nat
    BY <1>1, StateTyped DEF Today
  <1>4. HasLeft(person, day)
    BY <1>2, <1>3, Statuses DEF HasLeft, EffectiveStatus, NoDay
  <1>5. QED
    BY <1>2, <1>4

\* Whoever has left has no request open, the forms follow their requests, and
\* an exit is announced only once the person is gone (lib/member-lifecycle.ts,
\* routes/club-exit-requests.ts, lib/exit-effective.ts).
THEOREM MembershipIsSound == MembershipSpec => MembershipPromise
  <1>1. MembershipInit => MembershipInv
    BY MembershipStarts
  <1>2. MembershipInv /\ [MembershipNext]_membershipVars => MembershipInv'
    BY MembershipStepKeeps
  <1>3. MembershipInv => MembershipTypeOK /\ NothingOpenOnceLeft /\ FormFollows
    BY OpenRequestsEndWithTheExit
  <1>4. MembershipInv /\ [MembershipNext]_membershipVars
          => [\A d \in announced' \ announced : HasLeft(person, day) /\ person.leftAt = d]_membershipVars
    BY AnnouncedHaveLeft
  <1>5. QED
    BY <1>1, <1>2, <1>3, <1>4, PTL DEF MembershipSpec, MembershipPromise, ToldOnceGone

-----------------------------------------------------------------------------
(***************************************************************************)
(* Categories.  Whatever the board rewires, no transition leads back to where *)
(* it starts: where the walk from the new target keeps away from a category,  *)
(* it does so within a set that no transition leaves, and such sets can be     *)
(* united and cut so as to bear witness for every other category too.         *)
(***************************************************************************)
CategoryNotices == [queued: SUBSET Notice, told: SUBSET Notice]

CategoriesInv ==
  /\ CategoriesTypeOK /\ notices \in CategoryNotices
  /\ TransitionsLeadOn /\ NoCircles

\* What a step does to people and notices.
KeepsFromArchived ==
  \A m \in Current : (Usable(people[m].category) /\ ~people'[m].left)
    => ~categories'[people'[m].category].archived
TellsTrue == \A n \in notices'.told \ notices.told : people[n.who].category = n.to

\* A category gets a transition from which nothing leads back to it, others keep
\* theirs or lose them: then there are no circles where there were none.
LEMMA RewiringMakesNoCircle ==
  ASSUME NoCircles, NEW k \in Categories, NEW goes,
         goes # NoCategory => ~LeadsTo(goes, k),
         categories'[k].goes = goes,
         \A l \in Categories \ {k} : categories'[l].goes \in {categories[l].goes, NoCategory}
  PROVE  NoCircles'
<1> DEFINE Onward(l) == categories'[l].goes
<1> DEFINE Kept(set) == \A l \in set : Onward(l) # NoCategory => Onward(l) \in set
<1>1. SUFFICES ASSUME NEW l \in Categories, Onward(l) # NoCategory
               PROVE  \E set \in SUBSET Categories : Kept(set) /\ Onward(l) \in set /\ l \notin set
  BY DEF NoCircles, LeadsTo, ClosedSets
<1>2. \A set \in ClosedSets : k \notin set => Kept(set)
  BY DEF ClosedSets
<1>3. goes # NoCategory => \E near \in ClosedSets : goes \in near /\ k \notin near
  BY DEF LeadsTo
<1>4. CASE l = k
  BY <1>1, <1>2, <1>3, <1>4 DEF ClosedSets
<1>5. CASE l # k
  <2>1. Onward(l) = categories[l].goes /\ ~LeadsTo(Onward(l), l)
    BY <1>1, <1>5 DEF NoCircles
  <2>2. PICK far \in ClosedSets : Onward(l) \in far /\ l \notin far
    BY <2>1 DEF LeadsTo
  <2>3. CASE k \notin far \/ goes = NoCategory
    <3>1. Kept(far)
      BY <1>2, <2>3 DEF ClosedSets
    <3>2. QED
      BY <2>2, <3>1 DEF ClosedSets
  <2>4. CASE k \in far /\ goes # NoCategory
    <3>1. PICK near \in ClosedSets : goes \in near /\ k \notin near
      BY <1>3, <2>4
    <3>2. Kept(near \cup far)
      BY <3>1 DEF ClosedSets
    <3>3. Kept(near \cap far)
      BY <3>1 DEF ClosedSets
    <3>4. l \in near => Onward(l) \in near
      BY <1>1, <1>2, <3>1
    <3>5. CASE l \in near
      BY <2>2, <3>1, <3>3, <3>4, <3>5 DEF ClosedSets
    <3>6. CASE l \notin near
      BY <2>2, <3>1, <3>2, <3>6 DEF ClosedSets
    <3>7. QED
      BY <3>5, <3>6
  <2>5. QED
    BY <2>3, <2>4
<1>6. QED
  BY <1>4, <1>5

LEMMA CategoriesKeepCircles ==
  ASSUME CategoriesInv, UNCHANGED categories
  PROVE  TransitionsLeadOn' /\ NoCircles'
BY DEF CategoriesInv, TransitionsLeadOn, NoCircles, LeadsTo, ClosedSets, Usable

LEMMA CategoriesStartSound == CategoriesInit => CategoriesInv
<1> SUFFICES ASSUME CategoriesInit PROVE CategoriesInv
  OBVIOUS
<1>1. \A k \in Categories : categories[k].goes = NoCategory
  BY DEF CategoriesInit, Unmade
<1>2. categories \in [Categories -> Category]
  BY CategoriesAssumption DEF CategoriesInit, Unmade, Category, NoLimitOfAge
<1>3. CategoriesTypeOK /\ notices \in CategoryNotices
  BY <1>2, CategoriesAssumption DEF CategoriesInit, CategoriesTypeOK, CategoryNotices, Years
<1>4. QED
  BY <1>1, <1>3 DEF CategoriesInv, TransitionsLeadOn, NoCircles

\* The board's calls about a category.
LEMMA CategoryCallsKeep ==
  ASSUME CategoriesInv, NEW k \in Categories, OnCategory(k)
  PROVE  /\ CategoriesInv' /\ UNCHANGED notices
         /\ KeepsFromArchived
<1>1. /\ categories \in [Categories -> Category]
      /\ people \in [Members -> [category: Categories, born: Years, left: BOOLEAN]]
      /\ categoryEdits' \in 0..MaxCategoryEdits /\ UNCHANGED <<year, notices>>
  <2>1. EditCategory /\ UNCHANGED <<year, notices>>
    BY DEF OnCategory, CreatesCategory, ChangesCategory, ArchivesCategory
  <2>2. QED
    BY <2>1, CategoriesAssumption DEF CategoriesInv, CategoriesTypeOK, EditCategory
<1>2. ASSUME NEW upTo \in Years \cup {NoLimitOfAge}, NEW goes \in Categories \cup {NoCategory},
             CreatesCategory(k, upTo, goes) \/ ChangesCategory(k, upTo, goes)
      PROVE  /\ CategoriesInv'
             /\ KeepsFromArchived
  <2>1. categories' \in [Categories -> Category] /\ UNCHANGED people
    <3>1. CASE CreatesCategory(k, upTo, goes)
      BY <1>1, <3>1 DEF CreatesCategory, Category, Unmade
    <3>2. CASE ChangesCategory(k, upTo, goes)
      BY <1>1, <3>2 DEF ChangesCategory, Category
    <3>3. QED
      BY <1>2, <3>1, <3>2
  <2>2. /\ categories'[k].goes = goes
        /\ \A l \in Categories : Usable(l) => Usable(l)'
        /\ \A l \in Categories \ {k} : categories'[l] = categories[l]
        /\ \A l \in Categories : Usable(l) => ~categories'[l].archived
    <3>1. CASE CreatesCategory(k, upTo, goes)
      BY <1>1, <3>1 DEF CreatesCategory, Category, Unmade, Usable
    <3>2. CASE ChangesCategory(k, upTo, goes)
      BY <1>1, <3>2 DEF ChangesCategory, Category, Usable
    <3>3. QED
      BY <1>2, <3>1, <3>2
  <2>3. goes # NoCategory => ~LeadsTo(goes, k) /\ Usable(goes)
    BY <1>2 DEF CreatesCategory, ChangesCategory, RulesAllow, CategoriesInv, NoCircles, TransitionsLeadOn
  <2>4. NoCircles'
    BY <2>2, <2>3, RewiringMakesNoCircle DEF CategoriesInv
  <2>5. TransitionsLeadOn'
    BY <2>2, <2>3, <2>1 DEF CategoriesInv, TransitionsLeadOn, Category
  <2>6. QED
    BY <1>1, <2>1, <2>2, <2>4, <2>5 DEF CategoriesInv, CategoriesTypeOK, Current, KeepsFromArchived
<1>3. ASSUME NEW moveTo \in Categories \cup {NoCategory}, ArchivesCategory(k, moveTo)
      PROVE  /\ CategoriesInv'
             /\ KeepsFromArchived
  <2>1. categories' \in [Categories -> Category]
    BY <1>1, <1>3, CategoriesAssumption DEF ArchivesCategory, Category
  <2>2. \A l \in Categories :
          /\ categories'[l].goes = IF categories[l].goes = k THEN NoCategory ELSE categories[l].goes
          /\ categories'[l].made = categories[l].made
          /\ categories'[l].archived = (categories[l].archived \/ l = k)
    BY <1>1, <1>3 DEF ArchivesCategory, Category
  <2>3. people' \in [Members -> [category: Categories, born: Years, left: BOOLEAN]]
    BY <1>1, <1>3 DEF ArchivesCategory, Current
  <2>4. TransitionsLeadOn'
    BY <1>1, <2>2, CategoriesAssumption DEF CategoriesInv, TransitionsLeadOn, Usable, Category
  <2>5. categories'[k].goes # NoCategory => ~LeadsTo(categories'[k].goes, k)
    BY <2>2 DEF CategoriesInv, NoCircles
  <2>6. NoCircles'
    BY <2>2, <2>5, RewiringMakesNoCircle DEF CategoriesInv
  <2>7. ASSUME NEW m \in Current, Usable(people[m].category)
        PROVE  ~categories'[people'[m].category].archived
    <3>1. CASE people[m].category = k
      <4>1. moveTo \in Categories \ {k} /\ Usable(moveTo) /\ people'[m].category = moveTo
        BY <1>1, <1>3, <2>7, <3>1 DEF ArchivesCategory, Current
      <4>2. QED
        BY <2>2, <4>1 DEF Usable
    <3>2. CASE people[m].category # k
      <4>1. people'[m].category = people[m].category /\ people[m].category \in Categories
        BY <1>1, <1>3, <2>7, <3>2 DEF ArchivesCategory, Current
      <4>2. QED
        BY <2>2, <2>7, <3>2, <4>1 DEF Usable
    <3>3. QED
      BY <3>1, <3>2
  <2>8. QED
    BY <1>1, <2>1, <2>3, <2>4, <2>6, <2>7 DEF CategoriesInv, CategoriesTypeOK, KeepsFromArchived
<1>4. QED
  BY <1>1, <1>2, <1>3 DEF OnCategory

\* The board's calls about a member.
LEMMA MemberCallsKeep ==
  ASSUME CategoriesInv, NEW m \in Members, OnMember(m)
  PROVE  /\ CategoriesInv' /\ UNCHANGED <<categories, notices>>
         /\ KeepsFromArchived
<1>1. /\ people \in [Members -> [category: Categories, born: Years, left: BOOLEAN]]
      /\ categoryEdits' \in 0..MaxCategoryEdits /\ UNCHANGED <<categories, year, notices>>
  BY CategoriesAssumption
     DEF CategoriesInv, CategoriesTypeOK, OnMember, LeavesClub, MovesMember, ComesBack, CorrectsBirth, EditCategory
<1>2. people' \in [Members -> [category: Categories, born: Years, left: BOOLEAN]]
  BY <1>1 DEF OnMember, LeavesClub, MovesMember, ComesBack, CorrectsBirth
<1>3. \A x \in Current : people'[x].category = people[x].category \/ Usable(people'[x].category) \/ people'[x].left
  BY <1>1 DEF OnMember, LeavesClub, MovesMember, ComesBack, CorrectsBirth, Current
<1>4. QED
  BY <1>1, <1>2, <1>3, CategoriesKeepCircles DEF CategoriesInv, CategoriesTypeOK, Usable, KeepsFromArchived

\* The sweep, and the suggestions the board ticked.
LEMMA AgeTransitionKeeps ==
  ASSUME CategoriesInv, NEW chosen \in SUBSET Members, Transition(chosen), categoryEdits' \in 0..MaxCategoryEdits
  PROVE  /\ CategoriesInv' /\ notices'.told = notices.told /\ UNCHANGED categories
         /\ KeepsFromArchived
<1>1. /\ people \in [Members -> [category: Categories, born: Years, left: BOOLEAN]]
      /\ categories \in [Categories -> Category]
      /\ UNCHANGED <<categories, year>> /\ year \in Years
      /\ notices \in CategoryNotices
  BY DEF CategoriesInv, CategoriesTypeOK, Transition
<1>2. \A m \in DueForTransition : /\ people[m].category \in Categories
                                  /\ categories[people[m].category].goes \in Categories
                                  /\ Usable(categories[people[m].category].goes)
  BY <1>1 DEF DueForTransition, Suggested, Category
<1>3. people' \in [Members -> [category: Categories, born: Years, left: BOOLEAN]]
  BY <1>1, <1>2 DEF Transition
<1>4. \A m \in Members : people'[m].category = people[m].category \/ Usable(people'[m].category)
  BY <1>1, <1>2 DEF Transition
<1>5. notices' \in CategoryNotices /\ notices'.told = notices.told
  <2>1. PICK new : /\ new = {[who |-> m, to |-> categories[people[m].category].goes, in |-> year] :
                              m \in DueForTransition \cap chosen}
                   /\ notices' = [notices EXCEPT !.queued = @ \cup (new \ notices.told)]
    BY DEF Transition
  <2>2. new \subseteq Notice
    BY <1>1, <1>2, <2>1 DEF Notice, DueForTransition
  <2>3. QED
    BY <1>1, <2>1, <2>2 DEF CategoryNotices
<1>6. QED
  BY <1>1, <1>3, <1>4, <1>5, CategoriesKeepCircles DEF CategoriesInv, CategoriesTypeOK, CategoryNotices, Usable, Current,
         KeepsFromArchived

LEMMA TellingKeeps ==
  ASSUME CategoriesInv, NEW n \in notices.queued, TellsTransition(n)
  PROVE  /\ CategoriesInv' /\ UNCHANGED <<categories, people>>
         /\ TellsTrue
<1>1. notices' \in CategoryNotices
  BY DEF CategoriesInv, CategoryNotices, TellsTransition
<1>2. TellsTrue
  BY DEF TellsTransition, StillIn, TellsTrue
<1>3. QED
  BY <1>1, <1>2, CategoriesKeepCircles DEF CategoriesInv, CategoriesTypeOK, CategoryNotices, TellsTransition

LEMMA CategoryStepKeeps ==
  ASSUME CategoriesInv, CategoriesNext
  PROVE  CategoriesInv' /\ KeepsFromArchived /\ TellsTrue
<1>1. ASSUME NEW k \in Categories, OnCategory(k) PROVE CategoriesInv' /\ KeepsFromArchived /\ TellsTrue
  BY <1>1, CategoryCallsKeep DEF TellsTrue
<1>2. ASSUME NEW m \in Members, OnMember(m) PROVE CategoriesInv' /\ KeepsFromArchived /\ TellsTrue
  BY <1>2, MemberCallsKeep DEF TellsTrue
<1>3. ASSUME NEW chosen \in SUBSET Members, AppliesSuggestions(chosen) \/ SweepsAges
      PROVE  CategoriesInv' /\ KeepsFromArchived /\ TellsTrue
  <2>1. categoryEdits' \in 0..MaxCategoryEdits
    BY <1>3, CategoriesAssumption
       DEF AppliesSuggestions, SweepsAges, EditCategory, CategoriesInv, CategoriesTypeOK
  <2>2. Transition(chosen) \/ Transition(Members)
    BY <1>3 DEF AppliesSuggestions, SweepsAges
  <2>3. QED
    BY <2>1, <2>2, AgeTransitionKeeps DEF TellsTrue
<1>4. CASE TellsAll
  BY <1>4, TellingKeeps DEF TellsAll, KeepsFromArchived, Usable
<1>5. CASE YearPasses
  <2>1. CategoriesTypeOK' /\ UNCHANGED <<categories, people, notices>>
    BY <1>5, CategoriesAssumption DEF YearPasses, CategoriesInv, CategoriesTypeOK, Years
  <2>2. QED
    BY <2>1, CategoriesKeepCircles DEF CategoriesInv, KeepsFromArchived, TellsTrue, Usable
<1>6. QED
  BY <1>1, <1>2, <1>3, <1>4, <1>5 DEF CategoriesNext

\* The categories keep their promise: transitions lead to categories in use and
\* never in circles, nobody who belongs to the club is put into an archived one,
\* and a notice names the category the person is in (routes/club-members.ts).
THEOREM CategoriesAreSound == CategoriesSpec => CategoriesPromise
<1>1. CategoriesInv /\ [CategoriesNext]_categoryVars => CategoriesInv'
  <2>1. CategoriesInv /\ UNCHANGED categoryVars => CategoriesInv'
    <3> SUFFICES ASSUME CategoriesInv, UNCHANGED categoryVars PROVE CategoriesInv'
      OBVIOUS
    <3> QED
      BY CategoriesKeepCircles DEF categoryVars, CategoriesInv, CategoriesTypeOK
  <2>2. QED
    BY <2>1, CategoryStepKeeps
<1>2. CategoriesInv /\ [CategoriesNext]_categoryVars => [KeepsFromArchived]_categoryVars /\ [TellsTrue]_categoryVars
  BY CategoryStepKeeps
<1>3. CategoriesInv => CategoriesTypeOK /\ TransitionsLeadOn /\ NoCircles
  BY DEF CategoriesInv
<1>4. QED
  BY CategoriesStartSound, <1>1, <1>2, <1>3, PTL
     DEF CategoriesSpec, CategoriesPromise, NobodyIsArchived, NoticesAreTrue, KeepsFromArchived, TellsTrue
================================================================================
