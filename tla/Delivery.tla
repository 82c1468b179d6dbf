-------------------------------- MODULE Delivery --------------------------------
(***************************************************************************)
(* One delivery, e-mail or push (src/src/lib/notify/): the row that is the  *)
(* proof of delivery, the jobs that send it, and the executions of their    *)
(* handler.  Deliveries do not touch each other.                           *)
(*                                                                         *)
(* The queue is the one of JobQueue, seen from the handler: an execution    *)
(* may crash, break, or outlive its lease, so that a later attempt runs     *)
(* beside it.  The e-mail handler claims the row, the push handler does not.*)
(***************************************************************************)
EXTENDS Integers, FiniteSets

CONSTANTS
  MaxAttempts,  \* attempts of a job
  MaxResends,   \* bound: calls of resend-failed
  MaxTrouble    \* bound: crashes, broken handlers and outlived leases

ASSUME DeliveryAssumption ==
  MaxAttempts \in Nat \ {0} /\ MaxResends \in Nat /\ MaxTrouble \in Nat

VARIABLES
  delivery,   \* message_deliveries: one row
  sendJobs,   \* its jobs: the first, then one per resend
  handlers,   \* executions of handleEmailDelivery / handlePushDelivery
  unwanted,   \* the announcement is withdrawn, or the recipient has opted out
  mailed,     \* history: times the message was handed over
  trouble,    \* history: crashes, broken handlers, outlived leases
  outlived    \* history: an execution has outlived its lease

deliveryVars == <<delivery, sendJobs, handlers, unwanted, mailed, trouble, outlived>>

-----------------------------------------------------------------------------
SettledMail == {"sent", "failed", "skipped"}
Handler == [job: 1..(MaxResends + 1), attempt: Nat,
            at: {"guarding", "passed", "claimed", "accepted", "rejected"}]

DeliveryTypeOK ==
  /\ delivery \in [channel: {"email", "push"}, status: {"queued", "sending"} \cup SettledMail,
                   attempts: Nat]
  /\ \E n \in 1..(MaxResends + 1) :
       sendJobs \in [1..n -> [status: {"waiting", "running", "expired", "done", "dead"},
                              attempts: Nat]]
  /\ handlers \subseteq Handler
  /\ unwanted \in BOOLEAN /\ outlived \in BOOLEAN
  /\ mailed \in Nat /\ trouble \in 0..MaxTrouble

NewJob == [status |-> "waiting", attempts |-> 0]

\* notify: the row and its job in one transaction.
DeliveryInit ==
  /\ delivery \in [channel: {"email", "push"}, status: {"queued"}, attempts: {0}]
  /\ sendJobs = [j \in {1} |-> NewJob]
  /\ handlers = {}
  /\ unwanted = FALSE /\ outlived = FALSE
  /\ mailed = 0 /\ trouble = 0

IsMail == delivery.channel = "email"
Open == delivery.status \in {"queued", "sending"}

\* A later attempt takes over what an earlier one was sending.
Takeable(attempt) ==
  \/ delivery.status = "queued"
  \/ IsMail /\ delivery.status = "sending" /\ delivery.attempts < attempt

\* What the handler has in hand: only a row nobody has settled meanwhile.
InHand == delivery.status = IF IsMail THEN "sending" ELSE "queued"

\* Faulty variant: the outcome is written whatever has become of the row.
RecordsAnyway(status, attempt) ==
  delivery' = [delivery EXCEPT !.status = status, !.attempts = attempt]

Records(status, attempt) ==
  delivery' = IF InHand THEN [delivery EXCEPT !.status = status, !.attempts = attempt]
                        ELSE delivery

-----------------------------------------------------------------------------
\* The job of an execution ends while its worker owns it: the last attempt does,
\* its lease run out or not, and an older one may, when its worker has claimed
\* the job again.
EndsJob(h, status) ==
  \/ /\ sendJobs[h.job].status \in {"running", "expired"}
     /\ sendJobs' = [sendJobs EXCEPT ![h.job].status = status]
  \/ /\ h.attempt # sendJobs[h.job].attempts \/ sendJobs[h.job].status \in {"done", "dead", "waiting"}
     /\ UNCHANGED sendJobs

Succeeds(h) == handlers' = handlers \ {h} /\ EndsJob(h, "done")
Throws(h) ==
  /\ handlers' = handlers \ {h}
  /\ EndsJob(h, IF h.attempt < MaxAttempts THEN "waiting" ELSE "dead")

MovesTo(h, at) == handlers' = (handlers \ {h}) \cup {[h EXCEPT !.at = at]}

\* The worker claims a job, and the handler reads the row.
Begin(j) ==
  /\ \/ sendJobs[j].status = "waiting"
     \/ sendJobs[j].status = "expired" /\ sendJobs[j].attempts < MaxAttempts
  /\ LET attempt == sendJobs[j].attempts + 1
     IN IF Takeable(attempt)
        THEN /\ sendJobs' = [sendJobs EXCEPT ![j] = [status |-> "running", attempts |-> attempt]]
             /\ handlers' = handlers \cup {[job |-> j, attempt |-> attempt, at |-> "guarding"]}
        ELSE /\ sendJobs' = [sendJobs EXCEPT ![j] = [status |-> "done", attempts |-> attempt]]
             /\ UNCHANGED handlers
  /\ UNCHANGED <<delivery, unwanted, mailed, trouble, outlived>>

\* withdrawnAnnouncementIds and optedOutDeliveryIds, at the time of sending.
Guard(h) ==
  /\ h.at = "guarding"
  /\ IF unwanted
     THEN /\ delivery' = IF Open /\ (IsMail \/ delivery.status = "queued")
                         THEN [delivery EXCEPT !.status = "skipped"] ELSE delivery
          /\ Succeeds(h)
     ELSE /\ MovesTo(h, IF IsMail THEN "passed" ELSE "claimed")
          /\ UNCHANGED <<delivery, sendJobs>>
  /\ UNCHANGED <<unwanted, mailed, trouble, outlived>>

Claim(h) ==
  /\ h.at = "passed"
  /\ IF Takeable(h.attempt)
     THEN /\ delivery' = [delivery EXCEPT !.status = "sending", !.attempts = h.attempt]
          /\ MovesTo(h, "claimed") /\ UNCHANGED sendJobs
     ELSE Succeeds(h) /\ UNCHANGED delivery
  /\ UNCHANGED <<unwanted, mailed, trouble, outlived>>

\* The SMTP server, or the push service, answers.
HandOver(h, accepts) ==
  /\ h.at = "claimed"
  /\ MovesTo(h, IF accepts THEN "accepted" ELSE "rejected")
  /\ mailed' = IF accepts THEN mailed + 1 ELSE mailed
  /\ UNCHANGED <<delivery, sendJobs, unwanted, trouble, outlived>>

Accepted(h) ==
  /\ h.at = "accepted"
  /\ Records("sent", h.attempt)
  /\ Succeeds(h)
  /\ UNCHANGED <<unwanted, mailed, trouble, outlived>>

\* Faulty variant: the last attempt is taken for one of many.
AfterFailureAgain(attempt) == "queued"

AfterFailure(attempt) == IF attempt >= MaxAttempts THEN "failed" ELSE "queued"

\* On the last attempt the delivery has failed and the job ends normally.
Rejected(h) ==
  /\ h.at = "rejected"
  /\ Records(AfterFailure(h.attempt), h.attempt)
  /\ IF h.attempt >= MaxAttempts THEN Succeeds(h) ELSE Throws(h)
  /\ UNCHANGED <<unwanted, mailed, trouble, outlived>>

-----------------------------------------------------------------------------
\* A query of the handler fails; the process ends; the lease runs out under a
\* handler that goes on.  The last two free the job for a later attempt.
Happens == trouble < MaxTrouble /\ trouble' = trouble + 1

Break(h) ==
  /\ Happens
  /\ Throws(h)
  /\ UNCHANGED <<delivery, unwanted, mailed, outlived>>

LeaseLost(h) ==
  /\ sendJobs[h.job].status = "running" /\ sendJobs[h.job].attempts = h.attempt
  /\ sendJobs' = [sendJobs EXCEPT ![h.job].status = "expired"]

Crash(h) ==
  /\ Happens
  /\ handlers' = handlers \ {h}
  /\ \/ LeaseLost(h)
     \/ /\ sendJobs[h.job].status # "running" \/ sendJobs[h.job].attempts # h.attempt
        /\ UNCHANGED sendJobs
  /\ UNCHANGED <<delivery, unwanted, mailed, outlived>>

Outlive(h) ==
  /\ Happens
  /\ LeaseLost(h)
  /\ outlived' = TRUE
  /\ UNCHANGED <<delivery, handlers, unwanted, mailed>>

\* The queue buries a job whose lease ran out after its last attempt.
Bury(j) ==
  /\ sendJobs[j].status = "expired" /\ sendJobs[j].attempts >= MaxAttempts
  /\ sendJobs' = [sendJobs EXCEPT ![j].status = "dead"]
  /\ UNCHANGED <<delivery, handlers, unwanted, mailed, trouble, outlived>>

\* Faulty variant: a row that was being sent is left alone.
ReapableQueued == delivery.status = "queued" /\ \E j \in DOMAIN sendJobs : sendJobs[j].status = "dead"

Reapable ==
  /\ Open
  /\ \E j \in DOMAIN sendJobs : sendJobs[j].status = "dead"
  /\ \A j \in DOMAIN sendJobs : sendJobs[j].status \in {"done", "dead"}

\* reapDeadDeliveries
Reap ==
  /\ Reapable
  /\ delivery' = [delivery EXCEPT !.status = "failed"]
  /\ UNCHANGED <<sendJobs, handlers, unwanted, mailed, trouble, outlived>>

\* Faulty variant: what is being sent is sent again.
ResendableSending == IsMail /\ delivery.status \in {"failed", "sending"}

Resendable == IsMail /\ delivery.status = "failed"

\* POST /:id/resend-failed
Resend ==
  /\ Resendable /\ Cardinality(DOMAIN sendJobs) <= MaxResends
  /\ IF unwanted
     THEN delivery' = [delivery EXCEPT !.status = "skipped"] /\ UNCHANGED sendJobs
     ELSE /\ delivery' = [delivery EXCEPT !.status = "queued", !.attempts = 0]
          /\ sendJobs' = [j \in 1..(Cardinality(DOMAIN sendJobs) + 1) |->
                            IF j \in DOMAIN sendJobs THEN sendJobs[j] ELSE NewJob]
  /\ UNCHANGED <<handlers, unwanted, mailed, trouble, outlived>>

\* Withdrawn, cancelled, or opted out: what is queued is skipped at once.
Unwant ==
  /\ ~unwanted /\ unwanted' = TRUE
  /\ delivery' \in {delivery, IF delivery.status = "queued"
                              THEN [delivery EXCEPT !.status = "skipped"] ELSE delivery}
  /\ UNCHANGED <<sendJobs, handlers, mailed, trouble, outlived>>

-----------------------------------------------------------------------------
HandlerStep(h) == Guard(h) \/ Claim(h) \/ Accepted(h) \/ Rejected(h)
                  \/ \E accepts \in BOOLEAN : HandOver(h, accepts)

Work == (\E j \in DOMAIN sendJobs : Begin(j) \/ Bury(j)) \/ (\E h \in handlers : HandlerStep(h))

DeliveryNext ==
  \/ Work \/ Reap \/ Resend \/ Unwant
  \/ \E h \in handlers : Break(h) \/ Crash(h) \/ Outlive(h)

\* Workers run and the reaper comes back; nothing else has to happen.
DeliverySpec == DeliveryInit /\ [][DeliveryNext]_deliveryVars
                /\ WF_deliveryVars(Work) /\ WF_deliveryVars(Reap)

-----------------------------------------------------------------------------
\* Properties

\* What is recorded as sent stays sent, whatever an older or newer attempt that
\* runs beside the one that sent it fails with or skips: the row is the proof.
ProofStands == [][delivery.status = "sent" => delivery' = delivery]_deliveryVars

\* How often somebody had the failed delivery sent again.
Resends == Cardinality(DOMAIN sendJobs) - 1

\* "The row is claimed before the send, so a second runner skips it": a message
\* is handed over once more only for trouble of the process, once for each, and
\* neither because it was queued again while it was under way nor because failed
\* mail is sent again.  Only when an execution has outlived its lease may its late
\* failure bury a delivery that has been handed over; each resend then counts too.
HandedOverOnce == mailed <= 1 + trouble + (IF outlived THEN Resends ELSE 0)

\* An open delivery always has a job that will settle it or that the reaper will
\* find dead - unless an execution has outlived its lease: the failure of that
\* one reopens a row that a newer attempt has taken over (email-job.ts:109).
NotStranded ==
  ~outlived /\ Open => \E j \in DOMAIN sendJobs : sendJobs[j].status # "done"

\* Every delivery is sent, skipped or failed in the end, through crashes and
\* broken handlers, by the last attempt or by the reaper.
EventuallySettledMail == Open ~> (~Open \/ outlived)

\* What the delivery of one mail keeps through crashes, expired leases and resends.
DeliveryPromise ==
  [](DeliveryTypeOK /\ HandedOverOnce /\ NotStranded) /\ ProofStands
=============================================================================
