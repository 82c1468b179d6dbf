----------------------------- MODULE Announcements -----------------------------
(***************************************************************************)
(* Announcements of a club (src/src/routes/club-announcements.ts,           *)
(* src/src/lib/announcements.ts): drafting, scheduling, the one path that   *)
(* sends, withdrawing, and the mails that wait in the queue meanwhile.      *)
(*                                                                         *)
(* Sending is several transactions: claim the row, count what the club has  *)
(* sent today, fan out the deliveries, mark it sent; a failure puts it      *)
(* back.  A send request reads the announcement before it locks it.  A      *)
(* claim older than five minutes counts as crashed and is claimed again,    *)
(* whether its sender is gone or only slow.                                *)
(***************************************************************************)
EXTENDS Integers, FiniteSets

CONSTANTS
  Notices,    \* club_announcements of one club on one day
  Senders,    \* requests and publish jobs that run at the same time
  Audiences,  \* what has to be confirmed: audience, channels, urgency
  PerDay,     \* ANNOUNCEMENT_MAX_PER_CLUB_DAY
  Times       \* publication dates

ASSUME AnnouncementsAssumption ==
  /\ IsFiniteSet(Notices) /\ IsFiniteSet(Senders)
  /\ PerDay \in Nat /\ Audiences # {} /\ Times # {}

VARIABLES
  notice,     \* club_announcements; history: whether its author took it back
  publishing, \* jobs announcement.publish that wait: announcement and time
  sender,     \* the requests and jobs under way
  mail,       \* the e-mail delivery of an announcement
  cleared,    \* deliveries whose handler has passed the send-time guard
  resending,  \* announcements that resend-failed has found in order
  overtaken   \* history: a sender that was still alive was taken for crashed

announcementVars == <<notice, publishing, sender, mail, cleared, resending, overtaken>>

-----------------------------------------------------------------------------
AnnouncementStatuses == {"draft", "scheduled", "sending", "sent", "cancelled", "deleted"}

Free == [at |-> "idle"]
Sending == [at: {"claimed", "counted", "notified", "refused", "failed", "redraft"},
            of: Notices, previous: {"draft", "scheduled"}, job: BOOLEAN]
Scheduling == [at: {"confirmed"}, of: Notices, audience: Audiences, time: Times]

AnnouncementsTypeOK ==
  /\ notice \in [Notices -> [status: AnnouncementStatuses, audience: Audiences,
                             time: Times, withdrawn: BOOLEAN, recalled: BOOLEAN]]
  /\ publishing \subseteq Notices \X Times
  /\ sender \in [Senders -> {Free} \cup Sending \cup Scheduling]
  /\ mail \in [Notices -> {"none", "queued", "out", "failed", "skipped"}]
  /\ cleared \subseteq Notices
  /\ resending \subseteq Notices
  /\ overtaken \in BOOLEAN

AnnouncementsInit ==
  /\ notice \in [Notices -> [status: {"draft"}, audience: Audiences, time: Times,
                             withdrawn: {FALSE}, recalled: {FALSE}]]
  /\ publishing = {}
  /\ sender = [s \in Senders |-> Free]
  /\ mail = [n \in Notices |-> "none"]
  /\ cleared = {} /\ resending = {} /\ overtaken = FALSE

-----------------------------------------------------------------------------
Editable(n) == notice[n].status \in {"draft", "scheduled"}
Becomes(n, status) == notice' = [notice EXCEPT ![n].status = status]
Turns(s, at) == sender' = [sender EXCEPT ![s] = [@ EXCEPT !.at = at]]
Ends(s) == sender' = [sender EXCEPT ![s] = Free]

\* PATCH: another audience sends a scheduled announcement back to draft; another
\* time alone reschedules it.
Edit(n, audience, time) ==
  /\ Editable(n)
  /\ notice' = [notice EXCEPT ![n] =
       [@ EXCEPT !.audience = audience, !.time = time,
                 !.status = IF audience # notice[n].audience THEN "draft"
                            ELSE notice[n].status]]
  /\ publishing' = IF notice'[n].status = "scheduled" /\ time # notice[n].time
                   THEN publishing \cup {<<n, time>>} ELSE publishing
  /\ UNCHANGED <<sender, mail, cleared, resending, overtaken>>

\* Faulty variant: who is being mailed already is not held back.
SkipUnsentMarked(n) == mail' = [mail EXCEPT ![n] = IF @ = "queued" /\ n \notin cleared
                                                   THEN "skipped" ELSE @]

\* skipUnsentDeliveries
SkipUnsent(n) == mail' = [mail EXCEPT ![n] = IF @ = "queued" THEN "skipped" ELSE @]

\* PATCH withdraw: only of a sent announcement.
Withdraw(n) ==
  /\ notice[n].status = "sent"
  /\ notice' = [notice EXCEPT ![n].withdrawn = TRUE, ![n].recalled = TRUE]
  /\ SkipUnsent(n)
  /\ UNCHANGED <<publishing, sender, cleared, resending, overtaken>>

\* POST /:id/cancel
Cancel(n) ==
  /\ notice[n].status = "scheduled"
  /\ notice' = [notice EXCEPT ![n].status = "cancelled", ![n].recalled = TRUE]
  /\ SkipUnsent(n)
  /\ UNCHANGED <<publishing, sender, cleared, resending, overtaken>>

\* DELETE /:id takes the deliveries along.
Delete(n) ==
  /\ notice[n].status \in {"draft", "scheduled", "cancelled"}
  /\ Becomes(n, "deleted")
  /\ mail' = [mail EXCEPT ![n] = "none"]
  /\ UNCHANGED <<publishing, sender, cleared, resending, overtaken>>

\* POST /:id/send for later: the audience is confirmed before the row is locked.
ScheduleReads(s, n, time) ==
  /\ sender[s] = Free
  /\ notice[n].status # "deleted"
  /\ sender' = [sender EXCEPT ![s] = [at |-> "confirmed", of |-> n,
                                      audience |-> notice[n].audience, time |-> time]]
  /\ UNCHANGED <<notice, publishing, mail, cleared, resending, overtaken>>

ScheduleWrites(s) ==
  /\ sender[s].at = "confirmed"
  /\ LET n == sender[s].of
     IN IF Editable(n)
        THEN /\ notice' = [notice EXCEPT ![n] =
                             [@ EXCEPT !.status = "scheduled", !.time = sender[s].time]]
             /\ publishing' = publishing \cup {<<n, sender[s].time>>}
        ELSE UNCHANGED <<notice, publishing>>
  /\ Ends(s)
  /\ UNCHANGED <<mail, cleared, resending, overtaken>>

-----------------------------------------------------------------------------
\* sendAnnouncement claims the row: for a request, or for the job of its time.
\* The job re-checks the scope of the author and cancels when it is lost.
Claims(s, n, job) ==
  sender' = [sender EXCEPT ![s] =
    [at |-> "claimed", of |-> n, job |-> job,
     previous |-> IF notice[n].status = "scheduled" THEN "scheduled" ELSE "draft"]]

SendNow(s, n) ==
  /\ sender[s] = Free
  /\ Editable(n) \/ notice[n].status = "sending"
  /\ Claims(s, n, FALSE)
  /\ Becomes(n, "sending")
  /\ overtaken' = (overtaken \/ \E t \in Senders : sender[t].at \notin {"idle", "confirmed"}
                                                   /\ sender[t].of = n)
  /\ UNCHANGED <<publishing, mail, cleared, resending>>

Publish(s, n, scopeKept) ==
  /\ sender[s] = Free
  /\ \E job \in publishing :
       /\ job[1] = n
       /\ publishing' = publishing \ {job}
       /\ IF notice[n].status = "scheduled" /\ notice[n].time = job[2]
          THEN IF scopeKept THEN Claims(s, n, TRUE) /\ Becomes(n, "sending")
                            ELSE Becomes(n, "cancelled") /\ UNCHANGED sender
          ELSE UNCHANGED <<notice, sender>>
  /\ UNCHANGED <<mail, cleared, resending, overtaken>>

\* Faulty variant: what is just being sent by others is not counted.
SentTodayFinished(n) == {m \in Notices \ {n} : notice[m].status = "sent"}

\* sentSince
SentToday(n) == {m \in Notices \ {n} : notice[m].status \in {"sending", "sent"}}

\* assertWithinSendLimits; other limits and failures refuse as they like.
SendCounts(s, fails) ==
  /\ sender[s].at = "claimed"
  /\ Turns(s, IF Cardinality(SentToday(sender[s].of)) >= PerDay THEN "refused"
              ELSE IF fails THEN "failed" ELSE "counted")
  /\ UNCHANGED <<notice, publishing, mail, cleared, resending, overtaken>>

\* notify: one delivery per recipient and channel, whoever fans out.
SendNotifies(s) ==
  /\ sender[s].at = "counted"
  /\ IF notice[sender[s].of].status = "deleted"
     THEN Turns(s, "failed") /\ UNCHANGED mail
     ELSE /\ mail' = [mail EXCEPT ![sender[s].of] = IF @ = "none" THEN "queued" ELSE @]
          /\ Turns(s, "notified")
  /\ UNCHANGED <<notice, publishing, cleared, resending, overtaken>>

SendFails(s) ==
  /\ sender[s].at \in {"counted", "notified"}
  /\ Turns(s, "failed")
  /\ UNCHANGED <<notice, publishing, mail, cleared, resending, overtaken>>

\* Marking it sent does not ask for the status.
SendEnds(s) ==
  /\ sender[s].at = "notified"
  /\ IF notice[sender[s].of].status = "deleted" THEN UNCHANGED notice
                                                ELSE Becomes(sender[s].of, "sent")
  /\ Ends(s)
  /\ UNCHANGED <<publishing, mail, cleared, resending, overtaken>>

\* The failure puts it back; a job that was refused leaves a draft, in a
\* statement of its own.
SendReverts(s) ==
  /\ sender[s].at \in {"refused", "failed"}
  /\ IF notice[sender[s].of].status = "sending" THEN Becomes(sender[s].of, sender[s].previous)
                                                ELSE UNCHANGED notice
  /\ IF sender[s].job /\ sender[s].at = "refused" THEN Turns(s, "redraft") ELSE Ends(s)
  /\ UNCHANGED <<publishing, mail, cleared, resending, overtaken>>

SendRedrafts(s) ==
  /\ sender[s].at = "redraft"
  /\ IF notice[sender[s].of].status = "scheduled" THEN Becomes(sender[s].of, "draft")
                                                  ELSE UNCHANGED notice
  /\ Ends(s)
  /\ UNCHANGED <<publishing, mail, cleared, resending, overtaken>>

\* The process ends: whatever was under way is gone, the claim stays.
SenderDies(s) ==
  /\ sender[s] # Free
  /\ Ends(s)
  /\ UNCHANGED <<notice, publishing, mail, cleared, resending, overtaken>>

-----------------------------------------------------------------------------
\* withdrawnAnnouncementIds, the guard ahead of every mail...
Unwanted(n) == notice[n].status = "cancelled" \/ notice[n].withdrawn

MailGuarded(n) ==
  /\ mail[n] = "queued" /\ n \notin cleared
  /\ IF Unwanted(n) THEN SkipUnsent(n) /\ UNCHANGED cleared
                    ELSE cleared' = cleared \cup {n} /\ UNCHANGED mail
  /\ UNCHANGED <<notice, publishing, sender, resending, overtaken>>

\* ...and the claim of the delivery, which asks for its status only.
MailClaimed(n) ==
  /\ n \in cleared
  /\ cleared' = cleared \ {n}
  /\ mail' = [mail EXCEPT ![n] = IF @ = "queued" THEN "out" ELSE @]
  /\ UNCHANGED <<notice, publishing, sender, resending, overtaken>>

MailFails(n) ==
  /\ mail[n] = "out"
  /\ mail' = [mail EXCEPT ![n] = "failed"]
  /\ UNCHANGED <<notice, publishing, sender, cleared, resending, overtaken>>

\* POST /:id/resend-failed looks at the announcement, then queues again.
ResendReads(n) ==
  /\ notice[n].status = "sent" /\ ~notice[n].withdrawn
  /\ resending' = resending \cup {n}
  /\ UNCHANGED <<notice, publishing, sender, mail, cleared, overtaken>>

ResendWrites(n) ==
  /\ n \in resending
  /\ resending' = resending \ {n}
  /\ mail' = [mail EXCEPT ![n] = IF @ = "failed" THEN "queued" ELSE @]
  /\ UNCHANGED <<notice, publishing, sender, cleared, overtaken>>

-----------------------------------------------------------------------------
AuthorStep ==
  \E n \in Notices :
    \/ Withdraw(n) \/ Cancel(n) \/ Delete(n) \/ ResendReads(n) \/ ResendWrites(n)
    \/ \E a \in Audiences, t \in Times : Edit(n, a, t)

SendStep ==
  \E s \in Senders :
    \/ ScheduleWrites(s) \/ SendNotifies(s) \/ SendFails(s) \/ SendEnds(s)
    \/ SendReverts(s) \/ SendRedrafts(s) \/ SenderDies(s)
    \/ \E fails \in BOOLEAN : SendCounts(s, fails)
    \/ \E n \in Notices : \/ SendNow(s, n)
                          \/ \E t \in Times : ScheduleReads(s, n, t)
                          \/ \E kept \in BOOLEAN : Publish(s, n, kept)

MailStep == \E n \in Notices : MailGuarded(n) \/ MailClaimed(n) \/ MailFails(n)

AnnouncementsNext == AuthorStep \/ SendStep \/ MailStep

AnnouncementsSpec == AnnouncementsInit /\ [][AnnouncementsNext]_announcementVars

-----------------------------------------------------------------------------
\* Properties

\* A club never sends more announcements in a day than it may, although each
\* sender counts without a lock and several send at once - unless a sender that
\* is alive is taken for crashed.
DailyLimitHolds ==
  ~overtaken => Cardinality({n \in Notices : notice[n].status = "sent"}) <= PerDay

\* Withdraw and cancel: "mails and pushes that have not gone out yet must not go
\* out any more", however long before its handler passed the guard, and whoever
\* resends meanwhile - unless a sender that is alive is taken for crashed.
RecalledStaysUnsent ==
  [][\A n \in Notices : notice[n].recalled /\ ~overtaken /\ mail[n] # "out"
       => mail'[n] # "out"]_announcementVars

\* club-announcements.ts:244: "A scheduled announcement was confirmed (limits,
\* recipient count) for its audience": another audience needs another /send
\* "instead of going out unchecked".
ConfirmedAudience ==
  [][\A s \in Senders, n \in Notices :
       sender[s].at = "confirmed" /\ sender[s].of = n /\ sender'[s] = Free
       /\ notice'[n].status = "scheduled" /\ notice[n] # notice'[n]
         => sender[s].audience = notice'[n].audience]_announcementVars

\* What announcements keep through several senders, failures and withdrawals.
AnnouncementsPromise == [](AnnouncementsTypeOK /\ DailyLimitHolds) /\ RecalledStaysUnsent
=============================================================================
