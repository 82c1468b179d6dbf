------------------------------ MODULE Invitation ------------------------------
(* The formal invitation to a general assembly (src/src/routes/                *)
(* meeting-assembly.ts, lib/assembly-invitation.ts): the agenda, the versions  *)
(* that announce it, the proof of what reached whom, and the list of those who *)
(* get a letter. Versions share no rows of the proof: that of the first is     *)
(* followed. Who is a member, with which address, rests while it is sent; the   *)
(* in-app copies are left out.                                                 *)
EXTENDS Integers, Sequences, FiniteSets

CONSTANTS
  Items,            \* agenda items
  Wordings,
  Register,         \* club_members in the order they are read: [member, mail, account]
  NoMail,           \* neither the account nor the member has an address
  InWriting,        \* the statute wants the invitation as a letter
  InviteCalls,
  MaxInvitations,
  MaxRewordings

ASSUME InvitationAssumption ==
  /\ InWriting \in BOOLEAN /\ MaxInvitations \in Nat \ {0} /\ MaxRewordings \in Nat
  /\ DOMAIN Register \subseteq Nat

VARIABLES
  agenda,           \* item -> [wording, by]: Unwritten, and the version that announced it
  rewordings,
  invitations,      \* versions sent: [agenda, short]
  dateShort,        \* the meeting's date does not meet the period
  dateExcused,      \* with a recorded reason
  proof,            \* of the first version: member -> status of the mail row
  letters,          \* member -> status of the post row
  invitationMail,   \* owner of a mailbox -> status of the dispatcher's row
  inviteCalls,
  letDown           \* history: its sending or a sync of it was cut off

invitationVars ==
  <<agenda, rewordings, invitations, dateShort, dateExcused, proof, letters, invitationMail,
    inviteCalls, letDown>>

Unwritten == "unwritten"
NotAnnounced == 0
Followed == 1
NoInviteCall == [op |-> "none"]

\* loadInvitationRecipients: neither the interested nor those who left.
Invitees == {i \in DOMAIN Register : Register[i].member}

\* planDeliveries: a shared mailbox gets one mail, that of the first who has it.
Addressees == {i \in Invitees : Register[i].mail # NoMail}
SharesMail(i) == {j \in Addressees : Register[j].mail = Register[i].mail}
OwnerOf(i) == CHOOSE j \in SharesMail(i) : \A k \in SharesMail(i) : j <= k
Owners == {i \in Addressees : OwnerOf(i) = i}
ByPost == {i \in Invitees : InWriting \/ (i \notin Addressees /\ ~Register[i].account)}
Everybody(status) == [m \in Addressees |-> status]
EveryOwner(status) == [m \in Owners |-> status]
Posted(S) == [m \in Invitees |-> IF m \in S THEN "queued" ELSE "none"]

InvitationTypeOK ==
  /\ agenda \in [Items -> [wording: Wordings \cup {Unwritten}, by: 0..Len(invitations)]]
  /\ Len(invitations) \in 0..MaxInvitations /\ rewordings \in 0..MaxRewordings
  /\ dateShort \in BOOLEAN /\ dateExcused \in BOOLEAN
  /\ proof \in [Addressees -> {"none", "queued", "sent", "failed"}]
  /\ letters \in [Invitees -> {"none", "queued", "manual_posted"}]
  /\ invitationMail \in [Owners -> {"none", "queued", "sent", "failed"}] /\ letDown \in BOOLEAN

InvitationInit ==
  /\ agenda = [i \in Items |-> [wording |-> Unwritten, by |-> NotAnnounced]]
  /\ rewordings = 0 /\ invitations = <<>> /\ dateShort = FALSE /\ dateExcused = FALSE
  /\ proof = Everybody("none") /\ letters = Posted({}) /\ invitationMail = EveryOwner("none")
  /\ inviteCalls = [c \in InviteCalls |-> NoInviteCall] /\ letDown = FALSE

InviteCall(c, call) == inviteCalls' = [inviteCalls EXCEPT ![c] = call]
AgendaRests == UNCHANGED <<agenda, rewordings>>
DateRests == UNCHANGED <<dateShort, dateExcused>>
ProofRests == UNCHANGED <<proof, letters, invitationMail, letDown>>

-----------------------------------------------------------------------------
\* The agenda, under the lock of the meeting's row

WrittenItem(i) == agenda[i].wording # Unwritten

\* Faulty variant: what was announced is not asked.
NotYetAnnouncedAnyway(i) == WrittenItem(i)

\* refuseAnnounced
NotYetAnnounced(i) == WrittenItem(i) /\ agenda[i].by = NotAnnounced

WritesItem(i, w) ==
  /\ ~WrittenItem(i) \/ NotYetAnnounced(i)
  /\ w # agenda[i].wording
  /\ rewordings < MaxRewordings /\ rewordings' = rewordings + 1
  /\ agenda' = [agenda EXCEPT ![i].wording = w]
  /\ UNCHANGED <<invitations, inviteCalls>> /\ DateRests /\ ProofRests

DeletesItem(i) ==
  /\ NotYetAnnounced(i) /\ agenda' = [agenda EXCEPT ![i].wording = Unwritten]
  /\ UNCHANGED <<rewordings, invitations, inviteCalls>> /\ DateRests /\ ProofRests

-----------------------------------------------------------------------------
\* The date: PATCH checks what it has read (rescheduleCheck) before it writes. Here
\* it may move once, to a day too near, with a reason if somebody is invited.

ReadsToMove(c, excused) ==
  /\ inviteCalls[c] = NoInviteCall /\ ~dateShort
  /\ excused <=> invitations # <<>>
  /\ InviteCall(c, [op |-> "move", excused |-> excused])
  /\ UNCHANGED invitations /\ AgendaRests /\ DateRests /\ ProofRests

MovesMeeting(c) ==
  /\ inviteCalls[c].op = "move" /\ InviteCall(c, NoInviteCall)
  /\ dateShort' = TRUE /\ dateExcused' = (dateExcused \/ inviteCalls[c].excused)
  /\ UNCHANGED invitations /\ AgendaRests /\ ProofRests

-----------------------------------------------------------------------------
\* Sending

\* The meeting as the request has read it, its period, and a reason if it is short.
ReadsToInvite(c) ==
  /\ inviteCalls[c] = NoInviteCall
  /\ InviteCall(c, [op |-> "invite", short |-> dateShort])
  /\ UNCHANGED invitations /\ AgendaRests /\ DateRests /\ ProofRests

Fresh == {i \in Items : NotYetAnnounced(i)}

\* One transaction under the meeting's lock: the version, its content, the rows of
\* the proof, and the mark on what is new.
Invites(c) ==
  LET v == Len(invitations) + 1
  IN /\ inviteCalls[c].op = "invite" /\ v <= MaxInvitations
     /\ v > 1 => Fresh # {}
     /\ invitations' = Append(invitations, [agenda |-> [i \in Items |-> agenda[i].wording],
                                            short |-> inviteCalls[c].short])
     /\ agenda' = [i \in Items |-> IF i \in Fresh THEN [agenda[i] EXCEPT !.by = v] ELSE agenda[i]]
     /\ IF v = Followed
        THEN /\ proof' = Everybody("queued") /\ letters' = Posted(ByPost)
             /\ InviteCall(c, [op |-> "dispatch"])
        ELSE InviteCall(c, NoInviteCall) /\ UNCHANGED <<proof, letters>>
     /\ DateRests /\ UNCHANGED <<rewordings, invitationMail, letDown>>

InviteRefused(c) ==
  /\ inviteCalls[c].op = "invite" /\ invitations # <<>> /\ Fresh = {}
  /\ InviteCall(c, NoInviteCall)
  /\ UNCHANGED invitations /\ AgendaRests /\ DateRests /\ ProofRests

\* notify, in one transaction of its own; a failure is recorded on the proof.
HandsOver(c) ==
  /\ inviteCalls[c].op = "dispatch" /\ InviteCall(c, NoInviteCall)
  /\ invitationMail' = EveryOwner("queued")
  /\ UNCHANGED <<invitations, proof, letters, letDown>> /\ AgendaRests /\ DateRests

HandingOverFails(c) ==
  /\ inviteCalls[c].op = "dispatch" /\ InviteCall(c, NoInviteCall)
  /\ proof' = Everybody("failed") /\ letDown' = TRUE
  /\ UNCHANGED <<invitations, letters, invitationMail>> /\ AgendaRests /\ DateRests

\* The dispatcher's job settles the mail of an owner.
MailSettlesAs(m, status) ==
  /\ invitationMail[m] = "queued" /\ invitationMail' = [invitationMail EXCEPT ![m] = status]
  /\ UNCHANGED <<invitations, proof, letters, letDown, inviteCalls>> /\ AgendaRests /\ DateRests

-----------------------------------------------------------------------------
\* syncInvitationDeliveries, whenever the proof is read

\* The rows that are open; a covered row is looked at again, without effect.
ReadsProof(c) ==
  LET open == {m \in Addressees : proof[m] = "queued"}
  IN /\ inviteCalls[c] = NoInviteCall /\ open # {}
     /\ InviteCall(c, [op |-> "sync", open |-> open])
     /\ UNCHANGED invitations /\ AgendaRests /\ DateRests /\ ProofRests

\* What the dispatcher says of the owner's mail holds for every row it covers.
ReadsMails(c) ==
  LET call == inviteCalls[c]
      found == [m \in call.open |-> invitationMail[OwnerOf(m)]]
      settled == {m \in call.open : found[m] \in {"sent", "failed"}}
  IN /\ call.op = "sync"
     /\ InviteCall(c, IF settled = {} THEN NoInviteCall
                      ELSE [op |-> "write", open |-> settled, found |-> found, needsPost |-> {}])
     /\ UNCHANGED invitations /\ AgendaRests /\ DateRests /\ ProofRests

\* Faulty variant: who is covered by the owner's mail is not put on the list.
FallbackOfOwner(m, found) == IF found = "failed" THEN {m} \cap Owners ELSE {}

Fallback(m, found) == IF found = "failed" THEN {m} ELSE {}

\* Row by row, each in a statement of its own.
WritesProof(c, m) ==
  LET call == inviteCalls[c]
  IN /\ call.op = "write" /\ m \in call.open
     /\ proof' = [proof EXCEPT ![m] = call.found[m]]
     /\ InviteCall(c, [call EXCEPT !.open = @ \ {m},
                                   !.needsPost = @ \cup Fallback(m, call.found[m])])
     /\ UNCHANGED <<invitations, letters, invitationMail, letDown>> /\ AgendaRests /\ DateRests

\* In the end the post list, where it lacks them.
FillsPostList(c) ==
  LET call == inviteCalls[c]
  IN /\ call.op = "write" /\ call.open = {} /\ InviteCall(c, NoInviteCall)
     /\ letters' = [m \in Invitees |-> IF m \in call.needsPost /\ letters[m] = "none"
                                        THEN "queued" ELSE letters[m]]
     /\ UNCHANGED <<invitations, proof, invitationMail, letDown>> /\ AgendaRests /\ DateRests

\* The export for the board, which posts the letters on it.
PostList == {m \in Invitees : letters[m] = "queued"}

MarksPosted ==
  /\ PostList # {}
  /\ letters' = [m \in Invitees |-> IF m \in PostList THEN "manual_posted" ELSE letters[m]]
  /\ UNCHANGED <<invitations, proof, invitationMail, letDown, inviteCalls>>
  /\ AgendaRests /\ DateRests

\* The process ends.
InviteCallDies(c) ==
  LET call == inviteCalls[c]
  IN /\ call # NoInviteCall /\ InviteCall(c, NoInviteCall)
     /\ letDown' = (letDown \/ call.op \in {"dispatch", "write"})
     /\ UNCHANGED <<invitations, proof, letters, invitationMail>> /\ AgendaRests /\ DateRests

InvitationNext ==
  \/ \E i \in Items : DeletesItem(i) \/ \E w \in Wordings : WritesItem(i, w)
  \/ \E c \in InviteCalls :
       \/ \E excused \in BOOLEAN : ReadsToMove(c, excused)
       \/ MovesMeeting(c) \/ ReadsToInvite(c) \/ Invites(c) \/ InviteRefused(c)
       \/ HandsOver(c) \/ HandingOverFails(c) \/ ReadsMails(c) \/ FillsPostList(c)
       \/ InviteCallDies(c) \/ ReadsProof(c)
       \/ \E m \in Addressees : WritesProof(c, m)
  \/ MarksPosted \/ \E m \in Owners, s \in {"sent", "failed"} : MailSettlesAs(m, s)

InvitationSpec == InvitationInit /\ [][InvitationNext]_invitationVars

-----------------------------------------------------------------------------
\* Properties

\* What a version announced still stands in the agenda as it was announced, and
\* every supplement announced something.
AnnouncedStands ==
  \A v \in DOMAIN invitations :
    /\ \A i \in Items : invitations[v].agenda[i] # Unwritten =>
         agenda[i].wording = invitations[v].agenda[i] /\ agenda[i].by \in 1..v
    /\ v > 1 => \E i \in Items : agenda[i].by = v

\* The proof claims a mail only where one was sent.
ProofIsTrue ==
  \A m \in Addressees : proof[m] = "sent" => invitationMail[OwnerOf(m)] = "sent"

\* Whom the mail did not reach is on the post list, or a sync is about to put them
\* there, unless the sending or a sync was cut off: whichever of several syncs saw
\* the failure, and for those whom the owner's mail was to cover.
UnreachedGetLetters ==
  \A m \in Addressees : (proof[m] = "failed" /\ ~letDown) =>
    \/ letters[m] # "none"
    \/ \E c \in InviteCalls : inviteCalls[c].op = "write" /\ m \in inviteCalls[c].needsPost

\* Every member is reached on some way the proof shows: an address, an account,
\* or the post list from the start; nobody who is no member is.
NobodyForgotten ==
  invitations # <<>> =>
    \A i \in DOMAIN Register :
      IF Register[i].member
      THEN \/ i \in Addressees /\ proof[i] # "none"
           \/ Register[i].account \/ letters[i] # "none"
      ELSE i \notin DOMAIN proof \cup DOMAIN letters

\* A letter on its way is not taken off the list.
LettersStand ==
  \A m \in Invitees :
    /\ letters[m] = "manual_posted" => letters'[m] = "manual_posted"
    /\ letters[m] # "none" => letters'[m] # "none"

InvitationPromise ==
  /\ [](InvitationTypeOK /\ AnnouncedStands /\ ProofIsTrue
       /\ UnreachedGetLetters /\ NobodyForgotten)
  /\ [][LettersStand]_invitationVars

\* assembly-invitation.ts:387: "The post list is the fallback for every member the
\* mail did not reach."
PostListIsFallback ==
  \A m \in Addressees :
    (proof[m] = "failed" /\ \A c \in InviteCalls : inviteCalls[c] = NoInviteCall)
      => letters[m] # "none"

\* meetings.ts:160: "After the formal invitation the new date must still meet the
\* statute period".
DateKeepsPeriod ==
  (invitations # <<>> /\ dateShort) => (dateExcused \/ invitations[1].short)
=============================================================================
