-------------------------------- MODULE Minutes --------------------------------
(***************************************************************************)
(* The minutes of one meeting (src/src/lib/minutes.ts): versions that are   *)
(* drafted, confirmed by chair and secretary, submitted, and approved by a  *)
(* resolution of a later meeting, or superseded.  Every write locks the     *)
(* meeting's row; the approving resolution is read without a lock, so that  *)
(* approving is two steps.                                                 *)
(***************************************************************************)
EXTENDS Integers, FiniteSets, Sequences

CONSTANTS
  Clerks,       \* accounts of the board
  Texts,        \* contents, told apart by their hash
  Blank,        \* the empty text
  Unconfirmed,  \* nobody has confirmed
  MaxMinutes   \* bound: versions of the minutes

ASSUME MinutesAssumption ==
  Blank \in Texts /\ Unconfirmed \notin Clerks /\ MaxMinutes \in Nat

VARIABLES
  minutesVersions,   \* meeting_minutes of the meeting, by version
  ruling,     \* the resolution of the later meeting, as approveMinutes judges it
  approving,  \* a transaction approves: it has judged the resolution
  notes       \* meeting_minutes_amendments: versions with one

minutesVars == <<minutesVersions, ruling, approving, notes>>

-----------------------------------------------------------------------------
Roles == {"leitung", "schriftfuehrung"}
Version == [at: {"entwurf", "zur_genehmigung", "genehmigt", "archiviert"}, text: Texts,
            by: [Roles -> Clerks \cup {Unconfirmed}], \* meeting_minutes_confirmations
            approved: BOOLEAN]                         \* approved_at

Rulings == {"none", "accepted", "rejected"}

MinutesTypeOK ==
  /\ minutesVersions \in Seq(Version) /\ Len(minutesVersions) <= MaxMinutes
  /\ ruling \in Rulings
  /\ approving \in BOOLEAN
  /\ notes \subseteq {v \in DOMAIN minutesVersions : minutesVersions[v].approved}

MinutesInit ==
  /\ minutesVersions = <<>>
  /\ ruling = "none"
  /\ approving = FALSE
  /\ notes = {}

Draft(text) == [at |-> "entwurf", text |-> text, by |-> [r \in Roles |-> Unconfirmed],
                approved |-> FALSE]

Count == Len(minutesVersions)
LatestIs(status) == Count > 0 /\ minutesVersions[Count].at = status
MinutesFree == ~approving

\* visibleMinutes for members: the latest approved version.
Approved == {v \in DOMAIN minutesVersions : minutesVersions[v].approved}
Published == IF Approved = {} THEN <<>>
             ELSE <<minutesVersions[CHOOSE v \in Approved : \A w \in Approved : w <= v].text>>

-----------------------------------------------------------------------------
\* saveMinutesDraft: an edit drops the confirmations.
SaveDraft(text) ==
  /\ MinutesFree
  /\ \/ Count = 0 /\ MaxMinutes > 0 /\ minutesVersions' = <<Draft(text)>>
     \/ /\ LatestIs("entwurf")
        /\ text # minutesVersions[Count].text
        /\ minutesVersions' = [minutesVersions EXCEPT ![Count] = Draft(text)]
  /\ UNCHANGED <<ruling, approving, notes>>

\* Faulty variant: one person confirms for both roles.
OpenToAnybody(role, u) == minutesVersions[Count].by[role] = Unconfirmed

\* A role confirms once, and the two roles are two accounts.
OpenTo(role, u) ==
  /\ minutesVersions[Count].by[role] = Unconfirmed
  /\ \A r \in Roles : minutesVersions[Count].by[r] # u

\* confirmMinutes
Confirm(role, u) ==
  /\ MinutesFree
  /\ LatestIs("entwurf")
  /\ minutesVersions[Count].text # Blank
  /\ OpenTo(role, u)
  /\ minutesVersions' = [minutesVersions EXCEPT ![Count].by[role] = u]
  /\ UNCHANGED <<ruling, approving, notes>>

\* submitMinutes; confirmations of another text are gone with the edit.
Submit ==
  /\ MinutesFree
  /\ LatestIs("entwurf")
  /\ minutesVersions[Count].text # Blank
  /\ \A r \in Roles : minutesVersions[Count].by[r] # Unconfirmed
  /\ minutesVersions' = [minutesVersions EXCEPT ![Count].at = "zur_genehmigung"]
  /\ UNCHANGED <<ruling, approving, notes>>

\* Faulty variant: archived and approved minutes can be reopened.
ReopenableOnceSubmitted == Count > 0 /\ minutesVersions[Count].at # "entwurf"

Reopenable == LatestIs("zur_genehmigung")

\* reopenMinutes: the submitted version is superseded by a draft of the same text.
Reopen ==
  /\ MinutesFree
  /\ Reopenable
  /\ Count < MaxMinutes
  /\ minutesVersions' = Append([minutesVersions EXCEPT ![Count].at = "archiviert"], Draft(minutesVersions[Count].text))
  /\ UNCHANGED <<ruling, approving, notes>>

\* approveMinutes: the resolution is one of a later meeting of the same type that
\* was held, a digital one of a finalized ballot, and was accepted...
ApproveReads ==
  /\ MinutesFree
  /\ LatestIs("zur_genehmigung")
  /\ ruling = "accepted"
  /\ approving' = TRUE
  /\ UNCHANGED <<minutesVersions, ruling, notes>>

\* ...and the write refers to it: it fails when the resolution is gone.
ApproveWrites ==
  /\ approving
  /\ IF ruling = "none" THEN minutesVersions' = minutesVersions
     ELSE minutesVersions' = [minutesVersions EXCEPT ![Count] = [@ EXCEPT !.at = "genehmigt", !.approved = TRUE]]
  /\ approving' = FALSE
  /\ UNCHANGED <<ruling, notes>>

ApproveRollsBack ==
  /\ approving
  /\ approving' = FALSE
  /\ UNCHANGED <<minutesVersions, ruling, notes>>

\* archiveMinutes
Archive ==
  /\ MinutesFree
  /\ LatestIs("genehmigt")
  /\ minutesVersions' = [minutesVersions EXCEPT ![Count].at = "archiviert"]
  /\ UNCHANGED <<ruling, approving, notes>>

\* addMinutesAmendment, on the latest approved version.
Amend ==
  /\ MinutesFree
  /\ Approved # {}
  /\ notes' = notes \cup {CHOOSE v \in Approved : \A w \in Approved : w <= v}
  /\ UNCHANGED <<minutesVersions, ruling, approving>>

\* POST and PATCH /meetings/:id/resolutions and the course of the later meeting.
Resolve(to) ==
  /\ to # ruling
  /\ ruling' = to
  /\ UNCHANGED <<minutesVersions, approving, notes>>

\* Deleting the later meeting takes its resolution along: meeting_minutes_guard
\* refuses to let go of a resolution that approved minutes.
LaterMeetingDeleted ==
  /\ ruling # "none"
  /\ Approved = {}
  /\ ruling' = "none"
  /\ UNCHANGED <<minutesVersions, approving, notes>>

-----------------------------------------------------------------------------
MinutesNext ==
  \/ \E t \in Texts : SaveDraft(t)
  \/ \E r \in Roles, u \in Clerks : Confirm(r, u)
  \/ Submit \/ Reopen \/ ApproveReads \/ ApproveWrites \/ ApproveRollsBack
  \/ Archive \/ Amend \/ LaterMeetingDeleted
  \/ \E to \in {"accepted", "rejected"} : Resolve(to)

MinutesSpec == MinutesInit /\ [][MinutesNext]_minutesVars

-----------------------------------------------------------------------------
\* Properties

\* Two people stand for the text: whatever went to approval, and whatever was
\* approved, is a text that two different accounts confirmed as chair and as
\* secretary, and it is not blank.
TwoPeopleStandForTheText ==
  \A v \in DOMAIN minutesVersions : minutesVersions[v].at # "entwurf" =>
    /\ minutesVersions[v].text # Blank
    /\ Unconfirmed \notin {minutesVersions[v].by[r] : r \in Roles}
    /\ minutesVersions[v].by["leitung"] # minutesVersions[v].by["schriftfuehrung"]

\* What the members have once read as approved stays: no edit, superseding draft,
\* archiving or second approval changes or hides it.
PublishedStands == [][Published # <<>> => Published' = Published]_minutesVars

\* What the minutes keep through parallel edits, confirmations and approvals.
MinutesPromise == [](MinutesTypeOK /\ TwoPeopleStandForTheText) /\ PublishedStands
=============================================================================
