------------------------------- MODULE Admission -------------------------------
(***************************************************************************)
(* How one person becomes a member of a club: an application the board       *)
(* approves, an application for a child, and an invitation that links the     *)
(* account to a member record the board entered (src/src/lib/               *)
(* member-invites.ts, club-members.ts, form-applications.ts,                *)
(* form-children.ts, routes/club-applications.ts).                          *)
(*                                                                         *)
(* The account membership is created by the auth library, outside of every    *)
(* transaction: it checks that the account has none, and inserts.  Around it  *)
(* every call claims, links and, when it fails, undoes what it created.      *)
(* Database transactions are single steps; one that loses a lock fails.      *)
(***************************************************************************)
EXTENDS Integers, FiniteSets

CONSTANTS
  InvitedRows,      \* member records the board entered without an account
  OwnApplications,  \* applications of the person...
  ChildApplications,\* ...and for children of the person
  Deciders,         \* concurrent calls
  MaxAccounts,      \* account memberships created in one behaviour
  MaxMoves          \* calls, and changes of a membership by others, in one behaviour

ASSUME AdmissionAssumption == MaxAccounts \in Nat /\ MaxMoves \in Nat /\ InvitedRows \cap (0..MaxAccounts) = {}

VARIABLES
  accountsOf,    \* member: the account memberships of the person
  guests,      \* those with the role guest
  created,     \* account memberships created so far
  records,     \* club_members: the invited ones, and one for each membership
  invites,     \* records with an open invitation
  applications,\* club_applications.status
  guardianOf,  \* guardian_links: the account, by the child's application
  linkLock,    \* holder of the advisory lock of (club, account)
  parentLock,  \* holder of the advisory lock guardian-account
  deciding,    \* calls under way
  moves        \* calls and changes so far

admissionVars == <<accountsOf, guests, created, records, invites, applications, guardianOf,
                   linkLock, parentLock, deciding, moves>>

-----------------------------------------------------------------------------
Applications == OwnApplications \cup ChildApplications
Ids == 1..MaxAccounts
Nobody == "nobody"

NoRecord == [status |-> "none"]
\* Without an account 0; known: last_user_id is the person; touched: a change in
\* the status history.
Record == [account: 0..MaxAccounts, known: BOOLEAN, unlinked: BOOLEAN, touched: BOOLEAN,
           status: {"interessent", "aktiv", "ausgetreten", "ausgeschlossen"}]

Idle == [op |-> "none"]
\* current: the invitation read is still the open one; the record read had left
\* (readmit); the call created the membership (approve, child).
Deciding ==
  [op: {"accept", "approve", "readmit", "child"}, on: InvitedRows \cup Applications,
   step: {"queued", "unclaimed", "merging", "claimed", "adding", "added", "ready", "kept", "failed"},
   account: 0..MaxAccounts, current: BOOLEAN, record: InvitedRows \cup (0..MaxAccounts)]

AdmissionTypeOK ==
  /\ accountsOf \subseteq Ids /\ guests \subseteq Ids
  /\ created \in 0..MaxAccounts /\ accountsOf \subseteq 1..created
  /\ records \in [InvitedRows \cup Ids -> Record \cup {NoRecord}]
  /\ invites \subseteq InvitedRows
  /\ applications \in [Applications -> {"pending", "approved", "rejected", "withdrawn"}]
  /\ guardianOf \in [ChildApplications -> {0} \cup accountsOf]
  /\ deciding \in [Deciders -> Deciding \cup {Idle}]
  /\ linkLock \in Deciders \cup {Nobody} /\ parentLock \in Deciders \cup {Nobody}
  /\ moves \in 0..MaxMoves

AdmissionInit ==
  /\ accountsOf = {} /\ guests = {} /\ created = 0
  /\ records = [r \in InvitedRows \cup Ids |->
       IF r \in InvitedRows
       THEN [account |-> 0, known |-> FALSE, unlinked |-> FALSE, touched |-> FALSE, status |-> "aktiv"]
       ELSE NoRecord]
  /\ invites = {}
  /\ applications = [a \in Applications |-> "pending"]
  /\ guardianOf = [k \in ChildApplications |-> 0]
  /\ linkLock = Nobody /\ parentLock = Nobody
  /\ deciding = [c \in Deciders |-> Idle]
  /\ moves = 0

-----------------------------------------------------------------------------
Left(r) == records[r].status \in {"ausgetreten", "ausgeschlossen"}

\* assertRejoinAllowed: excluded and without an account.
Barred ==
  \E r \in DOMAIN records : /\ records[r].status = "ausgeschlossen"
                            /\ records[r].known /\ records[r].account = 0

RecordsOf(m) == {r \in DOMAIN records : records[r] # NoRecord /\ records[r].account = m}

\* A record whose account went away is taken up again, unless the board unlinked it.
Detached ==
  {r \in DOMAIN records : /\ records[r] # NoRecord /\ records[r].account = 0
                          /\ records[r].known /\ ~records[r].unlinked}

\* ensureClubMember: what the records may become; none when it is refused.
Ensured(m) ==
  IF RecordsOf(m) # {} THEN {records}
  ELSE IF Barred \/ m \notin accountsOf THEN {}
  ELSE IF Detached # {}
  THEN {[records EXCEPT ![r].account = m, ![r].status = "aktiv", ![r].touched = TRUE] : r \in Detached}
  ELSE {[records EXCEPT ![m] = [account |-> m, known |-> TRUE, unlinked |-> FALSE,
                                touched |-> FALSE, status |-> "aktiv"]]}

\* ...and then the status of whichever record there is.
Fixed(m, status) ==
  {[r \in DOMAIN ensured |-> IF ensured[r] # NoRecord /\ ensured[r].account = m
                             THEN [ensured[r] EXCEPT !.status = status] ELSE ensured[r]]
   : ensured \in Ensured(m)}

\* It waits for the lock before it creates anything.
MayEnsure(m) == (RecordsOf(m) # {} \/ linkLock = Nobody) = TRUE

\* Without the membership m: foreign keys cascade to the guardian links, and the
\* record stays without an account.
Detach(table, m) ==
  [r \in DOMAIN table |-> IF table[r] # NoRecord /\ table[r].account = m
                          THEN [table[r] EXCEPT !.account = 0] ELSE table[r]]

Unguarded(m) == [k \in ChildApplications |-> IF guardianOf[k] = m THEN 0 ELSE guardianOf[k]]

Moves == moves < MaxMoves /\ moves' = moves + 1

Goes(c, to) == deciding' = [deciding EXCEPT ![c].step = to]
Stops(c) == deciding' = [deciding EXCEPT ![c] = Idle]
At(c, op, step) == deciding[c].op = op /\ deciding[c].step = step

Starts(c, op, on, step, m, r, current) ==
  /\ deciding[c] = Idle /\ Moves
  /\ deciding' = [deciding EXCEPT ![c] =
       [op |-> op, on |-> on, step |-> step, account |-> m, current |-> current, record |-> r]]

\* auth.api.addMember: checks, and later inserts.
Inserts(c, guest) ==
  /\ created < MaxAccounts
  /\ created' = created + 1
  /\ accountsOf' = accountsOf \cup {created'}
  /\ guests' = IF guest THEN guests \cup {created'} ELSE guests
  /\ deciding' = [deciding EXCEPT ![c].step = "added", ![c].account = created']

-----------------------------------------------------------------------------
\* An invitation replaces the open one; a call that has read the old one will not
\* be able to claim it.
Outdated(r) ==
  [c \in Deciders |-> IF deciding[c].op = "accept" /\ deciding[c].on = r
                      THEN [deciding[c] EXCEPT !.current = FALSE] ELSE deciding[c]]

Invites(r) ==
  /\ records[r] # NoRecord /\ records[r].account = 0 /\ ~Left(r)
  /\ invites' = invites \cup {r} /\ deciding' = Outdated(r)
  /\ UNCHANGED <<accountsOf, guests, created, records, applications, guardianOf, linkLock, parentLock, moves>>

\* DELETE invite, or it expires.
InviteEnds(r) ==
  /\ r \in invites
  /\ invites' = invites \ {r} /\ deciding' = Outdated(r)
  /\ UNCHANGED <<accountsOf, guests, created, records, applications, guardianOf, linkLock, parentLock, moves>>

\* findUsableInvite
AcceptStarts(c, r) ==
  /\ r \in invites /\ records[r].account = 0 /\ ~Left(r)
  /\ Starts(c, "accept", r, "queued", 0, r, TRUE)
  /\ UNCHANGED <<accountsOf, guests, created, records, invites, applications, guardianOf,
                 linkLock, parentLock>>

\* The calls of one account come one after the other; who has an account merges.
AcceptLocks(c) ==
  /\ At(c, "accept", "queued") /\ linkLock = Nobody /\ ~Barred
  /\ linkLock' = c
  /\ IF accountsOf = {} THEN Goes(c, "unclaimed")
     ELSE \E m \in accountsOf :
            deciding' = [deciding EXCEPT ![c].step = "merging", ![c].account = m]
  /\ UNCHANGED <<accountsOf, guests, created, records, invites, applications, guardianOf, parentLock, moves>>

\* The claim: UPDATE ... WHERE accepted_at IS NULL.
AcceptClaims(c) ==
  /\ At(c, "accept", "unclaimed")
  /\ deciding[c].current /\ deciding[c].on \in invites
  /\ invites' = invites \ {deciding[c].on}
  /\ Goes(c, "claimed")
  /\ UNCHANGED <<accountsOf, guests, created, records, applications, guardianOf, linkLock, parentLock, moves>>

\* addMember without the record that its hook would create.
AcceptAdds(c) ==
  /\ At(c, "accept", "claimed")
  /\ Goes(c, IF accountsOf = {} /\ ~Barred THEN "adding" ELSE "failed")
  /\ UNCHANGED <<accountsOf, guests, created, records, invites, applications, guardianOf,
                 linkLock, parentLock, moves>>

AcceptInserts(c) ==
  /\ At(c, "accept", "adding") /\ Inserts(c, FALSE)
  /\ UNCHANGED <<records, invites, applications, guardianOf, linkLock, parentLock, moves>>

\* The link: only to a record without account, and only for the one membership.
AcceptLinks(c) ==
  LET r == deciding[c].on
      m == deciding[c].account
  IN /\ At(c, "accept", "added")
     /\ records[r].account = 0 /\ accountsOf = {m}
     /\ records' = [records EXCEPT ![r].account = m, ![r].known = TRUE, ![r].unlinked = FALSE,
                                   ![r].touched = TRUE]
     /\ linkLock' = Nobody /\ Stops(c)
     /\ UNCHANGED <<accountsOf, guests, created, invites, applications, guardianOf, parentLock, moves>>

\* A failed link takes the membership back...
AcceptUndoes(c) ==
  LET m == deciding[c].account
  IN /\ At(c, "accept", "added")
     /\ accountsOf' = accountsOf \ {m} /\ records' = Detach(records, m)
     /\ guardianOf' = Unguarded(m)
     /\ Goes(c, "failed")
     /\ UNCHANGED <<guests, created, invites, applications, linkLock, parentLock, moves>>

\* Faulty variant: a failed call does not release its claim.
ReleasedNot(c) == invites

\* ...and releases the claim.
Released(c) == invites \cup {deciding[c].on}

AcceptReleases(c) ==
  /\ At(c, "accept", "failed")
  /\ invites' = Released(c)
  /\ linkLock' = Nobody /\ Stops(c)
  /\ UNCHANGED <<accountsOf, guests, created, records, applications, guardianOf, parentLock, moves>>

\* mergeIntoInvitedRow: the own record, when it has no history, is retired.
AcceptMerges(c) ==
  LET r   == deciding[c].on
      m   == deciding[c].account
      own == RecordsOf(m)
  IN /\ At(c, "accept", "merging")
     /\ records[r].account = 0 /\ ~Left(r)
     /\ m \in accountsOf \ guests
     /\ \A o \in own : ~records[o].touched
     /\ deciding[c].current /\ r \in invites
     /\ invites' = invites \ {r}
     /\ records' = [o \in DOMAIN records |->
          IF o \in own THEN NoRecord
          ELSE IF o = r THEN [records[r] EXCEPT !.account = m, !.known = TRUE, !.unlinked = FALSE,
                                                !.touched = TRUE]
          ELSE records[o]]
     /\ linkLock' = Nobody /\ Stops(c)
     /\ UNCHANGED <<accountsOf, guests, created, applications, guardianOf, parentLock, moves>>

\* Refused or failed before the claim.
AcceptGivesUp(c) ==
  /\ deciding[c].op = "accept" /\ deciding[c].step \in {"queued", "unclaimed", "merging"}
  /\ linkLock' = IF linkLock = c THEN Nobody ELSE linkLock
  /\ Stops(c)
  /\ UNCHANGED <<accountsOf, guests, created, records, invites, applications, guardianOf, parentLock, moves>>

-----------------------------------------------------------------------------
\* POST club-applications/:id/approve for a person without an account membership.
ApproveStarts(c, a) ==
  /\ applications[a] = "pending" /\ accountsOf = {} /\ ~Barred
  /\ Starts(c, "approve", a, "adding", 0, 0, TRUE)
  /\ UNCHANGED <<accountsOf, guests, created, records, invites, applications, guardianOf,
                 linkLock, parentLock>>

ApproveInserts(c) ==
  /\ At(c, "approve", "adding") /\ Inserts(c, FALSE)
  /\ UNCHANGED <<records, invites, applications, guardianOf, linkLock, parentLock, moves>>

\* The hook afterAddMember; its failure is only logged.
ApproveEnsures(c) ==
  /\ At(c, "approve", "added")
  /\ \/ MayEnsure(deciding[c].account) /\ records' \in Ensured(deciding[c].account)
     \/ UNCHANGED records
  /\ Goes(c, "ready")
  /\ UNCHANGED <<accountsOf, guests, created, invites, applications, guardianOf, linkLock, parentLock, moves>>

\* The decision: claims the application and ensures the record again.
ApproveDecides(c) ==
  LET a == deciding[c].on
      m == deciding[c].account
  IN /\ At(c, "approve", "ready")
     /\ applications[a] = "pending" /\ MayEnsure(m)
     /\ records' \in Fixed(m, "aktiv")
     /\ applications' = [applications EXCEPT ![a] = "approved"]
     /\ Stops(c)
     /\ UNCHANGED <<accountsOf, guests, created, invites, guardianOf, linkLock, parentLock, moves>>

\* readmit: a former member, or an external guest, has a membership already.
ReadmitStarts(c, a, m, r) ==
  /\ applications[a] = "pending" /\ m \in accountsOf /\ r \in RecordsOf(m)
  /\ m \in guests \/ records[r].status = "ausgetreten"
  /\ Starts(c, "readmit", a, IF records[r].status = "aktiv" THEN "kept" ELSE "ready", m, r, Left(r))
  /\ UNCHANGED <<accountsOf, guests, created, records, invites, applications, guardianOf,
                 linkLock, parentLock>>

ReadmitDecides(c) ==
  LET a == deciding[c].on
      m == deciding[c].account
      r == deciding[c].record
  IN /\ deciding[c].op = "readmit" /\ deciding[c].step \in {"ready", "kept"}
     /\ applications[a] = "pending" /\ records[r] # NoRecord
     /\ applications' = [applications EXCEPT ![a] = "approved"]
     /\ IF deciding[c].step = "kept" THEN UNCHANGED records
        ELSE /\ records[r].status # "aktiv" /\ (Left(r) => deciding[c].current)
             /\ records' = [records EXCEPT ![r].status = "aktiv", ![r].touched = TRUE]
     /\ guests' = guests \ {m}
     /\ Stops(c)
     /\ UNCHANGED <<accountsOf, created, invites, guardianOf, linkLock, parentLock, moves>>

-----------------------------------------------------------------------------
\* approveChild: the parent's membership first, one acceptance after the other.
ChildStarts(c, k) ==
  /\ applications[k] = "pending"
  /\ Starts(c, "child", k, "queued", 0, 0, TRUE)
  /\ UNCHANGED <<accountsOf, guests, created, records, invites, applications, guardianOf,
                 linkLock, parentLock>>

\* ensureGuardianAccount
ChildLocks(c) ==
  /\ At(c, "child", "queued") /\ parentLock = Nobody /\ ~Barred
  /\ IF accountsOf = {}
     THEN Goes(c, "adding") /\ parentLock' = c
     ELSE \E m \in accountsOf :
            /\ \A r \in RecordsOf(m) : ~Left(r)
            /\ deciding' = [deciding EXCEPT ![c].step = "ready", ![c].account = m, ![c].current = FALSE]
            /\ UNCHANGED parentLock
  /\ UNCHANGED <<accountsOf, guests, created, records, invites, applications, guardianOf, linkLock, moves>>

ChildInserts(c) ==
  /\ At(c, "child", "adding") /\ Inserts(c, TRUE)
  /\ UNCHANGED <<records, invites, applications, guardianOf, linkLock, parentLock, moves>>

ChildEnsures(c) ==
  LET m == deciding[c].account
  IN /\ At(c, "child", "added") /\ MayEnsure(m)
     /\ records' \in Fixed(m, "interessent")
     /\ Goes(c, "ready") /\ parentLock' = Nobody
     /\ UNCHANGED <<accountsOf, guests, created, invites, applications, guardianOf, linkLock, moves>>

\* The child's record, and the guardian link to a membership that must exist.
ChildDecides(c) ==
  LET k == deciding[c].on
      m == deciding[c].account
  IN /\ At(c, "child", "ready")
     /\ applications[k] = "pending" /\ m \in accountsOf
     /\ applications' = [applications EXCEPT ![k] = "approved"]
     /\ guardianOf' = [guardianOf EXCEPT ![k] = m]
     /\ Stops(c)
     /\ UNCHANGED <<accountsOf, guests, created, records, invites, linkLock, parentLock, moves>>

-----------------------------------------------------------------------------
\* An aborted approval goes on to undo the membership that it created.
DecisionAborts(c) ==
  /\ deciding[c].op \in {"approve", "readmit", "child"}
  /\ IF deciding[c].step \in {"added", "ready"} /\ deciding[c].op # "readmit" /\ deciding[c].current
     THEN Goes(c, "failed") ELSE Stops(c)
  /\ parentLock' = IF parentLock = c /\ deciding[c].step # "added" THEN Nobody ELSE parentLock
  /\ UNCHANGED <<accountsOf, guests, created, records, invites, applications, guardianOf, linkLock, moves>>

\* Faulty variant: guardian links are not looked at.
UntouchedByDecision(c) ==
  LET m == deciding[c].account
  IN \A r \in RecordsOf(m) : ~records[r].touched

\* compensateAbortedApproval: nobody's guardian, and a record without history.
Untouched(c) ==
  LET m == deciding[c].account
  IN /\ \A k \in ChildApplications : guardianOf[k] # m
     /\ \A r \in RecordsOf(m) : ~records[r].touched

DecisionUndoes(c) ==
  LET m == deciding[c].account
  IN /\ deciding[c].op \in {"approve", "child"} /\ deciding[c].step = "failed"
     /\ IF linkLock = Nobody /\ m \in accountsOf /\ Untouched(c)
        THEN /\ accountsOf' = accountsOf \ {m}
             /\ guardianOf' = Unguarded(m)
             /\ records' = [r \in DOMAIN records |-> IF r \in RecordsOf(m) THEN NoRecord ELSE records[r]]
        ELSE UNCHANGED <<accountsOf, guardianOf, records>>
     /\ parentLock' = IF parentLock = c THEN Nobody ELSE parentLock
     /\ Stops(c)
     /\ UNCHANGED <<guests, created, invites, applications, linkLock, moves>>

\* POST :id/reject, and the withdrawal by the applicant.
Closes(a, as) ==
  /\ applications[a] = "pending"
  /\ applications' = [applications EXCEPT ![a] = as]
  /\ UNCHANGED <<accountsOf, guests, created, records, invites, guardianOf, linkLock, parentLock, deciding, moves>>

-----------------------------------------------------------------------------
\* A membership ends without a hook: the person leaves, or is removed.
Leaves(m) ==
  /\ Moves
  /\ m \in accountsOf
  /\ accountsOf' = accountsOf \ {m} /\ records' = Detach(records, m) /\ guardianOf' = Unguarded(m)
  /\ UNCHANGED <<guests, created, invites, applications, linkLock, parentLock, deciding>>

\* markDetachedMembersLeft
ClosesDetached ==
  /\ Moves
  /\ \E r \in Detached : ~Left(r)
  /\ records' = [r \in DOMAIN records |->
       IF r \in Detached /\ ~Left(r) THEN [records[r] EXCEPT !.status = "ausgetreten", !.touched = TRUE]
       ELSE records[r]]
  /\ UNCHANGED <<accountsOf, guests, created, invites, applications, guardianOf, linkLock, parentLock, deciding>>

\* unlinkAccount
Unlinks(r) ==
  LET m == records[r].account
  IN /\ Moves
     /\ records[r] # NoRecord /\ m # 0
     /\ accountsOf' = accountsOf \ {m} /\ guardianOf' = Unguarded(m)
     /\ records' = [Detach(records, m) EXCEPT ![r].unlinked = TRUE, ![r].touched = TRUE]
     /\ UNCHANGED <<guests, created, invites, applications, linkLock, parentLock, deciding>>

\* resolveClubMember and the lists repair a membership without a record.
Repairs(m) ==
  /\ Moves
  /\ m \in accountsOf /\ RecordsOf(m) = {} /\ MayEnsure(m)
  /\ records' \in Ensured(m)
  /\ UNCHANGED <<accountsOf, guests, created, invites, applications, guardianOf, linkLock, parentLock, deciding>>

\* POST :id/transition: the board excludes, or takes back.
Transitions(r, to) ==
  /\ Moves
  /\ records[r] # NoRecord
  /\ \/ to = "ausgeschlossen" /\ records[r].status = "aktiv"
     \/ to = "aktiv" /\ Left(r)
  /\ records' = [records EXCEPT ![r].status = to, ![r].touched = TRUE]
  /\ UNCHANGED <<accountsOf, guests, created, invites, applications, guardianOf, linkLock, parentLock, deciding>>

-----------------------------------------------------------------------------
AcceptStep ==
  \/ \E r \in InvitedRows : Invites(r) \/ InviteEnds(r) \/ \E c \in Deciders : AcceptStarts(c, r)
  \/ \E c \in Deciders :
       \/ AcceptLocks(c) \/ AcceptClaims(c) \/ AcceptAdds(c) \/ AcceptInserts(c) \/ AcceptLinks(c)
       \/ AcceptUndoes(c) \/ AcceptReleases(c) \/ AcceptMerges(c) \/ AcceptGivesUp(c)

DecisionStep ==
  \/ \E c \in Deciders :
       \/ \E a \in OwnApplications :
            \/ ApproveStarts(c, a)
            \/ \E m \in accountsOf, r \in DOMAIN records : ReadmitStarts(c, a, m, r)
       \/ \E k \in ChildApplications : ChildStarts(c, k)
       \/ ApproveInserts(c) \/ ApproveEnsures(c) \/ ApproveDecides(c) \/ ReadmitDecides(c)
       \/ ChildLocks(c) \/ ChildInserts(c) \/ ChildEnsures(c) \/ ChildDecides(c)
       \/ DecisionAborts(c) \/ DecisionUndoes(c)
  \/ \E a \in Applications, as \in {"rejected", "withdrawn"} : Closes(a, as)

MembershipStep ==
  \/ ClosesDetached
  \/ \E m \in Ids : Leaves(m) \/ Repairs(m)
  \/ \E r \in DOMAIN records : Unlinks(r) \/ \E to \in {"aktiv", "ausgeschlossen"} : Transitions(r, to)

AdmissionNext == AcceptStep \/ DecisionStep \/ MembershipStep

AdmissionSpec == AdmissionInit /\ [][AdmissionNext]_admissionVars

-----------------------------------------------------------------------------
\* Properties

\* "No half-linked state (account membership without link, invite burnt)": an
\* accepted invitation has linked its record, or the invitation is open again.
ClaimSettled ==
  \A c \in Deciders :
    deciding[c].op = "accept" /\ deciding[c].step \in {"claimed", "adding", "added", "failed"}
      /\ deciding'[c] = Idle
    => \/ deciding[c].on \in invites'
       \/ records'[deciding[c].on].account = deciding[c].account

InviteNotBurnt == [][ClaimSettled]_admissionVars

\* "A guest that is somebody's guardian is never removed": a child keeps its
\* guardian whatever becomes of the parent's other applications.  (An invitation
\* that fails to link takes its membership back without this care.)
GuardiansKept ==
  (\E c \in Deciders : deciding[c].op \in {"approve", "child"} /\ deciding'[c] = Idle)
  => \A k \in ChildApplications : guardianOf[k] # 0 => guardianOf'[k] = guardianOf[k]

GuardiansStand == [][GuardiansKept]_admissionVars

\* form-applications.ts: a membership that somebody relies on as guardian is taken
\* away by nobody but its owner or the board.
GuardiansSurviveCalls ==
  [][\A k \in ChildApplications :
       guardianOf[k] # 0 /\ guardianOf'[k] = 0
       => Leaves(guardianOf[k]) \/ \E r \in DOMAIN records : Unlinks(r)]_admissionVars

\* "A half-finished approval is recoverable, a deleted merged member is not": no
\* record with a history ever disappears.
HistoryLasts ==
  \A r \in DOMAIN records :
    records[r] # NoRecord /\ records'[r] = NoRecord => ~records[r].touched

HistoryStands == [][HistoryLasts]_admissionVars

\* Whoever is admitted is a member in the same step: with an account that is
\* linked to an active record.
ApprovedAreMembers ==
  \A c \in Deciders : ApproveDecides(c)
    => \E r \in DOMAIN records' : /\ records'[r] # NoRecord /\ records'[r].status = "aktiv"
                                  /\ records'[r].account \in accountsOf'

AdmittedAtOnce == [][ApprovedAreMembers]_admissionVars

AdmissionPromise == []AdmissionTypeOK /\ InviteNotBurnt /\ GuardiansStand /\ HistoryStands /\ AdmittedAtOnce

\* Nobody is a member of one club twice.
OneMembership == (\A c \in Deciders : deciding[c] = Idle) => Cardinality(accountsOf) <= 1

\* club-applications.ts:223: "Excluded / deceased persons cannot be re-admitted by
\* an application; the board must reopen them first."
ExcludedStaysOut ==
  [][\A r \in DOMAIN records :
       records[r].status = "ausgeschlossen" /\ records'[r].status = "aktiv"
       => \E q \in DOMAIN records : Transitions(q, "aktiv")]_admissionVars
=============================================================================
