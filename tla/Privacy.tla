----------------------------- MODULE Privacy -----------------------------
(* One retention category of one club (src/src/lib/retention/sweep.ts,         *)
(* categories.ts, policy.ts, routes/retention-policies.ts): the daily sweep    *)
(* deletes what was due when the club was last told, and tells it of what      *)
(* became due since. Rows are deleted by the ids that were selected; members   *)
(* are erased one by one, each under a lock on the member.                     *)
EXTENDS Integers, FiniteSets, Sequences

CONSTANTS
  Records,      \* rows of the category, or former members
  Periods,      \* days the club may set, between the limits of the rule
  NoticeDays,
  LastNow,
  BatchSize,    \* records handled by one sweep
  MaxTouches    \* edits of records, of the period and of holds

ASSUME RetentionAssumption ==
  /\ {NoticeDays, BatchSize, LastNow} \subseteq Nat \ {0}
  /\ Periods \subseteq Nat /\ MaxTouches \in Nat

VARIABLES
  erasing,      \* are the records members, erased through executeErasure
  kept,         \* records that exist
  ended,        \* the day a record's period counts from
  onHold,       \* records of a member under legal hold
  retainDays,   \* the effective period
  now,
  notices,      \* days of the runs that were logged as notices
  retentionRun, \* the sweep under way
  toldOn,       \* history: the days on which the club was told of a record
  touched,      \* history: backdated and released records, all of them by a shorter period
  touches

retentionVars == <<erasing, kept, ended, onHold, retainDays, now, notices, retentionRun,
                   toldOn, touched, touches>>
unsweptVars == <<erasing, ended, onHold, retainDays, now, touched, touches>>

Asleep == [op |-> "none"]
Nows == 1..LastNow

RetentionTypeOK ==
  /\ kept \subseteq Records /\ onHold \subseteq Records /\ touched \subseteq Records
  /\ ended \in [Records -> 0..LastNow] /\ retainDays \in Periods
  /\ now \in Nows /\ notices \subseteq Nows /\ toldOn \in [Records -> SUBSET Nows]
  /\ retentionRun.op \in {"none", "deleting", "counting", "announcing", "logging"}

RetentionInit ==
  /\ erasing \in BOOLEAN /\ kept = Records /\ ended = [r \in Records |-> 1]
  /\ onHold = {} /\ retainDays \in Periods /\ now = 1 /\ notices = {}
  /\ retentionRun = Asleep /\ toldOn = [r \in Records |-> {}] /\ touched = {} /\ touches = 0

\* What the category selects as of a day. The selection of members includes those
\* on hold: executeErasure refuses them.
DueOn(day, days) == {r \in kept : ended[r] < day - days /\ (erasing \/ r \notin onHold)}

-----------------------------------------------------------------------------
\* runRetentionRules for this category and club.

\* Faulty variant: the deletion is not pinned to the day of the notice.
DueWhenToldUnpinned(notice, day, days) == IF notice = 0 THEN {} ELSE DueOn(day, days)

\* "Delete only what was due when the notice was given".
DueWhenTold(notice, day, days) == IF notice = 0 THEN {} ELSE DueOn(notice, days)

\* noticeState: the newest notice that is old enough, and whether one is waiting.
\* The records that are to go are selected, up to a batch.
SweepSelects ==
  LET ripe == {d \in notices : d <= now - NoticeDays}
      notice == IF ripe = {} THEN 0 ELSE CHOOSE d \in ripe : \A e \in ripe : e <= d
      due == DueWhenTold(notice, now, retainDays)
  IN /\ retentionRun = Asleep
     /\ \E picked \in SUBSET due :
          /\ Cardinality(picked) = BatchSize \/ (picked = due /\ Cardinality(due) < BatchSize)
          /\ retentionRun' = [op |-> "deleting", days |-> retainDays, notice |-> notice,
                              waiting |-> \E d \in notices : d > notice, picked |-> picked]
     /\ UNCHANGED <<kept, notices, toldOn, unsweptVars>>

\* Faulty variant: the hold is not looked at again.
ErasableAnyway(r) == TRUE

\* executeErasure under the lock on the member.
Erasable(r) == r \notin onHold

SweepDeletes ==
  LET run == retentionRun
  IN /\ run.op = "deleting"
     /\ IF run.picked = {} THEN retentionRun' = [run EXCEPT !.op = "counting"] /\ UNCHANGED kept
        ELSE IF erasing
        THEN \E r \in run.picked : /\ retentionRun' = [run EXCEPT !.picked = @ \ {r}]
                                   /\ kept' = IF Erasable(r) THEN kept \ {r} ELSE kept
        ELSE kept' = kept \ run.picked /\ retentionRun' = [run EXCEPT !.picked = {}]
     /\ UNCHANGED <<notices, toldOn, unsweptVars>>

\* While a newer notice waits nothing is announced.
SweepCounts ==
  LET run == retentionRun
      due == DueOn(now, run.days)
      covered == DueWhenTold(run.notice, now, run.days)
  IN /\ run.op = "counting"
     /\ retentionRun' = IF run.waiting \/ Cardinality(due) <= Cardinality(covered) THEN Asleep
                        ELSE [op |-> "announcing", due |-> due]
     /\ UNCHANGED <<kept, notices, toldOn, unsweptVars>>

\* announce; nobody may be reached, and then nothing is logged.
SweepAnnounces ==
  /\ retentionRun.op = "announcing"
  /\ \/ /\ toldOn' = [r \in Records |-> IF r \in retentionRun.due THEN toldOn[r] \cup {now} ELSE toldOn[r]]
        /\ retentionRun' = [op |-> "logging"]
     \/ retentionRun' = Asleep /\ UNCHANGED toldOn
  /\ UNCHANGED <<kept, notices, unsweptVars>>

SweepLogs ==
  /\ retentionRun.op = "logging" /\ notices' = notices \cup {now} /\ retentionRun' = Asleep
  /\ UNCHANGED <<kept, toldOn, unsweptVars>>

ExpirySweepDies ==
  /\ retentionRun # Asleep /\ retentionRun' = Asleep
  /\ UNCHANGED <<kept, notices, toldOn, unsweptVars>>

-----------------------------------------------------------------------------
\* What the club does meanwhile.

\* A sweep is over before midnight.
MidnightPasses ==
  /\ now < LastNow /\ retentionRun = Asleep /\ now' = now + 1
  /\ UNCHANGED <<erasing, kept, ended, onHold, retainDays, notices, retentionRun, toldOn, touched, touches>>

Touches(which) ==
  /\ touches < MaxTouches /\ touches' = touches + 1 /\ touched' = touched \cup which
  /\ UNCHANGED <<erasing, kept, now, notices, retentionRun, toldOn>>

\* PUT of the period, DELETE of the override.
SetsPeriod(days) ==
  /\ days # retainDays /\ retainDays' = days
  /\ Touches(IF days < retainDays THEN Records ELSE {})
  /\ UNCHANGED <<ended, onHold>>

\* PUT of a legal hold.
SetsHold(r) ==
  /\ onHold' = IF r \in onHold THEN onHold \ {r} ELSE onHold \cup {r}
  /\ Touches({r} \cap onHold) /\ UNCHANGED <<ended, retainDays>>

\* The absence is edited, the member returns or the day of the exit is corrected.
EditsEnd(r, day) ==
  /\ r \in kept /\ day # ended[r] /\ ended' = [ended EXCEPT ![r] = day]
  /\ Touches(IF day < ended[r] THEN {r} ELSE {}) /\ UNCHANGED <<onHold, retainDays>>

RetentionNext ==
  \/ SweepSelects \/ SweepDeletes \/ SweepCounts \/ SweepAnnounces \/ SweepLogs \/ ExpirySweepDies
  \/ MidnightPasses
  \/ \E days \in Periods : SetsPeriod(days)
  \/ \E r \in Records : SetsHold(r) \/ \E day \in Nows : EditsEnd(r, day)

RetentionSpec == RetentionInit /\ [][RetentionNext]_retentionVars

-----------------------------------------------------------------------------
\* Properties

ToldLongBefore(r) == \E d \in toldOn[r] : d + NoticeDays <= now

\* What nobody made due earlier is deleted only after its club was told of it and
\* had the days of the notice, through crashes of the sweep, batches, sweeps that
\* reach nobody and further records that become due.
UntouchedAreTold == \A r \in kept \ kept' : r \in touched \/ ToldLongBefore(r)

\* A member whose hold is set while the sweep is already erasing is not erased.
HeldMembersStay == erasing => (kept \ kept') \cap onHold = {}

RetentionPromise ==
  /\ []RetentionTypeOK
  /\ [][UntouchedAreTold /\ HeldMembersStay]_retentionVars

\* sweep.ts:74: "A notice covers the data that was due when it was given [...];
\* whatever becomes due later needs a fresh notice."
ToldBeforeDeleted == [][\A r \in kept \ kept' : ToldLongBefore(r)]_retentionVars

\* categories.ts:40: "no retention category may touch their data".
HeldIsKept == [][(kept \ kept') \cap onHold = {}]_retentionVars

-----------------------------------------------------------------------------
(* Erasing members (src/src/lib/privacy/erasure.ts, subject.ts, requests.ts,   *)
(* contributors*.ts; routes/member-privacy.ts, data-subject-requests.ts and    *)
(* admin-users.ts): by the board, which confirms the digest of a plan, by the  *)
(* retention sweep, and by the deletion of an account, row after row. Inserts  *)
(* that reference a member's row wait for the lock an erasure holds on it;     *)
(* what references the account, loans and roles above all, does not. The       *)
(* requests an erasure closes are left out.                                    *)
CONSTANTS
  Rows,           \* club_members rows: of one person, or of the members of one club
  ErasureCalls,
  Unlocked,
  MaxRowMoves     \* changes of the rows by everybody else

ASSUME ErasureAssumption == MaxRowMoves \in Nat /\ Unlocked \notin ErasureCalls

VARIABLES
  onePerson,      \* are the rows one person's, each in a club of its own
  person,         \* each row, with what hangs on it and on its account
  rowLock,        \* the call that holds a row FOR UPDATE
  erasureCalls,
  usersGone,      \* rows whose person's user is deleted
  rowMoves

erasureVars == <<onePerson, person, rowLock, erasureCalls, usersGone, rowMoves>>

NoErasure == [op |-> "none"]
NoDigest == [papers |-> -1, things |-> -1]
Stands == {"absent", "member", "erased"}

\* What the steps of an erasure find of a person in one club.
Subject == [is: Stands, account: BOOLEAN, owner: BOOLEAN, hold: BOOLEAN,
            exit: BOOLEAN, duty: BOOLEAN, papers: 0..1, things: 0..1]

ErasureTypeOK ==
  /\ person \in [Rows -> Subject]
  /\ rowLock \in [Rows -> ErasureCalls \cup {Unlocked}] /\ usersGone \subseteq Rows
  /\ \A r \in Rows : person[r].is = "erased" => ~person[r].account /\ ~person[r].duty
  /\ rowMoves \in 0..MaxRowMoves

Row(is) == [is |-> is, account |-> is = "member", owner |-> FALSE, hold |-> FALSE, exit |-> FALSE,
            duty |-> FALSE, papers |-> 0, things |-> 0]

\* One person who may join a second club, or a club with its owners.
ErasureInit ==
  /\ \/ /\ onePerson = TRUE
        /\ \E here \in Rows : person = [r \in Rows |-> Row(IF r = here THEN "member" ELSE "absent")]
     \/ onePerson = FALSE /\ person = [r \in Rows |-> [Row("member") EXCEPT !.owner = TRUE]]
  /\ rowLock = [r \in Rows |-> Unlocked] /\ erasureCalls = [c \in ErasureCalls |-> NoErasure]
  /\ usersGone = {} /\ rowMoves = 0

RowsOfUser(r) == IF onePerson THEN Rows ELSE {r}
DigestOf(r) == [papers |-> person[r].papers, things |-> person[r].things]
RowFree(r) == rowLock[r] = Unlocked
Goes(c, call) == erasureCalls' = [erasureCalls EXCEPT ![c] = call]

\* blockersOf: the hold of the row as it was read, then exit requests, then what
\* hangs on the account, then another owner of the club.
Dutiful(r) == person[r].account /\ person[r].duty
SoleOwner(r) ==
  /\ person[r].account /\ person[r].owner
  /\ onePerson \/ ~\E o \in Rows \ {r} : person[o].account /\ person[o].owner
HasBlocker(r) == person[r].hold \/ person[r].exit \/ Dutiful(r) \/ SoleOwner(r)

-----------------------------------------------------------------------------
\* planErasure and who starts an erasure.

\* The board runs a plan, which blockers make useless, and executes it later.
BoardPlans(c, r) ==
  /\ erasureCalls[c] = NoErasure /\ person[r].is # "absent" /\ ~HasBlocker(r)
  /\ Goes(c, [op |-> "asked", row |-> r, digest |-> DigestOf(r), todo |-> {}])
  /\ UNCHANGED <<onePerson, person, rowLock, usersGone, rowMoves>>

\* eraseMembers of the retention sweep: no plan, whoever is blocked stays.
RetentionAsks(c, r) ==
  /\ erasureCalls[c] = NoErasure /\ person[r].is = "member"
  /\ Goes(c, [op |-> "asked", row |-> r, digest |-> NoDigest, todo |-> {}])
  /\ UNCHANGED <<onePerson, person, rowLock, usersGone, rowMoves>>

\* eraseAccountMemberships lists the rows of the user ...
ListsMemberships(c, r) ==
  /\ erasureCalls[c] = NoErasure /\ r \notin usersGone
  /\ LET rows == {o \in RowsOfUser(r) : person[o].is = "member"}
     IN Goes(c, [op |-> "planning", of |-> r, listed |-> rows, todo |-> rows])
  /\ UNCHANGED <<onePerson, person, rowLock, usersGone, rowMoves>>

\* ... plans each, and gives up if one is blocked or an application is under review.
PlansMembership(c) ==
  LET call == erasureCalls[c]
  IN /\ call.op = "planning"
     /\ \/ \E r \in call.todo :
             Goes(c, IF HasBlocker(r) THEN NoErasure ELSE [call EXCEPT !.todo = @ \ {r}])
        \/ call.todo = {} /\ Goes(c, [call EXCEPT !.op = "erasing", !.todo = call.listed])
        \/ call.todo = {} /\ Goes(c, NoErasure)
     /\ UNCHANGED <<onePerson, person, rowLock, usersGone, rowMoves>>

\* Then it erases one after the other.
ErasesNext(c) ==
  LET call == erasureCalls[c]
  IN /\ call.op = "erasing"
     /\ \E r \in call.todo : Goes(c, [op |-> "asked", row |-> r, digest |-> NoDigest,
                                      todo |-> call.todo \ {r}, of |-> call.of, listed |-> call.listed])
     /\ UNCHANGED <<onePerson, person, rowLock, usersGone, rowMoves>>

\* The user row goes, and with it the accounts of every club.
DeletesUser(c) ==
  LET call == erasureCalls[c]
  IN /\ call.op = "erasing" /\ call.todo = {}
     /\ \A r \in RowsOfUser(call.of) : RowFree(r)
     /\ usersGone' = usersGone \cup RowsOfUser(call.of)
     /\ person' = [r \in Rows |-> IF r \in RowsOfUser(call.of)
                                  THEN [person[r] EXCEPT !.account = FALSE, !.duty = FALSE,
                                                         !.owner = FALSE, !.things = 0]
                                  ELSE person[r]]
     /\ Goes(c, NoErasure) /\ UNCHANGED <<onePerson, rowLock, rowMoves>>

-----------------------------------------------------------------------------
\* executeErasure: one transaction that holds the row.

\* Faulty variant: the row is read without a lock.
TakesRowUnlocked(c, r) == UNCHANGED rowLock

TakesRow(c, r) == RowFree(r) /\ rowLock' = [rowLock EXCEPT ![r] = c]

\* The lock is gone with the transaction, and with a deletion that is refused.
LetsRowGo(c, r) == rowLock' = [rowLock EXCEPT ![r] = IF @ = c THEN Unlocked ELSE @]

LocksRow(c) ==
  LET call == erasureCalls[c]
  IN /\ call.op = "asked"
     /\ IF person[call.row].hold THEN RowFree(call.row) /\ Goes(c, NoErasure) /\ UNCHANGED rowLock
        ELSE TakesRow(c, call.row) /\ Goes(c, [call EXCEPT !.op = "locked"])
     /\ UNCHANGED <<onePerson, person, usersGone, rowMoves>>

Refuses(c) == Goes(c, NoErasure) /\ LetsRowGo(c, erasureCalls[c].row)

\* Faulty variant: the exit requests are not looked at.
ExitStandsNever(r) == FALSE

ExitStands(r) == person[r].exit

ReadsExit(c) ==
  LET call == erasureCalls[c]
  IN /\ call.op = "locked"
     /\ IF ExitStands(call.row) THEN Refuses(c)
        ELSE Goes(c, [call EXCEPT !.op = "unexited"]) /\ UNCHANGED rowLock
     /\ UNCHANGED <<onePerson, person, usersGone, rowMoves>>

ReadsAccount(c) ==
  LET call == erasureCalls[c]
  IN /\ call.op = "unexited"
     /\ IF Dutiful(call.row) \/ SoleOwner(call.row) THEN Refuses(c)
        ELSE Goes(c, [call EXCEPT !.op = "unblocked"]) /\ UNCHANGED rowLock
     /\ UNCHANGED <<onePerson, person, usersGone, rowMoves>>

\* Faulty variant: a plan of the board is not compared.
PlanStandsAlways(call) == TRUE

\* simulate: the counts, in a savepoint that is rolled back.
PlanStands(call) == call.digest \in {NoDigest, DigestOf(call.row)}

ComparesPlan(c) ==
  LET call == erasureCalls[c]
  IN /\ call.op = "unblocked"
     /\ IF PlanStands(call) THEN Goes(c, [call EXCEPT !.op = "running"]) /\ UNCHANGED rowLock
        ELSE Refuses(c)
     /\ UNCHANGED <<onePerson, person, usersGone, rowMoves>>

\* runSteps: the contributors and the account; then the requests are closed and the
\* transaction commits. An account deletion goes on.
ErasesRow(c) ==
  LET call == erasureCalls[c]
      r == call.row
  IN /\ call.op = "running"
     /\ person' = [person EXCEPT ![r] = [Row("erased") EXCEPT !.hold = person[r].hold]]
     /\ LetsRowGo(c, r)
     /\ Goes(c, IF "of" \in DOMAIN call
                THEN [op |-> "erasing", of |-> call.of, listed |-> call.listed, todo |-> call.todo]
                ELSE NoErasure)
     /\ UNCHANGED <<onePerson, usersGone, rowMoves>>

\* A process ends: the transaction is rolled back.
ErasureDies(c) ==
  /\ erasureCalls[c] # NoErasure /\ Goes(c, NoErasure)
  /\ rowLock' = [r \in Rows |-> IF rowLock[r] = c THEN Unlocked ELSE rowLock[r]]
  /\ UNCHANGED <<onePerson, person, usersGone, rowMoves>>

-----------------------------------------------------------------------------
\* What everybody else does with the row and its account.

RowMoves(r, after) ==
  /\ rowMoves < MaxRowMoves /\ rowMoves' = rowMoves + 1
  /\ person' = [person EXCEPT ![r] = after]
  /\ UNCHANGED <<onePerson, rowLock, erasureCalls, usersGone>>

\* PUT of a legal hold, an UPDATE of the row.
PutsHold(r) == /\ RowFree(r) /\ person[r].is # "absent"
               /\ RowMoves(r, [person[r] EXCEPT !.hold = ~@])

\* An exit is requested under the lock of the row, or decided.
AsksForExit(r) == /\ RowFree(r) /\ person[r].is = "member" /\ ~person[r].exit
                  /\ RowMoves(r, [person[r] EXCEPT !.exit = TRUE])
EndsExit(r) == RowFree(r) /\ person[r].exit /\ RowMoves(r, [person[r] EXCEPT !.exit = FALSE])

\* A report, a consent or another row that references the member comes or goes.
AddsPaper(r) == /\ RowFree(r) /\ person[r].is # "absent" /\ person[r].papers = 0
                /\ RowMoves(r, [person[r] EXCEPT !.papers = 1])
DropsPaper(r) == person[r].papers = 1 /\ RowMoves(r, [person[r] EXCEPT !.papers = 0])

\* A row that references the account, or a loan or role that blocks.
AddsThing(r) == /\ person[r].account /\ person[r].things = 0
                /\ RowMoves(r, [person[r] EXCEPT !.things = 1])
TogglesDuty(r) == person[r].account /\ RowMoves(r, [person[r] EXCEPT !.duty = ~@])

\* The person joins the club, or leaves it and stays known by the user.
JoinsClub(r) == /\ person[r].is = "absent" /\ r \notin usersGone /\ RowMoves(r, Row("member"))
LeavesClub(r) ==
  /\ person[r].account /\ ~person[r].owner /\ RowFree(r)
  /\ RowMoves(r, [person[r] EXCEPT !.account = FALSE, !.duty = FALSE, !.things = 0])

ErasureNext ==
  \/ \E c \in ErasureCalls :
       \/ \E r \in Rows : BoardPlans(c, r) \/ RetentionAsks(c, r) \/ ListsMemberships(c, r)
       \/ PlansMembership(c) \/ ErasesNext(c) \/ DeletesUser(c)
       \/ LocksRow(c) \/ ReadsExit(c) \/ ReadsAccount(c) \/ ComparesPlan(c) \/ ErasesRow(c)
       \/ ErasureDies(c)
  \/ \E r \in Rows :
       \/ PutsHold(r) \/ AsksForExit(r) \/ EndsExit(r) \/ AddsPaper(r) \/ DropsPaper(r)
       \/ AddsThing(r) \/ TogglesDuty(r) \/ JoinsClub(r) \/ LeavesClub(r)

ErasureSpec == ErasureInit /\ [][ErasureNext]_erasureVars

-----------------------------------------------------------------------------
\* Properties

\* The step in which the erasure of a call commits.
ErasedBy(c) == /\ erasureCalls[c].op = "running" /\ erasureCalls'[c] # erasureCalls[c]
               /\ person' # person
Erased(c) == person[erasureCalls[c].row]

\* Nobody is erased with a legal hold or a pending exit, also not one that came
\* up while the erasure was under way.
HeldAndLeavingStay == \A c \in ErasureCalls : ErasedBy(c) => ~Erased(c).hold /\ ~Erased(c).exit

\* Of what references the member, nothing goes that the confirmed plan did not count.
NothingUnseenGoes ==
  \A c \in ErasureCalls :
    ErasedBy(c) => LET plan == erasureCalls[c].digest
                   IN plan = NoDigest \/ Erased(c).papers <= plan.papers

\* A user goes only after every row that was listed is erased, whoever refuses.
UsersGoErased ==
  \A c \in ErasureCalls :
    (usersGone' # usersGone /\ erasureCalls'[c] # erasureCalls[c])
      => \A r \in erasureCalls[c].listed : person[r].is = "erased"

ErasurePromise ==
  /\ []ErasureTypeOK
  /\ [][HeldAndLeavingStay /\ NothingUnseenGoes /\ UsersGoErased]_erasureVars

\* erasure.ts:53: "`execute` must send it back, so the board confirms exactly what it saw".
PlanIsWhatGoes ==
  [][\A c \in ErasureCalls :
       ErasedBy(c) => LET plan == erasureCalls[c].digest
                      IN plan = NoDigest \/ Erased(c).things <= plan.things]_erasureVars

\* erasure.ts:70: "The member still has borrowed items: have them returned first".
DutiesAreHandedOver == [][\A c \in ErasureCalls : ErasedBy(c) => ~Erased(c).duty]_erasureVars

\* erasure.ts:80: "This is the only owner of the club: transfer the ownership first".
SomebodyOwns == onePerson \/ \E r \in Rows : person[r].account /\ person[r].owner

\* erasure.ts:176: "from every club they belong to or belonged to before the user row goes".
EveryClubErases == \A r \in usersGone : person[r].is # "member"

-----------------------------------------------------------------------------
(* The consents of one member for one purpose (src/src/lib/consent.ts,         *)
(* routes/member-consents.ts, routes/consent-purposes.ts, and the consent      *)
(* block of an accepted application, lib/form-applications.ts): published      *)
(* texts, and a log of decisions of which the newest counts. An event carries  *)
(* the time its transaction began, which is before the lock it waits for.      *)
CONSTANTS
  ConsentCalls,     \* requests that record a decision
  MaxConsentTexts,
  MaxConsentTime    \* decisions, texts and transactions each have a time of their own

ASSUME ConsentAssumption == MaxConsentTexts \in Nat /\ MaxConsentTime \in Nat

VARIABLES
  consentClock,
  consentTexts,     \* when each version was published
  purposeIs,        \* [active, archived]
  consents,         \* consent_records, in the order in which they were written
  grownUp,          \* has the member reached the age of consent
  application,      \* when a consent was ticked in an application under review
  consentLock,      \* the advisory lock of the member and the purpose
  consentCalls

consentVars == <<consentClock, consentTexts, purposeIs, consents, grownUp, application,
                 consentLock, consentCalls>>

NoDecision == [op |-> "none"]
NoEvent == [action |-> "none", text |-> 0, by |-> "self", at |-> 0]
NoTime == 0
CurrentText == Len(consentTexts)

Purpose == [active: BOOLEAN, archived: BOOLEAN]

ConsentRecord == [action: {"granted", "revoked"}, text: 1..MaxConsentTexts,
                  by: {"self", "other"}, at: 1..MaxConsentTime]

ConsentTypeOK ==
  /\ consentClock \in 1..MaxConsentTime + 1 /\ Len(consentTexts) <= MaxConsentTexts
  /\ purposeIs \in Purpose
  /\ \A i \in DOMAIN consents : consents[i] \in ConsentRecord
  /\ consentLock \subseteq ConsentCalls /\ Cardinality(consentLock) <= 1
  /\ grownUp \in BOOLEAN /\ application \in 0..MaxConsentTime

ConsentInit ==
  /\ consentClock = 1 /\ consentTexts = <<>> /\ consents = <<>>
  /\ purposeIs = [active |-> FALSE, archived |-> FALSE]
  /\ grownUp \in BOOLEAN /\ application = NoTime
  /\ consentLock = {} /\ consentCalls = [c \in ConsentCalls |-> NoDecision]

TimePasses == consentClock <= MaxConsentTime /\ consentClock' = consentClock + 1
Decision(c, call) == consentCalls' = [consentCalls EXCEPT ![c] = call]

\* latestRecords: the newest event by its time.
NewestOf(log) == IF log = <<>> THEN NoEvent
                 ELSE log[CHOOSE i \in DOMAIN log : \A j \in DOMAIN log : log[j].at <= log[i].at]

-----------------------------------------------------------------------------
\* The purpose and its texts.

\* POST of a text, under FOR UPDATE on the purpose; the first one activates it.
PublishesText ==
  /\ ~purposeIs.archived /\ CurrentText < MaxConsentTexts /\ TimePasses
  /\ consentTexts' = Append(consentTexts, consentClock)
  /\ purposeIs' = [purposeIs EXCEPT !.active = @ \/ consentTexts = <<>>]
  /\ UNCHANGED <<consents, grownUp, application, consentLock, consentCalls>>

\* PATCH: `archived`, which also switches the purpose off, or `active`.
EditsPurpose ==
  /\ TimePasses
  /\ purposeIs' \in {[active |-> FALSE, archived |-> TRUE], [purposeIs EXCEPT !.archived = FALSE],
                     [purposeIs EXCEPT !.active = FALSE],
                     [purposeIs EXCEPT !.active = @ \/ consentTexts # <<>>]}
  /\ UNCHANGED <<consentTexts, consents, grownUp, application, consentLock, consentCalls>>

GrowsUp == /\ ~grownUp /\ grownUp' = TRUE
           /\ UNCHANGED <<consentClock, consentTexts, purposeIs, consents, application,
                          consentLock, consentCalls>>

-----------------------------------------------------------------------------
\* A decision is authorised, begins its transaction, waits and is recorded.

\* authorize: a minor alone may only revoke; another is the guardian of a minor or
\* the board, which records a paper proof for everybody.
MayDecide(by, action) == by = "self" => grownUp \/ action = "revoked"

\* POST or DELETE of a consent; a grant names the text that was shown.
DecidesConsent(c, by, action) ==
  /\ consentCalls[c] = NoDecision /\ MayDecide(by, action)
  /\ action = "granted" => CurrentText > 0
  /\ Decision(c, [op |-> "decided", by |-> by, action |-> action, shown |-> CurrentText,
                      dated |-> NoTime, begun |-> NoTime])
  /\ UNCHANGED <<consentClock, consentTexts, purposeIs, consents, grownUp, application,
                 consentLock>>

\* An application with a ticked consent is submitted.
TicksConsent ==
  /\ application = NoTime /\ TimePasses /\ application' = consentClock
  /\ UNCHANGED <<consentTexts, purposeIs, consents, grownUp, consentLock, consentCalls>>

\* It is accepted: recordFormConsents takes the text that was published when it
\* was submitted, and that time.
AcceptsTicked(c, by) ==
  LET seen == Cardinality({v \in 1..CurrentText : consentTexts[v] <= application})
  IN /\ consentCalls[c] = NoDecision /\ application # NoTime /\ application' = NoTime
     /\ (by = "self") = grownUp /\ seen > 0
     /\ Decision(c, [op |-> "decided", by |-> by, action |-> "granted", shown |-> seen,
                     dated |-> application, begun |-> NoTime])
     /\ UNCHANGED <<consentClock, consentTexts, purposeIs, consents, grownUp, consentLock>>

\* The purpose is read before the lock is asked for.
BeginsToRecord(c) ==
  LET call == consentCalls[c]
  IN /\ call.op = "decided" /\ TimePasses
     /\ IF call.action = "granted" /\ purposeIs # [active |-> TRUE, archived |-> FALSE]
        THEN Decision(c, NoDecision)
        ELSE Decision(c, [call EXCEPT !.op = "begun", !.begun = consentClock])
     /\ UNCHANGED <<consentTexts, purposeIs, consents, grownUp, application, consentLock>>

\* Faulty variant: decisions are not serialised.
DecisionsFreeAlways == TRUE

DecisionsFree == consentLock = {}

\* Under the lock: the current text and the last event.
ReadsLast(c) ==
  LET call == consentCalls[c]
  IN /\ call.op = "begun" /\ DecisionsFree /\ consentLock' = {c}
     /\ Decision(c, [op |-> "read", call |-> call, current |-> CurrentText,
                     last |-> NewestOf(consents)])
     /\ UNCHANGED <<consentClock, consentTexts, purposeIs, consents, grownUp, application>>

\* Faulty variant: the text that was shown is not compared with the current one.
ShownIsCurrentAlways(call, current) == TRUE

ShownIsCurrent(call, current) == call.shown = current

\* Does a decision say anything that the last event does not?
SaysMore(call, text, last) ==
  IF call.action = "revoked" THEN last.action # "revoked"
  ELSE last.action # "granted" \/ last.text # text \/ (call.by = "self" /\ last.by # "self")

\* A repeated decision writes nothing. An event is dated with the start of its
\* transaction, one of an application with its submission if nothing is newer.
WritesDecision(c) ==
  LET read == consentCalls[c]
      call == read.call
      text == IF call.action = "granted" \/ read.last = NoEvent THEN read.current ELSE read.last.text
      at == IF call.dated > read.last.at THEN call.dated ELSE call.begun
      refused == text = 0 \/ (call.action = "granted" /\ ~ShownIsCurrent(call, read.current))
  IN /\ read.op = "read"
     /\ consents' = IF refused \/ ~SaysMore(call, text, read.last) THEN consents
                    ELSE Append(consents, [action |-> call.action, text |-> text, by |-> call.by, at |-> at])
     /\ consentLock' = consentLock \ {c}
     /\ Decision(c, NoDecision)
     /\ UNCHANGED <<consentClock, consentTexts, purposeIs, grownUp, application>>

\* A process ends, or the transaction of the acceptance is rolled back.
GivesUp(c) ==
  /\ consentCalls[c] # NoDecision /\ Decision(c, NoDecision) /\ consentLock' = consentLock \ {c}
  /\ UNCHANGED <<consentClock, consentTexts, purposeIs, consents, grownUp, application>>

ConsentNext ==
  \/ PublishesText \/ EditsPurpose \/ GrowsUp \/ TicksConsent
  \/ \E c \in ConsentCalls :
       \/ \E by \in {"self", "other"} :
            \/ \E action \in {"granted", "revoked"} : DecidesConsent(c, by, action)
            \/ AcceptsTicked(c, by)
       \/ BeginsToRecord(c) \/ ReadsLast(c) \/ WritesDecision(c) \/ GivesUp(c)

ConsentSpec == ConsentInit /\ [][ConsentNext]_consentVars

-----------------------------------------------------------------------------
\* Properties

\* "Repeating the current state writes nothing": whatever runs in parallel, an
\* event differs from the newest one at the moment it is written, or is the
\* person's own confirmation of what somebody else decided.
RepeatsWriteNothing ==
  \A i \in DOMAIN consents' :
    i \notin DOMAIN consents => SaysMore(consents'[i], consents'[i].text, NewestOf(consents))

\* A grant is recorded for the text its person was shown, although texts are
\* published while an application is under review or a decision waits.
GrantsNameShownText ==
  \A c \in ConsentCalls :
    (consentCalls[c].op = "read" /\ consentCalls'[c] = NoDecision /\ consents' # consents)
      => LET new == consents'[Len(consents')]
         IN new.action = "granted" => new.text = consentCalls[c].call.shown

ConsentPromise ==
  /\ []ConsentTypeOK
  /\ [][RepeatsWriteNothing /\ GrantsNameShownText]_consentVars

\* consent.ts, on the date of an event: "never before the member's newest event
\* (latest wins)". What is recorded is the newest event from then on.
RecordedIsNewest ==
  [][consents' # consents => NewestOf(consents') = consents'[Len(consents')]]_consentVars

-----------------------------------------------------------------------------
\* What the components about personal data promise: nobody is recorded as having
\* agreed to a text not shown, what is announced or held is not erased, and an
\* account that is gone has left nothing behind.
PrivacyPromise ==
  /\ ConsentPromise
  /\ ErasurePromise
  /\ RetentionPromise
=============================================================================
