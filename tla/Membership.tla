------------------------------- MODULE Membership -------------------------------
(***************************************************************************)
(* One member of a club from joining to leaving and back: status changes,     *)
(* cancellations and exclusions, the account behind the person, and what       *)
(* hangs on an exit: the membership card, the retention of the person's        *)
(* documents and the message that the exit has become effective               *)
(* (src/src/lib/member-lifecycle.ts, routes/club-exit-requests.ts,            *)
(* lib/form-exit.ts, lib/exit-effective.ts, lib/member-cards.ts,              *)
(* lib/document-retention.ts).                                               *)
(*                                                                         *)
(* A call reads the day, the notice rules and the request first, and works in  *)
(* a transaction that locks the member row later; creating and approving a     *)
(* request are therefore two steps.  A day is a number, 0 is NULL.             *)
(***************************************************************************)
EXTENDS Integers, Sequences, FiniteSets

CONSTANTS
  Officers,     \* accounts with members:write
  NoticePeriods,      \* notice rules: [days, period], rounded up to the end of a period
  LastDay,      \* bound on the days that pass
  MaxRequests,  \* bound on the requests of the member
  MaxPersonMoves,     \* bound on the calls of the member and the board
  CatchUp,      \* CATCH_UP_DAYS of the announcement
  KeepDays      \* retention after the exit

ASSUME MembershipAssumption ==
  /\ {LastDay, MaxRequests, MaxPersonMoves, CatchUp, KeepDays} \subseteq Nat /\ LastDay > 0
  /\ \A n \in NoticePeriods : n.days \in Nat /\ n.period \in Nat \ {0}

VARIABLES
  day,        \* todayBerlin()
  noticeSetting,     \* notice period and mode of the club
  person,     \* the club_members row
  requests,   \* club_exit_requests of the member, each with its exit form
  exitCall,   \* a create or an approve that has not reached its transaction
  card,       \* member_cards
  proof,      \* a document of the person whose retention starts with the exit
  due,        \* exit days with an exit_effective_notify job
  announced,  \* exit days announced to the leadership
  personMoves       \* calls of people so far, a bound

membershipVars == <<day, noticeSetting, person, requests, exitCall, card, proof, due, announced, personMoves>>

-----------------------------------------------------------------------------
NoDay == 0
Days == 1..(LastDay + 1)
LeftStates == {"ausgetreten", "ausgeschlossen", "verstorben"}
Member == "member"
NoOfficer == "nobody"
NoExitCall == [op |-> "none"]

\* STATUS_TRANSITIONS of the statuses a full member can have.
Allowed == [aktiv |-> {"ruhend"} \cup LeftStates, ruhend |-> {"aktiv"} \cup LeftStates,
            ausgetreten |-> {"aktiv"}, ausgeschlossen |-> {"aktiv"}, verstorben |-> {"aktiv"}]

ExitRequest == [kind: {"cancellation", "exclusion"}, by: Officers \cup {Member, NoOfficer},
                on: Days, effectiveOn: Days \cup {NoDay},
                status: {"pending", "approved", "rejected", "withdrawn"},
                form: {"none", "submitted", "accepted", "rejected", "withdrawn"}]

MembershipTypeOK ==
  /\ day \in 1..LastDay /\ noticeSetting \in NoticePeriods
  /\ person \in [status: DOMAIN Allowed, leftAt: Days \cup {NoDay},
                 account: {"linked", "removed"}, detached: BOOLEAN]
  /\ requests \in Seq(ExitRequest) /\ Len(requests) <= MaxRequests
  /\ exitCall.op \in {"none", "request", "record", "approve"}
  /\ card \in {"none", "aktiv", "austritt", "manuell"}
  /\ proof \in [until: 0..(LastDay + 1 + KeepDays), status: {"aktiv", "zur_loeschung", "deleted"}]
  /\ announced \subseteq due /\ due \subseteq Days /\ personMoves \in 0..MaxPersonMoves

MembershipInit ==
  /\ day = 1 /\ noticeSetting \in NoticePeriods
  /\ person = [status |-> "aktiv", leftAt |-> NoDay, account |-> "linked", detached |-> FALSE]
  /\ requests = <<>> /\ exitCall = NoExitCall
  /\ card = "none" /\ proof = [until |-> NoDay, status |-> "aktiv"]
  /\ due = {} /\ announced = {} /\ personMoves = 0

-----------------------------------------------------------------------------
\* A status that has not been left yet, with an exit day of today or earlier, reads as left.
EffectiveStatus(p, today) ==
  IF p.status \notin LeftStates /\ p.leftAt # NoDay /\ p.leftAt <= today THEN "ausgetreten" ELSE p.status

HasLeft(p, today) == EffectiveStatus(p, today) \in LeftStates
HasScheduledExit(p, today) == p.leftAt > today /\ p.status \notin LeftStates

\* Notice period, rounded up to the end of the month, quarter or year.
EarliestExit(on, rules) ==
  CHOOSE d \in (on + rules.days)..(on + rules.days + rules.period) :
    /\ d % rules.period = 0
    /\ \A e \in (on + rules.days)..(d - 1) : e % rules.period # 0

\* The stored status again takes a scheduled exit back; everything else is a change of status.
TakesBack(p, to, today) == to = p.status /\ HasScheduledExit(p, today)

MayMove(p, to, on, today) ==
  \/ TakesBack(p, to, today)
  \/ /\ to \in Allowed[EffectiveStatus(p, today)]
     /\ on > today => to = "ausgetreten"

Moved(p, to, on, today) ==
  LET kept == [p EXCEPT !.leftAt = NoDay, !.detached = FALSE]
  IN  IF TakesBack(p, to, today) THEN kept
      ELSE IF to \notin LeftStates THEN [kept EXCEPT !.status = to]
      ELSE [kept EXCEPT !.leftAt = on, !.status = IF on > today THEN @ ELSE to]

\* Leaving revokes an active card, coming back reissues one that an exit revoked.
CardAfter(before, after, today) ==
  CASE ~HasLeft(before, today) /\ HasLeft(after, today) /\ card = "aktiv" -> "austritt"
    [] HasLeft(before, today) /\ ~HasLeft(after, today) /\ card = "austritt" -> "aktiv"
    [] OTHER -> card

\* syncExitRetention: the dates only; a document that waits for its deletion keeps its status.
ProofAfter(p) == IF proof.status = "deleted" THEN proof
                 ELSE [proof EXCEPT !.until = IF p.leftAt = NoDay THEN NoDay ELSE p.leftAt + KeepDays]

\* transitionMember, inside the caller's transaction.
TransitionMember(to, on, today) ==
  /\ MayMove(person, to, on, today)
  /\ person' = Moved(person, to, on, today)
  /\ card' = CardAfter(person, person', today)
  /\ proof' = ProofAfter(person')

-----------------------------------------------------------------------------
Pending == {i \in DOMAIN requests : requests[i].status = "pending"}

\* closeExitSubmission: the exit form, if there is one, follows its request.
FormAfter(r, status) ==
  CASE r.form = "none" -> "none"
    [] status = "approved" -> "accepted"
    [] OTHER -> status

Decided(r, status) == [r EXCEPT !.status = status, !.form = FormAfter(r, status)]

\* The open request of a member who leaves another way.
Superseded == [i \in DOMAIN requests |->
                 IF i \in Pending THEN Decided(requests[i], "rejected") ELSE requests[i]]

CanLeave(p, today) == ~HasLeft(p, today) /\ ~HasScheduledExit(p, today) /\ Pending = {}

Request(kind, by, on, effectiveOn, status, form) ==
  [kind |-> kind, by |-> by, on |-> on, effectiveOn |-> effectiveOn,
   status |-> status, form |-> form]

\* clubGuard: somebody who has left, or whose account is gone, has no access.
HasAccess == person.account = "linked" /\ ~HasLeft(person, day)

\* POST /club-exit-requests, before the transaction: the member asks, or the board records.
AsksToLeave(form) ==
  /\ exitCall = NoExitCall /\ HasAccess /\ Len(requests) < MaxRequests
  /\ exitCall' = [op |-> "request", day |-> day, form |-> form]
  /\ UNCHANGED <<day, noticeSetting, person, requests, card, proof, due, announced>>

RecordsExit(by, kind, effectiveOn, form) ==
  /\ exitCall = NoExitCall /\ Len(requests) < MaxRequests
  /\ IF kind = "cancellation" THEN effectiveOn >= EarliestExit(day, noticeSetting)
     ELSE effectiveOn <= day /\ form = "none"
  /\ exitCall' = [op |-> "record", day |-> day, by |-> by, kind |-> kind,
                  effectiveOn |-> effectiveOn, form |-> form]
  /\ UNCHANGED <<day, noticeSetting, person, requests, card, proof, due, announced>>

FilesRequest ==
  /\ exitCall.op = "request"
  /\ CanLeave(person, exitCall.day)
  /\ requests' = Append(requests, Request("cancellation",
                   IF person.account = "linked" THEN Member ELSE NoOfficer, exitCall.day,
                   NoDay, "pending", exitCall.form))
  /\ exitCall' = NoExitCall
  /\ UNCHANGED <<day, noticeSetting, person, card, proof, due, announced>>

RecordedForm(form) == IF form = "none" THEN form ELSE "accepted"

FilesRecord ==
  /\ exitCall.op = "record"
  /\ LET c == exitCall
         filed == Request(c.kind, c.by, c.day, c.effectiveOn, "approved", RecordedForm(c.form))
     IN  /\ IF c.kind = "cancellation" THEN CanLeave(person, c.day) ELSE ~HasLeft(person, c.day)
         /\ requests' = Append(IF c.kind = "exclusion" THEN Superseded ELSE requests, filed)
         /\ TransitionMember(IF c.kind = "exclusion" THEN "ausgeschlossen" ELSE "ausgetreten",
                             c.effectiveOn, c.day)
  /\ exitCall' = NoExitCall
  /\ UNCHANGED <<day, noticeSetting, due, announced>>

-----------------------------------------------------------------------------
\* POST /:id/approve, before the transaction: the board takes the proposed date,
\* which is the member's wish or the earliest date, or any later one.
StartsApproval(i, by, effectiveOn) ==
  /\ exitCall = NoExitCall
  /\ requests[i].status = "pending" /\ requests[i].by # by
  /\ effectiveOn >= EarliestExit(requests[i].on, noticeSetting)
  /\ exitCall' = [op |-> "approve", day |-> day, request |-> i, effectiveOn |-> effectiveOn]
  /\ UNCHANGED <<day, noticeSetting, person, requests, card, proof, due, announced>>

Approves ==
  /\ exitCall.op = "approve"
  /\ LET c == exitCall
     IN  /\ ~HasScheduledExit(person, c.day)
         /\ requests[c.request].status = "pending"
         /\ requests' = [requests EXCEPT ![c.request] =
                           Decided([@ EXCEPT !.effectiveOn = c.effectiveOn], "approved")]
         /\ TransitionMember("ausgetreten", c.effectiveOn, c.day)
  /\ exitCall' = NoExitCall
  /\ UNCHANGED <<day, noticeSetting, due, announced>>

\* Every refusal inside the transaction rolls it back.
CallFails ==
  /\ exitCall # NoExitCall
  /\ exitCall' = NoExitCall
  /\ UNCHANGED <<day, noticeSetting, person, requests, card, proof, due, announced>>

\* reject takes the request only; withdraw locks the member row first.
RejectsExit(i) ==
  /\ requests[i].status = "pending"
  /\ requests' = [requests EXCEPT ![i] = Decided(@, "rejected")]
  /\ UNCHANGED <<day, noticeSetting, person, exitCall, card, proof, due, announced>>

WithdrawsExit(i) ==
  /\ \/ /\ requests[i].status = "pending"
        /\ UNCHANGED <<person, card, proof>>
     \/ /\ requests[i].status = "approved" /\ requests[i].kind = "cancellation"
        /\ HasScheduledExit(person, day) /\ person.leftAt = requests[i].effectiveOn
        /\ TransitionMember(person.status, day, day)
  /\ requests' = [requests EXCEPT ![i] = Decided(@, "withdrawn")]
  /\ UNCHANGED <<day, noticeSetting, exitCall, due, announced>>

\* POST /club-members/:id/transition: a direct exit closes what is open.
ClosesRequests(p, to, today) == to \in LeftStates /\ ~TakesBack(p, to, today)

StatusMoves(to, on) ==
  /\ TransitionMember(to, on, day)
  /\ requests' = IF ClosesRequests(person, to, day) THEN Superseded ELSE requests
  /\ UNCHANGED <<day, noticeSetting, exitCall, due, announced>>

-----------------------------------------------------------------------------
\* The account membership ends elsewhere: member_id and requested_by become NULL.
AccountEnds ==
  /\ person.account = "linked"
  /\ person' = [person EXCEPT !.account = "removed"]
  /\ requests' = [i \in DOMAIN requests |->
                    [requests[i] EXCEPT !.by = IF @ = Member THEN NoOfficer ELSE @]]
  /\ UNCHANGED <<day, noticeSetting, exitCall, card, proof, due, announced>>

\* markDetachedMembersLeft, on the next access to the row.
ClosesExit ==
  /\ person.account = "removed" /\ person.status \notin LeftStates
  /\ person' = [person EXCEPT !.status = "ausgetreten", !.leftAt = day, !.detached = TRUE]
  /\ UNCHANGED <<day, noticeSetting, requests, exitCall, card, proof, due, announced>>

\* ensureClubMember: the person joins again and takes the old row back.
Rejoins ==
  /\ person.account = "removed" /\ person.status \notin {"ausgeschlossen", "verstorben"}
  /\ person' = [status |-> "aktiv", leftAt |-> NoDay, account |-> "linked", detached |-> FALSE]
  /\ UNCHANGED <<day, noticeSetting, requests, exitCall, card, proof, due, announced>>

-----------------------------------------------------------------------------
\* cardForView and ensureCard; reissueCard; revokeCard by hand.
IssuesCard ==
  /\ card = "none" /\ EffectiveStatus(person, day) = "aktiv"
  /\ card' = "aktiv"
  /\ UNCHANGED <<day, noticeSetting, person, requests, exitCall, proof, due, announced>>

ReissuesCard ==
  /\ card \in {"austritt", "manuell"}
  /\ card' = "aktiv"
  /\ UNCHANGED <<day, noticeSetting, person, requests, exitCall, proof, due, announced>>

RevokesCard ==
  /\ card = "aktiv"
  /\ card' = "manuell"
  /\ UNCHANGED <<day, noticeSetting, person, requests, exitCall, proof, due, announced>>

\* runDocumentRetention: what is past its date is hidden, and later deleted.
Expired == proof.until # NoDay /\ proof.until < day

SweepsDocuments ==
  /\ Expired
  /\ \/ proof.status = "aktiv" /\ proof' = [proof EXCEPT !.status = "zur_loeschung"]
     \/ proof.status = "zur_loeschung" /\ proof' = [until |-> NoDay, status |-> "deleted"]
  /\ UNCHANGED <<day, noticeSetting, person, requests, exitCall, card, due, announced>>

\* runExitEffectiveSweep and its job; a job that finds another date says nothing.
SweepsExits ==
  /\ person.leftAt # NoDay /\ person.status \notin LeftStates
  /\ person.leftAt <= day /\ person.leftAt >= day - CatchUp
  /\ person.leftAt \notin due
  /\ due' = due \cup {person.leftAt}
  /\ UNCHANGED <<day, noticeSetting, person, requests, exitCall, card, proof, announced>>

StillEnds(d) == person.leftAt # NoDay   \* faulty variant: any exit will do
StillEndsOn(d) == person.leftAt = d

AnnouncesExit(d) ==
  /\ d \notin announced /\ StillEndsOn(d)
  /\ announced' = announced \cup {d}
  /\ UNCHANGED <<day, noticeSetting, person, requests, exitCall, card, proof, due>>

ChangesNotice(rules) ==
  /\ noticeSetting # rules
  /\ noticeSetting' = rules
  /\ UNCHANGED <<day, person, requests, exitCall, card, proof, due, announced>>

DayPasses ==
  /\ day < LastDay
  /\ day' = day + 1
  /\ UNCHANGED <<noticeSetting, person, requests, exitCall, card, proof, due, announced, personMoves>>

-----------------------------------------------------------------------------
Files == exitCall.op # "none" /\ (FilesRequest \/ FilesRecord \/ Approves \/ CallFails)

OnRequest(i) ==
  \/ RejectsExit(i) \/ WithdrawsExit(i)
  \/ \E by \in Officers, d \in Days : StartsApproval(i, by, d)

Calls ==
  \/ \E form \in {"none", "submitted"} : AsksToLeave(form)
  \/ \E by \in Officers, kind \in {"cancellation", "exclusion"}, d \in Days,
        form \in {"none", "submitted"} : RecordsExit(by, kind, d, form)
  \/ \E i \in DOMAIN requests : OnRequest(i)
  \/ \E to \in DOMAIN Allowed, d \in Days : StatusMoves(to, d)
  \/ AccountEnds \/ Rejoins
  \/ IssuesCard \/ ReissuesCard \/ RevokesCard
  \/ \E rules \in NoticePeriods : ChangesNotice(rules)

Proceeds ==
  \/ Files \/ ClosesExit
  \/ SweepsDocuments \/ SweepsExits \/ (\E d \in due : AnnouncesExit(d))
  \/ DayPasses

MembershipNext ==
  \/ personMoves < MaxPersonMoves /\ personMoves' = personMoves + 1 /\ Calls
  \/ Proceeds /\ UNCHANGED personMoves

MembershipSpec == MembershipInit /\ [][MembershipNext]_membershipVars

-----------------------------------------------------------------------------
\* However a member leaves, by approval, record, exclusion or directly, no
\* request stays open behind; only a row closed because its account is gone
\* may keep one (routes/club-exit-requests.ts:340, routes/club-members.ts:1447).
NothingOpenOnceLeft == HasLeft(person, day) /\ ~person.detached => Pending = {}

\* The exit form of a request tells the same story as the request
\* (lib/form-exit.ts:15), on each of the ways a request can end.
FormFollows ==
  \A i \in DOMAIN requests : requests[i].form \in {"none",
     [pending |-> "submitted", approved |-> "accepted",
      rejected |-> "rejected", withdrawn |-> "withdrawn"][requests[i].status]}

\* The leadership is told of an exit only once the person has left with that
\* day, although days pass and decisions change between sweep and job
\* (lib/exit-effective.ts:82).
ToldOnceGone ==
  [][\A d \in announced' \ announced : HasLeft(person, day) /\ person.leftAt = d]_membershipVars

MembershipPromise == [](MembershipTypeOK /\ NothingOpenOnceLeft /\ FormFollows) /\ ToldOnceGone

\* README.md:1496 and lib/document-retention-sync.ts:14 say that the date is
\* cleared when the person returns, so no proof of a member is ever deleted.
\* Joining again with a new account does not clear it (lib/club-members.ts:126).
MembersKeepTheirProofs ==
  [][proof.status # "deleted" /\ proof'.status = "deleted" => HasLeft(person, day)]_membershipVars

\* README.md:1483: the card of an active member is not shown as left.  Joining
\* again leaves a card revoked by the exit revoked.
MembersCardIsGood ==
  card = "austritt" => HasLeft(person, day)
=============================================================================
