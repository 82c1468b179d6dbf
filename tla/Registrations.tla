----------------------------- MODULE Registrations -----------------------------
(* Registrations of new clubs (src/src/routes/club-registrations.ts for the    *)
(* applicant, routes/admin-club-registrations.ts for the reviewer). Only an    *)
(* approval makes a club, and it makes it on a connection of its own, before   *)
(* its own transaction commits: an approval that fails takes it back.          *)
EXTENDS Integers, FiniteSets

CONSTANTS
  Registrations,
  ReviewCalls,       \* requests of applicants and reviewers under way
  RegisterKeys,      \* registergericht and number
  NoKey, NoReview,
  MaxProofs,         \* MAX_DOCUMENTS_PER_REGISTRATION
  MaxFounded,
  MaxReworks         \* changes and removals of documents, and returns for more information

ASSUME RegistrationsAssumption ==
  /\ {MaxProofs, MaxFounded, MaxReworks} \subseteq Nat
  /\ NoReview \notin ReviewCalls /\ NoKey \notin RegisterKeys

VARIABLES
  registrations,     \* [status, form, key, proofs, club]
  rowHeld,           \* the call that holds the row's lock
  founded,           \* organizations: [of, no, owned]
  foundings,         \* organizations inserted so far
  reviewCalls,
  reworks,
  stranded           \* history: an approval died or its cleanup failed

registrationVars ==
  <<registrations, rowHeld, founded, foundings, reviewCalls, reworks, stranded>>

LegalForms == {"e_v", "nicht_eingetragen"}
ProofKinds == {"registerauszug", "satzung"}
Qualifying == [f \in LegalForms |-> IF f = "e_v" THEN ProofKinds ELSE {"satzung"}]
OpenStatus == {"draft", "needs_info"}
Reviewed == {"pending", "rejected", "approved"}
NoClub == 0
NoReviewCall == [op |-> "none"]

BlankForm == [status |-> "none", form |-> "e_v", key |-> NoKey, proofs |-> {}, club |-> NoClub]

RegistrationsTypeOK ==
  /\ registrations \in
       [Registrations -> [status: OpenStatus \cup Reviewed \cup {"none"}, form: LegalForms,
                          key: RegisterKeys \cup {NoKey}, proofs: SUBSET ProofKinds,
                          club: 0..MaxFounded]]
  /\ rowHeld \in [Registrations -> ReviewCalls \cup {NoReview}]
  /\ founded \subseteq [of: Registrations, no: 1..MaxFounded, owned: BOOLEAN]
  /\ foundings \in 0..MaxFounded /\ reworks \in 0..MaxReworks /\ stranded \in BOOLEAN
  /\ \A r \in Registrations : Cardinality(registrations[r].proofs) <= MaxProofs

RegistrationsInit ==
  /\ registrations = [r \in Registrations |-> BlankForm]
  /\ rowHeld = [r \in Registrations |-> NoReview]
  /\ founded = {} /\ foundings = 0
  /\ reviewCalls = [c \in ReviewCalls |-> NoReviewCall] /\ reworks = 0 /\ stranded = FALSE

ReviewCall(c, call) == reviewCalls' = [reviewCalls EXCEPT ![c] = call]
SetsRow(r, row) == registrations' = [registrations EXCEPT ![r] = row]
ReviewFree(r) == rowHeld[r] = NoReview
Reworks == reworks < MaxReworks /\ reworks' = reworks + 1
ClubsRest == UNCHANGED <<rowHeld, founded, foundings, stranded>>

\* assertRegisterFields
Registered(form, key) == form = "e_v" => key # NoKey

\* Another registration with these register details became a club.
Duplicate(r) ==
  /\ registrations[r].key # NoKey
  /\ \E s \in Registrations \ {r} :
       registrations[s].status = "approved" /\ registrations[s].key = registrations[r].key

-----------------------------------------------------------------------------
\* The applicant

Registers(r, form, key) ==
  /\ registrations[r].status = "none" /\ Registered(form, key)
  /\ SetsRow(r, [BlankForm EXCEPT !.status = "draft", !.form = form, !.key = key])
  /\ ClubsRest /\ UNCHANGED <<reviewCalls, reworks>>

\* PATCH checks the row it has read, with its own fields, and later writes these alone.
ReadsToChange(c, r, change) ==
  /\ reviewCalls[c] = NoReviewCall /\ registrations[r].status \in OpenStatus /\ Reworks
  /\ IF change \in LegalForms THEN Registered(change, registrations[r].key)
     ELSE Registered(registrations[r].form, change)
  /\ ReviewCall(c, [op |-> "change", of |-> r, to |-> change])
  /\ ClubsRest /\ UNCHANGED registrations

\* DELETE of a document finds it in a row that is open.
ReadsToRemove(c, r, kind) ==
  /\ reviewCalls[c] = NoReviewCall /\ registrations[r].status \in OpenStatus /\ Reworks
  /\ kind \in registrations[r].proofs
  /\ ReviewCall(c, [op |-> "remove", of |-> r, to |-> kind])
  /\ ClubsRest /\ UNCHANGED registrations

\* Faulty variant: what was open when it was read is taken to be open.
StillOpenAnyway(r) == registrations[r].status # "none"

\* The row's status under its lock.
StillOpen(r) == registrations[r].status \in OpenStatus

Changes(c) ==
  LET call == reviewCalls[c]
      row == registrations[call.of]
  IN /\ call.op = "change" /\ ReviewFree(call.of) /\ ReviewCall(c, NoReviewCall)
     /\ IF ~StillOpen(call.of) THEN UNCHANGED registrations
        ELSE IF call.to \in LegalForms THEN SetsRow(call.of, [row EXCEPT !.form = call.to])
        ELSE SetsRow(call.of, [row EXCEPT !.key = call.to])
     /\ ClubsRest /\ UNCHANGED reworks

RemovesProof(c) ==
  LET call == reviewCalls[c]
      row == registrations[call.of]
  IN /\ call.op = "remove" /\ ReviewFree(call.of) /\ ReviewCall(c, NoReviewCall)
     /\ IF StillOpen(call.of) THEN SetsRow(call.of, [row EXCEPT !.proofs = @ \ {call.to}])
        ELSE UNCHANGED registrations
     /\ ClubsRest /\ UNCHANGED reworks

\* POST of a document counts and stores it under the row's lock.
AddsProof(r, kind) ==
  /\ ReviewFree(r) /\ StillOpen(r) /\ kind \notin registrations[r].proofs
  /\ Cardinality(registrations[r].proofs) < MaxProofs
  /\ SetsRow(r, [registrations[r] EXCEPT !.proofs = @ \cup {kind}])
  /\ ClubsRest /\ UNCHANGED <<reviewCalls, reworks>>

\* Submitting checks all of it under the lock.
Submits(r) ==
  LET row == registrations[r]
  IN /\ ReviewFree(r) /\ StillOpen(r) /\ Registered(row.form, row.key)
     /\ row.proofs \cap Qualifying[row.form] # {} /\ ~Duplicate(r)
     /\ SetsRow(r, [row EXCEPT !.status = "pending"])
     /\ ClubsRest /\ UNCHANGED <<reviewCalls, reworks>>

-----------------------------------------------------------------------------
\* The reviewer

\* decideWithNote: an update of the pending row.
Rejects(r) ==
  /\ ReviewFree(r) /\ registrations[r].status = "pending"
  /\ SetsRow(r, [registrations[r] EXCEPT !.status = "rejected"])
  /\ ClubsRest /\ UNCHANGED <<reviewCalls, reworks>>

AsksForMore(r) ==
  /\ ReviewFree(r) /\ registrations[r].status = "pending" /\ Reworks
  /\ SetsRow(r, [registrations[r] EXCEPT !.status = "needs_info"])
  /\ ClubsRest /\ UNCHANGED reviewCalls

Approval(c, step) == reviewCalls[c].op = "approve" /\ reviewCalls[c].step = step
Proceeds(c, step) == ReviewCall(c, [reviewCalls[c] EXCEPT !.step = step])

ReadsToApprove(c, r) ==
  /\ reviewCalls[c] = NoReviewCall /\ registrations[r].status = "pending"
  /\ ReviewCall(c, [op |-> "approve", of |-> r, step |-> "waits", no |-> NoClub])
  /\ ClubsRest /\ UNCHANGED <<registrations, reworks>>

\* The lock, and everything again under it.
LocksToApprove(c) ==
  LET r == reviewCalls[c].of
  IN /\ Approval(c, "waits") /\ ReviewFree(r)
     /\ IF registrations[r].status = "pending" /\ ~Duplicate(r)
        THEN Proceeds(c, "checked") /\ rowHeld' = [rowHeld EXCEPT ![r] = c]
        ELSE ReviewCall(c, NoReviewCall) /\ UNCHANGED rowHeld
     /\ UNCHANGED <<registrations, founded, foundings, reworks, stranded>>

\* createOrganization, statement by statement: the organization, then its owner.
FoundsClub(c) ==
  LET r == reviewCalls[c].of
  IN /\ Approval(c, "checked") /\ foundings < MaxFounded /\ foundings' = foundings + 1
     /\ founded' = founded \cup {[of |-> r, no |-> foundings + 1, owned |-> FALSE]}
     /\ ReviewCall(c, [reviewCalls[c] EXCEPT !.step = "founded", !.no = foundings + 1])
     /\ UNCHANGED <<registrations, rowHeld, reworks, stranded>>

ClubOf(c) == [of |-> reviewCalls[c].of, no |-> reviewCalls[c].no, owned |-> TRUE]
Bare(c) == [ClubOf(c) EXCEPT !.owned = FALSE]

OwnerJoins(c) ==
  /\ Approval(c, "founded") /\ Proceeds(c, "owned")
  /\ founded' = (founded \ {Bare(c)}) \cup {ClubOf(c)}
  /\ UNCHANGED <<registrations, rowHeld, foundings, reworks, stranded>>

\* The owner's insert fails: removeOwnOrphanOrganization, and another try.
OwnerFails(c) ==
  /\ Approval(c, "founded") /\ Proceeds(c, "checked") /\ founded' = founded \ {Bare(c)}
  /\ UNCHANGED <<registrations, rowHeld, foundings, reworks, stranded>>

Approves(c) ==
  LET r == reviewCalls[c].of
  IN /\ Approval(c, "owned") /\ registrations[r].status = "pending"
     /\ SetsRow(r, [registrations[r] EXCEPT !.status = "approved", !.club = reviewCalls[c].no])
     /\ rowHeld' = [rowHeld EXCEPT ![r] = NoReview] /\ ReviewCall(c, NoReviewCall)
     /\ UNCHANGED <<founded, foundings, reworks, stranded>>

\* A statement fails: the transaction is undone, then the catch removes the club.
ApprovalFails(c) ==
  /\ Approval(c, "owned") /\ Proceeds(c, "undone")
  /\ rowHeld' = [rowHeld EXCEPT ![reviewCalls[c].of] = NoReview]
  /\ UNCHANGED <<registrations, founded, foundings, reworks, stranded>>

\* Faulty variant: an owned club is left where it is.
TakesBackNothing(c) == founded

TakesBack(c) == founded \ {ClubOf(c)}

CleansUp(c) ==
  /\ Approval(c, "undone") /\ ReviewCall(c, NoReviewCall) /\ founded' = TakesBack(c)
  /\ UNCHANGED <<registrations, rowHeld, foundings, reworks, stranded>>

\* The process ends, or the removal fails and is only logged.
ReviewDies(c) ==
  LET call == reviewCalls[c]
  IN /\ call # NoReviewCall /\ ReviewCall(c, NoReviewCall)
     /\ rowHeld' = [r \in Registrations |-> IF rowHeld[r] = c THEN NoReview ELSE rowHeld[r]]
     /\ stranded' = (stranded \/ (call.op = "approve" /\ call.no # NoClub))
     /\ UNCHANGED <<registrations, founded, foundings, reworks>>

RegistrationsNext ==
  \/ \E r \in Registrations :
       \/ \E f \in LegalForms, k \in RegisterKeys \cup {NoKey} : Registers(r, f, k)
       \/ \E k \in ProofKinds : AddsProof(r, k)
       \/ Submits(r) \/ Rejects(r) \/ AsksForMore(r)
  \/ \E c \in ReviewCalls, r \in Registrations :
       \/ \E x \in LegalForms \cup RegisterKeys \cup {NoKey} : ReadsToChange(c, r, x)
       \/ \E k \in ProofKinds : ReadsToRemove(c, r, k)
       \/ ReadsToApprove(c, r)
  \/ \E c \in ReviewCalls :
       \/ Changes(c) \/ RemovesProof(c) \/ LocksToApprove(c) \/ FoundsClub(c) \/ OwnerJoins(c)
       \/ OwnerFails(c) \/ Approves(c) \/ ApprovalFails(c) \/ CleansUp(c) \/ ReviewDies(c)

RegistrationsSpec == RegistrationsInit /\ [][RegistrationsNext]_registrationVars

-----------------------------------------------------------------------------
\* Properties

\* What is under review or was decided is proven as its legal form asks, whatever
\* changes and removals were under way when it was submitted.
ReviewedIsProven ==
  \A r \in Registrations :
    LET row == registrations[r]
    IN row.status \in Reviewed =>
         Registered(row.form, row.key) /\ row.proofs \cap Qualifying[row.form] # {}

\* Unless a process died, a club belongs to its approved registration or to the
\* approval that still works on it: no approval that failed leaves one behind,
\* and two reviewers make one.
NoStrayClub ==
  stranded \/
    \A o \in founded :
      \/ registrations[o.of].status = "approved" /\ registrations[o.of].club = o.no
      \/ \E c \in ReviewCalls : reviewCalls[c].op = "approve" /\ reviewCalls[c].no = o.no

\* An approved registration has its club, with an owner.
ApprovedHasItsClub ==
  \A r \in Registrations : registrations[r].status = "approved" =>
    [of |-> r, no |-> registrations[r].club, owned |-> TRUE] \in founded

\* A decision is not taken back.
DecisionsStand ==
  \A r \in Registrations : registrations[r].status \in {"approved", "rejected"} =>
    registrations'[r] = registrations[r]

RegistrationsPromise ==
  /\ [](RegistrationsTypeOK /\ ReviewedIsProven /\ NoStrayClub /\ ApprovedHasItsClub)
  /\ [][DecisionsStand]_registrationVars

\* admin-club-registrations.ts:254-255: "Two pending registrations can share a
\* register key [...]: re-check under the lock so the second one is refused once
\* the first became a club".
OneClubPerRegister ==
  \A r, s \in Registrations :
    /\ registrations[r].status = "approved" /\ registrations[s].status = "approved"
    /\ registrations[r].key = registrations[s].key
    => r = s \/ registrations[r].key = NoKey
=============================================================================
