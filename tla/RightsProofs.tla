---------------------------- MODULE RightsProofs ----------------------------
(***************************************************************************)
(* Proofs about the rights of the people of a club and of the clubs        *)
(* themselves: the registration of clubs, consents, retention and erasure. *)
(***************************************************************************)
EXTENDS MCRights, FiniteSetTheorems, TLAPS

-----------------------------------------------------------------------------
(***************************************************************************)
(* Registrations of clubs.  An approval founds its club on a connection of *)
(* its own, so RegistrationsInv follows each club by its number: every     *)
(* approval under way has one of its own, that no other and no approved    *)
(* registration has, and what has become of it follows from the step.      *)
(***************************************************************************)
RegistrationRow == [status: OpenStatus \cup Reviewed \cup {"none"}, form: LegalForms,
        key: RegisterKeys \cup {NoKey}, proofs: SUBSET ProofKinds, club: 0..MaxFounded]

ChangeCall == [op: {"change"}, of: Registrations, to: LegalForms \cup RegisterKeys \cup {NoKey}]
RemoveCall == [op: {"remove"}, of: Registrations, to: ProofKinds]
ApproveCall == [op: {"approve"}, of: Registrations, no: 0..MaxFounded,
                step: {"waits", "checked", "founded", "owned", "undone"}]
ReviewRecords == ChangeCall \cup RemoveCall \cup ApproveCall \cup {NoReviewCall}

Approving(c) == reviewCalls[c].op = "approve"

\* The club of an approval under way, as far as the approval has come.
HasItsClub(c) ==
  /\ reviewCalls[c].no <= foundings
  /\ reviewCalls[c].step = "waits" => reviewCalls[c].no = 0
  /\ reviewCalls[c].step = "checked" => \A o \in founded : o.no # reviewCalls[c].no
  /\ reviewCalls[c].step = "founded" => Bare(c) \in founded
  /\ reviewCalls[c].step \in {"owned", "undone"} => ClubOf(c) \in founded

ClubsAreApart ==
  /\ \A o \in founded : o.no <= foundings
  /\ \A o, p \in founded : o.no = p.no => o = p
  /\ \A c, d \in ReviewCalls :
       Approving(c) /\ Approving(d) /\ c # d /\ reviewCalls[c].no # 0
         => reviewCalls[c].no # reviewCalls[d].no
  /\ \A r \in Registrations, c \in ReviewCalls :
       registrations[r].status = "approved" /\ Approving(c)
         => registrations[r].club # reviewCalls[c].no

RegistrationsInv ==
  /\ RegistrationsTypeOK /\ reviewCalls \in [ReviewCalls -> ReviewRecords]
  /\ ReviewedIsProven /\ NoStrayClub /\ ApprovedHasItsClub
  /\ ClubsAreApart /\ \A c \in ReviewCalls : Approving(c) => HasItsClub(c)

LEMMA CallsTyped ==
  ASSUME RegistrationsInv, NEW c \in ReviewCalls
  PROVE  /\ reviewCalls[c] \in ReviewRecords
         /\ reviewCalls[c].op \in {"change", "remove", "approve", "none"}
         /\ reviewCalls[c].op = "change" => reviewCalls[c] \in ChangeCall
         /\ reviewCalls[c].op = "remove" => reviewCalls[c] \in RemoveCall
         /\ Approving(c) => reviewCalls[c] \in ApproveCall
         /\ reviewCalls[c].op = "none" <=> reviewCalls[c] = NoReviewCall
  BY DEF RegistrationsInv, ReviewRecords, ChangeCall, RemoveCall, ApproveCall, NoReviewCall, Approving

LEMMA RowsTyped ==
  ASSUME RegistrationsInv
  PROVE  /\ registrations \in [Registrations -> RegistrationRow] /\ MaxFounded \in Nat /\ foundings \in Nat
         /\ founded \subseteq [of: Registrations, no: 1..MaxFounded, owned: BOOLEAN]
         /\ \A o \in founded : o.no \in Nat /\ o.no # 0 /\ o.of \in Registrations
  <1>1. MaxFounded \in Nat
    BY RegistrationsAssumption
  <1>2. QED
    BY <1>1 DEF RegistrationsInv, RegistrationsTypeOK, RegistrationRow

\* A row is written that was not decided, and does not become approved by it.
LEMMA RowKeeps ==
  ASSUME RegistrationsInv, NEW r \in Registrations, NEW row \in RegistrationRow, SetsRow(r, row),
         registrations[r].status \notin {"approved", "rejected"}, row.status # "approved",
         Cardinality(row.proofs) <= MaxProofs,
         row.status \in Reviewed =>
           Registered(row.form, row.key) /\ row.proofs \cap Qualifying[row.form] # {},
         ClubsRest, reworks' \in 0..MaxReworks, reviewCalls' \in [ReviewCalls -> ReviewRecords],
         \A c \in ReviewCalls : \/ reviewCalls'[c] = reviewCalls[c]
                                \/ ~Approving(c) /\ reviewCalls'[c] = NoReviewCall
  PROVE  RegistrationsInv' /\ DecisionsStand
  <1>1. /\ registrations \in [Registrations -> RegistrationRow] /\ registrations' = [registrations EXCEPT ![r] = row]
        /\ registrations' \in [Registrations -> RegistrationRow]
        /\ UNCHANGED <<rowHeld, founded, foundings, stranded>>
    BY RowsTyped DEF SetsRow, ClubsRest
  <1>2. registrations'[r] = row /\ \A s \in Registrations \ {r} : registrations'[s] = registrations[s]
    BY <1>1
  <1>3. \A c \in ReviewCalls : /\ Approving(c)' <=> Approving(c)
                               /\ Approving(c) => reviewCalls'[c] = reviewCalls[c]
    BY DEF Approving, NoReviewCall
  <1>4. RegistrationsTypeOK'
    BY <1>1, <1>2 DEF RegistrationsInv, RegistrationsTypeOK, RegistrationRow
  <1>5. ReviewedIsProven'
    BY <1>2 DEF RegistrationsInv, ReviewedIsProven
  <1>6. ApprovedHasItsClub'
    BY <1>1, <1>2 DEF RegistrationsInv, ApprovedHasItsClub
  <1>7. NoStrayClub'
    <2>1. CASE stranded
      BY <1>1, <2>1 DEF NoStrayClub
    <2>2. CASE ~stranded
      <3>1. ASSUME NEW o \in founded
            PROVE  \/ registrations'[o.of].status = "approved" /\ registrations'[o.of].club = o.no
                   \/ \E c \in ReviewCalls : reviewCalls'[c].op = "approve" /\ reviewCalls'[c].no = o.no
        <4>1. o.of \in Registrations
          BY RowsTyped
        <4>2. CASE registrations[o.of].status = "approved" /\ registrations[o.of].club = o.no
          BY <1>2, <4>1, <4>2
        <4>3. CASE \E c \in ReviewCalls : reviewCalls[c].op = "approve" /\ reviewCalls[c].no = o.no
          BY <1>3, <4>3 DEF Approving
        <4>4. QED
          BY <2>2, <4>2, <4>3 DEF RegistrationsInv, NoStrayClub
      <3>2. QED
        BY <1>1, <3>1 DEF NoStrayClub
    <2>3. QED
      BY <2>1, <2>2
  <1>8. ClubsAreApart'
    <2>1. ASSUME NEW s \in Registrations, NEW c \in ReviewCalls,
                 registrations'[s].status = "approved", Approving(c)'
          PROVE  registrations'[s].club # reviewCalls'[c].no
      BY <1>2, <1>3, <2>1 DEF RegistrationsInv, ClubsAreApart
    <2>2. ASSUME NEW c \in ReviewCalls, NEW d \in ReviewCalls,
                 Approving(c)', Approving(d)', c # d, reviewCalls'[c].no # 0
          PROVE  reviewCalls'[c].no # reviewCalls'[d].no
      BY <1>3, <2>2 DEF RegistrationsInv, ClubsAreApart
    <2>3. /\ \A o \in founded' : o.no <= foundings'
          /\ \A o, p \in founded' : o.no = p.no => o = p
      BY <1>1 DEF RegistrationsInv, ClubsAreApart
    <2>4. QED
      BY <2>1, <2>2, <2>3 DEF ClubsAreApart
  <1>9. ASSUME NEW c \in ReviewCalls, Approving(c)'
        PROVE  HasItsClub(c)'
    BY <1>1, <1>3, <1>9 DEF RegistrationsInv, HasItsClub, Bare, ClubOf
  <1>10. DecisionsStand
    BY <1>2 DEF DecisionsStand
  <1>11. QED
    BY <1>4, <1>5, <1>6, <1>7, <1>8, <1>9, <1>10 DEF RegistrationsInv

\* A call begins, goes on or ends that has no club.
LEMMA CallKeeps ==
  ASSUME RegistrationsInv, NEW c \in ReviewCalls, NEW call \in ReviewRecords, ReviewCall(c, call),
         Approving(c) => reviewCalls[c].no = 0 \/ stranded',
         call.op = "approve" => call.no = 0 /\ call.step \in {"waits", "checked"},
         UNCHANGED <<registrations, founded, foundings>>,
         stranded' \in BOOLEAN, stranded => stranded',
         rowHeld' \in [Registrations -> ReviewCalls \cup {NoReview}], reworks' \in 0..MaxReworks
  PROVE  RegistrationsInv' /\ DecisionsStand
  <1>1. /\ reviewCalls'[c] = call /\ reviewCalls' \in [ReviewCalls -> ReviewRecords]
        /\ \A d \in ReviewCalls \ {c} : reviewCalls'[d] = reviewCalls[d]
    BY DEF RegistrationsInv, ReviewCall
  <1>2. \A o \in founded : o.no # 0 /\ o.no \in Nat
    BY RowsTyped
  <1>3. RegistrationsTypeOK'
    BY DEF RegistrationsInv, RegistrationsTypeOK
  <1>4. ReviewedIsProven' /\ ApprovedHasItsClub' /\ DecisionsStand
    BY DEF RegistrationsInv, ReviewedIsProven, ApprovedHasItsClub, DecisionsStand
  <1>5. NoStrayClub'
    <2>1. CASE stranded'
      BY <2>1 DEF NoStrayClub
    <2>2. CASE ~stranded'
      <3>1. ASSUME NEW o \in founded, NEW d \in ReviewCalls, Approving(d), reviewCalls[d].no = o.no
            PROVE  reviewCalls'[d] = reviewCalls[d]
        BY <1>1, <1>2, <2>2, <3>1
      <3>2. QED
        BY <2>2, <3>1 DEF RegistrationsInv, NoStrayClub, Approving
    <2>3. QED
      BY <2>1, <2>2
  <1>6. ClubsAreApart'
    <2>1. ASSUME NEW s \in Registrations, NEW d \in ReviewCalls,
                 registrations'[s].status = "approved", Approving(d)'
          PROVE  registrations'[s].club # reviewCalls'[d].no
      <3>1. registrations[s].club # 0
        BY <1>2, <2>1 DEF RegistrationsInv, ApprovedHasItsClub
      <3>2. CASE d = c
        BY <1>1, <2>1, <3>1, <3>2 DEF Approving
      <3>3. CASE d # c
        BY <1>1, <2>1, <3>3 DEF RegistrationsInv, ClubsAreApart, Approving
      <3>4. QED
        BY <3>2, <3>3
    <2>2. ASSUME NEW b \in ReviewCalls, NEW d \in ReviewCalls,
                 Approving(b)', Approving(d)', b # d, reviewCalls'[b].no # 0
          PROVE  reviewCalls'[b].no # reviewCalls'[d].no
      BY <1>1, <2>2 DEF RegistrationsInv, ClubsAreApart, Approving
    <2>3. /\ \A o \in founded' : o.no <= foundings'
          /\ \A o, p \in founded' : o.no = p.no => o = p
      BY DEF RegistrationsInv, ClubsAreApart
    <2>4. QED
      BY <2>1, <2>2, <2>3 DEF ClubsAreApart
  <1>7. ASSUME NEW d \in ReviewCalls, Approving(d)'
        PROVE  HasItsClub(d)'
    <2>1. CASE d = c
      <3>1. 0 <= foundings
        BY RowsTyped
      <3>2. QED
        BY <1>1, <1>2, <1>7, <2>1, <3>1 DEF HasItsClub, Approving
    <2>2. CASE d # c
      BY <1>1, <1>7, <2>2 DEF RegistrationsInv, HasItsClub, Bare, ClubOf, Approving
    <2>3. QED
      BY <2>1, <2>2
  <1>8. QED
    BY <1>1, <1>3, <1>4, <1>5, <1>6, <1>7 DEF RegistrationsInv


LEMMA SameClub ==
  ASSUME NEW S, NEW N, NEW x \in [of: S, no: N, owned: BOOLEAN], NEW y \in [of: S, no: N, owned: BOOLEAN],
         x.of = y.of, x.no = y.no, x.owned = y.owned
  PROVE  x = y
  OBVIOUS

LEMMA BareClub ==
  ASSUME NEW S, NEW N, NEW x \in [of: S, no: N, owned: BOOLEAN]
  PROVE  /\ [x EXCEPT !.owned = FALSE] \in [of: S, no: N, owned: BOOLEAN]
         /\ [x EXCEPT !.owned = FALSE].of = x.of /\ [x EXCEPT !.owned = FALSE].no = x.no
         /\ [x EXCEPT !.owned = FALSE].owned = FALSE
  OBVIOUS

\* A club is bare before its owner has joined.
LEMMA BareRecord ==
  ASSUME NEW S, NEW N, NEW of \in S, NEW no \in N
  PROVE  [[of |-> of, no |-> no, owned |-> TRUE] EXCEPT !.owned = FALSE] = [of |-> of, no |-> no, owned |-> FALSE]
  <1>1. PICK x \in [of: S, no: N, owned: BOOLEAN] : x = [of |-> of, no |-> no, owned |-> TRUE]
    OBVIOUS
  <1>2. x.of = of /\ x.no = no
    BY <1>1
  <1>3. PICK y \in [of: S, no: N, owned: BOOLEAN] : y = [of |-> of, no |-> no, owned |-> FALSE]
    OBVIOUS
  <1>4. y.of = of /\ y.no = no /\ y.owned = FALSE
    BY <1>3
  <1>5. [x EXCEPT !.owned = FALSE] = y
    BY <1>2, <1>4, BareClub, SameClub
  <1>6. QED
    BY <1>1, <1>3, <1>5

LEMMA ApprovalTyped ==
  ASSUME RegistrationsInv, NEW c \in ReviewCalls, Approving(c)
  PROVE  /\ reviewCalls[c] \in ApproveCall /\ HasItsClub(c)
         /\ reviewCalls[c].of \in Registrations /\ reviewCalls[c].no \in 0..MaxFounded
         /\ ClubOf(c) = [of |-> reviewCalls[c].of, no |-> reviewCalls[c].no, owned |-> TRUE]
         /\ Bare(c) = [of |-> reviewCalls[c].of, no |-> reviewCalls[c].no, owned |-> FALSE]
  <1>1. reviewCalls[c] \in ApproveCall /\ HasItsClub(c)
    BY CallsTyped DEF RegistrationsInv
  <1>2. reviewCalls[c].of \in Registrations /\ reviewCalls[c].no \in 0..MaxFounded
    BY <1>1 DEF ApproveCall
  <1>3. ClubOf(c) = [of |-> reviewCalls[c].of, no |-> reviewCalls[c].no, owned |-> TRUE]
    BY DEF ClubOf
  <1>4. Bare(c) = [of |-> reviewCalls[c].of, no |-> reviewCalls[c].no, owned |-> FALSE]
    BY <1>2, <1>3, BareRecord DEF Bare
  <1>5. QED
    BY <1>1, <1>2, <1>3, <1>4

\* The number of the club an approval works on is of that club alone.
LEMMA NumberIsItsOwn ==
  ASSUME RegistrationsInv, NEW c \in ReviewCalls, Approving(c), NEW club \in {ClubOf(c), Bare(c)},
         club \in founded
  PROVE  /\ reviewCalls[c].no # 0 /\ club.no = reviewCalls[c].no
         /\ \A o \in founded \ {club} : o.no # reviewCalls[c].no
         /\ \A d \in ReviewCalls \ {c} : Approving(d) => reviewCalls[d].no # reviewCalls[c].no
         /\ \A r \in Registrations :
              registrations[r].status = "approved" => registrations[r].club # reviewCalls[c].no
  <1>1. club.no = reviewCalls[c].no
    BY ApprovalTyped
  <1>2. reviewCalls[c].no # 0
    BY <1>1, RowsTyped
  <1>3. QED
    BY <1>1, <1>2 DEF RegistrationsInv, ClubsAreApart

\* A step of an approval that leaves the rows alone and founds nothing, but may
\* replace or remove its own club.
LEMMA ClubKeeps ==
  ASSUME RegistrationsInv, NEW c \in ReviewCalls, Approving(c), NEW call \in ReviewRecords, ReviewCall(c, call),
         NEW club \in {ClubOf(c), Bare(c)}, club \in founded,
         founded' \in {founded, founded \ {club}, (founded \ {club}) \cup {ClubOf(c)}},
         UNCHANGED <<registrations, foundings, reworks>>,
         stranded' \in BOOLEAN, stranded => stranded',
         rowHeld' \in [Registrations -> ReviewCalls \cup {NoReview}],
         call.op = "approve" \/ (call.op = "none" /\ (stranded' \/ founded' = founded \ {club})),
         call.op = "approve" =>
           /\ call.of = reviewCalls[c].of /\ call.no = reviewCalls[c].no
           /\ \/ call.step = "checked" /\ founded' = founded \ {club}
              \/ call.step \in {"owned", "undone"} /\ ClubOf(c) \in founded'
  PROVE  RegistrationsInv' /\ DecisionsStand
  <1>1. /\ reviewCalls'[c] = call /\ reviewCalls' \in [ReviewCalls -> ReviewRecords]
        /\ \A d \in ReviewCalls \ {c} : reviewCalls'[d] = reviewCalls[d]
    BY DEF RegistrationsInv, ReviewCall
  <1>2. /\ reviewCalls[c].no # 0 /\ club.no = reviewCalls[c].no
        /\ \A o \in founded \ {club} : o.no # reviewCalls[c].no
        /\ \A d \in ReviewCalls \ {c} : Approving(d) => reviewCalls[d].no # reviewCalls[c].no
        /\ \A r \in Registrations :
             registrations[r].status = "approved" => registrations[r].club # reviewCalls[c].no
    BY NumberIsItsOwn
  <1>3. /\ reviewCalls[c].no \in 1..MaxFounded /\ reviewCalls[c].no <= foundings
        /\ ClubOf(c).no = reviewCalls[c].no
        /\ ClubOf(c) \in [of: Registrations, no: 1..MaxFounded, owned: BOOLEAN]
    <2>1. reviewCalls[c].no \in 1..MaxFounded
      BY <1>2, ApprovalTyped, RowsTyped
    <2>2. reviewCalls[c].no <= foundings
      BY ApprovalTyped DEF HasItsClub
    <2>3. ClubOf(c) = [of |-> reviewCalls[c].of, no |-> reviewCalls[c].no, owned |-> TRUE]
      BY ApprovalTyped
    <2>4. reviewCalls[c].of \in Registrations
      BY ApprovalTyped
    <2>5. QED
      BY <2>1, <2>2, <2>3, <2>4
  <1>4. founded' \subseteq founded \cup {ClubOf(c)} /\ founded \ {club} \subseteq founded'
        /\ \A o \in founded' : o.no # reviewCalls[c].no => o \in founded \ {club}
    BY <1>2, <1>3
  <1>5. RegistrationsTypeOK'
    BY <1>3, <1>4 DEF RegistrationsInv, RegistrationsTypeOK
  <1>6. ReviewedIsProven' /\ DecisionsStand
    BY DEF RegistrationsInv, ReviewedIsProven, DecisionsStand
  <1>7. ApprovedHasItsClub'
    <2>1. ASSUME NEW r \in Registrations, registrations[r].status = "approved"
          PROVE  [of |-> r, no |-> registrations[r].club, owned |-> TRUE] \in founded'
      <3>1. [of |-> r, no |-> registrations[r].club, owned |-> TRUE] \in founded
        BY <2>1 DEF RegistrationsInv, ApprovedHasItsClub
      <3>2. [of |-> r, no |-> registrations[r].club, owned |-> TRUE] # club
        BY <1>2, <2>1
      <3>3. QED
        BY <1>4, <3>1, <3>2
    <2>2. QED
      BY <2>1 DEF ApprovedHasItsClub
  <1>8. NoStrayClub'
    <2>1. CASE stranded'
      BY <2>1 DEF NoStrayClub
    <2>2. CASE ~stranded'
      <3>1. ASSUME NEW o \in founded', o.no # reviewCalls[c].no
            PROVE  \/ registrations'[o.of].status = "approved" /\ registrations'[o.of].club = o.no
                   \/ \E d \in ReviewCalls : reviewCalls'[d].op = "approve" /\ reviewCalls'[d].no = o.no
        <4>1. o \in founded /\ ~stranded
          BY <1>4, <2>2, <3>1
        <4>2. CASE registrations[o.of].status = "approved" /\ registrations[o.of].club = o.no
          BY <4>2
        <4>3. CASE \E d \in ReviewCalls : reviewCalls[d].op = "approve" /\ reviewCalls[d].no = o.no
          BY <1>1, <3>1, <4>3
        <4>4. QED
          BY <4>1, <4>2, <4>3 DEF RegistrationsInv, NoStrayClub
      <3>2. CASE call.op = "approve"
        BY <1>1, <3>1, <3>2 DEF NoStrayClub
      <3>3. CASE call.op = "none"
        <4>1. \A o \in founded' : o.no # reviewCalls[c].no
          BY <1>2, <2>2, <3>3
        <4>2. QED
          BY <3>1, <4>1 DEF NoStrayClub
      <3>4. QED
        BY <3>2, <3>3
    <2>3. QED
      BY <2>1, <2>2
  <1>9. ClubsAreApart'
    <2>1. \A o \in founded' : o.no <= foundings'
      BY <1>3, <1>4 DEF RegistrationsInv, ClubsAreApart
    <2>2. ASSUME NEW o \in founded', NEW p \in founded', o.no = p.no
          PROVE  o = p
      <3>1. CASE o.no = reviewCalls[c].no
        BY <1>2, <1>4, <2>2, <3>1
      <3>2. CASE o.no # reviewCalls[c].no
        BY <1>4, <2>2, <3>2 DEF RegistrationsInv, ClubsAreApart
      <3>3. QED
        BY <3>1, <3>2
    <2>3. ASSUME NEW b \in ReviewCalls, NEW d \in ReviewCalls,
                 Approving(b)', Approving(d)', b # d, reviewCalls'[b].no # 0
          PROVE  reviewCalls'[b].no # reviewCalls'[d].no
      BY <1>1, <1>2, <2>3 DEF RegistrationsInv, ClubsAreApart, Approving
    <2>4. ASSUME NEW s \in Registrations, NEW d \in ReviewCalls,
                 registrations'[s].status = "approved", Approving(d)'
          PROVE  registrations'[s].club # reviewCalls'[d].no
      BY <1>1, <1>2, <2>4 DEF RegistrationsInv, ClubsAreApart, Approving
    <2>5. QED
      BY <2>1, <2>2, <2>3, <2>4 DEF ClubsAreApart
  <1>10. ASSUME NEW d \in ReviewCalls, Approving(d)'
         PROVE  HasItsClub(d)'
    <2>1. CASE d = c
      <3>1. reviewCalls'[d] = call /\ call.op = "approve"
        BY <1>1, <1>10, <2>1 DEF Approving
      <3>2. ClubOf(d)' = ClubOf(c)
        BY <2>1, <3>1 DEF ClubOf
      <3>3. CASE call.step = "checked" /\ founded' = founded \ {club}
        BY <1>2, <1>3, <3>1, <3>3 DEF HasItsClub
      <3>4. CASE call.step \in {"owned", "undone"} /\ ClubOf(c) \in founded'
        BY <1>3, <3>1, <3>2, <3>4 DEF HasItsClub
      <3>5. QED
        BY <3>1, <3>3, <3>4
    <2>2. CASE d # c
      <3>1. reviewCalls'[d] = reviewCalls[d] /\ Approving(d)
        BY <1>1, <1>10, <2>2 DEF Approving
      <3>2. HasItsClub(d) /\ reviewCalls[d].no # reviewCalls[c].no
        BY <1>2, <2>2, <3>1 DEF RegistrationsInv
      <3>3. ClubOf(d)' = ClubOf(d) /\ Bare(d)' = Bare(d)
        BY <3>1 DEF ClubOf, Bare
      <3>4. \A o \in founded : o.no = reviewCalls[d].no => o \in founded'
        BY <1>2, <1>4, <3>2
      <3>5. \A o \in founded' : o.no = reviewCalls[d].no => o \in founded
        BY <1>4, <3>2
      <3>6. ClubOf(d).no = reviewCalls[d].no /\ Bare(d).no = reviewCalls[d].no
        BY <3>1, ApprovalTyped
      <3>7. QED
        BY <3>1, <3>2, <3>3, <3>4, <3>5, <3>6 DEF HasItsClub
    <2>3. QED
      BY <2>1, <2>2
  <1>11. QED
    BY <1>1, <1>5, <1>6, <1>7, <1>8, <1>9, <1>10 DEF RegistrationsInv


\* createOrganization takes the next number.
LEMMA FoundsKeeps ==
  ASSUME RegistrationsInv, NEW c \in ReviewCalls, FoundsClub(c)
  PROVE  RegistrationsInv' /\ DecisionsStand
  <1>1. Approving(c) /\ reviewCalls[c].step = "checked"
    BY DEF FoundsClub, Approval, Approving
  <1>2. /\ reviewCalls[c] \in ApproveCall /\ reviewCalls[c].of \in Registrations
        /\ MaxFounded \in Nat /\ foundings \in Nat /\ foundings + 1 \in 1..MaxFounded
    BY <1>1, ApprovalTyped, RowsTyped DEF FoundsClub
  <1> DEFINE call == [reviewCalls[c] EXCEPT !.step = "founded", !.no = foundings + 1]
             club == [of |-> reviewCalls[c].of, no |-> foundings + 1, owned |-> FALSE]
  <1>3. call \in ReviewRecords /\ call.op = "approve" /\ call.no = foundings + 1 /\ call.of = reviewCalls[c].of /\ call.step = "founded"
    <2>1. PICK x \in ApproveCall, n \in 0..MaxFounded : x = reviewCalls[c] /\ n = foundings + 1
      BY <1>2
    <2>2. /\ [x EXCEPT !.step = "founded", !.no = n] \in ApproveCall
          /\ [x EXCEPT !.step = "founded", !.no = n].op = "approve"
          /\ [x EXCEPT !.step = "founded", !.no = n].no = n
          /\ [x EXCEPT !.step = "founded", !.no = n].of = x.of
          /\ [x EXCEPT !.step = "founded", !.no = n].step = "founded"
      BY DEF ApproveCall
    <2>3. QED
      BY <2>1, <2>2 DEF ReviewRecords
  <1>4. /\ foundings' = foundings + 1 /\ founded' = founded \cup {club}
        /\ reviewCalls' = [reviewCalls EXCEPT ![c] = call]
        /\ UNCHANGED <<registrations, rowHeld, reworks, stranded>>
    BY DEF FoundsClub, ReviewCall
  <1>5. club \in [of: Registrations, no: 1..MaxFounded, owned: BOOLEAN] /\ club.no = foundings + 1
    BY <1>2
  <1>6. \A o \in founded : o.no \in Nat /\ o.no <= foundings
    BY RowsTyped DEF RegistrationsInv, ClubsAreApart
  <1>7. [[of |-> reviewCalls[c].of, no |-> foundings + 1, owned |-> TRUE] EXCEPT !.owned = FALSE] = club
    BY <1>2, BareRecord
  <1> HIDE DEF call, club
  <1>8. /\ reviewCalls'[c] = call /\ reviewCalls' \in [ReviewCalls -> ReviewRecords]
        /\ \A d \in ReviewCalls \ {c} : reviewCalls'[d] = reviewCalls[d]
    BY <1>3, <1>4 DEF RegistrationsInv
  <1>9. RegistrationsTypeOK'
    BY <1>2, <1>4, <1>5 DEF RegistrationsInv, RegistrationsTypeOK
  <1>10. ReviewedIsProven' /\ ApprovedHasItsClub' /\ DecisionsStand
    BY <1>4 DEF RegistrationsInv, ReviewedIsProven, ApprovedHasItsClub, DecisionsStand
  <1>11. \A o \in founded : o.no # reviewCalls[c].no
    BY <1>1, ApprovalTyped DEF HasItsClub
  <1>12. NoStrayClub'
    <2>1. CASE stranded
      BY <1>4, <2>1 DEF NoStrayClub
    <2>2. CASE ~stranded
      <3>1. ASSUME NEW o \in founded
            PROVE  \/ registrations'[o.of].status = "approved" /\ registrations'[o.of].club = o.no
                   \/ \E d \in ReviewCalls : reviewCalls'[d].op = "approve" /\ reviewCalls'[d].no = o.no
        BY <1>4, <1>8, <1>11, <2>2 DEF RegistrationsInv, NoStrayClub
      <3>2. reviewCalls'[c].op = "approve" /\ reviewCalls'[c].no = club.no
        BY <1>3, <1>5, <1>8
      <3>3. QED
        BY <1>4, <3>1, <3>2 DEF NoStrayClub
    <2>3. QED
      BY <2>1, <2>2
  <1>13. \A d \in ReviewCalls \ {c} :
           /\ Approving(d)' <=> Approving(d)
           /\ Approving(d) => reviewCalls[d].no \in Nat /\ reviewCalls[d].no <= foundings
    BY <1>8, ApprovalTyped, RowsTyped DEF Approving, HasItsClub
  <1>14. ClubsAreApart'
    <2>1. \A o \in founded' : o.no <= foundings'
      BY <1>2, <1>4, <1>5, <1>6
    <2>2. \A o, p \in founded' : o.no = p.no => o = p
      BY <1>2, <1>4, <1>5, <1>6 DEF RegistrationsInv, ClubsAreApart
    <2>3. ASSUME NEW b \in ReviewCalls, NEW d \in ReviewCalls,
                 Approving(b)', Approving(d)', b # d, reviewCalls'[b].no # 0
          PROVE  reviewCalls'[b].no # reviewCalls'[d].no
      <3>1. CASE b = c
        BY <1>2, <1>3, <1>8, <1>13, <2>3, <3>1
      <3>2. CASE d = c
        BY <1>2, <1>3, <1>8, <1>13, <2>3, <3>2
      <3>3. CASE b # c /\ d # c
        BY <1>8, <1>13, <2>3, <3>3 DEF RegistrationsInv, ClubsAreApart
      <3>4. QED
        BY <3>1, <3>2, <3>3
    <2>4. ASSUME NEW s \in Registrations, NEW d \in ReviewCalls,
                 registrations'[s].status = "approved", Approving(d)'
          PROVE  registrations'[s].club # reviewCalls'[d].no
      <3>1. [of |-> s, no |-> registrations[s].club, owned |-> TRUE] \in founded
        BY <1>4, <2>4 DEF RegistrationsInv, ApprovedHasItsClub
      <3>2. registrations[s].club <= foundings /\ registrations[s].club \in Nat
        BY <1>6, <3>1
      <3>3. CASE d = c
        BY <1>2, <1>3, <1>4, <1>8, <3>2, <3>3
      <3>4. CASE d # c
        BY <1>4, <1>8, <1>13, <2>4, <3>4 DEF RegistrationsInv, ClubsAreApart
      <3>5. QED
        BY <3>3, <3>4
    <2>5. QED
      BY <2>1, <2>2, <2>3, <2>4 DEF ClubsAreApart
  <1>15. ASSUME NEW d \in ReviewCalls, Approving(d)'
         PROVE  HasItsClub(d)'
    <2>1. CASE d = c
      <3>1. Bare(d)' = club
        BY <1>3, <1>7, <1>8, <2>1 DEF Bare, ClubOf
      <3>2. QED
        BY <1>2, <1>3, <1>4, <1>8, <2>1, <3>1 DEF HasItsClub
    <2>2. CASE d # c
      <3>1. reviewCalls'[d] = reviewCalls[d] /\ Approving(d) /\ HasItsClub(d)
        BY <1>8, <1>13, <1>15, <2>2 DEF RegistrationsInv
      <3>2. ClubOf(d)' = ClubOf(d) /\ Bare(d)' = Bare(d)
        BY <3>1 DEF ClubOf, Bare
      <3>3. reviewCalls[d].no <= foundings' /\ reviewCalls[d].no # club.no
        BY <1>2, <1>4, <1>5, <1>13, <2>2, <3>1
      <3>4. QED
        BY <1>4, <3>1, <3>2, <3>3 DEF HasItsClub
    <2>3. QED
      BY <2>1, <2>2
  <1>16. QED
    BY <1>8, <1>9, <1>10, <1>12, <1>14, <1>15 DEF RegistrationsInv

\* The decision: the row names the club of its approval.
LEMMA ApprovesKeeps ==
  ASSUME RegistrationsInv, NEW c \in ReviewCalls, Approves(c)
  PROVE  RegistrationsInv' /\ DecisionsStand
  <1>1. Approving(c) /\ reviewCalls[c].step = "owned"
    BY DEF Approves, Approval, Approving
  <1>2. PICK r \in Registrations : r = reviewCalls[c].of
    BY <1>1, ApprovalTyped
  <1>3. PICK no \in 0..MaxFounded : no = reviewCalls[c].no
    BY <1>1, ApprovalTyped
  <1>4. PICK row \in RegistrationRow : row = registrations[r]
    BY RowsTyped
  <1> DEFINE approved == [row EXCEPT !.status = "approved", !.club = no]
  <1>5. /\ approved \in RegistrationRow /\ approved.status = "approved" /\ approved.club = no
        /\ approved.form = row.form /\ approved.key = row.key /\ approved.proofs = row.proofs
    BY DEF RegistrationRow, Reviewed
  <1>6. /\ row.status = "pending" /\ registrations' = [registrations EXCEPT ![r] = approved]
        /\ rowHeld' = [rowHeld EXCEPT ![r] = NoReview]
        /\ reviewCalls' = [reviewCalls EXCEPT ![c] = NoReviewCall]
        /\ UNCHANGED <<founded, foundings, reworks, stranded>>
    BY <1>2, <1>3, <1>4 DEF Approves, SetsRow, ReviewCall
  <1> HIDE DEF approved
  <1>7. /\ registrations' \in [Registrations -> RegistrationRow] /\ registrations'[r] = approved
        /\ \A s \in Registrations \ {r} : registrations'[s] = registrations[s]
    BY <1>5, <1>6, RowsTyped
  <1>8. /\ reviewCalls' \in [ReviewCalls -> ReviewRecords] /\ ~Approving(c)'
        /\ \A d \in ReviewCalls \ {c} : reviewCalls'[d] = reviewCalls[d] /\ (Approving(d)' <=> Approving(d))
    BY <1>6 DEF RegistrationsInv, ReviewRecords, NoReviewCall, Approving
  <1>9. ClubOf(c) \in founded /\ ClubOf(c) = [of |-> r, no |-> no, owned |-> TRUE]
    BY <1>1, <1>2, <1>3, ApprovalTyped DEF HasItsClub
  <1>10. /\ no # 0 /\ \A o \in founded \ {ClubOf(c)} : o.no # no
         /\ \A d \in ReviewCalls \ {c} : Approving(d) => reviewCalls[d].no # no
    BY <1>1, <1>3, <1>9, NumberIsItsOwn
  <1>11. RegistrationsTypeOK'
    <2>1. \A s \in Registrations : Cardinality(registrations'[s].proofs) <= MaxProofs
      BY <1>4, <1>5, <1>7 DEF RegistrationsInv, RegistrationsTypeOK
    <2>2. rowHeld' \in [Registrations -> ReviewCalls \cup {NoReview}]
      BY <1>6 DEF RegistrationsInv, RegistrationsTypeOK
    <2>3. QED
      BY <1>6, <1>7, <2>1, <2>2 DEF RegistrationsInv, RegistrationsTypeOK, RegistrationRow
  <1>12. ReviewedIsProven'
    BY <1>4, <1>5, <1>6, <1>7 DEF RegistrationsInv, ReviewedIsProven, Reviewed
  <1>13. ApprovedHasItsClub'
    BY <1>5, <1>6, <1>7, <1>9 DEF RegistrationsInv, ApprovedHasItsClub
  <1>14. NoStrayClub'
    <2>1. CASE stranded
      BY <1>6, <2>1 DEF NoStrayClub
    <2>2. CASE ~stranded
      <3>1. ASSUME NEW o \in founded
            PROVE  \/ registrations'[o.of].status = "approved" /\ registrations'[o.of].club = o.no
                   \/ \E d \in ReviewCalls : reviewCalls'[d].op = "approve" /\ reviewCalls'[d].no = o.no
        <4>1. CASE o = ClubOf(c)
          BY <1>5, <1>7, <1>9, <4>1
        <4>2. CASE o # ClubOf(c)
          <5>1. o.no # no /\ o.of \in Registrations
            BY <1>10, <4>2, RowsTyped
          <5>2. CASE registrations[o.of].status = "approved" /\ registrations[o.of].club = o.no
            BY <1>4, <1>6, <1>7, <5>1, <5>2
          <5>3. CASE \E d \in ReviewCalls : reviewCalls[d].op = "approve" /\ reviewCalls[d].no = o.no
            BY <1>3, <1>8, <5>1, <5>3
          <5>4. QED
            BY <2>2, <5>2, <5>3 DEF RegistrationsInv, NoStrayClub
        <4>3. QED
          BY <4>1, <4>2
      <3>2. QED
        BY <1>6, <3>1 DEF NoStrayClub
    <2>3. QED
      BY <2>1, <2>2
  <1>15. ClubsAreApart'
    <2>1. /\ \A o \in founded' : o.no <= foundings'
          /\ \A o, p \in founded' : o.no = p.no => o = p
      BY <1>6 DEF RegistrationsInv, ClubsAreApart
    <2>2. ASSUME NEW b \in ReviewCalls, NEW d \in ReviewCalls,
                 Approving(b)', Approving(d)', b # d, reviewCalls'[b].no # 0
          PROVE  reviewCalls'[b].no # reviewCalls'[d].no
      BY <1>8, <2>2 DEF RegistrationsInv, ClubsAreApart
    <2>3. ASSUME NEW s \in Registrations, NEW d \in ReviewCalls,
                 registrations'[s].status = "approved", Approving(d)'
          PROVE  registrations'[s].club # reviewCalls'[d].no
      <3>1. CASE s = r
        BY <1>5, <1>7, <1>8, <1>10, <2>3, <3>1
      <3>2. CASE s # r
        BY <1>7, <1>8, <2>3, <3>2 DEF RegistrationsInv, ClubsAreApart
      <3>3. QED
        BY <3>1, <3>2
    <2>4. QED
      BY <2>1, <2>2, <2>3 DEF ClubsAreApart
  <1>16. ASSUME NEW d \in ReviewCalls, Approving(d)'
         PROVE  HasItsClub(d)'
    BY <1>6, <1>8, <1>16 DEF RegistrationsInv, HasItsClub, Bare, ClubOf
  <1>17. DecisionsStand
    BY <1>4, <1>6, <1>7 DEF DecisionsStand
  <1>18. QED
    BY <1>8, <1>11, <1>12, <1>13, <1>14, <1>15, <1>16, <1>17 DEF RegistrationsInv


LEMMA ProofKindsAreFew ==
  /\ \A S \in SUBSET ProofKinds : IsFiniteSet(S) /\ Cardinality(S) \in Nat
  /\ \A S \in SUBSET ProofKinds : \A T \in SUBSET S : Cardinality(T) <= Cardinality(S)
  /\ \A S \in SUBSET ProofKinds, k \in ProofKinds : Cardinality(S \cup {k}) <= Cardinality(S) + 1
  <1>1. ProofKinds = {"registerauszug"} \cup {"satzung"}
    BY DEF ProofKinds
  <1>2. IsFiniteSet(ProofKinds)
    BY <1>1, FS_Singleton, FS_Union
  <1>3. \A S \in SUBSET ProofKinds : IsFiniteSet(S) /\ Cardinality(S) \in Nat
    BY <1>2, FS_Subset, FS_CardinalityType
  <1>4. \A S \in SUBSET ProofKinds : \A T \in SUBSET S : Cardinality(T) <= Cardinality(S)
    BY <1>3, FS_Subset
  <1>5. \A S \in SUBSET ProofKinds, k \in ProofKinds : Cardinality(S \cup {k}) <= Cardinality(S) + 1
    <2>1. ASSUME NEW S \in SUBSET ProofKinds, NEW k \in ProofKinds
          PROVE  Cardinality(S \cup {k}) <= Cardinality(S) + 1
      <3>1. IsFiniteSet(S) /\ Cardinality(S) \in Nat
        BY <1>3
      <3>2. Cardinality(S \cup {k}) = Cardinality(S) \/ Cardinality(S \cup {k}) = Cardinality(S) + 1
        BY <3>1, FS_AddElement
      <3>3. QED
        BY <3>1, <3>2
    <2>2. QED
      BY <2>1
  <1>6. QED
    BY <1>3, <1>4, <1>5

LEMMA RowFacts ==
  ASSUME RegistrationsInv, NEW r \in Registrations
  PROVE  /\ registrations[r] \in RegistrationRow
         /\ Cardinality(registrations[r].proofs) <= MaxProofs
         /\ MaxProofs \in Nat /\ reworks \in 0..MaxReworks /\ MaxReworks \in Nat
         /\ reworks < MaxReworks => reworks + 1 \in 0..MaxReworks
         /\ rowHeld \in [Registrations -> ReviewCalls \cup {NoReview}]
  BY RowsTyped, RegistrationsAssumption DEF RegistrationsInv, RegistrationsTypeOK

\* The applicant's steps and the short decisions write one row under its lock.
LEMMA ApplicantSteps ==
  ASSUME RegistrationsInv, NEW r \in Registrations,
         \/ \E f \in LegalForms, k \in RegisterKeys \cup {NoKey} : Registers(r, f, k)
         \/ \E k \in ProofKinds : AddsProof(r, k)
         \/ Submits(r) \/ Rejects(r) \/ AsksForMore(r)
  PROVE  RegistrationsInv' /\ DecisionsStand
  <1>1. PICK row \in RegistrationRow : row = registrations[r]
    BY RowFacts
  <1>2. ClubsRest /\ reviewCalls' = reviewCalls /\ reworks' \in 0..MaxReworks
    BY RowFacts DEF Registers, AddsProof, Submits, Rejects, AsksForMore, Reworks
  <1>3. ASSUME NEW new \in RegistrationRow, SetsRow(r, new), row.status \notin {"approved", "rejected"},
               new.status # "approved", Cardinality(new.proofs) <= MaxProofs,
               new.status \in Reviewed =>
                 Registered(new.form, new.key) /\ new.proofs \cap Qualifying[new.form] # {}
        PROVE  RegistrationsInv' /\ DecisionsStand
    <2>1. reviewCalls' \in [ReviewCalls -> ReviewRecords] /\ \A c \in ReviewCalls : reviewCalls'[c] = reviewCalls[c]
      BY <1>2 DEF RegistrationsInv
    <2>2. QED
      BY <1>1, <1>2, <1>3, <2>1, RowKeeps
  <1>4. ASSUME NEW f \in LegalForms, NEW k \in RegisterKeys \cup {NoKey}, Registers(r, f, k)
        PROVE  RegistrationsInv' /\ DecisionsStand
    <2> DEFINE new == [BlankForm EXCEPT !.status = "draft", !.form = f, !.key = k]
    <2>1. PICK blank \in RegistrationRow : blank = BlankForm /\ blank.proofs = {}
      <3>1. MaxFounded \in Nat
        BY RowsTyped
      <3>2. BlankForm \in RegistrationRow
        BY <3>1 DEF BlankForm, RegistrationRow, LegalForms, NoClub
      <3>3. QED
        BY <3>2 DEF BlankForm
    <2>2. new \in RegistrationRow /\ new.status = "draft" /\ new.proofs = {}
      BY <2>1 DEF RegistrationRow, OpenStatus
    <2>3. Cardinality(new.proofs) <= MaxProofs
      <3> HIDE DEF new
      <3>1. Cardinality({}) = 0
        BY FS_EmptySet
      <3>2. MaxProofs \in Nat
        BY RegistrationsAssumption
      <3>3. QED
        BY <2>2, <3>1, <3>2
    <2>4. SetsRow(r, new) /\ row.status = "none"
      BY <1>1, <1>4 DEF Registers
    <2> HIDE DEF new
    <2>5. QED
      BY <1>3, <2>2, <2>3, <2>4 DEF Reviewed
  <1>5. ASSUME NEW k \in ProofKinds, AddsProof(r, k)
        PROVE  RegistrationsInv' /\ DecisionsStand
    <2> DEFINE new == [row EXCEPT !.proofs = @ \cup {k}]
    <2>1. new \in RegistrationRow /\ new.status = row.status /\ new.proofs = row.proofs \cup {k} /\ row.proofs \in SUBSET ProofKinds
      BY DEF RegistrationRow
    <2>2. SetsRow(r, new) /\ row.status \in OpenStatus /\ Cardinality(row.proofs) < MaxProofs
      BY <1>1, <1>5 DEF AddsProof, StillOpen
    <2> HIDE DEF new
    <2>3. Cardinality(new.proofs) <= MaxProofs
      <3>1. /\ Cardinality(row.proofs \cup {k}) <= Cardinality(row.proofs) + 1
            /\ Cardinality(row.proofs) \in Nat /\ Cardinality(row.proofs \cup {k}) \in Nat
        BY <2>1, ProofKindsAreFew
      <3>2. QED
        BY <2>1, <2>2, <3>1, RowFacts
    <2>4. QED
      BY <1>3, <2>1, <2>2, <2>3 DEF Reviewed, OpenStatus
  <1>6. ASSUME NEW status \in {"pending", "rejected", "needs_info"},
               SetsRow(r, [row EXCEPT !.status = status]), row.status \in OpenStatus \cup {"pending"},
               \/ status = "needs_info"
               \/ Registered(row.form, row.key) /\ row.proofs \cap Qualifying[row.form] # {}
        PROVE  RegistrationsInv' /\ DecisionsStand
    <2> DEFINE new == [row EXCEPT !.status = status]
    <2>1. /\ new \in RegistrationRow /\ new.status = status
          /\ new.proofs = row.proofs /\ new.form = row.form /\ new.key = row.key
      BY DEF RegistrationRow, OpenStatus, Reviewed
    <2>2. SetsRow(r, new)
      BY <1>6
    <2>3. Cardinality(row.proofs) <= MaxProofs
      BY <1>1, RowFacts
    <2> HIDE DEF new
    <2>4. QED
      BY <1>3, <1>6, <2>1, <2>2, <2>3 DEF Reviewed, OpenStatus
  <1>7. CASE Submits(r)
    <2>1. /\ SetsRow(r, [row EXCEPT !.status = "pending"]) /\ row.status \in OpenStatus
          /\ Registered(row.form, row.key) /\ row.proofs \cap Qualifying[row.form] # {}
      BY <1>1, <1>7 DEF Submits, StillOpen
    <2>2. QED
      BY <1>6, <2>1
  <1>8. CASE Rejects(r)
    <2>1. SetsRow(r, [row EXCEPT !.status = "rejected"]) /\ row.status = "pending"
      BY <1>1, <1>8 DEF Rejects
    <2>2. Registered(row.form, row.key) /\ row.proofs \cap Qualifying[row.form] # {}
      BY <1>1, <2>1 DEF RegistrationsInv, ReviewedIsProven, Reviewed
    <2>3. QED
      BY <1>6, <2>1, <2>2
  <1>9. CASE AsksForMore(r)
    <2>1. SetsRow(r, [row EXCEPT !.status = "needs_info"]) /\ row.status = "pending"
      BY <1>1, <1>9 DEF AsksForMore
    <2>2. QED
      BY <1>6, <2>1
  <1>10. QED
    BY <1>4, <1>5, <1>7, <1>8, <1>9

\* A change or a removal writes the row as it is now, if it is still open.
LEMMA ChangeSteps ==
  ASSUME RegistrationsInv, NEW c \in ReviewCalls, Changes(c) \/ RemovesProof(c)
  PROVE  RegistrationsInv' /\ DecisionsStand
  <1>1. /\ ~Approving(c) /\ reviewCalls[c].of \in Registrations
        /\ Changes(c) => reviewCalls[c].to \in LegalForms \cup RegisterKeys \cup {NoKey}
    BY CallsTyped DEF Changes, RemovesProof, Approving, ChangeCall, RemoveCall
  <1>2. PICK r \in Registrations, row \in RegistrationRow : r = reviewCalls[c].of /\ row = registrations[r]
    BY <1>1, RowFacts
  <1>3. /\ reviewCalls' = [reviewCalls EXCEPT ![c] = NoReviewCall] /\ ReviewCall(c, NoReviewCall)
        /\ ClubsRest /\ UNCHANGED reworks
    BY DEF Changes, RemovesProof, ReviewCall
  <1>4. reviewCalls' \in [ReviewCalls -> ReviewRecords] /\ NoReviewCall \in ReviewRecords /\ reworks' \in 0..MaxReworks
    BY <1>2, <1>3, RowFacts DEF RegistrationsInv, ReviewRecords
  <1>5. \A d \in ReviewCalls : \/ reviewCalls'[d] = reviewCalls[d]
                               \/ ~Approving(d) /\ reviewCalls'[d] = NoReviewCall
    BY <1>1, <1>3 DEF RegistrationsInv
  <1>6. ASSUME NEW new \in RegistrationRow, SetsRow(r, new), row.status \in OpenStatus, new.status = row.status,
               new.proofs \subseteq row.proofs
        PROVE  RegistrationsInv' /\ DecisionsStand
    <2>1. row.proofs \in SUBSET ProofKinds /\ new.proofs \in SUBSET ProofKinds
      BY DEF RegistrationRow
    <2>2. Cardinality(new.proofs) <= MaxProofs
      <3>1. Cardinality(new.proofs) <= Cardinality(row.proofs)
        BY <1>6, <2>1, ProofKindsAreFew
      <3>2. Cardinality(new.proofs) \in Nat /\ Cardinality(row.proofs) \in Nat
        BY <2>1, ProofKindsAreFew
      <3>3. QED
        BY <1>2, <3>1, <3>2, RowFacts
    <2>3. new.status \notin Reviewed /\ new.status # "approved" /\ registrations[r].status \notin {"approved", "rejected"}
      BY <1>2, <1>6 DEF OpenStatus, Reviewed
    <2>4. QED
      BY <1>3, <1>4, <1>5, <1>6, <2>2, <2>3, RowKeeps
  <1>7. CASE UNCHANGED registrations
    <2>1. UNCHANGED <<founded, foundings>> /\ stranded' = stranded /\ rowHeld' = rowHeld
      BY <1>3 DEF ClubsRest
    <2>2. stranded' \in BOOLEAN /\ rowHeld' \in [Registrations -> ReviewCalls \cup {NoReview}]
      BY <2>1 DEF RegistrationsInv, RegistrationsTypeOK
    <2>3. NoReviewCall.op # "approve"
      BY DEF NoReviewCall
    <2>4. QED
      BY <1>1, <1>3, <1>4, <1>7, <2>1, <2>2, <2>3, CallKeeps
  <1>8. CASE Changes(c) /\ StillOpen(r)
    <2>1. PICK to \in LegalForms \cup RegisterKeys \cup {NoKey} : to = reviewCalls[c].to
      BY <1>1, <1>8
    <2>2. CASE to \in LegalForms
      <3> DEFINE new == [row EXCEPT !.form = to]
      <3>1. new \in RegistrationRow /\ new.status = row.status /\ new.proofs = row.proofs
        BY <2>2 DEF RegistrationRow
      <3>2. SetsRow(r, new) /\ row.status \in OpenStatus
        BY <1>2, <1>8, <2>1, <2>2 DEF Changes, StillOpen
      <3> HIDE DEF new
      <3>3. QED
        BY <1>6, <3>1, <3>2
    <2>3. CASE to \notin LegalForms
      <3> DEFINE new == [row EXCEPT !.key = to]
      <3>1. new \in RegistrationRow /\ new.status = row.status /\ new.proofs = row.proofs
        BY <2>3 DEF RegistrationRow
      <3>2. SetsRow(r, new) /\ row.status \in OpenStatus
        BY <1>2, <1>8, <2>1, <2>3 DEF Changes, StillOpen
      <3> HIDE DEF new
      <3>3. QED
        BY <1>6, <3>1, <3>2
    <2>4. QED
      BY <2>2, <2>3
  <1>9. CASE RemovesProof(c) /\ StillOpen(r)
    <2>1. PICK kind : kind = reviewCalls[c].to
      OBVIOUS
    <2> DEFINE new == [row EXCEPT !.proofs = @ \ {kind}]
    <2>2. new \in RegistrationRow /\ new.status = row.status /\ new.proofs \subseteq row.proofs
      BY DEF RegistrationRow
    <2>3. SetsRow(r, new) /\ row.status \in OpenStatus
      BY <1>2, <1>9, <2>1 DEF RemovesProof, StillOpen
    <2> HIDE DEF new
    <2>4. QED
      BY <1>6, <2>2, <2>3
  <1>10. QED
    BY <1>2, <1>7, <1>8, <1>9 DEF Changes, RemovesProof

\* ReviewRecords that begin, and an approval that waits for its row.
LEMMA CallSteps ==
  ASSUME RegistrationsInv, NEW c \in ReviewCalls,
         \/ \E r \in Registrations :
              \/ \E x \in LegalForms \cup RegisterKeys \cup {NoKey} : ReadsToChange(c, r, x)
              \/ \E k \in ProofKinds : ReadsToRemove(c, r, k)
              \/ ReadsToApprove(c, r)
         \/ LocksToApprove(c)
  PROVE  RegistrationsInv' /\ DecisionsStand
  <1>1. MaxReworks \in Nat /\ reworks \in 0..MaxReworks /\ MaxFounded \in Nat
    BY RegistrationsAssumption DEF RegistrationsInv, RegistrationsTypeOK
  <1>2. /\ UNCHANGED <<registrations, founded, foundings, stranded>>
        /\ reworks' = reworks \/ (reworks < MaxReworks /\ reworks' = reworks + 1)
    BY DEF ReadsToChange, ReadsToRemove, ReadsToApprove, LocksToApprove, ClubsRest, Reworks
  <1>3. reworks' \in 0..MaxReworks /\ stranded' \in BOOLEAN /\ (stranded => stranded')
    BY <1>1, <1>2 DEF RegistrationsInv, RegistrationsTypeOK
  <1>4. ASSUME NEW call \in ReviewRecords, ReviewCall(c, call), Approving(c) => reviewCalls[c].no = 0,
               call.op = "approve" => call.no = 0 /\ call.step \in {"waits", "checked"},
               rowHeld' \in [Registrations -> ReviewCalls \cup {NoReview}]
        PROVE  RegistrationsInv' /\ DecisionsStand
    BY <1>2, <1>3, <1>4, CallKeeps
  <1>5. ASSUME NEW r \in Registrations, NEW x \in LegalForms \cup RegisterKeys \cup {NoKey},
               ReadsToChange(c, r, x)
        PROVE  RegistrationsInv' /\ DecisionsStand
    <2>1. [op |-> "change", of |-> r, to |-> x] \in ChangeCall
      BY DEF ChangeCall
    <2>2. PICK call \in ReviewRecords : call = [op |-> "change", of |-> r, to |-> x]
      BY <2>1 DEF ReviewRecords
    <2>3. call.op = "change" /\ ReviewCall(c, call) /\ rowHeld' = rowHeld /\ ~Approving(c)
      BY <1>5, <2>2 DEF ReadsToChange, ClubsRest, Approving, NoReviewCall
    <2>4. QED
      BY <1>4, <2>3 DEF RegistrationsInv, RegistrationsTypeOK
  <1>6. ASSUME NEW r \in Registrations, NEW k \in ProofKinds, ReadsToRemove(c, r, k)
        PROVE  RegistrationsInv' /\ DecisionsStand
    <2>1. [op |-> "remove", of |-> r, to |-> k] \in RemoveCall
      BY DEF RemoveCall
    <2>2. PICK call \in ReviewRecords : call = [op |-> "remove", of |-> r, to |-> k]
      BY <2>1 DEF ReviewRecords
    <2>3. call.op = "remove" /\ ReviewCall(c, call) /\ rowHeld' = rowHeld /\ ~Approving(c)
      BY <1>6, <2>2 DEF ReadsToRemove, ClubsRest, Approving, NoReviewCall
    <2>4. QED
      BY <1>4, <2>3 DEF RegistrationsInv, RegistrationsTypeOK
  <1>7. ASSUME NEW r \in Registrations, ReadsToApprove(c, r)
        PROVE  RegistrationsInv' /\ DecisionsStand
    <2>1. /\ [op |-> "approve", of |-> r, step |-> "waits", no |-> NoClub] \in ApproveCall
          /\ [op |-> "approve", of |-> r, step |-> "waits", no |-> NoClub].no = 0
          /\ [op |-> "approve", of |-> r, step |-> "waits", no |-> NoClub].step = "waits"
      BY <1>1 DEF ApproveCall, NoClub
    <2>2. PICK call \in ReviewRecords : /\ call = [op |-> "approve", of |-> r, step |-> "waits", no |-> NoClub]
                                /\ call.no = 0 /\ call.step = "waits"
      BY <2>1 DEF ReviewRecords
    <2>3. ReviewCall(c, call) /\ rowHeld' = rowHeld /\ ~Approving(c)
      BY <1>7, <2>2 DEF ReadsToApprove, ClubsRest, Approving, NoReviewCall
    <2>4. QED
      BY <1>4, <2>2, <2>3 DEF RegistrationsInv, RegistrationsTypeOK
  <1>8. CASE LocksToApprove(c)
    <2>1. Approving(c) /\ reviewCalls[c].step = "waits"
      BY <1>8 DEF LocksToApprove, Approval, Approving
    <2>2. reviewCalls[c] \in ApproveCall /\ reviewCalls[c].no = 0
      BY <2>1, ApprovalTyped DEF HasItsClub
    <2>3. rowHeld' \in [Registrations -> ReviewCalls \cup {NoReview}]
      BY <1>8 DEF LocksToApprove, RegistrationsInv, RegistrationsTypeOK
    <2>4. CASE ReviewCall(c, NoReviewCall)
      <3>1. NoReviewCall \in ReviewRecords /\ NoReviewCall.op # "approve"
        BY DEF ReviewRecords, NoReviewCall
      <3>2. QED
        BY <1>4, <2>2, <2>3, <2>4, <3>1
    <2>5. CASE Proceeds(c, "checked")
      <3>1. PICK before \in ApproveCall : before = reviewCalls[c] /\ before.no = 0
        BY <2>2
      <3>2. /\ [before EXCEPT !.step = "checked"] \in ApproveCall
            /\ [before EXCEPT !.step = "checked"].no = before.no
            /\ [before EXCEPT !.step = "checked"].step = "checked"
        BY DEF ApproveCall
      <3>3. PICK call \in ReviewRecords : call = [before EXCEPT !.step = "checked"]
        BY <3>2 DEF ReviewRecords
      <3>4. ReviewCall(c, call)
        BY <2>5, <3>1, <3>3 DEF Proceeds
      <3>5. QED
        BY <1>4, <2>2, <2>3, <3>1, <3>2, <3>3, <3>4
    <2>6. QED
      BY <1>8, <2>4, <2>5 DEF LocksToApprove
  <1>9. QED
    BY <1>5, <1>6, <1>7, <1>8


\* The owner joins or fails to, the transaction fails, and the club is taken back.
LEMMA ApprovalSteps ==
  ASSUME RegistrationsInv, NEW c \in ReviewCalls,
         OwnerJoins(c) \/ OwnerFails(c) \/ ApprovalFails(c) \/ CleansUp(c)
  PROVE  RegistrationsInv' /\ DecisionsStand
  <1>1. Approving(c) /\ reviewCalls[c].step \in {"founded", "owned", "undone"}
    BY DEF OwnerJoins, OwnerFails, ApprovalFails, CleansUp, Approval, Approving
  <1>2. PICK before \in ApproveCall : before = reviewCalls[c]
    BY <1>1, ApprovalTyped
  <1>3. UNCHANGED <<registrations, foundings, reworks, stranded>>
    BY DEF OwnerJoins, OwnerFails, ApprovalFails, CleansUp
  <1>4. stranded' \in BOOLEAN /\ (stranded => stranded')
    BY <1>3 DEF RegistrationsInv, RegistrationsTypeOK
  <1>5. rowHeld' \in [Registrations -> ReviewCalls \cup {NoReview}]
    BY DEF OwnerJoins, OwnerFails, ApprovalFails, CleansUp, RegistrationsInv, RegistrationsTypeOK
  <1>6. /\ before.step = "founded" => Bare(c) \in founded
        /\ before.step \in {"owned", "undone"} => ClubOf(c) \in founded
    BY <1>1, <1>2, ApprovalTyped DEF HasItsClub
  <1>7. ASSUME NEW step \in {"checked", "owned", "undone"}, Proceeds(c, step),
               NEW club \in {ClubOf(c), Bare(c)}, club \in founded,
               \/ step = "checked" /\ founded' = founded \ {club}
               \/ step = "owned" /\ founded' = (founded \ {club}) \cup {ClubOf(c)}
               \/ step = "undone" /\ founded' = founded /\ club = ClubOf(c)
        PROVE  RegistrationsInv' /\ DecisionsStand
    <2>1. /\ [before EXCEPT !.step = step] \in ApproveCall
          /\ [before EXCEPT !.step = step].no = before.no /\ [before EXCEPT !.step = step].of = before.of
          /\ [before EXCEPT !.step = step].step = step /\ [before EXCEPT !.step = step].op = "approve"
      BY DEF ApproveCall
    <2>2. PICK call \in ReviewRecords : call = [before EXCEPT !.step = step]
      BY <2>1 DEF ReviewRecords
    <2>3. ReviewCall(c, call) /\ call.op = "approve" /\ call.of = reviewCalls[c].of
            /\ call.no = reviewCalls[c].no /\ call.step = step
      BY <1>2, <1>7, <2>1, <2>2 DEF Proceeds
    <2>4. founded' \in {founded, founded \ {club}, (founded \ {club}) \cup {ClubOf(c)}}
      BY <1>7
    <2>5. \/ call.step = "checked" /\ founded' = founded \ {club}
          \/ call.step \in {"owned", "undone"} /\ ClubOf(c) \in founded'
      BY <1>7, <2>3
    <2>6. QED
      BY <1>1, <1>3, <1>4, <1>5, <1>7, <2>2, <2>3, <2>4, <2>5, ClubKeeps
  <1>8. CASE OwnerJoins(c)
    <2>1. before.step = "founded" /\ Proceeds(c, "owned") /\ founded' = (founded \ {Bare(c)}) \cup {ClubOf(c)}
      BY <1>2, <1>8 DEF OwnerJoins, Approval
    <2>2. QED
      BY <1>6, <1>7, <2>1
  <1>9. CASE OwnerFails(c)
    <2>1. before.step = "founded" /\ Proceeds(c, "checked") /\ founded' = founded \ {Bare(c)}
      BY <1>2, <1>9 DEF OwnerFails, Approval
    <2>2. QED
      BY <1>6, <1>7, <2>1
  <1>10. CASE ApprovalFails(c)
    <2>1. before.step = "owned" /\ Proceeds(c, "undone") /\ founded' = founded
      BY <1>2, <1>10 DEF ApprovalFails, Approval
    <2>2. QED
      BY <1>6, <1>7, <2>1
  <1>11. CASE CleansUp(c)
    <2>1. ReviewCall(c, NoReviewCall) /\ founded' = founded \ {ClubOf(c)} /\ ClubOf(c) \in founded
      BY <1>2, <1>6, <1>11 DEF CleansUp, TakesBack, Approval
    <2>2. NoReviewCall \in ReviewRecords /\ NoReviewCall.op = "none"
      BY DEF ReviewRecords, NoReviewCall
    <2>3. PICK club \in {ClubOf(c), Bare(c)}, call \in ReviewRecords : club = ClubOf(c) /\ call = NoReviewCall
      BY <2>2
    <2>4. /\ ReviewCall(c, call) /\ call.op = "none" /\ club \in founded /\ founded' = founded \ {club}
          /\ founded' \in {founded, founded \ {club}, (founded \ {club}) \cup {ClubOf(c)}}
      BY <2>1, <2>2, <2>3
    <2>5. QED
      BY <1>1, <1>3, <1>4, <1>5, <2>4, ClubKeeps
  <1>12. QED
    BY <1>8, <1>9, <1>10, <1>11

\* A process ends: what it has founded may be left behind.
LEMMA DiesKeeps ==
  ASSUME RegistrationsInv, NEW c \in ReviewCalls, ReviewDies(c)
  PROVE  RegistrationsInv' /\ DecisionsStand
  <1>1. PICK none \in ReviewRecords : none = NoReviewCall /\ none.op = "none"
    <2>1. NoReviewCall \in ReviewRecords /\ NoReviewCall.op = "none"
      BY DEF ReviewRecords, NoReviewCall
    <2>2. QED
      BY <2>1
  <1>2. /\ ReviewCall(c, none) /\ UNCHANGED <<registrations, founded, foundings, reworks>>
        /\ rowHeld' = [r \in Registrations |-> IF rowHeld[r] = c THEN NoReview ELSE rowHeld[r]]
        /\ stranded' = (stranded \/ (Approving(c) /\ reviewCalls[c].no # 0))
    BY <1>1 DEF ReviewDies, Approving, NoClub
  <1>3. rowHeld' \in [Registrations -> ReviewCalls \cup {NoReview}] /\ reworks' \in 0..MaxReworks
    BY <1>2 DEF RegistrationsInv, RegistrationsTypeOK
  <1>4. stranded' \in BOOLEAN /\ (stranded => stranded')
    BY <1>2 DEF RegistrationsInv, RegistrationsTypeOK
  <1>5. Approving(c) => reviewCalls[c].no = 0 \/ stranded'
    BY <1>2
  <1>6. QED
    BY <1>1, <1>2, <1>3, <1>4, <1>5, CallKeeps

LEMMA RegistrationsStep ==
  ASSUME RegistrationsInv, [RegistrationsNext]_registrationVars
  PROVE  RegistrationsInv' /\ DecisionsStand
  <1>1. CASE UNCHANGED registrationVars
    BY <1>1 DEF registrationVars, RegistrationsInv, RegistrationsTypeOK, ReviewedIsProven, NoStrayClub,
                ApprovedHasItsClub, ClubsAreApart, Approving, HasItsClub, ClubOf, Bare, DecisionsStand
  <1>2. QED
    BY <1>1, ApplicantSteps, CallSteps, ChangeSteps, FoundsKeeps, ApprovalSteps, ApprovesKeeps, DiesKeeps
       DEF RegistrationsNext

LEMMA RegistrationsStart ==
  ASSUME RegistrationsInit
  PROVE  RegistrationsInv
  <1>1. {MaxProofs, MaxFounded, MaxReworks} \subseteq Nat
    BY RegistrationsAssumption
  <1>2. BlankForm \in RegistrationRow /\ BlankForm.status = "none" /\ BlankForm.proofs = {}
    BY <1>1 DEF BlankForm, RegistrationRow, LegalForms, NoClub
  <1>3. \A r \in Registrations : registrations[r] \in RegistrationRow /\ registrations[r].status = "none"
                                 /\ registrations[r].proofs = {}
    BY <1>2 DEF RegistrationsInit
  <1>4. \A r \in Registrations : Cardinality(registrations[r].proofs) <= MaxProofs
    BY <1>1, <1>3, FS_EmptySet
  <1>5. registrations \in [Registrations -> RegistrationRow]
    BY <1>2 DEF RegistrationsInit
  <1>6. RegistrationsTypeOK
    <2>1. /\ foundings \in 0..MaxFounded /\ reworks \in 0..MaxReworks /\ stranded \in BOOLEAN
          /\ rowHeld \in [Registrations -> ReviewCalls \cup {NoReview}]
          /\ founded \subseteq [of: Registrations, no: 1..MaxFounded, owned: BOOLEAN]
      <3>1. MaxFounded \in Nat /\ MaxReworks \in Nat
        BY <1>1
      <3>2. 0 \in 0..MaxFounded /\ 0 \in 0..MaxReworks
        BY <3>1
      <3>3. QED
        BY <3>2 DEF RegistrationsInit
    <2>2. QED
      BY <1>4, <1>5, <2>1 DEF RegistrationsTypeOK, RegistrationRow
  <1>7. reviewCalls \in [ReviewCalls -> ReviewRecords] /\ \A c \in ReviewCalls : ~Approving(c)
    BY DEF RegistrationsInit, ReviewRecords, NoReviewCall, Approving
  <1>8. ReviewedIsProven /\ ApprovedHasItsClub
    BY <1>3 DEF ReviewedIsProven, ApprovedHasItsClub, Reviewed
  <1>9. NoStrayClub /\ ClubsAreApart
    BY <1>7 DEF RegistrationsInit, NoStrayClub, ClubsAreApart
  <1>10. QED
    BY <1>6, <1>7, <1>8, <1>9 DEF RegistrationsInv

\* Reviewed registrations are proven, no failed approval leaves a club behind, an
\* approved one has its club with an owner, and decisions stand: for any number of
\* registrations and of calls (routes/club-registrations.ts,
\* routes/admin-club-registrations.ts).
THEOREM RegistrationsAreSound == RegistrationsSpec => RegistrationsPromise
  <1>1. RegistrationsInit => RegistrationsInv
    BY RegistrationsStart
  <1>2. RegistrationsInv /\ [RegistrationsNext]_registrationVars => RegistrationsInv'
    BY RegistrationsStep
  <1>3. RegistrationsInv /\ [RegistrationsNext]_registrationVars => [DecisionsStand]_registrationVars
    BY RegistrationsStep
  <1>4. RegistrationsInv => RegistrationsTypeOK /\ ReviewedIsProven /\ NoStrayClub /\ ApprovedHasItsClub
    BY DEF RegistrationsInv
  <1>5. QED
    BY <1>1, <1>2, <1>3, <1>4, PTL DEF RegistrationsSpec, RegistrationsPromise

-----------------------------------------------------------------------------
(***************************************************************************)
(* Consents.  ConsentInv: whoever has read holds the lock, so that the     *)
(* last event it read is still the newest when it writes.  HasNewest goes  *)
(* along because NewestOf chooses: in a log that only grows there is one   *)
(* to choose.                                                              *)
(***************************************************************************)
DecidedCall == [op: {"decided", "begun"}, by: {"self", "other"}, action: {"granted", "revoked"}, shown: Nat,
                dated: 0..MaxConsentTime, begun: 0..MaxConsentTime]
ReadCall == [op: {"read"}, call: DecidedCall, current: 0..MaxConsentTexts, last: ConsentRecord \cup {NoEvent}]

HasNewest == consents = <<>> \/ \E i \in DOMAIN consents : \A j \in DOMAIN consents : consents[j].at <= consents[i].at

ConsentCallsRight ==
  \A c \in ConsentCalls :
    /\ consentCalls[c].op = "begun" => consentCalls[c].begun # 0
    /\ consentCalls[c].op = "read" => /\ consentLock = {c} /\ consentCalls[c].last = NewestOf(consents)
                                      /\ consentCalls[c].call.begun # 0

ConsentInv ==
  /\ ConsentTypeOK /\ consentTexts \in Seq(1..MaxConsentTime) /\ consents \in Seq(ConsentRecord)
  /\ consentCalls \in [ConsentCalls -> DecidedCall \cup ReadCall \cup {NoDecision}]
  /\ HasNewest /\ ConsentCallsRight
  /\ consentLock = {} \/ \E c \in ConsentCalls : consentLock = {c}

ConsentsKept == RepeatsWriteNothing /\ GrantsNameShownText

LEMMA NewestTyped ==
  ASSUME ConsentInv
  PROVE  NewestOf(consents) \in ConsentRecord \cup {NoEvent}
  <1>1. CASE consents = <<>>
    BY <1>1 DEF NewestOf
  <1>2. CASE consents # <<>>
    <2>1. \E i \in DOMAIN consents : \A j \in DOMAIN consents : consents[j].at <= consents[i].at
      BY <1>2 DEF ConsentInv, HasNewest
    <2>2. PICK k \in DOMAIN consents :
            k = CHOOSE i \in DOMAIN consents : \A j \in DOMAIN consents : consents[j].at <= consents[i].at
      BY <2>1
    <2>3. consents[k] \in ConsentRecord
      BY <2>2 DEF ConsentInv
    <2>4. QED
      BY <1>2, <2>2, <2>3 DEF NewestOf
  <1>3. QED
    BY <1>1, <1>2

LEMMA ConsentCallsTyped ==
  ASSUME ConsentInv, NEW c \in ConsentCalls
  PROVE  /\ consentCalls[c] \in DecidedCall \cup ReadCall \cup {NoDecision}
         /\ consentCalls[c].op \in {"decided", "begun", "read", "none"}
         /\ consentCalls[c].op \in {"decided", "begun"} => consentCalls[c] \in DecidedCall
         /\ consentCalls[c].op = "read" => consentCalls[c] \in ReadCall
  BY DEF ConsentInv, DecidedCall, ReadCall, NoDecision

LEMMA ConsentTimes ==
  ASSUME ConsentInv
  PROVE  /\ MaxConsentTexts \in Nat /\ MaxConsentTime \in Nat
         /\ consentClock \in 1..MaxConsentTime + 1 /\ CurrentText \in 0..MaxConsentTexts
         /\ TimePasses => consentClock \in 1..MaxConsentTime /\ consentClock' \in 1..MaxConsentTime + 1
  <1>1. MaxConsentTexts \in Nat /\ MaxConsentTime \in Nat
    BY ConsentAssumption
  <1>2. consentClock \in 1..MaxConsentTime + 1 /\ Len(consentTexts) \in Nat /\ Len(consentTexts) <= MaxConsentTexts
    BY DEF ConsentInv, ConsentTypeOK
  <1>3. QED
    BY <1>1, <1>2 DEF TimePasses, CurrentText

LEMMA LocksAreFew ==
  ASSUME NEW S, S = {} \/ \E c \in ConsentCalls : S = {c}
  PROVE  S \subseteq ConsentCalls /\ Cardinality(S) <= 1
  <1>1. Cardinality({}) = 0 /\ \A c \in ConsentCalls : Cardinality({c}) = 1
    BY FS_EmptySet, FS_Singleton
  <1>2. Cardinality(S) = 0 \/ Cardinality(S) = 1
    BY <1>1
  <1>3. QED
    BY <1>2

\* A step that writes no decision: a call may begin, go on or end, and nobody else's
\* reading is touched.
LEMMA DecisionKeeps ==
  ASSUME ConsentInv, NEW c \in ConsentCalls, NEW call \in DecidedCall \cup ReadCall \cup {NoDecision},
         Decision(c, call), call.op # "read", call.op = "begun" => call.begun # 0,
         UNCHANGED <<consentTexts, purposeIs, consents, grownUp>>,
         consentClock' \in 1..MaxConsentTime + 1, application' \in 0..MaxConsentTime,
         consentLock' \in {consentLock, consentLock \ {c}}
  PROVE  ConsentInv' /\ ConsentsKept
  <1>1. /\ consentCalls'[c] = call /\ \A d \in ConsentCalls \ {c} : consentCalls'[d] = consentCalls[d]
        /\ consentCalls' \in [ConsentCalls -> DecidedCall \cup ReadCall \cup {NoDecision}]
    BY DEF ConsentInv, Decision
  <1>2. consentLock' = {} \/ \E d \in ConsentCalls : consentLock' = {d}
    BY DEF ConsentInv
  <1>3. consentLock' \subseteq ConsentCalls /\ Cardinality(consentLock') <= 1
    BY <1>2, LocksAreFew
  <1>4. ConsentTypeOK'
    BY <1>3 DEF ConsentInv, ConsentTypeOK
  <1>5. HasNewest' /\ NewestOf(consents') = NewestOf(consents)
    BY DEF ConsentInv, HasNewest
  <1>6. ConsentCallsRight'
    BY <1>1, <1>5 DEF ConsentInv, ConsentCallsRight
  <1>7. ConsentsKept
    BY DEF ConsentsKept, RepeatsWriteNothing, GrantsNameShownText
  <1>8. QED
    BY <1>1, <1>2, <1>4, <1>5, <1>6, <1>7 DEF ConsentInv

LEMMA DecidesSteps ==
  ASSUME ConsentInv, NEW c \in ConsentCalls,
         \/ \E by \in {"self", "other"} :
              \/ \E action \in {"granted", "revoked"} : DecidesConsent(c, by, action)
              \/ AcceptsTicked(c, by)
         \/ BeginsToRecord(c) \/ GivesUp(c)
  PROVE  ConsentInv' /\ ConsentsKept
  <1>1. /\ application \in 0..MaxConsentTime /\ consentClock \in 1..MaxConsentTime + 1 /\ CurrentText \in Nat
        /\ MaxConsentTime \in Nat
    BY ConsentTimes DEF ConsentInv, ConsentTypeOK
  <1>2. ASSUME NEW by \in {"self", "other"}, NEW action \in {"granted", "revoked"}, DecidesConsent(c, by, action)
        PROVE  ConsentInv' /\ ConsentsKept
    <2>1. [op |-> "decided", by |-> by, action |-> action, shown |-> CurrentText, dated |-> NoTime,
           begun |-> NoTime] \in DecidedCall
      BY <1>1 DEF DecidedCall, NoTime
    <2>2. PICK call \in DecidedCall : call = [op |-> "decided", by |-> by, action |-> action,
                                             shown |-> CurrentText, dated |-> NoTime, begun |-> NoTime]
      BY <2>1
    <2>3. /\ Decision(c, call) /\ call.op = "decided"
          /\ UNCHANGED <<consentTexts, purposeIs, consents, grownUp, consentClock, application, consentLock>>
      BY <1>2, <2>2 DEF DecidesConsent
    <2>4. QED
      BY <1>1, <2>3, DecisionKeeps
  <1>3. ASSUME NEW by \in {"self", "other"}, AcceptsTicked(c, by)
        PROVE  ConsentInv' /\ ConsentsKept
    <2>1. PICK seen : seen = Cardinality({v \in 1..CurrentText : consentTexts[v] <= application})
      OBVIOUS
    <2>2. seen \in Nat
      <3>1. IsFiniteSet(1..CurrentText)
        BY <1>1, FS_Interval
      <3>2. IsFiniteSet({v \in 1..CurrentText : consentTexts[v] <= application})
        BY <3>1, FS_Subset
      <3>3. QED
        BY <2>1, <3>2, FS_CardinalityType
    <2>3. [op |-> "decided", by |-> by, action |-> "granted", shown |-> seen, dated |-> application,
           begun |-> NoTime] \in DecidedCall
      BY <1>1, <2>2 DEF DecidedCall, NoTime
    <2>4. PICK call \in DecidedCall : call = [op |-> "decided", by |-> by, action |-> "granted",
                                             shown |-> seen, dated |-> application, begun |-> NoTime]
      BY <2>3
    <2>5. /\ Decision(c, call) /\ call.op = "decided" /\ application' = 0
          /\ UNCHANGED <<consentTexts, purposeIs, consents, grownUp, consentClock, consentLock>>
      BY <1>3, <2>1, <2>4 DEF AcceptsTicked, NoTime
    <2>6. QED
      BY <1>1, <2>5, DecisionKeeps
  <1>4. CASE BeginsToRecord(c)
    <2>1. consentCalls[c] \in DecidedCall /\ TimePasses
      BY <1>4, ConsentCallsTyped DEF BeginsToRecord
    <2>2. consentClock \in 1..MaxConsentTime /\ consentClock' \in 1..MaxConsentTime + 1
      BY <2>1, ConsentTimes
    <2>3. UNCHANGED <<consentTexts, purposeIs, consents, grownUp, application, consentLock>>
      BY <1>4 DEF BeginsToRecord
    <2>4. CASE Decision(c, NoDecision)
      <3>1. PICK call \in {NoDecision} : call = NoDecision /\ call.op = "none"
        BY DEF NoDecision
      <3>2. QED
        BY <1>1, <2>2, <2>3, <2>4, <3>1, DecisionKeeps
    <2>5. CASE ~Decision(c, NoDecision)
      <3>1. PICK old \in DecidedCall, at \in 1..MaxConsentTime : old = consentCalls[c] /\ at = consentClock
        BY <2>1, <2>2
      <3>2. /\ [old EXCEPT !.op = "begun", !.begun = at] \in DecidedCall
            /\ [old EXCEPT !.op = "begun", !.begun = at].op = "begun"
            /\ [old EXCEPT !.op = "begun", !.begun = at].begun = at
        <4>1. at \in 0..MaxConsentTime
          BY <1>1
        <4>2. QED
          BY <4>1 DEF DecidedCall
      <3>3. PICK call \in DecidedCall : call = [old EXCEPT !.op = "begun", !.begun = at]
        BY <3>2
      <3>4. Decision(c, call) /\ call.op = "begun" /\ call.begun # 0
        BY <1>4, <2>5, <3>1, <3>2, <3>3 DEF BeginsToRecord
      <3>5. QED
        BY <1>1, <2>2, <2>3, <3>4, DecisionKeeps
    <2>6. QED
      BY <2>4, <2>5
  <1>5. CASE GivesUp(c)
    <2>1. PICK call \in {NoDecision} : call = NoDecision /\ call.op = "none"
      BY DEF NoDecision
    <2>2. /\ Decision(c, call) /\ consentLock' = consentLock \ {c}
          /\ UNCHANGED <<consentTexts, purposeIs, consents, grownUp, consentClock, application>>
      BY <1>5, <2>1 DEF GivesUp
    <2>3. QED
      BY <1>1, <2>1, <2>2, DecisionKeeps
  <1>6. QED
    BY <1>2, <1>3, <1>4, <1>5

\* The purpose, its texts, the birthday and the application: no call is touched.
LEMMA PurposeSteps ==
  ASSUME ConsentInv, PublishesText \/ EditsPurpose \/ GrowsUp \/ TicksConsent \/ UNCHANGED consentVars
  PROVE  ConsentInv' /\ ConsentsKept
  <1>1. UNCHANGED <<consents, consentLock, consentCalls>>
    BY DEF PublishesText, EditsPurpose, GrowsUp, TicksConsent, consentVars
  <1>2. ConsentsKept
    BY <1>1 DEF ConsentsKept, RepeatsWriteNothing, GrantsNameShownText
  <1>3. HasNewest' /\ ConsentCallsRight'
    BY <1>1 DEF ConsentInv, HasNewest, ConsentCallsRight
  <1>4. /\ MaxConsentTexts \in Nat /\ MaxConsentTime \in Nat
        /\ consentClock \in 1..MaxConsentTime + 1 /\ consentTexts \in Seq(1..MaxConsentTime)
        /\ application \in 0..MaxConsentTime /\ purposeIs \in Purpose /\ grownUp \in BOOLEAN
        /\ Len(consentTexts) \in Nat /\ Len(consentTexts) <= MaxConsentTexts
    BY ConsentTimes DEF ConsentInv, ConsentTypeOK
  <1>5. /\ consentClock' \in 1..MaxConsentTime + 1 /\ consentTexts' \in Seq(1..MaxConsentTime)
        /\ application' \in 0..MaxConsentTime /\ purposeIs' \in Purpose /\ grownUp' \in BOOLEAN
        /\ Len(consentTexts') <= MaxConsentTexts
    <2>1. CASE PublishesText
      <3>1. consentClock \in 1..MaxConsentTime /\ consentClock' \in 1..MaxConsentTime + 1
        BY <2>1, ConsentTimes DEF PublishesText
      <3>2. /\ consentTexts' = Append(consentTexts, consentClock) /\ Len(consentTexts) < MaxConsentTexts
            /\ UNCHANGED <<grownUp, application>>
        BY <2>1 DEF PublishesText, CurrentText
      <3>3. consentTexts' \in Seq(1..MaxConsentTime) /\ Len(consentTexts') = Len(consentTexts) + 1
        BY <1>4, <3>1, <3>2
      <3>4. purposeIs' \in Purpose
        <4>1. PICK b \in BOOLEAN : b = (purposeIs.active \/ consentTexts = <<>>)
          OBVIOUS
        <4>2. purposeIs' = [purposeIs EXCEPT !.active = b]
          BY <2>1, <4>1 DEF PublishesText
        <4>3. QED
          BY <1>4, <4>2 DEF Purpose
      <3>5. QED
        BY <1>4, <3>1, <3>2, <3>3, <3>4
    <2>2. CASE EditsPurpose
      <3>1. consentClock' \in 1..MaxConsentTime + 1
        BY <2>2, ConsentTimes DEF EditsPurpose
      <3>2. UNCHANGED <<consentTexts, grownUp, application>>
        BY <2>2 DEF EditsPurpose
      <3>3. purposeIs' \in Purpose
        <4>1. PICK b \in BOOLEAN : b = (purposeIs.active \/ consentTexts # <<>>)
          OBVIOUS
        <4>2. purposeIs' \in {[active |-> FALSE, archived |-> TRUE], [purposeIs EXCEPT !.archived = FALSE],
                              [purposeIs EXCEPT !.active = FALSE], [purposeIs EXCEPT !.active = b]}
          BY <2>2, <4>1 DEF EditsPurpose
        <4>3. PICK p \in Purpose : p = purposeIs
          BY <1>4
        <4>4. /\ [active |-> FALSE, archived |-> TRUE] \in Purpose /\ [p EXCEPT !.archived = FALSE] \in Purpose
              /\ [p EXCEPT !.active = FALSE] \in Purpose /\ [p EXCEPT !.active = b] \in Purpose
          BY DEF Purpose
        <4>5. QED
          BY <4>2, <4>3, <4>4
      <3>4. QED
        BY <1>4, <3>1, <3>2, <3>3
    <2>3. CASE GrowsUp
      BY <1>4, <2>3 DEF GrowsUp
    <2>4. CASE TicksConsent
      <3>1. consentClock \in 1..MaxConsentTime /\ consentClock' \in 1..MaxConsentTime + 1
        BY <2>4, ConsentTimes DEF TicksConsent
      <3>2. application' = consentClock /\ UNCHANGED <<consentTexts, purposeIs, grownUp>>
        BY <2>4 DEF TicksConsent
      <3>3. QED
        BY <1>4, <3>1, <3>2
    <2>5. CASE UNCHANGED consentVars
      BY <1>4, <2>5 DEF consentVars
    <2>6. QED
      BY <2>1, <2>2, <2>3, <2>4, <2>5
  <1>6. QED
    BY <1>1, <1>2, <1>3, <1>5 DEF ConsentInv, ConsentTypeOK

\* Under the lock nobody else has read.
LEMMA ReadsKeeps ==
  ASSUME ConsentInv, NEW c \in ConsentCalls, ReadsLast(c)
  PROVE  ConsentInv' /\ ConsentsKept
  <1>1. PICK before \in DecidedCall : before = consentCalls[c] /\ before.op = "begun" /\ before.begun # 0
    BY ConsentCallsTyped DEF ReadsLast, ConsentInv, ConsentCallsRight
  <1>2. PICK last \in ConsentRecord \cup {NoEvent} : last = NewestOf(consents)
    BY NewestTyped
  <1>3. PICK current \in 0..MaxConsentTexts : current = CurrentText
    BY ConsentTimes
  <1>4. [op |-> "read", call |-> before, current |-> current, last |-> last] \in ReadCall
    BY DEF ReadCall
  <1>5. PICK read \in ReadCall : read = [op |-> "read", call |-> before, current |-> current, last |-> last]
    BY <1>4
  <1>6. read.op = "read" /\ read.call = before /\ read.last = last
    BY <1>5
  <1>7. /\ consentLock = {} /\ consentLock' = {c} /\ consentCalls' = [consentCalls EXCEPT ![c] = read]
        /\ UNCHANGED <<consentClock, consentTexts, purposeIs, consents, grownUp, application>>
    BY <1>1, <1>2, <1>3, <1>5 DEF ReadsLast, DecisionsFree, Decision
  <1>8. /\ consentCalls'[c] = read /\ \A d \in ConsentCalls \ {c} : consentCalls'[d] = consentCalls[d]
        /\ consentCalls' \in [ConsentCalls -> DecidedCall \cup ReadCall \cup {NoDecision}]
    BY <1>7 DEF ConsentInv
  <1>9. \A d \in ConsentCalls : consentCalls[d].op # "read"
    BY <1>7 DEF ConsentInv, ConsentCallsRight
  <1>10. ConsentTypeOK'
    <2>1. consentLock' \subseteq ConsentCalls /\ Cardinality(consentLock') <= 1
      BY <1>7, LocksAreFew
    <2>2. QED
      BY <1>7, <2>1 DEF ConsentInv, ConsentTypeOK
  <1>11. HasNewest' /\ NewestOf(consents') = NewestOf(consents)
    BY <1>7 DEF ConsentInv, HasNewest
  <1>12. ConsentCallsRight'
    BY <1>1, <1>2, <1>6, <1>7, <1>8, <1>9, <1>11 DEF ConsentInv, ConsentCallsRight
  <1>13. ConsentsKept
    BY <1>7 DEF ConsentsKept, RepeatsWriteNothing, GrantsNameShownText
  <1>14. QED
    BY <1>7, <1>8, <1>10, <1>11, <1>12, <1>13 DEF ConsentInv


\* A decision is written as it was read: the lock kept the log, the comparison of
\* the texts what the person was shown.
LEMMA WritesKeeps ==
  ASSUME ConsentInv, NEW c \in ConsentCalls, WritesDecision(c)
  PROVE  ConsentInv' /\ ConsentsKept
  <1>1. PICK read \in ReadCall : read = consentCalls[c]
    BY ConsentCallsTyped DEF WritesDecision
  <1>2. PICK call \in DecidedCall : call = read.call
    BY DEF ReadCall
  <1>3. PICK last \in ConsentRecord \cup {NoEvent} : last = read.last
    BY DEF ReadCall
  <1>4. PICK current \in 0..MaxConsentTexts : current = read.current
    BY DEF ReadCall
  <1>5. /\ consentCalls[c].op = "read" /\ consentLock = {c} /\ last = NewestOf(consents) /\ call.begun # 0
    BY <1>1, <1>2, <1>3 DEF WritesDecision, ConsentInv, ConsentCallsRight
  <1> DEFINE text == IF call.action = "granted" \/ last = NoEvent THEN current ELSE last.text
             at == IF call.dated > last.at THEN call.dated ELSE call.begun
             refused == text = 0 \/ (call.action = "granted" /\ ~ShownIsCurrent(call, current))
             event == [action |-> call.action, text |-> text, by |-> call.by, at |-> at]
  <1>6. /\ consents' = IF refused \/ ~SaysMore(call, text, last) THEN consents ELSE Append(consents, event)
        /\ consentLock' = {} /\ consentCalls' = [consentCalls EXCEPT ![c] = NoDecision]
        /\ UNCHANGED <<consentClock, consentTexts, purposeIs, grownUp, application>>
    BY <1>1, <1>2, <1>3, <1>4, <1>5 DEF WritesDecision, Decision
  <1>7. /\ consentCalls'[c] = NoDecision /\ \A d \in ConsentCalls \ {c} : consentCalls'[d] = consentCalls[d]
        /\ consentCalls' \in [ConsentCalls -> DecidedCall \cup ReadCall \cup {NoDecision}]
        /\ NoDecision.op = "none"
    BY <1>6 DEF ConsentInv, NoDecision
  <1>8. \A d \in ConsentCalls : consentCalls[d].op = "read" => d = c
    BY <1>5 DEF ConsentInv, ConsentCallsRight
  <1>9. ConsentCallsRight'
    BY <1>7, <1>8 DEF ConsentInv, ConsentCallsRight
  <1>10. Cardinality(consentLock') <= 1 /\ consentLock' \subseteq ConsentCalls
    BY <1>6, LocksAreFew
  <1>11. CASE consents' = consents
    <2>1. ConsentTypeOK'
      BY <1>6, <1>10, <1>11 DEF ConsentInv, ConsentTypeOK
    <2>2. HasNewest'
      BY <1>11 DEF ConsentInv, HasNewest
    <2>3. ConsentsKept
      BY <1>11 DEF ConsentsKept, RepeatsWriteNothing, GrantsNameShownText
    <2>4. QED
      BY <1>6, <1>7, <1>9, <1>11, <2>1, <2>2, <2>3 DEF ConsentInv
  <1>12. CASE consents' # consents
    <2>1. consents' = Append(consents, event) /\ ~refused /\ SaysMore(call, text, last)
      BY <1>6, <1>12
    <2>2. /\ MaxConsentTexts \in Nat /\ MaxConsentTime \in Nat
          /\ call.action \in {"granted", "revoked"} /\ call.by \in {"self", "other"}
          /\ call.dated \in 0..MaxConsentTime /\ call.begun \in 0..MaxConsentTime
      BY ConsentTimes DEF DecidedCall
    <2>3. last.at \in Nat /\ last.text \in 0..MaxConsentTexts
      BY <2>2 DEF ConsentRecord, NoEvent
    <2>4. text \in 1..MaxConsentTexts
      BY <2>1, <2>2, <2>3
    <2>5. at \in 1..MaxConsentTime
      BY <1>5, <2>2, <2>3
    <2>6. event \in ConsentRecord /\ event.action = call.action /\ event.by = call.by /\ event.text = text
      <3> HIDE DEF text, at
      <3>1. QED
        BY <2>2, <2>4, <2>5 DEF ConsentRecord
    <2> HIDE DEF event
    <2>7. consents \in Seq(ConsentRecord)
      BY DEF ConsentInv
    <2>8. /\ consents' \in Seq(ConsentRecord) /\ Len(consents') = Len(consents) + 1
          /\ consents'[Len(consents')] = event /\ Len(consents) \in Nat
          /\ \A i \in 1..Len(consents) : consents'[i] = consents[i]
      BY <2>1, <2>6, <2>7
    <2>9. ConsentTypeOK'
      <3>1. \A i \in DOMAIN consents' : consents'[i] \in ConsentRecord
        BY <2>8
      <3>2. QED
        BY <1>6, <1>10, <3>1 DEF ConsentInv, ConsentTypeOK
    <2>10. HasNewest'
      <3>1. \A i \in DOMAIN consents' : consents'[i].at \in Nat
        <4>1. TAKE i \in DOMAIN consents'
        <4>2. consents'[i] \in ConsentRecord
          BY <2>8
        <4>3. consents'[i].at \in 1..MaxConsentTime
          BY <4>2 DEF ConsentRecord
        <4>4. QED
          BY <2>2, <4>3
      <3>2. CASE consents = <<>>
        <4>1. \A j \in DOMAIN consents' : j = Len(consents')
          BY <2>8, <3>2
        <4>2. Len(consents') \in DOMAIN consents' /\ \A j \in DOMAIN consents' : consents'[j].at <= consents'[Len(consents')].at
          BY <2>8, <3>1, <4>1
        <4>3. QED
          BY <4>2 DEF HasNewest
      <3>3. CASE consents # <<>>
        <4>1. PICK i \in DOMAIN consents : \A j \in DOMAIN consents : consents[j].at <= consents[i].at
          BY <3>3 DEF ConsentInv, HasNewest
        <4>2. i \in 1..Len(consents) /\ DOMAIN consents' = 1..Len(consents) + 1 /\ i \in DOMAIN consents'
          BY <2>7, <2>8
        <4>3. \A j \in 1..Len(consents) : consents'[j].at <= consents'[i].at
          BY <2>7, <2>8, <4>1, <4>2
        <4>4. CASE event.at <= consents'[i].at
          <5>1. \A j \in DOMAIN consents' : consents'[j].at <= consents'[i].at
            BY <2>8, <4>2, <4>3, <4>4
          <5>2. QED
            BY <4>2, <5>1 DEF HasNewest
        <4>5. CASE ~(event.at <= consents'[i].at)
          <5>1. Len(consents') \in DOMAIN consents' /\ consents'[i].at \in Nat /\ event.at \in Nat
            BY <2>8, <3>1, <4>2
          <5>2. ASSUME NEW j \in DOMAIN consents'
                PROVE  consents'[j].at <= consents'[Len(consents')].at
            <6>1. CASE j = Len(consents')
              BY <2>8, <5>1, <6>1
            <6>2. CASE j # Len(consents')
              <7>1. j \in 1..Len(consents) /\ consents'[j].at \in Nat
                BY <2>8, <3>1, <4>2, <6>2
              <7>2. QED
                BY <2>8, <4>3, <4>5, <5>1, <7>1
            <6>3. QED
              BY <6>1, <6>2
          <5>3. QED
            BY <5>1, <5>2 DEF HasNewest
        <4>6. QED
          BY <4>4, <4>5
      <3>4. QED
        BY <3>2, <3>3
    <2>11. RepeatsWriteNothing
      <3>1. \A i \in DOMAIN consents' : i \notin DOMAIN consents => i = Len(consents')
        BY <2>7, <2>8
      <3>2. SaysMore(event, event.text, last)
        BY <2>1, <2>6 DEF SaysMore
      <3>3. QED
        BY <1>5, <2>8, <3>1, <3>2 DEF RepeatsWriteNothing
    <2>12. GrantsNameShownText
      <3>1. ASSUME NEW d \in ConsentCalls, consentCalls[d].op = "read", event.action = "granted"
            PROVE  event.text = consentCalls[d].call.shown
        <4>1. d = c
          BY <1>8, <3>1
        <4>2. call.shown = current /\ text = current
          BY <2>1, <2>6, <3>1 DEF ShownIsCurrent
        <4>3. QED
          BY <1>1, <1>2, <2>6, <4>1, <4>2
      <3>2. QED
        BY <2>8, <3>1 DEF GrantsNameShownText
    <2>13. QED
      BY <1>6, <1>7, <1>9, <2>8, <2>9, <2>10, <2>11, <2>12 DEF ConsentInv, ConsentsKept
  <1>13. QED
    BY <1>11, <1>12

LEMMA ConsentStep ==
  ASSUME ConsentInv, [ConsentNext]_consentVars
  PROVE  ConsentInv' /\ ConsentsKept
  BY DecidesSteps, PurposeSteps, ReadsKeeps, WritesKeeps DEF ConsentNext

LEMMA ConsentStarts ==
  ASSUME ConsentInit
  PROVE  ConsentInv
  <1>1. MaxConsentTexts \in Nat /\ MaxConsentTime \in Nat
    BY ConsentAssumption
  <1>2. consentLock = {} /\ consentLock \subseteq ConsentCalls /\ Cardinality(consentLock) <= 1
    BY LocksAreFew DEF ConsentInit
  <1>3. consentTexts = <<>> /\ consents = <<>> /\ Len(consentTexts) = 0 /\ DOMAIN consents = {}
    BY DEF ConsentInit
  <1>4. ConsentTypeOK
    BY <1>1, <1>2, <1>3 DEF ConsentInit, ConsentTypeOK, Purpose, NoTime
  <1>5. \A c \in ConsentCalls : consentCalls[c] = NoDecision /\ NoDecision.op = "none"
    BY DEF ConsentInit, NoDecision
  <1>6. HasNewest /\ ConsentCallsRight
    BY <1>3, <1>5 DEF HasNewest, ConsentCallsRight
  <1>7. consentCalls \in [ConsentCalls -> DecidedCall \cup ReadCall \cup {NoDecision}]
    BY DEF ConsentInit
  <1>8. QED
    BY <1>2, <1>3, <1>4, <1>6, <1>7 DEF ConsentInv

\* Whatever runs in parallel, an event says more than the newest one did, and a grant
\* names the text its person was shown.
THEOREM ConsentIsSound == ConsentSpec => ConsentPromise
  <1>1. ConsentInit => ConsentInv
    BY ConsentStarts
  <1>2. ConsentInv /\ [ConsentNext]_consentVars => ConsentInv'
    BY ConsentStep
  <1>3. ConsentInv /\ [ConsentNext]_consentVars => [RepeatsWriteNothing /\ GrantsNameShownText]_consentVars
    BY ConsentStep DEF ConsentsKept
  <1>4. ConsentInv => ConsentTypeOK
    BY DEF ConsentInv
  <1>5. QED
    BY <1>1, <1>2, <1>3, <1>4, PTL DEF ConsentSpec, ConsentPromise

-----------------------------------------------------------------------------
(***************************************************************************)
(* Retention.  RetentionInv: what would have been due on the day of a      *)
(* notice, and has not been backdated, released or given a shorter period  *)
(* since, was announced on that day.  The records a sweep has picked       *)
(* follow from it; what it is about to announce and to log is tied to the  *)
(* day that is running. HasNewestNotice goes along because a sweep chooses *)
(* the newest ripe notice.                                                 *)
(***************************************************************************)
RetentionRun ==
  {Asleep, [op |-> "logging"]}
    \cup [op: {"deleting", "counting"}, days: Periods, notice: 0..LastNow,
          waiting: BOOLEAN, picked: SUBSET Records]
    \cup [op: {"announcing"}, due: SUBSET Records]

NoticesUpTo(day) == {d \in notices : d <= day}

HasNewestNotice ==
  \A day \in Int :
    NoticesUpTo(day) # {} => \E d \in NoticesUpTo(day) : \A e \in NoticesUpTo(day) : e <= d

\* Was a record announced on a day on which, by what is known today, it was due?
AnnouncedIfDue(r, d) == r \in DueOn(d, retainDays) => d \in toldOn[r]

NoticedAreTold == \A r \in Records : r \notin touched => \A d \in notices : AnnouncedIfDue(r, d)

\* A period that was read is not longer than the one that holds, for what is untouched.
RunKeepsPeriod ==
  retentionRun.op \in {"deleting", "counting"}
    => \A r \in Records : r \notin touched => retentionRun.days <= retainDays

PickedAreTold ==
  retentionRun.op = "deleting"
    => \A r \in retentionRun.picked : r \notin touched => ToldLongBefore(r)

AnnouncesDue ==
  retentionRun.op = "announcing"
    => \A r \in Records : (r \notin touched /\ r \in DueOn(now, retainDays)) => r \in retentionRun.due

LogsTold ==
  retentionRun.op = "logging" => \A r \in Records : r \notin touched => AnnouncedIfDue(r, now)

RetentionInv ==
  /\ RetentionTypeOK /\ retentionRun \in RetentionRun
  /\ notices \subseteq 1..now /\ HasNewestNotice /\ NoticedAreTold
  /\ RunKeepsPeriod /\ PickedAreTold /\ AnnouncesDue /\ LogsTold

RetentionKept == UntouchedAreTold /\ HeldMembersStay

LEMMA RetentionNumbers ==
  ASSUME RetentionInv
  PROVE  /\ NoticeDays \in Nat /\ NoticeDays > 0 /\ LastNow \in Nat /\ LastNow > 0
         /\ now \in Nat /\ now > 0 /\ now <= LastNow /\ retainDays \in Nat /\ \A p \in Periods : p \in Nat
         /\ \A d \in notices : d \in Nat /\ d > 0 /\ d <= now /\ d \in Nows
         /\ \A r \in Records : ended[r] \in Nat
  BY RetentionAssumption DEF RetentionInv, RetentionTypeOK, Nows

LEMMA RunFields ==
  ASSUME NEW run \in RetentionRun
  PROVE  /\ run.op \in {"none", "deleting", "counting", "announcing", "logging"}
         /\ run.op \in {"deleting", "counting"}
              => run \in [op: {"deleting", "counting"}, days: Periods, notice: 0..LastNow,
                          waiting: BOOLEAN, picked: SUBSET Records]
         /\ run.op = "announcing" => run.due \subseteq Records
  BY DEF RetentionRun, Asleep

\* Initially nobody was told of anything.
LEMMA RetentionStarts ==
  ASSUME RetentionInit
  PROVE  RetentionInv
  <1>1. LastNow \in Nat /\ LastNow > 0
    BY RetentionAssumption
  <1>2. 1 \in 0..LastNow /\ 1 \in 1..LastNow
    BY <1>1
  <1>3. RetentionTypeOK
    BY <1>2 DEF RetentionInit, RetentionTypeOK, Nows, Asleep
  <1>4. retentionRun \in RetentionRun /\ retentionRun.op = "none" /\ notices = {}
    BY DEF RetentionInit, RetentionRun, Asleep
  <1>5. HasNewestNotice /\ NoticedAreTold
    BY <1>4 DEF HasNewestNotice, NoticesUpTo, NoticedAreTold
  <1>6. QED
    BY <1>3, <1>4, <1>5 DEF RetentionInv, RunKeepsPeriod, PickedAreTold, AnnouncesDue, LogsTold

\* The newest of the notices that are old enough.
LEMMA RipeNotice ==
  ASSUME RetentionInv, NEW ripe, ripe = {d \in notices : d <= now - NoticeDays}, ripe # {}
  PROVE  \E d \in ripe : /\ d = CHOOSE d1 \in ripe : \A e \in ripe : e <= d1
                         /\ d \in notices /\ d + NoticeDays <= now /\ d \in 1..LastNow
  <1>1. now - NoticeDays \in Int
    BY RetentionNumbers
  <1>2. ripe = NoticesUpTo(now - NoticeDays)
    BY DEF NoticesUpTo
  <1>3. \E d \in ripe : \A e \in ripe : e <= d
    BY <1>1, <1>2 DEF RetentionInv, HasNewestNotice
  <1>4. PICK d : d = CHOOSE d1 \in ripe : \A e \in ripe : e <= d1
    OBVIOUS
  <1>5. d \in ripe
    BY <1>3, <1>4
  <1>6. d \in notices /\ d + NoticeDays <= now /\ d \in 1..LastNow
    BY <1>5, RetentionNumbers
  <1>7. QED
    BY <1>4, <1>5, <1>6

\* A sweep picks what was due on the day of a notice that has become old enough.
LEMMA SelectsKeeps ==
  ASSUME RetentionInv, SweepSelects
  PROVE  RetentionInv' /\ RetentionKept
  <1>1. PICK ripe : ripe = {d \in notices : d <= now - NoticeDays}
    OBVIOUS
  <1>2. PICK notice : notice = IF ripe = {} THEN 0 ELSE CHOOSE d \in ripe : \A e \in ripe : e <= d
    OBVIOUS
  <1>3. PICK due : due = DueWhenTold(notice, now, retainDays)
    OBVIOUS
  <1>4. PICK picked \in SUBSET due :
          retentionRun' = [op |-> "deleting", days |-> retainDays, notice |-> notice,
                           waiting |-> \E d \in notices : d > notice, picked |-> picked]
    BY <1>1, <1>2, <1>3 DEF SweepSelects
  <1>5. UNCHANGED <<kept, notices, toldOn, erasing, ended, onHold, retainDays, now, touched, touches>>
    BY DEF SweepSelects, unsweptVars
  <1>6. \A r \in due : /\ r \in Records /\ notice \in notices /\ notice + NoticeDays <= now
                       /\ r \in DueOn(notice, retainDays)
    <2>1. TAKE r \in due
    <2>2. notice # 0 /\ r \in DueOn(notice, retainDays)
      BY <1>3 DEF DueWhenTold
    <2>3. r \in Records
      BY <2>2 DEF DueOn, RetentionInv, RetentionTypeOK
    <2>4. ripe # {}
      BY <1>2, <2>2
    <2>5. notice \in notices /\ notice + NoticeDays <= now
      BY <1>1, <1>2, <2>4, RipeNotice
    <2>6. QED
      BY <2>2, <2>3, <2>5
  <1>7. notice \in 0..LastNow
    <2>1. 0 \in 0..LastNow
      BY RetentionNumbers
    <2>2. CASE ripe = {}
      BY <1>2, <2>1, <2>2
    <2>3. CASE ripe # {}
      <3>1. PICK d \in ripe : d = (CHOOSE d1 \in ripe : \A e \in ripe : e <= d1) /\ d \in 1..LastNow
        BY <1>1, <2>3, RipeNotice
      <3>2. notice = d
        BY <1>2, <2>3, <3>1
      <3>3. QED
        BY <3>1, <3>2, RetentionNumbers
    <2>4. QED
      BY <2>2, <2>3
  <1>8. retainDays \in Periods /\ retainDays <= retainDays
    BY RetentionNumbers DEF RetentionInv, RetentionTypeOK
  <1>9. picked \subseteq Records
    BY <1>6
  <1>10. /\ retentionRun' \in RetentionRun /\ retentionRun'.op = "deleting"
         /\ retentionRun'.days = retainDays /\ retentionRun'.picked = picked
    <2>1. PICK waits \in BOOLEAN : waits = \E d \in notices : d > notice
      OBVIOUS
    <2>2. retentionRun' = [op |-> "deleting", days |-> retainDays, notice |-> notice,
                           waiting |-> waits, picked |-> picked]
      BY <1>4, <2>1
    <2>3. QED
      BY <1>7, <1>8, <1>9, <2>2 DEF RetentionRun
  <1>11. PickedAreTold'
    <2>1. SUFFICES ASSUME NEW r \in picked, r \notin touched
                   PROVE  ToldLongBefore(r)'
      BY <1>5, <1>10 DEF PickedAreTold
    <2>2. /\ r \in Records /\ notice \in notices /\ notice + NoticeDays <= now
          /\ r \in DueOn(notice, retainDays)
      BY <1>6
    <2>3. notice \in toldOn[r]
      BY <2>1, <2>2 DEF RetentionInv, NoticedAreTold, AnnouncedIfDue
    <2>4. QED
      BY <1>5, <2>2, <2>3 DEF ToldLongBefore
  <1>12. RetentionTypeOK' /\ HasNewestNotice' /\ NoticedAreTold' /\ notices' \subseteq 1..now'
    BY <1>5, <1>10 DEF RetentionInv, RetentionTypeOK, HasNewestNotice, NoticesUpTo, NoticedAreTold,
                       AnnouncedIfDue, DueOn, Nows
  <1>13. RunKeepsPeriod' /\ AnnouncesDue' /\ LogsTold'
    BY <1>5, <1>8, <1>10 DEF RunKeepsPeriod, AnnouncesDue, LogsTold
  <1>14. RetentionKept
    BY <1>5 DEF RetentionKept, UntouchedAreTold, HeldMembersStay
  <1>15. QED
    BY <1>10, <1>11, <1>12, <1>13, <1>14 DEF RetentionInv

\* Rows go by the ids that were picked, members one by one and not while held.
LEMMA DeletesKeeps ==
  ASSUME RetentionInv, SweepDeletes
  PROVE  RetentionInv' /\ RetentionKept
  <1>1. PICK run \in RetentionRun : run = retentionRun
    BY DEF RetentionInv
  <1>2. run.op = "deleting"
    BY <1>1 DEF SweepDeletes
  <1>3. run \in [op: {"deleting", "counting"}, days: Periods, notice: 0..LastNow,
                 waiting: BOOLEAN, picked: SUBSET Records]
    BY <1>2, RunFields
  <1>4. UNCHANGED <<notices, toldOn, erasing, ended, onHold, retainDays, now, touched, touches>>
    BY DEF SweepDeletes, unsweptVars
  <1>5. \E go \in SUBSET run.picked :
          /\ kept' = kept \ go /\ (erasing => go \cap onHold = {})
          /\ \/ retentionRun' = [run EXCEPT !.op = "counting"]
             \/ \E left \in SUBSET run.picked : retentionRun' = [run EXCEPT !.picked = left]
    <2>1. CASE run.picked = {}
      <3>1. kept' = kept \ {} /\ retentionRun' = [run EXCEPT !.op = "counting"]
        BY <1>1, <2>1 DEF SweepDeletes
      <3>2. QED
        BY <3>1
    <2>2. CASE run.picked # {} /\ erasing
      <3>1. PICK r \in run.picked :
              /\ retentionRun' = [run EXCEPT !.picked = @ \ {r}]
              /\ kept' = IF Erasable(r) THEN kept \ {r} ELSE kept
        BY <1>1, <2>2 DEF SweepDeletes
      <3>2. retentionRun' = [run EXCEPT !.picked = run.picked \ {r}]
        BY <3>1
      <3>3. PICK go : go = IF Erasable(r) THEN {r} ELSE {}
        OBVIOUS
      <3>4. kept' = kept \ go /\ go \subseteq run.picked /\ go \cap onHold = {}
        BY <3>1, <3>3 DEF Erasable
      <3>5. run.picked \ {r} \in SUBSET run.picked
        OBVIOUS
      <3>6. QED
        BY <3>2, <3>4, <3>5
    <2>3. CASE run.picked # {} /\ ~erasing
      <3>1. kept' = kept \ run.picked /\ retentionRun' = [run EXCEPT !.picked = {}]
        BY <1>1, <2>3 DEF SweepDeletes
      <3>2. QED
        BY <2>3, <3>1
    <2>4. QED
      BY <2>1, <2>2, <2>3
  <1>6. PICK go \in SUBSET run.picked :
          /\ kept' = kept \ go /\ (erasing => go \cap onHold = {})
          /\ \/ retentionRun' = [run EXCEPT !.op = "counting"]
             \/ \E left \in SUBSET run.picked : retentionRun' = [run EXCEPT !.picked = left]
    BY <1>5
  <1>7. /\ retentionRun' \in RetentionRun /\ retentionRun'.op \in {"deleting", "counting"}
        /\ retentionRun'.days = run.days /\ retentionRun'.picked \subseteq run.picked
    <2>1. CASE retentionRun' = [run EXCEPT !.op = "counting"]
      BY <1>3, <2>1 DEF RetentionRun
    <2>2. CASE \E left \in SUBSET run.picked : retentionRun' = [run EXCEPT !.picked = left]
      <3>1. PICK left \in SUBSET run.picked : retentionRun' = [run EXCEPT !.picked = left]
        BY <2>2
      <3>2. left \subseteq Records
        BY <1>3
      <3>3. QED
        BY <1>2, <1>3, <3>1, <3>2 DEF RetentionRun
    <2>3. QED
      BY <1>6, <2>1, <2>2
  <1>8. \A r \in run.picked : r \notin touched => ToldLongBefore(r)
    BY <1>1, <1>2 DEF RetentionInv, PickedAreTold
  <1>9. RetentionTypeOK' /\ HasNewestNotice' /\ notices' \subseteq 1..now'
    BY <1>4, <1>6, <1>7 DEF RetentionInv, RetentionTypeOK, HasNewestNotice, NoticesUpTo, Nows
  <1>10. NoticedAreTold'
    <2>1. \A r, d : (r \in DueOn(d, retainDays))' => r \in DueOn(d, retainDays)
      BY <1>4, <1>6 DEF DueOn
    <2>2. QED
      BY <1>4, <2>1 DEF RetentionInv, NoticedAreTold, AnnouncedIfDue
  <1>11. PickedAreTold'
    BY <1>4, <1>7, <1>8 DEF PickedAreTold, ToldLongBefore
  <1>12. RunKeepsPeriod' /\ AnnouncesDue' /\ LogsTold'
    BY <1>1, <1>2, <1>4, <1>7 DEF RetentionInv, RunKeepsPeriod, AnnouncesDue, LogsTold
  <1>13. RetentionKept
    BY <1>6, <1>8 DEF RetentionKept, UntouchedAreTold, HeldMembersStay
  <1>14. QED
    BY <1>7, <1>9, <1>10, <1>11, <1>12, <1>13 DEF RetentionInv

\* What is to be announced was due by the period that was read, and so is all that
\* is due by a longer one.
LEMMA CountsKeeps ==
  ASSUME RetentionInv, SweepCounts
  PROVE  RetentionInv' /\ RetentionKept
  <1>1. PICK run \in RetentionRun : run = retentionRun
    BY DEF RetentionInv
  <1>2. run.op = "counting" /\ run.days \in Periods /\ run.days \in Nat
    <2>1. run.op = "counting"
      BY <1>1 DEF SweepCounts
    <2>2. run.days \in Periods
      BY <2>1, RunFields
    <2>3. QED
      BY <2>1, <2>2, RetentionNumbers
  <1>3. UNCHANGED <<kept, notices, toldOn, erasing, ended, onHold, retainDays, now, touched, touches>>
    BY DEF SweepCounts, unsweptVars
  <1>4. PICK due : due = DueOn(now, run.days)
    OBVIOUS
  <1>5. retentionRun' = Asleep \/ retentionRun' = [op |-> "announcing", due |-> due]
    BY <1>1, <1>4 DEF SweepCounts
  <1>6. due \subseteq Records
    BY <1>4 DEF DueOn, RetentionInv, RetentionTypeOK
  <1>7. retentionRun' \in RetentionRun /\ retentionRun'.op \in {"none", "announcing"}
    BY <1>5, <1>6 DEF RetentionRun, Asleep
  <1>8. RetentionTypeOK' /\ HasNewestNotice' /\ NoticedAreTold' /\ notices' \subseteq 1..now'
    BY <1>3, <1>7 DEF RetentionInv, RetentionTypeOK, HasNewestNotice, NoticesUpTo, NoticedAreTold,
                      AnnouncedIfDue, DueOn, Nows
  <1>9. AnnouncesDue'
    <2>1. SUFFICES ASSUME retentionRun' = [op |-> "announcing", due |-> due], NEW r \in Records,
                          r \notin touched, r \in DueOn(now, retainDays)
                   PROVE  r \in due
      BY <1>3, <1>5 DEF AnnouncesDue, DueOn, Asleep
    <2>2. run.days <= retainDays
      BY <1>1, <1>2, <2>1 DEF RetentionInv, RunKeepsPeriod
    <2>3. r \in kept /\ ended[r] < now - retainDays /\ (erasing \/ r \notin onHold)
      BY <2>1 DEF DueOn
    <2>4. ended[r] < now - run.days
      BY <1>2, <2>2, <2>3, RetentionNumbers
    <2>5. QED
      BY <1>4, <2>3, <2>4 DEF DueOn
  <1>10. RunKeepsPeriod' /\ PickedAreTold' /\ LogsTold'
    BY <1>7 DEF RunKeepsPeriod, PickedAreTold, LogsTold
  <1>11. RetentionKept
    BY <1>3 DEF RetentionKept, UntouchedAreTold, HeldMembersStay
  <1>12. QED
    BY <1>7, <1>8, <1>9, <1>10, <1>11 DEF RetentionInv

LEMMA AnnouncesKeeps ==
  ASSUME RetentionInv, SweepAnnounces
  PROVE  RetentionInv' /\ RetentionKept
  <1>1. PICK run \in RetentionRun : run = retentionRun
    BY DEF RetentionInv
  <1>2. run.op = "announcing" /\ run.due \subseteq Records
    <2>1. run.op = "announcing"
      BY <1>1 DEF SweepAnnounces
    <2>2. QED
      BY <2>1, RunFields
  <1>3. UNCHANGED <<kept, notices, erasing, ended, onHold, retainDays, now, touched, touches>>
    BY DEF SweepAnnounces, unsweptVars
  <1>4. now \in Nows /\ toldOn \in [Records -> SUBSET Nows]
    BY DEF RetentionInv, RetentionTypeOK
  <1>5. /\ toldOn' \in [Records -> SUBSET Nows]
        /\ \A r \in Records : toldOn[r] \subseteq toldOn'[r]
        /\ \/ retentionRun' = [op |-> "logging"] /\ \A r \in run.due : now \in toldOn'[r]
           \/ retentionRun' = Asleep
    <2>1. CASE retentionRun' = Asleep /\ UNCHANGED toldOn
      BY <1>4, <2>1
    <2>2. CASE /\ toldOn' = [r \in Records |-> IF r \in run.due THEN toldOn[r] \cup {now} ELSE toldOn[r]]
               /\ retentionRun' = [op |-> "logging"]
      BY <1>2, <1>4, <2>2
    <2>3. QED
      BY <1>1, <2>1, <2>2 DEF SweepAnnounces
  <1>6. retentionRun' \in RetentionRun /\ retentionRun'.op \in {"none", "logging"}
    BY <1>5 DEF RetentionRun, Asleep
  <1>7. RetentionTypeOK'
    BY <1>3, <1>5, <1>6 DEF RetentionInv, RetentionTypeOK, Nows
  <1>8. HasNewestNotice' /\ notices' \subseteq 1..now'
    BY <1>3 DEF RetentionInv, HasNewestNotice, NoticesUpTo
  <1>9. NoticedAreTold'
    BY <1>3, <1>5 DEF RetentionInv, NoticedAreTold, AnnouncedIfDue, DueOn
  <1>10. LogsTold'
    <2>1. SUFFICES ASSUME retentionRun' = [op |-> "logging"], NEW r \in Records, r \notin touched,
                          r \in DueOn(now, retainDays)
                   PROVE  now \in toldOn'[r]
      BY <1>3, <1>5 DEF LogsTold, AnnouncedIfDue, DueOn, Asleep
    <2>2. r \in run.due
      BY <1>1, <1>2, <2>1 DEF RetentionInv, AnnouncesDue
    <2>3. QED
      BY <1>5, <2>1, <2>2 DEF Asleep
  <1>11. RunKeepsPeriod' /\ PickedAreTold' /\ AnnouncesDue'
    BY <1>6 DEF RunKeepsPeriod, PickedAreTold, AnnouncesDue
  <1>12. RetentionKept
    BY <1>3 DEF RetentionKept, UntouchedAreTold, HeldMembersStay
  <1>13. QED
    BY <1>6, <1>7, <1>8, <1>9, <1>10, <1>11, <1>12 DEF RetentionInv

\* A notice is logged on the day it was given, and is the newest from then on.
LEMMA LogsKeeps ==
  ASSUME RetentionInv, SweepLogs
  PROVE  RetentionInv' /\ RetentionKept
  <1>1. notices' = notices \cup {now} /\ retentionRun' = Asleep /\ retentionRun.op = "logging"
    BY DEF SweepLogs
  <1>2. UNCHANGED <<kept, toldOn, erasing, ended, onHold, retainDays, now, touched, touches>>
    BY DEF SweepLogs, unsweptVars
  <1>3. retentionRun' \in RetentionRun /\ retentionRun'.op = "none"
    BY <1>1 DEF RetentionRun, Asleep
  <1>4. now \in Nat /\ now > 0 /\ now \in Nows /\ now \in 1..now
    BY RetentionNumbers DEF RetentionInv, RetentionTypeOK
  <1>5. notices' \subseteq 1..now'
    BY <1>1, <1>2, <1>4 DEF RetentionInv
  <1>6. RetentionTypeOK'
    BY <1>1, <1>2, <1>3, <1>4 DEF RetentionInv, RetentionTypeOK, Nows
  <1>7. HasNewestNotice'
    <2>1. SUFFICES ASSUME NEW day \in Int, NoticesUpTo(day)' # {}
                   PROVE  \E d \in NoticesUpTo(day)' : \A e \in NoticesUpTo(day)' : e <= d
      BY DEF HasNewestNotice
    <2>2. CASE now <= day
      <3>1. now \in NoticesUpTo(day)' /\ \A e \in NoticesUpTo(day)' : e <= now
        BY <1>1, <1>2, <1>4, <1>5, <2>2 DEF NoticesUpTo
      <3>2. QED
        BY <3>1
    <2>3. CASE ~(now <= day)
      <3>1. NoticesUpTo(day)' = NoticesUpTo(day)
        BY <1>1, <2>3 DEF NoticesUpTo
      <3>2. QED
        BY <2>1, <3>1 DEF RetentionInv, HasNewestNotice
    <2>4. QED
      BY <2>2, <2>3
  <1>8. NoticedAreTold'
    <2>1. \A r \in Records : r \notin touched => AnnouncedIfDue(r, now)
      BY <1>1 DEF RetentionInv, LogsTold
    <2>2. \A r, d : AnnouncedIfDue(r, d)' <=> AnnouncedIfDue(r, d)
      BY <1>2 DEF AnnouncedIfDue, DueOn
    <2>3. QED
      BY <1>1, <1>2, <2>1, <2>2 DEF RetentionInv, NoticedAreTold
  <1>9. RunKeepsPeriod' /\ PickedAreTold' /\ AnnouncesDue' /\ LogsTold'
    BY <1>3 DEF RunKeepsPeriod, PickedAreTold, AnnouncesDue, LogsTold
  <1>10. RetentionKept
    BY <1>2 DEF RetentionKept, UntouchedAreTold, HeldMembersStay
  <1>11. QED
    BY <1>3, <1>5, <1>6, <1>7, <1>8, <1>9, <1>10 DEF RetentionInv

\* A sweep that ends, and the day that follows, leave what was announced as it is.
LEMMA RestsKeeps ==
  ASSUME RetentionInv, ExpirySweepDies \/ MidnightPasses
  PROVE  RetentionInv' /\ RetentionKept
  <1>1. UNCHANGED <<kept, notices, toldOn, erasing, ended, onHold, retainDays, touched, touches>>
    BY DEF ExpirySweepDies, MidnightPasses, unsweptVars
  <1>2. retentionRun' = Asleep
    BY DEF ExpirySweepDies, MidnightPasses
  <1>3. now' \in Nows /\ now <= now' /\ now' \in Nat
    <2>1. CASE now' = now
      BY <2>1, RetentionNumbers DEF RetentionInv, RetentionTypeOK
    <2>2. CASE now' = now + 1 /\ now < LastNow
      BY <2>2, RetentionNumbers DEF Nows
    <2>3. QED
      BY <2>1, <2>2 DEF ExpirySweepDies, MidnightPasses, unsweptVars
  <1>4. retentionRun' \in RetentionRun /\ retentionRun'.op = "none"
    BY <1>2 DEF RetentionRun, Asleep
  <1>5. RetentionTypeOK'
    BY <1>1, <1>3, <1>4 DEF RetentionInv, RetentionTypeOK, Nows
  <1>6. notices' \subseteq 1..now'
    BY <1>1, <1>3, RetentionNumbers
  <1>7. HasNewestNotice' /\ NoticedAreTold'
    BY <1>1 DEF RetentionInv, HasNewestNotice, NoticesUpTo, NoticedAreTold, AnnouncedIfDue, DueOn
  <1>8. RunKeepsPeriod' /\ PickedAreTold' /\ AnnouncesDue' /\ LogsTold'
    BY <1>4 DEF RunKeepsPeriod, PickedAreTold, AnnouncesDue, LogsTold
  <1>9. RetentionKept
    BY <1>1 DEF RetentionKept, UntouchedAreTold, HeldMembersStay
  <1>10. QED
    BY <1>4, <1>5, <1>6, <1>7, <1>8, <1>9 DEF RetentionInv

\* Edits only ever keep what they do not touch for longer.
LEMMA TouchesKeeps ==
  ASSUME RetentionInv, UNCHANGED <<erasing, kept, now, notices, retentionRun, toldOn>>,
         touched \subseteq touched', touched' \subseteq Records, onHold' \subseteq Records,
         ended' \in [Records -> 0..LastNow], retainDays' \in Periods,
         \A r \in Records : r \notin touched'
           => ended[r] <= ended'[r] /\ retainDays <= retainDays' /\ (r \in onHold => r \in onHold')
  PROVE  RetentionInv' /\ RetentionKept
  <1>1. RetentionTypeOK' /\ retentionRun' \in RetentionRun /\ HasNewestNotice' /\ notices' \subseteq 1..now'
    BY DEF RetentionInv, RetentionTypeOK, HasNewestNotice, NoticesUpTo, Nows
  <1>2. /\ retainDays \in Nat /\ retainDays' \in Nat /\ \A p \in Periods : p \in Nat
        /\ \A r \in Records : ended[r] \in Nat /\ ended'[r] \in Nat
    <2>1. LastNow \in Nat
      BY RetentionNumbers
    <2>2. QED
      BY <2>1, RetentionNumbers
  <1>3. ASSUME NEW r \in Records, NEW d \in Int, r \notin touched', (r \in DueOn(d, retainDays))'
        PROVE  r \in DueOn(d, retainDays)
    <2>1. r \in kept /\ ended'[r] < d - retainDays' /\ (erasing \/ r \notin onHold')
      BY <1>3 DEF DueOn
    <2>2. ended[r] <= ended'[r] /\ retainDays <= retainDays' /\ (r \in onHold => r \in onHold')
      BY <1>3
    <2>3. ended[r] \in Int /\ ended'[r] \in Int /\ retainDays \in Int /\ retainDays' \in Int
      BY <1>2
    <2>4. ended[r] < d - retainDays
      BY <2>1, <2>2, <2>3
    <2>5. QED
      BY <2>1, <2>2, <2>4 DEF DueOn
  <1>4. now \in Int /\ \A d \in notices : d \in Int
    BY RetentionNumbers
  <1>5. NoticedAreTold'
    <2>1. SUFFICES ASSUME NEW r \in Records, r \notin touched', NEW d \in notices,
                          (r \in DueOn(d, retainDays))'
                   PROVE  d \in toldOn[r]
      BY DEF NoticedAreTold, AnnouncedIfDue
    <2>2. r \in DueOn(d, retainDays) /\ r \notin touched
      BY <1>3, <1>4, <2>1
    <2>3. QED
      BY <2>1, <2>2 DEF RetentionInv, NoticedAreTold, AnnouncedIfDue
  <1>6. RunKeepsPeriod'
    <2>1. SUFFICES ASSUME retentionRun.op \in {"deleting", "counting"}, NEW r \in Records, r \notin touched'
                   PROVE  retentionRun.days <= retainDays'
      BY DEF RunKeepsPeriod
    <2>2. retentionRun.days <= retainDays /\ retainDays <= retainDays'
      BY <2>1 DEF RetentionInv, RunKeepsPeriod
    <2>3. retentionRun.days \in Nat
      <3>1. retentionRun \in RetentionRun
        BY DEF RetentionInv
      <3>2. retentionRun.days \in Periods
        BY <2>1, <3>1, RunFields
      <3>3. QED
        BY <1>2, <3>2
    <2>4. QED
      BY <1>2, <2>2, <2>3
  <1>7. PickedAreTold'
    BY DEF RetentionInv, PickedAreTold, ToldLongBefore
  <1>8. AnnouncesDue'
    <2>1. SUFFICES ASSUME retentionRun.op = "announcing", NEW r \in Records, r \notin touched',
                          (r \in DueOn(now, retainDays))'
                   PROVE  r \in retentionRun.due
      BY DEF AnnouncesDue
    <2>2. r \in DueOn(now, retainDays) /\ r \notin touched
      <3>1. now' = now
        OBVIOUS
      <3>2. r \in DueOn(now, retainDays)
        BY <1>3, <1>4, <2>1, <3>1 DEF DueOn
      <3>3. QED
        BY <2>1, <3>2
    <2>3. QED
      BY <2>1, <2>2 DEF RetentionInv, AnnouncesDue
  <1>9. LogsTold'
    <2>1. SUFFICES ASSUME retentionRun.op = "logging", NEW r \in Records, r \notin touched',
                          (r \in DueOn(now, retainDays))'
                   PROVE  now \in toldOn[r]
      BY DEF LogsTold, AnnouncedIfDue
    <2>2. r \in DueOn(now, retainDays) /\ r \notin touched
      BY <1>3, <1>4, <2>1 DEF DueOn
    <2>3. QED
      BY <2>1, <2>2 DEF RetentionInv, LogsTold, AnnouncedIfDue
  <1>10. RetentionKept
    BY DEF RetentionKept, UntouchedAreTold, HeldMembersStay
  <1>11. QED
    BY <1>1, <1>5, <1>6, <1>7, <1>8, <1>9, <1>10 DEF RetentionInv

LEMMA PeriodKeeps ==
  ASSUME RetentionInv, NEW days \in Periods, SetsPeriod(days)
  PROVE  RetentionInv' /\ RetentionKept
  <1>1. /\ UNCHANGED <<erasing, kept, now, notices, retentionRun, toldOn>>
        /\ UNCHANGED <<ended, onHold>> /\ retainDays' = days
        /\ touched' = touched \cup (IF days < retainDays THEN Records ELSE {})
    BY DEF SetsPeriod, Touches
  <1>2. touched \subseteq Records /\ onHold \subseteq Records /\ ended \in [Records -> 0..LastNow]
    BY DEF RetentionInv, RetentionTypeOK
  <1>3. days \in Nat /\ retainDays \in Nat /\ \A r \in Records : ended[r] \in Nat
    BY RetentionNumbers
  <1>4. \A r \in Records : r \notin touched'
          => ended[r] <= ended'[r] /\ retainDays <= retainDays' /\ (r \in onHold => r \in onHold')
    BY <1>1, <1>3
  <1>5. touched \subseteq touched' /\ touched' \subseteq Records
    BY <1>1, <1>2
  <1>6. onHold' \subseteq Records /\ ended' \in [Records -> 0..LastNow] /\ retainDays' \in Periods
    BY <1>1, <1>2
  <1>7. QED
    BY <1>1, <1>4, <1>5, <1>6, TouchesKeeps

LEMMA HoldKeeps ==
  ASSUME RetentionInv, NEW r \in Records, SetsHold(r)
  PROVE  RetentionInv' /\ RetentionKept
  <1>1. /\ UNCHANGED <<erasing, kept, now, notices, retentionRun, toldOn>>
        /\ UNCHANGED <<ended, retainDays>>
        /\ onHold' = IF r \in onHold THEN onHold \ {r} ELSE onHold \cup {r}
        /\ touched' = touched \cup ({r} \cap onHold)
    BY DEF SetsHold, Touches
  <1>2. /\ touched \subseteq Records /\ onHold \subseteq Records
        /\ ended \in [Records -> 0..LastNow] /\ retainDays \in Periods
    BY DEF RetentionInv, RetentionTypeOK
  <1>3. retainDays \in Nat /\ \A o \in Records : ended[o] \in Nat
    BY RetentionNumbers
  <1>4. \A o \in Records : o \notin touched'
          => ended[o] <= ended'[o] /\ retainDays <= retainDays' /\ (o \in onHold => o \in onHold')
    BY <1>1, <1>3
  <1>5. touched \subseteq touched' /\ touched' \subseteq Records
    BY <1>1, <1>2
  <1>6. onHold' \subseteq Records /\ ended' \in [Records -> 0..LastNow] /\ retainDays' \in Periods
    BY <1>1, <1>2
  <1>7. QED
    BY <1>1, <1>4, <1>5, <1>6, TouchesKeeps

LEMMA EndKeeps ==
  ASSUME RetentionInv, NEW r \in Records, NEW day \in Nows, EditsEnd(r, day)
  PROVE  RetentionInv' /\ RetentionKept
  <1>1. /\ UNCHANGED <<erasing, kept, now, notices, retentionRun, toldOn>>
        /\ UNCHANGED <<onHold, retainDays>>
        /\ ended' = [ended EXCEPT ![r] = day]
        /\ touched' = touched \cup (IF day < ended[r] THEN {r} ELSE {})
    BY DEF EditsEnd, Touches
  <1>2. /\ touched \subseteq Records /\ onHold \subseteq Records
        /\ ended \in [Records -> 0..LastNow] /\ retainDays \in Periods
    BY DEF RetentionInv, RetentionTypeOK
  <1>3. day \in Nat /\ day \in 0..LastNow /\ retainDays \in Nat /\ \A o \in Records : ended[o] \in Nat
    BY RetentionNumbers DEF Nows
  <1>4. ended' \in [Records -> 0..LastNow]
    BY <1>1, <1>2, <1>3
  <1>5. \A o \in Records : o \notin touched'
          => ended[o] <= ended'[o] /\ retainDays <= retainDays' /\ (o \in onHold => o \in onHold')
    BY <1>1, <1>2, <1>3
  <1>6. touched \subseteq touched' /\ touched' \subseteq Records
    BY <1>1, <1>2
  <1>7. onHold' \subseteq Records /\ retainDays' \in Periods
    BY <1>1, <1>2
  <1>8. QED
    BY <1>1, <1>4, <1>5, <1>6, <1>7, TouchesKeeps

LEMMA RetentionStutters ==
  ASSUME RetentionInv, UNCHANGED retentionVars
  PROVE  RetentionInv'
  BY DEF RetentionInv, retentionVars, RetentionTypeOK, HasNewestNotice, NoticesUpTo, NoticedAreTold,
         AnnouncedIfDue, DueOn, RunKeepsPeriod, PickedAreTold, ToldLongBefore, AnnouncesDue, LogsTold, Nows

LEMMA RetentionSteps ==
  ASSUME RetentionInv, RetentionNext
  PROVE  RetentionInv' /\ RetentionKept
  <1>1. CASE SweepSelects
    BY <1>1, SelectsKeeps
  <1>2. CASE SweepDeletes
    BY <1>2, DeletesKeeps
  <1>3. CASE SweepCounts
    BY <1>3, CountsKeeps
  <1>4. CASE SweepAnnounces
    BY <1>4, AnnouncesKeeps
  <1>5. CASE SweepLogs
    BY <1>5, LogsKeeps
  <1>6. CASE ExpirySweepDies \/ MidnightPasses
    BY <1>6, RestsKeeps
  <1>7. CASE \E days \in Periods : SetsPeriod(days)
    BY <1>7, PeriodKeeps
  <1>8. CASE \E r \in Records : SetsHold(r)
    BY <1>8, HoldKeeps
  <1>9. CASE \E r \in Records : \E day \in Nows : EditsEnd(r, day)
    BY <1>9, EndKeeps
  <1>10. QED
    BY <1>1, <1>2, <1>3, <1>4, <1>5, <1>6, <1>7, <1>8, <1>9 DEF RetentionNext

\* What nobody made due earlier is deleted only after its club was told of it and had
\* the days of the notice; a member whose hold is set meanwhile is not erased.
THEOREM RetentionIsSound == RetentionSpec => RetentionPromise
  <1>1. RetentionInit => RetentionInv
    BY RetentionStarts
  <1>2. RetentionInv /\ [RetentionNext]_retentionVars => RetentionInv'
    BY RetentionSteps, RetentionStutters
  <1>3. RetentionInv /\ [RetentionNext]_retentionVars => [UntouchedAreTold /\ HeldMembersStay]_retentionVars
    BY RetentionSteps DEF RetentionKept
  <1>4. RetentionInv => RetentionTypeOK
    BY DEF RetentionInv
  <1>5. QED
    BY <1>1, <1>2, <1>3, <1>4, PTL DEF RetentionSpec, RetentionPromise

-----------------------------------------------------------------------------
(***************************************************************************)
(* Erasure.  ErasureInv: a call that has locked its row still holds it,    *)
(* and what it read under the lock still is so: no hold, then no exit,     *)
(* then no more papers than the plan counted.  Of the rows an account      *)
(* deletion listed, those it is through with are erased and stay so.       *)
(***************************************************************************)
Erasings == {"asked", "locked", "unexited", "unblocked", "running"}
Digests == {NoDigest} \cup [papers: 0..1, things: 0..1]
RowErasure == [op: Erasings, row: Rows, digest: Digests, todo: {{}}]
ListedErasure == [op: Erasings, row: Rows, digest: Digests, todo: SUBSET Rows, of: Rows,
                  listed: SUBSET Rows]
AccountErasure == [op: {"planning", "erasing"}, of: Rows, listed: SUBSET Rows, todo: SUBSET Rows]
ErasureRecord == {NoErasure} \cup RowErasure \cup ListedErasure \cup AccountErasure

\* What a call has read of its row.
HoldsItsRow(c) ==
  LET call == erasureCalls[c]
  IN /\ call.op \in Erasings \ {"asked"} => rowLock[call.row] = c /\ ~person[call.row].hold
     /\ call.op \in {"unexited", "unblocked", "running"} => ~person[call.row].exit
     /\ (call.op = "running" /\ call.digest # NoDigest) => person[call.row].papers <= call.digest.papers

\* The rows of a list that a call is through with.
ListedAreErased(c) ==
  LET call == erasureCalls[c]
  IN /\ call \in ListedErasure
          => \A r \in call.listed : r \in call.todo \/ r = call.row \/ person[r].is = "erased"
     /\ call.op = "erasing" => \A r \in call.listed : r \in call.todo \/ person[r].is = "erased"

ErasureInv ==
  /\ ErasureTypeOK /\ erasureCalls \in [ErasureCalls -> ErasureRecord]
  /\ \A c \in ErasureCalls : HoldsItsRow(c) /\ ListedAreErased(c)

ErasureKept == HeldAndLeavingStay /\ NothingUnseenGoes /\ UsersGoErased

LEMMA ErasureFields ==
  ASSUME NEW call \in ErasureRecord
  PROVE  /\ call.op \in Erasings => call \in RowErasure \cup ListedErasure
         /\ call.op \in {"planning", "erasing"} => call \in AccountErasure
         /\ call.op \in Erasings \cup {"none", "planning", "erasing"}
  BY DEF ErasureRecord, RowErasure, ListedErasure, AccountErasure, NoErasure, Erasings

LEMMA RowErasureFields ==
  ASSUME NEW call \in RowErasure \cup ListedErasure
  PROVE  /\ call \in ErasureRecord /\ call # NoErasure /\ call.op \in Erasings
         /\ call.row \in Rows /\ call.digest \in Digests /\ call.todo \subseteq Rows
         /\ "of" \in DOMAIN call => call \in ListedErasure
         /\ call \in ListedErasure => "of" \in DOMAIN call /\ call.of \in Rows /\ call.listed \subseteq Rows
  <1>1. ASSUME call \in RowErasure
        PROVE  /\ call.op \in Erasings /\ call.row \in Rows /\ call.digest \in Digests /\ call.todo \subseteq Rows
               /\ "of" \notin DOMAIN call
    BY <1>1 DEF RowErasure
  <1>2. ASSUME call \in ListedErasure
        PROVE  /\ call.op \in Erasings /\ call.row \in Rows /\ call.digest \in Digests /\ call.todo \subseteq Rows
               /\ "of" \in DOMAIN call /\ call.of \in Rows /\ call.listed \subseteq Rows
    BY <1>2 DEF ListedErasure
  <1>3. call.op \in Erasings
    BY <1>1, <1>2
  <1>4. call # NoErasure
    BY <1>3 DEF NoErasure, Erasings
  <1>5. call \in ErasureRecord
    BY DEF ErasureRecord
  <1>6. QED
    BY <1>1, <1>2, <1>3, <1>4, <1>5

LEMMA AccountFields ==
  ASSUME NEW call \in AccountErasure
  PROVE  /\ call \in ErasureRecord /\ call # NoErasure /\ call.op \in {"planning", "erasing"}
         /\ call.of \in Rows /\ call.listed \subseteq Rows /\ call.todo \subseteq Rows
         /\ call \notin ListedErasure
  <1>1. /\ call.op \in {"planning", "erasing"} /\ call.of \in Rows
        /\ call.listed \subseteq Rows /\ call.todo \subseteq Rows
    BY DEF AccountErasure
  <1>2. call \notin ListedErasure
    BY <1>1 DEF ListedErasure, Erasings
  <1>3. call # NoErasure
    BY <1>1 DEF NoErasure
  <1>4. QED
    BY <1>1, <1>2, <1>3 DEF ErasureRecord

\* The call goes on with its row.
LEMMA ErasureAdvances ==
  ASSUME NEW call \in RowErasure \cup ListedErasure, NEW op \in Erasings
  PROVE  /\ [call EXCEPT !.op = op] \in RowErasure \cup ListedErasure
         /\ [call EXCEPT !.op = op].op = op /\ [call EXCEPT !.op = op].row = call.row
         /\ [call EXCEPT !.op = op].digest = call.digest /\ [call EXCEPT !.op = op].todo = call.todo
         /\ [call EXCEPT !.op = op] \in ListedErasure
              => call \in ListedErasure /\ [call EXCEPT !.op = op].listed = call.listed
  <1>1. CASE call \in RowErasure
    <2>1. /\ [call EXCEPT !.op = op] \in RowErasure
          /\ [call EXCEPT !.op = op].op = op /\ [call EXCEPT !.op = op].row = call.row
          /\ [call EXCEPT !.op = op].digest = call.digest /\ [call EXCEPT !.op = op].todo = call.todo
      BY <1>1 DEF RowErasure
    <2>2. "of" \notin DOMAIN [call EXCEPT !.op = op]
      BY <1>1 DEF RowErasure
    <2>3. [call EXCEPT !.op = op] \notin ListedErasure
      BY <2>2 DEF ListedErasure
    <2>4. QED
      BY <2>1, <2>3
  <1>2. CASE call \in ListedErasure
    BY <1>2 DEF ListedErasure
  <1>3. QED
    BY <1>1, <1>2

\* The row of a member, or of nobody.
LEMMA FreshRow ==
  ASSUME NEW is \in Stands
  PROVE  /\ Row(is) \in Subject /\ Row(is).is = is /\ (is = "erased" => ~Row(is).account)
         /\ ~Row(is).duty /\ ~Row(is).hold /\ ~Row(is).exit /\ Row(is).papers = 0
  <1>1. PICK account \in BOOLEAN : account = (is = "member")
    OBVIOUS
  <1>2. 0 \in 0..1 /\ FALSE \in BOOLEAN
    OBVIOUS
  <1>3. PICK row : row = [is |-> is, account |-> account, owner |-> FALSE, hold |-> FALSE, exit |-> FALSE,
                          duty |-> FALSE, papers |-> 0, things |-> 0]
    OBVIOUS
  <1>4. row \in Subject
    BY <1>2, <1>3 DEF Subject
  <1>5. /\ row.is = is /\ row.account = account /\ ~row.duty /\ ~row.hold /\ ~row.exit
        /\ row.papers = 0
    BY <1>3
  <1>6. Row(is) = row
    BY <1>1, <1>3 DEF Row
  <1>7. is = "erased" => ~account
    BY <1>1
  <1>8. QED
    BY <1>4, <1>5, <1>6, <1>7

LEMMA ErasureStarts ==
  ASSUME ErasureInit
  PROVE  ErasureInv
  <1>1. \A is \in Stands : Row(is) \in Subject /\ Row(is).is = is
    BY FreshRow
  <1>2. [Row("member") EXCEPT !.owner = TRUE] \in Subject /\ [Row("member") EXCEPT !.owner = TRUE].is = "member"
    <2>1. PICK row \in Subject : row = Row("member") /\ row.is = "member"
      BY <1>1 DEF Stands
    <2>2. [row EXCEPT !.owner = TRUE] \in Subject /\ [row EXCEPT !.owner = TRUE].is = row.is
      BY DEF Subject
    <2>3. QED
      BY <2>1, <2>2
  <1>3. person \in [Rows -> Subject] /\ \A r \in Rows : person[r].is # "erased"
    <2>1. CASE \E here \in Rows : person = [r \in Rows |-> Row(IF r = here THEN "member" ELSE "absent")]
      BY <1>1, <2>1 DEF Stands
    <2>2. CASE person = [r \in Rows |-> [Row("member") EXCEPT !.owner = TRUE]]
      BY <1>2, <2>2
    <2>3. QED
      BY <2>1, <2>2 DEF ErasureInit
  <1>4. 0 \in 0..MaxRowMoves
    BY ErasureAssumption
  <1>5. ErasureTypeOK
    BY <1>3, <1>4 DEF ErasureInit, ErasureTypeOK
  <1>6. NoErasure \in ErasureRecord /\ NoErasure.op = "none" /\ NoErasure \notin ListedErasure
    <2>1. NoErasure.op = "none"
      BY DEF NoErasure
    <2>2. QED
      BY <2>1 DEF ErasureRecord, ListedErasure, Erasings
  <1>7. erasureCalls \in [ErasureCalls -> ErasureRecord] /\ \A c \in ErasureCalls : erasureCalls[c] = NoErasure
    BY <1>6 DEF ErasureInit
  <1>8. \A c \in ErasureCalls : HoldsItsRow(c) /\ ListedAreErased(c)
    BY <1>6, <1>7 DEF HoldsItsRow, ListedAreErased, Erasings
  <1>9. QED
    BY <1>5, <1>7, <1>8 DEF ErasureInv

\* Whoever is through with nothing keeps what it found: its rows stay locked, and
\* what is erased stays erased.
LEMMA OthersKeepTheirs ==
  ASSUME ErasureInv, NEW c \in ErasureCalls, erasureCalls'[c] = erasureCalls[c],
         \A r \in Rows : person[r].is = "erased" => person'[r].is = "erased",
         \A r \in Rows : rowLock[r] = c
           => /\ rowLock'[r] = c /\ (~person[r].hold => ~person'[r].hold)
              /\ (~person[r].exit => ~person'[r].exit)
              /\ person'[r].papers <= person[r].papers /\ person'[r].papers \in Int
  PROVE  HoldsItsRow(c)' /\ ListedAreErased(c)'
  <1>1. PICK call \in ErasureRecord : call = erasureCalls[c]
    BY DEF ErasureInv
  <1>2. HoldsItsRow(c) /\ ListedAreErased(c) /\ person \in [Rows -> Subject]
    BY DEF ErasureInv, ErasureTypeOK
  <1>3. HoldsItsRow(c)'
    <2>1. SUFFICES ASSUME call.op \in Erasings \ {"asked"}
                   PROVE  HoldsItsRow(c)'
      BY <1>1 DEF HoldsItsRow, Erasings
    <2>2. call \in RowErasure \cup ListedErasure
      BY <2>1, ErasureFields
    <2>3. call.row \in Rows /\ call.digest \in Digests
      BY <2>2, RowErasureFields
    <2>4. rowLock[call.row] = c /\ ~person[call.row].hold
      BY <1>1, <1>2, <2>1 DEF HoldsItsRow
    <2>5. /\ rowLock'[call.row] = c /\ ~person'[call.row].hold
          /\ (~person[call.row].exit => ~person'[call.row].exit)
          /\ person'[call.row].papers <= person[call.row].papers /\ person'[call.row].papers \in Int
      BY <2>3, <2>4
    <2>6. call.op \in {"unexited", "unblocked", "running"} => ~person'[call.row].exit
      BY <1>1, <1>2, <2>5 DEF HoldsItsRow
    <2>7. (call.op = "running" /\ call.digest # NoDigest) => person'[call.row].papers <= call.digest.papers
      <3>1. SUFFICES ASSUME call.op = "running", call.digest # NoDigest
                     PROVE  person'[call.row].papers <= call.digest.papers
        OBVIOUS
      <3>2. person[call.row].papers <= call.digest.papers
        BY <1>1, <1>2, <3>1 DEF HoldsItsRow
      <3>3. call.digest.papers \in Int /\ person[call.row].papers \in Int
        BY <1>2, <2>3, <3>1 DEF Digests, Subject
      <3>4. QED
        BY <2>5, <3>2, <3>3
    <2>8. QED
      BY <1>1, <2>5, <2>6, <2>7 DEF HoldsItsRow
  <1>4. ListedAreErased(c)'
    <2>1. call \in ListedErasure => call.listed \subseteq Rows
      BY RowErasureFields
    <2>2. call.op = "erasing" => call.listed \subseteq Rows
      BY ErasureFields, AccountFields
    <2>3. QED
      BY <1>1, <1>2, <2>1, <2>2 DEF ListedAreErased
  <1>5. QED
    BY <1>3, <1>4

\* A step of a call that changes no person, and no lock but its own.
LEMMA CallMoves ==
  ASSUME ErasureInv, NEW c \in ErasureCalls, NEW call \in ErasureRecord, Goes(c, call),
         UNCHANGED <<onePerson, person, usersGone, rowMoves>>,
         rowLock' \in [Rows -> ErasureCalls \cup {Unlocked}],
         \A r \in Rows : \A d \in ErasureCalls : (d # c /\ rowLock[r] = d) => rowLock'[r] = d,
         HoldsItsRow(c)', ListedAreErased(c)'
  PROVE  ErasureInv' /\ ErasureKept
  <1>1. erasureCalls' = [erasureCalls EXCEPT ![c] = call] /\ erasureCalls \in [ErasureCalls -> ErasureRecord]
    BY DEF Goes, ErasureInv
  <1>2. erasureCalls' \in [ErasureCalls -> ErasureRecord]
    BY <1>1
  <1>3. ErasureTypeOK'
    BY DEF ErasureInv, ErasureTypeOK
  <1>4. \A r \in Rows : person[r].papers \in Int
    BY DEF ErasureInv, ErasureTypeOK, Subject
  <1>5. ASSUME NEW d \in ErasureCalls
        PROVE  HoldsItsRow(d)' /\ ListedAreErased(d)'
    <2>1. CASE d = c
      BY <2>1
    <2>2. CASE d # c
      <3>1. erasureCalls'[d] = erasureCalls[d]
        BY <1>1, <2>2
      <3>2. \A r \in Rows : rowLock[r] = d => rowLock'[r] = d
        BY <2>2
      <3>3. \A r \in Rows : person'[r] = person[r] /\ person[r].papers <= person[r].papers
        BY <1>4
      <3>4. QED
        BY <1>4, <3>1, <3>2, <3>3, OthersKeepTheirs
    <2>3. QED
      BY <2>1, <2>2
  <1>6. ErasureKept
    BY DEF ErasureKept, HeldAndLeavingStay, NothingUnseenGoes, UsersGoErased, ErasedBy
  <1>7. QED
    BY <1>2, <1>3, <1>5, <1>6 DEF ErasureInv

\* A call gives up, and with it its lock.
LEMMA CallEnds ==
  ASSUME ErasureInv, NEW c \in ErasureCalls, Goes(c, NoErasure),
         UNCHANGED <<onePerson, person, usersGone, rowMoves>>,
         rowLock' \in [Rows -> ErasureCalls \cup {Unlocked}],
         \A r \in Rows : \A d \in ErasureCalls : (d # c /\ rowLock[r] = d) => rowLock'[r] = d
  PROVE  ErasureInv' /\ ErasureKept
  <1>1. NoErasure \in ErasureRecord /\ NoErasure.op = "none" /\ NoErasure \notin ListedErasure
    <2>1. NoErasure.op = "none"
      BY DEF NoErasure
    <2>2. QED
      BY <2>1 DEF ErasureRecord, ListedErasure, Erasings
  <1>2. erasureCalls'[c] = NoErasure
    BY DEF Goes, ErasureInv
  <1>3. HoldsItsRow(c)' /\ ListedAreErased(c)'
    BY <1>1, <1>2 DEF HoldsItsRow, ListedAreErased, Erasings
  <1>4. QED
    BY <1>1, <1>3, CallMoves

\* A call that asks for a row has read nothing of it.
LEMMA CallAsks ==
  ASSUME ErasureInv, NEW c \in ErasureCalls, NEW r \in Rows, NEW digest \in Digests,
         Goes(c, [op |-> "asked", row |-> r, digest |-> digest, todo |-> {}]),
         UNCHANGED <<onePerson, person, rowLock, usersGone, rowMoves>>
  PROVE  ErasureInv' /\ ErasureKept
  <1>1. PICK call \in RowErasure : call = [op |-> "asked", row |-> r, digest |-> digest, todo |-> {}]
    BY DEF RowErasure, Erasings
  <1>2. call.op = "asked" /\ "of" \notin DOMAIN call
    BY <1>1
  <1>3. call \notin ListedErasure
    BY <1>2 DEF ListedErasure
  <1>4. erasureCalls'[c] = call
    BY <1>1 DEF Goes, ErasureInv
  <1>5. HoldsItsRow(c)' /\ ListedAreErased(c)'
    BY <1>2, <1>3, <1>4 DEF HoldsItsRow, ListedAreErased
  <1>6. call \in ErasureRecord /\ Goes(c, call)
    BY <1>1 DEF ErasureRecord
  <1>7. rowLock' \in [Rows -> ErasureCalls \cup {Unlocked}]
    BY DEF ErasureInv, ErasureTypeOK
  <1>8. QED
    BY <1>5, <1>6, <1>7, CallMoves

LEMMA AskingKeeps ==
  ASSUME ErasureInv, NEW c \in ErasureCalls, NEW r \in Rows, BoardPlans(c, r) \/ RetentionAsks(c, r)
  PROVE  ErasureInv' /\ ErasureKept
  <1>1. UNCHANGED <<onePerson, person, rowLock, usersGone, rowMoves>>
    BY DEF BoardPlans, RetentionAsks
  <1>2. CASE BoardPlans(c, r)
    <2>1. DigestOf(r) \in Digests
      <3>1. person[r].papers \in 0..1 /\ person[r].things \in 0..1
        BY DEF ErasureInv, ErasureTypeOK, Subject
      <3>2. QED
        BY <3>1 DEF DigestOf, Digests
    <2>2. QED
      BY <1>1, <1>2, <2>1, CallAsks DEF BoardPlans
  <1>3. CASE RetentionAsks(c, r)
    <2>1. NoDigest \in Digests
      BY DEF Digests
    <2>2. QED
      BY <1>1, <1>3, <2>1, CallAsks DEF RetentionAsks
  <1>4. QED
    BY <1>2, <1>3

\* An account deletion that plans, or erases a list, is through with nothing it has
\* still to do.
LEMMA AccountCallMoves ==
  ASSUME ErasureInv, NEW c \in ErasureCalls, NEW call \in AccountErasure, Goes(c, call),
         UNCHANGED <<onePerson, person, rowLock, usersGone, rowMoves>>,
         call.op = "erasing" => \A r \in call.listed : r \in call.todo \/ person[r].is = "erased"
  PROVE  ErasureInv' /\ ErasureKept
  <1>1. /\ call \in ErasureRecord /\ call \notin ListedErasure /\ call.op \in {"planning", "erasing"}
    BY AccountFields
  <1>2. erasureCalls'[c] = call
    BY DEF Goes, ErasureInv
  <1>3. HoldsItsRow(c)' /\ ListedAreErased(c)'
    BY <1>1, <1>2 DEF HoldsItsRow, ListedAreErased, Erasings
  <1>4. rowLock' \in [Rows -> ErasureCalls \cup {Unlocked}]
    BY DEF ErasureInv, ErasureTypeOK
  <1>5. QED
    BY <1>1, <1>3, <1>4, CallMoves

LEMMA ListsKeeps ==
  ASSUME ErasureInv, NEW c \in ErasureCalls, NEW r \in Rows, ListsMemberships(c, r)
  PROVE  ErasureInv' /\ ErasureKept
  <1>1. PICK rows \in SUBSET Rows : rows = {o \in RowsOfUser(r) : person[o].is = "member"}
    BY DEF RowsOfUser
  <1>2. PICK call \in AccountErasure : call = [op |-> "planning", of |-> r, listed |-> rows, todo |-> rows]
    BY DEF AccountErasure
  <1>3. Goes(c, call) /\ UNCHANGED <<onePerson, person, rowLock, usersGone, rowMoves>>
    BY <1>1, <1>2 DEF ListsMemberships
  <1>4. call.op = "planning"
    BY <1>2
  <1>5. QED
    BY <1>3, <1>4, AccountCallMoves

LEMMA PlansKeeps ==
  ASSUME ErasureInv, NEW c \in ErasureCalls, PlansMembership(c)
  PROVE  ErasureInv' /\ ErasureKept
  <1>1. PICK call \in ErasureRecord : call = erasureCalls[c]
    BY DEF ErasureInv
  <1>2. call \in AccountErasure
    BY <1>1, ErasureFields DEF PlansMembership
  <1>3. call.op = "planning" /\ UNCHANGED <<onePerson, person, rowLock, usersGone, rowMoves>>
    BY <1>1 DEF PlansMembership
  <1>4. rowLock' \in [Rows -> ErasureCalls \cup {Unlocked}]
    BY <1>3 DEF ErasureInv, ErasureTypeOK
  <1>5. CASE Goes(c, NoErasure)
    BY <1>3, <1>4, <1>5, CallEnds
  <1>6. CASE \E r \in call.todo : Goes(c, [call EXCEPT !.todo = @ \ {r}])
    <2>1. PICK r \in call.todo : Goes(c, [call EXCEPT !.todo = @ \ {r}])
      BY <1>6
    <2>2. PICK new \in AccountErasure : new = [call EXCEPT !.todo = call.todo \ {r}] /\ new.op = "planning"
      <3>1. call.todo \ {r} \in SUBSET Rows
        BY <1>2 DEF AccountErasure
      <3>2. [call EXCEPT !.todo = call.todo \ {r}] \in AccountErasure
        BY <1>2, <3>1 DEF AccountErasure
      <3>3. [call EXCEPT !.todo = call.todo \ {r}].op = "planning"
        BY <1>2, <1>3 DEF AccountErasure
      <3>4. QED
        BY <3>2, <3>3
    <2>3. Goes(c, new)
      BY <2>1, <2>2
    <2>4. QED
      BY <1>3, <2>2, <2>3, AccountCallMoves
  <1>7. CASE Goes(c, [call EXCEPT !.op = "erasing", !.todo = call.listed])
    <2>1. PICK new \in AccountErasure : /\ new = [call EXCEPT !.op = "erasing", !.todo = call.listed]
                                        /\ new.todo = new.listed
      <3>1. [call EXCEPT !.op = "erasing", !.todo = call.listed] \in AccountErasure
        BY <1>2 DEF AccountErasure
      <3>2. /\ [call EXCEPT !.op = "erasing", !.todo = call.listed].todo = call.listed
            /\ [call EXCEPT !.op = "erasing", !.todo = call.listed].listed = call.listed
        BY <1>2 DEF AccountErasure
      <3>3. QED
        BY <3>1, <3>2
    <2>2. \A r \in new.listed : r \in new.todo
      BY <2>1
    <2>3. Goes(c, new)
      BY <1>7, <2>1
    <2>4. QED
      BY <1>3, <2>2, <2>3, AccountCallMoves
  <1>8. QED
    BY <1>1, <1>5, <1>6, <1>7 DEF PlansMembership

LEMMA NextRowKeeps ==
  ASSUME ErasureInv, NEW c \in ErasureCalls, ErasesNext(c)
  PROVE  ErasureInv' /\ ErasureKept
  <1>1. PICK call \in ErasureRecord : call = erasureCalls[c]
    BY DEF ErasureInv
  <1>2. call.op = "erasing" /\ UNCHANGED <<onePerson, person, rowLock, usersGone, rowMoves>>
    BY <1>1 DEF ErasesNext
  <1>3. call \in AccountErasure
    BY <1>2, ErasureFields
  <1>4. call.of \in Rows /\ call.listed \subseteq Rows /\ call.todo \subseteq Rows
    BY <1>3, AccountFields
  <1>5. PICK r \in call.todo : Goes(c, [op |-> "asked", row |-> r, digest |-> NoDigest, todo |-> call.todo \ {r},
                                        of |-> call.of, listed |-> call.listed])
    BY <1>1 DEF ErasesNext
  <1>6. NoDigest \in Digests /\ call.todo \ {r} \in SUBSET Rows /\ r \in Rows
    BY <1>4 DEF Digests
  <1>7. PICK new \in ListedErasure : new = [op |-> "asked", row |-> r, digest |-> NoDigest,
                                            todo |-> call.todo \ {r}, of |-> call.of, listed |-> call.listed]
    <2> HIDE DEF Digests
    <2>1. QED
      BY <1>4, <1>6 DEF ListedErasure, Erasings
  <1>8. new.op = "asked" /\ new.row = r /\ new.todo = call.todo \ {r} /\ new.listed = call.listed
    BY <1>7
  <1>9. \A o \in call.listed : o \in call.todo \/ person[o].is = "erased"
    BY <1>1, <1>2 DEF ErasureInv, ListedAreErased
  <1>10. erasureCalls'[c] = new /\ Goes(c, new)
    BY <1>5, <1>7 DEF Goes, ErasureInv
  <1>11. HoldsItsRow(c)' /\ ListedAreErased(c)'
    BY <1>2, <1>8, <1>9, <1>10 DEF HoldsItsRow, ListedAreErased
  <1>12. new \in ErasureRecord /\ rowLock' \in [Rows -> ErasureCalls \cup {Unlocked}]
    BY <1>2 DEF ErasureRecord, ErasureInv, ErasureTypeOK
  <1>13. QED
    BY <1>2, <1>10, <1>11, <1>12, CallMoves

\* The lock a call lets go is its own.
LEMMA RowIsLetGo ==
  ASSUME ErasureInv, NEW c \in ErasureCalls, NEW r \in Rows, LetsRowGo(c, r)
  PROVE  /\ rowLock' \in [Rows -> ErasureCalls \cup {Unlocked}]
         /\ \A o \in Rows : \A d \in ErasureCalls : (d # c /\ rowLock[o] = d) => rowLock'[o] = d
  <1>1. rowLock \in [Rows -> ErasureCalls \cup {Unlocked}]
    BY DEF ErasureInv, ErasureTypeOK
  <1>2. rowLock' = [rowLock EXCEPT ![r] = IF rowLock[r] = c THEN Unlocked ELSE rowLock[r]]
    BY DEF LetsRowGo
  <1>3. QED
    BY <1>1, <1>2

\* A call that has locked its row goes on, once it has looked at the next thing.
LEMMA HolderMoves ==
  ASSUME ErasureInv, NEW c \in ErasureCalls, NEW op \in Erasings \ {"asked"},
         NEW call \in RowErasure \cup ListedErasure, call = erasureCalls[c],
         Goes(c, [call EXCEPT !.op = op]), UNCHANGED <<onePerson, person, usersGone, rowMoves>>,
         rowLock' \in [Rows -> ErasureCalls \cup {Unlocked}],
         \A r \in Rows : \A d \in ErasureCalls : (d # c /\ rowLock[r] = d) => rowLock'[r] = d,
         rowLock'[call.row] = c, ~person[call.row].hold,
         op \in {"unexited", "unblocked", "running"} => ~person[call.row].exit,
         (op = "running" /\ call.digest # NoDigest) => person[call.row].papers <= call.digest.papers
  PROVE  ErasureInv' /\ ErasureKept
  <1>0. op \in Erasings /\ op # "erasing"
    BY DEF Erasings
  <1>1. PICK new \in RowErasure \cup ListedErasure :
          /\ new = [call EXCEPT !.op = op] /\ new.op = op /\ new.row = call.row
          /\ new.digest = call.digest /\ new.todo = call.todo
          /\ new \in ListedErasure => call \in ListedErasure /\ new.listed = call.listed
    <2> HIDE DEF Erasings, RowErasure, ListedErasure
    <2>1. PICK new : new = [call EXCEPT !.op = op]
      OBVIOUS
    <2>2. /\ new \in RowErasure \cup ListedErasure /\ new.op = op /\ new.row = call.row
          /\ new.digest = call.digest /\ new.todo = call.todo
          /\ new \in ListedErasure => call \in ListedErasure /\ new.listed = call.listed
      BY <1>0, <2>1, ErasureAdvances
    <2>3. QED
      BY <2>1, <2>2
  <1>2. erasureCalls'[c] = new /\ Goes(c, new)
    BY <1>1 DEF Goes, ErasureInv
  <1>3. HoldsItsRow(c)'
    BY <1>1, <1>2 DEF HoldsItsRow
  <1>4. ListedAreErased(c)'
    BY <1>0, <1>1, <1>2 DEF ErasureInv, ListedAreErased
  <1>5. new \in ErasureRecord
    BY RowErasureFields
  <1>6. QED
    BY <1>2, <1>3, <1>4, <1>5, CallMoves

LEMMA LocksKeeps ==
  ASSUME ErasureInv, NEW c \in ErasureCalls, LocksRow(c)
  PROVE  ErasureInv' /\ ErasureKept
  <1>1. PICK call \in ErasureRecord : call = erasureCalls[c]
    BY DEF ErasureInv
  <1>2. call.op = "asked" /\ UNCHANGED <<onePerson, person, usersGone, rowMoves>>
    BY <1>1 DEF LocksRow
  <1>3. call \in RowErasure \cup ListedErasure
    BY <1>2, ErasureFields DEF Erasings
  <1>4. call.row \in Rows
    BY <1>3, RowErasureFields
  <1>5. rowLock \in [Rows -> ErasureCalls \cup {Unlocked}]
    BY DEF ErasureInv, ErasureTypeOK
  <1>6. CASE person[call.row].hold
    <2>1. Goes(c, NoErasure) /\ rowLock' = rowLock
      BY <1>1, <1>6 DEF LocksRow
    <2>2. QED
      BY <1>2, <1>5, <2>1, CallEnds
  <1>7. CASE ~person[call.row].hold
    <2>1. /\ rowLock[call.row] = Unlocked /\ rowLock' = [rowLock EXCEPT ![call.row] = c]
          /\ Goes(c, [call EXCEPT !.op = "locked"])
      BY <1>1, <1>7 DEF LocksRow, TakesRow, RowFree
    <2>2. /\ rowLock' \in [Rows -> ErasureCalls \cup {Unlocked}] /\ rowLock'[call.row] = c
          /\ \A r \in Rows : \A d \in ErasureCalls : (d # c /\ rowLock[r] = d) => rowLock'[r] = d
      BY <1>4, <1>5, <2>1, ErasureAssumption
    <2>3. "locked" \in Erasings \ {"asked"} /\ "locked" \notin {"unexited", "unblocked", "running"}
      BY DEF Erasings
    <2>4. QED
      BY <1>1, <1>2, <1>3, <1>7, <2>1, <2>2, <2>3, HolderMoves
  <1>8. QED
    BY <1>6, <1>7

\* What the steps of a call that holds its row have in common.
LEMMA HolderSteps ==
  ASSUME ErasureInv, NEW c \in ErasureCalls, NEW call, call = erasureCalls[c],
         call.op \in Erasings \ {"asked"}
  PROVE  /\ call \in RowErasure \cup ListedErasure /\ call.row \in Rows /\ call.digest \in Digests
         /\ rowLock \in [Rows -> ErasureCalls \cup {Unlocked}] /\ rowLock[call.row] = c
         /\ ~person[call.row].hold
         /\ call.op \in {"unexited", "unblocked", "running"} => ~person[call.row].exit
  <1>1. call \in ErasureRecord
    BY DEF ErasureInv
  <1>2. call \in RowErasure \cup ListedErasure
    BY <1>1, ErasureFields
  <1>3. call.row \in Rows /\ call.digest \in Digests
    BY <1>2, RowErasureFields
  <1>4. rowLock \in [Rows -> ErasureCalls \cup {Unlocked}]
    BY DEF ErasureInv, ErasureTypeOK
  <1>5. QED
    BY <1>2, <1>3, <1>4 DEF ErasureInv, HoldsItsRow

LEMMA RefusesKeeps ==
  ASSUME ErasureInv, NEW c \in ErasureCalls, erasureCalls[c].row \in Rows, Refuses(c),
         UNCHANGED <<onePerson, person, usersGone, rowMoves>>
  PROVE  ErasureInv' /\ ErasureKept
  <1>1. Goes(c, NoErasure) /\ LetsRowGo(c, erasureCalls[c].row)
    BY DEF Refuses
  <1>2. QED
    BY <1>1, RowIsLetGo, CallEnds

LEMMA ReadsRowKeeps ==
  ASSUME ErasureInv, NEW c \in ErasureCalls, ReadsExit(c) \/ ReadsAccount(c) \/ ComparesPlan(c)
  PROVE  ErasureInv' /\ ErasureKept
  <1>1. PICK call : call = erasureCalls[c]
    OBVIOUS
  <1>2. /\ UNCHANGED <<onePerson, person, usersGone, rowMoves>>
        /\ call.op \in {"locked", "unexited", "unblocked"}
    BY <1>1 DEF ReadsExit, ReadsAccount, ComparesPlan
  <1>3. call.op \in Erasings \ {"asked"}
    BY <1>2 DEF Erasings
  <1>4. /\ call \in RowErasure \cup ListedErasure /\ call.row \in Rows /\ call.digest \in Digests
        /\ rowLock \in [Rows -> ErasureCalls \cup {Unlocked}] /\ rowLock[call.row] = c
        /\ ~person[call.row].hold
        /\ call.op \in {"unexited", "unblocked", "running"} => ~person[call.row].exit
    BY <1>1, <1>3, HolderSteps
  <1>5. {"unexited", "unblocked", "running"} \subseteq Erasings \ {"asked"}
    BY DEF Erasings
  <1>6. CASE Refuses(c)
    BY <1>1, <1>2, <1>4, <1>6, RefusesKeeps
  <1>7. ASSUME NEW op \in {"unexited", "unblocked", "running"}, Goes(c, [call EXCEPT !.op = op]),
               UNCHANGED rowLock, ~person[call.row].exit,
               (op = "running" /\ call.digest # NoDigest) => person[call.row].papers <= call.digest.papers
        PROVE  ErasureInv' /\ ErasureKept
    <2>1. op \in Erasings \ {"asked"}
      BY <1>5
    <2>2. rowLock' \in [Rows -> ErasureCalls \cup {Unlocked}] /\ rowLock'[call.row] = c
      BY <1>4, <1>7
    <2>3. \A r \in Rows : \A d \in ErasureCalls : (d # c /\ rowLock[r] = d) => rowLock'[r] = d
      BY <1>7
    <2>4. QED
      BY <1>1, <1>2, <1>4, <1>7, <2>1, <2>2, <2>3, HolderMoves
  <1>8. CASE ReadsExit(c) /\ ~Refuses(c)
    <2>1. /\ ~person[call.row].exit /\ Goes(c, [call EXCEPT !.op = "unexited"]) /\ UNCHANGED rowLock
      BY <1>1, <1>8 DEF ReadsExit, ExitStands
    <2>2. QED
      BY <1>7, <2>1
  <1>9. CASE ReadsAccount(c) /\ ~Refuses(c)
    <2>1. /\ call.op = "unexited" /\ Goes(c, [call EXCEPT !.op = "unblocked"]) /\ UNCHANGED rowLock
      BY <1>1, <1>9 DEF ReadsAccount
    <2>2. QED
      BY <1>4, <1>7, <2>1
  <1>10. CASE ComparesPlan(c) /\ ~Refuses(c)
    <2>1. /\ call.op = "unblocked" /\ Goes(c, [call EXCEPT !.op = "running"]) /\ UNCHANGED rowLock
          /\ PlanStands(call)
      BY <1>1, <1>10 DEF ComparesPlan
    <2>2. call.digest # NoDigest => person[call.row].papers <= call.digest.papers
      <3>1. SUFFICES ASSUME call.digest # NoDigest
                     PROVE  person[call.row].papers <= call.digest.papers
        OBVIOUS
      <3>2. call.digest = [papers |-> person[call.row].papers, things |-> person[call.row].things]
        BY <2>1, <3>1 DEF PlanStands, DigestOf
      <3>3. person[call.row].papers \in 0..1
        BY <1>4 DEF ErasureInv, ErasureTypeOK, Subject
      <3>4. QED
        BY <3>2, <3>3
    <2>3. QED
      BY <1>4, <1>7, <2>1, <2>2
  <1>11. QED
    BY <1>6, <1>8, <1>9, <1>10

LEMMA ErasureDiesKeeps ==
  ASSUME ErasureInv, NEW c \in ErasureCalls, ErasureDies(c)
  PROVE  ErasureInv' /\ ErasureKept
  <1>1. rowLock \in [Rows -> ErasureCalls \cup {Unlocked}]
    BY DEF ErasureInv, ErasureTypeOK
  <1>2. /\ Goes(c, NoErasure) /\ UNCHANGED <<onePerson, person, usersGone, rowMoves>>
        /\ rowLock' = [r \in Rows |-> IF rowLock[r] = c THEN Unlocked ELSE rowLock[r]]
    BY DEF ErasureDies
  <1>3. /\ rowLock' \in [Rows -> ErasureCalls \cup {Unlocked}]
        /\ \A r \in Rows : \A d \in ErasureCalls : (d # c /\ rowLock[r] = d) => rowLock'[r] = d
    BY <1>1, <1>2
  <1>4. QED
    BY <1>2, <1>3, CallEnds

\* What is left of a member when the user row is gone.
LEMMA WithoutUser ==
  ASSUME NEW p \in Subject
  PROVE  LET q == [p EXCEPT !.account = FALSE, !.duty = FALSE, !.owner = FALSE, !.things = 0]
         IN /\ q \in Subject /\ q.is = p.is /\ ~q.account /\ ~q.duty
            /\ q.hold = p.hold /\ q.exit = p.exit /\ q.papers = p.papers
  <1>1. 0 \in 0..1 /\ FALSE \in BOOLEAN
    OBVIOUS
  <1>2. QED
    BY <1>1 DEF Subject

\* A user goes when every row of the list is erased; the rows themselves stay as they are.
LEMMA DeletesUserKeeps ==
  ASSUME ErasureInv, NEW c \in ErasureCalls, DeletesUser(c)
  PROVE  ErasureInv' /\ ErasureKept
  <1>1. PICK call \in ErasureRecord : call = erasureCalls[c]
    BY DEF ErasureInv
  <1>2. /\ call.op = "erasing" /\ call.todo = {} /\ UNCHANGED <<onePerson, rowLock, rowMoves>>
        /\ Goes(c, NoErasure)
    BY <1>1 DEF DeletesUser
  <1>3. call \in AccountErasure /\ call.of \in Rows
    BY <1>2, ErasureFields, AccountFields
  <1>4. PICK gone \in SUBSET Rows :
          /\ usersGone' = usersGone \cup gone
          /\ person' = [r \in Rows |-> IF r \in gone
                                       THEN [person[r] EXCEPT !.account = FALSE, !.duty = FALSE,
                                                              !.owner = FALSE, !.things = 0]
                                       ELSE person[r]]
    <2>1. RowsOfUser(call.of) \in SUBSET Rows
      BY <1>3 DEF RowsOfUser
    <2>2. QED
      BY <1>1, <2>1 DEF DeletesUser
  <1>5. ErasureTypeOK /\ person \in [Rows -> Subject]
    BY DEF ErasureInv, ErasureTypeOK
  <1>6. \A r \in Rows :
          /\ person'[r] \in Subject /\ person'[r].is = person[r].is
          /\ person'[r].hold = person[r].hold /\ person'[r].exit = person[r].exit
          /\ person'[r].papers = person[r].papers
          /\ person'[r].is = "erased" => ~person'[r].account /\ ~person'[r].duty
    <2>1. TAKE r \in Rows
    <2>2. PICK p \in Subject : p = person[r]
      BY <1>5
    <2>3. CASE r \in gone
      <3>1. PICK q : q = [p EXCEPT !.account = FALSE, !.duty = FALSE, !.owner = FALSE, !.things = 0]
        OBVIOUS
      <3>2. /\ q \in Subject /\ q.is = p.is /\ ~q.account /\ ~q.duty
            /\ q.hold = p.hold /\ q.exit = p.exit /\ q.papers = p.papers
        BY <3>1, WithoutUser
      <3>3. person'[r] = q
        BY <1>4, <2>2, <2>3, <3>1
      <3>4. QED
        BY <2>2, <3>2, <3>3
    <2>4. CASE r \notin gone
      <3>1. person'[r] = person[r]
        BY <1>4, <2>4
      <3>2. QED
        BY <1>5, <3>1 DEF ErasureTypeOK
    <2>5. QED
      BY <2>3, <2>4
  <1>7. ErasureTypeOK'
    <2>1. person' \in [Rows -> Subject] /\ usersGone' \subseteq Rows
      BY <1>4, <1>5, <1>6 DEF ErasureTypeOK
    <2>2. QED
      BY <1>2, <1>5, <1>6, <2>1 DEF ErasureTypeOK
  <1>8. /\ NoErasure \in ErasureRecord /\ NoErasure.op = "none" /\ NoErasure \notin ListedErasure
        /\ erasureCalls \in [ErasureCalls -> ErasureRecord]
    <2>1. NoErasure.op = "none"
      BY DEF NoErasure
    <2>2. QED
      BY <2>1 DEF ErasureRecord, ListedErasure, Erasings, ErasureInv
  <1>9. erasureCalls' = [erasureCalls EXCEPT ![c] = NoErasure]
    BY <1>2 DEF Goes
  <1>10. ASSUME NEW d \in ErasureCalls
         PROVE  HoldsItsRow(d)' /\ ListedAreErased(d)'
    <2>1. CASE d = c
      <3>1. erasureCalls'[d] = NoErasure
        BY <1>8, <1>9, <2>1
      <3>2. QED
        BY <1>8, <3>1 DEF HoldsItsRow, ListedAreErased, Erasings
    <2>2. CASE d # c
      <3>1. erasureCalls'[d] = erasureCalls[d]
        BY <1>8, <1>9, <2>2
      <3>2. \A r \in Rows : rowLock'[r] = rowLock[r]
        BY <1>2
      <3>3. \A r \in Rows : person'[r].papers <= person[r].papers /\ person'[r].papers \in Int
        BY <1>5, <1>6 DEF Subject
      <3>4. \A r \in Rows : person[r].is = "erased" => person'[r].is = "erased"
        BY <1>6
      <3>5. \A r \in Rows : (~person[r].hold => ~person'[r].hold) /\ (~person[r].exit => ~person'[r].exit)
        BY <1>6
      <3>6. QED
        BY <3>1, <3>2, <3>3, <3>4, <3>5, OthersKeepTheirs
    <2>3. QED
      BY <2>1, <2>2
  <1>11. ErasureInv'
    <2>1. erasureCalls' \in [ErasureCalls -> ErasureRecord]
      BY <1>8, <1>9
    <2>2. QED
      BY <1>7, <1>10, <2>1 DEF ErasureInv
  <1>12. \A d \in ErasureCalls : erasureCalls'[d] # erasureCalls[d] => d = c
    BY <1>8, <1>9
  <1>13. HeldAndLeavingStay /\ NothingUnseenGoes
    BY <1>1, <1>2, <1>12 DEF HeldAndLeavingStay, NothingUnseenGoes, ErasedBy
  <1>14. UsersGoErased
    <2>1. \A r \in call.listed : person[r].is = "erased"
      BY <1>1, <1>2 DEF ErasureInv, ListedAreErased
    <2>2. QED
      BY <1>1, <1>12, <2>1 DEF UsersGoErased
  <1>15. QED
    BY <1>11, <1>13, <1>14 DEF ErasureKept

\* What an erasure leaves: nothing but a hold.
LEMMA ErasedSubject ==
  ASSUME NEW p \in Subject, NEW q, q = [Row("erased") EXCEPT !.hold = p.hold]
  PROVE  q \in Subject /\ q.is = "erased" /\ ~q.account /\ ~q.duty
  <1>1. PICK row \in Subject : row = Row("erased") /\ row.is = "erased" /\ ~row.account /\ ~row.duty
    BY FreshRow DEF Stands
  <1>2. PICK hold \in BOOLEAN : hold = p.hold
    BY DEF Subject
  <1>3. [row EXCEPT !.hold = hold] \in Subject
    BY <1>2 DEF Subject
  <1>4. /\ [row EXCEPT !.hold = hold].is = row.is /\ [row EXCEPT !.hold = hold].account = row.account
        /\ [row EXCEPT !.hold = hold].duty = row.duty
    BY DEF Subject
  <1>5. q = [row EXCEPT !.hold = hold]
    BY <1>1, <1>2
  <1>6. QED
    BY <1>1, <1>3, <1>4, <1>5

\* A row is erased as it was read: whoever is about to erase it holds it.
LEMMA ErasesKeeps ==
  ASSUME ErasureInv, NEW c \in ErasureCalls, ErasesRow(c)
  PROVE  ErasureInv' /\ ErasureKept
  <1>1. PICK call : call = erasureCalls[c]
    OBVIOUS
  <1>2. /\ call.op = "running" /\ UNCHANGED <<onePerson, usersGone, rowMoves>>
        /\ LetsRowGo(c, call.row)
    BY <1>1 DEF ErasesRow
  <1>3. call.op \in Erasings \ {"asked"}
    BY <1>2 DEF Erasings
  <1>4. /\ call \in RowErasure \cup ListedErasure /\ call.row \in Rows /\ call.digest \in Digests
        /\ rowLock \in [Rows -> ErasureCalls \cup {Unlocked}] /\ rowLock[call.row] = c
        /\ ~person[call.row].hold /\ ~person[call.row].exit
    <2>1. call.op \in {"unexited", "unblocked", "running"}
      BY <1>2
    <2>2. QED
      BY <1>1, <1>3, <2>1, HolderSteps
  <1>5. ErasureTypeOK /\ person \in [Rows -> Subject]
    BY DEF ErasureInv, ErasureTypeOK
  <1>6. PICK q \in Subject : /\ person' = [person EXCEPT ![call.row] = q]
                             /\ q.is = "erased" /\ ~q.account /\ ~q.duty
    <2>1. person' = [person EXCEPT ![call.row] = [Row("erased") EXCEPT !.hold = person[call.row].hold]]
      BY <1>1 DEF ErasesRow
    <2>2. PICK q : q = [Row("erased") EXCEPT !.hold = person[call.row].hold]
      OBVIOUS
    <2>3. q \in Subject /\ q.is = "erased" /\ ~q.account /\ ~q.duty
      BY <1>4, <1>5, <2>2, ErasedSubject
    <2>4. QED
      BY <2>1, <2>2, <2>3
  <1>7. /\ rowLock' \in [Rows -> ErasureCalls \cup {Unlocked}]
        /\ \A o \in Rows : \A d \in ErasureCalls : (d # c /\ rowLock[o] = d) => rowLock'[o] = d
    BY <1>2, <1>4, RowIsLetGo
  <1>8. \A o \in Rows : (o # call.row => person'[o] = person[o]) /\ person'[o] \in Subject
    BY <1>4, <1>5, <1>6
  <1>9. person'[call.row].is = "erased" /\ person'[call.row] = q
    BY <1>4, <1>5, <1>6
  <1>10. ErasureTypeOK'
    <2>1. person' \in [Rows -> Subject]
      BY <1>5, <1>6
    <2>2. \A o \in Rows : person'[o].is = "erased" => ~person'[o].account /\ ~person'[o].duty
      BY <1>5, <1>6, <1>8, <1>9 DEF ErasureTypeOK
    <2>3. QED
      BY <1>2, <1>5, <1>7, <2>1, <2>2 DEF ErasureTypeOK
  <1>11. PICK new \in {NoErasure} \cup AccountErasure :
           /\ erasureCalls' = [erasureCalls EXCEPT ![c] = new]
           /\ new.op \in {"none", "erasing"}
           /\ new.op = "erasing" => call \in ListedErasure /\ new.todo = call.todo /\ new.listed = call.listed
    <2>1. CASE "of" \in DOMAIN call
      <3>1. call \in ListedErasure
        BY <1>4, <2>1, RowErasureFields
      <3>2. call.of \in Rows /\ call.listed \in SUBSET Rows /\ call.todo \in SUBSET Rows
        BY <3>1, RowErasureFields
      <3>3. PICK new \in AccountErasure :
              new = [op |-> "erasing", of |-> call.of, listed |-> call.listed, todo |-> call.todo]
        BY <3>2 DEF AccountErasure
      <3>4. new.op = "erasing" /\ new.listed = call.listed /\ new.todo = call.todo
        BY <3>3
      <3>5. erasureCalls' = [erasureCalls EXCEPT ![c] = new]
        BY <1>1, <2>1, <3>3 DEF ErasesRow, Goes
      <3>6. QED
        BY <3>1, <3>4, <3>5
    <2>2. CASE "of" \notin DOMAIN call
      <3>1. erasureCalls' = [erasureCalls EXCEPT ![c] = NoErasure]
        BY <1>1, <2>2 DEF ErasesRow, Goes
      <3>2. NoErasure.op = "none"
        BY DEF NoErasure
      <3>3. QED
        BY <3>1, <3>2
    <2>3. QED
      BY <2>1, <2>2
  <1>12. /\ new \in ErasureRecord /\ new \notin ListedErasure
         /\ erasureCalls \in [ErasureCalls -> ErasureRecord]
    <2>1. new \in ErasureRecord
      BY DEF ErasureRecord
    <2>2. new \notin ListedErasure
      BY <1>11 DEF ListedErasure, Erasings
    <2>3. QED
      BY <2>1, <2>2 DEF ErasureInv
  <1>13. erasureCalls' \in [ErasureCalls -> ErasureRecord] /\ erasureCalls'[c] = new
    BY <1>11, <1>12
  <1>14. ASSUME NEW d \in ErasureCalls
         PROVE  HoldsItsRow(d)' /\ ListedAreErased(d)'
    <2>1. CASE d = c
      <3>1. HoldsItsRow(d)'
        BY <1>11, <1>13, <2>1 DEF HoldsItsRow, Erasings
      <3>2. ListedAreErased(d)'
        <4>1. SUFFICES ASSUME new.op = "erasing", NEW r \in new.listed
                       PROVE  r \in new.todo \/ person'[r].is = "erased"
          BY <1>12, <1>13, <2>1 DEF ListedAreErased
        <4>2. r \in call.todo \/ r = call.row \/ person[r].is = "erased"
          BY <1>1, <1>11, <4>1 DEF ErasureInv, ListedAreErased
        <4>3. r \in Rows
          BY <1>11, <4>1, RowErasureFields
        <4>4. QED
          BY <1>8, <1>9, <1>11, <4>1, <4>2, <4>3
      <3>3. QED
        BY <3>1, <3>2
    <2>2. CASE d # c
      <3>1. erasureCalls'[d] = erasureCalls[d]
        BY <1>11, <1>12, <2>2
      <3>2. \A r \in Rows : rowLock[r] = d => rowLock'[r] = d /\ r # call.row
        BY <1>4, <1>7, <2>2
      <3>3. \A r \in Rows : person[r].papers <= person[r].papers /\ person[r].papers \in Int
        BY <1>5 DEF Subject
      <3>4. \A r \in Rows : person[r].is = "erased" => person'[r].is = "erased"
        BY <1>8, <1>9
      <3>5. \A r \in Rows : rowLock[r] = d
              => /\ rowLock'[r] = d /\ (~person[r].hold => ~person'[r].hold)
                 /\ (~person[r].exit => ~person'[r].exit)
                 /\ person'[r].papers <= person[r].papers /\ person'[r].papers \in Int
        BY <1>8, <3>2, <3>3
      <3>6. QED
        BY <3>1, <3>4, <3>5, OthersKeepTheirs
    <2>3. QED
      BY <2>1, <2>2
  <1>15. \A d \in ErasureCalls : erasureCalls'[d] # erasureCalls[d] => d = c
    BY <1>11, <1>12
  <1>16. HeldAndLeavingStay
    BY <1>1, <1>4, <1>15 DEF HeldAndLeavingStay, ErasedBy, Erased
  <1>17. NothingUnseenGoes
    <2>1. call.digest # NoDigest => person[call.row].papers <= call.digest.papers
      BY <1>1, <1>2 DEF ErasureInv, HoldsItsRow
    <2>2. QED
      BY <1>1, <1>15, <2>1 DEF NothingUnseenGoes, ErasedBy, Erased
  <1>18. UsersGoErased
    BY <1>2 DEF UsersGoErased
  <1>19. QED
    BY <1>10, <1>13, <1>14, <1>16, <1>17, <1>18 DEF ErasureInv, ErasureKept

\* What everybody else does: nothing they do to a locked row adds a hold, an exit or a
\* paper to it, and nobody who was erased comes back.
LEMMA RowMovesKeeps ==
  ASSUME ErasureInv, NEW r \in Rows, NEW after \in Subject, RowMoves(r, after),
         after.is = "erased" => ~after.account /\ ~after.duty,
         person[r].is = "erased" => after.is = "erased",
         rowLock[r] # Unlocked => /\ (~person[r].hold => ~after.hold) /\ (~person[r].exit => ~after.exit)
                                  /\ after.papers <= person[r].papers
  PROVE  ErasureInv' /\ ErasureKept
  <1>1. /\ rowMoves < MaxRowMoves /\ rowMoves' = rowMoves + 1 /\ person' = [person EXCEPT ![r] = after]
        /\ UNCHANGED <<onePerson, rowLock, erasureCalls, usersGone>>
    BY DEF RowMoves
  <1>2. ErasureTypeOK /\ person \in [Rows -> Subject] /\ rowMoves \in 0..MaxRowMoves
    BY DEF ErasureInv, ErasureTypeOK
  <1>3. rowMoves' \in 0..MaxRowMoves
    BY <1>1, <1>2, ErasureAssumption
  <1>4. person' \in [Rows -> Subject] /\ person'[r] = after /\ \A o \in Rows : o # r => person'[o] = person[o]
    BY <1>1, <1>2
  <1>5. \A o \in Rows : person'[o].is = "erased" => ~person'[o].account /\ ~person'[o].duty
    BY <1>2, <1>4 DEF ErasureTypeOK
  <1>6. ErasureTypeOK'
    BY <1>1, <1>2, <1>3, <1>4, <1>5 DEF ErasureTypeOK
  <1>7. ASSUME NEW c \in ErasureCalls
        PROVE  HoldsItsRow(c)' /\ ListedAreErased(c)'
    <2>1. \A o \in Rows : person[o].is = "erased" => person'[o].is = "erased"
      BY <1>4
    <2>2. \A o \in Rows : /\ person[o].papers <= person[o].papers /\ person[o].papers \in Int
                          /\ person'[o].papers \in Int
      BY <1>2, <1>4 DEF Subject
    <2>3. \A o \in Rows : rowLock[o] = c
            => /\ rowLock'[o] = c /\ (~person[o].hold => ~person'[o].hold)
               /\ (~person[o].exit => ~person'[o].exit)
               /\ person'[o].papers <= person[o].papers /\ person'[o].papers \in Int
      BY <1>1, <1>4, <2>2, ErasureAssumption
    <2>4. erasureCalls'[c] = erasureCalls[c]
      BY <1>1
    <2>5. QED
      BY <2>1, <2>3, <2>4, OthersKeepTheirs
  <1>8. ErasureInv'
    BY <1>1, <1>6, <1>7 DEF ErasureInv
  <1>9. ErasureKept
    BY <1>1 DEF ErasureKept, HeldAndLeavingStay, NothingUnseenGoes, UsersGoErased, ErasedBy
  <1>10. QED
    BY <1>8, <1>9

LEMMA EverybodyKeeps ==
  ASSUME ErasureInv, NEW r \in Rows,
         \/ PutsHold(r) \/ AsksForExit(r) \/ EndsExit(r) \/ AddsPaper(r) \/ DropsPaper(r)
         \/ AddsThing(r) \/ TogglesDuty(r) \/ JoinsClub(r) \/ LeavesClub(r)
  PROVE  ErasureInv' /\ ErasureKept
  <1>1. PICK p \in Subject : p = person[r]
    BY DEF ErasureInv, ErasureTypeOK
  <1>2. /\ p.is = "erased" => ~p.account /\ ~p.duty
        /\ p.papers \in 0..1 /\ p.papers <= p.papers
    BY <1>1 DEF ErasureInv, ErasureTypeOK, Subject
  <1>3. 0 \in 0..1 /\ 1 \in 0..1 /\ TRUE \in BOOLEAN /\ FALSE \in BOOLEAN
    OBVIOUS
  <1>4. CASE PutsHold(r)
    <2>1. PICK b \in BOOLEAN : b = ~p.hold
      BY DEF Subject
    <2>2. PICK q : q = [p EXCEPT !.hold = b]
      OBVIOUS
    <2>3. /\ q \in Subject /\ q.is = p.is /\ q.account = p.account /\ q.duty = p.duty
      BY <1>3, <2>2 DEF Subject
    <2>4. RowMoves(r, q) /\ rowLock[r] = Unlocked
      BY <1>1, <1>4, <2>1, <2>2 DEF PutsHold, RowFree
    <2>5. QED
      BY <1>1, <1>2, <2>3, <2>4, RowMovesKeeps
  <1>5. CASE AsksForExit(r)
    <2>1. PICK q : q = [p EXCEPT !.exit = TRUE]
      OBVIOUS
    <2>2. /\ q \in Subject /\ q.is = p.is /\ q.account = p.account /\ q.duty = p.duty
      BY <1>3, <2>1 DEF Subject
    <2>3. RowMoves(r, q) /\ rowLock[r] = Unlocked
      BY <1>1, <1>5, <2>1 DEF AsksForExit, RowFree
    <2>4. QED
      BY <1>1, <1>2, <2>2, <2>3, RowMovesKeeps
  <1>6. CASE EndsExit(r)
    <2>1. PICK q : q = [p EXCEPT !.exit = FALSE]
      OBVIOUS
    <2>2. /\ q \in Subject /\ q.is = p.is /\ q.account = p.account /\ q.duty = p.duty
      BY <1>3, <2>1 DEF Subject
    <2>3. RowMoves(r, q) /\ rowLock[r] = Unlocked
      BY <1>1, <1>6, <2>1 DEF EndsExit, RowFree
    <2>4. QED
      BY <1>1, <1>2, <2>2, <2>3, RowMovesKeeps
  <1>7. CASE AddsPaper(r)
    <2>1. PICK q : q = [p EXCEPT !.papers = 1]
      OBVIOUS
    <2>2. /\ q \in Subject /\ q.is = p.is /\ q.account = p.account /\ q.duty = p.duty
      BY <1>3, <2>1 DEF Subject
    <2>3. RowMoves(r, q) /\ rowLock[r] = Unlocked
      BY <1>1, <1>7, <2>1 DEF AddsPaper, RowFree
    <2>4. QED
      BY <1>1, <1>2, <2>2, <2>3, RowMovesKeeps
  <1>8. CASE DropsPaper(r)
    <2>1. PICK q : q = [p EXCEPT !.papers = 0]
      OBVIOUS
    <2>2. /\ q \in Subject /\ q.is = p.is /\ q.account = p.account /\ q.duty = p.duty
          /\ q.hold = p.hold /\ q.exit = p.exit /\ q.papers <= p.papers
      BY <1>2, <1>3, <2>1 DEF Subject
    <2>3. RowMoves(r, q)
      BY <1>1, <1>8, <2>1 DEF DropsPaper
    <2>4. QED
      BY <1>1, <1>2, <2>2, <2>3, RowMovesKeeps
  <1>9. CASE AddsThing(r)
    <2>1. PICK q : q = [p EXCEPT !.things = 1]
      OBVIOUS
    <2>2. /\ q \in Subject /\ q.is = p.is /\ q.account = p.account /\ q.duty = p.duty
          /\ q.hold = p.hold /\ q.exit = p.exit /\ q.papers <= p.papers
      BY <1>2, <1>3, <2>1 DEF Subject
    <2>3. RowMoves(r, q)
      BY <1>1, <1>9, <2>1 DEF AddsThing
    <2>4. QED
      BY <1>1, <1>2, <2>2, <2>3, RowMovesKeeps
  <1>10. CASE TogglesDuty(r)
    <2>1. PICK b \in BOOLEAN : b = ~p.duty
      BY DEF Subject
    <2>2. PICK q : q = [p EXCEPT !.duty = b]
      OBVIOUS
    <2>3. /\ q \in Subject /\ q.is = p.is /\ q.account = p.account
          /\ q.hold = p.hold /\ q.exit = p.exit /\ q.papers <= p.papers
      BY <1>2, <1>3, <2>2 DEF Subject
    <2>4. RowMoves(r, q) /\ p.account
      BY <1>1, <1>10, <2>1, <2>2 DEF TogglesDuty
    <2>5. q.is # "erased"
      BY <1>2, <2>3, <2>4
    <2>6. QED
      BY <1>1, <2>3, <2>4, <2>5, RowMovesKeeps
  <1>11. CASE JoinsClub(r)
    <2>1. PICK q : q = Row("member")
      OBVIOUS
    <2>2. q \in Subject /\ q.is = "member" /\ ~q.hold /\ ~q.exit /\ q.papers = 0
      BY <2>1, FreshRow DEF Stands
    <2>3. RowMoves(r, q) /\ person[r].is = "absent"
      BY <1>11, <2>1 DEF JoinsClub
    <2>4. q.papers <= person[r].papers
      BY <1>1, <1>2, <2>2
    <2>5. QED
      BY <2>2, <2>3, <2>4, RowMovesKeeps
  <1>12. CASE LeavesClub(r)
    <2>1. PICK q : q = [p EXCEPT !.account = FALSE, !.duty = FALSE, !.things = 0]
      OBVIOUS
    <2>2. /\ q \in Subject /\ q.is = p.is /\ ~q.account /\ ~q.duty
      BY <1>3, <2>1 DEF Subject
    <2>3. RowMoves(r, q) /\ rowLock[r] = Unlocked
      BY <1>1, <1>12, <2>1 DEF LeavesClub, RowFree
    <2>4. QED
      BY <1>1, <1>2, <2>2, <2>3, RowMovesKeeps
  <1>13. QED
    BY <1>4, <1>5, <1>6, <1>7, <1>8, <1>9, <1>10, <1>11, <1>12

LEMMA ErasureSteps ==
  ASSUME ErasureInv, ErasureNext
  PROVE  ErasureInv' /\ ErasureKept
  <1>1. ASSUME NEW c \in ErasureCalls, NEW r \in Rows, BoardPlans(c, r) \/ RetentionAsks(c, r)
        PROVE  ErasureInv' /\ ErasureKept
    BY <1>1, AskingKeeps
  <1>2. ASSUME NEW c \in ErasureCalls, NEW r \in Rows, ListsMemberships(c, r)
        PROVE  ErasureInv' /\ ErasureKept
    BY <1>2, ListsKeeps
  <1>3. ASSUME NEW c \in ErasureCalls, PlansMembership(c) \/ ErasesNext(c) \/ DeletesUser(c)
        PROVE  ErasureInv' /\ ErasureKept
    BY <1>3, PlansKeeps, NextRowKeeps, DeletesUserKeeps
  <1>4. ASSUME NEW c \in ErasureCalls,
               LocksRow(c) \/ ReadsExit(c) \/ ReadsAccount(c) \/ ComparesPlan(c) \/ ErasesRow(c) \/ ErasureDies(c)
        PROVE  ErasureInv' /\ ErasureKept
    BY <1>4, LocksKeeps, ReadsRowKeeps, ErasesKeeps, ErasureDiesKeeps
  <1>5. ASSUME NEW r \in Rows,
               \/ PutsHold(r) \/ AsksForExit(r) \/ EndsExit(r) \/ AddsPaper(r) \/ DropsPaper(r)
               \/ AddsThing(r) \/ TogglesDuty(r) \/ JoinsClub(r) \/ LeavesClub(r)
        PROVE  ErasureInv' /\ ErasureKept
    BY <1>5, EverybodyKeeps
  <1>6. QED
    BY <1>1, <1>2, <1>3, <1>4, <1>5 DEF ErasureNext

LEMMA ErasureStutters ==
  ASSUME ErasureInv, UNCHANGED erasureVars
  PROVE  ErasureInv'
  BY DEF ErasureInv, erasureVars, ErasureTypeOK, HoldsItsRow, ListedAreErased

\* Nobody is erased with a hold or a pending exit, nothing goes that the confirmed plan
\* did not count, and a user goes only after every row that was listed is erased.
THEOREM ErasureIsSound == ErasureSpec => ErasurePromise
  <1>1. ErasureInit => ErasureInv
    BY ErasureStarts
  <1>2. ErasureInv /\ [ErasureNext]_erasureVars => ErasureInv'
    BY ErasureSteps, ErasureStutters
  <1>3. ErasureInv /\ [ErasureNext]_erasureVars
          => [HeldAndLeavingStay /\ NothingUnseenGoes /\ UsersGoErased]_erasureVars
    BY ErasureSteps DEF ErasureKept
  <1>4. ErasureInv => ErasureTypeOK
    BY DEF ErasureInv
  <1>5. QED
    BY <1>1, <1>2, <1>3, <1>4, PTL DEF ErasureSpec, ErasurePromise

-----------------------------------------------------------------------------
(***************************************************************************)
(* Guardians.  A call decides about the role on what it read and nobody is  *)
(* locked out meanwhile, so what it read is true of the carers that have no *)
(* other call; CallsReadTrue says so.  The day at which links end is told   *)
(* only when it has come, which holds from the sweep's reading on.          *)
(***************************************************************************)
LinkCall == [op: {"link"}, carers: {{k} : k \in Carers}, ward: Wards, had: BOOLEAN]
UnlinkCall == [op: {"unlink"}, carers: SUBSET Carers, ward: Wards, last: SUBSET Carers]
GuardianRecord == LinkCall \cup UnlinkCall \cup {NoGuardianCall}

Names(c, k) == guardianCalls[c] # NoGuardianCall /\ k \in guardianCalls[c].carers

ReadTrue(call, k) ==
  /\ call.op = "link" => (call.had <=> k \in carerRole)
  /\ call.op = "unlink" => links[<<k, call.ward>>] # Unlinked /\ (k \in call.last <=> LinksOf(k) \subseteq {call.ward})

CallsReadTrue ==
  \A c \in GuardianCalls : \A k \in Carers \ crossed :
    Names(c, k) => ReadTrue(guardianCalls[c], k) /\ \A d \in GuardianCalls : Names(d, k) => d = c

SweepReadsTheDay ==
  /\ adultTold \subseteq linkEnded /\ adultJobs \subseteq linkEnded
  /\ \A t \in sweepDue \cup adultJobs \cup adultTold : t[2] <= guardianDay

GuardiansInv ==
  /\ GuardiansTypeOK /\ guardianCalls \in [GuardianCalls -> GuardianRecord]
  /\ RoleFollowsLinks /\ CallsReadTrue /\ SweepReadsTheDay

LEMMA GuardianTypes ==
  ASSUME GuardiansInv
  PROVE  /\ guardianDay \in 1..LastAge /\ majority \in [Wards -> 1..LastAge] /\ wardGone \subseteq Wards
         /\ links \in [Pairs -> (1..LastAge) \cup {0, Open, Unlinked}] /\ carerRole \subseteq Carers
         /\ sweepDue \subseteq Wards \X GuardianDays /\ adultJobs \subseteq Wards \X GuardianDays
         /\ adultTold \subseteq Wards \X GuardianDays /\ linkEnded \subseteq Wards \X GuardianDays
         /\ corrections \in 0..MaxCorrections /\ linkings \in 0..MaxLinkings /\ crossed \subseteq Carers
         /\ guardianCalls \in [GuardianCalls -> GuardianRecord]
         /\ LastAge \in Nat \ {0} /\ MaxCorrections \in Nat /\ MaxLinkings \in Nat
         /\ Open # Unlinked /\ Open \notin 0..LastAge /\ Unlinked \notin 0..LastAge
  BY GuardiansAssumption DEF GuardiansInv, GuardiansTypeOK, GuardianDays

LEMMA GuardianCallFields ==
  ASSUME NEW call \in GuardianRecord, call # NoGuardianCall
  PROVE  /\ call.op \in {"link", "unlink"} /\ call.carers \subseteq Carers /\ call.ward \in Wards
         /\ call.op = "link" => call \in LinkCall
         /\ call.op = "unlink" => call \in UnlinkCall
  BY DEF GuardianRecord, LinkCall, UnlinkCall

LEMMA NoGuardianCallIs == NoGuardianCall \in GuardianRecord /\ NoGuardianCall.op = "none"
  BY DEF NoGuardianCall, GuardianRecord

\* A link stays a link.
LinksStay == \A k \in Carers, w \in Wards : links'[<<k, w>>] = Unlinked <=> links[<<k, w>>] = Unlinked

LEMMA RolesRest ==
  ASSUME GuardiansInv, LinksStay, UNCHANGED <<carerRole, guardianCalls, crossed>>
  PROVE  RoleFollowsLinks' /\ CallsReadTrue' /\ guardianCalls' \in [GuardianCalls -> GuardianRecord]
  <1>1. \A k \in Carers : LinksOf(k)' = LinksOf(k)
    BY DEF LinksStay, LinksOf
  <1>2. RoleFollowsLinks'
    BY <1>1 DEF GuardiansInv, RoleFollowsLinks
  <1>3. ASSUME NEW c \in GuardianCalls, NEW k \in Carers \ crossed, Names(c, k)
        PROVE  ReadTrue(guardianCalls[c], k)' /\ \A d \in GuardianCalls : Names(d, k)' => d = c
    <2>1. ReadTrue(guardianCalls[c], k) /\ \A d \in GuardianCalls : Names(d, k) => d = c
      BY <1>3 DEF GuardiansInv, CallsReadTrue
    <2>2. guardianCalls[c].ward \in Wards
      BY <1>3, GuardianTypes, GuardianCallFields DEF Names
    <2>3. QED
      BY <1>1, <2>1, <2>2 DEF ReadTrue, Names, LinksStay
  <1>4. CallsReadTrue'
    BY <1>3 DEF CallsReadTrue, Names
  <1>5. QED
    BY <1>2, <1>4, GuardianTypes

LEMMA SweepRests ==
  ASSUME GuardiansInv, UNCHANGED unswept, guardianDay' >= guardianDay, guardianDay' \in 1..LastAge
  PROVE  SweepReadsTheDay' /\ SweepOnlyShortens
  <1>1. \A t \in sweepDue \cup adultJobs \cup adultTold : t[2] <= guardianDay /\ t[2] \in 1..LastAge
    BY GuardianTypes DEF GuardiansInv, SweepReadsTheDay, GuardianDays
  <1>2. SweepReadsTheDay'
    BY <1>1, GuardianTypes DEF GuardiansInv, SweepReadsTheDay, unswept
  <1>3. SweepOnlyShortens
    BY DEF SweepOnlyShortens, unswept
  <1>4. QED
    BY <1>2, <1>3

-----------------------------------------------------------------------------
\* A call begins with what it reads now.
LEMMA GuardianCallStarts ==
  ASSUME GuardiansInv, NEW c \in GuardianCalls, NEW call \in LinkCall \cup UnlinkCall, GuardianCall(c, call),
         \A k \in call.carers : ReadTrue(call, k), UNCHANGED <<links, carerRole>>
  PROVE  /\ RoleFollowsLinks' /\ CallsReadTrue' /\ guardianCalls' \in [GuardianCalls -> GuardianRecord]
         /\ crossed' \subseteq Carers
  <1>1. call \in GuardianRecord /\ call # NoGuardianCall /\ call.carers \subseteq Carers
    BY NoGuardianCallIs DEF GuardianRecord, LinkCall, UnlinkCall
  <1>2. /\ guardianCalls' \in [GuardianCalls -> GuardianRecord] /\ guardianCalls'[c] = call
        /\ \A d \in GuardianCalls : d # c => guardianCalls'[d] = guardianCalls[d]
        /\ guardianCalls[c] = NoGuardianCall
    BY <1>1, GuardianTypes DEF GuardianCall
  <1>3. crossed' = crossed \cup {k \in call.carers : \E d \in GuardianCalls : Names(d, k)}
    BY DEF GuardianCall, Names
  <1>4. RoleFollowsLinks'
    BY <1>3 DEF GuardiansInv, RoleFollowsLinks, LinksOf
  <1>5. ASSUME NEW d \in GuardianCalls, NEW k \in Carers \ crossed', Names(d, k)'
        PROVE  ReadTrue(guardianCalls[d], k)' /\ \A e \in GuardianCalls : Names(e, k)' => e = d
    <2>1. CASE d = c
      <3>1. k \in call.carers /\ ~\E e \in GuardianCalls : Names(e, k)
        BY <1>2, <1>3, <1>5, <2>1 DEF Names
      <3>2. \A e \in GuardianCalls : Names(e, k)' => e = c
        BY <1>2, <3>1 DEF Names
      <3>3. ReadTrue(guardianCalls[d], k)'
        BY <1>2, <2>1, <3>1 DEF ReadTrue, LinksOf
      <3>4. QED
        BY <2>1, <3>2, <3>3
    <2>2. CASE d # c
      <3>1. Names(d, k) /\ k \in Carers \ crossed
        BY <1>2, <1>3, <1>5, <2>2 DEF Names
      <3>2. k \notin call.carers
        BY <1>3, <1>5, <3>1
      <3>3. ReadTrue(guardianCalls[d], k) /\ \A e \in GuardianCalls : Names(e, k) => e = d
        BY <3>1 DEF GuardiansInv, CallsReadTrue
      <3>4. ReadTrue(guardianCalls[d], k)'
        BY <1>2, <2>2, <3>3 DEF ReadTrue, LinksOf
      <3>5. \A e \in GuardianCalls : Names(e, k)' => e = d
        BY <1>2, <3>2, <3>3 DEF Names
      <3>6. QED
        BY <3>4, <3>5
    <2>3. QED
      BY <2>1, <2>2
  <1>6. CallsReadTrue'
    BY <1>5 DEF CallsReadTrue
  <1>7. QED
    BY <1>1, <1>2, <1>3, <1>4, <1>6, GuardianTypes

\* A call that ends changes its own carers only; of the others' nothing that was read.
LEMMA GuardianCallLeaves ==
  ASSUME GuardiansInv, NEW c \in GuardianCalls, guardianCalls[c] # NoGuardianCall, GuardianCallEnds(c), UNCHANGED crossed,
         \A k \in Carers \ guardianCalls[c].carers :
           (k \in carerRole' <=> k \in carerRole) /\ \A w \in Wards : links'[<<k, w>>] = links[<<k, w>>],
         \A k \in guardianCalls[c].carers \ crossed : k \in carerRole' <=> LinksOf(k)' # {}
  PROVE  RoleFollowsLinks' /\ CallsReadTrue' /\ guardianCalls' \in [GuardianCalls -> GuardianRecord]
  <1>1. /\ guardianCalls' \in [GuardianCalls -> GuardianRecord] /\ guardianCalls'[c] = NoGuardianCall
        /\ \A d \in GuardianCalls : d # c => guardianCalls'[d] = guardianCalls[d]
    BY NoGuardianCallIs, GuardianTypes DEF GuardianCallEnds
  <1>2. \A k \in Carers \ guardianCalls[c].carers : LinksOf(k)' = LinksOf(k)
    BY DEF LinksOf
  <1>3. RoleFollowsLinks'
    BY <1>2 DEF GuardiansInv, RoleFollowsLinks
  <1>4. ASSUME NEW d \in GuardianCalls, NEW k \in Carers \ crossed, Names(d, k)'
        PROVE  ReadTrue(guardianCalls[d], k)' /\ \A e \in GuardianCalls : Names(e, k)' => e = d
    <2>1. d # c /\ Names(d, k)
      BY <1>1, <1>4 DEF Names
    <2>2. ReadTrue(guardianCalls[d], k) /\ \A e \in GuardianCalls : Names(e, k) => e = d
      BY <2>1 DEF GuardiansInv, CallsReadTrue
    <2>3. k \notin guardianCalls[c].carers
      BY <2>1, <2>2 DEF Names
    <2>4. guardianCalls[d].ward \in Wards
      BY <2>1, GuardianTypes, GuardianCallFields DEF Names
    <2>5. ReadTrue(guardianCalls[d], k)'
      BY <1>1, <1>2, <2>1, <2>2, <2>3, <2>4 DEF ReadTrue
    <2>6. \A e \in GuardianCalls : Names(e, k)' => e = d
      BY <1>1, <2>2 DEF Names
    <2>7. QED
      BY <2>5, <2>6
  <1>5. CallsReadTrue'
    BY <1>4 DEF CallsReadTrue
  <1>6. QED
    BY <1>1, <1>3, <1>5

LEMMA AsksToLinkKeeps ==
  ASSUME GuardiansInv, NEW c \in GuardianCalls, NEW k \in Carers, NEW w \in Wards, AsksToLink(c, k, w)
  PROVE  GuardiansInv' /\ SweepOnlyShortens
  <1>1. PICK had \in BOOLEAN : had = (k \in carerRole)
    <2>1. (k \in carerRole) \in BOOLEAN
      OBVIOUS
    <2>2. QED
      BY <2>1
  <1>2. PICK call : call = [op |-> "link", carers |-> {k}, ward |-> w, had |-> had]
    OBVIOUS
  <1>3. call \in LinkCall /\ call.carers = {k} /\ call.op = "link" /\ call.had = had
    BY <1>2 DEF LinkCall
  <1>4. GuardianCall(c, call) /\ UNCHANGED <<links, carerRole>>
    BY <1>1, <1>2 DEF AsksToLink
  <1>5. \A l \in call.carers : ReadTrue(call, l)
    BY <1>1, <1>3 DEF ReadTrue
  <1>6. /\ RoleFollowsLinks' /\ CallsReadTrue' /\ guardianCalls' \in [GuardianCalls -> GuardianRecord]
        /\ crossed' \subseteq Carers
    BY <1>3, <1>4, <1>5, GuardianCallStarts
  <1>7. linkings' \in 0..MaxLinkings /\ UNCHANGED <<guardianDay, majority, wardGone, links, carerRole, corrections, unswept>>
    BY GuardianTypes DEF AsksToLink
  <1>8. GuardiansTypeOK'
    BY <1>6, <1>7 DEF GuardiansInv, GuardiansTypeOK, unswept
  <1>9. SweepReadsTheDay' /\ SweepOnlyShortens
    BY <1>7, SweepRests, GuardianTypes
  <1>10. QED
    BY <1>6, <1>8, <1>9 DEF GuardiansInv

LEMMA AsksToUnlinkKeeps ==
  ASSUME GuardiansInv, NEW c \in GuardianCalls, NEW carers \in SUBSET Carers, NEW w \in Wards, AsksToUnlink(c, carers, w)
  PROVE  GuardiansInv' /\ SweepOnlyShortens
  <1>1. PICK call : call = [op |-> "unlink", carers |-> carers, ward |-> w, last |-> {k \in carers : LastLink(k, w)}]
    OBVIOUS
  <1>2. /\ call \in UnlinkCall /\ call.carers = carers /\ call.op = "unlink" /\ call.ward = w
        /\ call.last = {k \in carers : LastLink(k, w)}
    BY <1>1 DEF UnlinkCall
  <1>3. GuardianCall(c, call) /\ UNCHANGED <<links, carerRole>>
    BY <1>1 DEF AsksToUnlink
  <1>4. \A l \in call.carers : ReadTrue(call, l)
    BY <1>2 DEF ReadTrue, AsksToUnlink, LastLink
  <1>5. /\ RoleFollowsLinks' /\ CallsReadTrue' /\ guardianCalls' \in [GuardianCalls -> GuardianRecord]
        /\ crossed' \subseteq Carers
    BY <1>2, <1>3, <1>4, GuardianCallStarts
  <1>6. UNCHANGED <<guardianDay, majority, wardGone, links, carerRole, corrections, linkings, unswept>>
    BY DEF AsksToUnlink
  <1>7. GuardiansTypeOK'
    BY <1>5, <1>6 DEF GuardiansInv, GuardiansTypeOK, unswept
  <1>8. SweepReadsTheDay' /\ SweepOnlyShortens
    BY <1>6, SweepRests, GuardianTypes
  <1>9. QED
    BY <1>5, <1>7, <1>8 DEF GuardiansInv

LEMMA LinksKeeps ==
  ASSUME GuardiansInv, NEW c \in GuardianCalls, Links(c)
  PROVE  GuardiansInv' /\ SweepOnlyShortens
  <1>1. PICK call : call = guardianCalls[c]
    OBVIOUS
  <1>2. call \in LinkCall /\ call # NoGuardianCall
    BY <1>1, GuardianTypes, GuardianCallFields, NoGuardianCallIs DEF Links
  <1>3. PICK k \in Carers : call.carers = {k}
    BY <1>2 DEF LinkCall
  <1>4. call.ward \in Wards /\ call.op = "link" /\ (CHOOSE l \in call.carers : TRUE) = k
    BY <1>2, <1>3 DEF LinkCall
  <1>5. PICK w \in Wards : w = call.ward
    BY <1>4
  <1>6. GuardianCallEnds(c) /\ UNCHANGED <<guardianDay, majority, wardGone, corrections, linkings, crossed, unswept>>
    BY DEF Links
  <1>7. CASE links[<<k, w>>] # Unlinked
    <2>1. UNCHANGED <<links, carerRole>>
      BY <1>1, <1>4, <1>5, <1>7 DEF Links
    <2>2. \A l \in Carers : LinksOf(l)' = LinksOf(l)
      BY <2>1 DEF LinksOf
    <2>3. RoleFollowsLinks' /\ CallsReadTrue' /\ guardianCalls' \in [GuardianCalls -> GuardianRecord]
      BY <1>1, <1>2, <1>3, <1>6, <2>1, <2>2, GuardianCallLeaves DEF GuardiansInv, RoleFollowsLinks
    <2>4. GuardiansTypeOK'
      BY <1>6, <2>1 DEF GuardiansInv, GuardiansTypeOK, unswept
    <2>5. QED
      BY <1>6, <2>3, <2>4, SweepRests, GuardianTypes DEF GuardiansInv
  <1>8. CASE links[<<k, w>>] = Unlinked
    <2>1. /\ links' = [links EXCEPT ![<<k, w>>] = Open]
          /\ carerRole' = IF call.had THEN carerRole ELSE carerRole \cup {k}
      BY <1>1, <1>4, <1>5, <1>8 DEF Links
    <2>2. /\ links' \in [Pairs -> (1..LastAge) \cup {0, Open, Unlinked}] /\ links'[<<k, w>>] = Open
          /\ \A l \in Carers, v \in Wards : l # k \/ v # w => links'[<<l, v>>] = links[<<l, v>>]
      BY <2>1, GuardianTypes DEF Pairs
    <2>3. k \notin crossed => (call.had <=> k \in carerRole)
      BY <1>1, <1>2, <1>3, <1>4 DEF GuardiansInv, CallsReadTrue, Names, ReadTrue
    <2>4. w \in LinksOf(k)'
      BY <2>2, GuardianTypes DEF LinksOf
    <2>5. \A l \in guardianCalls[c].carers \ crossed : l \in carerRole' <=> LinksOf(l)' # {}
      BY <1>1, <1>3, <2>1, <2>3, <2>4
    <2>6. \A l \in Carers \ guardianCalls[c].carers :
            (l \in carerRole' <=> l \in carerRole) /\ \A v \in Wards : links'[<<l, v>>] = links[<<l, v>>]
      BY <1>1, <1>3, <2>1, <2>2
    <2>7. RoleFollowsLinks' /\ CallsReadTrue' /\ guardianCalls' \in [GuardianCalls -> GuardianRecord]
      BY <1>1, <1>2, <1>6, <2>5, <2>6, GuardianCallLeaves
    <2>8. carerRole' \subseteq Carers
      BY <2>1, GuardianTypes
    <2>9. GuardiansTypeOK'
      BY <1>6, <2>2, <2>8 DEF GuardiansInv, GuardiansTypeOK, unswept, GuardianDays
    <2>10. QED
      BY <1>6, <2>7, <2>9, SweepRests, GuardianTypes DEF GuardiansInv
  <1>9. QED
    BY <1>7, <1>8

LEMMA UnlinksKeeps ==
  ASSUME GuardiansInv, NEW c \in GuardianCalls, Unlinks(c)
  PROVE  GuardiansInv' /\ SweepOnlyShortens
  <1>1. PICK call : call = guardianCalls[c]
    OBVIOUS
  <1>2. call \in UnlinkCall /\ call # NoGuardianCall
    BY <1>1, GuardianTypes, GuardianCallFields, NoGuardianCallIs DEF Unlinks
  <1>3. PICK w \in Wards : w = call.ward
    BY <1>2 DEF UnlinkCall
  <1>4. call.carers \subseteq Carers /\ call.op = "unlink"
    BY <1>2 DEF UnlinkCall
  <1>5. PICK gone : gone = {k \in call.carers : links[<<k, w>>] # Unlinked}
    OBVIOUS
  <1>6. GuardianCallEnds(c) /\ UNCHANGED <<guardianDay, majority, wardGone, corrections, linkings, crossed, unswept>>
    BY DEF Unlinks
  <1>7. /\ links' = [p \in Pairs |-> IF p[1] \in gone /\ p[2] = w THEN Unlinked ELSE links[p]]
        /\ carerRole' = carerRole \ (call.last \cap gone)
    BY <1>1, <1>3, <1>5 DEF Unlinks
  <1>8. /\ links' \in [Pairs -> (1..LastAge) \cup {0, Open, Unlinked}]
        /\ \A k \in Carers, v \in Wards : links'[<<k, v>>] = IF k \in gone /\ v = w THEN Unlinked ELSE links[<<k, v>>]
    BY <1>7, GuardianTypes DEF Pairs
  <1>9. ASSUME NEW k \in call.carers \ crossed
        PROVE  k \in carerRole' <=> LinksOf(k)' # {}
    <2>1. links[<<k, w>>] # Unlinked /\ (k \in call.last <=> LinksOf(k) \subseteq {w})
      BY <1>1, <1>2, <1>3, <1>4 DEF GuardiansInv, CallsReadTrue, Names, ReadTrue
    <2>2. k \in gone /\ k \in Carers
      BY <1>4, <1>5, <2>1
    <2>3. w \in LinksOf(k) /\ k \in carerRole
      BY <2>1, <2>2 DEF LinksOf, GuardiansInv, RoleFollowsLinks
    <2>4. LinksOf(k)' = LinksOf(k) \ {w}
      BY <1>8, <2>2 DEF LinksOf
    <2>5. QED
      BY <1>7, <2>1, <2>2, <2>3, <2>4
  <1>10. RoleFollowsLinks' /\ CallsReadTrue' /\ guardianCalls' \in [GuardianCalls -> GuardianRecord]
    BY <1>1, <1>2, <1>5, <1>6, <1>7, <1>8, <1>9, GuardianCallLeaves
  <1>11. carerRole' \subseteq Carers
    BY <1>7, GuardianTypes
  <1>12. GuardiansTypeOK'
    BY <1>6, <1>8, <1>11 DEF GuardiansInv, GuardiansTypeOK, unswept, GuardianDays
  <1>13. QED
    BY <1>6, <1>10, <1>12, SweepRests, GuardianTypes DEF GuardiansInv

LEMMA GuardianCallFailsKeeps ==
  ASSUME GuardiansInv, NEW c \in GuardianCalls, GuardianCallFails(c)
  PROVE  GuardiansInv' /\ SweepOnlyShortens
  <1>1. /\ guardianCalls[c] # NoGuardianCall /\ GuardianCallEnds(c)
        /\ UNCHANGED <<guardianDay, majority, wardGone, links, carerRole, corrections, linkings, crossed, unswept>>
    BY DEF GuardianCallFails
  <1>2. \A k \in Carers : LinksOf(k)' = LinksOf(k)
    BY <1>1 DEF LinksOf
  <1>3. guardianCalls[c].carers \subseteq Carers
    BY <1>1, GuardianTypes, GuardianCallFields
  <1>4. RoleFollowsLinks' /\ CallsReadTrue' /\ guardianCalls' \in [GuardianCalls -> GuardianRecord]
    BY <1>1, <1>2, <1>3, GuardianCallLeaves DEF GuardiansInv, RoleFollowsLinks
  <1>5. GuardiansTypeOK'
    BY <1>1 DEF GuardiansInv, GuardiansTypeOK, unswept
  <1>6. QED
    BY <1>1, <1>4, <1>5, SweepRests, GuardianTypes DEF GuardiansInv

\* Corrections by the board, and the day.
LEMMA CorrectionsKeep ==
  ASSUME GuardiansInv,
         \/ \E k \in Carers, w \in Wards, end \in GuardianDays \cup {Open} : PatchesLink(k, w, end)
         \/ \E w \in Wards, day \in GuardianDays : CorrectsBirthDate(w, day)
         \/ \E w \in Wards : WardLeaves(w)
         \/ GuardianDayPasses
  PROVE  GuardiansInv' /\ SweepOnlyShortens
  <1>1. UNCHANGED <<carerRole, guardianCalls, linkings, crossed, unswept>>
    BY DEF PatchesLink, CorrectsBirthDate, WardLeaves, GuardianDayPasses
  <1>2. links' \in [Pairs -> (1..LastAge) \cup {0, Open, Unlinked}] /\ LinksStay
    <2>1. ASSUME NEW k \in Carers, NEW w \in Wards, NEW end \in GuardianDays \cup {Open}, PatchesLink(k, w, end)
          PROVE  links' \in [Pairs -> (1..LastAge) \cup {0, Open, Unlinked}] /\ LinksStay
      <3>1. links' = [links EXCEPT ![<<k, w>>] = end] /\ links[<<k, w>>] # Unlinked
        BY <2>1 DEF PatchesLink
      <3>2. end # Unlinked /\ end \in (1..LastAge) \cup {Open}
        BY GuardianTypes DEF GuardianDays
      <3>3. QED
        BY <3>1, <3>2, GuardianTypes DEF Pairs, LinksStay
    <2>2. CASE UNCHANGED links
      BY <2>2, GuardianTypes DEF LinksStay
    <2>3. QED
      BY <2>1, <2>2 DEF CorrectsBirthDate, WardLeaves, GuardianDayPasses
  <1>3. corrections' \in 0..MaxCorrections
    <2>1. corrections' = corrections \/ (corrections < MaxCorrections /\ corrections' = corrections + 1)
      BY DEF PatchesLink, CorrectsBirthDate, WardLeaves, GuardianDayPasses
    <2>2. QED
      BY <2>1, GuardianTypes
  <1>4. guardianDay' \in 1..LastAge /\ guardianDay' >= guardianDay
    <2>1. guardianDay' = guardianDay \/ (guardianDay < LastAge /\ guardianDay' = guardianDay + 1)
      BY DEF PatchesLink, CorrectsBirthDate, WardLeaves, GuardianDayPasses
    <2>2. QED
      BY <2>1, GuardianTypes
  <1>5. majority' \in [Wards -> 1..LastAge] /\ wardGone' \subseteq Wards
    BY GuardianTypes DEF PatchesLink, CorrectsBirthDate, WardLeaves, GuardianDayPasses, GuardianDays
  <1>6. GuardiansTypeOK'
    BY <1>1, <1>2, <1>3, <1>4, <1>5 DEF GuardiansInv, GuardiansTypeOK, unswept, GuardianDays
  <1>7. QED
    BY <1>1, <1>2, <1>4, <1>6, RolesRest, SweepRests DEF GuardiansInv

-----------------------------------------------------------------------------
\* The sweep.
LEMMA ReadsAdultsKeeps ==
  ASSUME GuardiansInv, ReadsAdults \/ SweepDies \/ \E w \in Wards, m \in GuardianDays : Announces(w, m)
  PROVE  GuardiansInv' /\ SweepOnlyShortens
  <1>1. UNCHANGED <<guardianDay, majority, wardGone, links, carerRole, guardianCalls, adultJobs, corrections, linkings,
                    linkEnded, crossed>>
    BY DEF ReadsAdults, SweepDies, Announces
  <1>2. sweepDue' \subseteq Wards \X GuardianDays /\ \A t \in sweepDue' : t[2] <= guardianDay
    <2>1. CASE ReadsAdults
      <3>1. \A t \in sweepDue' : \E v \in Wards : t = <<v, majority[v]>> /\ majority[v] <= guardianDay
        BY <2>1 DEF ReadsAdults
      <3>2. QED
        BY <3>1, GuardianTypes DEF GuardianDays
    <2>2. CASE sweepDue' \subseteq sweepDue
      BY <2>2, GuardianTypes DEF GuardiansInv, SweepReadsTheDay
    <2>3. QED
      BY <2>1, <2>2 DEF SweepDies, Announces
  <1>3. adultTold' \subseteq adultTold \cup adultJobs
    BY DEF ReadsAdults, SweepDies, Announces
  <1>4. SweepReadsTheDay' /\ adultTold' \subseteq Wards \X GuardianDays
    BY <1>1, <1>2, <1>3, GuardianTypes DEF GuardiansInv, SweepReadsTheDay
  <1>5. GuardiansTypeOK'
    BY <1>1, <1>2, <1>4 DEF GuardiansInv, GuardiansTypeOK
  <1>6. SweepOnlyShortens
    BY <1>1 DEF SweepOnlyShortens
  <1>7. LinksStay
    BY <1>1 DEF LinksStay
  <1>8. QED
    BY <1>1, <1>4, <1>5, <1>6, <1>7, RolesRest DEF GuardiansInv

LEMMA EndsLinksKeeps ==
  ASSUME GuardiansInv, NEW w \in Wards, NEW m \in GuardianDays, EndsLinks(w, m)
  PROVE  GuardiansInv' /\ SweepOnlyShortens
  <1>1. PICK cut : cut = {k \in Carers : OpenAt(m, links[<<k, w>>])}
    OBVIOUS
  <1>2. /\ <<w, m>> \in sweepDue /\ sweepDue' = sweepDue \ {<<w, m>>}
        /\ links' = [p \in Pairs |-> IF p[1] \in cut /\ p[2] = w THEN m - 1 ELSE links[p]]
        /\ adultJobs' = IF cut # {} THEN adultJobs \cup {<<w, m>>} ELSE adultJobs
        /\ linkEnded' = IF cut # {} THEN linkEnded \cup {<<w, m>>} ELSE linkEnded
        /\ UNCHANGED <<guardianDay, majority, wardGone, carerRole, guardianCalls, adultTold, corrections, linkings, crossed>>
    BY <1>1 DEF EndsLinks, SomeLinkEnds
  <1>3. m \in 1..LastAge /\ m - 1 \in 0..LastAge /\ m - 1 # Unlinked /\ m <= guardianDay
    BY <1>2, GuardianTypes DEF GuardianDays, GuardiansInv, SweepReadsTheDay
  <1>4. /\ links' \in [Pairs -> (1..LastAge) \cup {0, Open, Unlinked}]
        /\ \A k \in Carers, v \in Wards : links'[<<k, v>>] = IF k \in cut /\ v = w THEN m - 1 ELSE links[<<k, v>>]
    BY <1>2, <1>3, GuardianTypes DEF Pairs
  <1>5. \A k \in cut : links[<<k, w>>] # Unlinked
    BY <1>1, GuardianTypes DEF OpenAt
  <1>6. LinksStay
    BY <1>3, <1>4, <1>5 DEF LinksStay
  <1>7. SweepReadsTheDay'
    BY <1>2, <1>3 DEF GuardiansInv, SweepReadsTheDay
  <1>8. GuardiansTypeOK'
    <2>1. <<w, m>> \in Wards \X GuardianDays
      OBVIOUS
    <2>2. sweepDue' \subseteq Wards \X GuardianDays /\ adultJobs' \subseteq Wards \X GuardianDays
          /\ linkEnded' \subseteq Wards \X GuardianDays
      BY <1>2, <2>1, GuardianTypes
    <2>3. QED
      BY <1>2, <1>4, <2>2 DEF GuardiansInv, GuardiansTypeOK, GuardianDays
  <1>9. SweepOnlyShortens
    <2>1. ASSUME NEW p \in Pairs, links'[p] # links[p]
          PROVE  OpenAt(links'[p] + 1, links[p])
      <3>1. links'[p] = m - 1 /\ p[1] \in cut /\ p[2] = w
        BY <1>2, <2>1
      <3>2. p = <<p[1], w>>
        BY <3>1 DEF Pairs
      <3>3. OpenAt(m, links[p])
        BY <1>1, <3>1, <3>2
      <3>4. links'[p] + 1 = m
        BY <1>3, <3>1
      <3>5. QED
        BY <3>3, <3>4
    <2>2. QED
      BY <2>1 DEF SweepOnlyShortens
  <1>10. QED
    BY <1>2, <1>6, <1>7, <1>8, <1>9, RolesRest DEF GuardiansInv

LEMMA GuardiansStart ==
  ASSUME GuardiansInit
  PROVE  GuardiansInv
  <1>1. guardianCalls \in [GuardianCalls -> GuardianRecord] /\ \A c \in GuardianCalls : guardianCalls[c] = NoGuardianCall
    BY NoGuardianCallIs DEF GuardiansInit
  <1>2. CallsReadTrue
    BY <1>1 DEF CallsReadTrue, Names
  <1>3. RoleFollowsLinks
    BY DEF GuardiansInit, RoleFollowsLinks, LinksOf, Pairs
  <1>4. SweepReadsTheDay
    BY DEF GuardiansInit, SweepReadsTheDay
  <1>5. GuardiansTypeOK
    BY GuardiansAssumption DEF GuardiansInit, GuardiansTypeOK, GuardianDays
  <1>6. QED
    BY <1>1, <1>2, <1>3, <1>4, <1>5 DEF GuardiansInv

LEMMA GuardiansStep ==
  ASSUME GuardiansInv, [GuardiansNext]_guardianVars
  PROVE  GuardiansInv' /\ SweepOnlyShortens
  <1>1. CASE GuardiansNext
    BY <1>1, LinksKeeps, UnlinksKeeps, GuardianCallFailsKeeps, AsksToLinkKeeps, AsksToUnlinkKeeps, CorrectionsKeep,
       ReadsAdultsKeeps, EndsLinksKeeps DEF GuardiansNext
  <1>2. CASE UNCHANGED guardianVars
    <2>1. /\ UNCHANGED <<guardianDay, majority, wardGone, links, carerRole, guardianCalls, corrections, linkings, crossed>>
          /\ UNCHANGED unswept
      BY <1>2 DEF guardianVars, unswept
    <2>2. LinksStay
      BY <2>1 DEF LinksStay
    <2>3. GuardiansTypeOK'
      BY <2>1 DEF GuardiansInv, GuardiansTypeOK, unswept
    <2>4. QED
      BY <2>1, <2>2, <2>3, RolesRest, SweepRests, GuardianTypes DEF GuardiansInv
  <1>3. QED
    BY <1>1, <1>2

\* Of all carers who have one call at a time, exactly those with a link hold the role of
\* a guardian; a person is told of being an adult only when a link ended with it and the
\* day has come; the sweep only shortens links: for any carers, wards, days and calls
\* (routes/club-members.ts, lib/majority.ts).
THEOREM GuardiansAreSound == GuardiansSpec => GuardiansPromise
  <1>1. GuardiansInit => GuardiansInv
    BY GuardiansStart
  <1>2. GuardiansInv /\ [GuardiansNext]_guardianVars => GuardiansInv'
    BY GuardiansStep
  <1>3. GuardiansInv /\ [GuardiansNext]_guardianVars => [SweepOnlyShortens]_guardianVars
    BY GuardiansStep
  <1>4. GuardiansInv => GuardiansTypeOK /\ RoleFollowsLinks /\ ToldWhenEnded
    BY DEF GuardiansInv, SweepReadsTheDay, ToldWhenEnded
  <1>5. QED
    BY <1>1, <1>2, <1>3, <1>4, PTL DEF GuardiansSpec, GuardiansPromise

-----------------------------------------------------------------------------
(***************************************************************************)
(* Custom fields.  A value that was checked waits for its write with the    *)
(* definition held in share mode, so the check is still true of it          *)
(* (CheckedFits), and the one creation under way has counted room           *)
(* (CountedFits).                                                           *)
(***************************************************************************)
FieldDef == [is : {"none", "active", "archived"}, type : {"text", "select"}, options : SUBSET FieldOptions,
             sensitive : BOOLEAN]
Entry == [text : Texts \cup {"none"}, secret : BOOLEAN]
WriteCall == [op: {"write"}, at: {"asked", "checked"}, field: Fields, text: Texts \cup {"none"}, mode: Modes]
CreateCall == [op: {"create"}, at: {"counted"}, field: Fields, def: Definitions]
FieldRecord == WriteCall \cup CreateCall \cup {NoFieldCall}

CheckedFits ==
  \A c \in FieldCalls : fieldCalls[c].at = "checked" =>
    LET def == fields[fieldCalls[c].field]
    IN def.is = "active" /\ (fieldCalls[c].text = "none" \/ Fits(def, fieldCalls[c].text))

CountedFits ==
  \A c \in FieldCalls : fieldCalls[c].op = "create" =>
    Cardinality(Existing) < FieldLimit /\ \A d \in FieldCalls : fieldCalls[d].op = "create" => d = c

FieldsInv ==
  /\ FieldsTypeOK /\ fieldCalls \in [FieldCalls -> FieldRecord] /\ IsFiniteSet(Existing)
  /\ ValuesFit /\ SecretsStaySecret /\ FieldsWithinLimit /\ GuardiansAreLinked
  /\ CheckedFits /\ CountedFits

LEMMA FieldTypes ==
  ASSUME FieldsInv
  PROVE  /\ fields \in [Fields -> FieldDef] /\ entries \in [Fields -> Entry] /\ guarding \in BOOLEAN
         /\ fieldEdits \in 0..MaxFieldEdits /\ entryCount \in 0..MaxEntries
         /\ FieldLimit \in Nat /\ MaxFieldEdits \in Nat /\ MaxEntries \in Nat
         /\ fieldCalls \in [FieldCalls -> FieldRecord] /\ IsFiniteSet(Existing) /\ Cardinality(Existing) \in Nat
  BY FieldsAssumption, FS_CardinalityType DEF FieldsInv, FieldsTypeOK, FieldDef, Entry

LEMMA FieldCallFields ==
  ASSUME NEW call \in FieldRecord
  PROVE  /\ call.op \in {"none", "write", "create"}
         /\ call.op = "write" => call \in WriteCall
         /\ call.op = "create" => call \in CreateCall /\ call.at # "checked"
         /\ call.at = "checked" => call \in WriteCall /\ call.op = "write"
  BY DEF FieldRecord, WriteCall, CreateCall, NoFieldCall

LEMMA FieldCallSet ==
  ASSUME fieldCalls \in [FieldCalls -> FieldRecord], NEW c \in FieldCalls, NEW call \in FieldRecord, FieldCall(c, call)
  PROVE  /\ fieldCalls' \in [FieldCalls -> FieldRecord] /\ fieldCalls'[c] = call
         /\ \A d \in FieldCalls : d # c => fieldCalls'[d] = fieldCalls[d]
         /\ \A d \in FieldCalls : fieldCalls'[d].op \in {"none", "write", "create"}
  BY FieldCallFields DEF FieldCall

LEMMA NoFieldCallIs ==
  NoFieldCall \in FieldRecord /\ NoFieldCall.op = "none" /\ NoFieldCall.at = "none"
  BY DEF NoFieldCall, FieldRecord

LEMMA DefinitionsAre ==
  ASSUME NEW def \in Definitions
  PROVE  def \in FieldDef /\ def.is = "active"
  BY DEF Definitions, FieldDef

\* What is secret is a value.
LEMMA SecretsAreValues ==
  ASSUME FieldsInv, NEW f \in Fields, entries[f].secret
  PROVE  HasValue(f)
  BY DEF HasValue, Empty

\* The calls move while the fields and their values rest.
LEMMA FieldCallMoves ==
  ASSUME FieldsInv, NEW c \in FieldCalls, NEW call \in FieldRecord, FieldCall(c, call), UNCHANGED <<fields, entries, guarding>>,
         fieldEdits' \in 0..MaxFieldEdits, entryCount' \in 0..MaxEntries,
         call.at = "checked" =>
           LET def == fields[call.field]
           IN /\ def.is = "active" /\ (call.text = "none" \/ Fits(def, call.text))
              /\ call.mode = "guardian" => guarding,
         call.op = "create" => CreationsFree /\ Cardinality(Existing) < FieldLimit
  PROVE  FieldsInv' /\ ArchivedValuesRest
  <1>1. /\ fieldCalls' \in [FieldCalls -> FieldRecord] /\ fieldCalls'[c] = call
        /\ \A d \in FieldCalls : d # c => fieldCalls'[d] = fieldCalls[d]
        /\ \A d \in FieldCalls : fieldCalls'[d].op \in {"none", "write", "create"}
    BY FieldTypes, FieldCallSet
  <1>2. FieldsTypeOK'
    BY <1>1 DEF FieldsInv, FieldsTypeOK
  <1>3. ValuesFit' /\ SecretsStaySecret' /\ FieldsWithinLimit' /\ IsFiniteSet(Existing') /\ Existing' = Existing
    BY DEF FieldsInv, ValuesFit, HasValue, SecretsStaySecret, FieldsWithinLimit, Existing
  <1>4. GuardiansAreLinked'
    BY <1>1 DEF FieldsInv, GuardiansAreLinked
  <1>5. CheckedFits'
    BY <1>1 DEF FieldsInv, CheckedFits
  <1>6. CountedFits'
    BY <1>1, <1>3 DEF FieldsInv, CountedFits, CreationsFree
  <1>7. QED
    BY <1>1, <1>2, <1>3, <1>4, <1>5, <1>6 DEF FieldsInv, ArchivedValuesRest

\* A definition moves while no value waits for it: the calls and values rest.
LEMMA DefinitionMoves ==
  ASSUME FieldsInv, NEW f \in Fields, NEW def \in FieldDef, fields' = [fields EXCEPT ![f] = def],
         UNCHANGED <<entries, fieldCalls, guarding, entryCount>>, FieldFree(f), Edits, fields[f].is # "none",
         HasValue(f) => def.is # "none" /\ Fits(def, entries[f].text) /\ (fields[f].sensitive => def.sensitive)
  PROVE  FieldsInv' /\ ArchivedValuesRest
  <1>1. fields' \in [Fields -> FieldDef] /\ fields'[f] = def /\ \A g \in Fields : g # f => fields'[g] = fields[g]
    BY FieldTypes
  <1>2. fieldEdits' \in 0..MaxFieldEdits
    BY FieldTypes DEF Edits
  <1>3. FieldsTypeOK'
    BY <1>1, <1>2 DEF FieldsInv, FieldsTypeOK, FieldDef
  <1>4. Existing' \subseteq Existing
    BY <1>1 DEF Existing
  <1>5. IsFiniteSet(Existing') /\ Cardinality(Existing') <= Cardinality(Existing) /\ Cardinality(Existing') \in Nat
    BY <1>4, FieldTypes, FS_Subset, FS_CardinalityType
  <1>6. FieldsWithinLimit'
    BY <1>5, FieldTypes DEF FieldsInv, FieldsWithinLimit
  <1>7. CountedFits'
    BY <1>5, FieldTypes DEF FieldsInv, CountedFits
  <1>8. ValuesFit'
    BY <1>1 DEF FieldsInv, ValuesFit, HasValue
  <1>9. SecretsStaySecret'
    <2>1. ASSUME NEW g \in Fields, entries[g].secret
          PROVE  fields'[g].sensitive
      BY <1>1, <2>1, SecretsAreValues DEF FieldsInv, SecretsStaySecret
    <2>2. QED
      BY <2>1 DEF SecretsStaySecret
  <1>10. CheckedFits'
    <2>1. ASSUME NEW c \in FieldCalls, fieldCalls[c].at = "checked"
          PROVE  fields'[fieldCalls[c].field] = fields[fieldCalls[c].field]
      <3>1. fieldCalls[c] \in WriteCall
        BY <2>1, FieldTypes, FieldCallFields
      <3>2. fieldCalls[c].field \in Fields /\ fieldCalls[c].field # f
        BY <2>1, <3>1 DEF FieldFree, WriteCall
      <3>3. QED
        BY <1>1, <3>2
    <2>2. QED
      BY <2>1 DEF FieldsInv, CheckedFits
  <1>11. GuardiansAreLinked' /\ ArchivedValuesRest
    BY DEF FieldsInv, GuardiansAreLinked, ArchivedValuesRest
  <1>12. QED
    BY <1>3, <1>5, <1>6, <1>7, <1>8, <1>9, <1>10, <1>11, FieldTypes DEF FieldsInv

LEMMA AsksToWriteKeeps ==
  ASSUME FieldsInv, NEW c \in FieldCalls, NEW f \in Fields, NEW text \in Texts \cup {"none"}, NEW mode \in Modes,
         AsksToWrite(c, f, text, mode)
  PROVE  FieldsInv' /\ ArchivedValuesRest
  <1>1. PICK call : call = [op |-> "write", at |-> "asked", field |-> f, text |-> text, mode |-> mode]
    OBVIOUS
  <1>2. call \in FieldRecord /\ call.at = "asked" /\ call.op = "write"
    BY <1>1 DEF FieldRecord, WriteCall
  <1>3. FieldCall(c, call) /\ UNCHANGED <<fields, entries, guarding, fieldEdits>>
    BY <1>1 DEF AsksToWrite
  <1>4. entryCount' \in 0..MaxEntries /\ fieldEdits' \in 0..MaxFieldEdits
    BY FieldTypes DEF AsksToWrite
  <1>5. QED
    BY <1>2, <1>3, <1>4, FieldCallMoves

LEMMA ChecksValueKeeps ==
  ASSUME FieldsInv, NEW c \in FieldCalls, ChecksValue(c)
  PROVE  FieldsInv' /\ ArchivedValuesRest
  <1>1. PICK call : call = fieldCalls[c]
    OBVIOUS
  <1>2. call \in WriteCall
    BY <1>1, FieldTypes, FieldCallFields DEF ChecksValue
  <1>3. UNCHANGED <<fields, entries, guarding, fieldEdits, entryCount>>
    BY DEF ChecksValue
  <1>4. fieldEdits' \in 0..MaxFieldEdits /\ entryCount' \in 0..MaxEntries
    BY <1>3, FieldTypes
  <1>5. PICK checked : checked = [call EXCEPT !.at = "checked"]
    OBVIOUS
  <1>6. /\ checked \in WriteCall /\ checked.op = "write" /\ checked.field = call.field
        /\ checked.text = call.text /\ checked.mode = call.mode
    BY <1>2, <1>5 DEF WriteCall
  <1>7. checked \in FieldRecord
    BY <1>6 DEF FieldRecord
  <1>8. CASE /\ call.mode = "guardian" => guarding
             /\ fields[call.field].is = "active" /\ MayWrite(fields[call.field], call.mode)
             /\ call.text = "none" \/ Fits(fields[call.field], call.text)
    <2>1. FieldCall(c, checked)
      BY <1>1, <1>5, <1>8 DEF ChecksValue
    <2>2. QED
      BY <1>3, <1>4, <1>6, <1>7, <1>8, <2>1, FieldCallMoves
  <1>9. CASE ~(/\ call.mode = "guardian" => guarding
               /\ fields[call.field].is = "active" /\ MayWrite(fields[call.field], call.mode)
               /\ call.text = "none" \/ Fits(fields[call.field], call.text))
    <2>1. FieldCall(c, NoFieldCall)
      BY <1>1, <1>9 DEF ChecksValue
    <2>2. QED
      BY <1>3, <1>4, <2>1, NoFieldCallIs, FieldCallMoves
  <1>10. QED
    BY <1>8, <1>9

LEMMA WritesValueKeeps ==
  ASSUME FieldsInv, NEW c \in FieldCalls, WritesValue(c)
  PROVE  FieldsInv' /\ ArchivedValuesRest
  <1>1. PICK call : call = fieldCalls[c]
    OBVIOUS
  <1>2. call \in WriteCall /\ call.at = "checked"
    BY <1>1, FieldTypes, FieldCallFields DEF WritesValue
  <1>3. PICK f \in Fields : f = call.field
    BY <1>2 DEF WriteCall
  <1>4. fields[f].is = "active" /\ (call.text = "none" \/ Fits(fields[f], call.text))
    BY <1>1, <1>2, <1>3 DEF FieldsInv, CheckedFits
  <1>5. PICK new : new = IF call.text = "none" THEN Empty ELSE [text |-> call.text, secret |-> fields[f].sensitive]
    OBVIOUS
  <1>6. /\ new \in Entry /\ (new.secret => fields[f].sensitive)
        /\ new # Empty => Fits(fields[f], new.text)
    <2>1. call.text \in Texts \cup {"none"} /\ fields[f].sensitive \in BOOLEAN
      BY <1>2, FieldTypes DEF WriteCall, FieldDef
    <2>2. QED
      BY <1>4, <1>5, <2>1 DEF Entry, Empty
  <1>7. entries' = [entries EXCEPT ![f] = new] /\ UNCHANGED <<fields, guarding, fieldEdits, entryCount>> /\ FieldCall(c, NoFieldCall)
    BY <1>1, <1>3, <1>5 DEF WritesValue
  <1>8. entries' \in [Fields -> Entry] /\ entries'[f] = new /\ \A g \in Fields : g # f => entries'[g] = entries[g]
    BY <1>6, <1>7, FieldTypes
  <1>9. /\ fieldCalls' \in [FieldCalls -> FieldRecord] /\ fieldCalls'[c] = NoFieldCall
        /\ \A d \in FieldCalls : d # c => fieldCalls'[d] = fieldCalls[d]
        /\ \A d \in FieldCalls : fieldCalls'[d].op \in {"none", "write", "create"}
    BY <1>7, NoFieldCallIs, FieldTypes, FieldCallSet
  <1>10. FieldsTypeOK'
    BY <1>7, <1>8, <1>9 DEF FieldsInv, FieldsTypeOK, Entry
  <1>11. ValuesFit' /\ SecretsStaySecret'
    BY <1>4, <1>6, <1>7, <1>8 DEF FieldsInv, ValuesFit, HasValue, SecretsStaySecret
  <1>12. Existing' = Existing
    BY <1>7 DEF Existing
  <1>13. FieldsWithinLimit' /\ IsFiniteSet(Existing')
    BY <1>12 DEF FieldsInv, FieldsWithinLimit
  <1>14. GuardiansAreLinked' /\ CheckedFits'
    BY <1>7, <1>9, NoFieldCallIs DEF FieldsInv, GuardiansAreLinked, CheckedFits
  <1>15. CountedFits'
    BY <1>9, <1>12, NoFieldCallIs DEF FieldsInv, CountedFits
  <1>16. ArchivedValuesRest
    BY <1>4, <1>8 DEF ArchivedValuesRest
  <1>17. QED
    BY <1>9, <1>10, <1>11, <1>13, <1>14, <1>15, <1>16 DEF FieldsInv

LEMMA EndsGuardingKeeps ==
  ASSUME FieldsInv, EndsGuarding
  PROVE  FieldsInv' /\ ArchivedValuesRest
  <1>1. /\ guarding' = FALSE /\ UNCHANGED <<fields, entries, fieldCalls, fieldEdits, entryCount>>
        /\ \A c \in FieldCalls : fieldCalls[c].at = "checked" => fieldCalls[c].mode # "guardian"
    BY DEF EndsGuarding
  <1>2. FieldsTypeOK'
    BY <1>1 DEF FieldsInv, FieldsTypeOK
  <1>3. ValuesFit' /\ SecretsStaySecret' /\ Existing' = Existing
    BY <1>1 DEF FieldsInv, ValuesFit, HasValue, SecretsStaySecret, Existing
  <1>4. FieldsWithinLimit' /\ GuardiansAreLinked' /\ CheckedFits' /\ CountedFits' /\ IsFiniteSet(Existing')
    BY <1>1, <1>3 DEF FieldsInv, FieldsWithinLimit, GuardiansAreLinked, CheckedFits, CountedFits
  <1>5. QED
    BY <1>1, <1>2, <1>3, <1>4 DEF FieldsInv, ArchivedValuesRest

LEMMA ChangesFieldKeeps ==
  ASSUME FieldsInv, NEW f \in Fields, NEW def \in Definitions, ChangesField(f, def)
  PROVE  FieldsInv' /\ ArchivedValuesRest
  <1>1. def \in FieldDef /\ def.is = "active"
    BY DefinitionsAre
  <1>2. /\ FieldFree(f) /\ Edits /\ fields[f].is # "none" /\ fields' = [fields EXCEPT ![f] = def] /\ Allows(f, def)
        /\ UNCHANGED <<entries, fieldCalls, guarding, entryCount>>
    BY DEF ChangesField
  <1>3. HasValue(f) => Fits(def, entries[f].text) /\ (fields[f].sensitive => def.sensitive)
    BY <1>2 DEF Allows, Fits, FieldsInv, ValuesFit
  <1>4. QED
    BY <1>1, <1>2, <1>3, DefinitionMoves

LEMMA RemovesFieldKeeps ==
  ASSUME FieldsInv, NEW f \in Fields, NEW how, RemovesField(f, how)
  PROVE  FieldsInv' /\ ArchivedValuesRest
  <1>1. PICK old \in FieldDef : old = fields[f]
    BY FieldTypes
  <1>2. PICK shut : shut = [old EXCEPT !.is = "archived"]
    OBVIOUS
  <1>3. /\ shut \in FieldDef /\ shut.is = "archived" /\ shut.type = old.type /\ shut.options = old.options
        /\ shut.sensitive = old.sensitive
    BY <1>1, <1>2 DEF FieldDef
  <1>4. PICK def : def = IF how = "deactivate" \/ HasValue(f) THEN shut ELSE NoField
    OBVIOUS
  <1>5. NoField \in FieldDef
    BY DEF NoField, FieldDef
  <1>6. /\ fields' = [fields EXCEPT ![f] = def] /\ FieldFree(f) /\ Edits /\ fields[f].is # "none"
        /\ UNCHANGED <<entries, fieldCalls, guarding, entryCount>>
    BY <1>1, <1>2, <1>4, FieldTypes DEF RemovesField
  <1>7. HasValue(f) => def.is # "none" /\ Fits(def, entries[f].text) /\ (fields[f].sensitive => def.sensitive)
    BY <1>1, <1>3, <1>4 DEF Fits, FieldsInv, ValuesFit
  <1>8. def \in FieldDef
    BY <1>3, <1>4, <1>5
  <1>9. QED
    BY <1>6, <1>7, <1>8, DefinitionMoves

LEMMA RestoresFieldKeeps ==
  ASSUME FieldsInv, NEW f \in Fields, RestoresField(f)
  PROVE  FieldsInv' /\ ArchivedValuesRest
  <1>1. PICK old \in FieldDef : old = fields[f]
    BY FieldTypes
  <1>2. PICK def : def = [old EXCEPT !.is = "active"]
    OBVIOUS
  <1>3. /\ def \in FieldDef /\ def.is = "active" /\ def.type = old.type /\ def.options = old.options
        /\ def.sensitive = old.sensitive
    BY <1>1, <1>2 DEF FieldDef
  <1>4. /\ fields' = [fields EXCEPT ![f] = def] /\ FieldFree(f) /\ Edits /\ fields[f].is # "none"
        /\ UNCHANGED <<entries, fieldCalls, guarding, entryCount>>
    BY <1>1, <1>2, FieldTypes DEF RestoresField
  <1>5. HasValue(f) => Fits(def, entries[f].text) /\ (fields[f].sensitive => def.sensitive)
    BY <1>1, <1>3 DEF Fits, FieldsInv, ValuesFit
  <1>6. QED
    BY <1>3, <1>4, <1>5, DefinitionMoves

LEMMA CountsFieldsKeeps ==
  ASSUME FieldsInv, NEW c \in FieldCalls, NEW f \in Fields, NEW def \in Definitions, CountsFields(c, f, def)
  PROVE  FieldsInv' /\ ArchivedValuesRest
  <1>1. PICK call : call = [op |-> "create", at |-> "counted", field |-> f, def |-> def]
    OBVIOUS
  <1>2. call \in FieldRecord /\ call.at = "counted"
    BY <1>1 DEF FieldRecord, CreateCall
  <1>3. /\ FieldCall(c, call) /\ CreationsFree /\ Cardinality(Existing) < FieldLimit
        /\ UNCHANGED <<fields, entries, guarding, entryCount>>
    BY <1>1 DEF CountsFields
  <1>4. fieldEdits' \in 0..MaxFieldEdits /\ entryCount' \in 0..MaxEntries
    BY FieldTypes DEF CountsFields, Edits
  <1>5. QED
    BY <1>2, <1>3, <1>4, FieldCallMoves

LEMMA CreatesFieldKeeps ==
  ASSUME FieldsInv, NEW c \in FieldCalls, CreatesField(c)
  PROVE  FieldsInv' /\ ArchivedValuesRest
  <1>1. PICK call : call = fieldCalls[c]
    OBVIOUS
  <1>2. call \in CreateCall /\ call.op = "create"
    BY <1>1, FieldTypes, FieldCallFields DEF CreatesField
  <1>3. PICK f \in Fields, def \in Definitions : f = call.field /\ def = call.def
    BY <1>2 DEF CreateCall
  <1>4. def \in FieldDef /\ def.is = "active"
    BY DefinitionsAre
  <1>5. /\ FieldCall(c, NoFieldCall) /\ UNCHANGED <<entries, guarding, fieldEdits, entryCount>>
        /\ fields' = IF f \in Existing THEN fields ELSE [fields EXCEPT ![f] = def]
    BY <1>1, <1>3 DEF CreatesField
  <1>6. CASE f \in Existing
    <2>1. fieldEdits' \in 0..MaxFieldEdits /\ entryCount' \in 0..MaxEntries
      BY <1>5, FieldTypes
    <2>2. QED
      BY <1>5, <1>6, <2>1, NoFieldCallIs, FieldCallMoves
  <1>7. CASE f \notin Existing
    <2>1. /\ fieldCalls' \in [FieldCalls -> FieldRecord] /\ fieldCalls'[c] = NoFieldCall
          /\ \A d \in FieldCalls : d # c => fieldCalls'[d] = fieldCalls[d]
          /\ \A d \in FieldCalls : fieldCalls'[d].op \in {"none", "write", "create"}
      BY <1>5, NoFieldCallIs, FieldTypes, FieldCallSet
    <2>2. fields' \in [Fields -> FieldDef] /\ fields'[f] = def /\ \A g \in Fields : g # f => fields'[g] = fields[g]
      BY <1>4, <1>5, <1>7, FieldTypes
    <2>3. ~HasValue(f) /\ ~entries[f].secret
      BY <1>7, SecretsAreValues DEF Existing, FieldsInv, ValuesFit
    <2>4. FieldsTypeOK'
      BY <1>5, <2>1, <2>2 DEF FieldsInv, FieldsTypeOK, FieldDef
    <2>5. ValuesFit'
      BY <1>5, <2>2, <2>3 DEF FieldsInv, ValuesFit, HasValue
    <2>6. SecretsStaySecret'
      BY <1>5, <2>2, <2>3 DEF FieldsInv, SecretsStaySecret
    <2>7. Existing' = Existing \cup {f}
      BY <1>4, <2>2 DEF Existing
    <2>8. Cardinality(Existing) < FieldLimit /\ \A d \in FieldCalls : fieldCalls[d].op = "create" => d = c
      BY <1>1, <1>2 DEF FieldsInv, CountedFits
    <2>9. IsFiniteSet(Existing') /\ Cardinality(Existing') = Cardinality(Existing) + 1
      BY <1>7, <2>7, FieldTypes, FS_AddElement
    <2>10. FieldsWithinLimit'
      BY <2>8, <2>9, FieldTypes DEF FieldsWithinLimit
    <2>11. CountedFits'
      BY <2>1, <2>8, NoFieldCallIs DEF CountedFits
    <2>12. GuardiansAreLinked'
      BY <1>5, <2>1, NoFieldCallIs DEF FieldsInv, GuardiansAreLinked
    <2>13. CheckedFits'
      <3>1. ASSUME NEW d \in FieldCalls, fieldCalls'[d].at = "checked"
            PROVE  /\ fieldCalls'[d] = fieldCalls[d] /\ fieldCalls[d].at = "checked"
                   /\ fields'[fieldCalls[d].field] = fields[fieldCalls[d].field]
        <4>1. fieldCalls'[d] = fieldCalls[d] /\ fieldCalls[d].at = "checked"
          BY <2>1, <3>1, NoFieldCallIs
        <4>2. fieldCalls[d] \in WriteCall
          BY <4>1, FieldTypes, FieldCallFields
        <4>3. fields[fieldCalls[d].field].is = "active" /\ fieldCalls[d].field \in Fields
          BY <4>1, <4>2 DEF FieldsInv, CheckedFits, WriteCall
        <4>4. fieldCalls[d].field # f
          BY <1>7, <4>3 DEF Existing
        <4>5. QED
          BY <2>2, <4>1, <4>3, <4>4
      <3>2. QED
        BY <3>1 DEF FieldsInv, CheckedFits
    <2>14. ArchivedValuesRest
      BY <1>5 DEF ArchivedValuesRest
    <2>15. QED
      BY <2>1, <2>4, <2>5, <2>6, <2>9, <2>10, <2>11, <2>12, <2>13, <2>14 DEF FieldsInv
  <1>8. QED
    BY <1>6, <1>7

LEMMA FieldsStart ==
  ASSUME FieldsInit
  PROVE  FieldsInv
  <1>1. fieldCalls \in [FieldCalls -> FieldRecord] /\ \A c \in FieldCalls : fieldCalls[c] = NoFieldCall
    BY NoFieldCallIs DEF FieldsInit
  <1>2. NoField \in FieldDef /\ NoField.is = "none" /\ Empty \in Entry /\ ~Empty.secret
    BY DEF NoField, FieldDef, Empty, Entry
  <1>3. fields \in [Fields -> FieldDef] /\ entries \in [Fields -> Entry]
    BY <1>2 DEF FieldsInit
  <1>4. FieldsTypeOK
    BY <1>1, <1>3, NoFieldCallIs, FieldsAssumption DEF FieldsInit, FieldsTypeOK, FieldDef, Entry
  <1>5. Existing = {}
    BY <1>2 DEF FieldsInit, Existing
  <1>6. FieldsWithinLimit /\ IsFiniteSet(Existing)
    BY <1>5, FS_EmptySet, FieldsAssumption DEF FieldsWithinLimit
  <1>7. ValuesFit /\ SecretsStaySecret
    BY <1>2 DEF FieldsInit, ValuesFit, HasValue, SecretsStaySecret
  <1>8. GuardiansAreLinked /\ CheckedFits /\ CountedFits
    BY <1>1, NoFieldCallIs DEF GuardiansAreLinked, CheckedFits, CountedFits
  <1>9. QED
    BY <1>1, <1>4, <1>6, <1>7, <1>8 DEF FieldsInv

LEMMA FieldsStutter ==
  ASSUME FieldsInv, UNCHANGED fieldVars
  PROVE  FieldsInv'
  <1>1. UNCHANGED <<fields, entries, fieldCalls, guarding, fieldEdits, entryCount>>
    BY DEF fieldVars
  <1>2. FieldsTypeOK' /\ fieldCalls' \in [FieldCalls -> FieldRecord] /\ Existing' = Existing
    BY <1>1 DEF FieldsInv, FieldsTypeOK, Existing
  <1>3. ValuesFit' /\ SecretsStaySecret' /\ FieldsWithinLimit'
    BY <1>1, <1>2 DEF FieldsInv, ValuesFit, HasValue, SecretsStaySecret, FieldsWithinLimit
  <1>4. GuardiansAreLinked' /\ CheckedFits' /\ CountedFits'
    BY <1>1, <1>2 DEF FieldsInv, GuardiansAreLinked, CheckedFits, CountedFits
  <1>5. QED
    BY <1>2, <1>3, <1>4 DEF FieldsInv

LEMMA FieldsStep ==
  ASSUME FieldsInv, [FieldsNext]_fieldVars
  PROVE  FieldsInv' /\ [ArchivedValuesRest]_fieldVars
  <1>1. CASE FieldsNext
    BY <1>1, ChecksValueKeeps, WritesValueKeeps, CreatesFieldKeeps, AsksToWriteKeeps, CountsFieldsKeeps,
       RestoresFieldKeeps, RemovesFieldKeeps, ChangesFieldKeeps, EndsGuardingKeeps DEF FieldsNext
  <1>2. CASE UNCHANGED fieldVars
    BY <1>2, FieldsStutter
  <1>3. QED
    BY <1>1, <1>2

\* A value that is stored fits its definition whatever becomes of it, a secret stays
\* one, a club never has more fields than its limit: for any fields, options, limits
\* and concurrent calls (routes/member-fields.ts, lib/custom-fields.ts).
THEOREM FieldsAreSound == FieldsSpec => FieldsPromise
  <1>1. FieldsInit => FieldsInv
    BY FieldsStart
  <1>2. FieldsInv /\ [FieldsNext]_fieldVars => FieldsInv'
    BY FieldsStep
  <1>3. FieldsInv /\ [FieldsNext]_fieldVars => [ArchivedValuesRest]_fieldVars
    BY FieldsStep
  <1>4. FieldsInv => FieldsTypeOK /\ ValuesFit /\ SecretsStaySecret /\ FieldsWithinLimit /\ GuardiansAreLinked
    BY DEF FieldsInv
  <1>5. QED
    BY <1>1, <1>2, <1>3, <1>4, PTL DEF FieldsSpec, FieldsPromise

-----------------------------------------------------------------------------
(***************************************************************************)
(* The preferences of one person.  Behind every click on an unsubscribe     *)
(* link of a club stands a row that is off, of the account or of the record *)
(* (LinkStands), and a choice for one club names no record of another       *)
(* (NarrowChoices): a choice for all clubs leaves those rows alone, a       *)
(* choice for the club forgets the click.                                   *)
(***************************************************************************)
ChoiceCall == [value : {"on", "off", "reset"}, scope : Scopes, records : SUBSET Clubs]
PrefRecord == ChoiceCall \cup {NoPrefCall}

LinkStands ==
  \A k \in Clubs : <<k, "club">> \in unsubscribed =>
    accountRows[k] = "off" \/ recordRows[k]["club"] = "off"

NarrowChoices ==
  \A x \in PrefCalls : prefCalls[x] # NoPrefCall =>
    LET call == prefCalls[x]
    IN IF call.scope = "all" THEN call.value # "reset" ELSE call.records \subseteq {call.scope}

PreferencesInv ==
  PreferencesTypeOK /\ prefCalls \in [PrefCalls -> PrefRecord] /\ LinkStands /\ NarrowChoices

PreferencesKept == ChoiceCounts /\ ElsewhereTheSame

LEMMA PrefTypes ==
  ASSUME PreferencesInv
  PROVE  /\ linked \subseteq Clubs /\ accountRows \in [Scopes -> Switch] /\ recordRows \in [Clubs -> RecordRows]
         /\ prefCalls \in [PrefCalls -> PrefRecord]
         /\ unsubscribed \subseteq Clubs \X {"all", "club"} /\ choices \in 0..MaxChoices
         /\ MaxChoices \in Nat /\ "all" \notin Clubs
  BY PreferencesAssumption DEF PreferencesInv, PreferencesTypeOK, AccountRows

LEMMA PrefCallFields ==
  ASSUME NEW call \in PrefRecord
  PROVE  /\ call.value \in {"none", "on", "off", "reset"}
         /\ call # NoPrefCall => call \in ChoiceCall
         /\ call \in ChoiceCall => call # NoPrefCall
  BY DEF PrefRecord, ChoiceCall, NoPrefCall

\* The limit on the choices keeps their count in its type.
LEMMA ChoosesKeeps ==
  ASSUME PreferencesInv, Chooses
  PROVE  choices' \in 0..MaxChoices
  BY PrefTypes DEF Chooses

\* Who has a row that is off for the club gets no mail of it.
LEMMA OffMeansOff ==
  ASSUME PreferencesInv, NEW k \in linked, accountRows[k] = "off" \/ recordRows[k]["club"] = "off"
  PROVE  ~Enabled(k)
  BY DEF Enabled, AccountOn, RecordOn, Effective

LEMMA UnsubscribedInv ==
  ASSUME PreferencesInv
  PROVE  UnsubscribedGetNothing
  BY PrefTypes, OffMeansOff DEF PreferencesInv, LinkStands, UnsubscribedGetNothing

\* The three readers of the rows agree whatever the rows are.
LEMMA ViewsAgreeAlways == ViewsAgree
  <1>1. ASSUME NEW k \in Clubs
        PROVE  ListedAsOff(k) = ~Enabled(k) /\ (k \in linked => Shown(k) = Enabled(k))
    <2>1. AccountOn(k) \in BOOLEAN /\ RecordOn(k) \in BOOLEAN
      BY DEF AccountOn, RecordOn, Effective
    <2>2. k \in linked => Shown(k) = (AccountOn(k) /\ RecordOn(k))
      BY <2>1 DEF Shown
    <2>3. Enabled(k) = ((k \in linked => AccountOn(k)) /\ RecordOn(k))
      BY <2>1 DEF Enabled
    <2>4. ListedAsOff(k) = (~RecordOn(k) \/ (k \in linked /\ ~AccountOn(k)))
      BY <2>1 DEF ListedAsOff
    <2>5. QED
      BY <2>1, <2>2, <2>3, <2>4
  <1>2. QED
    BY <1>1 DEF ViewsAgree

\* While no choice is written there is none that could count or reach elsewhere.
LEMMA NothingIsDone ==
  ASSUME PreferencesInv, \A x \in PrefCalls : prefCalls[x] # NoPrefCall => prefCalls'[x] # NoPrefCall
  PROVE  PreferencesKept
  BY DEF PreferencesKept, ChoiceCounts, ElsewhereTheSame, Done

LEMMA PreferencesStarts ==
  ASSUME PreferencesInit
  PROVE  PreferencesInv
  <1>1. accountRows \in [Scopes -> Switch] /\ recordRows \in [Clubs -> RecordRows]
    BY DEF PreferencesInit, Switch, RecordRows
  <1>2. prefCalls \in [PrefCalls -> PrefRecord] /\ \A x \in PrefCalls : prefCalls[x] = NoPrefCall
    BY DEF PreferencesInit, PrefRecord
  <1>3. PreferencesTypeOK
    BY <1>1, <1>2, PreferencesAssumption DEF PreferencesInit, PreferencesTypeOK, AccountRows, NoPrefCall
  <1>4. LinkStands /\ NarrowChoices
    BY <1>2 DEF LinkStands, NarrowChoices, PreferencesInit
  <1>5. QED
    BY <1>2, <1>3, <1>4 DEF PreferencesInv

LEMMA AsksChoiceKeeps ==
  ASSUME PreferencesInv, NEW x \in PrefCalls, NEW scope \in Scopes, NEW v \in {"on", "off", "reset"},
         AsksChoice(x, scope, v)
  PROVE  PreferencesInv' /\ PreferencesKept
  <1>0. OwnRecords(scope) \subseteq Clubs /\ (scope # "all" => OwnRecords(scope) \subseteq {scope})
    BY PrefTypes DEF OwnRecords
  <1>1. PICK call : call = [value |-> v, scope |-> scope, records |-> OwnRecords(scope)]
    OBVIOUS
  <1>2. /\ call \in ChoiceCall /\ call \in PrefRecord /\ call # NoPrefCall
        /\ call.value = v /\ call.scope = scope /\ call.records = OwnRecords(scope)
    BY <1>0, <1>1, PrefCallFields DEF ChoiceCall, PrefRecord
  <1>3. /\ prefCalls[x] = NoPrefCall /\ Chooses /\ (scope = "all" => v # "reset")
        /\ prefCalls' = [prefCalls EXCEPT ![x] = call]
        /\ UNCHANGED <<linked, accountRows, recordRows, unsubscribed>>
    BY <1>1 DEF AsksChoice
  <1>4. /\ prefCalls' \in [PrefCalls -> PrefRecord] /\ prefCalls'[x] = call
        /\ \A y \in PrefCalls : y # x => prefCalls'[y] = prefCalls[y]
    BY <1>2, <1>3, PrefTypes
  <1>5. PreferencesTypeOK'
    BY <1>3, <1>4, PrefTypes, PrefCallFields, ChoosesKeeps DEF PreferencesTypeOK, AccountRows
  <1>6. NarrowChoices'
    BY <1>0, <1>2, <1>3, <1>4 DEF NarrowChoices, PreferencesInv
  <1>7. LinkStands'
    BY <1>3 DEF LinkStands, PreferencesInv
  <1>8. PreferencesKept
    BY <1>2, <1>4, NothingIsDone
  <1>9. QED
    BY <1>4, <1>5, <1>6, <1>7, <1>8 DEF PreferencesInv

LEMMA WritesChoiceKeeps ==
  ASSUME PreferencesInv, NEW x \in PrefCalls, WritesChoice(x)
  PROVE  PreferencesInv' /\ PreferencesKept
  <1>1. PICK call : call = prefCalls[x]
    OBVIOUS
  <1>2. /\ call \in ChoiceCall /\ call # NoPrefCall /\ call.value \in {"on", "off", "reset"}
        /\ call.scope \in Scopes /\ call.records \subseteq Clubs
    BY <1>1, PrefTypes, PrefCallFields DEF WritesChoice, ChoiceCall
  <1>3. /\ call.scope = "all" => call.value # "reset"
        /\ call.scope # "all" => call.records \subseteq {call.scope}
    BY <1>1, <1>2 DEF PreferencesInv, NarrowChoices
  <1>4. PICK row : row = IF call.value = "reset" THEN "unset" ELSE call.value
    OBVIOUS
  <1>5. PICK rows : rows = IF call.value = "reset" THEN {"club"} ELSE Overruled(call.scope)
    OBVIOUS
  <1>6. /\ row \in Switch /\ (call.value # "reset" => row = call.value)
        /\ call.scope = "all" => rows = {"all"}
        /\ (call.scope # "all" /\ call.value # "reset") => rows = {"all", "club"}
    BY <1>2, <1>3, <1>4, <1>5 DEF Switch, Overruled
  <1>7. /\ accountRows' = [accountRows EXCEPT ![call.scope] = row]
        /\ recordRows' = [k \in Clubs |-> [s \in {"all", "club"} |->
             IF k \in call.records /\ s \in rows /\ recordRows[k][s] # "unset"
             THEN row ELSE recordRows[k][s]]]
        /\ unsubscribed' = {u \in unsubscribed :
             IF call.scope = "all" THEN u[2] = "club" ELSE u[1] # call.scope}
        /\ prefCalls' = [prefCalls EXCEPT ![x] = NoPrefCall]
        /\ linked' = linked /\ choices' = choices
    BY <1>1, <1>4, <1>5 DEF WritesChoice
  <1>8. /\ accountRows' \in [Scopes -> Switch] /\ accountRows'[call.scope] = row
        /\ \A s \in Scopes : s # call.scope => accountRows'[s] = accountRows[s]
    BY <1>2, <1>6, <1>7, PrefTypes
  <1>9. /\ recordRows' \in [Clubs -> RecordRows]
        /\ \A k \in Clubs, s \in {"all", "club"} : recordRows'[k][s] =
             IF k \in call.records /\ s \in rows /\ recordRows[k][s] # "unset" THEN row ELSE recordRows[k][s]
    BY <1>6, <1>7, PrefTypes DEF RecordRows
  <1>10. /\ prefCalls' \in [PrefCalls -> PrefRecord] /\ prefCalls'[x] = NoPrefCall
         /\ \A y \in PrefCalls : y # x => prefCalls'[y] = prefCalls[y]
    BY <1>7, PrefTypes DEF PrefRecord
  <1>11. PreferencesTypeOK'
    BY <1>7, <1>8, <1>9, <1>10, PrefTypes, PrefCallFields DEF PreferencesTypeOK, AccountRows
  <1>12. NarrowChoices'
    BY <1>10 DEF NarrowChoices, PreferencesInv
  <1>13. LinkStands'
    <2>1. ASSUME NEW k \in Clubs, <<k, "club">> \in unsubscribed'
          PROVE  accountRows'[k] = "off" \/ recordRows'[k]["club"] = "off"
      <3>1. <<k, "club">> \in unsubscribed /\ k # call.scope
        BY <1>7, <2>1, PrefTypes
      <3>2. accountRows[k] = "off" \/ recordRows[k]["club"] = "off"
        BY <3>1 DEF PreferencesInv, LinkStands
      <3>3. accountRows'[k] = accountRows[k]
        BY <1>8, <3>1 DEF Scopes
      <3>4. recordRows'[k]["club"] = recordRows[k]["club"]
        BY <1>3, <1>6, <1>9, <3>1
      <3>5. QED
        BY <3>2, <3>3, <3>4
    <2>2. QED
      BY <2>1 DEF LinkStands
  <1>14. \A y \in PrefCalls : Done(y) => y = x
    BY <1>10 DEF Done
  <1>15. ChoiceCounts
    <2>1. ASSUME NEW k \in call.records \cap linked, call.value # "reset", k = call.scope
          PROVE  Enabled(k)' = (call.value = "on")
      <3>1. k \in Clubs /\ k # "all" /\ accountRows'[k] = call.value /\ k \in linked'
        BY <1>2, <1>6, <1>7, <1>8, <2>1, PrefTypes
      <3>2. AccountOn(k)' = (call.value = "on")
        BY <1>2, <2>1, <3>1 DEF AccountOn, Effective
      <3>3. \A s \in {"all", "club"} : recordRows'[k][s] \in {"unset", call.value}
        BY <1>6, <1>9, <2>1, <3>1
      <3>4. call.value = "on" => RecordOn(k)'
        BY <3>3 DEF RecordOn, Effective
      <3>5. QED
        BY <3>1, <3>2, <3>4 DEF Enabled
    <2>2. QED
      BY <1>1, <1>14, <2>1 DEF ChoiceCounts
  <1>16. ElsewhereTheSame
    <2>1. ASSUME call.scope # "all", NEW k \in Clubs \ {call.scope}
          PROVE  Enabled(k)' = Enabled(k)
      <3>1. accountRows'[k] = accountRows[k] /\ accountRows'["all"] = accountRows["all"] /\ linked' = linked
        BY <1>7, <1>8, <2>1, PrefTypes DEF Scopes
      <3>2. recordRows'[k]["club"] = recordRows[k]["club"] /\ recordRows'[k]["all"] = recordRows[k]["all"]
        BY <1>3, <1>9, <2>1
      <3>3. QED
        BY <3>1, <3>2 DEF Enabled, AccountOn, RecordOn, Effective
    <2>2. QED
      BY <1>1, <1>14, <2>1 DEF ElsewhereTheSame
  <1>17. QED
    BY <1>10, <1>11, <1>12, <1>13, <1>15, <1>16 DEF PreferencesInv, PreferencesKept

LEMMA UnsubscribesAccountKeeps ==
  ASSUME PreferencesInv, NEW scope \in Scopes, UnsubscribesAccount(scope)
  PROVE  PreferencesInv' /\ PreferencesKept
  <1>1. /\ Chooses /\ accountRows' = [accountRows EXCEPT ![scope] = "off"]
        /\ unsubscribed' = unsubscribed \cup
             (IF scope = "all" THEN Clubs \X {"all"} ELSE {<<scope, "club">>})
        /\ UNCHANGED <<linked, recordRows, prefCalls>>
    BY DEF UnsubscribesAccount
  <1>2. /\ accountRows' \in [Scopes -> Switch] /\ accountRows'[scope] = "off"
        /\ \A s \in Scopes : s # scope => accountRows'[s] = accountRows[s]
    BY <1>1, PrefTypes DEF Switch
  <1>3. unsubscribed' \subseteq Clubs \X {"all", "club"}
    BY <1>1, PrefTypes DEF Scopes
  <1>4. PreferencesTypeOK'
    BY <1>1, <1>2, <1>3, PrefTypes, PrefCallFields, ChoosesKeeps DEF PreferencesTypeOK, AccountRows
  <1>5. LinkStands'
    <2>1. ASSUME NEW k \in Clubs, <<k, "club">> \in unsubscribed'
          PROVE  accountRows'[k] = "off" \/ recordRows'[k]["club"] = "off"
      <3>1. <<k, "club">> \in unsubscribed \/ k = scope
        BY <1>1, <2>1
      <3>2. QED
        BY <1>1, <1>2, <3>1 DEF PreferencesInv, LinkStands, Scopes
    <2>2. QED
      BY <2>1 DEF LinkStands
  <1>6. NarrowChoices' /\ PreferencesKept
    BY <1>1, NothingIsDone DEF NarrowChoices, PreferencesInv
  <1>7. QED
    BY <1>1, <1>4, <1>5, <1>6 DEF PreferencesInv

LEMMA UnsubscribesRecordKeeps ==
  ASSUME PreferencesInv, NEW k \in Clubs, NEW scope \in {"all", "club"}, UnsubscribesRecord(k, scope)
  PROVE  PreferencesInv' /\ PreferencesKept
  <1>1. /\ Chooses /\ recordRows' = [recordRows EXCEPT ![k] = [@ EXCEPT ![scope] = "off"]]
        /\ unsubscribed' = unsubscribed \cup {<<k, scope>>}
        /\ UNCHANGED <<linked, accountRows, prefCalls>>
    BY DEF UnsubscribesRecord
  <1>2. /\ recordRows' \in [Clubs -> RecordRows] /\ recordRows'[k][scope] = "off"
        /\ \A j \in Clubs, s \in {"all", "club"} :
             j # k \/ s # scope => recordRows'[j][s] = recordRows[j][s]
    BY <1>1, PrefTypes DEF Switch, RecordRows
  <1>4. PreferencesTypeOK'
    BY <1>1, <1>2, PrefTypes, PrefCallFields, ChoosesKeeps DEF PreferencesTypeOK, AccountRows
  <1>5. LinkStands'
    BY <1>1, <1>2 DEF PreferencesInv, LinkStands
  <1>6. NarrowChoices' /\ PreferencesKept
    BY <1>1, NothingIsDone DEF NarrowChoices, PreferencesInv
  <1>7. QED
    BY <1>1, <1>4, <1>5, <1>6 DEF PreferencesInv

LEMMA LinksRecordKeeps ==
  ASSUME PreferencesInv, NEW k \in Clubs, LinksRecord(k)
  PROVE  PreferencesInv' /\ PreferencesKept
  <1>1. Chooses /\ linked' \subseteq Clubs /\ UNCHANGED <<accountRows, recordRows, prefCalls, unsubscribed>>
    BY PrefTypes DEF LinksRecord
  <1>2. PreferencesTypeOK'
    BY <1>1, PrefTypes, PrefCallFields, ChoosesKeeps DEF PreferencesTypeOK, AccountRows
  <1>3. LinkStands' /\ NarrowChoices' /\ PreferencesKept
    BY <1>1, NothingIsDone DEF LinkStands, NarrowChoices, PreferencesInv
  <1>4. QED
    BY <1>1, <1>2, <1>3 DEF PreferencesInv

LEMMA PreferencesSteps ==
  ASSUME PreferencesInv, PreferencesNext
  PROVE  PreferencesInv' /\ PreferencesKept
  BY AsksChoiceKeeps, WritesChoiceKeeps, UnsubscribesAccountKeeps, UnsubscribesRecordKeeps, LinksRecordKeeps
     DEF PreferencesNext

LEMMA PreferencesStutters ==
  ASSUME PreferencesInv, UNCHANGED prefVars
  PROVE  PreferencesInv'
  BY DEF PreferencesInv, prefVars, PreferencesTypeOK, LinkStands, NarrowChoices

\* Who has unsubscribed from a club gets no mail of it, the three views of that agree, a
\* choice for a club counts there and changes nothing in another.
THEOREM PreferencesAreSound == PreferencesSpec => PreferencesPromise
  <1>1. PreferencesInit => PreferencesInv
    BY PreferencesStarts
  <1>2. PreferencesInv /\ [PreferencesNext]_prefVars => PreferencesInv'
    BY PreferencesSteps, PreferencesStutters
  <1>3. PreferencesInv /\ [PreferencesNext]_prefVars => [ChoiceCounts /\ ElsewhereTheSame]_prefVars
    BY PreferencesSteps DEF PreferencesKept
  <1>4. PreferencesInv => PreferencesTypeOK /\ UnsubscribedGetNothing /\ ViewsAgree
    BY UnsubscribedInv, ViewsAgreeAlways DEF PreferencesInv
  <1>5. QED
    BY <1>1, <1>2, <1>3, <1>4, PTL DEF PreferencesSpec, PreferencesPromise

-----------------------------------------------------------------------------
(***************************************************************************)
(* The devices.  The number of a row stays with its device and is never     *)
(* given out again (RowsNumbered, RowsDiffer, ReadRowsStay), so what is      *)
(* said late of a row is said of the device it was read from; the app is    *)
(* gone from a device only with its row marked (GoneIsKnown).  For the      *)
(* limit: what a registration has counted still holds when it saves, unless *)
(* another one has saved meanwhile (CountFits), and the rows it deletes     *)
(* stay its caller's (RoomIsOwn).                                           *)
(***************************************************************************)
DeviceRow == [row : 1..MaxRegistered, owner : PushAccounts, state : {"fresh", "stale", "disabled"}]
LookedCall == [at : {"looked"}, owner : PushAccounts, device : Devices, weight : SUBSET Devices, beside : BOOLEAN]
CountedCall == [at : {"counted"}, owner : PushAccounts, device : Devices, room : SUBSET Devices, beside : BOOLEAN]
PushRecord == LookedCall \cup CountedCall \cup {AtRest}
ReadRow == [row : 1..MaxRegistered, device : Devices]
ReadPush == [at : {"read"}, owner : PushAccounts, rows : SUBSET ReadRow]
ReceiptItem == [row : 1..MaxRegistered, gone : BOOLEAN]
ReceiptJob == [no : Nat, items : SUBSET ReceiptItem, attempt : 1..ReceiptAttempts]

DeviceTypes ==
  /\ devices \in [Devices -> SUBSET DeviceRow]
  /\ \A d \in Devices : \A r, s \in devices[d] : r = s
  /\ installed \subseteq Devices /\ pushCalls \in [PushCalls -> PushRecord]
  /\ pushing \in ReadPush \cup {AtRest} /\ receipts \subseteq ReceiptJob /\ pushed \in Nat
  /\ registered \in [calls : 0..MaxRegistered, rows : Nat]
  /\ dropped \subseteq 1..MaxRegistered /\ overtook \in Nat

InFlight == {c \in PushCalls : pushCalls[c].at # "idle"}
RowsCountedOff == registered.rows + Cardinality(InFlight) <= registered.calls
RowsNumbered == \A d \in Devices : \A r \in devices[d] : r.row <= registered.rows
RowsDiffer == \A d, e \in Devices : \A r \in devices[d], s \in devices[e] : r.row = s.row => d = e
GoneIsKnown == \A d \in Devices \ installed : \A r \in devices[d] : r.row \in dropped

RowStays(x) == x.row <= registered.rows /\ \A d \in Devices : \A r \in devices[d] : r.row = x.row => d = x.device
ReadRowsStay == pushing # AtRest => \A x \in pushing.rows : RowStays(x)

ItemTrue(i) ==
  /\ i.row <= registered.rows
  /\ i.gone => i.row \in dropped \/ \A d \in Devices : \A r \in devices[d] : r.row # i.row
ReceiptsAreTrue == \A job \in receipts : \A i \in job.items : ItemTrue(i)

RoomIsOwn ==
  \A c \in PushCalls : pushCalls[c].at = "counted" =>
    \A d \in pushCalls[c].room : \A r \in devices[d] : r.owner = pushCalls[c].owner
CountFits ==
  \A c \in PushCalls : pushCalls[c].at = "counted" /\ ~pushCalls[c].beside =>
    Cardinality((OwnedBy(pushCalls[c].owner) \ pushCalls[c].room) \cup {pushCalls[c].device})
      <= DeviceLimit + overtook

DevicesInv ==
  /\ DeviceTypes /\ RowsCountedOff /\ RowsNumbered /\ RowsDiffer /\ GoneIsKnown /\ ReadRowsStay
  /\ ReceiptsAreTrue /\ CutOffForAReason /\ RoomIsOwn /\ CountFits /\ LimitExceededByRacesOnly

LEMMA DeviceConstants ==
  /\ IsFiniteSet(Devices) /\ IsFiniteSet(PushCalls) /\ DeviceLimit \in Nat /\ MaxRegistered \in Nat
  /\ ReceiptAttempts \in Nat /\ ReceiptAttempts >= 1
  BY DevicesAssumption

LEMMA PushCallFields ==
  ASSUME NEW call \in PushRecord
  PROVE  /\ call.at \in {"idle", "looked", "counted"}
         /\ call.at = "looked" => call \in LookedCall
         /\ call.at = "counted" => call \in CountedCall
         /\ call.at = "idle" <=> call = AtRest
  BY DEF PushRecord, LookedCall, CountedCall, AtRest

LEMMA PushingFields ==
  ASSUME NEW p \in ReadPush \cup {AtRest}, p # AtRest
  PROVE  p \in ReadPush /\ p.rows \subseteq ReadRow
  BY DEF ReadPush, AtRest

LEMMA OwnedIsFinite ==
  ASSUME NEW a
  PROVE  OwnedBy(a) \subseteq Devices /\ IsFiniteSet(OwnedBy(a)) /\ Cardinality(OwnedBy(a)) \in Nat
  <1>1. OwnedBy(a) \subseteq Devices
    BY DEF OwnedBy
  <1>2. QED
    BY <1>1, DeviceConstants, FS_Subset, FS_CardinalityType

LEMMA FlightIsFinite ==
  IsFiniteSet(InFlight) /\ Cardinality(InFlight) \in Nat
  <1>1. InFlight \subseteq PushCalls
    BY DEF InFlight
  <1>2. QED
    BY <1>1, DeviceConstants, FS_Subset, FS_CardinalityType

LEMMA OneMore ==
  ASSUME NEW S, IsFiniteSet(S), NEW e
  PROVE  /\ IsFiniteSet(S \cup {e}) /\ Cardinality(S \cup {e}) \in Nat
         /\ Cardinality(S \cup {e}) <= Cardinality(S) + 1
  <1>1. Cardinality(S) \in Nat
    BY FS_CardinalityType
  <1>2. CASE e \in S
    <2>1. S \cup {e} = S
      BY <1>2
    <2>2. IsFiniteSet(S \cup {e}) /\ Cardinality(S \cup {e}) = Cardinality(S)
      BY <2>1, Zenon
    <2>3. QED
      BY <1>1, <2>2
  <1>3. CASE e \notin S
    <2>1. IsFiniteSet(S \cup {e}) /\ Cardinality(S \cup {e}) = Cardinality(S) + 1
      BY <1>3, FS_AddElement
    <2>2. QED
      BY <1>1, <2>1
  <1>4. QED
    BY <1>2, <1>3

\* The type invariant of the runs says of the rows what the types here say.
LEMMA DevicesTyped ==
  ASSUME DevicesInv
  PROVE  DevicesTypeOK
  <1>1. ASSUME NEW d \in Devices
        PROVE  Cardinality(devices[d]) <= 1
    <2>1. devices[d] = {} \/ \E r \in devices[d] : devices[d] = {r}
      BY DEF DevicesInv, DeviceTypes
    <2>2. ASSUME NEW r, devices[d] = {r}
          PROVE  Cardinality(devices[d]) = 1
      BY <2>2, FS_Singleton
    <2>3. devices[d] = {} => Cardinality(devices[d]) = 0
      BY FS_EmptySet
    <2>4. Cardinality(devices[d]) \in {0, 1}
      BY <2>1, <2>2, <2>3
    <2>5. QED
      BY <2>4
  <1>2. \A d \in Devices : devices[d] \subseteq DeviceRow
    BY DEF DevicesInv, DeviceTypes
  <1>3. \A r \in receipts : r.attempt \in 1..ReceiptAttempts
    BY DEF DevicesInv, DeviceTypes, ReceiptJob
  <1>4. QED
    BY <1>1, <1>2, <1>3 DEF DevicesInv, DeviceTypes, DevicesTypeOK, DeviceRow

\* While no call comes to rest, none has saved its device.
LEMMA NothingIsSaved ==
  ASSUME \A c \in PushCalls : pushCalls[c].at = "counted" => pushCalls'[c] # AtRest
  PROVE  OthersKeepTheirDevices
  BY DEF OthersKeepTheirDevices, SavedDevice

LEMMA DevicesStart ==
  ASSUME DevicesInit
  PROVE  DevicesInv
  <1>1. \A d \in Devices : devices[d] = {}
    BY DEF DevicesInit
  <1>2. \A c \in PushCalls : pushCalls[c] = AtRest /\ pushCalls[c].at = "idle"
    BY DEF DevicesInit, AtRest
  <1>3. DeviceTypes
    BY <1>1, DeviceConstants DEF DevicesInit, DeviceTypes, PushRecord
  <1>4. InFlight = {} /\ \A a : OwnedBy(a) = {}
    BY <1>1, <1>2 DEF InFlight, OwnedBy
  <1>5. RowsCountedOff /\ LimitExceededByRacesOnly
    BY <1>4, FS_EmptySet, DeviceConstants DEF RowsCountedOff, LimitExceededByRacesOnly, DevicesInit
  <1>6. RowsNumbered /\ RowsDiffer /\ GoneIsKnown /\ CutOffForAReason
    BY <1>1 DEF RowsNumbered, RowsDiffer, GoneIsKnown, CutOffForAReason
  <1>7. ReadRowsStay /\ ReceiptsAreTrue /\ RoomIsOwn /\ CountFits
    BY <1>2 DEF DevicesInit, ReadRowsStay, ReceiptsAreTrue, RoomIsOwn, CountFits
  <1>8. QED
    BY <1>3, <1>5, <1>6, <1>7 DEF DevicesInv

-----------------------------------------------------------------------------
\* Every step but the upsert leaves the rows that stay with their number and owner.
RowsAge ==
  \A d \in Devices : \A r \in devices'[d] : \E s \in devices[d] : r.row = s.row /\ r.owner = s.owner

LEMMA OwnedShrinks ==
  ASSUME RowsAge, NEW a
  PROVE  OwnedBy(a)' \subseteq OwnedBy(a)
  BY DEF RowsAge, OwnedBy

LEMMA AgeKeepsRows ==
  ASSUME DevicesInv, RowsAge, registered'.rows = registered.rows
  PROVE  RowsNumbered' /\ RowsDiffer'
  BY DEF DevicesInv, RowsAge, RowsNumbered, RowsDiffer

LEMMA AgeKeepsMessages ==
  ASSUME DevicesInv, RowsAge, registered'.rows = registered.rows, dropped \subseteq dropped'
  PROVE  /\ \A x : RowStays(x) => RowStays(x)'
         /\ \A i : ItemTrue(i) => ItemTrue(i)'
  <1>1. ASSUME NEW x, RowStays(x)
        PROVE  RowStays(x)'
    BY <1>1 DEF RowsAge, RowStays
  <1>2. ASSUME NEW i, ItemTrue(i)
        PROVE  ItemTrue(i)'
    BY <1>2 DEF RowsAge, ItemTrue
  <1>3. QED
    BY <1>1, <1>2

LEMMA AgeKeepsLimit ==
  ASSUME DevicesInv, RowsAge, overtook' = overtook
  PROVE  LimitExceededByRacesOnly'
  <1>1. ASSUME NEW a \in PushAccounts
        PROVE  Cardinality(OwnedBy(a)') <= DeviceLimit + overtook
    <2>1. Cardinality(OwnedBy(a)') <= Cardinality(OwnedBy(a)) /\ Cardinality(OwnedBy(a)') \in Nat
      BY OwnedShrinks, OwnedIsFinite, FS_Subset, FS_CardinalityType
    <2>2. Cardinality(OwnedBy(a)) <= DeviceLimit + overtook /\ overtook \in Nat
      BY DEF DevicesInv, DeviceTypes, LimitExceededByRacesOnly
    <2>3. QED
      BY <2>1, <2>2, OwnedIsFinite, DeviceConstants
  <1>2. QED
    BY <1>1 DEF LimitExceededByRacesOnly

\* The set a registration has counted only shrinks.
LEMMA AgeKeepsCount ==
  ASSUME DevicesInv, RowsAge, overtook' = overtook, NEW c \in PushCalls,
         pushCalls[c].at = "counted", ~pushCalls[c].beside, pushCalls'[c] = pushCalls[c]
  PROVE  Cardinality((OwnedBy(pushCalls[c].owner)' \ pushCalls[c].room) \cup {pushCalls[c].device})
           <= DeviceLimit + overtook
  <1>1. PICK call \in CountedCall : call = pushCalls[c]
    BY PushCallFields DEF DevicesInv, DeviceTypes
  <1>2. PICK old : old = (OwnedBy(call.owner) \ call.room) \cup {call.device}
    OBVIOUS
  <1>3. PICK new : new = (OwnedBy(call.owner)' \ call.room) \cup {call.device}
    OBVIOUS
  <1>4. new \subseteq old /\ IsFiniteSet(old)
    BY <1>1, <1>2, <1>3, OwnedShrinks, OwnedIsFinite, DeviceConstants, FS_Subset, FS_AddElement, FS_RemoveElement
       DEF CountedCall
  <1>5. Cardinality(new) <= Cardinality(old) /\ Cardinality(new) \in Nat /\ Cardinality(old) \in Nat
    BY <1>4, FS_Subset, FS_CardinalityType
  <1>6. Cardinality(old) <= DeviceLimit + overtook
    BY <1>1, <1>2 DEF DevicesInv, CountFits
  <1>7. overtook \in Nat
    BY DEF DevicesInv, DeviceTypes
  <1>8. QED
    BY <1>1, <1>3, <1>5, <1>6, <1>7, DeviceConstants

\* What the registrations under way rely on, while they rest.
LEMMA RestKeepsCalls ==
  ASSUME DevicesInv, RowsAge, UNCHANGED <<pushCalls, registered, overtook>>
  PROVE  RowsCountedOff' /\ RoomIsOwn' /\ CountFits' /\ OthersKeepTheirDevices
  <1>1. RowsCountedOff'
    BY DEF DevicesInv, RowsCountedOff, InFlight
  <1>2. RoomIsOwn'
    <2>1. ASSUME NEW c \in PushCalls, pushCalls[c].at = "counted", NEW d \in pushCalls[c].room, NEW r \in devices'[d]
          PROVE  r.owner = pushCalls[c].owner
      <3>1. d \in Devices
        BY <2>1, PushCallFields DEF DevicesInv, DeviceTypes, CountedCall
      <3>2. QED
        BY <2>1, <3>1 DEF RowsAge, DevicesInv, RoomIsOwn
    <2>2. QED
      BY <2>1 DEF RoomIsOwn
  <1>3. CountFits'
    BY AgeKeepsCount DEF CountFits
  <1>4. \A c \in PushCalls : pushCalls[c].at = "counted" => pushCalls'[c] # AtRest
    BY DEF AtRest
  <1>5. QED
    BY <1>1, <1>2, <1>3, <1>4, NothingIsSaved

LEMMA RegisterKeeps ==
  ASSUME DevicesInv, NEW c \in PushCalls, NEW a \in PushAccounts, NEW d \in Devices, Register(c, a, d)
  PROVE  DevicesInv' /\ OthersKeepTheirDevices
  <1>1. PICK call : call =
          IF d \in OwnedBy(a)
          THEN [at |-> "counted", owner |-> a, device |-> d, room |-> {}, beside |-> FALSE]
          ELSE [at |-> "looked", owner |-> a, device |-> d, weight |-> DeadWeight(a), beside |-> FALSE]
    OBVIOUS
  <1>2. DeadWeight(a) \subseteq Devices
    BY DEF DeadWeight, OwnedBy
  <1>3. /\ call \in LookedCall \cup CountedCall /\ call \in PushRecord /\ call # AtRest /\ call.at # "idle"
        /\ call.at = "counted" =>
             d \in OwnedBy(a) /\ call.owner = a /\ call.device = d /\ call.room = {} /\ ~call.beside
    BY <1>1, <1>2, PushCallFields DEF LookedCall, CountedCall, PushRecord
  <1>4. /\ pushCalls[c].at = "idle" /\ registered.calls < MaxRegistered
        /\ registered' = [registered EXCEPT !.calls = @ + 1] /\ installed' = installed \cup {d}
        /\ pushCalls' = [pushCalls EXCEPT ![c] = call]
        /\ UNCHANGED <<devices, pushing, receipts, pushed, dropped, overtook>>
    BY <1>1 DEF Register
  <1>5. /\ pushCalls' \in [PushCalls -> PushRecord] /\ pushCalls'[c] = call
        /\ \A o \in PushCalls : o # c => pushCalls'[o] = pushCalls[o]
    BY <1>3, <1>4 DEF DevicesInv, DeviceTypes
  <1>6. /\ registered \in [calls : 0..MaxRegistered, rows : Nat]
        /\ registered' \in [calls : 0..MaxRegistered, rows : Nat]
        /\ registered'.rows = registered.rows /\ registered'.calls = registered.calls + 1
    BY <1>4, DeviceConstants DEF DevicesInv, DeviceTypes
  <1>7. DeviceTypes'
    BY <1>4, <1>5, <1>6 DEF DevicesInv, DeviceTypes
  <1>8. RowsCountedOff'
    <2>1. InFlight' = InFlight \cup {c} /\ c \notin InFlight
      BY <1>3, <1>4, <1>5 DEF InFlight
    <2>2. Cardinality(InFlight') = Cardinality(InFlight) + 1
      BY <2>1, FlightIsFinite, FS_AddElement
    <2>3. QED
      BY <1>6, <2>2, FlightIsFinite DEF DevicesInv, RowsCountedOff
  <1>9. RowsAge
    BY <1>4 DEF RowsAge
  <1>10. RowsNumbered' /\ RowsDiffer' /\ LimitExceededByRacesOnly'
    BY <1>4, <1>6, <1>9, AgeKeepsRows, AgeKeepsLimit
  <1>11. GoneIsKnown' /\ CutOffForAReason'
    BY <1>4 DEF DevicesInv, GoneIsKnown, CutOffForAReason
  <1>12. ReadRowsStay' /\ ReceiptsAreTrue'
    BY <1>4, <1>6, <1>9, AgeKeepsMessages DEF DevicesInv, ReadRowsStay, ReceiptsAreTrue
  <1>13. RoomIsOwn'
    BY <1>3, <1>4, <1>5 DEF DevicesInv, RoomIsOwn
  <1>14. CountFits'
    <2>1. ASSUME pushCalls'[c].at = "counted"
          PROVE  Cardinality((OwnedBy(call.owner)' \ call.room) \cup {call.device}) <= DeviceLimit + overtook
      <3>1. (OwnedBy(call.owner)' \ call.room) \cup {call.device} = OwnedBy(a)
        BY <1>3, <1>4, <1>5, <2>1 DEF OwnedBy
      <3>2. QED
        BY <3>1 DEF DevicesInv, LimitExceededByRacesOnly
    <2>2. QED
      BY <1>4, <1>5, <1>9, <2>1, AgeKeepsCount DEF CountFits
  <1>15. OthersKeepTheirDevices
    BY <1>3, <1>4, <1>5, NothingIsSaved DEF AtRest
  <1>16. QED
    BY <1>7, <1>8, <1>10, <1>11, <1>12, <1>13, <1>14, <1>15 DEF DevicesInv

LEMMA CountDevicesKeeps ==
  ASSUME DevicesInv, NEW c \in PushCalls, CountDevices(c)
  PROVE  DevicesInv' /\ OthersKeepTheirDevices
  <1>1. PICK old \in LookedCall : old = pushCalls[c]
    BY PushCallFields DEF DevicesInv, DeviceTypes, CountDevices
  <1>2. PICK room : room = RoomOf(old.owner, old.weight)
    OBVIOUS
  <1>3. PICK call : call =
          IF Full(old.owner, room) THEN AtRest
          ELSE [at |-> "counted", owner |-> old.owner, device |-> old.device, room |-> room, beside |-> old.beside]
    OBVIOUS
  <1>4. room \subseteq OwnedBy(old.owner) /\ room \subseteq Devices
    BY <1>2 DEF RoomOf, DeadWeight, OwnedBy
  <1>5. /\ call \in PushRecord /\ call.at \in {"idle", "counted"}
        /\ call.at = "counted" =>
             ~Full(old.owner, room) /\ call.owner = old.owner /\ call.device = old.device /\ call.room = room
    BY <1>1, <1>3, <1>4 DEF PushRecord, LookedCall, CountedCall, AtRest
  <1>6. /\ pushCalls[c].at = "looked" /\ pushCalls' = [pushCalls EXCEPT ![c] = call]
        /\ UNCHANGED <<devices, installed, pushing, receipts, pushed, registered, dropped, overtook>>
    BY <1>1, <1>2, <1>3 DEF CountDevices
  <1>7. /\ pushCalls' \in [PushCalls -> PushRecord] /\ pushCalls'[c] = call
        /\ \A o \in PushCalls : o # c => pushCalls'[o] = pushCalls[o]
    BY <1>5, <1>6 DEF DevicesInv, DeviceTypes
  <1>8. DeviceTypes'
    BY <1>6, <1>7 DEF DevicesInv, DeviceTypes
  <1>9. RowsAge
    BY <1>6 DEF RowsAge
  <1>10. RowsCountedOff'
    <2>1. InFlight' \subseteq InFlight
      BY <1>6, <1>7 DEF InFlight
    <2>2. Cardinality(InFlight') <= Cardinality(InFlight) /\ Cardinality(InFlight') \in Nat
      BY <2>1, FlightIsFinite, FS_Subset, FS_CardinalityType
    <2>3. registered.rows \in Nat /\ registered.calls \in Nat
      BY DEF DevicesInv, DeviceTypes
    <2>4. QED
      BY <1>6, <2>2, <2>3, FlightIsFinite DEF DevicesInv, RowsCountedOff
  <1>11. RowsNumbered' /\ RowsDiffer' /\ LimitExceededByRacesOnly'
    BY <1>6, <1>9, AgeKeepsRows, AgeKeepsLimit
  <1>12. GoneIsKnown' /\ CutOffForAReason'
    BY <1>6 DEF DevicesInv, GoneIsKnown, CutOffForAReason
  <1>13. ReadRowsStay' /\ ReceiptsAreTrue'
    BY <1>6, <1>9, AgeKeepsMessages DEF DevicesInv, ReadRowsStay, ReceiptsAreTrue
  <1>14. RoomIsOwn'
    <2>1. \A d \in room : \A r \in devices[d] : r.owner = old.owner
      BY <1>4 DEF OwnedBy, DevicesInv, DeviceTypes
    <2>2. QED
      BY <1>5, <1>6, <1>7, <2>1 DEF DevicesInv, RoomIsOwn
  <1>15. CountFits'
    <2>1. ASSUME call.at = "counted"
          PROVE  Cardinality((OwnedBy(call.owner)' \ call.room) \cup {call.device}) <= DeviceLimit + overtook
      <3>1. PICK rest : rest = OwnedBy(old.owner) \ room
        OBVIOUS
      <3>2. IsFiniteSet(rest) /\ Cardinality(rest) \in Nat
        BY <3>1, OwnedIsFinite, FS_Subset, FS_CardinalityType
      <3>3. Cardinality(rest) < DeviceLimit
        BY <1>5, <2>1, <3>1, <3>2, DeviceConstants DEF Full
      <3>4. Cardinality(rest \cup {old.device}) <= Cardinality(rest) + 1 /\ Cardinality(rest \cup {old.device}) \in Nat
        BY <3>2, OneMore
      <3>5. (OwnedBy(call.owner)' \ call.room) \cup {call.device} = rest \cup {old.device}
        BY <1>5, <1>6, <2>1, <3>1 DEF OwnedBy
      <3>6. overtook \in Nat
        BY DEF DevicesInv, DeviceTypes
      <3>7. Cardinality(rest \cup {old.device}) <= DeviceLimit + overtook
        BY <3>2, <3>3, <3>4, <3>6, DeviceConstants
      <3>8. QED
        BY <3>5, <3>7
    <2>2. QED
      BY <1>6, <1>7, <1>9, <2>1, AgeKeepsCount DEF CountFits
  <1>16. OthersKeepTheirDevices
    BY <1>6, <1>7, NothingIsSaved DEF AtRest
  <1>17. QED
    BY <1>8, <1>10, <1>11, <1>12, <1>13, <1>14, <1>15, <1>16 DEF DevicesInv

-----------------------------------------------------------------------------
\* The upsert. Its row is new, or the one row of its device.
LEMMA SaveDeviceKeeps ==
  ASSUME DevicesInv, NEW c \in PushCalls, SaveDevice(c)
  PROVE  DevicesInv' /\ OthersKeepTheirDevices
  <1>1. PICK call \in CountedCall : call = pushCalls[c]
    BY PushCallFields DEF DevicesInv, DeviceTypes, SaveDevice
  <1>2. PICK d \in Devices : d = call.device
    BY <1>1 DEF CountedCall
  <1>3. PICK stays : stays = IF d \in call.room THEN {} ELSE {r.row : r \in devices[d]}
    OBVIOUS
  <1>4. PICK row : row = IF stays = {} THEN registered.rows + 1 ELSE CHOOSE i \in stays : TRUE
    OBVIOUS
  <1>5. PICK new : new = [row |-> row, owner |-> call.owner, state |-> "fresh"]
    OBVIOUS
  <1>6. /\ pushCalls[c].at = "counted"
        /\ devices' = [x \in Devices |-> IF x = d THEN {new} ELSE IF x \in call.room THEN {} ELSE devices[x]]
        /\ registered' = [registered EXCEPT !.rows = IF stays = {} THEN @ + 1 ELSE @]
        /\ dropped' = IF d \in installed THEN dropped ELSE dropped \cup {row}
        /\ overtook' = IF call.beside THEN overtook + 1 ELSE overtook
        /\ pushCalls' = [o \in PushCalls |->
             IF o = c THEN AtRest
             ELSE IF pushCalls[o].at = "idle" THEN AtRest ELSE [pushCalls[o] EXCEPT !.beside = TRUE]]
        /\ UNCHANGED <<installed, pushing, receipts, pushed>>
    BY <1>1, <1>2, <1>3, <1>4, <1>5 DEF SaveDevice
  <1>7. /\ registered \in [calls : 0..MaxRegistered, rows : Nat] /\ registered.rows \in Nat
        /\ registered.calls \in 0..MaxRegistered /\ registered.calls \in Nat /\ MaxRegistered \in Nat
        /\ overtook \in Nat
    BY DeviceConstants DEF DevicesInv, DeviceTypes
  <1>8. /\ registered' \in [calls : 0..MaxRegistered, rows : Nat] /\ registered'.calls = registered.calls
        /\ registered'.rows = registered.rows + (IF stays = {} THEN 1 ELSE 0)
        /\ registered.rows <= registered'.rows /\ registered'.rows <= registered.rows + 1
        /\ registered'.rows \in Nat
    BY <1>6, <1>7
  <1>9. InFlight' = InFlight \ {c} /\ c \in InFlight
    <2>1. \A o \in PushCalls : pushCalls'[o].at = IF o = c THEN "idle" ELSE pushCalls[o].at
      BY <1>6, PushCallFields DEF AtRest, DevicesInv, DeviceTypes, LookedCall, CountedCall
    <2>2. QED
      BY <1>6, <2>1 DEF InFlight
  <1>10. Cardinality(InFlight') = Cardinality(InFlight) - 1
    BY <1>9, FlightIsFinite, FS_RemoveElement
  <1>11. RowsCountedOff'
    BY <1>7, <1>8, <1>10, FlightIsFinite DEF DevicesInv, RowsCountedOff
  <1>12. /\ stays # {} => \E r \in devices[d] : row = r.row
         /\ stays = {} => row = registered.rows + 1 /\ registered'.rows = row
         /\ row \in 1..MaxRegistered /\ row <= registered'.rows
    <2>1. ASSUME stays = {}
          PROVE  row = registered.rows + 1 /\ registered'.rows = row /\ row \in 1..MaxRegistered
      <3>1. row = registered.rows + 1 /\ registered'.rows = row
        BY <1>4, <1>7, <1>8, <2>1
      <3>2. Cardinality(InFlight') \in Nat
        BY <1>9, FlightIsFinite, FS_RemoveElement, FS_CardinalityType
      <3>3. registered'.rows <= MaxRegistered
        BY <1>7, <1>8, <1>11, <3>2 DEF RowsCountedOff
      <3>4. QED
        BY <1>7, <3>1, <3>3
    <2>2. ASSUME stays # {}
          PROVE  /\ \E r \in devices[d] : row = r.row
                 /\ row \in 1..MaxRegistered /\ row <= registered'.rows
      <3>1. row \in stays
        BY <1>4, <2>2
      <3>2. PICK r \in devices[d] : row = r.row
        BY <1>3, <2>2, <3>1
      <3>3. row \in 1..MaxRegistered /\ row <= registered.rows
        BY <3>2 DEF DevicesInv, DeviceTypes, DeviceRow, RowsNumbered
      <3>4. QED
        BY <1>7, <1>8, <3>2, <3>3
    <2>3. QED
      BY <1>7, <2>1, <2>2
  <1>13. /\ new \in DeviceRow /\ new.row = row /\ new.owner = call.owner /\ new.state = "fresh"
         /\ call.owner \in PushAccounts /\ call.room \subseteq Devices
    BY <1>1, <1>5, <1>12 DEF DeviceRow, CountedCall
  <1>14. \A x \in Devices : \A r \in devices'[x] : (x = d /\ r = new) \/ (x # d /\ r \in devices[x] /\ x \notin call.room)
    BY <1>6
  <1>15. pushCalls' \in [PushCalls -> PushRecord] /\ \A o \in PushCalls : pushCalls'[o].at = "counted" => pushCalls'[o].beside
    <2>1. ASSUME NEW o \in PushCalls
          PROVE  pushCalls'[o] \in PushRecord /\ (pushCalls'[o].at = "counted" => pushCalls'[o].beside)
      <3>1. CASE pushCalls'[o] = AtRest
        BY <3>1 DEF PushRecord, AtRest
      <3>2. CASE pushCalls'[o] # AtRest
        <4>1. pushCalls[o] \in PushRecord /\ pushCalls[o].at # "idle"
          BY <1>6, <3>2 DEF DevicesInv, DeviceTypes
        <4>2. pushCalls[o] \in LookedCall \/ pushCalls[o] \in CountedCall
          BY <4>1, PushCallFields
        <4>3. PICK raced : raced = [pushCalls[o] EXCEPT !.beside = TRUE]
          OBVIOUS
        <4>4. raced \in LookedCall \cup CountedCall /\ raced.beside
          BY <4>2, <4>3 DEF LookedCall, CountedCall
        <4>5. pushCalls'[o] = raced
          BY <1>6, <3>2, <4>3
        <4>6. QED
          BY <4>4, <4>5 DEF PushRecord
      <3>3. QED
        BY <3>1, <3>2
    <2>2. QED
      BY <1>6, <2>1
  <1>16. DeviceTypes'
    <2>1. \A x \in Devices : devices'[x] \subseteq DeviceRow
      BY <1>13, <1>14 DEF DevicesInv, DeviceTypes
    <2>2. \A x \in Devices : \A r, s \in devices'[x] : r = s
      BY <1>14 DEF DevicesInv, DeviceTypes
    <2>3. dropped' \subseteq 1..MaxRegistered /\ overtook' \in Nat
      BY <1>6, <1>7, <1>12 DEF DevicesInv, DeviceTypes
    <2>4. devices' \in [Devices -> SUBSET DeviceRow]
      BY <1>6, <2>1
    <2>5. QED
      BY <1>6, <1>8, <1>15, <2>2, <2>3, <2>4 DEF DevicesInv, DeviceTypes
  <1>17. RowsNumbered'
    <2>1. \A x \in Devices : \A r \in devices[x] : r.row \in 1..MaxRegistered /\ r.row <= registered.rows
      BY DEF DevicesInv, RowsNumbered, DeviceTypes, DeviceRow
    <2>2. QED
      BY <1>7, <1>8, <1>12, <1>13, <1>14, <2>1 DEF RowsNumbered
  \* The number of the new row is in use nowhere else.
  <1>18. \A x \in Devices : x # d => \A r \in devices[x] : r.row # row
    <2>1. ASSUME NEW x \in Devices, x # d, NEW r \in devices[x], r.row = row
          PROVE  FALSE
      <3>1. r.row <= registered.rows /\ r.row \in Int
        BY <2>1 DEF DevicesInv, RowsNumbered, DeviceTypes, DeviceRow
      <3>2. stays # {}
        BY <1>7, <1>12, <2>1, <3>1
      <3>3. QED
        BY <1>12, <2>1, <3>2 DEF DevicesInv, RowsDiffer
    <2>2. QED
      BY <2>1
  <1>19. RowsDiffer'
    BY <1>13, <1>14, <1>18 DEF DevicesInv, RowsDiffer
  <1>20. GoneIsKnown'
    BY <1>6, <1>13, <1>14 DEF DevicesInv, GoneIsKnown
  <1>21. CutOffForAReason'
    BY <1>6, <1>13, <1>14 DEF DevicesInv, CutOffForAReason
  <1>22. ASSUME NEW x, x.row \in 1..MaxRegistered, RowStays(x)
         PROVE  RowStays(x)'
    <2>1. x.row <= registered'.rows
      BY <1>7, <1>8, <1>22 DEF RowStays
    <2>2. row = x.row => d = x.device
      <3>1. row = x.row => stays # {}
        BY <1>7, <1>12, <1>22 DEF RowStays
      <3>2. QED
        BY <1>12, <1>22, <3>1 DEF RowStays
    <2>3. QED
      BY <1>13, <1>14, <1>22, <2>1, <2>2 DEF RowStays
  <1>23. ReadRowsStay'
    <2>1. \A x \in ReadRow : x.row \in 1..MaxRegistered
      BY DEF ReadRow
    <2>2. QED
      BY <1>6, <1>22, <2>1, PushingFields DEF DevicesInv, DeviceTypes, ReadRowsStay
  <1>24. ASSUME NEW i, i.row \in 1..MaxRegistered, ItemTrue(i)
         PROVE  ItemTrue(i)'
    <2>1. i.row <= registered'.rows
      BY <1>7, <1>8, <1>24 DEF ItemTrue
    <2>2. (\A x \in Devices : \A r \in devices[x] : r.row # i.row) => row # i.row
      BY <1>7, <1>12, <1>24 DEF ItemTrue
    <2>3. QED
      BY <1>6, <1>13, <1>14, <1>24, <2>1, <2>2 DEF ItemTrue
  <1>25. ReceiptsAreTrue'
    <2>1. \A job \in receipts : \A i \in job.items : i.row \in 1..MaxRegistered
      BY DEF DevicesInv, DeviceTypes, ReceiptJob, ReceiptItem
    <2>2. QED
      BY <1>6, <1>24, <2>1 DEF DevicesInv, ReceiptsAreTrue
  <1>26. CountFits'
    BY <1>15 DEF CountFits
  <1>27. RoomIsOwn'
    <2>1. ASSUME NEW o \in PushCalls, pushCalls'[o].at = "counted", NEW x \in pushCalls'[o].room, NEW r \in devices'[x]
          PROVE  r.owner = pushCalls'[o].owner
      <3>1. o # c /\ pushCalls[o].at # "idle" /\ pushCalls'[o] = [pushCalls[o] EXCEPT !.beside = TRUE]
        BY <1>6, <2>1 DEF AtRest
      <3>2. pushCalls[o] \in LookedCall \/ pushCalls[o] \in CountedCall
        BY <3>1, PushCallFields DEF DevicesInv, DeviceTypes
      <3>3. pushCalls[o] \in CountedCall /\ pushCalls[o].at = "counted"
        BY <2>1, <3>1, <3>2 DEF LookedCall, CountedCall
      <3>4. pushCalls'[o].room = pushCalls[o].room /\ pushCalls'[o].owner = pushCalls[o].owner
        BY <3>1, <3>3 DEF CountedCall
      <3>5. d \notin pushCalls[o].room
        BY <1>1, <1>2, <3>1, <3>3 DEF SaveDevice, HeldRows
      <3>6. x \in Devices /\ x # d
        BY <2>1, <3>3, <3>4, <3>5 DEF CountedCall
      <3>7. r \in devices[x]
        BY <1>14, <2>1, <3>6
      <3>8. QED
        BY <2>1, <3>3, <3>4, <3>7 DEF DevicesInv, RoomIsOwn
    <2>2. QED
      BY <2>1 DEF RoomIsOwn
  <1>28. LimitExceededByRacesOnly'
    <2>1. ASSUME NEW a \in PushAccounts
          PROVE  Cardinality(OwnedBy(a)') <= DeviceLimit + overtook'
      <3>1. CASE a # call.owner
        <4>1. OwnedBy(a)' \subseteq OwnedBy(a)
          BY <1>13, <1>14, <3>1 DEF OwnedBy
        <4>2. Cardinality(OwnedBy(a)') <= Cardinality(OwnedBy(a)) /\ Cardinality(OwnedBy(a)') \in Nat
          BY <4>1, OwnedIsFinite, FS_Subset, FS_CardinalityType
        <4>3. Cardinality(OwnedBy(a)) <= DeviceLimit + overtook /\ overtook <= overtook' /\ overtook' \in Nat
          BY <1>6, <1>7 DEF DevicesInv, LimitExceededByRacesOnly
        <4>4. QED
          BY <1>7, <4>2, <4>3, OwnedIsFinite, DeviceConstants
      <3>2. CASE a = call.owner
        <4>1. PICK grown : grown = (OwnedBy(a) \ call.room) \cup {d}
          OBVIOUS
        <4>2. OwnedBy(a)' \subseteq grown
          BY <1>14, <4>1 DEF OwnedBy
        <4>3. /\ IsFiniteSet(OwnedBy(a) \ call.room) /\ Cardinality(OwnedBy(a) \ call.room) \in Nat
              /\ Cardinality(OwnedBy(a) \ call.room) <= Cardinality(OwnedBy(a))
          BY OwnedIsFinite, FS_Subset, FS_CardinalityType
        <4>4. /\ IsFiniteSet(grown) /\ Cardinality(grown) \in Nat
              /\ Cardinality(grown) <= Cardinality(OwnedBy(a) \ call.room) + 1
          BY <4>1, <4>3, OneMore
        <4>5. Cardinality(OwnedBy(a)') <= Cardinality(grown) /\ Cardinality(OwnedBy(a)') \in Nat
          BY <4>2, <4>4, FS_Subset, FS_CardinalityType
        <4>6. Cardinality(OwnedBy(a)) <= DeviceLimit + overtook
          BY DEF DevicesInv, LimitExceededByRacesOnly
        <4>7. CASE call.beside
          BY <1>6, <1>7, <4>3, <4>4, <4>5, <4>6, <4>7, OwnedIsFinite, DeviceConstants
        <4>8. CASE ~call.beside
          <5>1. Cardinality(grown) <= DeviceLimit + overtook
            BY <1>1, <1>2, <1>6, <3>2, <4>1, <4>8 DEF DevicesInv, CountFits
          <5>2. QED
            BY <1>6, <1>7, <4>4, <4>5, <4>8, <5>1, DeviceConstants
        <4>9. QED
          BY <1>1, <4>7, <4>8 DEF CountedCall
      <3>3. QED
        BY <3>1, <3>2
    <2>2. QED
      BY <2>1 DEF LimitExceededByRacesOnly
  <1>29. OthersKeepTheirDevices
    <2>1. \A o \in PushCalls : SavedDevice(o) => o = c
      <3>1. ASSUME NEW o \in PushCalls, o # c, pushCalls[o].at = "counted", pushCalls'[o] = AtRest
            PROVE  FALSE
        <4>1. pushCalls'[o] = [pushCalls[o] EXCEPT !.beside = TRUE] /\ pushCalls[o] \in CountedCall
          BY <1>6, <3>1, PushCallFields DEF DevicesInv, DeviceTypes
        <4>2. pushCalls'[o].at = "counted"
          BY <4>1, <3>1 DEF CountedCall
        <4>3. QED
          BY <3>1, <4>2 DEF AtRest
      <3>2. QED
        BY <3>1 DEF SavedDevice
    <2>2. ASSUME NEW x \in Devices, x # d, x \notin OwnedBy(call.owner)
          PROVE  devices'[x] = devices[x]
      <3>1. x \in call.room => devices[x] = {}
        BY <1>1, <1>6, <2>2 DEF DevicesInv, RoomIsOwn, OwnedBy
      <3>2. QED
        BY <1>6, <2>2, <3>1
    <2>3. QED
      BY <1>1, <1>2, <2>1, <2>2 DEF OthersKeepTheirDevices
  <1>30. QED
    BY <1>11, <1>16, <1>17, <1>19, <1>20, <1>21, <1>23, <1>25, <1>26, <1>27, <1>28, <1>29 DEF DevicesInv

-----------------------------------------------------------------------------
\* Logging out, losing the app, growing stale.
LEMMA RowsGoKeeps ==
  ASSUME DevicesInv, NEW d \in Devices, NEW a, LogOut(a, d) \/ LoseApp(d) \/ GrowStale(d)
  PROVE  DevicesInv' /\ OthersKeepTheirDevices
  <1>1. /\ UNCHANGED <<pushCalls, pushing, receipts, pushed, registered, overtook>>
        /\ dropped \subseteq dropped' /\ dropped' \subseteq 1..MaxRegistered /\ installed' \subseteq Devices
    BY DEF LogOut, LoseApp, GrowStale, DevicesInv, DeviceTypes, DeviceRow
  <1>3. /\ devices' \in [Devices -> SUBSET DeviceRow] /\ RowsAge
        /\ \A e \in Devices : \A r, s \in devices'[e] : r = s
        /\ \A e \in Devices : \A r \in devices'[e] : r.state = "disabled" => r \in devices[e]
    <2>1. CASE LogOut(a, d) \/ LoseApp(d)
      BY <2>1 DEF LogOut, LoseApp, DevicesInv, DeviceTypes, RowsAge
    <2>2. CASE GrowStale(d)
      <3>1. PICK aged : aged = {[r EXCEPT !.state = "stale"] : r \in devices[d]}
        OBVIOUS
      <3>2. devices' = [devices EXCEPT ![d] = aged]
        BY <2>2, <3>1 DEF GrowStale
      <3>3. \A r \in aged : r \in DeviceRow /\ r.state = "stale" /\ \E s \in devices[d] : r.row = s.row /\ r.owner = s.owner
        <4>1. ASSUME NEW s \in devices[d], NEW r, r = [s EXCEPT !.state = "stale"]
              PROVE  r \in DeviceRow /\ r.state = "stale" /\ r.row = s.row /\ r.owner = s.owner
          <5>1. s \in DeviceRow
            BY DEF DevicesInv, DeviceTypes
          <5>2. QED
            BY <4>1, <5>1 DEF DeviceRow
        <4>2. QED
          BY <3>1, <4>1
      <3>4. \A r, s \in aged : r = s
        BY <3>1 DEF DevicesInv, DeviceTypes
      <3>5. QED
        BY <3>2, <3>3, <3>4 DEF DevicesInv, DeviceTypes, RowsAge
    <2>3. QED
      BY <2>1, <2>2
  <1>4. DeviceTypes'
    BY <1>1, <1>3 DEF DevicesInv, DeviceTypes
  <1>5. RowsNumbered' /\ RowsDiffer' /\ LimitExceededByRacesOnly'
    BY <1>1, <1>3, AgeKeepsRows, AgeKeepsLimit
  <1>6. RowsCountedOff' /\ RoomIsOwn' /\ CountFits' /\ OthersKeepTheirDevices
    BY <1>1, <1>3, RestKeepsCalls
  <1>7. ReadRowsStay' /\ ReceiptsAreTrue'
    BY <1>1, <1>3, AgeKeepsMessages DEF DevicesInv, ReadRowsStay, ReceiptsAreTrue
  <1>8. CutOffForAReason'
    BY <1>1, <1>3 DEF DevicesInv, CutOffForAReason
  <1>9. GoneIsKnown'
    <2>1. CASE installed' = installed
      <3>1. ASSUME NEW e \in Devices \ installed, NEW r \in devices'[e]
            PROVE  r.row \in dropped'
        <4>1. PICK s \in devices[e] : r.row = s.row
          BY <1>3, <3>1 DEF RowsAge
        <4>2. s.row \in dropped
          BY <3>1 DEF DevicesInv, GoneIsKnown
        <4>3. QED
          BY <1>1, <4>1, <4>2
      <3>2. QED
        BY <2>1, <3>1 DEF GoneIsKnown
    <2>2. CASE LoseApp(d)
      BY <2>2 DEF DevicesInv, GoneIsKnown, LoseApp
    <2>3. QED
      BY <2>1, <2>2 DEF LogOut, GrowStale
  <1>10. QED
    BY <1>4, <1>5, <1>6, <1>7, <1>8, <1>9 DEF DevicesInv

LEMMA ReadDevicesKeeps ==
  ASSUME DevicesInv, NEW a \in PushAccounts, ReadDevices(a)
  PROVE  DevicesInv' /\ OthersKeepTheirDevices
  <1>1. PICK rows : rows = UNION {{[row |-> r.row, device |-> d] :
                             r \in {x \in devices[d] : x.state # "disabled"}} : d \in OwnedBy(a)}
    OBVIOUS
  <1>2. PICK p : p = [at |-> "read", owner |-> a, rows |-> rows]
    OBVIOUS
  <1>3. pushing' = p /\ UNCHANGED <<devices, installed, pushCalls, receipts, pushed, registered, dropped, overtook>>
    BY <1>1, <1>2 DEF ReadDevices
  <1>4. \A x \in rows : \E d \in Devices : \E r \in devices[d] : x = [row |-> r.row, device |-> d]
    BY <1>1 DEF OwnedBy
  <1>5. \A x \in rows : x \in ReadRow /\ RowStays(x)
    <2>1. ASSUME NEW d \in Devices, NEW r \in devices[d], NEW x, x = [row |-> r.row, device |-> d]
          PROVE  x \in ReadRow /\ RowStays(x)
      <3>1. r \in DeviceRow /\ x.row = r.row /\ x.device = d
        BY <2>1 DEF DevicesInv, DeviceTypes
      <3>2. x \in ReadRow
        BY <2>1, <3>1 DEF ReadRow, DeviceRow
      <3>3. RowStays(x)
        BY <3>1 DEF DevicesInv, RowsNumbered, RowsDiffer, RowStays
      <3>4. QED
        BY <3>2, <3>3
    <2>2. QED
      BY <1>4, <2>1
  <1>6. p \in ReadPush /\ p.rows = rows
    BY <1>2, <1>5 DEF ReadPush
  <1>7. DeviceTypes'
    BY <1>3, <1>6 DEF DevicesInv, DeviceTypes
  <1>8. RowsAge
    BY <1>3 DEF RowsAge
  <1>9. RowsNumbered' /\ RowsDiffer' /\ LimitExceededByRacesOnly'
    BY <1>3, <1>8, AgeKeepsRows, AgeKeepsLimit
  <1>10. RowsCountedOff' /\ RoomIsOwn' /\ CountFits' /\ OthersKeepTheirDevices
    BY <1>3, <1>8, RestKeepsCalls
  <1>11. ReadRowsStay' /\ ReceiptsAreTrue'
    BY <1>3, <1>5, <1>6, <1>8, AgeKeepsMessages DEF DevicesInv, ReadRowsStay, ReceiptsAreTrue
  <1>12. GoneIsKnown' /\ CutOffForAReason'
    BY <1>3 DEF DevicesInv, GoneIsKnown, CutOffForAReason
  <1>13. QED
    BY <1>7, <1>9, <1>10, <1>11, <1>12 DEF DevicesInv

\* Disabling is by the numbers of rows: each is marked, or no row has it any more.
LEMMA DisablingKeeps ==
  ASSUME DevicesInv, NEW ids, DisableRows(ids),
         \A i \in ids : i \in dropped \/ \A d \in Devices : \A r \in devices[d] : r.row # i,
         pushing' = AtRest \/ pushing' = pushing,
         pushed' \in Nat, receipts' \subseteq ReceiptJob, \A job \in receipts' : \A i \in job.items : ItemTrue(i),
         UNCHANGED <<installed, pushCalls, registered, dropped, overtook>>
  PROVE  DevicesInv' /\ OthersKeepTheirDevices
  <1>1. ASSUME NEW d \in Devices, NEW r \in devices'[d]
        PROVE  /\ r \in DeviceRow
               /\ \E s \in devices[d] : /\ r.row = s.row /\ r.owner = s.owner
                                        /\ r.row \notin ids => r = s
    <2>1. PICK s \in devices[d] : r = IF s.row \in ids THEN [s EXCEPT !.state = "disabled"] ELSE s
      BY <1>1 DEF DisableRows
    <2>2. s \in DeviceRow
      BY DEF DevicesInv, DeviceTypes
    <2>3. PICK off : off = [s EXCEPT !.state = "disabled"]
      OBVIOUS
    <2>4. off \in DeviceRow /\ off.row = s.row /\ off.owner = s.owner
      BY <2>2, <2>3 DEF DeviceRow
    <2>5. CASE s.row \in ids
      BY <2>1, <2>3, <2>4, <2>5
    <2>6. CASE s.row \notin ids
      BY <2>1, <2>2, <2>6
    <2>7. QED
      BY <2>5, <2>6
  <1>2. devices' \in [Devices -> SUBSET DeviceRow] /\ RowsAge
    BY <1>1 DEF DisableRows, RowsAge
  <1>3. \A d \in Devices : \A r, s \in devices'[d] : r = s
    BY DEF DisableRows, DevicesInv, DeviceTypes
  <1>4. DeviceTypes'
    BY <1>2, <1>3 DEF DevicesInv, DeviceTypes
  <1>5. RowsNumbered' /\ RowsDiffer' /\ LimitExceededByRacesOnly'
    BY <1>2, AgeKeepsRows, AgeKeepsLimit
  <1>6. RowsCountedOff' /\ RoomIsOwn' /\ CountFits' /\ OthersKeepTheirDevices
    BY <1>2, RestKeepsCalls
  <1>7. ReadRowsStay' /\ ReceiptsAreTrue'
    BY <1>2, AgeKeepsMessages DEF DevicesInv, ReadRowsStay, ReceiptsAreTrue
  <1>8. GoneIsKnown'
    BY <1>2 DEF DevicesInv, GoneIsKnown, RowsAge
  <1>9. CutOffForAReason'
    <2>1. ASSUME NEW d \in Devices, NEW r \in devices'[d], r.state = "disabled"
          PROVE  r.row \in dropped
      <3>1. PICK s \in devices[d] : r.row = s.row /\ (r.row \notin ids => r = s)
        BY <1>1
      <3>2. CASE r.row \in ids
        BY <3>1, <3>2
      <3>3. CASE r.row \notin ids
        BY <2>1, <3>1, <3>3 DEF DevicesInv, CutOffForAReason
      <3>4. QED
        BY <3>2, <3>3
    <2>2. QED
      BY <2>1 DEF CutOffForAReason
  <1>10. QED
    BY <1>4, <1>5, <1>6, <1>7, <1>8, <1>9 DEF DevicesInv

\* What was read of a device without the app is marked, or gone.
LEMMA GoneItemsTrue ==
  ASSUME DevicesInv, NEW x \in ReadRow, RowStays(x), x.device \notin installed
  PROVE  x.row \in dropped \/ \A d \in Devices : \A r \in devices[d] : r.row # x.row
  <1>1. ASSUME NEW d \in Devices, NEW r \in devices[d], r.row = x.row
        PROVE  x.row \in dropped
    BY <1>1 DEF RowStays, DevicesInv, GoneIsKnown
  <1>2. QED
    BY <1>1

LEMMA SendPushKeeps ==
  ASSUME DevicesInv, SendPush
  PROVE  DevicesInv' /\ OthersKeepTheirDevices
  <1>1. /\ pushing \in ReadPush /\ pushing.rows \subseteq ReadRow /\ \A x \in pushing.rows : RowStays(x)
        /\ pushing' = AtRest /\ pushed' = pushed + 1 /\ UNCHANGED <<installed, pushCalls, registered, dropped, overtook>>
    BY PushingFields DEF SendPush, DevicesInv, DeviceTypes, ReadRowsStay
  <1>2. PICK atOnce \in SUBSET {x.row : x \in {y \in pushing.rows : y.device \notin installed}} :
          /\ DisableRows(atOnce)
          /\ LET items == {[row |-> x.row, gone |-> x.device \notin installed] :
                             x \in {y \in pushing.rows : y.row \notin atOnce}}
             IN receipts' = IF items = {} THEN receipts
                            ELSE receipts \cup {[no |-> pushed + 1, items |-> items, attempt |-> 1]}
    BY DEF SendPush
  <1>3. PICK items : items = {[row |-> x.row, gone |-> x.device \notin installed] :
                                 x \in {y \in pushing.rows : y.row \notin atOnce}}
    OBVIOUS
  <1>4. PICK job : job = [no |-> pushed + 1, items |-> items, attempt |-> 1]
    OBVIOUS
  <1>5. receipts' \subseteq receipts \cup {job}
    BY <1>2, <1>3, <1>4
  <1>6. \A i \in items : i \in ReceiptItem /\ ItemTrue(i)
    <2>1. ASSUME NEW x \in pushing.rows, NEW i, i = [row |-> x.row, gone |-> x.device \notin installed]
          PROVE  i \in ReceiptItem /\ ItemTrue(i)
      <3>1. x \in ReadRow /\ RowStays(x) /\ x.row \in 1..MaxRegistered
        BY <1>1 DEF ReadRow
      <3>2. PICK b \in BOOLEAN : b = (x.device \notin installed)
        <4>1. (x.device \notin installed) \in BOOLEAN
          OBVIOUS
        <4>2. QED
          BY <4>1
      <3>3. i = [row |-> x.row, gone |-> b]
        BY <2>1, <3>2
      <3>4. i \in ReceiptItem /\ i.row = x.row /\ i.gone = b
        BY <3>1, <3>3 DEF ReceiptItem
      <3>5. ItemTrue(i)
        <4>1. i.row <= registered.rows
          BY <3>1, <3>4 DEF RowStays
        <4>2. ASSUME x.device \notin installed
              PROVE  i.row \in dropped \/ \A d \in Devices : \A r \in devices[d] : r.row # i.row
          BY <3>1, <3>4, <4>2, GoneItemsTrue
        <4>3. i.gone => x.device \notin installed
          BY <3>2, <3>4
        <4>4. QED
          BY <4>1, <4>2, <4>3 DEF ItemTrue
      <3>6. QED
        BY <3>4, <3>5
    <2>2. QED
      BY <1>3, <2>1
  <1>7. job \in ReceiptJob /\ job.items = items /\ pushed' \in Nat
    BY <1>1, <1>4, <1>6, DeviceConstants DEF ReceiptJob, DevicesInv, DeviceTypes
  <1>8. receipts' \subseteq ReceiptJob /\ \A j \in receipts' : \A i \in j.items : ItemTrue(i)
    BY <1>5, <1>6, <1>7 DEF DevicesInv, DeviceTypes, ReceiptsAreTrue
  <1>9. \A i \in atOnce : i \in dropped \/ \A d \in Devices : \A r \in devices[d] : r.row # i
    BY <1>1, <1>2, GoneItemsTrue
  <1>10. QED
    BY <1>1, <1>2, <1>7, <1>8, <1>9, DisablingKeeps

LEMMA AskReceiptsKeeps ==
  ASSUME DevicesInv, NEW job \in receipts, AskReceipts(job)
  PROVE  DevicesInv' /\ OthersKeepTheirDevices
  <1>1. PICK missing \in SUBSET job.items :
          /\ DisableRows(Dead(job.items, missing))
          /\ receipts' = (receipts \ {job}) \cup
               IF missing # {} /\ job.attempt < ReceiptAttempts THEN {[job EXCEPT !.attempt = @ + 1]} ELSE {}
    BY DEF AskReceipts
  <1>2. /\ job \in ReceiptJob /\ \A i \in job.items : ItemTrue(i)
        /\ UNCHANGED <<installed, pushCalls, pushing, pushed, registered, dropped, overtook>>
    BY DEF AskReceipts, DevicesInv, DeviceTypes, ReceiptsAreTrue
  <1>3. PICK again : again = [job EXCEPT !.attempt = @ + 1]
    OBVIOUS
  <1>4. job.attempt < ReceiptAttempts => again \in ReceiptJob /\ again.items = job.items
    BY <1>2, <1>3, DeviceConstants DEF ReceiptJob
  <1>5. receipts' \subseteq ReceiptJob /\ \A j \in receipts' : \A i \in j.items : ItemTrue(i)
    BY <1>1, <1>2, <1>3, <1>4 DEF DevicesInv, DeviceTypes, ReceiptsAreTrue
  <1>6. PICK ids : ids = Dead(job.items, missing)
    OBVIOUS
  <1>7. \A i \in ids : i \in dropped \/ \A d \in Devices : \A r \in devices[d] : r.row # i
    BY <1>2, <1>6 DEF Dead, ItemTrue
  <1>8. pushed' \in Nat
    BY <1>2 DEF DevicesInv, DeviceTypes
  <1>9. DisableRows(ids)
    BY <1>1, <1>6
  <1>10. QED
    BY <1>2, <1>5, <1>7, <1>8, <1>9, DisablingKeeps

LEMMA DevicesSteps ==
  ASSUME DevicesInv, DevicesNext
  PROVE  DevicesInv' /\ OthersKeepTheirDevices
  <1>1. ASSUME NEW c \in PushCalls, CountDevices(c) \/ SaveDevice(c)
        PROVE  DevicesInv' /\ OthersKeepTheirDevices
    BY <1>1, CountDevicesKeeps, SaveDeviceKeeps
  <1>2. ASSUME NEW c \in PushCalls, NEW a \in PushAccounts, NEW d \in Devices, Register(c, a, d)
        PROVE  DevicesInv' /\ OthersKeepTheirDevices
    BY <1>2, RegisterKeeps
  <1>3. ASSUME NEW a \in PushAccounts, ReadDevices(a)
        PROVE  DevicesInv' /\ OthersKeepTheirDevices
    BY <1>3, ReadDevicesKeeps
  <1>4. ASSUME NEW a \in PushAccounts, NEW d \in Devices, LogOut(a, d)
        PROVE  DevicesInv' /\ OthersKeepTheirDevices
    BY <1>4, RowsGoKeeps
  <1>5. ASSUME NEW d \in Devices, LoseApp(d) \/ GrowStale(d)
        PROVE  DevicesInv' /\ OthersKeepTheirDevices
    BY <1>5, RowsGoKeeps
  <1>6. ASSUME SendPush \/ \E job \in receipts : AskReceipts(job)
        PROVE  DevicesInv' /\ OthersKeepTheirDevices
    BY <1>6, SendPushKeeps, AskReceiptsKeeps
  <1>7. QED
    BY <1>1, <1>2, <1>3, <1>4, <1>5, <1>6 DEF DevicesNext

LEMMA DevicesStutter ==
  ASSUME DevicesInv, UNCHANGED deviceVars
  PROVE  DevicesInv'
  BY DEF DevicesInv, deviceVars, DeviceTypes, RowsCountedOff, InFlight, RowsNumbered, RowsDiffer, GoneIsKnown,
         ReadRowsStay, RowStays, ReceiptsAreTrue, ItemTrue, CutOffForAReason, RoomIsOwn, CountFits, OwnedBy,
         LimitExceededByRacesOnly

\* Of the devices of an account there are more than the limit by races only, each that is
\* cut off had lost its app, and nobody's registration touches the devices of others.
THEOREM DevicesAreSound == DevicesSpec => DevicesPromise
  <1>1. DevicesInit => DevicesInv
    BY DevicesStart
  <1>2. DevicesInv /\ [DevicesNext]_deviceVars => DevicesInv'
    BY DevicesSteps, DevicesStutter
  <1>3. DevicesInv /\ [DevicesNext]_deviceVars => [OthersKeepTheirDevices]_deviceVars
    BY DevicesSteps
  <1>4. DevicesInv => DevicesTypeOK /\ LimitExceededByRacesOnly /\ CutOffForAReason
    BY DevicesTyped DEF DevicesInv
  <1>5. QED
    BY <1>1, <1>2, <1>3, <1>4, PTL DEF DevicesSpec, DevicesPromise

-----------------------------------------------------------------------------
(***************************************************************************)
(* The components together, as the run composes them: one of them moves in  *)
(* a behaviour, the rows of the others rest. So a behaviour of the whole is *)
(* one of every component, and their promises hold of it.                   *)
(***************************************************************************)
LEMMA PrivacyParts == Spec => ConsentSpec /\ ErasureSpec /\ RetentionSpec
  <1>1. Init => ConsentInit /\ ErasureInit /\ RetentionInit
    BY DEF Init
  <1>2. [Next]_partVars => [ConsentNext]_consentVars /\ [ErasureNext]_erasureVars /\ [RetentionNext]_retentionVars
    BY DEF Next, partVars
  <1>3. QED
    BY <1>1, <1>2, PTL DEF Spec, ConsentSpec, ErasureSpec, RetentionSpec

LEMMA RecordsParts == Spec => GuardiansSpec /\ FieldsSpec /\ PreferencesSpec /\ DevicesSpec /\ RegistrationsSpec
  <1>1. Init => GuardiansInit /\ FieldsInit /\ PreferencesInit /\ DevicesInit /\ RegistrationsInit
    BY DEF Init
  <1>2. [Next]_partVars => /\ [GuardiansNext]_guardianVars /\ [FieldsNext]_fieldVars
                           /\ [PreferencesNext]_prefVars /\ [DevicesNext]_deviceVars
                           /\ [RegistrationsNext]_registrationVars
    BY DEF Next, partVars
  <1>3. QED
    BY <1>1, <1>2, PTL DEF Spec, GuardiansSpec, FieldsSpec, PreferencesSpec, DevicesSpec, RegistrationsSpec

\* Consents, erasures and retention keep their promises.
THEOREM PrivacyIsSound == Spec => PrivacyPromise
  BY PrivacyParts, ConsentIsSound, ErasureIsSound, RetentionIsSound, PTL DEF PrivacyPromise

\* Guardians, custom fields, preferences, devices and the founding of clubs keep theirs.
THEOREM RecordsAreSound == Spec => RecordsPromise
  BY RecordsParts, GuardiansAreSound, FieldsAreSound, PreferencesAreSound, DevicesAreSound, RegistrationsAreSound, PTL
     DEF RecordsPromise
=============================================================================
