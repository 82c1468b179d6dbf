------------------------------ MODULE BoardProofs ------------------------------
(***************************************************************************)
(* Proofs about what the board does: Minutes, Election, Announcements, and  *)
(* the evaluation of ballots (Voting), each for any numbers of people,      *)
(* versions, rounds, senders, announcements, options and papers.  None of   *)
(* the properties is inductive: what a step writes it decided earlier, from *)
(* what it read, so each invariant says what is still true of a reading     *)
(* when it is used.                                                         *)
(***************************************************************************)
EXTENDS Minutes, Election, Announcements, Voting, FiniteSetTheorems, SequenceTheorems,
        WellFoundedInduction, TLAPS

-----------------------------------------------------------------------------
(***************************************************************************)
(* The minutes.  MinutesInv adds to the type what the lock on the meeting    *)
(* and the order of the versions guarantee: the two confirmations of a draft *)
(* are of two accounts, only the latest version is ever approved, and while   *)
(* an approval is under way the latest version waits for it.                 *)
(***************************************************************************)
\* What holds of one version, whoever wrote it.
SoundVersion(ver) ==
  /\ ver.at # "entwurf" => /\ ver.text # Blank
                           /\ \A r \in Roles : ver.by[r] # Unconfirmed
  /\ ver.by["leitung"] = ver.by["schriftfuehrung"] => ver.by["leitung"] = Unconfirmed
  /\ ver.approved => ver.at \in {"genehmigt", "archiviert"}

MinutesInv ==
  /\ MinutesTypeOK
  /\ \A v \in DOMAIN minutesVersions :
       /\ SoundVersion(minutesVersions[v])
       /\ minutesVersions[v].approved => v = Count
  /\ approving => LatestIs("zur_genehmigung")

\* What the type says of the sequence of versions.
LEMMA VersionsTyped ==
  ASSUME MinutesTypeOK
  PROVE  /\ Count \in Nat /\ DOMAIN minutesVersions = 1..Count
         /\ \A v \in 1..Count : minutesVersions[v] \in Version
         /\ MaxMinutes \in Nat /\ Count <= MaxMinutes
  BY LenProperties, ElementOfSeq, MinutesAssumption DEF MinutesTypeOK, Count

\* At most the latest version is approved: it is what members read.
LEMMA PublishedIsLatest ==
  MinutesInv => 
         /\ Approved = IF Count > 0 /\ minutesVersions[Count].approved THEN {Count} ELSE {}
         /\ Approved # {} => Published = <<minutesVersions[Count].text>>
  <1> SUFFICES ASSUME MinutesInv
               PROVE  /\ Approved = IF Count > 0 /\ minutesVersions[Count].approved
                                   THEN {Count} ELSE {}
                      /\ Approved # {} => Published = <<minutesVersions[Count].text>>
    OBVIOUS
  <1>1. Count \in Nat /\ DOMAIN minutesVersions = 1..Count
    BY VersionsTyped DEF MinutesInv
  <1>2. \A v \in 1..Count : minutesVersions[v].approved => v = Count
    BY <1>1 DEF MinutesInv
  <1>3. Approved = IF Count > 0 /\ minutesVersions[Count].approved THEN {Count} ELSE {}
    <2>1. Approved \subseteq {Count}
      BY <1>1, <1>2 DEF Approved
    <2>2. Count \in Approved <=> Count > 0 /\ minutesVersions[Count].approved
      BY <1>1 DEF Approved
    <2>3. QED
      BY <2>1, <2>2
  <1>4. ASSUME Approved = {Count} PROVE Published = <<minutesVersions[Count].text>>
    <2>1. (CHOOSE v \in Approved : \A w \in Approved : w <= v) = Count
      BY <1>1, <1>4
    <2>2. QED
      BY <1>4, <2>1 DEF Published
  <1>5. QED
    BY <1>3, <1>4

\* A step that writes the latest version, and takes no approval back.
Rewrites(ver) ==
  /\ Count > 0 /\ ver \in Version /\ SoundVersion(ver)
  /\ minutesVersions' = [minutesVersions EXCEPT ![Count] = ver]
  /\ minutesVersions[Count].approved
       => ver.approved /\ ver.text = minutesVersions[Count].text
  /\ notes' = notes /\ ruling' \in Rulings /\ approving' = FALSE

LEMMA LatestChanges ==
  ASSUME MinutesInv, NEW ver, Rewrites(ver)
  PROVE  MinutesInv' /\ (Published # <<>> => Published' = Published)
  <1> USE DEF Rewrites
  <1>1. /\ Count \in Nat /\ DOMAIN minutesVersions = 1..Count /\ Count \in 1..Count
        /\ \A v \in 1..Count : minutesVersions[v] \in Version
        /\ MaxMinutes \in Nat /\ Count <= MaxMinutes
    BY VersionsTyped DEF MinutesInv
  <1>2. /\ minutesVersions' \in Seq(Version) /\ Count' = Count
        /\ DOMAIN minutesVersions' = 1..Count
        /\ \A v \in 1..Count : minutesVersions'[v] = IF v = Count THEN ver ELSE minutesVersions[v]
    <2>1. minutesVersions \in Seq(Version) /\ Count = Len(minutesVersions)
      BY DEF MinutesInv, MinutesTypeOK, Count
    <2>2. /\ minutesVersions' \in Seq(Version) /\ Len(minutesVersions') = Len(minutesVersions)
          /\ \A v \in 1..Count : minutesVersions'[v] = IF v = Count THEN ver ELSE minutesVersions[v]
      BY <1>1, <2>1, ExceptSeq
    <2>3. QED
      BY <2>1, <2>2, LenProperties DEF Count
  <1>3. \A v \in 1..Count : /\ SoundVersion(minutesVersions'[v])
                            /\ minutesVersions'[v].approved => v = Count
    BY <1>1, <1>2 DEF MinutesInv
  <1>4. notes \subseteq {v \in 1..Count : minutesVersions'[v].approved}
    BY <1>1, <1>2 DEF MinutesInv, MinutesTypeOK
  <1>5. MinutesTypeOK'
    BY <1>1, <1>2, <1>4 DEF MinutesTypeOK, Count
  <1>6. MinutesInv'
    BY <1>2, <1>3, <1>5 DEF MinutesInv, SoundVersion
  <1>7. ASSUME Published # <<>> PROVE Published' = Published
    <2>1. Approved # {}
      BY <1>7 DEF Published
    <2>2. minutesVersions[Count].approved /\ Published = <<minutesVersions[Count].text>>
      BY <2>1, PublishedIsLatest
    <2>3. Count' \in Approved' /\ minutesVersions'[Count'] = ver
      BY <1>1, <1>2, <2>2 DEF Approved
    <2>4. Published' = <<minutesVersions'[Count'].text>>
      <3>1. (MinutesInv =>
               (Approved # {} => Published = <<minutesVersions[Count].text>>))'
        BY PublishedIsLatest, PTL
      <3>2. QED
        BY <1>6, <2>3, <3>1
    <2>5. QED
      BY <2>2, <2>3, <2>4
  <1>8. QED
    BY <1>6, <1>7

\* A step that writes no version, and judges a resolution only of submitted minutes.
LEMMA VersionsStay ==
  ASSUME MinutesInv, minutesVersions' = minutesVersions, ruling' \in Rulings,
         approving' \in BOOLEAN, approving' => LatestIs("zur_genehmigung"),
         notes' = notes \/ (Approved # {} /\ notes' = notes \cup {Count})
  PROVE  MinutesInv' /\ Published' = Published
  <1>1. Approved # {} => Count \in Approved
    BY PublishedIsLatest
  <1>2. notes' \subseteq {v \in DOMAIN minutesVersions : minutesVersions[v].approved}
    BY <1>1 DEF MinutesInv, MinutesTypeOK, Approved
  <1>3. MinutesTypeOK'
    BY <1>2 DEF MinutesInv, MinutesTypeOK
  <1>4. MinutesInv'
    BY <1>3 DEF MinutesInv, SoundVersion, Count, LatestIs
  <1>5. QED
    BY <1>4 DEF Published, Approved

\* A first draft, or one that supersedes submitted minutes.
Adds(old, text) ==
  /\ Approved = {} /\ old \in Seq(Version) /\ Len(old) = Count /\ Count < MaxMinutes
  /\ \A v \in 1..Count : SoundVersion(old[v]) /\ ~old[v].approved
  /\ text \in Texts /\ minutesVersions' = Append(old, Draft(text))
  /\ ruling' = ruling /\ notes' = notes /\ approving' = FALSE

LEMMA DraftAdded ==
  ASSUME MinutesInv, NEW old, NEW text, Adds(old, text)
  PROVE  MinutesInv' /\ (Published # <<>> => Published' = Published)
  <1> USE DEF Adds
  <1>1. Count \in Nat /\ MaxMinutes \in Nat /\ DOMAIN old = 1..Count
    BY VersionsTyped, LenProperties DEF MinutesInv
  <1>2. Draft(text) \in Version /\ SoundVersion(Draft(text)) /\ ~Draft(text).approved
    BY DEF Draft, Version, SoundVersion, Roles
  <1>3. /\ minutesVersions' \in Seq(Version) /\ Len(minutesVersions') = Count + 1
        /\ DOMAIN minutesVersions' = 1..(Count + 1)
        /\ \A v \in 1..(Count + 1) : minutesVersions'[v] = IF v = Count + 1 THEN Draft(text)
                                                           ELSE old[v]
    <2>1. /\ minutesVersions' \in Seq(Version) /\ Len(minutesVersions') = Count + 1
          /\ \A v \in 1..(Count + 1) : minutesVersions'[v] = IF v = Count + 1 THEN Draft(text)
                                                             ELSE old[v]
      BY <1>1, <1>2
    <2>2. QED
      BY <2>1, LenProperties
  <1>4. \A v \in 1..(Count + 1) : SoundVersion(minutesVersions'[v]) /\ ~minutesVersions'[v].approved
    BY <1>1, <1>2, <1>3
  <1>5. notes' = {}
    BY DEF MinutesInv, MinutesTypeOK, Approved
  <1>6. MinutesTypeOK'
    <2> HIDE DEF Adds
    <2>1. ruling' = ruling /\ approving' = FALSE /\ Count < MaxMinutes
      BY DEF Adds
    <2>2. Len(minutesVersions') <= MaxMinutes
      BY <1>1, <1>3, <2>1
    <2>3. QED
      BY <1>3, <1>5, <2>1, <2>2 DEF MinutesInv, MinutesTypeOK
  <1>7. MinutesInv'
    BY <1>3, <1>4, <1>6 DEF MinutesInv, SoundVersion
  <1>8. Published = <<>>
    BY DEF Published
  <1>9. QED
    BY <1>7, <1>8

\* Every operation on the minutes keeps the invariant, and what was published.
LEMMA MinutesStep ==
  ASSUME MinutesInv, [MinutesNext]_minutesVars
  PROVE  MinutesInv' /\ (Published # <<>> => Published' = Published)
  <1> DEFINE Goal == MinutesInv' /\ (Published # <<>> => Published' = Published)
             last == minutesVersions[Count]
  <1>0. /\ Count \in Nat /\ DOMAIN minutesVersions = 1..Count
        /\ \A v \in 1..Count : minutesVersions[v] \in Version /\ SoundVersion(minutesVersions[v])
        /\ MaxMinutes \in Nat /\ Count <= MaxMinutes
        /\ ruling \in Rulings /\ approving \in BOOLEAN /\ minutesVersions \in Seq(Version)
    BY VersionsTyped DEF MinutesInv, MinutesTypeOK
  <1>1. ASSUME Count > 0
        PROVE  last \in Version /\ SoundVersion(last) /\ Count \in 1..Count
    BY <1>0, <1>1
  <1>2. ASSUME NEW text \in Texts, SaveDraft(text) PROVE Goal
    <2>1. /\ approving' = FALSE /\ ruling' = ruling /\ notes' = notes
      BY <1>0, <1>2 DEF SaveDraft, MinutesFree
    <2>2. CASE Count = 0 /\ MaxMinutes > 0 /\ minutesVersions' = <<Draft(text)>>
      <3>1. Approved = {}
        BY <1>0, <2>2, PublishedIsLatest
      <3>2. minutesVersions' = Append(<<>>, Draft(text)) /\ <<>> \in Seq(Version) /\ Len(<<>>) = Count
        BY <2>2, EmptySeq
      <3>3. QED
        <4>1. \A v \in 1..Count : SoundVersion(<<>>[v]) /\ ~<<>>[v].approved
          BY <2>2
        <4>2. Adds(<<>>, text)
          BY <1>0, <2>1, <2>2, <3>1, <3>2, <4>1 DEF Adds
        <4>3. QED
          BY <4>2, DraftAdded
    <2>3. CASE LatestIs("entwurf") /\ minutesVersions' = [minutesVersions EXCEPT ![Count] = Draft(text)]
      <3>1. Draft(text) \in Version /\ SoundVersion(Draft(text))
        BY DEF Draft, Version, SoundVersion, Roles
      <3>2. Count > 0 /\ ~last.approved
        BY <1>1, <2>3 DEF LatestIs, SoundVersion
      <3>3. Rewrites(Draft(text))
        BY <1>0, <2>1, <2>3, <3>1, <3>2 DEF Rewrites
      <3>4. QED
        BY <3>3, LatestChanges
    <2>4. QED
      BY <1>2, <2>2, <2>3 DEF SaveDraft
  <1>3. ASSUME NEW role \in Roles, NEW u \in Clerks, Confirm(role, u) PROVE Goal
    <2>1. Count > 0 /\ last.at = "entwurf" /\ approving' = FALSE /\ ruling' = ruling /\ notes' = notes
      BY <1>0, <1>3 DEF Confirm, MinutesFree, LatestIs
    <2>2. last \in Version /\ SoundVersion(last)
      BY <1>1, <2>1
    <2> DEFINE ver == [last EXCEPT !.by[role] = u]
    <2>3. minutesVersions' = [minutesVersions EXCEPT ![Count] = ver]
      BY <1>3 DEF Confirm
    <2>4. ver \in Version /\ ver.at = "entwurf" /\ ver.approved = last.approved
          /\ ver.text = last.text /\ ver.by = [last.by EXCEPT ![role] = u]
      BY <2>1, <2>2 DEF Version
    <2>5. last.by \in [Roles -> Clerks \cup {Unconfirmed}] /\ last.by[role] = Unconfirmed
          /\ \A r \in Roles : last.by[r] # u
      BY <1>3, <2>2 DEF Confirm, OpenTo, Version
    <2>6. ver.by["leitung"] # ver.by["schriftfuehrung"]
      BY <2>4, <2>5 DEF Roles
    <2>7. SoundVersion(ver)
      BY <2>1, <2>2, <2>4, <2>6 DEF SoundVersion
    <2> HIDE DEF ver
    <2>8. Rewrites(ver)
      BY <1>0, <2>1, <2>2, <2>3, <2>4, <2>7 DEF Rewrites
    <2>9. QED
      BY <2>8, LatestChanges
  <1>4. CASE Submit
    <2> DEFINE ver == [last EXCEPT !.at = "zur_genehmigung"]
    <2>1. Count > 0 /\ last.at = "entwurf" /\ approving' = FALSE /\ ruling' = ruling /\ notes' = notes
          /\ last.text # Blank /\ (\A r \in Roles : last.by[r] # Unconfirmed)
          /\ minutesVersions' = [minutesVersions EXCEPT ![Count] = ver]
      BY <1>0, <1>4 DEF Submit, MinutesFree, LatestIs
    <2>2. last \in Version /\ SoundVersion(last)
      BY <1>1, <2>1
    <2>3. ver \in Version /\ SoundVersion(ver) /\ ver.approved = last.approved /\ ver.text = last.text
      BY <2>1, <2>2 DEF Version, SoundVersion
    <2> HIDE DEF ver
    <2>4. Rewrites(ver)
      BY <1>0, <2>1, <2>2, <2>3 DEF Rewrites
    <2>5. QED
      BY <2>4, LatestChanges
  <1>5. CASE Reopen
    <2> DEFINE ver == [last EXCEPT !.at = "archiviert"]
               old == [minutesVersions EXCEPT ![Count] = ver]
    <2>1. Count > 0 /\ last.at = "zur_genehmigung" /\ approving' = FALSE
          /\ ruling' = ruling /\ notes' = notes /\ Count < MaxMinutes
          /\ minutesVersions' = Append(old, Draft(last.text))
      BY <1>0, <1>5 DEF Reopen, MinutesFree, LatestIs, Reopenable
    <2>2. last \in Version /\ SoundVersion(last) /\ ~last.approved
      BY <1>1, <2>1 DEF SoundVersion
    <2>3. ver \in Version /\ SoundVersion(ver) /\ ~ver.approved /\ last.text \in Texts
      BY <2>1, <2>2 DEF Version, SoundVersion
    <2> HIDE DEF ver
    <2>4. /\ old \in Seq(Version) /\ Len(old) = Count
          /\ \A v \in 1..Count : old[v] = IF v = Count THEN ver ELSE minutesVersions[v]
      BY <1>0, <1>1, <2>1, <2>3, ExceptSeq DEF Count
    <2>5. Approved = {}
      BY <2>2, PublishedIsLatest
    <2>6. \A v \in 1..Count : SoundVersion(old[v]) /\ ~old[v].approved
      BY <1>0, <2>3, <2>4, <2>5 DEF Approved
    <2> HIDE DEF old
    <2>7. Adds(old, last.text)
      BY <1>0, <2>1, <2>3, <2>4, <2>5, <2>6 DEF Adds
    <2>8. QED
      BY <2>7, DraftAdded
  <1>6. CASE ApproveReads \/ ApproveRollsBack \/ LaterMeetingDeleted
             \/ \E to \in {"accepted", "rejected"} : Resolve(to)
    <2>1. /\ minutesVersions' = minutesVersions /\ ruling' \in Rulings
          /\ notes' = notes /\ approving' \in BOOLEAN
          /\ approving' => LatestIs("zur_genehmigung")
      <3>0. approving => LatestIs("zur_genehmigung")
        BY DEF MinutesInv
      <3>1. CASE ApproveReads
        BY <1>0, <3>1 DEF ApproveReads
      <3>2. CASE ApproveRollsBack
        BY <1>0, <3>2 DEF ApproveRollsBack
      <3>3. CASE LaterMeetingDeleted
        BY <1>0, <3>0, <3>3 DEF LaterMeetingDeleted, Rulings
      <3>4. ASSUME NEW to \in {"accepted", "rejected"}, Resolve(to)
            PROVE  /\ minutesVersions' = minutesVersions /\ ruling' \in Rulings
                   /\ notes' = notes /\ approving' \in BOOLEAN
                   /\ approving' => LatestIs("zur_genehmigung")
        BY <1>0, <3>0, <3>4 DEF Resolve, Rulings
      <3>5. QED
        BY <1>6, <3>1, <3>2, <3>3, <3>4
    <2>2. QED
      BY <2>1, VersionsStay
  <1>7. CASE ApproveWrites
    <2> DEFINE ver == [last EXCEPT !.at = "genehmigt", !.approved = TRUE]
    <2>1. Count > 0 /\ last.at = "zur_genehmigung" /\ approving' = FALSE
          /\ ruling' = ruling /\ notes' = notes
      BY <1>7 DEF ApproveWrites, MinutesInv, LatestIs
    <2>0. \/ minutesVersions' = minutesVersions
          \/ minutesVersions' = [minutesVersions EXCEPT ![Count] = ver]
      BY <1>7 DEF ApproveWrites
    <2>2. last \in Version /\ SoundVersion(last)
      BY <1>1, <2>1
    <2>3. ver \in Version /\ SoundVersion(ver) /\ ver.approved /\ ver.text = last.text
      BY <2>1, <2>2 DEF Version, SoundVersion
    <2> HIDE DEF ver
    <2>4. CASE minutesVersions' = minutesVersions
      BY <1>0, <2>1, <2>4, VersionsStay
    <2>5. CASE minutesVersions' = [minutesVersions EXCEPT ![Count] = ver]
      <3>1. Rewrites(ver)
        BY <1>0, <2>1, <2>2, <2>3, <2>5 DEF Rewrites
      <3>2. QED
        BY <3>1, LatestChanges
    <2>6. QED
      BY <2>0, <2>4, <2>5
  <1>8. CASE Archive
    <2> DEFINE ver == [last EXCEPT !.at = "archiviert"]
    <2>1. Count > 0 /\ last.at = "genehmigt" /\ approving' = FALSE /\ ruling' = ruling /\ notes' = notes
          /\ minutesVersions' = [minutesVersions EXCEPT ![Count] = ver]
      BY <1>0, <1>8 DEF Archive, MinutesFree, LatestIs
    <2>2. last \in Version /\ SoundVersion(last)
      BY <1>1, <2>1
    <2>3. ver \in Version /\ SoundVersion(ver) /\ ver.approved = last.approved /\ ver.text = last.text
      BY <2>1, <2>2 DEF Version, SoundVersion
    <2> HIDE DEF ver
    <2>4. Rewrites(ver)
      BY <1>0, <2>1, <2>2, <2>3 DEF Rewrites
    <2>5. QED
      BY <2>4, LatestChanges
  <1>9. CASE Amend
    <2>1. Approved = {Count} /\ (CHOOSE v \in Approved : \A w \in Approved : w <= v) = Count
      <3>1. Approved = {Count}
        BY <1>9, PublishedIsLatest DEF Amend
      <3>2. QED
        BY <1>0, <3>1
    <2>2. /\ minutesVersions' = minutesVersions /\ ruling' = ruling /\ approving' = approving
          /\ notes' = notes \cup {Count}
      BY <1>9, <2>1 DEF Amend
    <2>3. QED
      BY <1>0, <2>1, <2>2, VersionsStay DEF MinutesInv
  <1>10. CASE UNCHANGED minutesVars
    <2>1. /\ minutesVersions' = minutesVersions /\ ruling' = ruling /\ approving' = approving
          /\ notes' = notes
      BY <1>10 DEF minutesVars
    <2>2. QED
      BY <1>0, <2>1, VersionsStay DEF MinutesInv
  <1>11. QED
    BY <1>2, <1>3, <1>4, <1>5, <1>6, <1>7, <1>8, <1>9, <1>10 DEF MinutesNext

\* Two people stand for every text that went to approval, and what members have
\* once read as approved stays, whatever is edited, superseded or approved meanwhile.
THEOREM MinutesAreSound == MinutesSpec => MinutesPromise
  <1>1. MinutesInit => MinutesInv
    <2> SUFFICES ASSUME MinutesInit PROVE MinutesInv
      OBVIOUS
    <2>1. <<>> \in Seq(Version) /\ Len(<<>>) = 0 /\ DOMAIN <<>> = {} /\ 0 <= MaxMinutes
      BY EmptySeq, MinutesAssumption
    <2>2. MinutesTypeOK
      BY <2>1 DEF MinutesInit, MinutesTypeOK, Rulings
    <2>3. QED
      BY <2>1, <2>2 DEF MinutesInit, MinutesInv
  <1>2. MinutesInv /\ [MinutesNext]_minutesVars
          => MinutesInv' /\ [Published # <<>> => Published' = Published]_minutesVars
    BY MinutesStep
  <1>3. MinutesInv => MinutesTypeOK /\ TwoPeopleStandForTheText
    BY DEF MinutesInv, TwoPeopleStandForTheText, SoundVersion, Roles
  <1>4. QED
    BY <1>1, <1>2, <1>3, PTL DEF MinutesSpec, MinutesPromise, PublishedStands

-----------------------------------------------------------------------------
(***************************************************************************)
(* The election.  ElectionInv says of the round that is not decided yet that  *)
(* it is the only one and that nobody on it is seated, so that deciding it    *)
(* takes no seat away; of an answer and of a link under way that the          *)
(* candidate still waits; and of the accepted that they hold the office.      *)
(***************************************************************************)
\* The office, before and after it is handed over.
OfficeInv ==
  /\ \A c \in Candidates : standingOf[c] = "accepted" => c \in holders
  /\ stage # "closed" => former \subseteq holders
  /\ stage = "closed" => \A c \in Candidates :
       /\ standingOf[c] \notin Unanswered
       /\ c \in holders => standingOf[c] = "accepted"

\* What an answer and a link have read is still so.
CallsInv ==
  /\ answering # Silent => /\ standingOf[answering.who] = "elected"
                           /\ answering.account => answering.who \in accounts
  /\ \A c \in Candidates : linking[c] = "pending" => standingOf[c] = "pending_account"

\* A round that can still seat somebody.
Undecided(r) == rounds[r].at # "cancelled" /\ ~rounds[r].decided

RoundsInv ==
  \A r \in DOMAIN rounds :
    /\ rounds[r].elected \cup rounds[r].tied \subseteq rounds[r].on
    /\ Undecided(r) => /\ r = Len(rounds)
                       /\ \A c \in rounds[r].on : standingOf[c] \notin Seated

ElectionInv == ElectionTypeOK /\ OfficeInv /\ CallsInv /\ RoundsInv

\* A seat is won in a round that is decided, and lost by its own refusal.
SeatStep ==
  \A c \in Candidates :
    /\ standingOf'[c] \in Seated /\ standingOf[c] \notin Seated =>
         \E r \in DOMAIN rounds : /\ ~rounds[r].decided /\ rounds'[r].decided
                                  /\ c \in rounds[r].elected \cup rounds[r].tied
    /\ standingOf[c] \in Seated /\ standingOf'[c] \notin Seated =>
         answering.who = c /\ ~answering.accept

\* What a set of numbers up to a bound has: a greatest member.
LEMMA GreatestExists ==
  ASSUME NEW n \in Nat, NEW S \in SUBSET (1..n), S # {}
  PROVE  \E x \in S : \A y \in S : y <= x
  <1> DEFINE R == OpToRel(<, Nat)
             T == {n - x : x \in S}
  <1>1. \A x, y \in Nat : x < y => <<x, y>> \in R
    BY DEF OpToRel
  <1>2. T \subseteq Nat /\ T # {}
    <2>1. \A x \in S : x \in Int /\ 1 <= x /\ x <= n
      OBVIOUS
    <2>2. \A x \in S : n - x \in Nat
      BY <2>1
    <2>3. PICK x \in S : TRUE
      OBVIOUS
    <2>4. n - x \in T
      OBVIOUS
    <2>5. QED
      BY <2>2, <2>4
  <1>3. IsWellFoundedOn(R, Nat)
    BY NatLessThanWellFounded
  <1>4. PICK m \in T : \A k \in T : ~(<<k, m>> \in R)
    <2> HIDE DEF T, R
    <2>1. QED
      BY <1>2, <1>3, WFMin
  <1>5. \A k \in T : m <= k
    <2> HIDE DEF T, R
    <2>1. m \in Nat /\ \A k \in T : k \in Nat /\ ~(k < m)
      BY <1>1, <1>2, <1>4
    <2>2. QED
      BY <2>1
  <1>6. PICK x \in S : m = n - x
    BY <1>4
  <1>7. ASSUME NEW y \in S PROVE y <= x
    <2>1. n - y \in T
      OBVIOUS
    <2>2. n - x <= n - y
      BY <1>5, <1>6, <2>1
    <2>3. x \in Int /\ y \in Int
      OBVIOUS
    <2>4. QED
      BY <2>2, <2>3
  <1>8. QED
    BY <1>6, <1>7

\* The types, one by one.
LEMMA ElectionTypes ==
  ASSUME ElectionTypeOK
  PROVE  /\ seats \in 0..MaxSeats /\ MaxSeats \in Nat /\ MaxRounds \in Nat
         /\ stage \in Stages /\ lead \in Candidates \cup {Unled}
         /\ standingOf \in [Candidates -> Standings]
         /\ rounds \in Seq(Round) /\ Len(rounds) \in Nat /\ Len(rounds) <= MaxRounds
         /\ DOMAIN rounds = 1..Len(rounds)
         /\ \A r \in 1..Len(rounds) : rounds[r] \in Round
         /\ accounts \subseteq Candidates /\ holders \subseteq accounts /\ former \subseteq Candidates
         /\ answering \in {Silent} \cup [who: Candidates, accept: BOOLEAN, account: BOOLEAN]
         /\ linking \in [Candidates -> {"no", "pending", "nothing"}]
  <1>1. rounds \in Seq(Round)
    BY DEF ElectionTypeOK
  <1>2. /\ Len(rounds) \in Nat /\ DOMAIN rounds = 1..Len(rounds)
        /\ \A r \in 1..Len(rounds) : rounds[r] \in Round
    BY <1>1, LenProperties, ElementOfSeq
  <1>3. QED
    BY <1>1, <1>2, ElectionAssumption DEF ElectionTypeOK

-----------------------------------------------------------------------------
\* A step that seats and unseats nobody and leaves the rounds alone.
LEMMA NobodyMoves ==
  ASSUME ElectionInv, ElectionTypeOK', UNCHANGED <<stage, rounds, accounts, holders, former>>,
         \A c \in Candidates : standingOf'[c] = standingOf[c]
                               \/ {standingOf[c], standingOf'[c]} \cap Seated = {},
         CallsInv'
  PROVE  ElectionInv' /\ SeatStep
  <1>1. \A c \in Candidates :
          /\ \A S \in {Seated, Unanswered, {"accepted"}} : standingOf'[c] \in S <=> standingOf[c] \in S
          /\ standingOf'[c] = "accepted" <=> standingOf[c] = "accepted"
    BY DEF Seated, Unanswered
  <1>2. OfficeInv'
    BY <1>1 DEF ElectionInv, OfficeInv
  <1>3. RoundsInv'
    <2>1. \A r \in DOMAIN rounds : rounds[r].on \subseteq Candidates
      BY ElectionTypes DEF ElectionInv, Round
    <2>2. QED
      BY <1>1, <2>1 DEF ElectionInv, RoundsInv, Undecided
  <1>4. SeatStep
    BY <1>1 DEF SeatStep
  <1>5. QED
    BY <1>2, <1>3, <1>4 DEF ElectionInv

\* A step that changes the rounds and neither seats nor unseats anybody.
LEMMA RoundsMove ==
  ASSUME ElectionInv, UNCHANGED <<seats, lead, standingOf, accounts, holders, former,
                                  answering, linking>>,
         stage' = stage \/ (stage # "closed" /\ stage' = "running"),
         rounds' \in Seq(Round) /\ Len(rounds') <= MaxRounds, RoundsInv'
  PROVE  ElectionInv' /\ SeatStep
  <1>1. ElectionTypeOK'
    BY DEF ElectionInv, ElectionTypeOK, Stages
  <1>2. OfficeInv' /\ CallsInv'
    BY DEF ElectionInv, OfficeInv, CallsInv
  <1>3. SeatStep
    BY DEF SeatStep
  <1>4. QED
    BY <1>1, <1>2, <1>3 DEF ElectionInv

\* Changes of the office, of the candidates before a round, and reads.
LEMMA QuietSteps ==
  ASSUME ElectionInv,
         \/ \E n \in 1..MaxSeats : ChangeSeats(n)
         \/ \E c \in Candidates \cup {Unled} : ChangeLead(c)
         \/ \E c \in Candidates :
              \/ \E w \in BOOLEAN : Propose(c, w) \/ AnswerReads(c, w)
              \/ \E to \in {"willing", "declined", "withdrawn"} : SetStanding(c, to)
              \/ RemoveCandidate(c) \/ LinkReads(c) \/ LinkRollsBack(c)
         \/ AnswerRollsBack
         \/ UNCHANGED electionVars
  PROVE  ElectionInv' /\ SeatStep
  <1> DEFINE Frame == UNCHANGED <<stage, rounds, accounts, holders, former>>
             Calm == \A c \in Candidates : standingOf'[c] = standingOf[c]
                               \/ {standingOf[c], standingOf'[c]} \cap Seated = {}
             Quiet == ElectionTypeOK' /\ Frame /\ Calm /\ CallsInv'
  <1>0. ElectionTypeOK /\ CallsInv
    BY DEF ElectionInv
  <1>1. ASSUME NEW n \in 1..MaxSeats, ChangeSeats(n) PROVE Quiet
    BY <1>0, <1>1 DEF ChangeSeats, ElectionTypeOK, CallsInv
  <1>2. ASSUME NEW c \in Candidates \cup {Unled}, ChangeLead(c) PROVE Quiet
    BY <1>0, <1>2 DEF ChangeLead, ElectionTypeOK, CallsInv
  <1>3. ASSUME NEW c \in Candidates, NEW to \in Standings \ Seated, ElectionFree,
               standingOf[c] \notin Seated, standingOf' = [standingOf EXCEPT ![c] = to],
               UNCHANGED <<seats, stage, lead, rounds, accounts, holders, former, answering, linking>>
        PROVE  Quiet
    <2>1. standingOf \in [Candidates -> Standings] /\ standingOf' \in [Candidates -> Standings]
      BY <1>0, <1>3 DEF ElectionTypeOK
    <2>2. ElectionTypeOK'
      BY <1>0, <1>3, <2>1 DEF ElectionTypeOK
    <2>3. \A d \in Candidates : standingOf'[d] = IF d = c THEN to ELSE standingOf[d]
      BY <1>3, <2>1
    <2>4. Calm
      BY <1>3, <2>3
    <2>5. CallsInv'
      BY <1>0, <1>3, <2>3 DEF CallsInv, ElectionFree, Seated
    <2>6. QED
      BY <1>3, <2>2, <2>4, <2>5
  <1>4. ASSUME NEW c \in Candidates, NEW w \in BOOLEAN, Propose(c, w) PROVE Quiet
    BY <1>3, <1>4 DEF Propose, Standings, Seated
  <1>5. ASSUME NEW c \in Candidates, NEW to \in {"willing", "declined", "withdrawn"},
               SetStanding(c, to)
        PROVE  Quiet
    BY <1>3, <1>5 DEF SetStanding, Standings, Seated
  <1>6. ASSUME NEW c \in Candidates, RemoveCandidate(c) PROVE Quiet
    BY <1>3, <1>6 DEF RemoveCandidate, Removable, Standings, Seated
  <1>7. ASSUME NEW c \in Candidates, NEW w \in BOOLEAN, AnswerReads(c, w) PROVE Quiet
    <2>1. ElectionTypeOK'
      BY <1>0, <1>7 DEF AnswerReads, ElectionTypeOK
    <2>2. CallsInv'
      BY <1>0, <1>7 DEF AnswerReads, CallsInv
    <2>3. QED
      BY <1>7, <2>1, <2>2 DEF AnswerReads
  <1>8. ASSUME NEW c \in Candidates, LinkReads(c) \/ LinkRollsBack(c) PROVE Quiet
    <2>1. ElectionTypeOK'
      BY <1>0, <1>8 DEF LinkReads, LinkRollsBack, ElectionTypeOK
    <2>2. linking \in [Candidates -> {"no", "pending", "nothing"}]
      BY <1>0 DEF ElectionTypeOK
    <2>3. CallsInv'
      BY <1>0, <1>8, <2>2 DEF LinkReads, LinkRollsBack, CallsInv
    <2>4. QED
      BY <1>8, <2>1, <2>3 DEF LinkReads, LinkRollsBack
  <1>9. ASSUME AnswerRollsBack \/ UNCHANGED electionVars PROVE Quiet
    BY <1>0, <1>9 DEF AnswerRollsBack, electionVars, ElectionTypeOK, CallsInv
  <1>10. Quiet
    BY <1>1, <1>2, <1>4, <1>5, <1>6, <1>7, <1>8, <1>9
  <1>11. QED
    BY <1>10, NobodyMoves

\* A round is created, opened, counted, finalized or called off.
LEMMA RoundSteps ==
  ASSUME ElectionInv,
         \/ \E pool \in SUBSET Candidates : CreateRound(pool)
         \/ \E r \in DOMAIN rounds :
              \/ RoundMoves(r, {"draft"}, "open")
              \/ RoundMoves(r, {"counted"}, "finalized")
              \/ RoundMoves(r, {"draft", "open"}, "cancelled")
              \/ \E best, level \in SUBSET Candidates : RoundCounted(r, best, level)
  PROVE  ElectionInv' /\ SeatStep
  <1>0. /\ rounds \in Seq(Round) /\ Len(rounds) \in Nat /\ DOMAIN rounds = 1..Len(rounds)
        /\ Len(rounds) <= MaxRounds /\ MaxRounds \in Nat
        /\ \A r \in 1..Len(rounds) : rounds[r] \in Round
        /\ RoundsInv
    BY ElectionTypes DEF ElectionInv
  <1>1. ASSUME NEW r \in 1..Len(rounds), NEW ver \in Round,
               rounds' = [rounds EXCEPT ![r] = ver],
               ver.elected \cup ver.tied \subseteq ver.on, ver.on = rounds[r].on,
               ver.at # "cancelled" => rounds[r].at # "cancelled",
               ver.decided = rounds[r].decided,
               UNCHANGED <<seats, stage, lead, standingOf, accounts, holders, former,
                           answering, linking>>
        PROVE  ElectionInv' /\ SeatStep
    <2>1. /\ rounds' \in Seq(Round) /\ Len(rounds') = Len(rounds)
          /\ \A q \in 1..Len(rounds) : rounds'[q] = IF q = r THEN ver ELSE rounds[q]
      BY <1>0, <1>1, ExceptSeq
    <2>2. DOMAIN rounds' = 1..Len(rounds)
      BY <2>1, LenProperties
    <2>3. RoundsInv'
      <3> SUFFICES ASSUME NEW q \in 1..Len(rounds)
                   PROVE  /\ rounds'[q].elected \cup rounds'[q].tied \subseteq rounds'[q].on
                          /\ Undecided(q)' => /\ q = Len(rounds)
                                              /\ \A c \in rounds'[q].on : standingOf'[c] \notin Seated
        BY <2>1, <2>2 DEF RoundsInv
      <3>1. Undecided(q)' => Undecided(q)
        BY <1>1, <2>1 DEF Undecided
      <3>2. rounds'[q].on = rounds[q].on
        BY <1>1, <2>1
      <3>3. QED
        BY <1>0, <1>1, <2>1, <3>1, <3>2 DEF RoundsInv
    <2>4. QED
      BY <1>0, <1>1, <2>1, <2>3, RoundsMove
  <1>2. ASSUME NEW r \in 1..Len(rounds),
               NEW at \in {"open", "finalized", "cancelled"},
               NEW from \in SUBSET {"draft", "open", "counted"}, RoundMoves(r, from, at)
        PROVE  ElectionInv' /\ SeatStep
    <2> DEFINE ver == [rounds[r] EXCEPT !.at = at]
    <2>1. ver \in Round /\ ver.on = rounds[r].on /\ ver.decided = rounds[r].decided
          /\ ver.elected = rounds[r].elected /\ ver.tied = rounds[r].tied /\ ver.at = at
      BY <1>0 DEF Round
    <2>2. rounds' = [rounds EXCEPT ![r] = ver]
      BY <1>2 DEF RoundMoves
    <2>3. rounds[r].at \in from /\ UNCHANGED <<seats, stage, lead, standingOf, accounts, holders,
                                               former, answering, linking>>
      BY <1>2 DEF RoundMoves
    <2>4. rounds[r].elected \cup rounds[r].tied \subseteq rounds[r].on
      BY <1>0 DEF RoundsInv
    <2> HIDE DEF ver
    <2>5. QED
      BY <1>1, <2>1, <2>2, <2>3, <2>4
  <1>3. ASSUME NEW r \in 1..Len(rounds), NEW best \in SUBSET Candidates,
               NEW level \in SUBSET Candidates, RoundCounted(r, best, level)
        PROVE  ElectionInv' /\ SeatStep
    <2> DEFINE ver == [rounds[r] EXCEPT !.at = "counted", !.elected = best, !.tied = level]
    <2>1. ver \in Round /\ ver.on = rounds[r].on /\ ver.decided = rounds[r].decided
          /\ ver.elected = best /\ ver.tied = level
      BY <1>0 DEF Round
    <2>2. rounds' = [rounds EXCEPT ![r] = ver]
      BY <1>3 DEF RoundCounted
    <2>3. rounds[r].at = "open" /\ best \cup level \subseteq rounds[r].on
          /\ UNCHANGED <<seats, stage, lead, standingOf, accounts, holders, former, answering, linking>>
      BY <1>3 DEF RoundCounted
    <2> HIDE DEF ver
    <2>4. QED
      BY <1>1, <2>1, <2>2, <2>3
  <1>4. ASSUME NEW pool \in SUBSET Candidates, CreateRound(pool)
        PROVE  ElectionInv' /\ SeatStep
    <2> DEFINE ver == [at |-> "draft", on |-> pool,
                       choices |-> IF SeatsLeft < Cardinality(pool) THEN SeatsLeft
                                   ELSE Cardinality(pool),
                       elected |-> {}, tied |-> {}, decided |-> FALSE]
    <2>1. rounds' = Append(rounds, ver)
      BY <1>4 DEF CreateRound
    <2>2. /\ Len(rounds) < MaxRounds /\ SeatsLeft >= 1 /\ stage # "closed" /\ stage' = "running"
          /\ \A r \in 1..Len(rounds) : ~Undecided(r)
          /\ \A c \in pool : standingOf[c] = "willing"
      BY <1>0, <1>4 DEF CreateRound, Vacant, Held, Undecided, InStanding
    <2>3. UNCHANGED <<seats, lead, standingOf, accounts, holders, former, answering, linking>>
      BY <1>4 DEF CreateRound
    <2>4. ver \in Round
      <3>1. Cardinality(pool) \in Nat
        BY ElectionAssumption, FS_Subset, FS_CardinalityType
      <3>2. InStanding(Seated) \in SUBSET Candidates
        BY DEF InStanding
      <3>3. Cardinality(InStanding(Seated)) \in Nat
        BY <3>2, ElectionAssumption, FS_Subset, FS_CardinalityType
      <3>4. seats \in Nat /\ seats <= MaxSeats /\ MaxSeats \in Nat
        BY ElectionTypes DEF ElectionInv
      <3>5. SeatsLeft \in 0..MaxSeats
        BY <2>2, <3>3, <3>4 DEF SeatsLeft
      <3>6. (IF SeatsLeft < Cardinality(pool) THEN SeatsLeft ELSE Cardinality(pool)) \in 0..MaxSeats
        BY <3>1, <3>4, <3>5
      <3>7. QED
        BY <3>6 DEF Round
    <2>5. ver.on = pool /\ ver.elected = {} /\ ver.tied = {}
      OBVIOUS
    <2> HIDE DEF ver
    <2>6. /\ rounds' \in Seq(Round) /\ Len(rounds') = Len(rounds) + 1
          /\ \A q \in 1..Len(rounds) : rounds'[q] = rounds[q]
          /\ rounds'[Len(rounds) + 1] = ver
      BY <1>0, <2>1, <2>4, AppendProperties
    <2>7. DOMAIN rounds' = 1..(Len(rounds) + 1)
      BY <2>6, LenProperties
    <2>8. RoundsInv'
      <3> SUFFICES ASSUME NEW q \in 1..(Len(rounds) + 1)
                   PROVE  /\ rounds'[q].elected \cup rounds'[q].tied \subseteq rounds'[q].on
                          /\ Undecided(q)' => /\ q = Len(rounds) + 1
                                              /\ \A c \in rounds'[q].on : standingOf'[c] \notin Seated
        BY <2>6, <2>7 DEF RoundsInv
      <3>1. CASE q = Len(rounds) + 1
        BY <2>2, <2>3, <2>5, <2>6, <3>1 DEF Seated
      <3>2. CASE q \in 1..Len(rounds)
        BY <1>0, <2>2, <2>6, <3>2 DEF RoundsInv, Undecided
      <3>3. QED
        BY <1>0, <3>1, <3>2
    <2>9. QED
      BY <1>0, <2>2, <2>3, <2>6, <2>8, RoundsMove
  <1>5. QED
    BY <1>0, <1>2, <1>3, <1>4

\* The state HandsOver leaves is a good one, whoever answered or was linked.
LEMMA HandingOver ==
  ASSUME ElectionInv, NEW st \in [Candidates -> Standings], NEW at \in Stages,
         NEW with \in SUBSET Candidates, NEW c \in Candidates,
         standingOf[c] \in Unanswered,
         \A d \in Candidates : d # c => st[d] = standingOf[d],
         st[c] = "accepted" => c \in with,
         holders \subseteq with, at # "closed", HandsOver(st, at, with), former' = former
  PROVE  OfficeInv'
  <1>0. /\ OfficeInv /\ \A d \in Candidates : standingOf[d] = "accepted" => d \in holders
        /\ stage # "closed" => former \subseteq holders
        /\ holders \subseteq Candidates /\ former \subseteq Candidates
    BY ElectionTypes DEF ElectionInv, OfficeInv
  <1>1. stage # "closed"
    BY <1>0 DEF OfficeInv
  <1>2. \A d \in Candidates : st[d] = "accepted" => d \in with
    BY <1>0
  <1>3. standingOf' = st
    BY DEF HandsOver
  <1>4. CASE Settled(st, at)
    <2>1. stage' = "closed" /\ holders' = {d \in with : st[d] = "accepted"}
      BY <1>4 DEF HandsOver
    <2>2. \A d \in Candidates : st[d] \notin Unanswered
      BY <1>4 DEF Settled
    <2>3. QED
      BY <1>2, <1>3, <2>1, <2>2 DEF OfficeInv
  <1>5. CASE ~Settled(st, at)
    <2>1. stage' = at /\ holders' = with
      BY <1>5 DEF HandsOver
    <2>2. QED
      BY <1>0, <1>1, <1>2, <1>3, <2>1 DEF OfficeInv
  <1>6. QED
    BY <1>4, <1>5

\* Every stage a hand-over leaves is a stage, and the office stays with accounts.
LEMMA HandingOverTypes ==
  ASSUME NEW st, NEW at \in Stages, NEW with \in SUBSET Candidates, HandsOver(st, at, with)
  PROVE  standingOf' = st /\ stage' \in Stages /\ holders' \subseteq with
  BY DEF HandsOver, Stages

\* An answer is written.
LEMMA AnswerStep ==
  ASSUME ElectionInv, AnswerWrites
  PROVE  ElectionInv' /\ SeatStep
  <1> DEFINE c == answering.who
             refused == ~answering.accept
             granted == answering.accept /\ answering.account
             to == IF refused THEN "declined" ELSE IF granted THEN "accepted" ELSE "pending_account"
             st == [standingOf EXCEPT ![c] = to]
             at == IF refused /\ stage \in {"decided", "closed"} THEN "running" ELSE stage
             with == IF granted THEN holders \cup {c} ELSE holders
  <1>1. HandsOver(st, at, with) /\ answering' = Silent
        /\ UNCHANGED <<seats, lead, rounds, accounts, former, linking>>
    BY DEF AnswerWrites
  <1>2. /\ c \in Candidates /\ answering.accept \in BOOLEAN /\ answering.account \in BOOLEAN
        /\ standingOf[c] = "elected" /\ (answering.account => c \in accounts)
        /\ linking[c] # "pending"
    BY ElectionTypes DEF ElectionInv, CallsInv, AnswerWrites
  <1>3. /\ standingOf \in [Candidates -> Standings] /\ holders \subseteq accounts
        /\ accounts \subseteq Candidates /\ stage \in Stages
        /\ linking \in [Candidates -> {"no", "pending", "nothing"}]
    BY ElectionTypes DEF ElectionInv
  <1>4. st \in [Candidates -> Standings] /\ at \in Stages /\ with \subseteq accounts
        /\ holders \subseteq with
    BY <1>2, <1>3 DEF Standings, Seated, Stages
  <1>5. \A d \in Candidates : st[d] = IF d = c THEN to ELSE standingOf[d]
    BY <1>2, <1>3
  <1>6. stage # "closed" /\ at # "closed"
    BY <1>2 DEF ElectionInv, OfficeInv, Unanswered
  <1>7. to = "accepted" => c \in with
    OBVIOUS
  <1>7a. to = "declined" => refused
    OBVIOUS
  <1>7b. to \in Seated \/ to = "declined"
    BY DEF Seated
  <1> HIDE DEF to, st, at, with, refused
  <1>8. standingOf' = st /\ stage' \in Stages /\ holders' \subseteq with
    BY <1>1, <1>3, <1>4, HandingOverTypes
  <1>9. OfficeInv'
    <2>1. st[c] = "accepted" => c \in with
      BY <1>2, <1>5, <1>7
    <2>2. standingOf[c] \in Unanswered
      BY <1>2 DEF Unanswered
    <2>3. QED
      BY <1>1, <1>2, <1>3, <1>4, <1>5, <1>6, <2>1, <2>2, HandingOver
  <1>10. ElectionTypeOK'
    BY <1>1, <1>3, <1>4, <1>8 DEF ElectionInv, ElectionTypeOK
  <1>11. CallsInv'
    BY <1>1, <1>2, <1>3, <1>5, <1>8 DEF ElectionInv, CallsInv
  <1>12. \A d \in Candidates : standingOf'[d] \in Seated => standingOf[d] \in Seated
    BY <1>2, <1>5, <1>8 DEF Seated
  <1>13. RoundsInv'
    <2>1. \A r \in DOMAIN rounds : rounds[r].on \subseteq Candidates
      BY ElectionTypes DEF ElectionInv, Round
    <2>2. QED
      BY <1>1, <1>12, <2>1 DEF ElectionInv, RoundsInv, Undecided
  <1>14. SeatStep
    <2>1. ASSUME NEW d \in Candidates, standingOf[d] \in Seated, standingOf'[d] \notin Seated
          PROVE  d = c /\ refused
      BY <1>5, <1>8, <1>7a, <1>7b, <2>1
    <2>2. QED
      BY <1>12, <2>1 DEF SeatStep, refused
  <1>15. QED
    BY <1>9, <1>10, <1>11, <1>13, <1>14 DEF ElectionInv

\* A link commits, with the candidacy it found waiting.
LEMMA LinkStep ==
  ASSUME ElectionInv, NEW c \in Candidates, LinkCommits(c)
  PROVE  ElectionInv' /\ SeatStep
  <1>1. /\ standingOf \in [Candidates -> Standings] /\ holders \subseteq accounts
        /\ accounts \subseteq Candidates /\ stage \in Stages
        /\ linking \in [Candidates -> {"no", "pending", "nothing"}]
    BY ElectionTypes DEF ElectionInv
  <1>2. /\ accounts' = accounts \cup {c} /\ linking' = [linking EXCEPT ![c] = "no"]
        /\ UNCHANGED <<seats, lead, rounds, former, answering>>
    BY DEF LinkCommits
  <1>3. CASE linking[c] # "pending"
    <2>1. UNCHANGED <<standingOf, stage, holders>>
      BY <1>3 DEF LinkCommits
    <2>2. ElectionTypeOK'
      BY <1>1, <1>2, <2>1 DEF ElectionInv, ElectionTypeOK
    <2>3. CallsInv'
      BY <1>1, <1>2, <2>1 DEF ElectionInv, CallsInv
    <2>4. OfficeInv' /\ RoundsInv'
      BY <1>2, <2>1 DEF ElectionInv, OfficeInv, RoundsInv, Undecided
    <2>5. SeatStep
      BY <2>1 DEF SeatStep
    <2>6. QED
      BY <2>2, <2>3, <2>4, <2>5 DEF ElectionInv
  <1>4. CASE linking[c] = "pending"
    <2> DEFINE st == [standingOf EXCEPT ![c] = "accepted"]
               with == holders \cup {c}
    <2>1. answering = Silent /\ HandsOver(st, stage, with)
      BY <1>4 DEF LinkCommits, ElectionFree
    <2>2. standingOf[c] = "pending_account"
      BY <1>4 DEF ElectionInv, CallsInv
    <2>3. stage # "closed"
      BY <2>2 DEF ElectionInv, OfficeInv, Unanswered
    <2>4. st \in [Candidates -> Standings]
          /\ (\A d \in Candidates : st[d] = IF d = c THEN "accepted" ELSE standingOf[d])
      BY <1>1 DEF Standings, Seated
    <2>4a. with \subseteq accounts' /\ accounts' \subseteq Candidates
           /\ c \in with /\ holders \subseteq with
      BY <1>1, <1>2
    <2> HIDE DEF st, with
    <2>5. standingOf' = st /\ stage' \in Stages /\ holders' \subseteq with
      BY <1>1, <2>1, <2>4a, HandingOverTypes
    <2>6. OfficeInv'
      <3>1. standingOf[c] \in Unanswered /\ with \in SUBSET Candidates /\ former' = former
        BY <1>2, <2>2, <2>4a DEF Unanswered
      <3>2. QED
        BY <1>1, <2>1, <2>3, <2>4, <2>4a, <3>1, HandingOver
    <2>7. ElectionTypeOK'
      <3>1. linking' \in [Candidates -> {"no", "pending", "nothing"}]
        BY <1>1, <1>2
      <3>2. holders' \subseteq accounts'
        BY <2>5, <2>4a
      <3>3. QED
        BY <1>2, <2>4, <2>5, <2>4a, <3>1, <3>2 DEF ElectionInv, ElectionTypeOK
    <2>8. CallsInv'
      BY <1>1, <1>2, <2>1, <2>4, <2>5 DEF ElectionInv, CallsInv
    <2>9. \A d \in Candidates : standingOf'[d] \in Seated <=> standingOf[d] \in Seated
      BY <2>2, <2>4, <2>5 DEF Seated
    <2>10. RoundsInv'
      <3>1. \A r \in DOMAIN rounds : rounds[r].on \subseteq Candidates
        BY ElectionTypes DEF ElectionInv, Round
      <3>2. QED
        BY <1>2, <2>9, <3>1 DEF ElectionInv, RoundsInv, Undecided
    <2>11. SeatStep
      BY <2>9 DEF SeatStep
    <2>12. QED
      BY <2>6, <2>7, <2>8, <2>10, <2>11 DEF ElectionInv
  <1>5. QED
    BY <1>3, <1>4

\* The lot and the best of the latest round are seated.
LEMMA DecideStep ==
  ASSUME ElectionInv, NEW lot \in SUBSET Candidates, Decide(lot)
  PROVE  ElectionInv' /\ SeatStep
  <1>0. /\ rounds \in Seq(Round) /\ Len(rounds) \in Nat /\ DOMAIN rounds = 1..Len(rounds)
        /\ \A r \in 1..Len(rounds) : rounds[r] \in Round
        /\ standingOf \in [Candidates -> Standings] /\ holders \subseteq Candidates
        /\ linking \in [Candidates -> {"no", "pending", "nothing"}]
        /\ RoundsInv
    BY ElectionTypes DEF ElectionInv
  <1>1. Latest \in 1..Len(rounds) /\ Latest \in Held
    <2>1. Held \in SUBSET (1..Len(rounds)) /\ Held # {}
      BY <1>0 DEF Held, Decide
    <2>2. \E r \in Held : \A s \in Held : s <= r
      BY <1>0, <2>1, GreatestExists
    <2>3. QED
      BY <2>1, <2>2 DEF Latest
  <1> DEFINE won == Winners(Latest, lot)
             ver == [rounds[Latest] EXCEPT !.decided = TRUE]
  <1>2. /\ ElectionFree /\ stage \in Stages \ {"decided", "closed"} /\ Undecided(Latest)
        /\ won \subseteq rounds[Latest].elected \cup rounds[Latest].tied
        /\ standingOf' = [c \in Candidates |-> IF c \in won THEN "elected" ELSE standingOf[c]]
        /\ stage' \in {"decided", "running"}
        /\ rounds' = [rounds EXCEPT ![Latest] = ver]
        /\ UNCHANGED <<seats, lead, accounts, holders, former, answering, linking>>
    BY ElectionTypes DEF ElectionInv, Decide, Vacant, Undecided, Winners, LotDrawn
  <1>3. won \subseteq Candidates /\ \A c \in won : standingOf[c] \notin Seated
    <2>1. won \subseteq rounds[Latest].on
      BY <1>0, <1>1, <1>2 DEF RoundsInv
    <2>2. rounds[Latest].on \subseteq Candidates
      BY <1>0, <1>1 DEF Round
    <2>3. \A c \in rounds[Latest].on : standingOf[c] \notin Seated
      BY <1>0, <1>1, <1>2 DEF RoundsInv
    <2>4. QED
      BY <2>1, <2>2, <2>3
  <1>4. ver \in Round /\ ver.decided /\ ver.elected = rounds[Latest].elected
        /\ ver.tied = rounds[Latest].tied /\ ver.on = rounds[Latest].on
    BY <1>0, <1>1 DEF Round
  <1> HIDE DEF won, ver
  <1>5. /\ rounds' \in Seq(Round) /\ Len(rounds') = Len(rounds)
        /\ \A q \in 1..Len(rounds) : rounds'[q] = IF q = Latest THEN ver ELSE rounds[q]
    BY <1>0, <1>1, <1>2, <1>4, ExceptSeq
  <1>6. DOMAIN rounds' = 1..Len(rounds)
    BY <1>5, LenProperties
  <1>7. standingOf' \in [Candidates -> Standings]
        /\ (\A c \in Candidates : standingOf'[c] = IF c \in won THEN "elected" ELSE standingOf[c])
    BY <1>0, <1>2 DEF Standings, Seated
  <1>8. ElectionTypeOK'
    BY <1>2, <1>5, <1>7 DEF ElectionInv, ElectionTypeOK, Stages
  <1>9. OfficeInv'
    BY <1>2, <1>7 DEF ElectionInv, OfficeInv
  <1>10. CallsInv'
    BY <1>2, <1>3, <1>7 DEF ElectionInv, CallsInv, ElectionFree, Seated
  <1>11. RoundsInv'
    <2> SUFFICES ASSUME NEW q \in 1..Len(rounds)
                 PROVE  /\ rounds'[q].elected \cup rounds'[q].tied \subseteq rounds'[q].on
                        /\ ~Undecided(q)'
      BY <1>5, <1>6 DEF RoundsInv
    <2>1. q # Latest => ~Undecided(q)
      <3>1. Undecided(Latest) => Latest = Len(rounds)
        BY <1>0, <1>1 DEF RoundsInv
      <3>2. Undecided(q) => q = Len(rounds)
        BY <1>0 DEF RoundsInv
      <3>3. QED
        BY <1>2, <3>1, <3>2
    <2>2. rounds[q].elected \cup rounds[q].tied \subseteq rounds[q].on
      BY <1>0 DEF RoundsInv
    <2>3. QED
      BY <1>4, <1>5, <2>1, <2>2 DEF Undecided
  <1>12. SeatStep
    <2>1. ASSUME NEW c \in Candidates, standingOf'[c] \in Seated, standingOf[c] \notin Seated
          PROVE  \E r \in DOMAIN rounds : /\ ~rounds[r].decided /\ rounds'[r].decided
                                          /\ c \in rounds[r].elected \cup rounds[r].tied
      <3>1. c \in won
        BY <1>7, <2>1
      <3>2. ~rounds[Latest].decided /\ rounds'[Latest].decided
        BY <1>1, <1>2, <1>4, <1>5 DEF Undecided
      <3>3. QED
        BY <1>0, <1>1, <1>2, <3>1, <3>2
    <2>2. \A c \in Candidates : standingOf[c] \in Seated => standingOf'[c] \in Seated
      BY <1>7 DEF Seated
    <2>3. QED
      BY <2>1, <2>2 DEF SeatStep
  <1>13. QED
    BY <1>8, <1>9, <1>10, <1>11, <1>12 DEF ElectionInv

\* Whatever the board, the candidates and late accounts do, the office passes in one
\* step from the old holders to the accepted, and a seat is won in a decided round
\* and lost by its owner's refusal only.
THEOREM ElectionIsSound == ElectionSpec => ElectionPromise
  <1>1. ElectionInit => ElectionInv
    <2> SUFFICES ASSUME ElectionInit PROVE ElectionInv
      OBVIOUS
    <2>1. rounds \in Seq(Round) /\ Len(rounds) = 0 /\ DOMAIN rounds = {} /\ 0 <= MaxRounds
          /\ seats \in 0..MaxSeats
      BY EmptySeq, ElectionAssumption DEF ElectionInit
    <2>2. ElectionTypeOK
      BY <2>1 DEF ElectionInit, ElectionTypeOK, Stages, Standings
    <2>3. QED
      BY <2>1, <2>2 DEF ElectionInit, ElectionInv, OfficeInv, CallsInv, RoundsInv
  <1>2. ElectionInv /\ [ElectionNext]_electionVars => ElectionInv' /\ [SeatStep]_electionVars
    BY QuietSteps, RoundSteps, DecideStep, AnswerStep, LinkStep DEF ElectionNext
  <1>3. ElectionInv => ElectionTypeOK /\ HandedOverAtOnce
    <2> SUFFICES ASSUME ElectionInv PROVE HandedOverAtOnce
      BY DEF ElectionInv
    <2>1. holders \subseteq Candidates
      BY ElectionTypes DEF ElectionInv
    <2>2. QED
      BY <2>1 DEF ElectionInv, OfficeInv, HandedOverAtOnce, InStanding
  <1>4. [SeatStep]_electionVars <=>
        [\A c \in Candidates :
           /\ standingOf'[c] \in Seated /\ standingOf[c] \notin Seated =>
                \E r \in DOMAIN rounds : /\ ~rounds[r].decided /\ rounds'[r].decided
                                         /\ c \in rounds[r].elected \cup rounds[r].tied
           /\ standingOf[c] \in Seated /\ standingOf'[c] \notin Seated =>
                answering.who = c /\ ~answering.accept]_electionVars
    BY DEF SeatStep
  <1>5. QED
    BY <1>1, <1>2, <1>3, <1>4, PTL DEF ElectionSpec, ElectionPromise, SeatsAreWonInRounds

-----------------------------------------------------------------------------
(***************************************************************************)
(* The announcements.  Nobody locks while the day is counted, so the limit    *)
(* holds for more than has been sent: for everything that is sent or has been *)
(* counted and may still be.  As long as no living sender is taken for        *)
(* crashed, a sender has its announcement to itself.                          *)
(***************************************************************************)
\* A sender that holds its claim; one at "redraft" has given it back.
Claimed(s) == sender[s].at \in {"claimed", "counted", "notified", "refused", "failed"}

ClaimsInv ==
  ~overtaken => \A s \in Senders : Claimed(s) =>
    /\ notice[sender[s].of].status = "sending"
    /\ \A t \in Senders : Claimed(t) /\ sender[t].of = sender[s].of => t = s

\* Sent, or counted and on its way.
Passed == {n \in Notices : \/ notice[n].status = "sent"
                           \/ \E s \in Senders : /\ sender[s].at \in {"counted", "notified"}
                                                 /\ sender[s].of = n}

LimitInv == ~overtaken => Cardinality(Passed) <= PerDay

\* What its author took back is over, and its mail is not past the guard.
Over(n) == \/ notice[n].status \in {"cancelled", "deleted"}
           \/ notice[n].status = "sent" /\ notice[n].withdrawn

MailInv ==
  \A n \in Notices :
    /\ n \in cleared => mail[n] \notin {"out", "failed"}
    /\ notice[n].status = "deleted" => mail[n] = "none"
    /\ ~overtaken /\ notice[n].recalled => Over(n) /\ (n \in cleared => mail[n] # "queued")

AnnouncementsInv == AnnouncementsTypeOK /\ ClaimsInv /\ LimitInv /\ MailInv

RecallStep ==
  \A n \in Notices : notice[n].recalled /\ ~overtaken /\ mail[n] # "out" => mail'[n] # "out"

NoticeRow == [status: AnnouncementStatuses, audience: Audiences, time: Times,
              withdrawn: BOOLEAN, recalled: BOOLEAN]

LEMMA NoticeTypes ==
  ASSUME AnnouncementsTypeOK
  PROVE  /\ notice \in [Notices -> NoticeRow]
         /\ mail \in [Notices -> {"none", "queued", "out", "failed", "skipped"}]
         /\ cleared \subseteq Notices /\ resending \subseteq Notices /\ overtaken \in BOOLEAN
         /\ publishing \subseteq Notices \X Times
         /\ sender \in [Senders -> {Free} \cup Sending \cup Scheduling]
  BY DEF AnnouncementsTypeOK, NoticeRow

\* A sender's record tells by its state what it is.
LEMMA SenderTypes ==
  ASSUME AnnouncementsTypeOK, NEW s \in Senders
  PROVE  /\ sender[s].at \in {"idle", "confirmed", "claimed", "counted", "notified", "refused",
                              "failed", "redraft"}
         /\ sender[s].at = "idle" <=> sender[s] = Free
         /\ sender[s].at = "confirmed" <=> sender[s] \in Scheduling
         /\ sender[s].at \notin {"idle", "confirmed"} <=> sender[s] \in Sending
         /\ sender[s].at # "idle" => sender[s].of \in Notices
  <1>1. sender[s] \in {Free} \cup Sending \cup Scheduling
    BY NoticeTypes
  <1>2. CASE sender[s] = Free
    BY <1>2 DEF Free, Sending, Scheduling
  <1>3. CASE sender[s] \in Sending
    BY <1>3 DEF Free, Sending, Scheduling
  <1>4. CASE sender[s] \in Scheduling
    BY <1>4 DEF Free, Sending, Scheduling
  <1>5. QED
    BY <1>1, <1>2, <1>3, <1>4

\* The limit holds of what is no more than before.
LEMMA LimitStays ==
  ASSUME AnnouncementsInv, overtaken => overtaken', ~overtaken' => Passed' \subseteq Passed
  PROVE  LimitInv'
  <1>1. IsFiniteSet(Passed) /\ Cardinality(Passed) \in Nat
    <2>1. Passed \subseteq Notices
      BY DEF Passed
    <2>2. QED
      BY <2>1, AnnouncementsAssumption, FS_Subset, FS_CardinalityType
  <1>2. ASSUME ~overtaken' PROVE Cardinality(Passed') <= PerDay
    <2>1. Cardinality(Passed) <= PerDay
      BY <1>2 DEF AnnouncementsInv, LimitInv
    <2>2. Cardinality(Passed') \in Nat /\ Cardinality(Passed') <= Cardinality(Passed)
      BY <1>1, <1>2, FS_Subset, FS_CardinalityType
    <2>3. QED
      BY <1>1, <2>1, <2>2, AnnouncementsAssumption
  <1>3. QED
    BY <1>2 DEF LimitInv

-----------------------------------------------------------------------------
\* The mail worker and the resending look at announcements and write none.
LEMMA MailSteps ==
  ASSUME AnnouncementsInv, NEW n \in Notices,
         MailGuarded(n) \/ MailClaimed(n) \/ MailFails(n) \/ ResendReads(n) \/ ResendWrites(n)
  PROVE  AnnouncementsInv' /\ RecallStep
  <1>0. /\ AnnouncementsTypeOK /\ MailInv
        /\ mail \in [Notices -> {"none", "queued", "out", "failed", "skipped"}]
    BY NoticeTypes DEF AnnouncementsInv
  <1>1. UNCHANGED <<notice, publishing, sender, overtaken>>
    BY DEF MailGuarded, MailClaimed, MailFails, ResendReads, ResendWrites
  <1>2. AnnouncementsTypeOK'
    BY <1>0, <1>1 DEF AnnouncementsTypeOK, MailGuarded, MailClaimed, MailFails, ResendReads,
                      ResendWrites, SkipUnsent
  <1>3. ClaimsInv' /\ LimitInv'
    BY <1>1 DEF AnnouncementsInv, ClaimsInv, Claimed, LimitInv, Passed
  <1>4. Unwanted(n) \/ ~(~overtaken /\ notice[n].recalled) \/ mail[n] = "none"
    BY <1>0 DEF MailInv, Unwanted, Over
  <1>5. \A m \in Notices :
          \/ mail'[m] = mail[m] /\ (m \in cleared' => m \in cleared)
          \/ m = n /\ m \notin cleared'
          \/ m = n /\ m \in cleared' /\ mail'[m] \in {"queued", "skipped"}
             /\ (mail[m] = "failed" \/ mail[m] = "queued")
             /\ (mail'[m] = "queued" /\ m \notin cleared => ~Unwanted(m))
    <2>1. CASE MailGuarded(n)
      BY <1>0, <2>1 DEF MailGuarded, SkipUnsent
    <2>2. CASE MailClaimed(n)
      BY <1>0, <2>2 DEF MailClaimed
    <2>3. CASE MailFails(n)
      BY <1>0, <2>3 DEF MailFails, MailInv
    <2>4. CASE ResendReads(n)
      BY <1>0, <2>4 DEF ResendReads
    <2>5. CASE ResendWrites(n)
      BY <1>0, <2>5 DEF ResendWrites, MailInv
    <2>6. QED
      BY <2>1, <2>2, <2>3, <2>4, <2>5
  <1>6. \A m \in Notices : notice[m].status = "deleted" => mail'[m] = "none"
    BY <1>0 DEF MailInv, MailGuarded, MailClaimed, MailFails, ResendReads, ResendWrites, SkipUnsent
  <1>7. MailInv'
    BY <1>0, <1>1, <1>4, <1>5, <1>6 DEF MailInv, Over, Unwanted
  <1>8. RecallStep
    BY <1>0 DEF RecallStep, MailInv, MailGuarded, MailClaimed, MailFails, ResendReads, ResendWrites,
                SkipUnsent
  <1>9. QED
    BY <1>2, <1>3, <1>7, <1>8 DEF AnnouncementsInv

\* The author writes announcements that no sender holds.
AuthorWrites(n) ==
  /\ UNCHANGED <<sender, cleared, resending, overtaken>>
  /\ notice'[n] \in NoticeRow /\ notice' = [notice EXCEPT ![n] = notice'[n]]
  /\ mail' \in [Notices -> {"none", "queued", "out", "failed", "skipped"}]
  /\ publishing' \subseteq Notices \X Times
  /\ notice[n].status # "sending" /\ notice'[n].status # "sending"
  /\ notice'[n].status = "sent" => notice[n].status = "sent"
  /\ \A m \in Notices : mail'[m] = mail[m] \/ (m = n /\ mail'[m] \in {"skipped", "none"})
  /\ notice'[n].status = "deleted" => mail'[n] = "none"
  /\ ~overtaken /\ notice'[n].recalled => /\ \/ notice'[n].status \in {"cancelled", "deleted"}
                                             \/ notice'[n].status = "sent" /\ notice'[n].withdrawn
                                          /\ mail'[n] # "queued" \/ n \notin cleared

LEMMA AuthorSteps ==
  ASSUME AnnouncementsInv, NEW n \in Notices,
         \/ Withdraw(n) \/ Cancel(n) \/ Delete(n)
         \/ \E a \in Audiences, t \in Times : Edit(n, a, t)
  PROVE  AnnouncementsInv' /\ RecallStep
  <1>0. /\ AnnouncementsTypeOK /\ MailInv /\ ClaimsInv
        /\ mail \in [Notices -> {"none", "queued", "out", "failed", "skipped"}]
        /\ notice \in [Notices -> NoticeRow]
    BY NoticeTypes DEF AnnouncementsInv
  <1>1. AuthorWrites(n)
    <2>1. CASE Withdraw(n)
      BY <1>0, <2>1 DEF AuthorWrites, Withdraw, SkipUnsent, NoticeRow, AnnouncementsTypeOK
    <2>2. CASE Cancel(n)
      BY <1>0, <2>2 DEF AuthorWrites, Cancel, SkipUnsent, NoticeRow, AnnouncementStatuses,
                        AnnouncementsTypeOK
    <2>3. CASE Delete(n)
      BY <1>0, <2>3 DEF AuthorWrites, Delete, Becomes, NoticeRow, AnnouncementStatuses,
                        AnnouncementsTypeOK, MailInv, Over
    <2>4. ASSUME NEW a \in Audiences, NEW t \in Times, Edit(n, a, t)
          PROVE  AuthorWrites(n)
      <3> DEFINE st == IF a # notice[n].audience THEN "draft" ELSE notice[n].status
                 ver == [notice[n] EXCEPT !.audience = a, !.time = t, !.status = st]
      <3>1. notice' = [notice EXCEPT ![n] = ver] /\ UNCHANGED <<sender, mail, cleared, resending, overtaken>>
            /\ notice[n].status \in {"draft", "scheduled"}
        BY <2>4 DEF Edit, Editable
      <3>2. st \in {"draft", "scheduled"} /\ ver \in NoticeRow /\ ver.status = st
            /\ ver.recalled = notice[n].recalled
        BY <1>0, <3>1 DEF NoticeRow, AnnouncementStatuses
      <3> HIDE DEF st, ver
      <3>3. notice'[n] = ver
        BY <1>0, <3>1
      <3>4. publishing' \subseteq Notices \X Times
        <4>1. publishing' = publishing \cup {<<n, t>>} \/ publishing' = publishing
          BY <2>4 DEF Edit
        <4>2. QED
          BY <1>0, <4>1 DEF AnnouncementsTypeOK
      <3>5. ~(~overtaken /\ notice[n].recalled)
        BY <1>0, <3>1 DEF MailInv, Over
      <3>6. QED
        BY <1>0, <3>1, <3>2, <3>3, <3>4, <3>5 DEF AuthorWrites
    <2>5. QED
      BY <2>1, <2>2, <2>3, <2>4
  <1>2. \A m \in Notices : m # n => notice'[m] = notice[m]
    BY <1>0, <1>1 DEF AuthorWrites
  <1>3. AnnouncementsTypeOK'
    <2>1. notice' \in [Notices -> NoticeRow]
      BY <1>0, <1>1 DEF AuthorWrites
    <2>2. QED
      BY <1>0, <1>1, <2>1 DEF AuthorWrites, AnnouncementsTypeOK, NoticeRow
  <1>4. ClaimsInv'
    <2>1. \A s \in Senders : Claimed(s) => sender[s].of \in Notices
      BY <1>0, SenderTypes DEF Claimed
    <2>2. QED
      BY <1>0, <1>1, <1>2, <2>1 DEF AuthorWrites, ClaimsInv, Claimed
  <1>5. LimitInv'
    <2>1. Passed' \subseteq Passed
      BY <1>1, <1>2 DEF AuthorWrites, Passed
    <2>2. QED
      BY <1>1, <2>1, LimitStays DEF AuthorWrites
  <1>6. MailInv'
    BY <1>0, <1>1, <1>2 DEF AuthorWrites, MailInv, Over
  <1>7. RecallStep
    BY <1>1 DEF RecallStep, AuthorWrites
  <1>8. QED
    BY <1>3, <1>4, <1>5, <1>6, <1>7 DEF AnnouncementsInv

\* What a step of one sender may do: it changes its own record and the
\* announcement it is about, which it claims, or has claimed, or does not touch
\* once that is over.
SenderWrites(s, n) ==
  /\ cleared' = cleared /\ resending' = resending
  /\ overtaken' \in BOOLEAN
  /\ overtaken => overtaken'
  /\ publishing' \subseteq Notices \X Times
  /\ sender'[s] \in {Free} \cup Sending \cup Scheduling
  /\ sender' = [sender EXCEPT ![s] = sender'[s]]
  /\ notice'[n] \in NoticeRow /\ notice' = [notice EXCEPT ![n] = notice'[n]]
  /\ notice[n].status = "deleted" => notice' = notice /\ mail' = mail
  /\ \/ mail' = mail
     \/ /\ sender[s].at = "counted" /\ notice' = notice
        /\ mail' = [mail EXCEPT ![n] = IF @ = "none" THEN "queued" ELSE @]
  /\ notice'[n].recalled = notice[n].recalled
  /\ notice'[n].withdrawn = notice[n].withdrawn
  /\ Claimed(s)' => sender'[s].of = n
  /\ Claimed(s) => sender[s].of = n

LEMMA SenderFrame ==
  ASSUME AnnouncementsInv, NEW s \in Senders, NEW n \in Notices, SenderWrites(s, n)
  PROVE  /\ AnnouncementsTypeOK' /\ RecallStep
         /\ \A t \in Senders : t # s => sender'[t] = sender[t]
         /\ \A m \in Notices : m # n => notice'[m] = notice[m] /\ mail'[m] = mail[m]
         /\ \A t \in Senders : Claimed(t) => sender[t].of \in Notices
         /\ \A t \in Senders : sender[t].at \in {"counted", "notified"} => Claimed(t)
  <1>0. /\ AnnouncementsTypeOK
        /\ mail \in [Notices -> {"none", "queued", "out", "failed", "skipped"}]
        /\ notice \in [Notices -> NoticeRow]
        /\ sender \in [Senders -> {Free} \cup Sending \cup Scheduling]
        /\ cleared \subseteq Notices /\ resending \subseteq Notices
    BY NoticeTypes DEF AnnouncementsInv
  <1>1. /\ \A t \in Senders : t # s => sender'[t] = sender[t]
        /\ \A m \in Notices : m # n => notice'[m] = notice[m] /\ mail'[m] = mail[m]
    BY <1>0 DEF SenderWrites
  <1>2. mail' \in [Notices -> {"none", "queued", "out", "failed", "skipped"}]
    BY <1>0 DEF SenderWrites
  <1>3. notice' \in [Notices -> NoticeRow]
    BY <1>0 DEF SenderWrites
  <1>4. sender' \in [Senders -> {Free} \cup Sending \cup Scheduling]
    BY <1>0 DEF SenderWrites
  <1>5. AnnouncementsTypeOK'
    <2>1. /\ overtaken' \in BOOLEAN /\ publishing' \subseteq Notices \X Times
          /\ cleared' = cleared /\ resending' = resending
      BY DEF SenderWrites
    <2>2. QED
      BY <1>0, <1>2, <1>3, <1>4, <2>1 DEF AnnouncementsTypeOK, NoticeRow
  <1>6. RecallStep
    BY <1>0 DEF SenderWrites, RecallStep
  <1>7. \A t \in Senders : /\ Claimed(t) => sender[t].of \in Notices
                           /\ sender[t].at \in {"counted", "notified"} => Claimed(t)
    BY <1>0, SenderTypes DEF Claimed
  <1>8. QED
    BY <1>1, <1>5, <1>6, <1>7

\* When a sender may claim an announcement, write it, and count it as passed.
SenderMay(s, n) ==
  /\ Claimed(s)' /\ Claimed(s) => notice' = notice
  /\ Claimed(s)' /\ ~Claimed(s) => notice'[n].status = "sending"
  /\ notice' # notice \/ (Claimed(s)' /\ ~Claimed(s)) =>
       \/ Claimed(s)
       \/ notice[n].status \in {"draft", "scheduled"}
       \/ /\ notice[n].status = "sending"
          /\ overtaken' \/ \A t \in Senders : Claimed(t) => sender[t].of # n
  /\ notice'[n].status = "sent" => notice[n].status = "sent" \/ sender[s].at = "notified"
  /\ notice'[n].status = "deleted" => notice[n].status = "deleted"
  /\ sender'[s].at \in {"counted", "notified"} =>
       /\ Claimed(s)
       /\ sender[s].at \in {"counted", "notified"} \/ Cardinality(SentToday(n)) < PerDay

LEMMA SenderKeeps ==
  ASSUME AnnouncementsInv, NEW s \in Senders, NEW n \in Notices, SenderWrites(s, n),
         SenderMay(s, n)
  PROVE  AnnouncementsInv' /\ RecallStep
  <1>0. /\ AnnouncementsTypeOK' /\ RecallStep
        /\ \A t \in Senders : t # s => sender'[t] = sender[t]
        /\ \A m \in Notices : m # n => notice'[m] = notice[m] /\ mail'[m] = mail[m]
        /\ \A t \in Senders : Claimed(t) => sender[t].of \in Notices
        /\ \A t \in Senders : sender[t].at \in {"counted", "notified"} => Claimed(t)
    BY SenderFrame
  <1>1. /\ ClaimsInv /\ LimitInv /\ MailInv
        /\ overtaken => overtaken'
        /\ Claimed(s)' => sender'[s].of = n
        /\ Claimed(s) => sender[s].of = n
    BY DEF AnnouncementsInv, SenderWrites
  <1>2. \A t \in Senders : t # s => (Claimed(t)' <=> Claimed(t))
    BY <1>0 DEF Claimed
  <1>3. ASSUME ~overtaken', NEW t \in Senders, t # s, Claimed(t), sender[t].of = n
        PROVE  notice' = notice /\ ~Claimed(s)' /\ ~Claimed(s)
    <2>1. notice[n].status = "sending" /\ ~Claimed(s)
      BY <1>1, <1>3 DEF ClaimsInv
    <2>2. QED
      BY <1>3, <2>1 DEF SenderMay
  <1>4. ClaimsInv'
    <2> SUFFICES ASSUME ~overtaken', NEW t \in Senders, Claimed(t)'
                 PROVE  /\ notice'[sender'[t].of].status = "sending"
                        /\ \A q \in Senders : Claimed(q)' /\ sender'[q].of = sender'[t].of => q = t
      BY DEF ClaimsInv
    <2>1. CASE t = s
      <3>1. notice'[n].status = "sending"
        BY <1>1, <2>1 DEF SenderMay, ClaimsInv
      <3>2. QED
        BY <1>0, <1>1, <1>2, <1>3, <2>1, <3>1
    <2>2. CASE t # s
      <3>1. Claimed(t) /\ sender'[t] = sender[t] /\ sender[t].of \in Notices
        BY <1>0, <1>2, <2>2
      <3>2. notice'[sender[t].of].status = "sending"
        BY <1>0, <1>1, <1>3, <2>2, <3>1 DEF ClaimsInv
      <3>3. ASSUME NEW q \in Senders, Claimed(q)', sender'[q].of = sender'[t].of PROVE q = t
        <4>1. CASE q = s
          BY <1>1, <1>3, <2>2, <3>1, <3>3, <4>1
        <4>2. CASE q # s
          BY <1>0, <1>1, <1>2, <3>1, <3>3, <4>2 DEF ClaimsInv
        <4>3. QED
          BY <4>1, <4>2
      <3>4. QED
        BY <3>1, <3>2, <3>3
    <2>3. QED
      BY <2>1, <2>2
  <1>5. LimitInv'
    <2>1. CASE \/ sender'[s].at \notin {"counted", "notified"}
               \/ sender[s].at \in {"counted", "notified"}
      <3>1. Passed' \subseteq Passed
        <4> SUFFICES ASSUME NEW m \in Passed' PROVE m \in Passed
          OBVIOUS
        <4>0. m \in Notices
          BY DEF Passed
        <4>1. CASE notice'[m].status = "sent"
          BY <1>0, <1>1, <4>0, <4>1 DEF Passed, SenderMay
        <4>2. ASSUME NEW t \in Senders, sender'[t].at \in {"counted", "notified"}, sender'[t].of = m
              PROVE  m \in Passed
          <5>1. CASE t = s
            BY <1>0, <1>1, <2>1, <4>0, <4>2, <5>1 DEF Passed, SenderMay, Claimed
          <5>2. CASE t # s
            BY <1>0, <4>0, <4>2, <5>2 DEF Passed
          <5>3. QED
            BY <5>1, <5>2
        <4>3. QED
          BY <4>1, <4>2 DEF Passed
      <3>2. QED
        BY <1>1, <3>1, LimitStays
    <2>2. CASE /\ sender'[s].at \in {"counted", "notified"}
               /\ sender[s].at \notin {"counted", "notified"}
      <3>1. Claimed(s) /\ Claimed(s)' /\ notice' = notice /\ Cardinality(SentToday(n)) < PerDay
        BY <2>2 DEF SenderMay, Claimed
      <3>2. ASSUME ~overtaken' PROVE Cardinality(Passed') <= PerDay
        <4>1. Passed' \subseteq SentToday(n) \cup {n}
          <5> SUFFICES ASSUME NEW m \in Passed', m # n PROVE m \in SentToday(n)
            OBVIOUS
          <5>0. m \in Notices
            BY DEF Passed
          <5>1. CASE notice'[m].status = "sent"
            BY <3>1, <5>0, <5>1 DEF SentToday
          <5>2. ASSUME NEW t \in Senders, sender'[t].at \in {"counted", "notified"},
                       sender'[t].of = m
                PROVE  m \in SentToday(n)
            <6>1. t # s
              BY <1>1, <3>1, <5>2
            <6>2. Claimed(t) /\ sender[t].of = m
              BY <1>0, <5>2, <6>1
            <6>3. notice[m].status = "sending"
              BY <1>1, <3>2, <6>2 DEF ClaimsInv
            <6>4. QED
              BY <5>0, <6>3 DEF SentToday
          <5>3. QED
            BY <5>1, <5>2 DEF Passed
        <4>2. /\ IsFiniteSet(SentToday(n)) /\ Cardinality(SentToday(n)) \in Nat
          <5>1. SentToday(n) \subseteq Notices
            BY DEF SentToday
          <5>2. QED
            BY <5>1, AnnouncementsAssumption, FS_Subset, FS_CardinalityType
        <4>3. /\ IsFiniteSet(SentToday(n) \cup {n})
              /\ Cardinality(SentToday(n) \cup {n}) <= Cardinality(SentToday(n)) + 1
              /\ Cardinality(SentToday(n) \cup {n}) \in Nat
          <5>1. IsFiniteSet(SentToday(n) \cup {n})
            BY <4>2, FS_AddElement
          <5>2. Cardinality(SentToday(n) \cup {n}) = IF n \in SentToday(n) THEN Cardinality(SentToday(n))
                                                     ELSE Cardinality(SentToday(n)) + 1
            BY <4>2, FS_AddElement
          <5>3. QED
            BY <4>2, <5>1, <5>2
        <4>4. Cardinality(Passed') \in Nat
              /\ Cardinality(Passed') <= Cardinality(SentToday(n) \cup {n})
          BY <4>1, <4>3, FS_Subset, FS_CardinalityType
        <4>5. QED
          BY <3>1, <4>2, <4>3, <4>4, AnnouncementsAssumption
      <3>3. QED
        BY <3>2 DEF LimitInv
    <2>3. QED
      BY <2>1, <2>2
  <1>6. MailInv'
    <2> SUFFICES ASSUME NEW m \in Notices
                 PROVE  /\ m \in cleared => mail'[m] \notin {"out", "failed"}
                        /\ notice'[m].status = "deleted" => mail'[m] = "none"
                        /\ ~overtaken' /\ notice'[m].recalled =>
                             Over(m)' /\ (m \in cleared => mail'[m] # "queued")
      BY DEF MailInv, SenderWrites
    <2>1. CASE m # n
      BY <1>0, <1>1, <2>1 DEF MailInv, Over
    <2>2. CASE m = n
      <3>1. mail' = mail \/ mail'[n] = (IF mail[n] = "none" THEN "queued" ELSE mail[n])
        BY NoticeTypes DEF SenderWrites, AnnouncementsInv
      <3>2. notice'[n].status = "deleted" => mail'[n] = "none"
        BY <1>1 DEF MailInv, SenderMay, SenderWrites
      <3>3. m \in cleared => mail'[m] \notin {"out", "failed"}
        BY <1>1, <2>2, <3>1 DEF MailInv
      <3>4. ASSUME ~overtaken', notice'[n].recalled PROVE notice' = notice /\ mail' = mail
        <4>1. Over(n)
          BY <1>1, <3>4 DEF MailInv, SenderWrites
        <4>2. ~Claimed(s) /\ notice[n].status \notin {"draft", "scheduled", "sending"}
          BY <1>1, <3>4, <4>1 DEF ClaimsInv, Over
        <4>3. QED
          BY <1>0, <4>2 DEF SenderMay, SenderWrites
      <3>5. QED
        BY <1>1, <2>2, <3>2, <3>3, <3>4 DEF MailInv, Over, SenderWrites
    <2>3. QED
      BY <2>1, <2>2
  <1>7. QED
    BY <1>0, <1>4, <1>5, <1>6 DEF AnnouncementsInv

\* Every step of a sender is such a step, of the announcement it is about.
LEMMA SendingSteps ==
  ASSUME AnnouncementsInv, NEW s \in Senders,
         \/ ScheduleWrites(s) \/ SendNotifies(s) \/ SendFails(s) \/ SendEnds(s)
         \/ SendReverts(s) \/ SendRedrafts(s) \/ SenderDies(s)
         \/ \E fails \in BOOLEAN : SendCounts(s, fails)
  PROVE  AnnouncementsInv' /\ RecallStep
  <1> DEFINE n == sender[s].of
  <1>0. /\ AnnouncementsTypeOK /\ publishing \subseteq Notices \X Times /\ overtaken \in BOOLEAN
        /\ notice \in [Notices -> NoticeRow] /\ MailInv
        /\ mail \in [Notices -> {"none", "queued", "out", "failed", "skipped"}]
        /\ sender \in [Senders -> {Free} \cup Sending \cup Scheduling]
    BY NoticeTypes DEF AnnouncementsInv
  <1>1. /\ sender[s].at \in {"idle", "confirmed", "claimed", "counted", "notified", "refused",
                             "failed", "redraft"}
        /\ sender[s].at = "idle" <=> sender[s] = Free
        /\ sender[s].at = "confirmed" <=> sender[s] \in Scheduling
        /\ sender[s].at \notin {"idle", "confirmed"} <=> sender[s] \in Sending
        /\ sender[s].at # "idle" => n \in Notices
    BY <1>0, SenderTypes
  <1>2. sender[s].at # "idle"
    BY <1>1 DEF ScheduleWrites, SendNotifies, SendFails, SendEnds, SendReverts, SendRedrafts,
                SenderDies, SendCounts
  <1>3. n \in Notices /\ notice[n] \in NoticeRow
    BY <1>0, <1>1, <1>2
  <1>4. notice' = notice => notice' = [notice EXCEPT ![n] = notice'[n]] /\ notice'[n] = notice[n]
    BY <1>0, <1>3
  \* The ways a sender's own record changes.
  <1>5. ASSUME Ends(s)
        PROVE  /\ sender' = [sender EXCEPT ![s] = sender'[s]] /\ sender'[s] = Free
               /\ sender'[s].at = "idle"
    BY <1>0, <1>5 DEF Ends, Free
  <1>6. ASSUME NEW at \in {"claimed", "counted", "notified", "refused", "failed", "redraft"},
               sender[s].at \notin {"idle", "confirmed"}, Turns(s, at)
        PROVE  /\ sender' = [sender EXCEPT ![s] = sender'[s]] /\ sender'[s] \in Sending
               /\ sender'[s].at = at /\ sender'[s].of = n
    <2> DEFINE ver == [sender[s] EXCEPT !.at = at]
    <2>1. ver \in Sending /\ ver.at = at /\ ver.of = n
      BY <1>1, <1>6 DEF Sending
    <2>2. sender' = [sender EXCEPT ![s] = ver]
      BY <1>6 DEF Turns
    <2> HIDE DEF ver
    <2>3. sender'[s] = ver
      BY <1>0, <2>2
    <2>4. QED
      BY <2>1, <2>2, <2>3
  <1>7. ASSUME NEW to \in {"draft", "scheduled", "sent", "sending"}, Becomes(n, to)
        PROVE  /\ notice' = [notice EXCEPT ![n] = notice'[n]] /\ notice'[n] \in NoticeRow
               /\ notice'[n].status = to /\ notice'[n].recalled = notice[n].recalled
               /\ notice'[n].withdrawn = notice[n].withdrawn
    BY <1>0, <1>3, <1>7 DEF Becomes, NoticeRow, AnnouncementStatuses
  <1> HIDE DEF n
  <1> USE DEF SenderWrites, SenderMay
  <1>8. CASE ScheduleWrites(s)
    <2>1. /\ sender[s].at = "confirmed" /\ sender[s].time \in Times /\ Ends(s)
          /\ UNCHANGED <<mail, cleared, resending, overtaken>>
      BY <1>1, <1>8 DEF ScheduleWrites, Scheduling
    <2> DEFINE ver == [notice[n] EXCEPT !.status = "scheduled", !.time = sender[s].time]
    <2>2. \/ notice' = notice /\ publishing' = publishing
          \/ /\ notice[n].status \in {"draft", "scheduled"}
             /\ notice' = [notice EXCEPT ![n] = ver]
             /\ publishing' = publishing \cup {<<n, sender[s].time>>}
      BY <1>8 DEF ScheduleWrites, Editable, n
    <2>3. ver \in NoticeRow /\ ver.status = "scheduled" /\ ver.recalled = notice[n].recalled
          /\ ver.withdrawn = notice[n].withdrawn
      BY <1>3, <2>1 DEF NoticeRow, AnnouncementStatuses
    <2>4. publishing' \subseteq Notices \X Times
      BY <1>0, <1>3, <2>1, <2>2
    <2> HIDE DEF ver
    <2>5. CASE notice' = notice
      <3>1. SenderWrites(s, n) /\ SenderMay(s, n)
        BY <1>0, <1>3, <1>4, <1>5, <2>1, <2>4, <2>5 DEF Claimed
      <3>2. QED
        BY <1>3, <3>1, SenderKeeps
    <2>6. CASE /\ notice[n].status \in {"draft", "scheduled"}
               /\ notice' = [notice EXCEPT ![n] = ver]
      <3>1. notice'[n] = ver
        BY <1>0, <1>3, <2>6
      <3>2. SenderWrites(s, n) /\ SenderMay(s, n)
        BY <1>0, <1>3, <1>5, <2>1, <2>3, <2>4, <2>6, <3>1 DEF Claimed
      <3>3. QED
        BY <1>3, <3>2, SenderKeeps
    <2>7. QED
      BY <2>2, <2>5, <2>6
  <1>9. CASE SendNotifies(s)
    <2>1. /\ sender[s].at = "counted" /\ Claimed(s) /\ notice' = notice
          /\ UNCHANGED <<publishing, cleared, resending, overtaken>>
      BY <1>9 DEF SendNotifies, Claimed
    <2>2. CASE notice[n].status = "deleted" /\ Turns(s, "failed") /\ mail' = mail
      <3>1. SenderWrites(s, n) /\ SenderMay(s, n)
        <4>1. /\ sender' = [sender EXCEPT ![s] = sender'[s]] /\ sender'[s] \in Sending
              /\ sender'[s].at = "failed" /\ sender'[s].of = n
          BY <1>6, <2>1, <2>2
        <4>2. SenderWrites(s, n)
          BY <1>0, <1>3, <1>4, <2>1, <2>2, <4>1 DEF n
        <4>3. SenderMay(s, n)
          BY <2>1, <2>2, <4>1
        <4>4. QED
          BY <4>2, <4>3
      <3>2. QED
        BY <1>3, <3>1, SenderKeeps
    <2>3. CASE /\ notice[n].status # "deleted" /\ Turns(s, "notified")
               /\ mail' = [mail EXCEPT ![n] = IF @ = "none" THEN "queued" ELSE @]
      <3>1. SenderWrites(s, n) /\ SenderMay(s, n)
        <4>1. /\ sender' = [sender EXCEPT ![s] = sender'[s]] /\ sender'[s] \in Sending
              /\ sender'[s].at = "notified" /\ sender'[s].of = n
          BY <1>6, <2>1, <2>3
        <4>2. SenderWrites(s, n)
          BY <1>0, <1>3, <1>4, <2>1, <2>3, <4>1 DEF n
        <4>3. SenderMay(s, n)
          BY <2>1, <2>3, <4>1
        <4>4. QED
          BY <4>2, <4>3
      <3>2. QED
        BY <1>3, <3>1, SenderKeeps
    <2>4. QED
      BY <1>9, <2>2, <2>3 DEF SendNotifies, n
  <1>10. CASE SendFails(s)
    <2>1. Turns(s, "failed") /\ notice' = notice
          /\ UNCHANGED <<publishing, mail, cleared, resending, overtaken>>
      BY <1>10 DEF SendFails
    <2>2. sender[s].at \notin {"idle", "confirmed"} /\ Claimed(s)
      BY <1>10 DEF SendFails, Claimed
    <2>3. SenderWrites(s, n) /\ SenderMay(s, n)
      BY <1>0, <1>3, <1>4, <1>6, <2>1, <2>2 DEF Claimed, n
    <2>4. QED
      BY <1>3, <2>3, SenderKeeps
  <1>11. CASE SendEnds(s)
    <2>1. /\ sender[s].at = "notified" /\ Claimed(s) /\ Ends(s)
          /\ UNCHANGED <<publishing, mail, cleared, resending, overtaken>>
      BY <1>11 DEF SendEnds, Claimed
    <2>2. CASE notice' = notice
      <3>1. SenderWrites(s, n) /\ SenderMay(s, n)
        BY <1>0, <1>3, <1>4, <1>5, <2>1, <2>2 DEF n, Claimed
      <3>2. QED
        BY <1>3, <3>1, SenderKeeps
    <2>3. CASE notice[n].status # "deleted" /\ Becomes(n, "sent")
      <3>1. SenderWrites(s, n) /\ SenderMay(s, n)
        BY <1>0, <1>3, <1>5, <1>7, <2>1, <2>3 DEF n, Claimed
      <3>2. QED
        BY <1>3, <3>1, SenderKeeps
    <2>4. QED
      BY <1>11, <2>2, <2>3 DEF SendEnds, n
  <1>12. CASE SendReverts(s)
    <2>1. /\ sender[s].at \in {"refused", "failed"} /\ Claimed(s)
          /\ sender[s].previous \in {"draft", "scheduled"}
          /\ UNCHANGED <<publishing, mail, cleared, resending, overtaken>>
      BY <1>1, <1>12 DEF SendReverts, Claimed, Sending
    <2>2. /\ sender' = [sender EXCEPT ![s] = sender'[s]] /\ sender'[s] \in {Free} \cup Sending
          /\ sender'[s].at \in {"idle", "redraft"}
      <3>1. CASE Ends(s)
        BY <1>5, <3>1
      <3>2. CASE Turns(s, "redraft")
        BY <1>6, <2>1, <3>2
      <3>3. QED
        BY <1>12, <3>1, <3>2 DEF SendReverts
    <2>3. CASE notice' = notice
      <3>1. SenderWrites(s, n) /\ SenderMay(s, n)
        BY <1>0, <1>3, <1>4, <2>1, <2>2, <2>3 DEF n, Claimed
      <3>2. QED
        BY <1>3, <3>1, SenderKeeps
    <2>4. CASE notice[n].status = "sending" /\ Becomes(n, sender[s].previous)
      <3>1. SenderWrites(s, n) /\ SenderMay(s, n)
        BY <1>0, <1>3, <1>7, <2>1, <2>2, <2>4 DEF n, Claimed
      <3>2. QED
        BY <1>3, <3>1, SenderKeeps
    <2>5. QED
      BY <1>12, <2>3, <2>4 DEF SendReverts, n
  <1>13. CASE SendRedrafts(s)
    <2>1. /\ sender[s].at = "redraft" /\ Ends(s)
          /\ UNCHANGED <<publishing, mail, cleared, resending, overtaken>>
      BY <1>13 DEF SendRedrafts
    <2>2. CASE notice' = notice
      <3>1. SenderWrites(s, n) /\ SenderMay(s, n)
        BY <1>0, <1>3, <1>4, <1>5, <2>1, <2>2 DEF n, Claimed
      <3>2. QED
        BY <1>3, <3>1, SenderKeeps
    <2>3. CASE notice[n].status = "scheduled" /\ Becomes(n, "draft")
      <3>1. SenderWrites(s, n) /\ SenderMay(s, n)
        BY <1>0, <1>3, <1>5, <1>7, <2>1, <2>3 DEF n, Claimed
      <3>2. QED
        BY <1>3, <3>1, SenderKeeps
    <2>4. QED
      BY <1>13, <2>2, <2>3 DEF SendRedrafts, n
  <1>14. CASE SenderDies(s)
    <2>1. Ends(s) /\ notice' = notice /\ UNCHANGED <<publishing, mail, cleared, resending, overtaken>>
      BY <1>14 DEF SenderDies
    <2>2. SenderWrites(s, n) /\ SenderMay(s, n)
      BY <1>0, <1>3, <1>4, <1>5, <2>1 DEF Claimed, n
    <2>4. QED
      BY <1>3, <2>2, SenderKeeps
  <1>15. ASSUME NEW fails \in BOOLEAN, SendCounts(s, fails) PROVE AnnouncementsInv' /\ RecallStep
    <2> DEFINE to == IF Cardinality(SentToday(n)) >= PerDay THEN "refused"
                     ELSE IF fails THEN "failed" ELSE "counted"
    <2>1. /\ sender[s].at = "claimed" /\ Claimed(s) /\ Turns(s, to) /\ notice' = notice
          /\ UNCHANGED <<publishing, mail, cleared, resending, overtaken>>
      BY <1>15 DEF SendCounts, Claimed, n
    <2>2. to \in {"refused", "failed", "counted"}
      OBVIOUS
    <2>3. to = "counted" => Cardinality(SentToday(n)) < PerDay
      <3>1. SentToday(n) \subseteq Notices
        BY DEF SentToday
      <3>2. Cardinality(SentToday(n)) \in Nat /\ PerDay \in Nat
        BY <3>1, AnnouncementsAssumption, FS_Subset, FS_CardinalityType
      <3>3. QED
        BY <3>2
    <2> HIDE DEF to
    <2>4. SenderWrites(s, n) /\ SenderMay(s, n)
      BY <1>0, <1>3, <1>4, <1>6, <2>1, <2>2, <2>3 DEF n
    <2>5. QED
      BY <1>3, <2>4, SenderKeeps
  <1>16. QED
    BY <1>8, <1>9, <1>10, <1>11, <1>12, <1>13, <1>14, <1>15

\* An idle sender turns to an announcement.
LEMMA ClaimingSteps ==
  ASSUME AnnouncementsInv, NEW s \in Senders, NEW n \in Notices,
         \/ SendNow(s, n) \/ \E t \in Times : ScheduleReads(s, n, t)
         \/ \E kept \in BOOLEAN : Publish(s, n, kept)
  PROVE  AnnouncementsInv' /\ RecallStep
  <1>0. /\ publishing \subseteq Notices \X Times /\ overtaken \in BOOLEAN
        /\ notice \in [Notices -> NoticeRow] /\ notice[n] \in NoticeRow /\ ClaimsInv
        /\ sender \in [Senders -> {Free} \cup Sending \cup Scheduling]
        /\ AnnouncementsTypeOK
    BY NoticeTypes DEF AnnouncementsInv
  <1>1. /\ notice' = notice => notice' = [notice EXCEPT ![n] = notice'[n]] /\ notice'[n] = notice[n]
        /\ sender' = sender => sender' = [sender EXCEPT ![s] = sender'[s]]
    BY <1>0
  <1>2. sender[s] = Free /\ sender[s].at = "idle" /\ ~Claimed(s)
    <2>1. sender[s] = Free
      BY DEF SendNow, ScheduleReads, Publish
    <2>2. QED
      BY <2>1 DEF Free, Claimed
  <1>3. ASSUME NEW job \in BOOLEAN, Claims(s, n, job)
        PROVE  /\ sender' = [sender EXCEPT ![s] = sender'[s]] /\ sender'[s] \in Sending
               /\ sender'[s].at = "claimed" /\ sender'[s].of = n
    <2> DEFINE ver == [at |-> "claimed", of |-> n, job |-> job,
                       previous |-> IF notice[n].status = "scheduled" THEN "scheduled" ELSE "draft"]
    <2>1. sender' = [sender EXCEPT ![s] = ver]
      BY <1>3 DEF Claims
    <2>2. ver \in Sending /\ ver.at = "claimed" /\ ver.of = n
      BY DEF Sending
    <2> HIDE DEF ver
    <2>3. sender'[s] = ver
      BY <1>0, <2>1
    <2>4. QED
      BY <2>1, <2>2, <2>3
  <1>4. ASSUME NEW to \in {"cancelled", "sending"}, Becomes(n, to)
        PROVE  /\ notice' = [notice EXCEPT ![n] = notice'[n]] /\ notice'[n] \in NoticeRow
               /\ notice'[n].status = to /\ notice'[n].recalled = notice[n].recalled
               /\ notice'[n].withdrawn = notice[n].withdrawn
    BY <1>0, <1>4 DEF Becomes, NoticeRow, AnnouncementStatuses
  <1> USE DEF SenderWrites, SenderMay
  <1>5. CASE SendNow(s, n)
    <2>1. /\ Claims(s, n, FALSE) /\ Becomes(n, "sending")
          /\ notice[n].status \in {"draft", "scheduled", "sending"}
          /\ UNCHANGED <<publishing, mail, cleared, resending>>
          /\ overtaken' = (overtaken \/ \E t \in Senders : sender[t].at \notin {"idle", "confirmed"}
                                                           /\ sender[t].of = n)
      BY <1>5 DEF SendNow, Editable
    <2>2. overtaken' \/ \A t \in Senders : Claimed(t) => sender[t].of # n
      BY <2>1 DEF Claimed
    <2>3. overtaken' \in BOOLEAN /\ (overtaken => overtaken')
      BY <1>0, <2>1
    <2>4. /\ sender' = [sender EXCEPT ![s] = sender'[s]] /\ sender'[s] \in Sending
          /\ sender'[s].at = "claimed" /\ sender'[s].of = n
      BY <1>3, <2>1
    <2>5. /\ notice' = [notice EXCEPT ![n] = notice'[n]] /\ notice'[n] \in NoticeRow
          /\ notice'[n].status = "sending" /\ notice'[n].recalled = notice[n].recalled
          /\ notice'[n].withdrawn = notice[n].withdrawn
      BY <1>4, <2>1
    <2>6. SenderWrites(s, n)
      BY <1>0, <1>2, <2>1, <2>3, <2>4, <2>5
    <2>7. SenderMay(s, n)
      BY <1>2, <2>1, <2>2, <2>4, <2>5
    <2>8. QED
      BY <2>6, <2>7, SenderKeeps
  <1>6. ASSUME NEW t \in Times, ScheduleReads(s, n, t) PROVE AnnouncementsInv' /\ RecallStep
    <2> DEFINE ver == [at |-> "confirmed", of |-> n, audience |-> notice[n].audience, time |-> t]
    <2>1. /\ sender' = [sender EXCEPT ![s] = ver]
          /\ notice' = notice /\ UNCHANGED <<publishing, mail, cleared, resending, overtaken>>
      BY <1>6 DEF ScheduleReads
    <2>2. ver \in Scheduling /\ ver.at = "confirmed"
      BY <1>0 DEF Scheduling, NoticeRow
    <2> HIDE DEF ver
    <2>3. sender'[s] = ver
      BY <1>0, <2>1
    <2>4. SenderWrites(s, n) /\ SenderMay(s, n)
      BY <1>0, <1>1, <1>2, <2>1, <2>2, <2>3 DEF Claimed
    <2>5. QED
      BY <2>4, SenderKeeps
  <1>7. ASSUME NEW kept \in BOOLEAN, Publish(s, n, kept) PROVE AnnouncementsInv' /\ RecallStep
    <2>1. /\ publishing' \subseteq Notices \X Times
          /\ UNCHANGED <<mail, cleared, resending, overtaken>>
      BY <1>0, <1>7 DEF Publish
    <2>2. CASE notice[n].status = "scheduled" /\ Claims(s, n, TRUE) /\ Becomes(n, "sending")
      <3>1. /\ sender' = [sender EXCEPT ![s] = sender'[s]] /\ sender'[s] \in Sending
            /\ sender'[s].at = "claimed" /\ sender'[s].of = n
        BY <1>3, <2>2
      <3>2. /\ notice' = [notice EXCEPT ![n] = notice'[n]] /\ notice'[n] \in NoticeRow
            /\ notice'[n].status = "sending" /\ notice'[n].recalled = notice[n].recalled
            /\ notice'[n].withdrawn = notice[n].withdrawn
        BY <1>4, <2>2
      <3>3. SenderWrites(s, n) /\ SenderMay(s, n)
        BY <1>0, <1>2, <2>1, <2>2, <3>1, <3>2
      <3>4. QED
        BY <3>3, SenderKeeps
    <2>3. CASE notice[n].status = "scheduled" /\ sender' = sender /\ Becomes(n, "cancelled")
      <3>1. /\ notice' = [notice EXCEPT ![n] = notice'[n]] /\ notice'[n] \in NoticeRow
            /\ notice'[n].status = "cancelled" /\ notice'[n].recalled = notice[n].recalled
            /\ notice'[n].withdrawn = notice[n].withdrawn
        BY <1>4, <2>3
      <3>2. sender'[s] = Free /\ ~Claimed(s)' /\ sender'[s].at = "idle"
        BY <1>2, <2>3 DEF Claimed
      <3>3. SenderWrites(s, n) /\ SenderMay(s, n)
        BY <1>0, <1>1, <1>2, <2>1, <2>3, <3>1, <3>2
      <3>4. QED
        BY <3>3, SenderKeeps
    <2>4. CASE notice' = notice /\ sender' = sender
      <3>1. sender'[s] = Free /\ ~Claimed(s)' /\ sender'[s].at = "idle"
        BY <1>2, <2>4 DEF Claimed
      <3>2. SenderWrites(s, n) /\ SenderMay(s, n)
        BY <1>0, <1>1, <1>2, <2>1, <2>4, <3>1
      <3>3. QED
        BY <3>2, SenderKeeps
    <2>5. QED
      BY <1>7, <2>2, <2>3, <2>4 DEF Publish
  <1>8. QED
    BY <1>5, <1>6, <1>7

\* However many requests and jobs send, crash and revert, and whatever authors take
\* back meanwhile: as long as no living sender is taken for crashed the daily limit
\* holds and what was taken back is not mailed.
THEOREM AnnouncementsAreSound == AnnouncementsSpec => AnnouncementsPromise
  <1>1. AnnouncementsInit => AnnouncementsInv
    <2> SUFFICES ASSUME AnnouncementsInit PROVE AnnouncementsInv
      OBVIOUS
    <2>1. AnnouncementsTypeOK
      BY DEF AnnouncementsInit, AnnouncementsTypeOK, AnnouncementStatuses
    <2>2. \A n \in Notices : notice[n].status = "draft" /\ ~notice[n].recalled
      BY DEF AnnouncementsInit
    <2>3. \A s \in Senders : sender[s].at = "idle"
      BY DEF AnnouncementsInit, Free
    <2>4. ClaimsInv
      BY <2>3 DEF ClaimsInv, Claimed
    <2>5. LimitInv
      <3>1. Passed = {}
        BY <2>2, <2>3 DEF Passed
      <3>2. Cardinality({}) = 0
        BY FS_EmptySet
      <3>3. QED
        BY <3>1, <3>2, AnnouncementsAssumption DEF LimitInv
    <2>6. MailInv
      BY <2>2 DEF AnnouncementsInit, MailInv
    <2>7. QED
      BY <2>1, <2>4, <2>5, <2>6 DEF AnnouncementsInv
  <1>2. AnnouncementsInv /\ [AnnouncementsNext]_announcementVars
          => AnnouncementsInv' /\ [RecallStep]_announcementVars
    <2> SUFFICES ASSUME AnnouncementsInv, [AnnouncementsNext]_announcementVars
                 PROVE  AnnouncementsInv' /\ [RecallStep]_announcementVars
      OBVIOUS
    <2>1. CASE AuthorStep
      BY <2>1, AuthorSteps, MailSteps DEF AuthorStep
    <2>2. CASE SendStep
      BY <2>2, SendingSteps, ClaimingSteps DEF SendStep
    <2>3. CASE MailStep
      BY <2>3, MailSteps DEF MailStep
    <2>4. CASE UNCHANGED announcementVars
      BY <2>4 DEF announcementVars, AnnouncementsInv, AnnouncementsTypeOK, ClaimsInv, Claimed,
                  LimitInv, Passed, MailInv, Over
    <2>5. QED
      BY <2>1, <2>2, <2>3, <2>4 DEF AnnouncementsNext
  <1>3. AnnouncementsInv => AnnouncementsTypeOK /\ DailyLimitHolds
    <2> SUFFICES ASSUME AnnouncementsInv, ~overtaken
                 PROVE  Cardinality({n \in Notices : notice[n].status = "sent"}) <= PerDay
      BY DEF AnnouncementsInv, DailyLimitHolds
    <2> DEFINE sent == {n \in Notices : notice[n].status = "sent"}
    <2>1. sent \subseteq Passed /\ Passed \subseteq Notices
      BY DEF Passed
    <2>2. /\ Cardinality(sent) \in Nat /\ Cardinality(Passed) \in Nat
          /\ Cardinality(sent) <= Cardinality(Passed)
      BY <2>1, AnnouncementsAssumption, FS_Subset, FS_CardinalityType
    <2>3. Cardinality(Passed) <= PerDay
      BY DEF AnnouncementsInv, LimitInv
    <2>4. QED
      BY <2>2, <2>3, AnnouncementsAssumption
  <1>4. [RecallStep]_announcementVars <=>
        [\A n \in Notices : notice[n].recalled /\ ~overtaken /\ mail[n] # "out"
           => mail'[n] # "out"]_announcementVars
    BY DEF RecallStep
  <1>5. QED
    BY <1>1, <1>2, <1>3, <1>4, PTL
       DEF AnnouncementsSpec, AnnouncementsPromise, RecalledStaysUnsent

-----------------------------------------------------------------------------
(***************************************************************************)
(* What decides a ballot.  RulesInv says what the draft, the agenda and the *)
(* statutes owe each other while nothing is open yet, so that what a ballot *)
(* opens with stands, whatever is edited afterwards.                        *)
(***************************************************************************)
Fixings == [rules: Statutes, majority: Majorities, warned: BOOLEAN]

RulesTypes ==
  /\ statute \in Statutes
  /\ invited \in Statutes \cup {NotStated} /\ sending \in Statutes \cup {NotStated}
  /\ agendum \in Agenda \cup {NotStated}
  /\ paper \in Papers /\ Buildable(paper.mode, paper.form)
  /\ fixed \in Fixings \cup {NotStated}

RulesInv ==
  /\ RulesTypes
  /\ paper.on => agendum # NotStated /\ paper.mode # "circular"
  /\ agendum # NotStated => (agendum.announced => invited # NotStated)
  /\ DecidedAsInvited
  /\ Voting /\ paper.mode = "circular" => CircularStated(fixed.rules)

LEMMA MajorityIs ==
  ASSUME NEW rules \in Statutes, NEW topic \in Topics
  PROVE  MajorityFor(rules, topic) \in Majorities \cup {NotStated}
  BY DEF MajorityFor, Statutes, Topics

LEMMA RulesStart == VotingInit => RulesInv
  <1>1. SUFFICES ASSUME VotingInit
                 PROVE  RulesInv
    OBVIOUS
  <1>2. /\ statute \in Stated /\ invited = NotStated /\ sending = NotStated /\ fixed = NotStated
        /\ agendum \in [topic: Topics, announced: {FALSE}] \cup {NotStated}
        /\ paper \in Papers /\ Buildable(paper.mode, paper.form)
        /\ paper.on => paper.mode = "in_session" /\ agendum # NotStated
    BY <1>1 DEF VotingInit
  <1>3. agendum \in Agenda \cup {NotStated} /\ (agendum # NotStated => ~agendum.announced)
    BY <1>2 DEF Agenda
  <1>4. RulesTypes
    BY <1>2, <1>3, StatedAssumption DEF RulesTypes
  <1>5. QED
    BY <1>2, <1>3, <1>4 DEF RulesInv, DecidedAsInvited, Voting

LEMMA StatuteChanges ==
  ASSUME RulesInv, ChangeStatute
  PROVE  RulesInv'
  <1>1. /\ invited' = invited /\ sending' = sending /\ agendum' = agendum /\ paper' = paper
        /\ fixed' = fixed
    BY DEF ChangeStatute, SameRest
  <1>2. statute \in Statutes
    BY DEF RulesInv, RulesTypes
  <1>3. statute' \in Statutes
    <2>1. CASE \E t \in Topics, k \in Majorities \cup {NotStated} :
                 statute' = [statute EXCEPT !.majority[t] = k]
      <3>1. PICK t \in Topics, k \in Majorities \cup {NotStated} :
                   statute' = [statute EXCEPT !.majority[t] = k]
        BY <2>1
      <3>2. PICK maj : maj = [statute.majority EXCEPT ![t] = k]
        OBVIOUS
      <3>3. maj \in [Topics -> Majorities \cup {NotStated}]
        BY <1>2, <3>2 DEF Statutes
      <3>4. statute' = [statute EXCEPT !.majority = maj]
        BY <3>1, <3>2
      <3>5. QED
        BY <1>2, <3>3, <3>4 DEF Statutes
    <2>2. CASE \E a \in {"against", "not_counted", NotStated} : statute' = [statute EXCEPT !.abstain = a]
      BY <1>2, <2>2 DEF Statutes
    <2>3. CASE \E a \in BOOLEAN \cup {NotStated} : statute' = [statute EXCEPT !.agenda = a]
      BY <1>2, <2>3 DEF Statutes
    <2>4. CASE \E u \in BOOLEAN \cup {NotStated}, q \in Quotas \cup {NotStated} :
                 statute' = [statute EXCEPT !.circular = TRUE, !.unanimity = u, !.quota = q]
      BY <1>2, <2>4 DEF Statutes
    <2>5. QED
      BY <2>1, <2>2, <2>3, <2>4 DEF ChangeStatute
  <1>4. QED
    BY <1>1, <1>3 DEF RulesInv, RulesTypes, DecidedAsInvited, Voting

LEMMA InvitingKeepsRules ==
  ASSUME RulesInv, InviteReads \/ InviteWrites
  PROVE  RulesInv'
  <1>1. statute' = statute /\ paper' = paper /\ fixed' = fixed
    BY DEF InviteReads, InviteWrites, SameRest
  <1>2. CASE InviteReads
    BY <1>1, <1>2 DEF InviteReads, RulesInv, RulesTypes, DecidedAsInvited, Voting
  <1>3. CASE InviteWrites
    <2>1. /\ sending # NotStated /\ sending' = NotStated
          /\ \/ /\ invited' = IF invited = NotStated THEN sending ELSE invited
                /\ agendum' = IF agendum = NotStated THEN NotStated ELSE [agendum EXCEPT !.announced = TRUE]
             \/ invited' = invited /\ agendum' = agendum
      BY <1>3 DEF InviteWrites
    <2>2. CASE invited' = invited /\ agendum' = agendum
      BY <1>1, <2>1, <2>2 DEF RulesInv, RulesTypes, DecidedAsInvited, Voting
    <2>3. CASE /\ invited' = IF invited = NotStated THEN sending ELSE invited
               /\ agendum' = IF agendum = NotStated THEN NotStated ELSE [agendum EXCEPT !.announced = TRUE]
      <3>1. agendum \in Agenda \cup {NotStated} /\ sending \in Statutes \cup {NotStated}
            /\ invited \in Statutes \cup {NotStated}
        BY DEF RulesInv, RulesTypes
      <3>2. agendum # NotStated =>
              /\ agendum' \in Agenda /\ agendum' # NotStated
              /\ agendum'.topic = agendum.topic /\ agendum'.announced = TRUE
        BY <2>3, <3>1, StatedAssumption DEF Agenda
      <3>3. agendum = NotStated => agendum' = NotStated
        BY <2>3
      <3>4. /\ invited' \in Statutes \cup {NotStated} /\ invited' # NotStated
            /\ invited # NotStated => invited' = invited
        BY <2>1, <2>3, <3>1
      <3>5. RulesTypes'
        BY <1>1, <2>1, <3>1, <3>2, <3>3, <3>4 DEF RulesInv, RulesTypes
      <3>6. DecidedAsInvited'
        BY <1>1, <3>2, <3>4 DEF RulesInv, DecidedAsInvited, Voting
      <3>7. QED
        BY <1>1, <3>2, <3>4, <3>5, <3>6 DEF RulesInv, Voting
    <2>4. QED
      BY <2>1, <2>2, <2>3
  <1>4. QED
    BY <1>2, <1>3

\* An announced item stays, and a ballot without a warning is on one.
LEMMA ItemEditsKeepRules ==
  ASSUME RulesInv, DropItem \/ \E t \in Topics : PutItem(t)
  PROVE  RulesInv'
  <1>1. statute' = statute /\ invited' = invited /\ sending' = sending /\ fixed' = fixed
    BY DEF DropItem, PutItem, SameRest
  <1>2. agendum # NotStated => ~agendum.announced
    BY DEF DropItem, PutItem
  <1>3. ~(Voting /\ paper.mode = "in_session" /\ ~fixed.warned)
    BY <1>2 DEF RulesInv, DecidedAsInvited
  <1>4. CASE DropItem
    <2>1. agendum' = NotStated /\ paper' = [paper EXCEPT !.on = FALSE]
      BY <1>4 DEF DropItem
    <2>2. paper \in Papers /\ Buildable(paper.mode, paper.form)
      BY DEF RulesInv, RulesTypes
    <2>3. /\ paper' \in Papers /\ paper'.on = FALSE /\ paper'.mode = paper.mode
          /\ paper'.topic = paper.topic /\ paper'.form = paper.form
      BY <2>1, <2>2 DEF Papers
    <2>4. RulesTypes'
      BY <1>1, <2>1, <2>2, <2>3 DEF RulesInv, RulesTypes, Buildable
    <2>5. QED
      BY <1>1, <1>3, <2>1, <2>3, <2>4 DEF RulesInv, DecidedAsInvited, Voting
  <1>5. CASE \E t \in Topics : PutItem(t)
    <2>1. PICK t \in Topics : PutItem(t)
      BY <1>5
    <2>2. agendum' = [topic |-> t, announced |-> FALSE] /\ paper' = paper
      BY <2>1 DEF PutItem
    <2>3. agendum' \in Agenda /\ ~agendum'.announced /\ agendum' # NotStated
      <3>1. [topic |-> t, announced |-> FALSE] \in Agenda
        BY DEF Agenda
      <3>2. QED
        BY <2>2, <3>1, StatedAssumption
    <2>4. RulesTypes'
      BY <1>1, <2>2, <2>3 DEF RulesInv, RulesTypes
    <2>5. QED
      BY <1>1, <1>3, <2>2, <2>3, <2>4 DEF RulesInv, DecidedAsInvited, Voting
  <1>6. QED
    BY <1>4, <1>5

LEMMA DraftEditsKeepRules ==
  ASSUME RulesInv,
         \/ \E on \in BOOLEAN, t \in Topics : EditTopic(on, t)
         \/ \E form \in Forms : EditOptions(form)
  PROVE  RulesInv'
  <1>1. /\ statute' = statute /\ invited' = invited /\ sending' = sending /\ agendum' = agendum
        /\ fixed' = NotStated /\ fixed = NotStated
    BY DEF EditTopic, EditOptions, SameRest
  <1>2. paper \in Papers /\ Buildable(paper.mode, paper.form) /\ (paper.on => agendum # NotStated /\ paper.mode # "circular")
    BY DEF RulesInv, RulesTypes
  <1>3. /\ paper' \in Papers /\ Buildable(paper.mode, paper.form)'
        /\ paper'.on => agendum # NotStated /\ paper'.mode # "circular"
    <2>1. CASE \E on \in BOOLEAN, t \in Topics : EditTopic(on, t)
      <3>1. PICK on \in BOOLEAN, t \in Topics : EditTopic(on, t)
        BY <2>1
      <3>2. paper' = [paper EXCEPT !.on = on, !.topic = t]
        BY <3>1 DEF EditTopic
      <3>3. /\ paper' \in Papers /\ paper'.on = on /\ paper'.mode = paper.mode /\ paper'.form = paper.form
        BY <1>2, <3>2 DEF Papers
      <3>4. on => agendum # NotStated /\ paper.mode # "circular"
        BY <3>1 DEF EditTopic, Resolved
      <3>5. QED
        BY <1>2, <3>3, <3>4 DEF Buildable
    <2>2. CASE \E form \in Forms : EditOptions(form)
      <3>1. PICK form \in Forms : EditOptions(form)
        BY <2>2
      <3>2. paper' = [paper EXCEPT !.form = form] /\ Buildable(paper.mode, form)
        BY <3>1 DEF EditOptions
      <3>3. /\ paper' \in Papers /\ paper'.form = form /\ paper'.mode = paper.mode /\ paper'.on = paper.on
        BY <1>2, <3>2 DEF Papers
      <3>4. QED
        BY <1>2, <3>2, <3>3 DEF Buildable
    <2>3. QED
      BY <2>1, <2>2
  <1>4. RulesTypes'
    BY <1>1, <1>3 DEF RulesInv, RulesTypes
  <1>5. QED
    BY <1>1, <1>3, <1>4 DEF RulesInv, DecidedAsInvited, Voting

\* What a ballot opens with.
LEMMA OpeningKeepsRules ==
  ASSUME RulesInv, Open
  PROVE  RulesInv'
  <1>1. PICK rules : rules = IF paper.mode = "circular" THEN statute ELSE RulesOfMeeting
    OBVIOUS
  <1>2. PICK w \in BOOLEAN : w = (paper.mode = "in_session" /\ ~Announced)
    OBVIOUS
  <1>3. /\ Required(rules) /\ Puttable(rules)
        /\ fixed' = [rules |-> rules, majority |-> MajorityFor(rules, paper.topic), warned |-> w]
        /\ statute' = statute /\ invited' = invited /\ sending' = sending /\ agendum' = agendum
        /\ paper' = paper
    BY <1>1, <1>2 DEF Open
  <1>4. /\ statute \in Statutes /\ invited \in Statutes \cup {NotStated} /\ paper \in Papers
        /\ paper.topic \in Topics
    BY DEF RulesInv, RulesTypes, Papers
  <1>5. rules \in Statutes
    BY <1>1, <1>4 DEF RulesOfMeeting
  <1>6. MajorityFor(rules, paper.topic) \in Majorities
    BY <1>3, <1>4, <1>5, MajorityIs DEF Required
  <1>7. /\ fixed' \in Fixings /\ fixed'.rules = rules /\ fixed'.warned = w
        /\ fixed'.majority = MajorityFor(rules, paper.topic)
    BY <1>3, <1>5, <1>6 DEF Fixings
  <1>8. RulesTypes'
    BY <1>3, <1>7 DEF RulesInv, RulesTypes
  <1>9. DecidedAsInvited'
    <2>1. SUFFICES ASSUME paper.mode = "in_session", ~w
                   PROVE  /\ paper.on /\ agendum # NotStated /\ invited # NotStated
                          /\ agendum.announced /\ paper.topic = agendum.topic
                          /\ fixed'.majority = MajorityFor(invited, agendum.topic)
      BY <1>3, <1>7 DEF DecidedAsInvited
    <2>2. paper.on /\ agendum.announced
      BY <1>2, <2>1 DEF Announced
    <2>3. agendum # NotStated /\ invited # NotStated
      BY <2>2 DEF RulesInv
    <2>4. paper.topic = agendum.topic
      BY <1>3, <2>1, <2>2 DEF Puttable
    <2>5. rules = invited
      BY <1>1, <2>1, <2>3 DEF RulesOfMeeting
    <2>6. QED
      BY <1>7, <2>2, <2>3, <2>4, <2>5
  <1>10. paper.mode = "circular" => CircularStated(rules)
    BY <1>3 DEF Required
  <1>11. QED
    BY <1>3, <1>7, <1>8, <1>9, <1>10 DEF RulesInv, CircularStated

LEMMA RulesRest ==
  ASSUME RulesInv, UNCHANGED <<statute, invited, sending, agendum, paper, fixed>>
  PROVE  RulesInv'
  BY DEF RulesInv, RulesTypes, DecidedAsInvited, Voting, Buildable, CircularStated

LEMMA RulesSteps ==
  ASSUME RulesInv, [VotingNext]_votingVars
  PROVE  RulesInv'
  <1>1. ASSUME NEW S \in SUBSET AllOptions, Cast(S)
        PROVE  RulesInv'
    BY <1>1, RulesRest DEF Cast
  <1>2. CASE UNCHANGED votingVars
    BY <1>2, RulesRest DEF votingVars
  <1>3. QED
    BY <1>1, <1>2, StatuteChanges, InvitingKeepsRules, ItemEditsKeepRules, DraftEditsKeepRules,
       OpeningKeepsRules DEF VotingNext

(***************************************************************************)
(* The papers.  Each names one of yes, no and abstention at most, and an    *)
(* abstention names nothing else: the counts stay within the papers.        *)
(***************************************************************************)
CountInv ==
  /\ votes \in [AllOptions -> Nat] /\ handed \in 0..Entitled /\ edits \in 0..MaxVotingEdits
  /\ votes["yes"] + votes["no"] + votes["abstain"] <= handed
  /\ \A o \in Options : votes[o] + votes["abstain"] <= handed

LEMMA OptionsAre ==
  /\ IsFiniteSet(Options) /\ Options \subseteq AllOptions
  /\ {"yes", "no", "abstain"} \subseteq AllOptions
  /\ \A o \in Options : o # "yes" /\ o # "no" /\ o # "abstain"
  /\ \A o \in AllOptions : o \in Options \/ o = "yes" \/ o = "no" \/ o = "abstain"
  /\ Entitled \in Nat \ {0} /\ MaxVotingEdits \in Nat
  BY VotingAssumption DEF AllOptions

LEMMA FormIs ==
  ASSUME RulesInv
  PROVE  /\ paper.form \in Forms /\ paper.form.choices \subseteq Options
         /\ IsFiniteSet(paper.form.choices) /\ IsFiniteSet(OptionsOf(paper.form))
         /\ paper.form.marks \in Nat \ {0}
         /\ paper.form.choices = {} => paper.form.marks = 1
  <1>1. paper.form \in Forms /\ Buildable(paper.mode, paper.form)
    BY DEF RulesInv, RulesTypes, Papers
  <1>2. paper.form.choices \in ChoiceSets /\ paper.form.marks \in 1..(Cardinality(Options) + 1)
    BY <1>1 DEF Forms
  <1>3. paper.form.choices \subseteq Options
    BY <1>2 DEF Options
  <1>4. IsFiniteSet(paper.form.choices)
    BY <1>3, OptionsAre, FS_Subset
  <1>5. IsFiniteSet({"yes", "no"}) /\ IsFiniteSet({"abstain"}) /\ IsFiniteSet({})
    <2>1. IsFiniteSet({"yes"}) /\ IsFiniteSet({"abstain"}) /\ IsFiniteSet({})
      BY FS_EmptySet, FS_Singleton
    <2>2. IsFiniteSet({"yes"} \cup {"no"})
      BY <2>1, FS_AddElement
    <2>3. {"yes", "no"} = {"yes"} \cup {"no"}
      OBVIOUS
    <2>4. QED
      BY <2>1, <2>2, <2>3
  <1>6. IsFiniteSet(OptionsOf(paper.form))
    <2>1. PICK A, B : /\ A = (IF paper.form.choices = {} THEN {"yes", "no"} ELSE paper.form.choices)
                      /\ B = (IF paper.form.abstain THEN {"abstain"} ELSE {})
      OBVIOUS
    <2>2. IsFiniteSet(A) /\ IsFiniteSet(B)
      BY <1>4, <1>5, <2>1
    <2>3. IsFiniteSet(A \cup B)
      BY <2>2, FS_Union
    <2>4. QED
      BY <2>1, <2>3 DEF OptionsOf
  <1>7. Cardinality(Options) \in Nat
    BY OptionsAre, FS_CardinalityType
  <1>8. QED
    BY <1>1, <1>2, <1>3, <1>4, <1>6, <1>7 DEF Buildable

LEMMA PaperIs ==
  ASSUME RulesInv, NEW S, Selectable(S)
  PROVE  /\ ~("yes" \in S /\ "no" \in S)
         /\ "abstain" \in S => S = {"abstain"}
  <1>1. S \subseteq OptionsOf(paper.form) /\ Cardinality(S) \in 1..paper.form.marks
        /\ ("abstain" \in S => S = {"abstain"})
    BY DEF Selectable
  <1>2. ASSUME "yes" \in S, "no" \in S
        PROVE  FALSE
    <2>1. paper.form.choices = {}
      <3>1. "yes" \in OptionsOf(paper.form)
        BY <1>1, <1>2
      <3>2. "yes" \notin Options
        BY OptionsAre
      <3>3. QED
        BY <3>1, <3>2, FormIs DEF OptionsOf
    <2>2. Cardinality(S) \in 1..1
      BY <1>1, <2>1, FormIs
    <2>3. IsFiniteSet(S)
      BY <1>1, FormIs, FS_Subset
    <2>4. /\ IsFiniteSet({"yes"}) /\ Cardinality({"yes"}) = 1
      BY FS_Singleton
    <2>5. {"yes"} \subseteq S
      BY <1>2
    <2>6. {"yes"} = S
      BY <2>2, <2>3, <2>4, <2>5, FS_Subset
    <2>7. "no" # "yes"
      OBVIOUS
    <2>8. QED
      BY <1>2, <2>6, <2>7
  <1>3. QED
    BY <1>1, <1>2

LEMMA CountStart == VotingInit => CountInv
  <1>1. SUFFICES ASSUME VotingInit
                 PROVE  CountInv
    OBVIOUS
  <1>2. votes = [o \in AllOptions |-> 0] /\ handed = 0 /\ edits = 0
    BY <1>1 DEF VotingInit
  <1>3. votes \in [AllOptions -> Nat] /\ \A o \in AllOptions : votes[o] = 0
    BY <1>2
  <1>4. handed \in 0..Entitled /\ edits \in 0..MaxVotingEdits
    BY <1>2, OptionsAre
  <1>5. votes["yes"] = 0 /\ votes["no"] = 0 /\ votes["abstain"] = 0 /\ \A o \in Options : votes[o] = 0
    BY <1>3, OptionsAre
  <1>6. QED
    BY <1>2, <1>3, <1>4, <1>5 DEF CountInv

\* A paper adds one to what it names.
LEMMA CastIs ==
  ASSUME CountInv, NEW S \in SUBSET AllOptions, votes' = [o \in AllOptions |-> votes[o] + (IF o \in S THEN 1 ELSE 0)]
  PROVE  /\ votes' \in [AllOptions -> Nat]
         /\ \A o \in AllOptions : votes'[o] = IF o \in S THEN votes[o] + 1 ELSE votes[o]
  <1>1. \A o \in AllOptions : votes[o] \in Nat
    BY DEF CountInv
  <1>2. \A o \in AllOptions : votes'[o] = IF o \in S THEN votes[o] + 1 ELSE votes[o]
    BY <1>1
  <1>3. \A o \in AllOptions : votes'[o] \in Nat
    BY <1>1, <1>2
  <1>4. QED
    BY <1>2, <1>3

LEMMA CastKeepsCount ==
  ASSUME RulesInv, CountInv, NEW S \in SUBSET AllOptions, Cast(S)
  PROVE  CountInv'
  <1>1. /\ handed < Entitled /\ handed' = handed + 1 /\ edits' = edits /\ Selectable(S)
        /\ votes' = [o \in AllOptions |-> votes[o] + (IF o \in S THEN 1 ELSE 0)]
    BY DEF Cast
  <1>2. /\ votes' \in [AllOptions -> Nat]
        /\ \A o \in AllOptions : votes'[o] = IF o \in S THEN votes[o] + 1 ELSE votes[o]
    BY <1>1, CastIs
  <1>3. handed \in Nat /\ Entitled \in Nat /\ edits' \in 0..MaxVotingEdits /\ handed' \in 0..Entitled
    BY <1>1, OptionsAre DEF CountInv
  <1>4. /\ ~("yes" \in S /\ "no" \in S)
        /\ "abstain" \in S => "yes" \notin S /\ "no" \notin S /\ \A o \in Options : o \notin S
    BY <1>1, PaperIs, OptionsAre
  <1>5. \A o \in AllOptions : votes[o] \in Nat
    BY DEF CountInv
  <1>6. votes["yes"] + votes["no"] + votes["abstain"] <= handed
    BY DEF CountInv
  <1>7. votes'["yes"] + votes'["no"] + votes'["abstain"] <= handed'
    <2>1. /\ "yes" \in AllOptions /\ "no" \in AllOptions /\ "abstain" \in AllOptions
      BY OptionsAre
    <2>2. QED
      BY <1>1, <1>2, <1>3, <1>4, <1>5, <1>6, <2>1
  <1>8. ASSUME NEW o \in Options
        PROVE  votes'[o] + votes'["abstain"] <= handed'
    <2>1. o \in AllOptions /\ "abstain" \in AllOptions
      BY OptionsAre
    <2>2. votes[o] + votes["abstain"] <= handed
      BY DEF CountInv
    <2>3. QED
      BY <1>1, <1>2, <1>3, <1>4, <1>5, <2>1, <2>2
  <1>9. QED
    BY <1>2, <1>3, <1>7, <1>8 DEF CountInv

LEMMA CountSteps ==
  ASSUME RulesInv, CountInv, [VotingNext]_votingVars
  PROVE  CountInv'
  <1>1. CASE \E S \in SUBSET AllOptions : Cast(S)
    BY <1>1, CastKeepsCount
  <1>2. CASE votes' = votes /\ handed' = handed /\ (edits' = edits \/ VotingEdit)
    <2>1. edits' \in 0..MaxVotingEdits
      BY <1>2, OptionsAre DEF CountInv, VotingEdit
    <2>2. QED
      BY <1>2, <2>1 DEF CountInv
  <1>3. QED
    BY <1>1, <1>2 DEF VotingNext, votingVars, ChangeStatute, InviteReads, InviteWrites, DropItem, Open, PutItem,
       EditTopic, EditOptions, SameRest

-----------------------------------------------------------------------------
(***************************************************************************)
(* Resolutions: what the kinds of majority owe each other, on any numbers.  *)
(***************************************************************************)
LEMMA MajoritiesAreOrdered ==
  ASSUME NEW y \in Nat, NEW a \in Nat, NEW h \in Nat, y + a <= h
  PROVE  /\ MeetsMajority("einstimmig", y, a, h) => MeetsMajority("drei_viertel", y, a, h)
         /\ MeetsMajority("drei_viertel", y, a, h) => MeetsMajority("zwei_drittel", y, a, h)
         /\ MeetsMajority("zwei_drittel", y, a, h) => MeetsMajority("einfach", y, a, h)
         /\ MeetsMajority("absolut", y, a, h) => MeetsMajority("einfach", y, a, h)
  BY DEF MeetsMajority

LEMMA MajoritiesDecide ==
  ASSUME NEW majority, NEW y \in Nat, NEW a \in Nat, NEW n \in Nat, NEW h \in Nat, y + a <= h, n <= a,
         MeetsMajority(majority, y, a, h)
  PROVE  ~MeetsMajority(majority, n, y + a - n, h)
  BY DEF MeetsMajority

LEMMA MajoritiesAreMonotone ==
  ASSUME NEW majority, NEW y \in Nat, NEW a \in Nat, NEW h \in Nat
  PROVE  /\ MeetsMajority(majority, y, a, h) => MeetsMajority(majority, y + 1, a, h + 1)
         /\ MeetsMajority(majority, y, a + 1, h + 1) => MeetsMajority(majority, y, a, h)
         /\ majority # "absolut" => (MeetsMajority(majority, y, a, h + 1) <=> MeetsMajority(majority, y, a, h))
  BY DEF MeetsMajority

LEMMA AgainstIs ==
  ASSUME CountInv
  PROVE  /\ votes["yes"] \in Nat /\ votes["no"] \in Nat /\ handed \in Nat /\ Against \in Nat
         /\ votes["no"] <= Against /\ votes["yes"] + Against <= handed
         /\ votes["yes"] <= handed
  <1>1. votes["yes"] \in Nat /\ votes["no"] \in Nat /\ votes["abstain"] \in Nat
    BY OptionsAre DEF CountInv
  <1>2. handed \in Nat /\ votes["yes"] + votes["no"] + votes["abstain"] <= handed
    BY OptionsAre DEF CountInv
  <1>3. Against = votes["no"] \/ Against = votes["no"] + votes["abstain"]
    BY <1>1 DEF Against
  <1>4. QED
    BY <1>1, <1>2, <1>3

LEMMA RulesAreThere == ASSUME RulesInv PROVE NeverWithoutRules
  <1>1. SUFFICES ASSUME Voting
                 PROVE  fixed.majority # NotStated /\ Outcome # "rules_missing"
    BY DEF NeverWithoutRules
  <1>2. fixed \in Fixings
    BY <1>1 DEF RulesInv, RulesTypes, Voting
  <1>3. fixed.majority \in Majorities
    BY <1>2 DEF Fixings
  <1>4. NotStated \notin Majorities
    BY StatedAssumption
  <1>5. paper.mode = "circular" => CircularStated(fixed.rules)
    BY <1>1 DEF RulesInv
  <1>6. Outcome # "rules_missing"
    BY <1>5 DEF Outcome, Verdict
  <1>7. QED
    BY <1>3, <1>4, <1>6

LEMMA MajoritiesKeepOrder == ASSUME CountInv PROVE StricterAcceptsLess /\ NeverBothWays
  <1>1. /\ votes["yes"] \in Nat /\ votes["no"] \in Nat /\ handed \in Nat /\ Against \in Nat
        /\ votes["no"] <= Against /\ votes["yes"] + Against <= handed
    BY AgainstIs
  <1>2. StricterAcceptsLess
    BY <1>1, MajoritiesAreOrdered DEF StricterAcceptsLess, Accepts
  <1>3. NeverBothWays
    BY <1>1, MajoritiesDecide DEF NeverBothWays, Accepts
  <1>4. QED
    BY <1>2, <1>3

\* A step that adds a paper is the casting of it.
LEMMA PaperedIsCast ==
  ASSUME RulesInv, CountInv, [VotingNext]_votingVars, NEW S \in SUBSET AllOptions, S # {}, Papered(S)
  PROVE  /\ handed \in Nat /\ handed < Entitled /\ handed' = handed + 1 /\ Selectable(S)
         /\ paper' = paper /\ fixed' = fixed /\ fixed # NotStated
         /\ \A o \in AllOptions : votes'[o] = IF o \in S THEN votes[o] + 1 ELSE votes[o]
  <1>1. \A o \in AllOptions : votes[o] \in Nat
    BY DEF CountInv
  <1>2. \A o \in AllOptions : votes'[o] = IF o \in S THEN votes[o] + 1 ELSE votes[o]
    BY CastIs DEF Papered
  <1>3. votes' # votes
    <2>1. PICK o \in S : TRUE
      OBVIOUS
    <2>2. votes'[o] = votes[o] + 1 /\ votes[o] \in Nat
      BY <1>1, <1>2, <2>1
    <2>3. QED
      BY <2>2
  <1>4. PICK T \in SUBSET AllOptions : Cast(T)
    BY <1>3 DEF VotingNext, votingVars, ChangeStatute, InviteReads, InviteWrites, DropItem, Open, PutItem,
       EditTopic, EditOptions, SameRest
  <1>5. \A o \in AllOptions : votes'[o] = IF o \in T THEN votes[o] + 1 ELSE votes[o]
    BY <1>4, CastIs DEF Cast
  <1>6. T = S
    <2>1. \A o \in AllOptions : o \in T <=> o \in S
      <3>1. SUFFICES ASSUME NEW o \in AllOptions
                     PROVE  o \in T <=> o \in S
        OBVIOUS
      <3>2. votes[o] + 1 # votes[o]
        BY <1>1
      <3>3. QED
        BY <1>2, <1>5, <3>2
    <2>2. QED
      BY <2>1
  <1>7. handed \in Nat
    BY AgainstIs
  <1>8. QED
    BY <1>2, <1>4, <1>6, <1>7 DEF Cast

\* The result read again after a paper.
Unanimous == paper.mode = "circular" /\ fixed.rules.unanimity = TRUE
Circular == paper.mode = "circular"

LEMMA OutcomeIs ==
  ASSUME RulesInv, Voting
  PROVE  Outcome = IF Unanimous THEN Verdict(votes["yes"] = Entitled)
                   ELSE IF Circular /\ handed < Needed THEN "nicht_beschlussfaehig"
                   ELSE Verdict(Accepts(fixed.majority))
  <1>1. paper.mode = "circular" => CircularStated(fixed.rules)
    BY DEF RulesInv
  <1>2. QED
    BY <1>1 DEF Outcome, Unanimous, Circular

LEMMA OutcomeIsThen ==
  ASSUME RulesInv, Voting, paper' = paper, fixed' = fixed
  PROVE  Outcome' = IF Unanimous THEN Verdict(votes'["yes"] = Entitled)
                    ELSE IF Circular /\ handed' < Needed THEN "nicht_beschlussfaehig"
                    ELSE Verdict(MeetsMajority(fixed.majority, votes'["yes"], Against', handed'))
  <1>1. paper.mode = "circular" => CircularStated(fixed.rules)
    BY DEF RulesInv
  <1>2. CircularStated(fixed'.rules) <=> CircularStated(fixed.rules)
    OBVIOUS
  <1>3. Needed' = Needed
    BY DEF Needed
  <1>4. QED
    BY <1>1, <1>2, <1>3 DEF Outcome, Unanimous, Circular, Accepts

LEMMA NeededIs ==
  ASSUME RulesInv, Voting, Circular, ~Unanimous
  PROVE  Needed \in Int
  <1>1. fixed \in Fixings /\ CircularStated(fixed.rules)
    BY DEF RulesInv, RulesTypes, Voting, Circular
  <1>2. fixed.rules.quota \in Quotas
    <2>1. fixed.rules \in Statutes
      BY <1>1 DEF Fixings
    <2>2. fixed.rules.unanimity \in BOOLEAN \cup {NotStated} /\ fixed.rules.quota \in Quotas \cup {NotStated}
      BY <2>1 DEF Statutes
    <2>3. fixed.rules.unanimity # NotStated /\ (fixed.rules.unanimity = FALSE => fixed.rules.quota # NotStated)
      BY <1>1 DEF CircularStated
    <2>4. ~(fixed.rules.unanimity = TRUE)
      BY DEF Circular, Unanimous
    <2>5. QED
      BY <2>2, <2>3, <2>4
  <1>3. fixed.rules.quota \in 1..100
    BY <1>2, VotingAssumption
  <1>4. QED
    BY <1>3, VotingAssumption DEF Needed

\* A yes never undoes an acceptance, a no never turns a rejection round.
LEMMA ResolutionsNeverBackfire ==
  ASSUME RulesInv, CountInv, [VotingNext]_votingVars
  PROVE  /\ Papered({"yes"}) /\ Outcome = "angenommen" => Outcome' = "angenommen"
         /\ Papered({"no"}) /\ Outcome = "abgelehnt" => Outcome' = "abgelehnt"
  <1>1. /\ votes["yes"] \in Nat /\ votes["no"] \in Nat /\ handed \in Nat /\ Against \in Nat
        /\ votes["yes"] <= handed
    BY AgainstIs
  <1>2. /\ {"yes"} \in SUBSET AllOptions /\ {"no"} \in SUBSET AllOptions
        /\ "yes" \in AllOptions /\ "no" \in AllOptions /\ "abstain" \in AllOptions
        /\ Entitled \in Nat
    BY OptionsAre
  <1>3. ASSUME Papered({"yes"}), Outcome = "angenommen"
        PROVE  Outcome' = "angenommen"
    <2>1. /\ handed < Entitled /\ handed' = handed + 1 /\ paper' = paper /\ fixed' = fixed
          /\ votes'["yes"] = votes["yes"] + 1 /\ votes'["no"] = votes["no"]
          /\ votes'["abstain"] = votes["abstain"] /\ Voting
      BY <1>2, <1>3, PaperedIsCast DEF Papered
    <2>2. Against' = Against
      BY <2>1 DEF Against
    <2>3. Outcome = IF Unanimous THEN Verdict(votes["yes"] = Entitled)
                    ELSE IF Circular /\ handed < Needed THEN "nicht_beschlussfaehig"
                    ELSE Verdict(Accepts(fixed.majority))
      BY <2>1, OutcomeIs
    <2>4. Outcome' = IF Unanimous THEN Verdict(votes'["yes"] = Entitled)
                     ELSE IF Circular /\ handed' < Needed THEN "nicht_beschlussfaehig"
                     ELSE Verdict(MeetsMajority(fixed.majority, votes'["yes"], Against', handed'))
      BY <2>1, OutcomeIsThen
    <2>5. ~Unanimous
      <3>1. votes["yes"] # Entitled
        BY <1>1, <1>2, <2>1
      <3>2. QED
        BY <1>3, <2>3, <3>1 DEF Verdict
    <2>6. ~(Circular /\ handed < Needed) /\ Accepts(fixed.majority)
      BY <1>3, <2>3, <2>5 DEF Verdict
    <2>7. ~(Circular /\ handed' < Needed)
      BY <1>1, <2>1, <2>5, <2>6, NeededIs
    <2>8. MeetsMajority(fixed.majority, votes'["yes"], Against', handed')
      BY <1>1, <2>1, <2>2, <2>6, MajoritiesAreMonotone DEF Accepts
    <2>9. QED
      BY <2>4, <2>5, <2>7, <2>8 DEF Verdict
  <1>4. ASSUME Papered({"no"}), Outcome = "abgelehnt"
        PROVE  Outcome' = "abgelehnt"
    <2>1. /\ handed' = handed + 1 /\ paper' = paper /\ fixed' = fixed
          /\ votes'["yes"] = votes["yes"] /\ votes'["no"] = votes["no"] + 1
          /\ votes'["abstain"] = votes["abstain"] /\ Voting
      BY <1>2, <1>4, PaperedIsCast DEF Papered
    <2>2. Against' = Against + 1
      <3>1. votes["abstain"] \in Nat
        BY <1>2 DEF CountInv
      <3>2. QED
        BY <1>1, <2>1, <3>1 DEF Against
    <2>3. Outcome = IF Unanimous THEN Verdict(votes["yes"] = Entitled)
                    ELSE IF Circular /\ handed < Needed THEN "nicht_beschlussfaehig"
                    ELSE Verdict(Accepts(fixed.majority))
      BY <2>1, OutcomeIs
    <2>4. Outcome' = IF Unanimous THEN Verdict(votes'["yes"] = Entitled)
                     ELSE IF Circular /\ handed' < Needed THEN "nicht_beschlussfaehig"
                     ELSE Verdict(MeetsMajority(fixed.majority, votes'["yes"], Against', handed'))
      BY <2>1, OutcomeIsThen
    <2>5. CASE Unanimous
      BY <1>4, <2>1, <2>3, <2>4, <2>5
    <2>6. CASE ~Unanimous
      <3>1. ~(Circular /\ handed < Needed) /\ ~Accepts(fixed.majority)
        BY <1>4, <2>3, <2>6 DEF Verdict
      <3>2. ~(Circular /\ handed' < Needed)
        BY <1>1, <2>1, <2>6, <3>1, NeededIs
      <3>3. ~MeetsMajority(fixed.majority, votes'["yes"], Against', handed')
        BY <1>1, <2>1, <2>2, <3>1, MajoritiesAreMonotone DEF Accepts
      <3>4. QED
        BY <2>4, <2>6, <3>2, <3>3 DEF Verdict
    <2>7. QED
      BY <2>5, <2>6
  <1>5. QED
    BY <1>3, <1>4

\* An abstention that is not counted moves a resolution at most over its quorum.
LEMMA AbstentionsResolveNothing ==
  ASSUME RulesInv, CountInv, [VotingNext]_votingVars, Papered({"abstain"}),
         fixed.rules.abstain = "not_counted", fixed.majority # "absolut"
  PROVE  Outcome' = Outcome \/ Outcome = "nicht_beschlussfaehig"
  <1>1. /\ votes["yes"] \in Nat /\ votes["no"] \in Nat /\ handed \in Nat /\ Against \in Nat
    BY AgainstIs
  <1>2. /\ {"abstain"} \in SUBSET AllOptions
        /\ "yes" \in AllOptions /\ "no" \in AllOptions /\ "abstain" \in AllOptions
    BY OptionsAre
  <1>3. /\ handed' = handed + 1 /\ paper' = paper /\ fixed' = fixed
        /\ votes'["yes"] = votes["yes"] /\ votes'["no"] = votes["no"] /\ Voting
    BY <1>2, PaperedIsCast DEF Papered
  <1>4. Against' = Against
    BY <1>3 DEF Against
  <1>5. Outcome = IF Unanimous THEN Verdict(votes["yes"] = Entitled)
                  ELSE IF Circular /\ handed < Needed THEN "nicht_beschlussfaehig"
                  ELSE Verdict(Accepts(fixed.majority))
    BY <1>3, OutcomeIs
  <1>6. Outcome' = IF Unanimous THEN Verdict(votes'["yes"] = Entitled)
                   ELSE IF Circular /\ handed' < Needed THEN "nicht_beschlussfaehig"
                   ELSE Verdict(MeetsMajority(fixed.majority, votes'["yes"], Against', handed'))
    BY <1>3, OutcomeIsThen
  <1>7. CASE Unanimous
    BY <1>3, <1>5, <1>6, <1>7
  <1>8. CASE ~Unanimous /\ Circular /\ handed < Needed
    BY <1>5, <1>8
  <1>9. CASE ~Unanimous /\ ~(Circular /\ handed < Needed)
    <2>1. ~(Circular /\ handed' < Needed)
      BY <1>1, <1>3, <1>9, NeededIs
    <2>2. MeetsMajority(fixed.majority, votes'["yes"], Against', handed') <=> Accepts(fixed.majority)
      BY <1>1, <1>3, <1>4, MajoritiesAreMonotone DEF Accepts
    <2>3. QED
      BY <1>5, <1>6, <1>9, <2>1, <2>2 DEF Verdict
  <1>10. QED
    BY <1>7, <1>8, <1>9

-----------------------------------------------------------------------------
(***************************************************************************)
(* Elections.  Who is level with whom is a matter of how many options have  *)
(* as many votes or more; Placed says so of the elected and the tied, and   *)
(* no longer speaks of the votes of the last seat.                          *)
(***************************************************************************)
LEMMA LeastOf ==
  ASSUME NEW N \in SUBSET Nat, N # {}
  PROVE  \E n \in N : \A k \in N : n <= k
  <1>1. PICK R : R = OpToRel(<, Nat)
    OBVIOUS
  <1>2. IsWellFoundedOn(R, Nat)
    BY <1>1, NatLessThanWellFounded, Zenon
  <1>3. PICK n \in N : \A k \in N : ~(<<k, n>> \in R)
    BY <1>2, WFMin, Zenon
  <1>4. \A k \in N : n <= k
    <2>1. SUFFICES ASSUME NEW k \in N, ~(n <= k)
                   PROVE  FALSE
      OBVIOUS
    <2>2. k \in Nat /\ n \in Nat /\ k < n
      BY <2>1
    <2>3. <<k, n>> \in R
      BY <1>1, <2>2 DEF OpToRel
    <2>4. QED
      BY <1>3, <2>3
  <1>5. QED
    BY <1>4

\* A finite set has parts of every size up to its own.
LEMMA PartOfSize ==
  ASSUME NEW S, IsFiniteSet(S), NEW k \in 0..Cardinality(S)
  PROVE  \E T \in SUBSET S : Cardinality(T) = k
  <1>1. PICK n : n = Cardinality(S)
    OBVIOUS
  <1>2. n \in Nat /\ k \in 0..n /\ ExistsBijection(1..n, S)
    BY <1>1, FS_CardinalityType
  <1>3. PICK f \in Bijection(1..n, S) : TRUE
    BY <1>2 DEF ExistsBijection
  <1>4. PICK g : g = [i \in 1..k |-> f[i]]
    OBVIOUS
  <1>5. PICK T : T = {f[i] : i \in 1..k}
    OBVIOUS
  <1>6. /\ f \in [1..n -> S] /\ \A i, j \in 1..n : f[i] = f[j] => i = j
    BY <1>3 DEF Bijection, Injection, IsInjective
  <1>7. 1..k \subseteq 1..n /\ k \in Nat
    BY <1>2
  <1>8. g \in Bijection(1..k, T)
    <2>1. g \in [1..k -> T]
      BY <1>4, <1>5
    <2>2. \A i, j \in 1..k : g[i] = g[j] => i = j
      BY <1>4, <1>6, <1>7
    <2>3. \A t \in T : \E i \in 1..k : g[i] = t
      BY <1>4, <1>5
    <2>4. QED
      BY <2>1, <2>2, <2>3 DEF Bijection, Injection, Surjection, IsInjective
  <1>9. IsFiniteSet(1..k) /\ Cardinality(1..k) = k
    BY <1>7, FS_Interval
  <1>10. Cardinality(T) = k
    <2>1. ExistsBijection(1..k, T)
      BY <1>8 DEF ExistsBijection
    <2>2. QED
      BY <1>9, <2>1, FS_Bijection
  <1>11. T \in SUBSET S
    BY <1>5, <1>6, <1>7
  <1>12. QED
    BY <1>10, <1>11

LEMMA Fewer ==
  ASSUME NEW S, IsFiniteSet(S), NEW T \in SUBSET S
  PROVE  /\ IsFiniteSet(T) /\ Cardinality(T) \in Nat /\ Cardinality(S) \in Nat
         /\ Cardinality(T) <= Cardinality(S) /\ (T # S => Cardinality(T) < Cardinality(S))
  BY FS_Subset, FS_CardinalityType

\* The options that qualify, and those from some number of votes on.
LEMMA LevelsAre ==
  ASSUME RulesInv, CountInv
  PROVE  /\ IsFiniteSet(Qualified) /\ Cardinality(Qualified) \in Nat
         /\ Seats \in Nat \ {0} /\ Qualified \subseteq Options
         /\ \A o \in Qualified : votes[o] \in Nat
         /\ \A v : /\ WithAtLeast(v) \subseteq Qualified /\ IsFiniteSet(WithAtLeast(v))
                   /\ Above(v) \subseteq Qualified /\ IsFiniteSet(Above(v))
                   /\ Cardinality(WithAtLeast(v)) \in Nat /\ Cardinality(Above(v)) \in Nat
  <1>1. Qualified \subseteq paper.form.choices
    BY DEF Qualified
  <1>2. IsFiniteSet(Qualified) /\ Qualified \subseteq Options /\ Seats \in Nat \ {0}
    BY <1>1, FormIs, FS_Subset DEF Seats
  <1>3. \A o \in Qualified : votes[o] \in Nat
    BY <1>2, OptionsAre DEF CountInv
  <1>4. \A v : WithAtLeast(v) \in SUBSET Qualified /\ Above(v) \in SUBSET Qualified
    BY DEF WithAtLeast, Above
  <1>5. QED
    BY <1>2, <1>3, <1>4, Fewer

\* Where more qualify than there are seats, the last seat has its votes.
LEMMA LastVotesAre ==
  ASSUME RulesInv, CountInv, ~AllWin
  PROVE  /\ \E o \in Qualified : LastVotes = votes[o]
         /\ Cardinality(Above(LastVotes)) < Seats /\ Seats <= Cardinality(WithAtLeast(LastVotes))
  <1>1. /\ IsFiniteSet(Qualified) /\ Cardinality(Qualified) \in Nat
        /\ Seats \in Nat \ {0} /\ \A o \in Qualified : votes[o] \in Nat
        /\ \A v : /\ WithAtLeast(v) \subseteq Qualified /\ IsFiniteSet(WithAtLeast(v))
                  /\ Above(v) \subseteq Qualified /\ IsFiniteSet(Above(v))
                  /\ Cardinality(WithAtLeast(v)) \in Nat /\ Cardinality(Above(v)) \in Nat
    BY LevelsAre
  <1>2. Seats < Cardinality(Qualified)
    BY <1>1 DEF AllWin
  <1>3. ASSUME NEW A \in SUBSET Qualified, A # {}
        PROVE  \E o \in A : \A p \in A : votes[o] <= votes[p]
    <2>1. PICK N : N = {votes[o] : o \in A}
      OBVIOUS
    <2>2. N \in SUBSET Nat /\ N # {}
      BY <1>1, <1>3, <2>1
    <2>3. PICK n \in N : \A k \in N : n <= k
      BY <2>2, LeastOf
    <2>4. QED
      BY <2>1, <2>3
  <1>4. PICK R : R = {Cardinality(WithAtLeast(votes[o])) : o \in {q \in Qualified : Seats <= Cardinality(WithAtLeast(votes[q]))}}
    OBVIOUS
  <1>5. R \in SUBSET Nat
    BY <1>1, <1>4
  <1>6. R # {}
    <2>1. Qualified # {}
      BY <1>1, <1>2, FS_EmptySet
    <2>2. PICK o \in Qualified : \A p \in Qualified : votes[o] <= votes[p]
      BY <1>3, <2>1
    <2>3. WithAtLeast(votes[o]) = Qualified
      BY <1>1, <2>2 DEF WithAtLeast
    <2>4. QED
      BY <1>1, <1>2, <1>4, <2>3
  <1>7. PICK r \in R : \A k \in R : r <= k
    BY <1>5, <1>6, LeastOf
  <1>8. PICK o \in Qualified : Seats <= Cardinality(WithAtLeast(votes[o])) /\ r = Cardinality(WithAtLeast(votes[o]))
    BY <1>4
  <1>9. Cardinality(Above(votes[o])) < Seats
    <2>1. SUFFICES ASSUME Seats <= Cardinality(Above(votes[o]))
                   PROVE  FALSE
      BY <1>1
    <2>2. Above(votes[o]) # {} /\ Above(votes[o]) \in SUBSET Qualified
      BY <1>1, <2>1, FS_EmptySet
    <2>3. PICK p \in Above(votes[o]) : \A q \in Above(votes[o]) : votes[p] <= votes[q]
      BY <1>3, <2>2
    <2>4. p \in Qualified /\ votes[p] > votes[o]
      BY <2>3 DEF Above
    <2>5. WithAtLeast(votes[p]) = Above(votes[o])
      BY <1>1, <1>8, <2>3, <2>4 DEF WithAtLeast, Above
    <2>6. Cardinality(Above(votes[o])) \in R
      BY <1>4, <2>1, <2>4, <2>5
    <2>7. Above(votes[o]) \in SUBSET WithAtLeast(votes[o]) /\ o \in WithAtLeast(votes[o]) /\ o \notin Above(votes[o])
      BY <1>1, <1>8 DEF WithAtLeast, Above
    <2>8. Cardinality(Above(votes[o])) < Cardinality(WithAtLeast(votes[o]))
      BY <1>1, <2>7, Fewer
    <2>9. QED
      BY <1>1, <1>7, <1>8, <2>6, <2>8
  <1>10. PICK v : v = votes[o]
    OBVIOUS
  <1>11. v \in {votes[p] : p \in Qualified} /\ Cardinality(Above(v)) < Seats /\ Seats <= Cardinality(WithAtLeast(v))
    BY <1>8, <1>9, <1>10
  <1>12. /\ LastVotes \in {votes[p] : p \in Qualified}
         /\ Cardinality(Above(LastVotes)) < Seats /\ Seats <= Cardinality(WithAtLeast(LastVotes))
    BY <1>11 DEF LastVotes
  <1>13. QED
    BY <1>12

Placed ==
  /\ Elected = {o \in Qualified : Cardinality(WithAtLeast(votes[o])) <= Seats}
  /\ Tied = {o \in Qualified : Cardinality(Above(votes[o])) < Seats /\ Seats < Cardinality(WithAtLeast(votes[o]))}

LEMMA LevelsNest ==
  ASSUME RulesInv, CountInv
  PROVE  /\ \A u, v \in Nat : u <= v => Cardinality(WithAtLeast(v)) <= Cardinality(WithAtLeast(u))
         /\ \A u, v \in Nat : u < v => Cardinality(WithAtLeast(v)) <= Cardinality(Above(u))
         /\ \A v \in Nat : Cardinality(Above(v)) <= Cardinality(WithAtLeast(v))
         /\ \A v \in Nat : (\E o \in Qualified : votes[o] = v) => Cardinality(Above(v)) < Cardinality(WithAtLeast(v))
         /\ \A o \in Qualified : Cardinality(WithAtLeast(votes[o])) <= Cardinality(Qualified)
  <1>1. /\ \A o \in Qualified : votes[o] \in Nat
        /\ \A v : /\ WithAtLeast(v) \subseteq Qualified /\ IsFiniteSet(WithAtLeast(v))
                  /\ Above(v) \subseteq Qualified /\ IsFiniteSet(Above(v))
        /\ IsFiniteSet(Qualified)
    BY LevelsAre
  <1>2. ASSUME NEW u \in Nat, NEW v \in Nat, u <= v
        PROVE  Cardinality(WithAtLeast(v)) <= Cardinality(WithAtLeast(u))
    <2>1. WithAtLeast(v) \in SUBSET WithAtLeast(u)
      BY <1>1, <1>2 DEF WithAtLeast
    <2>2. QED
      BY <1>1, <2>1, Fewer
  <1>3. ASSUME NEW u \in Nat, NEW v \in Nat, u < v
        PROVE  Cardinality(WithAtLeast(v)) <= Cardinality(Above(u))
    <2>1. WithAtLeast(v) \in SUBSET Above(u)
      BY <1>1, <1>3 DEF WithAtLeast, Above
    <2>2. QED
      BY <1>1, <2>1, Fewer
  <1>4. ASSUME NEW v \in Nat
        PROVE  /\ Cardinality(Above(v)) <= Cardinality(WithAtLeast(v))
               /\ (\E o \in Qualified : votes[o] = v) => Cardinality(Above(v)) < Cardinality(WithAtLeast(v))
    <2>1. Above(v) \in SUBSET WithAtLeast(v)
      BY <1>1, <1>4 DEF WithAtLeast, Above
    <2>2. (\E o \in Qualified : votes[o] = v) => Above(v) # WithAtLeast(v)
      BY <1>1, <1>4 DEF WithAtLeast, Above
    <2>3. QED
      BY <1>1, <2>1, <2>2, Fewer
  <1>5. \A o \in Qualified : Cardinality(WithAtLeast(votes[o])) <= Cardinality(Qualified)
    BY <1>1, Fewer
  <1>6. QED
    BY <1>2, <1>3, <1>4, <1>5

LEMMA SeatsArePlaced == RulesInv /\ CountInv => Placed
  <1>1. SUFFICES ASSUME RulesInv, CountInv
                 PROVE  Placed
    OBVIOUS
  <1>2. /\ Seats \in Nat \ {0} /\ Cardinality(Qualified) \in Nat
        /\ \A o \in Qualified : votes[o] \in Nat
        /\ \A v : Cardinality(WithAtLeast(v)) \in Nat /\ Cardinality(Above(v)) \in Nat
    BY <1>1, LevelsAre
  <1>3. /\ \A u, v \in Nat : u <= v => Cardinality(WithAtLeast(v)) <= Cardinality(WithAtLeast(u))
        /\ \A u, v \in Nat : u < v => Cardinality(WithAtLeast(v)) <= Cardinality(Above(u))
        /\ \A v \in Nat : Cardinality(Above(v)) <= Cardinality(WithAtLeast(v))
        /\ \A o \in Qualified : Cardinality(WithAtLeast(votes[o])) <= Cardinality(Qualified)
    BY <1>1, LevelsNest
  <1>4. CASE AllWin
    <2>1. Elected = Qualified /\ Tied = {} /\ Cardinality(Qualified) <= Seats
      BY <1>4 DEF Elected, Tied, AllWin
    <2>2. \A o \in Qualified : Cardinality(WithAtLeast(votes[o])) <= Seats
      BY <1>2, <1>3, <2>1
    <2>3. QED
      BY <1>2, <2>1, <2>2 DEF Placed
  <1>5. CASE ~AllWin
    <2>1. PICK v : v = LastVotes
      OBVIOUS
    <2>2. /\ v \in Nat /\ Cardinality(Above(v)) < Seats /\ Seats <= Cardinality(WithAtLeast(v))
      BY <1>1, <1>2, <1>5, <2>1, LastVotesAre
    <2>3. CASE Cardinality(WithAtLeast(v)) = Seats
      <3>1. Elected = WithAtLeast(v) /\ Tied = {}
        BY <1>5, <2>1, <2>3 DEF Elected, Tied
      <3>2. ASSUME NEW o \in Qualified
            PROVE  /\ o \in WithAtLeast(v) <=> Cardinality(WithAtLeast(votes[o])) <= Seats
                   /\ ~(Cardinality(Above(votes[o])) < Seats /\ Seats < Cardinality(WithAtLeast(votes[o])))
        <4>1. o \in WithAtLeast(v) <=> v <= votes[o]
          BY <1>2, <2>2 DEF WithAtLeast
        <4>2. CASE v <= votes[o]
          BY <1>2, <1>3, <2>2, <2>3, <4>1, <4>2
        <4>3. CASE ~(v <= votes[o])
          <5>1. votes[o] < v /\ votes[o] \in Nat
            BY <1>2, <2>2, <4>3
          <5>2. Seats <= Cardinality(Above(votes[o]))
            BY <1>3, <2>2, <2>3, <5>1
          <5>3. Cardinality(Above(votes[o])) < Cardinality(WithAtLeast(votes[o]))
            BY <1>1, <5>1, LevelsNest
          <5>4. QED
            BY <1>2, <4>1, <4>3, <5>2, <5>3
        <4>4. QED
          BY <4>2, <4>3
      <3>3. WithAtLeast(v) \subseteq Qualified
        BY DEF WithAtLeast
      <3>4. QED
        BY <3>1, <3>2, <3>3 DEF Placed
    <2>4. CASE Cardinality(WithAtLeast(v)) # Seats
      <3>1. Elected = Above(v) /\ Tied = WithAtLeast(v) \ Above(v)
        BY <1>5, <2>1, <2>4 DEF Elected, Tied
      <3>2. Seats < Cardinality(WithAtLeast(v))
        BY <1>2, <2>2, <2>4
      <3>3. ASSUME NEW o \in Qualified
            PROVE  /\ o \in Above(v) <=> Cardinality(WithAtLeast(votes[o])) <= Seats
                   /\ o \in WithAtLeast(v) \ Above(v) <=>
                        Cardinality(Above(votes[o])) < Seats /\ Seats < Cardinality(WithAtLeast(votes[o]))
        <4>1. (o \in WithAtLeast(v) <=> v <= votes[o]) /\ (o \in Above(v) <=> v < votes[o])
          BY <1>2, <2>2 DEF WithAtLeast, Above
        <4>2. CASE v < votes[o]
          <5>1. Cardinality(WithAtLeast(votes[o])) < Seats
            BY <1>2, <1>3, <2>2, <4>2
          <5>2. QED
            BY <1>2, <4>1, <4>2, <5>1
        <4>3. CASE v = votes[o]
          BY <1>2, <2>2, <3>2, <4>1, <4>3
        <4>4. CASE votes[o] < v
          <5>1. Seats < Cardinality(Above(votes[o]))
            BY <1>2, <1>3, <2>2, <3>2, <4>4
          <5>2. Cardinality(Above(votes[o])) <= Cardinality(WithAtLeast(votes[o]))
            BY <1>2, <1>3
          <5>3. QED
            BY <1>2, <2>2, <4>1, <4>4, <5>1, <5>2
        <4>5. QED
          BY <1>2, <2>2, <4>2, <4>3, <4>4
      <3>4. WithAtLeast(v) \subseteq Qualified /\ Above(v) \subseteq Qualified
        BY DEF WithAtLeast, Above
      <3>5. QED
        BY <3>1, <3>3, <3>4 DEF Placed
    <2>5. QED
      BY <2>3, <2>4
  <1>6. QED
    BY <1>4, <1>5

\* Qualifying, once a step has added a paper.
LEMMA QualifiedThen ==
  ASSUME paper' = paper, fixed' = fixed
  PROVE  /\ Qualified' = {o \in paper.form.choices :
              /\ votes'[o] > 0
              /\ \/ fixed.majority = "einfach"
                 \/ fixed.majority = "absolut" /\ 2 * votes'[o] > handed'
                 \/ fixed.majority = "zwei_drittel" /\ 3 * votes'[o] >= 2 * Counted'
                 \/ fixed.majority = "drei_viertel" /\ 4 * votes'[o] >= 3 * Counted'
                 \/ fixed.majority = "einstimmig" /\ votes'[o] = Counted'}
         /\ Seats' = Seats
  BY DEF Qualified, Qualifies, Seats

LEMMA QualifiedIs ==
  /\ Qualified = {o \in paper.form.choices :
       /\ votes[o] > 0
       /\ \/ fixed.majority = "einfach"
          \/ fixed.majority = "absolut" /\ 2 * votes[o] > handed
          \/ fixed.majority = "zwei_drittel" /\ 3 * votes[o] >= 2 * Counted
          \/ fixed.majority = "drei_viertel" /\ 4 * votes[o] >= 3 * Counted
          \/ fixed.majority = "einstimmig" /\ votes[o] = Counted}
  /\ Qualified \subseteq paper.form.choices
  BY DEF Qualified, Qualifies

LEMMA CountedIs ==
  ASSUME CountInv
  PROVE  /\ Counted \in Nat /\ handed \in Nat /\ votes["abstain"] \in Nat
         /\ \A o \in Options : votes[o] \in Nat /\ votes[o] <= Counted
  <1>1. /\ \A o \in AllOptions : votes[o] \in Nat
        /\ handed \in Nat /\ votes["yes"] + votes["no"] + votes["abstain"] <= handed
        /\ \A o \in Options : votes[o] + votes["abstain"] <= handed
    BY OptionsAre DEF CountInv
  <1>2. votes["yes"] \in Nat /\ votes["no"] \in Nat /\ votes["abstain"] \in Nat
    BY <1>1, OptionsAre
  <1>3. Counted = handed \/ Counted = handed - votes["abstain"]
    BY <1>1 DEF Counted
  <1>4. Counted \in Nat
    BY <1>1, <1>2, <1>3
  <1>5. \A o \in Options : votes[o] \in Nat
    BY <1>1, OptionsAre
  <1>6. \A o \in Options : votes[o] <= Counted
    BY <1>1, <1>2, <1>3, <1>5
  <1>7. QED
    BY <1>1, <1>2, <1>4, <1>5, <1>6

\* The elected and the tied, read again after a step.
LEMMA PlacedThen ==
  ASSUME RulesInv', CountInv'
  PROVE  /\ Elected' = {o \in Qualified' : Cardinality({p \in Qualified' : votes'[p] >= votes'[o]}) <= Seats'}
         /\ Tied' = {o \in Qualified' : /\ Cardinality({p \in Qualified' : votes'[p] > votes'[o]}) < Seats'
                                        /\ Seats' < Cardinality({p \in Qualified' : votes'[p] >= votes'[o]})}
  <1>1. Placed'
    BY SeatsArePlaced, PTL
  <1>2. QED
    BY <1>1 DEF Placed, WithAtLeast, Above

\* A paper that names an elected option leaves it elected.
LEMMA ElectionsNeverBackfire ==
  ASSUME RulesInv, CountInv, RulesInv', CountInv', [VotingNext]_votingVars,
         NEW S \in SUBSET Options, Papered(S), IsChoice
  PROVE  Elected \cap S \subseteq Elected'
  <1>1. SUFFICES ASSUME NEW e \in Elected, e \in S
                 PROVE  e \in Elected'
    OBVIOUS
  <1>2. S \in SUBSET AllOptions /\ S # {} /\ "abstain" \notin S /\ "abstain" \in AllOptions
    BY <1>1, OptionsAre
  <1>3. /\ handed' = handed + 1 /\ paper' = paper /\ fixed' = fixed
        /\ \A o \in AllOptions : votes'[o] = IF o \in S THEN votes[o] + 1 ELSE votes[o]
    BY <1>2, PaperedIsCast
  <1>4. /\ Counted \in Nat /\ handed \in Nat /\ votes["abstain"] \in Nat
        /\ \A o \in Options : votes[o] \in Nat /\ votes[o] <= Counted
    BY CountedIs
  <1>5. Counted' = Counted + 1
    <2>1. votes'["abstain"] = votes["abstain"]
      BY <1>2, <1>3
    <2>2. QED
      BY <1>3, <1>4, <2>1 DEF Counted
  <1>6. paper.form.choices \subseteq Options /\ Options \subseteq AllOptions /\ Qualified \subseteq paper.form.choices
    BY FormIs, OptionsAre, QualifiedIs
  <1>7. e \in Qualified /\ Cardinality(WithAtLeast(votes[e])) <= Seats
    BY SeatsArePlaced DEF Placed
  <1>8. e \in paper.form.choices /\ votes[e] \in Nat /\ votes'[e] = votes[e] + 1
    BY <1>1, <1>3, <1>4, <1>6, <1>7
  <1>9. e \in Qualified'
    BY <1>3, <1>4, <1>5, <1>7, <1>8, QualifiedIs, QualifiedThen
  <1>10. ASSUME NEW p \in Qualified', votes'[p] >= votes'[e]
         PROVE  p \in WithAtLeast(votes[e])
    <2>1. p \in paper.form.choices /\ p \in Options /\ p \in AllOptions
      BY <1>3, <1>6, QualifiedThen
    <2>2. votes[p] \in Nat /\ votes[p] <= Counted /\ votes[p] >= votes[e]
      BY <1>3, <1>4, <1>8, <1>10, <2>1
    <2>3. p \in Qualified
      BY <1>4, <1>7, <1>8, <2>1, <2>2, QualifiedIs
    <2>4. QED
      BY <2>2, <2>3 DEF WithAtLeast
  <1>11. Cardinality({p \in Qualified' : votes'[p] >= votes'[e]}) <= Seats'
    <2>1. {p \in Qualified' : votes'[p] >= votes'[e]} \in SUBSET WithAtLeast(votes[e])
      BY <1>10
    <2>2. IsFiniteSet(WithAtLeast(votes[e])) /\ Seats \in Nat
      BY LevelsAre
    <2>3. QED
      BY <1>3, <1>7, <2>1, <2>2, Fewer, QualifiedThen
  <1>12. QED
    BY <1>9, <1>11, PlacedThen

\* An abstention that is not counted elects nobody and unseats nobody.
LEMMA AbstentionsElectNobody ==
  ASSUME RulesInv, CountInv, RulesInv', CountInv', [VotingNext]_votingVars, Papered({"abstain"}),
         fixed.rules.abstain = "not_counted", fixed.majority # "absolut"
  PROVE  Elected' = Elected /\ Tied' = Tied
  <1>1. {"abstain"} \in SUBSET AllOptions /\ {"abstain"} # {} /\ "abstain" \in AllOptions
    BY OptionsAre
  <1>2. /\ handed' = handed + 1 /\ paper' = paper /\ fixed' = fixed
        /\ \A o \in AllOptions : votes'[o] = IF o \in {"abstain"} THEN votes[o] + 1 ELSE votes[o]
    BY <1>1, PaperedIsCast
  <1>3. /\ paper.form.choices \subseteq Options /\ Qualified \subseteq paper.form.choices
        /\ \A o \in Options : o \in AllOptions /\ o # "abstain"
    BY FormIs, OptionsAre, QualifiedIs
  <1>4. \A o \in paper.form.choices : votes'[o] = votes[o]
    BY <1>2, <1>3
  <1>5. handed \in Nat /\ votes["abstain"] \in Nat /\ votes'["abstain"] = votes["abstain"] + 1
    BY <1>1, <1>2, CountedIs
  <1>6. Counted' = Counted
    BY <1>2, <1>5 DEF Counted
  <1>7. Qualified' = Qualified /\ Seats' = Seats
    BY <1>2, <1>4, <1>6, QualifiedIs, QualifiedThen
  <1>8. \A o \in Qualified : votes'[o] = votes[o]
    BY <1>3, <1>4
  <1>9. ASSUME NEW o \in Qualified
        PROVE  /\ {p \in Qualified' : votes'[p] >= votes'[o]} = WithAtLeast(votes[o])
               /\ {p \in Qualified' : votes'[p] > votes'[o]} = Above(votes[o])
    BY <1>7, <1>8 DEF WithAtLeast, Above
  <1>10. Placed
    BY SeatsArePlaced
  <1>11. Elected' = Elected
    BY <1>7, <1>9, <1>10, PlacedThen DEF Placed
  <1>12. Tied' = Tied
    BY <1>7, <1>9, <1>10, PlacedThen DEF Placed
  <1>13. QED
    BY <1>11, <1>12

\* What the levels say of a set of winners.
LEMMA FairSetIs ==
  ASSUME NEW W
  PROVE  W \in FairSets <=>
           /\ W \in SUBSET Qualified
           /\ Cardinality(W) = IF AllWin THEN Cardinality(Qualified) ELSE Seats
           /\ \A w \in W, l \in Qualified \ W : votes[w] >= votes[l]
  BY DEF FairSets

\* The elected are in every fair set, and only one of the elected or tied is in any.
LEMMA FairSetsHold ==
  ASSUME RulesInv, CountInv, NEW W \in FairSets, NEW o \in Qualified
  PROVE  /\ o \in Elected => o \in W
         /\ o \in W => o \in Elected \cup Tied
  <1>1. /\ IsFiniteSet(Qualified) /\ Cardinality(Qualified) \in Nat /\ Seats \in Nat \ {0}
        /\ \A p \in Qualified : votes[p] \in Nat
        /\ \A v : /\ WithAtLeast(v) \subseteq Qualified /\ IsFiniteSet(WithAtLeast(v))
                  /\ Above(v) \subseteq Qualified /\ IsFiniteSet(Above(v))
                  /\ Cardinality(WithAtLeast(v)) \in Nat /\ Cardinality(Above(v)) \in Nat
    BY LevelsAre
  <1>2. /\ W \in SUBSET Qualified
        /\ Cardinality(W) = IF AllWin THEN Cardinality(Qualified) ELSE Seats
        /\ \A w \in W, l \in Qualified \ W : votes[w] >= votes[l]
    BY FairSetIs
  <1>3. IsFiniteSet(W) /\ Cardinality(W) \in Nat
    BY <1>1, <1>2, Fewer
  <1>4. Placed
    BY SeatsArePlaced
  <1>5. AllWin => W = Qualified
    BY <1>1, <1>2, FS_Subset
  <1>6. ASSUME o \in Elected, o \notin W
        PROVE  FALSE
    <2>1. ~AllWin /\ Cardinality(W) = Seats
      BY <1>2, <1>5, <1>6
    <2>2. Cardinality(WithAtLeast(votes[o])) <= Seats
      BY <1>4, <1>6 DEF Placed
    <2>3. W \in SUBSET WithAtLeast(votes[o]) /\ W # WithAtLeast(votes[o])
      BY <1>1, <1>2, <1>6 DEF WithAtLeast
    <2>4. Cardinality(W) < Cardinality(WithAtLeast(votes[o]))
      BY <1>1, <2>3, Fewer
    <2>5. QED
      BY <1>1, <2>1, <2>2, <2>4
  <1>7. ASSUME o \in W, o \notin Elected
        PROVE  o \in Tied
    <2>1. Seats < Cardinality(WithAtLeast(votes[o]))
      BY <1>1, <1>4, <1>7 DEF Placed
    <2>2. ~AllWin
      <3>1. Cardinality(WithAtLeast(votes[o])) <= Cardinality(Qualified)
        BY LevelsNest
      <3>2. QED
        BY <1>1, <2>1, <3>1 DEF AllWin
    <2>3. Above(votes[o]) \in SUBSET W /\ Above(votes[o]) # W
      BY <1>1, <1>2, <1>7 DEF Above
    <2>4. Cardinality(Above(votes[o])) < Seats
      BY <1>1, <1>2, <1>3, <2>2, <2>3, Fewer
    <2>5. QED
      BY <1>4, <2>1, <2>4 DEF Placed
  <1>8. QED
    BY <1>6, <1>7

\* The lot among those who are tied completes a fair set.
LEMMA LotsAreFair ==
  ASSUME RulesInv, CountInv, NEW lot \in SUBSET Tied, Cardinality(lot) = OpenSeats
  PROVE  Elected \cup lot \in FairSets
  <1>1. /\ IsFiniteSet(Qualified) /\ Cardinality(Qualified) \in Nat /\ Seats \in Nat \ {0}
        /\ \A p \in Qualified : votes[p] \in Nat
        /\ \A v : /\ WithAtLeast(v) \subseteq Qualified /\ IsFiniteSet(WithAtLeast(v))
                  /\ Above(v) \subseteq Qualified /\ IsFiniteSet(Above(v))
                  /\ Cardinality(WithAtLeast(v)) \in Nat /\ Cardinality(Above(v)) \in Nat
    BY LevelsAre
  <1>2. Tied \subseteq Qualified /\ IsFiniteSet(lot)
    <2>1. Tied \subseteq Qualified
      BY SeatsArePlaced DEF Placed
    <2>2. QED
      BY <1>1, <2>1, FS_Subset
  <1>3. CASE AllWin
    <2>1. Elected = Qualified /\ Tied = {}
      BY <1>3 DEF Elected, Tied
    <2>2. QED
      BY <1>3, <2>1, FairSetIs
  <1>4. CASE ~AllWin
    <2>1. PICK v : v = LastVotes
      OBVIOUS
    <2>2. /\ v \in Nat /\ \E o \in Qualified : votes[o] = v
          /\ Cardinality(Above(v)) < Seats /\ Seats <= Cardinality(WithAtLeast(v))
      BY <1>1, <1>4, <2>1, LastVotesAre
    <2>3. CASE Cardinality(WithAtLeast(v)) = Seats
      <3>1. Elected = WithAtLeast(v) /\ Tied = {}
        BY <1>4, <2>1, <2>3 DEF Elected, Tied
      <3>2. Elected \cup lot = WithAtLeast(v)
        BY <3>1
      <3>3. \A w \in WithAtLeast(v), l \in Qualified \ WithAtLeast(v) : votes[w] >= votes[l]
        BY <1>1, <2>2 DEF WithAtLeast
      <3>4. QED
        BY <1>1, <1>4, <2>3, <3>2, <3>3, FairSetIs
    <2>4. CASE Cardinality(WithAtLeast(v)) # Seats
      <3>1. Elected = Above(v) /\ Tied = WithAtLeast(v) \ Above(v)
        BY <1>4, <2>1, <2>4 DEF Elected, Tied
      <3>2. Tied # {}
        BY <1>1, <2>2, <3>1 DEF WithAtLeast, Above
      <3>3. Cardinality(lot) = Seats - Cardinality(Above(v))
        BY <3>1, <3>2 DEF OpenSeats
      <3>4. Above(v) \cap lot = {}
        BY <3>1
      <3>5. Cardinality(Above(v) \cup lot) = Seats
        <4>1. Cardinality({}) = 0
          BY FS_EmptySet
        <4>2. Cardinality(Above(v) \cup lot) = Cardinality(Above(v)) + Cardinality(lot) - Cardinality(Above(v) \cap lot)
          BY <1>1, <1>2, FS_Union
        <4>3. Cardinality(Above(v) \cap lot) = 0
          BY <3>4, <4>1
        <4>4. Cardinality(Above(v)) \in Nat /\ Seats \in Nat
          BY <1>1
        <4>5. QED
          BY <3>3, <4>2, <4>3, <4>4
      <3>6. \A w \in Above(v) \cup lot, l \in Qualified \ (Above(v) \cup lot) : votes[w] >= votes[l]
        BY <1>1, <2>2, <3>1 DEF WithAtLeast, Above
      <3>7. QED
        BY <1>1, <1>2, <1>4, <3>1, <3>5, <3>6, FairSetIs
    <2>5. QED
      BY <2>3, <2>4
  <1>5. QED
    BY <1>3, <1>4

\* There is always a lot to draw, with a given one who is tied or without.
LEMMA LotsThereAre ==
  ASSUME RulesInv, CountInv
  PROVE  /\ \E lot \in SUBSET Tied : Cardinality(lot) = OpenSeats
         /\ \A o \in Tied : \E lot \in SUBSET Tied : o \in lot /\ Cardinality(lot) = OpenSeats
         /\ \A o \in Tied : \E lot \in SUBSET Tied : o \notin lot /\ Cardinality(lot) = OpenSeats
  <1>1. /\ IsFiniteSet(Qualified) /\ Cardinality(Qualified) \in Nat /\ Seats \in Nat \ {0}
        /\ \A p \in Qualified : votes[p] \in Nat
        /\ \A v : /\ WithAtLeast(v) \subseteq Qualified /\ IsFiniteSet(WithAtLeast(v))
                  /\ Above(v) \subseteq Qualified /\ IsFiniteSet(Above(v))
                  /\ Cardinality(WithAtLeast(v)) \in Nat /\ Cardinality(Above(v)) \in Nat
    BY LevelsAre
  <1>2. Cardinality({}) = 0
    BY FS_EmptySet
  <1>3. CASE Tied = {}
    <2>1. OpenSeats = 0
      BY <1>3 DEF OpenSeats
    <2>2. QED
      BY <1>2, <1>3, <2>1
  <1>4. CASE Tied # {}
    <2>1. PICK v : v = LastVotes
      OBVIOUS
    <2>2. ~AllWin
      BY <1>4 DEF Tied
    <2>3. Cardinality(WithAtLeast(v)) # Seats
      BY <1>4, <2>1 DEF Tied
    <2>4. /\ v \in Nat /\ Cardinality(Above(v)) < Seats /\ Seats <= Cardinality(WithAtLeast(v))
      BY <1>1, <2>1, <2>2, LastVotesAre
    <2>5. Elected = Above(v) /\ Tied = WithAtLeast(v) \ Above(v)
      BY <2>1, <2>2, <2>3 DEF Elected, Tied
    <2>6. OpenSeats = Seats - Cardinality(Above(v))
      BY <1>4, <2>5 DEF OpenSeats
    <2>7. Above(v) \subseteq WithAtLeast(v)
      BY <1>1, <2>4 DEF WithAtLeast, Above
    <2>8. IsFiniteSet(Tied) /\ Cardinality(Tied) = Cardinality(WithAtLeast(v)) - Cardinality(Above(v))
      <3>1. WithAtLeast(v) \cap Above(v) = Above(v)
        BY <2>7
      <3>2. QED
        BY <1>1, <2>5, <3>1, FS_Difference
    <2>9. OpenSeats \in Nat \ {0} /\ Cardinality(Tied) \in Nat /\ OpenSeats < Cardinality(Tied)
      BY <1>1, <2>3, <2>4, <2>6, <2>8
    <2>10. ASSUME NEW o \in Tied
           PROVE  /\ \E lot \in SUBSET Tied : o \in lot /\ Cardinality(lot) = OpenSeats
                  /\ \E lot \in SUBSET Tied : o \notin lot /\ Cardinality(lot) = OpenSeats
      <3>1. IsFiniteSet(Tied \ {o}) /\ Cardinality(Tied \ {o}) = Cardinality(Tied) - 1
        BY <2>8, <2>10, FS_RemoveElement
      <3>2. OpenSeats \in 0..Cardinality(Tied \ {o}) /\ OpenSeats - 1 \in 0..Cardinality(Tied \ {o})
        BY <2>9, <3>1
      <3>3. PICK L \in SUBSET (Tied \ {o}) : Cardinality(L) = OpenSeats
        BY <3>1, <3>2, PartOfSize
      <3>4. PICK M \in SUBSET (Tied \ {o}) : Cardinality(M) = OpenSeats - 1
        BY <3>1, <3>2, PartOfSize
      <3>5. IsFiniteSet(M) /\ o \notin M
        BY <3>1, <3>4, FS_Subset
      <3>6. Cardinality(M \cup {o}) = OpenSeats
        <4>1. Cardinality(M \cup {o}) = Cardinality(M) + 1
          BY <3>5, FS_AddElement
        <4>2. QED
          BY <2>9, <3>4, <4>1
      <3>7. M \cup {o} \in SUBSET Tied /\ L \in SUBSET Tied /\ o \notin L
        BY <2>10, <3>3, <3>4
      <3>8. QED
        BY <3>3, <3>6, <3>7
    <2>11. QED
      BY <1>4, <2>10
  <1>5. QED
    BY <1>3, <1>4

LEMMA TheFairestWin == ASSUME RulesInv, CountInv PROVE FairestWin
  <1>1. Elected \subseteq Qualified /\ Tied \subseteq Qualified /\ Elected \cap Tied = {}
    <2>1. Placed /\ Seats \in Nat /\ \A v : Cardinality(WithAtLeast(v)) \in Nat
      BY SeatsArePlaced, LevelsAre
    <2>2. QED
      BY <2>1 DEF Placed
  <1>2. ASSUME NEW o \in Qualified, o \notin Elected
        PROVE  \E W \in FairSets : o \notin W
    <2>1. PICK lot \in SUBSET Tied : o \notin lot /\ Cardinality(lot) = OpenSeats
      BY LotsThereAre
    <2>2. Elected \cup lot \in FairSets
      BY <2>1, LotsAreFair
    <2>3. QED
      BY <1>2, <2>1, <2>2
  <1>3. Elected = {o \in Qualified : \A W \in FairSets : o \in W}
    BY <1>1, <1>2, FairSetsHold
  <1>4. ASSUME NEW o \in Tied
        PROVE  \E W \in FairSets : o \in W
    <2>1. PICK lot \in SUBSET Tied : o \in lot /\ Cardinality(lot) = OpenSeats
      BY <1>4, LotsThereAre
    <2>2. Elected \cup lot \in FairSets
      BY <2>1, LotsAreFair
    <2>3. QED
      BY <2>1, <2>2
  <1>5. \A W \in FairSets : W \subseteq Qualified
    BY FairSetIs
  <1>6. Tied = (UNION FairSets) \ Elected
    BY <1>1, <1>4, <1>5, FairSetsHold
  <1>7. \A lot \in SUBSET Tied : Cardinality(lot) = OpenSeats => Elected \cup lot \in FairSets
    BY LotsAreFair
  <1>8. QED
    BY <1>3, <1>6, <1>7 DEF FairestWin

LEMMA VotingMeans ==
  ASSUME RulesInv, CountInv
  PROVE  /\ VotingTypeOK /\ DecidedAsInvited /\ NeverWithoutRules
         /\ FairestWin /\ StricterAcceptsLess /\ NeverBothWays
  <1>1. VotingTypeOK
    BY DEF RulesInv, RulesTypes, CountInv, VotingTypeOK, Fixings
  <1>2. QED
    BY <1>1, RulesAreThere, TheFairestWin, MajoritiesKeepOrder DEF RulesInv

VotingInv == RulesInv /\ CountInv

LEMMA VotesFall ==
  ASSUME VotingInv, VotingInv', [VotingNext]_votingVars
  PROVE  /\ Papered({"yes"}) /\ Outcome = "angenommen" => Outcome' = "angenommen"
         /\ Papered({"no"}) /\ Outcome = "abgelehnt" => Outcome' = "abgelehnt"
         /\ \A S \in SUBSET Options :
              Papered(S) /\ IsChoice => Elected \cap S \subseteq Elected'
  <1>1. \A S \in SUBSET Options : Papered(S) /\ IsChoice => Elected \cap S \subseteq Elected'
    BY ElectionsNeverBackfire DEF VotingInv
  <1>2. QED
    BY <1>1, ResolutionsNeverBackfire DEF VotingInv

LEMMA AbstentionsFall ==
  ASSUME VotingInv, VotingInv', [VotingNext]_votingVars
  PROVE  Papered({"abstain"}) /\ fixed.rules.abstain = "not_counted" /\ fixed.majority # "absolut" =>
           IF IsChoice THEN Elected' = Elected /\ Tied' = Tied
           ELSE Outcome' = Outcome \/ Outcome = "nicht_beschlussfaehig"
  BY AbstentionsElectNobody, AbstentionsResolveNothing DEF VotingInv

(***************************************************************************)
(* The whole promise of the evaluation (lib/ballot-evaluation.ts,           *)
(* lib/assembly-rules.ts): a ballot is decided by what the members were     *)
(* invited to, the seats go to a fairest set of winners, the kinds of       *)
(* majority are ordered and never accept a motion and its opposite, no      *)
(* vote turns against who cast it, and abstentions that are not counted     *)
(* decide nothing; for any options, papers, statutes and edits.             *)
(***************************************************************************)
THEOREM VotingIsSound == VotingSpec => VotingPromise
  <1>1. VotingInit => VotingInv
    BY RulesStart, CountStart DEF VotingInv
  <1>2. VotingInv /\ [VotingNext]_votingVars => VotingInv'
    BY RulesSteps, CountSteps DEF VotingInv
  <1>3. VotingInv /\ VotingInv' /\ [VotingNext]_votingVars =>
          [/\ Papered({"yes"}) /\ Outcome = "angenommen" => Outcome' = "angenommen"
           /\ Papered({"no"}) /\ Outcome = "abgelehnt" => Outcome' = "abgelehnt"
           /\ \A S \in SUBSET Options :
                Papered(S) /\ IsChoice => Elected \cap S \subseteq Elected']_votingVars
    BY VotesFall
  <1>4. VotingInv /\ VotingInv' /\ [VotingNext]_votingVars =>
          [Papered({"abstain"}) /\ fixed.rules.abstain = "not_counted" /\ fixed.majority # "absolut" =>
             IF IsChoice THEN Elected' = Elected /\ Tied' = Tied
             ELSE Outcome' = Outcome \/ Outcome = "nicht_beschlussfaehig"]_votingVars
    BY AbstentionsFall
  <1>5. VotingInv => /\ VotingTypeOK /\ DecidedAsInvited /\ NeverWithoutRules
                     /\ FairestWin /\ StricterAcceptsLess /\ NeverBothWays
    BY VotingMeans DEF VotingInv
  <1>6. QED
    BY <1>1, <1>2, <1>3, <1>4, <1>5, PTL
       DEF VotingSpec, VotingPromise, VotesNeverBackfire, AbstentionsAreNeutral
=============================================================================
