---------------------------- MODULE MembersProofs -----------------------------
(***************************************************************************)
(* Proofs about the papers of members and of the club: the document        *)
(* archive, stored files with their sweeps and quota, the application form *)
(* and the admission of a person, for any numbers of documents, files,     *)
(* submissions, invitations and calls.                                     *)
(***************************************************************************)
EXTENDS Admission, Archive, Media, Submissions, FiniteSetTheorems, TLAPS

-----------------------------------------------------------------------------
(***************************************************************************)
(* The archive.  ArchiveInv: only what is stored has been asked for or     *)
(* answered, so an answer can leave only with its document.  What a step   *)
(* may remove is decided by the locked row, whatever the call has read     *)
(* before.                                                                 *)
(***************************************************************************)
Acks == [1..MaxPapers -> {"none", "offen"} \cup Answers]
Run == [phase: {"idle", "listed", "released", "marked", "chosen"}, mark: SUBSET Docs, delete: SUBSET Docs]

NoneAskedBefore == \A d \in Docs : archive[d] = NoDoc => acks[d] = NoAcks

ArchiveInv == ArchiveTypeOK /\ NoneAskedBefore

ErasedBy(d) == \E c \in DocCallers : papers[c].kind = "erase" /\ d \in papers[c].docs

ArchiveKept == HeldIsKept /\ DatedIsKept /\ AnswersStand

LEMMA DocumentsAreRows ==
  /\ NoDoc \notin Document
  /\ \A doc \in Document : doc.status # "none"
  BY DEF NoDoc, Document

LEMMA ArchiveTyped ==
  ASSUME ArchiveTypeOK, NEW d \in Docs
  PROVE  /\ acks[d] \in Acks /\ DOMAIN acks = Docs /\ retention \in Run
         /\ d \in Stored => archive[d] \in Document
  BY DEF ArchiveTypeOK, Acks, Run, Stored

\* What a call under way carries.
LEMMA PaperTyped ==
  ASSUME ArchiveTypeOK, NEW c \in DocCallers
  PROVE  /\ papers[c].kind \in {"trash", "restore", "release", "hold", "ask"} \cup Answers =>
              papers[c].doc \in Docs
         /\ papers[c].kind \in {"ask"} \cup Answers => papers[c].version \in 1..MaxPapers
         /\ papers[c].kind \in {"check", "lock", "erase"} => papers[c].docs \in SUBSET Docs
         /\ papers[c].kind = "hold" => papers[c].pending \in BOOLEAN
  <1>1. papers[c] \in Paper \cup {NoPaper}
    BY DEF ArchiveTypeOK
  <1>2. QED
    BY <1>1 DEF Paper, NoPaper, Answers

LEMMA PaperEnds ==
  ASSUME ArchiveTypeOK, NEW c \in DocCallers, EndsRequest(c)
  PROVE  papers' \in [DocCallers -> Paper \cup {NoPaper}]
  BY DEF ArchiveTypeOK, EndsRequest

\* A step under which every stored document stays stored.
LEMMA NothingRemoved ==
  ASSUME ArchiveInv, archive' \in [Docs -> Document \cup {NoDoc}],
         \A d \in Docs : archive[d] # NoDoc => archive'[d] # NoDoc, UNCHANGED acks,
         papers' \in [DocCallers -> Paper \cup {NoPaper}], retention' \in Run
  PROVE  ArchiveInv' /\ ArchiveKept
  <1>1. \A d \in Docs : ~IsRemoved(d)
    BY DEF IsRemoved, Stored
  <1>2. HeldIsKept /\ DatedIsKept /\ AnswersStand
    BY <1>1 DEF HeldIsKept, DatedIsKept, AnswersStand
  <1>3. ArchiveTypeOK'
    BY DEF ArchiveInv, ArchiveTypeOK, Run
  <1>4. NoneAskedBefore'
    BY DEF ArchiveInv, NoneAskedBefore, NoAcks
  <1>5. QED
    BY <1>2, <1>3, <1>4 DEF ArchiveInv, ArchiveKept

\* Documents that no hold and no date protects are removed, or those of an erasure.
LEMMA SomeRemoved ==
  ASSUME ArchiveInv, NEW docs \in SUBSET Docs, RemovesDocument(docs),
         \A d \in docs \cap Stored : Unprotected(d) \/ ErasedBy(d),
         papers' \in [DocCallers -> Paper \cup {NoPaper}], retention' \in Run
  PROVE  ArchiveInv' /\ ArchiveKept
  <1>1. /\ archive' = [d \in Docs |-> IF d \in docs THEN NoDoc ELSE archive[d]]
        /\ acks' = [d \in Docs |-> IF d \in docs THEN NoAcks ELSE acks[d]]
    BY DEF RemovesDocument
  <1>2. NoAcks \in Acks
    BY DEF NoAcks, Acks
  <1>3. ArchiveTypeOK'
    BY <1>1, <1>2 DEF ArchiveInv, ArchiveTypeOK, Acks, Run
  <1>4. NoneAskedBefore'
    BY <1>1 DEF ArchiveInv, NoneAskedBefore, NoAcks
  <1>5. \A d \in Docs : IsRemoved(d) => d \in docs \cap Stored
    BY <1>1 DEF IsRemoved, Stored
  <1>6. HeldIsKept /\ DatedIsKept
    BY <1>5 DEF HeldIsKept, DatedIsKept, Unprotected, ErasedBy
  <1>7. AnswersStand
    <2> SUFFICES ASSUME NEW d \in Docs, NEW v \in 1..MaxPapers, acks[d][v] \in Answers
                 PROVE  acks'[d][v] = acks[d][v] \/ IsRemoved(d)
      BY DEF AnswersStand
    <2>1. CASE d \notin docs
      BY <1>1, <2>1
    <2>2. CASE d \in docs
      <3>1. acks[d] # NoAcks
        BY DEF NoAcks, Answers
      <3>2. d \in Stored /\ archive'[d] = NoDoc
        BY <1>1, <2>2, <3>1 DEF ArchiveInv, NoneAskedBefore, Stored
      <3>3. QED
        BY <3>2 DEF IsRemoved
    <2>3. QED
      BY <2>1, <2>2
  <1>8. QED
    BY <1>3, <1>4, <1>6, <1>7 DEF ArchiveInv, ArchiveKept

\* One entry of a stored document is asked for or answered, and no answer changed.
LEMMA OneAsked ==
  ASSUME ArchiveInv, NEW d \in Stored, NEW v \in 1..MaxPapers, NEW a \in {"none", "offen"} \cup Answers,
         acks' = [acks EXCEPT ![d][v] = a], acks[d][v] \in Answers => a = acks[d][v],
         UNCHANGED <<archive, retention>>,
         papers' \in [DocCallers -> Paper \cup {NoPaper}]
  PROVE  ArchiveInv' /\ ArchiveKept
  <1>1. d \in Docs /\ acks[d] \in Acks /\ DOMAIN acks = Docs
    BY ArchiveTyped DEF ArchiveInv, Stored
  <1>2. acks' = [acks EXCEPT ![d] = [acks[d] EXCEPT ![v] = a]]
    BY <1>1
  <1> DEFINE new == [acks[d] EXCEPT ![v] = a]
  <1>3. /\ new \in Acks /\ new[v] = a
        /\ \A w \in 1..MaxPapers : w # v => new[w] = acks[d][w]
    BY <1>1 DEF Acks
  <1> HIDE DEF new
  <1>4. acks' \in [Docs -> Acks] /\ acks'[d] = new /\ \A e \in Docs \ {d} : acks'[e] = acks[e]
    BY <1>1, <1>2, <1>3 DEF ArchiveInv, ArchiveTypeOK, Acks, new
  <1>5. ArchiveTypeOK'
    BY <1>4 DEF ArchiveInv, ArchiveTypeOK, Acks
  <1>6. NoneAskedBefore'
    BY <1>4 DEF ArchiveInv, NoneAskedBefore, NoAcks, Stored
  <1>7. AnswersStand
    BY <1>3, <1>4 DEF AnswersStand
  <1>8. HeldIsKept /\ DatedIsKept
    BY DEF HeldIsKept, DatedIsKept, IsRemoved, Stored
  <1>9. QED
    BY <1>5, <1>6, <1>7, <1>8 DEF ArchiveInv, ArchiveKept

\* Opening a call changes nothing but the calls.
LEMMA OpensKeeps ==
  ASSUME ArchiveInv, NEW c \in DocCallers, NEW paper \in Paper, Opens(c, paper)
  PROVE  ArchiveInv' /\ ArchiveKept
  <1>1. papers' \in [DocCallers -> Paper \cup {NoPaper}] /\ UNCHANGED <<archive, acks, retention>>
    BY DEF Opens, ArchiveInv, ArchiveTypeOK
  <1>2. archive' \in [Docs -> Document \cup {NoDoc}] /\ retention' \in Run
    BY <1>1 DEF ArchiveInv, ArchiveTypeOK, Run
  <1>3. QED
    BY <1>1, <1>2, NothingRemoved

\* One row is written.
LEMMA DocumentWritten ==
  ASSUME ArchiveInv, NEW d \in Docs, NEW doc \in Document, Update(d, doc),
         UNCHANGED <<acks, papers, retention>>
  PROVE  ArchiveInv' /\ ArchiveKept
  <1>1. archive' = [archive EXCEPT ![d] = doc]
    BY DEF Update
  <1>2. /\ archive' \in [Docs -> Document \cup {NoDoc}]
        /\ \A e \in Docs : archive[e] # NoDoc => archive'[e] # NoDoc
    BY <1>1, DocumentsAreRows DEF ArchiveInv, ArchiveTypeOK
  <1>3. papers' \in [DocCallers -> Paper \cup {NoPaper}] /\ retention' \in Run
    BY DEF ArchiveInv, ArchiveTypeOK, Run
  <1>4. QED
    BY <1>2, <1>3, NothingRemoved

LEMMA TouchedIsARow ==
  ASSUME NEW doc \in Document
  PROVE  Touched(doc) \in Document /\ Touched(doc).version = doc.version
  <1> DEFINE old == doc.status = "im_papierkorb" /\ doc.old
  <1>1. old \in BOOLEAN
    OBVIOUS
  <1> HIDE DEF old
  <1>2. Touched(doc) = [doc EXCEPT !.old = old]
    BY DEF Touched, old
  <1>3. QED
    BY <1>1, <1>2 DEF Document

LEMMA RowsMove ==
  ASSUME ArchiveInv, NEW d \in Docs,
         \/ \E own \in BOOLEAN, kept \in {"no", "runs"} : UploadsDocument(d, own, kept)
         \/ AddsVersion(d) \/ DatesProof(d) \/ DaysPass(d) \/ Renames(d)
  PROVE  ArchiveInv' /\ ArchiveKept
  <1>0. d \in Stored => archive[d] \in Document
    BY ArchiveTyped DEF ArchiveInv
  <1>1. ASSUME NEW own \in BOOLEAN, NEW kept \in {"no", "runs"}, UploadsDocument(d, own, kept)
        PROVE  ArchiveInv' /\ ArchiveKept
    <2> DEFINE doc == [status |-> "aktiv", own |-> own, held |-> FALSE, kept |-> kept, old |-> FALSE,
                       version |-> 1]
    <2>1. doc \in Document
      BY ArchiveAssumption DEF Document
    <2>2. Update(d, doc) /\ UNCHANGED <<acks, papers, retention>>
      BY <1>1 DEF UploadsDocument
    <2> HIDE DEF doc
    <2>3. QED
      BY <2>1, <2>2, DocumentWritten
  <1>2. CASE AddsVersion(d)
    <2>1. d \in Stored /\ archive[d].version < MaxPapers
      BY <1>2 DEF AddsVersion, Of
    <2> DEFINE t == Touched(archive[d])
    <2>2. t \in Document /\ t.version < MaxPapers
      BY <1>0, <2>1, TouchedIsARow
    <2> HIDE DEF t
    <2>3. [t EXCEPT !.version = t.version + 1] \in Document
      BY <2>2, ArchiveAssumption DEF Document
    <2>4. Update(d, [t EXCEPT !.version = t.version + 1]) /\ UNCHANGED <<acks, papers, retention>>
      BY <1>2 DEF AddsVersion, t
    <2>5. QED
      BY <2>3, <2>4, DocumentWritten
  <1>3. CASE DatesProof(d)
    <2>1. [archive[d] EXCEPT !.kept = "runs"] \in Document
      BY <1>0, <1>3 DEF DatesProof, Document
    <2>2. QED
      BY <1>3, <2>1, DocumentWritten DEF DatesProof
  <1>4. CASE DaysPass(d)
    <2>1. [archive[d] EXCEPT !.old = TRUE] \in Document /\ [archive[d] EXCEPT !.kept = "over"] \in Document
      BY <1>0, <1>4 DEF DaysPass, Document
    <2>2. QED
      BY <1>4, <2>1, DocumentWritten DEF DaysPass
  <1>5. CASE Renames(d)
    BY <1>0, <1>5, TouchedIsARow, DocumentWritten DEF Renames
  <1>6. QED
    BY <1>1, <1>2, <1>3, <1>4, <1>5

\* What the calls open with.
LEMMA ReadsKeep ==
  ASSUME ArchiveInv, NEW c \in DocCallers,
         \/ ListsTrash(c) \/ ReadsForErasure(c)
         \/ \E d \in Docs : \/ ReadsForTrash(c, d) \/ ReadsForRestore(c, d) \/ ReadsForHold(c, d)
                            \/ ChecksOne(c, d) \/ ReadsForAsk(c, d)
                            \/ \E v \in 1..MaxPapers, answer \in Answers : ReadsForAnswer(c, d, v, answer)
  PROVE  ArchiveInv' /\ ArchiveKept
  <1>1. ASSUME NEW docs \in SUBSET Docs, NEW kind \in {"check", "erase"}, Opens(c, [kind |-> kind, docs |-> docs])
        PROVE  ArchiveInv' /\ ArchiveKept
    <2>1. [kind |-> kind, docs |-> docs] \in Paper
      BY DEF Paper
    <2>2. QED
      BY <1>1, <2>1, OpensKeeps
  <1>2. ASSUME NEW kind \in {"trash", "restore", "release"}, NEW d \in Docs, Opens(c, [kind |-> kind, doc |-> d])
        PROVE  ArchiveInv' /\ ArchiveKept
    <2>1. [kind |-> kind, doc |-> d] \in Paper
      BY DEF Paper
    <2>2. QED
      BY <1>2, <2>1, OpensKeeps
  <1>3. ASSUME NEW kind \in {"ask"} \cup Answers, NEW d \in Docs, NEW v \in 1..MaxPapers,
               Opens(c, [kind |-> kind, doc |-> d, version |-> v])
        PROVE  ArchiveInv' /\ ArchiveKept
    <2>1. [kind |-> kind, doc |-> d, version |-> v] \in Paper
      BY DEF Paper
    <2>2. QED
      BY <1>3, <2>1, OpensKeeps
  <1>4. CASE ListsTrash(c)
    <2> DEFINE list == {d \in Of("im_papierkorb") : Purgeable(d)}
               part == {d \in list : archive[d].old}
    <2>1. list \subseteq Docs /\ part \subseteq Docs
      BY DEF Of, Stored
    <2>2. Opens(c, [kind |-> "check", docs |-> list]) \/ Opens(c, [kind |-> "check", docs |-> part])
      BY <1>4 DEF ListsTrash
    <2> HIDE DEF list, part
    <2>3. QED
      BY <1>1, <2>1, <2>2
  <1>5. CASE ReadsForErasure(c)
    <2> DEFINE mine == {d \in Stored : archive[d].own /\ Unprotected(d)}
    <2>1. mine \subseteq Docs /\ Opens(c, [kind |-> "erase", docs |-> mine])
      BY <1>5 DEF ReadsForErasure, Stored
    <2> HIDE DEF mine
    <2>2. QED
      BY <1>1, <2>1
  <1>6. ASSUME NEW d \in Docs, ReadsForTrash(c, d) \/ ReadsForRestore(c, d)
        PROVE  ArchiveInv' /\ ArchiveKept
    BY <1>2, <1>6 DEF ReadsForTrash, ReadsForRestore
  <1>7. ASSUME NEW d \in Docs, ReadsForHold(c, d)
        PROVE  ArchiveInv' /\ ArchiveKept
    <2> DEFINE pending == archive[d].status = "zur_loeschung"
               paper == [kind |-> "hold", doc |-> d, pending |-> pending]
    <2>1. pending \in BOOLEAN
      OBVIOUS
    <2>2. Opens(c, paper) \/ Opens(c, [kind |-> "release", doc |-> d])
      BY <1>7 DEF ReadsForHold
    <2> HIDE DEF pending
    <2>3. paper \in Paper
      BY <2>1 DEF Paper
    <2> HIDE DEF paper
    <2>4. QED
      BY <1>2, <2>2, <2>3, OpensKeeps
  <1>8. ASSUME NEW d \in Docs, ChecksOne(c, d)
        PROVE  ArchiveInv' /\ ArchiveKept
    BY <1>1, <1>8 DEF ChecksOne
  <1>9. ASSUME NEW d \in Docs, ReadsForAsk(c, d)
        PROVE  ArchiveInv' /\ ArchiveKept
    <2>1. archive[d].version \in 1..MaxPapers
      BY <1>9, ArchiveTyped DEF ArchiveInv, ReadsForAsk, Of, Document
    <2>2. Opens(c, [kind |-> "ask", doc |-> d, version |-> archive[d].version])
      BY <1>9 DEF ReadsForAsk
    <2>3. QED
      BY <1>3, <2>1, <2>2
  <1>10. ASSUME NEW d \in Docs, NEW v \in 1..MaxPapers, NEW answer \in Answers, ReadsForAnswer(c, d, v, answer)
         PROVE  ArchiveInv' /\ ArchiveKept
    BY <1>3, <1>10 DEF ReadsForAnswer
  <1>11. QED
    BY <1>4, <1>5, <1>6, <1>7, <1>8, <1>9, <1>10

LEMMA WrittenIsARow ==
  ASSUME ArchiveInv, NEW c \in DocCallers, papers[c].kind \in {"trash", "restore", "hold", "release"},
         NEW doc \in Document
  PROVE  Written(papers[c], doc) \in Document
  <1>1. CASE papers[c].kind \in {"trash", "restore"}
    BY <1>1 DEF Written, Document
  <1>2. CASE papers[c].kind \in {"hold", "release"}
    <2> DEFINE t == Touched(doc)
               s == IF papers[c].pending THEN "aktiv" ELSE t.status
    <2>1. t \in Document
      BY TouchedIsARow
    <2>2. s \in {"aktiv", "im_papierkorb", "zur_loeschung"}
      BY <2>1 DEF Document
    <2>3. Written(papers[c], doc) = IF papers[c].kind = "release" THEN [t EXCEPT !.held = FALSE]
                                    ELSE [t EXCEPT !.held = TRUE, !.status = s]
      BY <1>2 DEF Written
    <2> HIDE DEF t, s
    <2>4. QED
      BY <2>1, <2>2, <2>3 DEF Document
  <1>3. QED
    BY <1>1, <1>2

LEMMA WritesKeeps ==
  ASSUME ArchiveInv, NEW c \in DocCallers, Writes(c)
  PROVE  ArchiveInv' /\ ArchiveKept
  <1> DEFINE d == papers[c].doc
             new == Written(papers[c], archive[d])
  <1>0. papers[c].kind \in {"trash", "restore", "hold", "release"} /\ d \in Docs
    BY PaperTyped DEF Writes, ArchiveInv
  <1>1. /\ archive' = IF d \in Stored THEN [archive EXCEPT ![d] = new] ELSE archive
        /\ EndsRequest(c) /\ UNCHANGED <<acks, retention>>
    BY DEF Writes
  <1>2. d \in Stored => new \in Document
    BY <1>0, ArchiveTyped, WrittenIsARow DEF ArchiveInv
  <1> HIDE DEF new, d
  <1>3. /\ archive' \in [Docs -> Document \cup {NoDoc}]
        /\ \A e \in Docs : archive[e] # NoDoc => archive'[e] # NoDoc
    BY <1>0, <1>1, <1>2, DocumentsAreRows DEF ArchiveInv, ArchiveTypeOK
  <1>4. papers' \in [DocCallers -> Paper \cup {NoPaper}] /\ retention' \in Run
    BY <1>1, PaperEnds DEF ArchiveInv, ArchiveTypeOK, Run
  <1>5. QED
    BY <1>1, <1>3, <1>4, NothingRemoved

\* The locking query, its purge, and the erasure of a person.
LEMMA PurgesKeep ==
  ASSUME ArchiveInv, NEW c \in DocCallers, SnapshotsPurge(c) \/ Purges(c) \/ Erases(c)
  PROVE  ArchiveInv' /\ ArchiveKept
  <1>1. CASE SnapshotsPurge(c)
    <2> DEFINE docs == {d \in papers[c].docs \cap Stored : Purgeable(d)}
    <2>1. docs \in SUBSET Docs
      BY DEF Stored
    <2>2. papers' = [papers EXCEPT ![c] = [kind |-> "lock", docs |-> docs]]
          /\ UNCHANGED <<archive, acks, retention>>
      BY <1>1 DEF SnapshotsPurge
    <2> HIDE DEF docs
    <2>3. [kind |-> "lock", docs |-> docs] \in Paper
      BY <2>1 DEF Paper
    <2>4. papers' \in [DocCallers -> Paper \cup {NoPaper}]
      BY <2>2, <2>3 DEF ArchiveInv, ArchiveTypeOK
    <2>5. archive' \in [Docs -> Document \cup {NoDoc}] /\ retention' \in Run
      BY <2>2 DEF ArchiveInv, ArchiveTypeOK, Run
    <2>6. QED
      BY <2>2, <2>4, <2>5, NothingRemoved
  <1>2. CASE Purges(c)
    <2> DEFINE docs == {d \in papers[c].docs \cap Stored : Unprotected(d)}
    <2>1. docs \in SUBSET Docs /\ \A d \in docs : Unprotected(d)
      BY DEF Stored
    <2>2. RemovesDocument(docs) /\ EndsRequest(c) /\ UNCHANGED retention
      BY <1>2 DEF Purges
    <2> HIDE DEF docs
    <2>3. papers' \in [DocCallers -> Paper \cup {NoPaper}] /\ retention' \in Run
      BY <2>2, PaperEnds DEF ArchiveInv, ArchiveTypeOK, Run
    <2>4. QED
      BY <2>1, <2>2, <2>3, SomeRemoved
  <1>3. CASE Erases(c)
    <2> DEFINE docs == papers[c].docs
    <2>1. docs \in SUBSET Docs /\ \A d \in docs : ErasedBy(d)
      BY <1>3, PaperTyped DEF Erases, ErasedBy, ArchiveInv
    <2>2. RemovesDocument(docs) /\ EndsRequest(c) /\ UNCHANGED retention
      BY <1>3 DEF Erases
    <2> HIDE DEF docs
    <2>3. papers' \in [DocCallers -> Paper \cup {NoPaper}] /\ retention' \in Run
      BY <2>2, PaperEnds DEF ArchiveInv, ArchiveTypeOK, Run
    <2>4. QED
      BY <2>1, <2>2, <2>3, SomeRemoved
  <1>4. QED
    BY <1>1, <1>2, <1>3

\* A call that ends without an effect.
LEMMA NothingAsked ==
  ASSUME ArchiveInv, NEW c \in DocCallers, EndsRequest(c), UNCHANGED <<archive, acks, retention>>
  PROVE  ArchiveInv' /\ ArchiveKept
  <1>1. papers' \in [DocCallers -> Paper \cup {NoPaper}] /\ retention' \in Run
    BY PaperEnds DEF ArchiveInv, ArchiveTypeOK, Run
  <1>2. archive' \in [Docs -> Document \cup {NoDoc}]
    BY DEF ArchiveInv, ArchiveTypeOK
  <1>3. QED
    BY <1>1, <1>2, NothingRemoved

LEMMA AsksKeep ==
  ASSUME ArchiveInv, NEW c \in DocCallers, Asks(c) \/ GivesAnswer(c)
  PROVE  ArchiveInv' /\ ArchiveKept
  <1> DEFINE d == papers[c].doc
             v == papers[c].version
  <1>0. d \in Docs /\ v \in 1..MaxPapers
    BY PaperTyped DEF Asks, GivesAnswer, ArchiveInv
  <1>1. acks[d] \in Acks /\ DOMAIN acks = Docs
    BY <1>0, ArchiveTyped DEF ArchiveInv
  <1>2. acks[d][v] \in {"none", "offen"} \cup Answers
    BY <1>0, <1>1 DEF Acks
  <1>3. CASE Asks(c)
    <2> DEFINE a == AsksAgain(acks[d][v])
    <2>1. a \in {"none", "offen"} \cup Answers /\ (acks[d][v] \in Answers => a = acks[d][v])
      BY DEF AsksAgain
    <2>2. /\ acks' = IF d \in Stored THEN [acks EXCEPT ![d][v] = a] ELSE acks
          /\ EndsRequest(c) /\ UNCHANGED <<archive, retention>>
      BY <1>0, <1>1, <1>3 DEF Asks, Acks
    <2> HIDE DEF a, d, v
    <2>3. CASE d \in Stored
      BY <1>0, <2>1, <2>2, <2>3, OneAsked, PaperEnds DEF ArchiveInv
    <2>4. CASE d \notin Stored
      BY <2>2, <2>4, NothingAsked
    <2>5. QED
      BY <2>3, <2>4
  <1>4. CASE GivesAnswer(c)
    <2> DEFINE a == papers[c].kind
    <2>1. a \in Answers
      BY <1>4 DEF GivesAnswer
    <2>2. /\ acks' = IF Undecided(d, v) THEN [acks EXCEPT ![d][v] = a] ELSE acks
          /\ EndsRequest(c) /\ UNCHANGED <<archive, retention>>
      BY <1>4 DEF GivesAnswer
    <2>3. CASE Undecided(d, v)
      <3>1. acks[d] # NoAcks
        BY <1>0, <2>3 DEF Undecided, NoAcks
      <3>2. d \in Stored
        BY <1>0, <3>1 DEF ArchiveInv, NoneAskedBefore, Stored
      <3>3. acks[d][v] \notin Answers
        BY <2>3 DEF Undecided, Answers
      <3>4. acks' = [acks EXCEPT ![d][v] = a]
        BY <2>2, <2>3
      <3> HIDE DEF a, d, v
      <3>5. QED
        BY <1>0, <2>1, <2>2, <3>2, <3>3, <3>4, OneAsked, PaperEnds DEF ArchiveInv
    <2>4. CASE ~Undecided(d, v)
      BY <2>2, <2>4, NothingAsked
    <2>5. QED
      BY <2>3, <2>4
  <1>5. QED
    BY <1>3, <1>4

\* The daily run: it marks, takes back and purges.
LEMMA RunKeeps ==
  ASSUME ArchiveInv, RetentionStep
  PROVE  ArchiveInv' /\ ArchiveKept
  <1>0. /\ papers \in [DocCallers -> Paper \cup {NoPaper}] /\ retention \in Run
        /\ archive \in [Docs -> Document \cup {NoDoc}]
    BY DEF ArchiveInv, ArchiveTypeOK, Run
  <1>1. CASE RetentionLists
    <2> DEFINE expired == {d \in Stored : DueForRetention(d)}
               mark == expired \ Of("zur_loeschung")
               delete == {d \in expired \cap Of("zur_loeschung") : archive[d].old}
    <2>1. mark \in SUBSET Docs /\ delete \in SUBSET Docs
      BY DEF Stored
    <2>2. /\ retention' = [phase |-> "listed", mark |-> mark, delete |-> delete]
          /\ UNCHANGED <<archive, acks, papers>>
      BY <1>1 DEF RetentionLists
    <2> HIDE DEF expired, mark, delete
    <2>3. retention' \in Run
      BY <2>1, <2>2 DEF Run
    <2>4. QED
      BY <1>0, <2>2, <2>3, NothingRemoved
  <1>2. ASSUME NEW docs, NEW status \in {"aktiv", "zur_loeschung"}, NEW phase \in {"released", "marked"},
               docs \subseteq Stored,
               archive' = [d \in Docs |-> IF d \in docs THEN [archive[d] EXCEPT !.status = status, !.old = FALSE]
                                          ELSE archive[d]],
               retention' = [retention EXCEPT !.phase = phase], UNCHANGED <<acks, papers>>
        PROVE  ArchiveInv' /\ ArchiveKept
    <2>1. \A d \in docs : d \in Docs /\ archive[d] \in Document
      BY <1>2, ArchiveTyped DEF ArchiveInv, Stored
    <2>2. \A d \in docs : [archive[d] EXCEPT !.status = status, !.old = FALSE] \in Document
      BY <2>1 DEF Document
    <2>3. /\ archive' \in [Docs -> Document \cup {NoDoc}]
          /\ \A d \in Docs : archive[d] # NoDoc => archive'[d] # NoDoc
      BY <1>0, <1>2, <2>2, DocumentsAreRows
    <2>4. retention' \in Run
      BY <1>0, <1>2 DEF Run
    <2>5. QED
      BY <1>0, <1>2, <2>3, <2>4, NothingRemoved
  <1>3. CASE RetentionReleases
    <2> DEFINE docs == {d \in Of("zur_loeschung") : archive[d].held}
    <2>1. docs \subseteq Stored
      BY DEF Of
    <2>2. archive' = [d \in Docs |-> IF d \in docs THEN [archive[d] EXCEPT !.status = "aktiv", !.old = FALSE]
                                     ELSE archive[d]]
      BY <1>3 DEF RetentionReleases
    <2>3. retention' = [retention EXCEPT !.phase = "released"] /\ UNCHANGED <<acks, papers>>
      BY <1>3 DEF RetentionReleases
    <2> HIDE DEF docs
    <2>4. QED
      BY <1>2, <2>1, <2>2, <2>3
  <1>4. CASE RetentionMarks
    <2> DEFINE docs == retention.mark \cap Stored
    <2>1. docs \subseteq Stored
      OBVIOUS
    <2>2. archive' = [d \in Docs |-> IF d \in docs THEN [archive[d] EXCEPT !.status = "zur_loeschung", !.old = FALSE]
                                     ELSE archive[d]]
      BY <1>4 DEF RetentionMarks
    <2>3. retention' = [retention EXCEPT !.phase = "marked"] /\ UNCHANGED <<acks, papers>>
      BY <1>4 DEF RetentionMarks
    <2> HIDE DEF docs
    <2>4. QED
      BY <1>2, <2>1, <2>2, <2>3
  <1>5. CASE RetentionChooses
    <2> DEFINE docs == {d \in retention.delete \cap Of("zur_loeschung") : ~archive[d].held}
    <2>1. docs \in SUBSET Docs
      BY DEF Of, Stored
    <2>2. retention' = [retention EXCEPT !.phase = "chosen", !.delete = docs] /\ UNCHANGED <<archive, acks, papers>>
      BY <1>5 DEF RetentionChooses
    <2> HIDE DEF docs
    <2>3. retention' \in Run
      BY <1>0, <2>1, <2>2 DEF Run
    <2>4. QED
      BY <1>0, <2>2, <2>3, NothingRemoved
  <1>6. CASE RetentionPurges
    <2> DEFINE docs == {d \in retention.delete \cap Stored : Unprotected(d)}
    <2>1. docs \in SUBSET Docs /\ \A d \in docs : Unprotected(d)
      BY DEF Stored
    <2>2. RemovesDocument(docs) /\ retention' = NoRun /\ UNCHANGED papers
      BY <1>6 DEF RetentionPurges
    <2> HIDE DEF docs
    <2>3. retention' \in Run
      BY <2>2 DEF NoRun, Run
    <2>4. QED
      BY <1>0, <2>1, <2>2, <2>3, SomeRemoved
  <1>7. QED
    BY <1>1, <1>3, <1>4, <1>5, <1>6 DEF RetentionStep

LEMMA ArchiveStarts == ArchiveInit => ArchiveInv
  <1> SUFFICES ASSUME ArchiveInit PROVE ArchiveInv
    OBVIOUS
  <1>1. NoAcks \in Acks /\ NoRun \in Run
    BY DEF NoAcks, Acks, NoRun, Run
  <1>2. QED
    BY <1>1 DEF ArchiveInit, ArchiveInv, ArchiveTypeOK, NoneAskedBefore, Acks, Run

LEMMA ArchiveStepKeeps ==
  ArchiveInv /\ [ArchiveNext]_archiveVars
     => ArchiveInv' /\ [HeldIsKept /\ DatedIsKept /\ AnswersStand]_archiveVars
  <1> SUFFICES ASSUME ArchiveInv, [ArchiveNext]_archiveVars
               PROVE  ArchiveInv' /\ [ArchiveKept]_archiveVars
    BY DEF ArchiveKept
  <1>1. CASE ArchiveNext
    <2>1. ASSUME NEW d \in Docs,
                 \/ \E own \in BOOLEAN, kept \in {"no", "runs"} : UploadsDocument(d, own, kept)
                 \/ AddsVersion(d) \/ DatesProof(d) \/ DaysPass(d) \/ Renames(d)
          PROVE  ArchiveInv' /\ ArchiveKept
      BY <2>1, RowsMove
    <2>2. ASSUME NEW c \in DocCallers, Paperwork(c) PROVE ArchiveInv' /\ ArchiveKept
      <3>1. CASE Writes(c)
        BY <3>1, WritesKeeps
      <3>2. CASE SnapshotsPurge(c) \/ Purges(c) \/ Erases(c)
        BY <3>2, PurgesKeep
      <3>3. CASE Asks(c) \/ GivesAnswer(c)
        BY <3>3, AsksKeep
      <3>4. CASE \/ ListsTrash(c) \/ ReadsForErasure(c)
                 \/ \E d \in Docs : \/ ReadsForTrash(c, d) \/ ReadsForRestore(c, d) \/ ReadsForHold(c, d)
                                    \/ ChecksOne(c, d) \/ ReadsForAsk(c, d)
                                    \/ \E v \in 1..MaxPapers, answer \in Answers : ReadsForAnswer(c, d, v, answer)
        BY <3>4, ReadsKeep
      <3>5. QED
        BY <2>2, <3>1, <3>2, <3>3, <3>4 DEF Paperwork
    <2>3. CASE RetentionStep
      BY <2>3, RunKeeps
    <2>4. QED
      BY <1>1, <2>1, <2>2, <2>3 DEF ArchiveNext
  <1>2. CASE UNCHANGED archiveVars
    <2>1. ArchiveInv'
      BY <1>2 DEF archiveVars, ArchiveInv, ArchiveTypeOK, NoneAskedBefore
    <2>2. QED
      BY <1>2, <2>1
  <1>3. QED
    BY <1>1, <1>2

\* Documents under hold, or whose date runs, are removed by the erasure of a
\* person only, and what somebody answered stands for as long as the document
\* (lib/documents.ts, routes/acknowledgements.ts, lib/document-retention.ts).
THEOREM ArchiveIsSound == ArchiveSpec => ArchivePromise
  <1>1. ArchiveInit => ArchiveInv
    BY ArchiveStarts
  <1>2. ArchiveInv /\ [ArchiveNext]_archiveVars
          => ArchiveInv' /\ [HeldIsKept /\ DatedIsKept /\ AnswersStand]_archiveVars
    BY ArchiveStepKeeps
  <1>3. ArchiveInv => ArchiveTypeOK
    BY DEF ArchiveInv
  <1>4. QED
    BY <1>1, <1>2, <1>3, PTL DEF ArchiveSpec, ArchivePromise

-----------------------------------------------------------------------------
(***************************************************************************)
(* The files.  A file that was registered once keeps its row, and a row    *)
(* that is marked stays marked: so whoever removes a file from the disk,   *)
(* at whatever time, needs to know only that it was marked (Buried) or     *)
(* never registered.  MediaInv says that of every removal under way, and   *)
(* of every upload that its file is nobody else's and that what it read    *)
(* under its locks is still so.                                            *)
(***************************************************************************)
UploadCall == [op: {"storing", "counted"}, for: Locked \cup {Unused}, file: MediaFiles, seen: FileOrNone]
RemovalCall == [op: {"removing", "deleting"}, file: MediaFiles]
PlaceCall == [op: {"place"}, seen: FileOrNone, file: FileOrNone, deletes: BOOLEAN]
FileRow == [owner: Features \cup {Unused, "damage_report", "none"}, live: BOOLEAN]
MediaLocks == Locked \cup {"quota"}

OneHolder(S) == S = {} \/ \E c \in MediaCalls : S = {c}

MediaTyped ==
  /\ disk \in SUBSET MediaFiles /\ aged \in SUBSET MediaFiles
  /\ clearing \in SUBSET MediaFiles /\ orphans \in SUBSET MediaFiles
  /\ registry \in [MediaFiles -> FileRow]
  /\ naming \in [Features -> FileOrNone] /\ place \in BOOLEAN
  /\ holds \in [MediaLocks -> SUBSET MediaCalls] /\ \A l \in MediaLocks : OneHolder(holds[l])
  /\ mediaCalls \in [MediaCalls -> UploadCall \cup RemovalCall \cup PlaceCall \cup {NoMediaCall}]

Uploading(c) == mediaCalls[c].op \in {"storing", "counted"}
Buried(f) == registry[f].owner # "none" /\ ~registry[f].live

\* What a feature row names has been registered for it.
NamesFounded ==
  /\ \A x \in Locked : naming[x] # NoFile => registry[naming[x]] = [owner |-> x, live |-> TRUE]
  /\ naming["location"] # NoFile => registry[naming["location"]].owner = "location"

\* An upload holds what it read, and its file is unknown to the registry and too
\* young for the sweeps.
UploadFounded(c) ==
  LET call == mediaCalls[c]
  IN Uploading(c) =>
       /\ call.file \in disk /\ call.file \notin aged /\ registry[call.file] = Unregistered
       /\ call.for \in Locked => holds[call.for] = {c} /\ call.seen = naming[call.for]
       /\ call.for = Unused => call.seen = NoFile

CountFounded(c) ==
  mediaCalls[c].op = "counted" => holds["quota"] = {c} /\ Cardinality(LiveFiles) < Quota

RemovalFounded(c) ==
  LET call == mediaCalls[c]
  IN /\ call.op = "removing" => Buried(call.file)
     /\ call.op = "deleting" => registry[call.file].owner = "logo" /\ call.file # naming["logo"]
     /\ call.op = "place" /\ call.seen # NoFile => registry[call.seen].owner = "location"

UploadsApart ==
  \A c, d \in MediaCalls :
    Uploading(c) /\ Uploading(d) /\ c # d => mediaCalls[c].file # mediaCalls[d].file

SweepsFounded ==
  /\ \A f \in clearing : Buried(f)
  /\ \A f \in orphans \cap aged : ~registry[f].live

RowsFounded ==
  /\ LiveHaveFiles /\ OnePhotoLeft
  /\ \A f \in MediaFiles : registry[f].owner = "damage_report" => registry[f].live
  /\ \A f \in MediaFiles : registry[f].owner = "none" => ~registry[f].live

QuotaFounded == IsFiniteSet(LiveFiles) /\ QuotaKept

CallsFounded == \A c \in MediaCalls : UploadFounded(c) /\ CountFounded(c) /\ RemovalFounded(c)

MediaInv ==
  /\ MediaTyped /\ NamesFounded /\ CallsFounded /\ UploadsApart /\ SweepsFounded
  /\ RowsFounded /\ QuotaFounded


LEMMA MediaNames ==
  /\ Locked = {"photo", "logo"} /\ Locked \subseteq Features /\ Locked \subseteq MediaLocks
  /\ "location" \in Features /\ "location" \notin Locked /\ Unused \notin Features
  /\ Unused \notin Locked /\ "quota" \in MediaLocks /\ "quota" \notin Locked
  /\ NoFile \notin MediaFiles /\ Unregistered \in FileRow /\ LiveFiles \subseteq MediaFiles
  BY MediaAssumption DEF Locked, Features, MediaLocks, Unused, Unregistered, FileRow, LiveFiles

\* What a call under way carries.
LEMMA MediaCallTyped ==
  ASSUME MediaTyped, NEW c \in MediaCalls
  PROVE  /\ mediaCalls[c].op \in {"none", "storing", "counted", "removing", "deleting", "place"}
         /\ mediaCalls[c].op = "none" <=> mediaCalls[c] = NoMediaCall
         /\ Uploading(c) => /\ mediaCalls[c] \in UploadCall
                            /\ mediaCalls[c].file \in MediaFiles
                            /\ mediaCalls[c].for \in Locked \cup {Unused}
                            /\ mediaCalls[c].seen \in FileOrNone
         /\ mediaCalls[c].op \in {"removing", "deleting"} => mediaCalls[c].file \in MediaFiles
         /\ mediaCalls[c].op = "place" => /\ mediaCalls[c].file \in FileOrNone
                                          /\ mediaCalls[c].seen \in FileOrNone
                                          /\ mediaCalls[c].deletes \in BOOLEAN
  <1>1. mediaCalls[c] \in UploadCall \cup RemovalCall \cup PlaceCall \cup {NoMediaCall}
    BY DEF MediaTyped
  <1>2. CASE mediaCalls[c] \in UploadCall
    BY <1>2 DEF UploadCall, NoMediaCall, Uploading
  <1>3. CASE mediaCalls[c] \in RemovalCall
    BY <1>3 DEF RemovalCall, NoMediaCall, Uploading
  <1>4. CASE mediaCalls[c] \in PlaceCall
    BY <1>4 DEF PlaceCall, NoMediaCall, Uploading
  <1>5. CASE mediaCalls[c] = NoMediaCall
    BY <1>5 DEF NoMediaCall, Uploading
  <1>6. QED
    BY <1>1, <1>2, <1>3, <1>4, <1>5

\* Marking touches only whether a row is live.
LEMMA MarkedRows ==
  ASSUME NEW rows \in [MediaFiles -> FileRow], NEW S
  PROVE  /\ Marked(rows, S) \in [MediaFiles -> FileRow]
         /\ \A f \in MediaFiles :
              /\ Marked(rows, S)[f].owner = rows[f].owner
              /\ Marked(rows, S)[f].live <=> (rows[f].live /\ f \notin S)
              /\ f \notin S => Marked(rows, S)[f] = rows[f]
  BY DEF Marked, FileRow

\* What a call holds, another one that ends or asks for more leaves to it.
LeavesLocks(c) ==
  \A d \in MediaCalls \ {c}, l \in MediaLocks : holds[l] = {d} => holds'[l] = {d}

\* A call that does not move stays founded, as long as the files it is about rest.
LEMMA OtherCallFounded ==
  ASSUME MediaInv, NEW d \in MediaCalls, mediaCalls'[d] = mediaCalls[d],
         \A l \in MediaLocks : holds[l] = {d} => holds'[l] = {d},
         \A f \in MediaFiles :
           /\ Buried(f) => Buried(f)'
           /\ registry[f].owner \in {"location", "logo"} => registry'[f].owner = registry[f].owner,
         Uploading(d) => LET f == mediaCalls[d].file
                         IN registry'[f] = registry[f] /\ f \in disk' /\ f \notin aged',
         \A x \in Locked : holds[x] = {d} => naming'[x] = naming[x],
         naming'["logo"] = naming["logo"] \/ registry[naming'["logo"]] = Unregistered
           \/ naming'["logo"] = NoFile,
         mediaCalls[d].op = "counted" =>
           Cardinality(LiveFiles') < Quota
  PROVE  (UploadFounded(d) /\ CountFounded(d) /\ RemovalFounded(d))'
  <1>1. MediaTyped /\ UploadFounded(d) /\ CountFounded(d) /\ RemovalFounded(d)
    BY DEF MediaInv, CallsFounded
  <1>2. UploadFounded(d)'
    BY <1>1, MediaCallTyped, MediaNames DEF UploadFounded, Uploading
  <1>3. CountFounded(d)'
    BY <1>1, MediaNames DEF CountFounded
  <1>4. RemovalFounded(d)'
    <2>1. mediaCalls[d].op = "removing" => Buried(mediaCalls[d].file)'
      BY <1>1, MediaCallTyped DEF RemovalFounded
    <2>2. ASSUME mediaCalls[d].op = "deleting"
          PROVE  registry'[mediaCalls[d].file].owner = "logo" /\ mediaCalls[d].file # naming'["logo"]
      BY <1>1, <2>2, MediaCallTyped, MediaNames DEF RemovalFounded, Unregistered
    <2>3. ASSUME mediaCalls[d].op = "place", mediaCalls[d].seen # NoFile
          PROVE  registry'[mediaCalls[d].seen].owner = "location"
      BY <1>1, <2>3, MediaCallTyped DEF RemovalFounded, FileOrNone
    <2>4. QED
      BY <2>1, <2>2, <2>3 DEF RemovalFounded, Buried
  <1>5. QED
    BY <1>2, <1>3, <1>4

\* Steps of the calls that leave the registry and the feature rows alone.
LEMMA RegistryRests ==
  ASSUME MediaInv, UNCHANGED <<registry, naming, place, aged, clearing, orphans>>,
         NEW c \in MediaCalls, NEW call \in UploadCall \cup RemovalCall \cup PlaceCall \cup {NoMediaCall},
         Turns(c, call), holds' \in [MediaLocks -> SUBSET MediaCalls],
         \A l \in MediaLocks : OneHolder(holds'[l]), LeavesLocks(c), disk' \in SUBSET MediaFiles,
         \A f \in disk \ disk' : ~registry[f].live /\ \A d \in MediaCalls \ {c} :
                                    Uploading(d) => f # mediaCalls[d].file,
         (UploadFounded(c) /\ CountFounded(c) /\ RemovalFounded(c))',
         \A d \in MediaCalls \ {c} :
           Uploading(c)' /\ Uploading(d) => mediaCalls'[c].file # mediaCalls[d].file
  PROVE  MediaInv'
  <1>1. MediaTyped'
    BY DEF MediaInv, MediaTyped, Turns
  <1>2. \A d \in MediaCalls \ {c} : mediaCalls'[d] = mediaCalls[d]
    BY DEF Turns, MediaInv, MediaTyped
  <1>3. LiveFiles' = LiveFiles
    BY DEF LiveFiles
  <1>4. ASSUME NEW d \in MediaCalls \ {c}
        PROVE  (UploadFounded(d) /\ CountFounded(d) /\ RemovalFounded(d))'
    <2>1. Uploading(d) => LET f == mediaCalls[d].file
                          IN registry'[f] = registry[f] /\ f \in disk' /\ f \notin aged'
      BY DEF MediaInv, CallsFounded, UploadFounded
    <2>2. mediaCalls[d].op = "counted" => Cardinality(LiveFiles') < Quota
      BY <1>3 DEF MediaInv, CallsFounded, CountFounded
    <2>3. \A l \in MediaLocks : holds[l] = {d} => holds'[l] = {d}
      BY DEF LeavesLocks
    <2>4. \A f \in MediaFiles : Buried(f) => Buried(f)'
      BY DEF Buried
    <2>5. QED
      BY <1>2, <2>1, <2>2, <2>3, <2>4, OtherCallFounded
  <1>5. CallsFounded'
    BY <1>4 DEF CallsFounded
  <1>6. UploadsApart'
    <2>1. \A d \in MediaCalls \ {c} : Uploading(d)' <=> Uploading(d)
      BY <1>2 DEF Uploading
    <2>2. QED
      BY <1>2, <2>1 DEF UploadsApart, MediaInv
  <1>7. NamesFounded' /\ SweepsFounded' /\ QuotaFounded'
    BY <1>3 DEF MediaInv, NamesFounded, SweepsFounded, QuotaFounded, QuotaKept, Buried
  <1>8. RowsFounded'
    BY <1>3 DEF MediaInv, RowsFounded, LiveHaveFiles, OnePhotoLeft, LiveFiles
  <1>9. QED
    BY <1>1, <1>5, <1>6, <1>7, <1>8 DEF MediaInv


LEMMA IdleFounded ==
  ASSUME MediaTyped, NEW c \in MediaCalls, Finishes(c)
  PROVE  /\ Turns(c, NoMediaCall) /\ ~Uploading(c)' /\ mediaCalls'[c] = NoMediaCall
         /\ (UploadFounded(c) /\ CountFounded(c) /\ RemovalFounded(c))'
  <1>1. mediaCalls'[c] = NoMediaCall
    BY DEF Finishes, MediaTyped
  <1>2. QED
    BY <1>1 DEF Finishes, Turns, NoMediaCall, Uploading, UploadFounded, CountFounded, RemovalFounded

LEMMA ReleasedLocks ==
  ASSUME MediaTyped, NEW c \in MediaCalls, holds' = MediaReleased(c)
  PROVE  /\ holds' \in [MediaLocks -> SUBSET MediaCalls] /\ LeavesLocks(c)
         /\ \A l \in MediaLocks : OneHolder(holds'[l])
  <1>1. holds' = [l \in MediaLocks |-> holds[l] \ {c}]
    BY DEF MediaReleased, MediaTyped
  <1>2. holds' \in [MediaLocks -> SUBSET MediaCalls]
    BY <1>1 DEF MediaTyped
  <1>3. LeavesLocks(c)
    BY <1>1 DEF LeavesLocks
  <1>4. \A l \in MediaLocks : OneHolder(holds'[l])
    BY <1>1 DEF MediaTyped, OneHolder
  <1>5. QED
    BY <1>2, <1>3, <1>4

LEMMA SameLocks ==
  ASSUME MediaTyped, NEW c \in MediaCalls, UNCHANGED holds
  PROVE  /\ holds' \in [MediaLocks -> SUBSET MediaCalls] /\ LeavesLocks(c)
         /\ \A l \in MediaLocks : OneHolder(holds'[l])
  BY DEF MediaTyped, LeavesLocks, OneHolder

\* A call takes a lock that is free.
LEMMA TakenLock ==
  ASSUME MediaTyped, NEW c \in MediaCalls, NEW l \in MediaLocks, holds[l] = {},
         holds' = [holds EXCEPT ![l] = {c}]
  PROVE  /\ holds' \in [MediaLocks -> SUBSET MediaCalls] /\ LeavesLocks(c) /\ holds'[l] = {c}
         /\ \A k \in MediaLocks : OneHolder(holds'[k])
  <1>1. \A k \in MediaLocks : holds'[k] = IF k = l THEN {c} ELSE holds[k]
    BY DEF MediaTyped
  <1>2. QED
    BY <1>1 DEF MediaTyped, LeavesLocks, OneHolder

LEMMA StoresUploadKeeps ==
  ASSUME MediaInv, NEW c \in MediaCalls, NEW for \in Locked \cup {Unused}, StoresUpload(c, for)
  PROVE  MediaInv'
  <1>1. MediaTyped
    BY DEF MediaInv
  <1>2. PICK f \in MediaFiles : /\ f \notin disk /\ registry[f] = Unregistered /\ f \notin aged \cup UploadsWritten
                                /\ disk' = disk \cup {f}
                                /\ Turns(c, [op |-> "storing", for |-> for, file |-> f,
                                             seen |-> IF for \in Locked THEN naming[for] ELSE NoFile])
    BY MediaAssumption DEF StoresUpload
  <1> DEFINE call == [op |-> "storing", for |-> for, file |-> f,
                      seen |-> IF for \in Locked THEN naming[for] ELSE NoFile]
  <1>3. call \in UploadCall
    BY <1>1, MediaNames DEF UploadCall, MediaTyped, FileOrNone
  <1>4. mediaCalls'[c] = call
    BY <1>1, <1>2 DEF Turns, MediaTyped
  <1>5. /\ holds' \in [MediaLocks -> SUBSET MediaCalls] /\ LeavesLocks(c)
        /\ \A l \in MediaLocks : OneHolder(holds'[l]) /\ (for \in Locked => holds'[for] = {c})
    <2>1. CASE for \in Locked
      BY <1>1, <2>1, TakenLock, MediaNames DEF StoresUpload
    <2>2. CASE for \notin Locked
      BY <1>1, <2>2, SameLocks DEF StoresUpload
    <2>3. QED
      BY <2>1, <2>2
  <1>6. for \in Locked => holds'[for] = {c}
    BY <1>5, MediaNames
  <1>7. UploadFounded(c)'
    BY <1>2, <1>4, <1>6, MediaNames DEF UploadFounded, Uploading, StoresUpload
  <1>8. CountFounded(c)' /\ RemovalFounded(c)'
    BY <1>4 DEF CountFounded, RemovalFounded
  <1>9. \A d \in MediaCalls \ {c} : Uploading(d) => f # mediaCalls[d].file
    BY <1>2 DEF UploadsWritten, Uploading
  <1>10. disk' \in SUBSET MediaFiles /\ disk \ disk' = {}
    BY <1>1, <1>2 DEF MediaTyped
  <1>11. UNCHANGED <<registry, naming, place, aged, clearing, orphans>>
    BY DEF StoresUpload
  <1> HIDE DEF call
  <1>12. \A d \in MediaCalls \ {c} : Uploading(c)' /\ Uploading(d) => mediaCalls'[c].file # mediaCalls[d].file
    BY <1>4, <1>9 DEF call
  <1>13. Turns(c, call)
    BY <1>2 DEF call
  <1>14. QED
    BY <1>3, <1>5, <1>7, <1>8, <1>10, <1>11, <1>12, <1>13, RegistryRests

\* An upload is given up, and its file removed or left behind.
LEMMA UploadEnds ==
  ASSUME MediaInv, NEW c \in MediaCalls, Uploading(c), Finishes(c), holds' = MediaReleased(c),
         disk' = disk \ {mediaCalls[c].file},
         UNCHANGED <<registry, naming, place, aged, clearing, orphans>>
  PROVE  MediaInv'
  <1>1. MediaTyped
    BY DEF MediaInv
  <1>2. \A f \in disk \ disk' : ~registry[f].live /\ \A d \in MediaCalls \ {c} :
                                    Uploading(d) => f # mediaCalls[d].file
    BY DEF MediaInv, CallsFounded, UploadFounded, UploadsApart, Unregistered
  <1>3. disk' \in SUBSET MediaFiles
    BY <1>1 DEF MediaTyped
  <1>4. QED
    BY <1>1, <1>2, <1>3, IdleFounded, ReleasedLocks, RegistryRests

LEMMA CountsKeeps ==
  ASSUME MediaInv, NEW c \in MediaCalls, Counts(c)
  PROVE  MediaInv'
  <1>1. MediaTyped /\ UploadFounded(c) /\ Uploading(c)
    BY DEF MediaInv, CallsFounded, Counts, Uploading
  <1>2. UNCHANGED <<registry, naming, place, aged, clearing, orphans>>
    BY DEF Counts
  <1>3. CASE ~(/\ Cardinality(LiveFiles) < Quota
               /\ mediaCalls[c].for = Unused => Cardinality(UnusedFiles) < UnusedCap)
    BY <1>1, <1>2, <1>3, UploadEnds DEF Counts
  <1>4. CASE /\ Cardinality(LiveFiles) < Quota
             /\ mediaCalls[c].for = Unused => Cardinality(UnusedFiles) < UnusedCap
    <2> DEFINE call == [mediaCalls[c] EXCEPT !.op = "counted"]
    <2>1. Turns(c, call) /\ holds' = [holds EXCEPT !["quota"] = {c}] /\ UNCHANGED disk /\ holds["quota"] = {}
      BY <1>4 DEF Counts, QuotaIsFree
    <2>2. call \in UploadCall /\ call.op = "counted" /\ call.file = mediaCalls[c].file
            /\ call.for = mediaCalls[c].for /\ call.seen = mediaCalls[c].seen
      BY <1>1, MediaCallTyped DEF UploadCall
    <2> HIDE DEF call
    <2>3. mediaCalls'[c] = call
      BY <1>1, <2>1 DEF Turns, MediaTyped
    <2>4. /\ holds' \in [MediaLocks -> SUBSET MediaCalls] /\ LeavesLocks(c) /\ holds'["quota"] = {c}
          /\ \A l \in MediaLocks : OneHolder(holds'[l])
      BY <1>1, <2>1, TakenLock, MediaNames
    <2>5. \A l \in Locked : holds'[l] = holds[l]
      BY <1>1, <2>1, MediaNames DEF MediaTyped
    <2>6. UploadFounded(c)'
      BY <1>1, <1>2, <2>1, <2>2, <2>3, <2>5 DEF UploadFounded, Uploading
    <2>7. CountFounded(c)' /\ RemovalFounded(c)'
      BY <1>2, <1>4, <2>2, <2>3, <2>4 DEF CountFounded, RemovalFounded, LiveFiles
    <2>8. \A d \in MediaCalls \ {c} : Uploading(c)' /\ Uploading(d) => mediaCalls'[c].file # mediaCalls[d].file
      BY <1>1, <2>2, <2>3 DEF MediaInv, UploadsApart
    <2>9. disk' \in SUBSET MediaFiles /\ disk \ disk' = {}
      BY <1>1, <2>1 DEF MediaTyped
    <2>10. QED
      BY <1>2, <2>1, <2>2, <2>4, <2>6, <2>7, <2>8, <2>9, RegistryRests
  <1>5. QED
    BY <1>3, <1>4

LEMMA CallEndsKeeps ==
  ASSUME MediaInv, NEW c \in MediaCalls, DiscardsUpload(c) \/ PurgesFile(c) \/ ProcessEnds(c)
  PROVE  MediaInv'
  <1>1. MediaTyped
    BY DEF MediaInv
  <1>2. CASE DiscardsUpload(c)
    BY <1>2, UploadEnds DEF DiscardsUpload, Uploading
  <1>3. CASE PurgesFile(c)
    <2>1. Buried(mediaCalls[c].file)
      BY <1>3 DEF MediaInv, CallsFounded, RemovalFounded, PurgesFile
    <2>2. \A f \in disk \ disk' : ~registry[f].live /\ \A d \in MediaCalls \ {c} :
                                    Uploading(d) => f # mediaCalls[d].file
      BY <1>3, <2>1 DEF PurgesFile, MediaInv, CallsFounded, UploadFounded, Unregistered, Buried
    <2>3. disk' \in SUBSET MediaFiles
      BY <1>1, <1>3 DEF MediaTyped, PurgesFile
    <2>4. UNCHANGED <<registry, naming, place, aged, holds, clearing, orphans>> /\ Finishes(c)
      BY <1>3 DEF PurgesFile
    <2>5. QED
      BY <1>1, <2>2, <2>3, <2>4, IdleFounded, SameLocks, RegistryRests
  <1>4. CASE ProcessEnds(c)
    <2>1. disk' \in SUBSET MediaFiles /\ disk \ disk' = {}
      BY <1>1, <1>4 DEF MediaTyped, ProcessEnds
    <2>2. UNCHANGED <<registry, naming, place, aged, clearing, orphans>> /\ Finishes(c) /\ holds' = MediaReleased(c)
      BY <1>4 DEF ProcessEnds
    <2>3. QED
      BY <1>1, <2>1, <2>2, IdleFounded, ReleasedLocks, RegistryRests
  <1>5. QED
    BY <1>2, <1>3, <1>4

LEMMA ReadsPlaceKeeps ==
  ASSUME MediaInv, NEW c \in MediaCalls, NEW f \in FileOrNone, NEW deletes \in BOOLEAN,
         ReadsPlace(c, f, deletes)
  PROVE  MediaInv'
  <1> DEFINE call == [op |-> "place", seen |-> naming["location"], file |-> f, deletes |-> deletes]
  <1>1. MediaTyped
    BY DEF MediaInv
  <1>2. call \in PlaceCall
    BY <1>1, MediaNames DEF PlaceCall, MediaTyped
  <1>3. Turns(c, call) /\ UNCHANGED <<disk, registry, naming, place, aged, holds, clearing, orphans>>
    BY DEF ReadsPlace
  <1>4. mediaCalls'[c] = call
    BY <1>1, <1>3 DEF Turns, MediaTyped
  <1>5. ~Uploading(c)' /\ UploadFounded(c)' /\ CountFounded(c)'
    BY <1>4 DEF Uploading, UploadFounded, CountFounded
  <1>6. RemovalFounded(c)'
    BY <1>3, <1>4 DEF RemovalFounded, MediaInv, NamesFounded
  <1> HIDE DEF call
  <1>7. disk' \in SUBSET MediaFiles /\ disk \ disk' = {}
    BY <1>1, <1>3 DEF MediaTyped
  <1>8. QED
    BY <1>1, <1>2, <1>3, <1>5, <1>6, <1>7, SameLocks, RegistryRests


\* What rows may do besides being registered: be claimed, and be marked.
RowsAge ==
  \A f \in MediaFiles :
    /\ registry'[f].live => registry[f].live
    /\ registry[f].owner = "none" \/ ~registry[f].live => registry'[f] = registry[f]
    /\ registry[f].owner # Unused => registry'[f].owner = registry[f].owner
    /\ registry'[f].owner # registry[f].owner => registry'[f].owner \in {"damage_report", "location"}
    /\ registry[f].owner = "damage_report" => registry'[f].live
    /\ registry'[f].owner = "damage_report" => registry'[f].live

LEMMA RowsAgeKeeps ==
  ASSUME MediaInv, MediaTyped', NEW M \in SUBSET MediaCalls, UNCHANGED <<disk, aged, orphans>>, RowsAge,
         \A f \in clearing' : Buried(f)', NamesFounded', OnePhotoLeft',
         naming'["logo"] \in {naming["logo"], NoFile},
         \A d \in MediaCalls \ M :
           /\ mediaCalls'[d] = mediaCalls[d] /\ \A l \in MediaLocks : holds[l] = {d} => holds'[l] = {d}
           /\ \A x \in Locked : holds[x] = {d} => naming'[x] = naming[x],
         \A c \in M : ~Uploading(c)' /\ RemovalFounded(c)'
  PROVE  MediaInv'
  <1>1. /\ LiveFiles' \subseteq LiveFiles /\ IsFiniteSet(LiveFiles') 
        /\ Cardinality(LiveFiles') <= Cardinality(LiveFiles) /\ Cardinality(LiveFiles) \in Nat
        /\ Cardinality(LiveFiles') \in Nat
    <2>1. LiveFiles' \subseteq LiveFiles
      BY DEF RowsAge, LiveFiles
    <2>2. IsFiniteSet(LiveFiles)
      BY DEF MediaInv, QuotaFounded
    <2>3. QED
      BY <2>1, <2>2, FS_Subset, FS_CardinalityType
  <1>2. ASSUME NEW d \in MediaCalls \ M
        PROVE  (UploadFounded(d) /\ CountFounded(d) /\ RemovalFounded(d))'
    <2>1. Uploading(d) => LET f == mediaCalls[d].file
                          IN registry'[f] = registry[f] /\ f \in disk' /\ f \notin aged'
      <3>1. Uploading(d) => mediaCalls[d].file \in MediaFiles
        BY MediaCallTyped DEF MediaInv
      <3>2. QED
        BY <3>1 DEF MediaInv, CallsFounded, UploadFounded, RowsAge, Unregistered
    <2>2. mediaCalls[d].op = "counted" => Cardinality(LiveFiles') < Quota
      BY <1>1, MediaAssumption DEF MediaInv, CallsFounded, CountFounded
    <2>3. \A f \in MediaFiles :
            /\ Buried(f) => Buried(f)'
            /\ registry[f].owner \in {"location", "logo"} => registry'[f].owner = registry[f].owner
      BY DEF RowsAge, Buried, Unused
    <2>4. QED
      BY <2>1, <2>2, <2>3, OtherCallFounded
  <1>3. ASSUME NEW c \in M
        PROVE  (UploadFounded(c) /\ CountFounded(c) /\ RemovalFounded(c))'
    BY DEF UploadFounded, CountFounded, Uploading
  <1>4. CallsFounded'
    BY <1>2, <1>3 DEF CallsFounded
  <1>5. UploadsApart'
    <2>1. \A d \in MediaCalls \ M : Uploading(d)' <=> Uploading(d)
      BY DEF Uploading
    <2>2. QED
      BY <2>1 DEF UploadsApart, MediaInv
  <1>6. SweepsFounded'
    BY DEF MediaInv, MediaTyped, SweepsFounded, RowsAge
  <1>7. QuotaFounded'
    BY <1>1, MediaAssumption DEF MediaInv, QuotaFounded, QuotaKept
  <1>8. RowsFounded'
    BY <1>1 DEF MediaInv, RowsFounded, LiveHaveFiles, RowsAge
  <1>9. QED
    BY <1>4, <1>5, <1>6, <1>7, <1>8 DEF MediaInv

\* Marking rows of an owner that may be marked is aging.
LEMMA MarkingAges ==
  ASSUME MediaInv, NEW S \in SUBSET MediaFiles, registry' = Marked(registry, S),
         \A f \in S : registry[f].owner # "damage_report"
  PROVE  RowsAge /\ registry' \in [MediaFiles -> FileRow] /\ \A f \in S : registry[f].owner # "none" => Buried(f)'
  <1>1. registry \in [MediaFiles -> FileRow]
    BY DEF MediaInv, MediaTyped
  <1>2. /\ registry' \in [MediaFiles -> FileRow]
        /\ \A f \in MediaFiles : /\ registry'[f].owner = registry[f].owner
                                 /\ registry'[f].live <=> (registry[f].live /\ f \notin S)
                                 /\ f \notin S => registry'[f] = registry[f]
    BY <1>1, MarkedRows
  <1>3. \A f \in MediaFiles : ~registry[f].live => registry'[f] = registry[f]
    BY <1>1, <1>2 DEF FileRow, Marked
  <1>4. \A f \in MediaFiles : registry[f].owner = "none" => ~registry[f].live
    BY DEF MediaInv, RowsFounded
  <1>5. \A f \in MediaFiles : registry[f].owner = "damage_report" => registry[f].live
    BY DEF MediaInv, RowsFounded
  <1>6. RowsAge
    BY <1>2, <1>3, <1>4, <1>5 DEF RowsAge
  <1>7. QED
    BY <1>2, <1>6 DEF Buried

LEMMA RemovesKeeps ==
  ASSUME MediaInv, NEW c \in MediaCalls, NEW for \in Locked, Removes(c, for)
  PROVE  MediaInv'
  <1>1. MediaTyped /\ NamesFounded /\ naming[for] \in MediaFiles /\ registry[naming[for]].owner = for
    BY MediaNames DEF Removes, MediaInv, MediaTyped, FileOrNone, NamesFounded
  <1>0. PICK f \in MediaFiles : f = naming[for]
    BY <1>1
  <1> DEFINE call == [op |-> IF for = "photo" THEN "removing" ELSE "deleting", file |-> f]
  <1>2. /\ naming' = [naming EXCEPT ![for] = NoFile] /\ Turns(c, call)
        /\ UNCHANGED <<disk, place, aged, holds, clearing, orphans>>
        /\ registry' = IF for = "photo" THEN Marked(registry, {f}) ELSE registry
    BY <1>0 DEF Removes
  <1>3. call \in RemovalCall
    BY <1>1 DEF RemovalCall
  <1>4. mediaCalls'[c] = call /\ \A d \in MediaCalls \ {c} : mediaCalls'[d] = mediaCalls[d]
    BY <1>1, <1>2 DEF Turns, MediaTyped
  <1>5. RowsAge /\ registry' \in [MediaFiles -> FileRow] /\ (for = "photo" => Buried(f)')
    <2>1. CASE for = "photo"
      <3>1. {f} \in SUBSET MediaFiles /\ \A g \in {f} : registry[g].owner = "photo"
        BY <1>0, <1>1, <2>1
      <3>2. registry' = Marked(registry, {f})
        BY <1>2, <2>1
      <3>3. RowsAge /\ registry' \in [MediaFiles -> FileRow] /\ \A g \in {f} : registry[g].owner # "none" => Buried(g)'
        BY <3>1, <3>2, MarkingAges
      <3>4. QED
        BY <3>1, <3>3
    <2>2. CASE for # "photo"
      BY <1>1, <1>2, <2>2 DEF RowsAge, MediaInv, RowsFounded, MediaTyped
    <2>3. QED
      BY <2>1, <2>2
  <1>6. naming' \in [Features -> FileOrNone] /\ naming'[for] = NoFile
          /\ \A x \in Features \ {for} : naming'[x] = naming[x]
    BY <1>1, <1>2, MediaNames DEF MediaTyped, FileOrNone
  <1>7. MediaTyped'
    <2>1. mediaCalls' \in [MediaCalls -> UploadCall \cup RemovalCall \cup PlaceCall \cup {NoMediaCall}]
      BY <1>1, <1>2, <1>3 DEF MediaTyped, Turns
    <2>2. QED
      BY <1>1, <1>2, <1>5, <1>6, <2>1 DEF MediaTyped
  <1>8. \A g \in MediaFiles \ {f} : registry'[g] = registry[g]
    BY <1>0, <1>1, <1>2, MarkedRows DEF MediaTyped
  <1>9. NamesFounded'
    <2>1. \A x \in Locked : naming'[x] # NoFile => registry'[naming'[x]] = [owner |-> x, live |-> TRUE]
      <3> SUFFICES ASSUME NEW x \in Locked, naming'[x] # NoFile
                   PROVE  registry'[naming'[x]] = [owner |-> x, live |-> TRUE]
        OBVIOUS
      <3>1. x # for /\ naming'[x] = naming[x] /\ registry[naming[x]] = [owner |-> x, live |-> TRUE]
        BY <1>0, <1>1, <1>6, MediaNames DEF NamesFounded
      <3>2. naming[x] \in MediaFiles \ {f}
        BY <1>0, <1>1, <1>6, <3>1, MediaNames DEF MediaTyped, FileOrNone
      <3>3. QED
        BY <1>8, <3>1, <3>2
    <2>2. naming'["location"] # NoFile => registry'[naming'["location"]].owner = "location"
      BY <1>1, <1>5, <1>6, MediaNames DEF NamesFounded, MediaTyped, RowsAge, FileOrNone, Unused
    <2>3. QED
      BY <2>1, <2>2 DEF NamesFounded
  <1>10. OnePhotoLeft'
    <2>1. \A g \in MediaFiles : registry'[g].live /\ registry'[g].owner = "photo" => g = naming["photo"]
      BY <1>5 DEF RowsAge, MediaInv, RowsFounded, OnePhotoLeft, LiveFiles
    <2>2. CASE for = "photo"
      BY <1>0, <1>5, <2>1, <2>2 DEF OnePhotoLeft, LiveFiles, Buried
    <2>3. CASE for # "photo"
      BY <1>6, <2>1, <2>3, MediaNames DEF OnePhotoLeft, LiveFiles
    <2>4. QED
      BY <2>2, <2>3
  <1>11. ~Uploading(c)' /\ RemovalFounded(c)'
    <2>1. for # "photo" => registry'[f].owner = "logo" /\ f # naming'["logo"]
      BY <1>0, <1>1, <1>2, <1>6, MediaNames
    <2>2. QED
      BY <1>4, <1>5, <2>1 DEF RemovalFounded, Uploading, Buried
  <1>12. \A g \in clearing' : Buried(g)'
    <2>1. \A g \in clearing : g \in MediaFiles /\ Buried(g)
      BY <1>1 DEF MediaInv, SweepsFounded, MediaTyped
    <2>2. QED
      BY <1>2, <1>5, <2>1 DEF Buried, RowsAge
  <1>13. ASSUME NEW d \in MediaCalls \ {c}
         PROVE  /\ mediaCalls'[d] = mediaCalls[d] /\ \A l \in MediaLocks : holds[l] = {d} => holds'[l] = {d}
                /\ \A x \in Locked : holds[x] = {d} => naming'[x] = naming[x]
    <2>1. holds[for] = {}
      BY DEF Removes
    <2>2. QED
      BY <1>2, <1>4, <1>6, <2>1, MediaNames
  <1>14. naming'["logo"] \in {naming["logo"], NoFile}
    BY <1>6, MediaNames
  <1>15. UNCHANGED <<disk, aged, orphans>>
    BY <1>2
  <1> HIDE DEF call
  <1>16. QED
    BY <1>5, <1>7, <1>9, <1>10, <1>11, <1>12, <1>13, <1>14, <1>15, RowsAgeKeeps, {c} \in SUBSET MediaCalls


\* What was to be cleared stays marked while rows age.
LEMMA ClearingStays ==
  ASSUME MediaInv, RowsAge, clearing' = clearing
  PROVE  \A f \in clearing' : Buried(f)'
  <1>1. \A f \in clearing : f \in MediaFiles /\ Buried(f)
    BY DEF MediaInv, SweepsFounded, MediaTyped
  <1>2. QED
    BY <1>1 DEF Buried, RowsAge

\* Feature rows that rest keep what they name, unless it is marked.
LEMMA NamesRest ==
  ASSUME MediaInv, RowsAge, UNCHANGED naming,
         \A x \in Locked : naming[x] # NoFile => registry'[naming[x]] = registry[naming[x]]
  PROVE  NamesFounded' /\ OnePhotoLeft'
  <1>1. NamesFounded /\ MediaTyped
    BY DEF MediaInv
  <1>2. \A x \in Locked : naming'[x] # NoFile => registry'[naming'[x]] = [owner |-> x, live |-> TRUE]
    BY <1>1 DEF NamesFounded
  <1>3. naming'["location"] # NoFile => registry'[naming'["location"]].owner = "location"
    BY <1>1, MediaNames DEF NamesFounded, MediaTyped, FileOrNone, RowsAge, Unused
  <1>4. OnePhotoLeft'
    BY DEF MediaInv, RowsFounded, OnePhotoLeft, LiveFiles, RowsAge
  <1>5. QED
    BY <1>2, <1>3, <1>4 DEF NamesFounded

LEMMA TombstonesKeeps ==
  ASSUME MediaInv, NEW c \in MediaCalls, Tombstones(c)
  PROVE  MediaInv'
  <1>1. MediaTyped /\ NamesFounded
    BY DEF MediaInv
  <1>2. PICK f \in MediaFiles : f = mediaCalls[c].file
    BY <1>1, MediaCallTyped DEF Tombstones
  <1>3. registry[f].owner = "logo" /\ f # naming["logo"] /\ mediaCalls[c] \in RemovalCall
    BY <1>1, <1>2 DEF MediaInv, CallsFounded, RemovalFounded, Tombstones, MediaTyped, UploadCall, PlaceCall,
                      NoMediaCall
  <1>4. /\ registry' = Marked(registry, {f}) /\ UNCHANGED <<disk, naming, place, aged, holds, clearing, orphans>>
        /\ IF f \in LiveFiles THEN Turns(c, [mediaCalls[c] EXCEPT !.op = "removing"]) ELSE Finishes(c)
    BY <1>2 DEF Tombstones
  <1>5. RowsAge /\ registry' \in [MediaFiles -> FileRow] /\ Buried(f)'
    <2>1. {f} \in SUBSET MediaFiles /\ \A g \in {f} : registry[g].owner = "logo"
      BY <1>3
    <2>2. RowsAge /\ registry' \in [MediaFiles -> FileRow] /\ \A g \in {f} : registry[g].owner # "none" => Buried(g)'
      BY <1>4, <2>1, MarkingAges
    <2>3. QED
      BY <2>1, <2>2
  <1>6. /\ mediaCalls' \in [MediaCalls -> UploadCall \cup RemovalCall \cup PlaceCall \cup {NoMediaCall}]
        /\ \A d \in MediaCalls \ {c} : mediaCalls'[d] = mediaCalls[d]
        /\ mediaCalls'[c].op \in {"removing", "none"} /\ (mediaCalls'[c].op = "removing" => mediaCalls'[c].file = f)
    <2> DEFINE call == [mediaCalls[c] EXCEPT !.op = "removing"]
    <2>1. call \in RemovalCall /\ call.op = "removing" /\ call.file = f
      BY <1>2, <1>3 DEF RemovalCall
    <2>2. (mediaCalls' = [mediaCalls EXCEPT ![c] = call]) \/ (mediaCalls' = [mediaCalls EXCEPT ![c] = NoMediaCall])
      BY <1>4 DEF Turns, Finishes
    <2>3. NoMediaCall.op = "none"
      BY DEF NoMediaCall
    <2> HIDE DEF call
    <2>4. QED
      BY <1>1, <2>1, <2>2, <2>3 DEF MediaTyped
  <1>7. MediaTyped'
    BY <1>1, <1>4, <1>5, <1>6 DEF MediaTyped
  <1>8. \A x \in Locked : naming[x] # NoFile => naming[x] # f
    BY <1>1, <1>3, MediaNames DEF NamesFounded
  <1>9. \A x \in Locked : naming[x] # NoFile => registry'[naming[x]] = registry[naming[x]]
    BY <1>1, <1>4, <1>8, MarkedRows, MediaNames DEF MediaTyped, FileOrNone
  <1>10. NamesFounded' /\ OnePhotoLeft'
    BY <1>4, <1>5, <1>9, NamesRest
  <1>11. ~Uploading(c)' /\ RemovalFounded(c)'
    BY <1>5, <1>6 DEF Uploading, RemovalFounded, Buried
  <1>12. QED
    BY <1>4, <1>5, <1>6, <1>7, <1>10, <1>11, ClearingStays, RowsAgeKeeps, {c} \in SUBSET MediaCalls

\* A claim finds a file that nobody names.
LEMMA ClaimAges ==
  ASSUME MediaInv, NEW f \in MediaFiles, Claimable(f), NEW x \in {"damage_report", "location"},
         NEW rows, rows = Claimed(f, x)
  PROVE  /\ rows \in [MediaFiles -> FileRow] /\ rows[f] = [owner |-> x, live |-> TRUE]
         /\ \A g \in MediaFiles \ {f} : rows[g] = registry[g]
         /\ \A y \in Features : naming[y] # f
  <1>1. registry \in [MediaFiles -> FileRow] /\ registry[f] = [owner |-> Unused, live |-> TRUE]
    BY DEF MediaInv, MediaTyped, Claimable
  <1>2. rows = [registry EXCEPT ![f] = [owner |-> x, live |-> TRUE]]
    <2>1. rows = [registry EXCEPT ![f] = [registry[f] EXCEPT !.owner = x]]
      BY DEF Claimed
    <2>2. \A row \in FileRow : [row EXCEPT !.owner = x] = [owner |-> x, live |-> row.live]
      BY DEF FileRow
    <2>4. registry[f] \in FileRow
      BY <1>1
    <2>5. registry[f].live = TRUE
      BY <1>1
    <2>3. QED
      BY <2>1, <2>2, <2>4, <2>5
  <1>3. [owner |-> x, live |-> TRUE] \in FileRow
    BY MediaNames DEF FileRow, Features
  <1>4. \A y \in Features : naming[y] # f
    BY <1>1, MediaNames DEF MediaInv, NamesFounded, Unused, Features
  <1>5. QED
    BY <1>1, <1>2, <1>3, <1>4

LEMMA ReportsKeeps ==
  ASSUME MediaInv, NEW f \in MediaFiles, Reports(f)
  PROVE  MediaInv'
  <1>1. MediaTyped
    BY DEF MediaInv
  <1>2. /\ registry' = Claimed(f, "damage_report") /\ Claimable(f)
        /\ UNCHANGED <<disk, naming, place, aged, holds, mediaCalls, clearing, orphans>>
    BY DEF Reports
  <1>3. /\ registry' \in [MediaFiles -> FileRow] /\ registry'[f] = [owner |-> "damage_report", live |-> TRUE]
        /\ \A g \in MediaFiles \ {f} : registry'[g] = registry[g]
        /\ \A y \in Features : naming[y] # f
    BY <1>2, ClaimAges
  <1>4. RowsAge
    BY <1>2, <1>3 DEF RowsAge, Claimable, Unused, MediaInv, RowsFounded
  <1>5. \A x \in Locked : naming[x] # NoFile => registry'[naming[x]] = registry[naming[x]]
    BY <1>1, <1>3, MediaNames DEF MediaTyped, FileOrNone
  <1>6. NamesFounded' /\ OnePhotoLeft'
    BY <1>2, <1>4, <1>5, NamesRest
  <1>7. MediaTyped'
    BY <1>1, <1>2, <1>3 DEF MediaTyped
  <1>8. QED
    BY <1>2, <1>4, <1>6, <1>7, ClearingStays, RowsAgeKeeps, {} \in SUBSET MediaCalls

LEMMA SweepMarksKeeps ==
  ASSUME MediaInv, SweepMarks
  PROVE  MediaInv'
  <1>1. MediaTyped
    BY DEF MediaInv
  <1>2. PICK S : S = UnusedFiles \cap aged
    OBVIOUS
  <1>3. /\ clearing' = S /\ registry' = Marked(registry, S)
        /\ UNCHANGED <<disk, naming, place, aged, holds, mediaCalls, orphans>>
    BY <1>2 DEF SweepMarks
  <1>4. S \in SUBSET MediaFiles /\ \A f \in S : registry[f].owner = Unused
    BY <1>1, <1>2 DEF UnusedFiles, LiveFiles
  <1>5. RowsAge /\ registry' \in [MediaFiles -> FileRow] /\ \A f \in S : Buried(f)'
    BY <1>3, <1>4, MarkingAges DEF Unused
  <1>6. \A x \in Locked : naming[x] # NoFile => naming[x] \notin S
    BY <1>1, <1>4, MediaNames DEF MediaInv, NamesFounded
  <1>7. \A x \in Locked : naming[x] # NoFile => registry'[naming[x]] = registry[naming[x]]
    BY <1>1, <1>3, <1>6, MarkedRows, MediaNames DEF MediaTyped, FileOrNone
  <1>8. NamesFounded' /\ OnePhotoLeft'
    BY <1>3, <1>5, <1>7, NamesRest
  <1>9. MediaTyped'
    BY <1>1, <1>3, <1>4, <1>5 DEF MediaTyped
  <1>10. QED
    BY <1>3, <1>5, <1>8, <1>9, RowsAgeKeeps, {} \in SUBSET MediaCalls

\* Sweeps and time, which touch neither rows nor calls.
LEMMA SweepsKeep ==
  ASSUME MediaInv,
         SweepRemoves \/ OrphansFound \/ OrphanRemoved \/ SweepEnds \/ \E f \in MediaFiles : TimePassesFor(f)
  PROVE  MediaInv'
  <1>1. MediaTyped /\ SweepsFounded
    BY DEF MediaInv
  <1>2. UNCHANGED <<registry, naming, place, holds, mediaCalls>>
    BY DEF SweepRemoves, OrphansFound, OrphanRemoved, SweepEnds, TimePassesFor
  <1>3. /\ disk' \subseteq disk /\ \A f \in disk \ disk' : Buried(f) \/ (f \in aged /\ ~registry[f].live)
    <2>1. CASE SweepRemoves
      BY <1>1, <2>1 DEF SweepRemoves, SweepsFounded
    <2>2. CASE OrphanRemoved
      BY <1>1, <2>2 DEF OrphanRemoved, SweepsFounded, OldEnough
    <2>3. CASE UNCHANGED disk
      BY <2>3
    <2>4. QED
      BY <2>1, <2>2, <2>3 DEF OrphansFound, SweepEnds, TimePassesFor
  <1>4. /\ aged' \in SUBSET MediaFiles /\ \A f \in aged' \ aged : f \notin UploadsWritten \cup orphans
        /\ aged' # aged => UNCHANGED <<clearing, orphans>>
    BY <1>1 DEF SweepRemoves, OrphansFound, OrphanRemoved, SweepEnds, TimePassesFor, MediaTyped
  <1>5. /\ clearing' \subseteq clearing
        /\ orphans' \in SUBSET MediaFiles /\ (orphans' \subseteq orphans \/ \A f \in orphans' : ~registry[f].live)
    BY <1>1 DEF SweepRemoves, OrphansFound, OrphanRemoved, SweepEnds, TimePassesFor, MediaTyped, LiveFiles
  <1>6. MediaTyped'
    BY <1>1, <1>2, <1>3, <1>4, <1>5 DEF MediaTyped
  <1>7. \A f \in aged' \ aged : \A c \in MediaCalls : Uploading(c) => mediaCalls[c].file # f
    BY <1>4 DEF UploadsWritten, Uploading
  <1>8. CallsFounded'
    <2>1. ASSUME NEW c \in MediaCalls
          PROVE  (UploadFounded(c) /\ CountFounded(c) /\ RemovalFounded(c))'
      <3>1. UploadFounded(c) /\ CountFounded(c) /\ RemovalFounded(c)
        BY DEF MediaInv, CallsFounded
      <3>2. UploadFounded(c)'
        BY <1>2, <1>3, <1>7, <3>1 DEF UploadFounded, Uploading, Buried, Unregistered
      <3>3. CountFounded(c)' /\ RemovalFounded(c)'
        BY <1>2, <3>1 DEF CountFounded, RemovalFounded, LiveFiles, Buried
      <3>4. QED
        BY <3>2, <3>3
    <2>2. QED
      BY <2>1 DEF CallsFounded
  <1>9. UploadsApart' /\ NamesFounded'
    BY <1>2 DEF MediaInv, UploadsApart, NamesFounded, Uploading
  <1>10. SweepsFounded'
    BY <1>1, <1>2, <1>4, <1>5 DEF SweepsFounded, Buried
  <1>11. RowsFounded'
    BY <1>2, <1>3 DEF MediaInv, RowsFounded, LiveHaveFiles, OnePhotoLeft, LiveFiles, Buried
  <1>12. QuotaFounded'
    BY <1>2 DEF MediaInv, QuotaFounded, QuotaKept, LiveFiles
  <1>13. QED
    BY <1>6, <1>8, <1>9, <1>10, <1>11, <1>12 DEF MediaInv


LEMMA WritesPlaceKeeps ==
  ASSUME MediaInv, NEW c \in MediaCalls, WritesPlace(c)
  PROVE  MediaInv'
  <1>1. MediaTyped /\ NamesFounded
    BY DEF MediaInv
  <1>2. /\ mediaCalls[c].op = "place" /\ mediaCalls[c].file \in FileOrNone
        /\ mediaCalls[c].seen \in FileOrNone /\ mediaCalls[c].deletes \in BOOLEAN
        /\ mediaCalls[c].seen # NoFile => registry[mediaCalls[c].seen].owner = "location"
    BY <1>1, MediaCallTyped DEF WritesPlace, MediaInv, CallsFounded, RemovalFounded
  <1>3. PICK wanted \in FileOrNone, seen \in FileOrNone, deletes \in BOOLEAN :
               wanted = mediaCalls[c].file /\ seen = mediaCalls[c].seen /\ deletes = mediaCalls[c].deletes
    BY <1>2
  <1>4. PICK claims, marks : /\ claims = (wanted \notin {NoFile, seen})
                             /\ marks = ({seen} \ {wanted}) \cap LiveFiles
    OBVIOUS
  <1>5. UNCHANGED <<disk, aged, holds, clearing, orphans>>
    BY DEF WritesPlace
  <1>6. CASE claims /\ ~Claimable(wanted)
    <2>1. UNCHANGED <<registry, naming, place>> /\ Finishes(c)
      BY <1>3, <1>4, <1>6 DEF WritesPlace
    <2>2. disk' \in SUBSET MediaFiles /\ disk \ disk' = {}
      BY <1>1, <1>5 DEF MediaTyped
    <2>3. QED
      BY <1>1, <1>5, <2>1, <2>2, IdleFounded, SameLocks, RegistryRests
  <1>7. CASE ~(claims /\ ~Claimable(wanted))
    <2>1. PICK rows : rows = IF claims THEN Claimed(wanted, "location") ELSE registry
      OBVIOUS
    <2>2. /\ registry' = Marked(rows, marks)
          /\ naming' = [naming EXCEPT !["location"] = IF ~place \/ deletes THEN NoFile ELSE wanted]
          /\ place' = (place /\ ~deletes)
          /\ IF marks = {} THEN Finishes(c) ELSE Turns(c, [op |-> "removing", file |-> seen])
      BY <1>3, <1>4, <1>7, <2>1 DEF WritesPlace
    <2>3. /\ rows \in [MediaFiles -> FileRow]
          /\ \A g \in MediaFiles : g # wanted \/ ~claims => rows[g] = registry[g]
          /\ claims => /\ wanted \in MediaFiles /\ Claimable(wanted)
                       /\ rows[wanted] = [owner |-> "location", live |-> TRUE]
                       /\ \A y \in Features : naming[y] # wanted
      <3>1. CASE claims
        <4>1. wanted \in MediaFiles /\ Claimable(wanted) /\ rows = Claimed(wanted, "location")
          BY <1>3, <1>4, <1>7, <2>1, <3>1 DEF FileOrNone
        <4>2. QED
          BY <3>1, <4>1, ClaimAges
      <3>2. CASE ~claims
        BY <1>1, <2>1, <3>2 DEF MediaTyped
      <3>3. QED
        BY <3>1, <3>2
    <2>4. /\ registry' \in [MediaFiles -> FileRow]
          /\ \A g \in MediaFiles : /\ registry'[g].owner = rows[g].owner
                                   /\ registry'[g].live <=> (rows[g].live /\ g \notin marks)
                                   /\ g \notin marks => registry'[g] = rows[g]
      BY <2>2, <2>3, MarkedRows
    <2>5. /\ marks \subseteq MediaFiles /\ wanted \notin marks
          /\ \A g \in marks : g = seen /\ registry[g].owner = "location" /\ registry[g].live
      BY <1>2, <1>3, <1>4, MediaNames DEF LiveFiles
    <2>6. RowsAge
      <3> SUFFICES ASSUME NEW g \in MediaFiles
                   PROVE  /\ registry'[g].live => registry[g].live
                          /\ registry[g].owner = "none" \/ ~registry[g].live => registry'[g] = registry[g]
                          /\ registry[g].owner # Unused => registry'[g].owner = registry[g].owner
                          /\ registry'[g].owner # registry[g].owner => registry'[g].owner \in {"damage_report", "location"}
                          /\ registry[g].owner = "damage_report" => registry'[g].live
                          /\ registry'[g].owner = "damage_report" => registry'[g].live
        BY DEF RowsAge
      <3>1. registry[g].owner = "damage_report" => registry[g].live
        BY DEF MediaInv, RowsFounded
      <3>2. CASE claims /\ g = wanted
        BY <2>3, <2>4, <2>5, <3>2 DEF Claimable, Unused
      <3>3. CASE ~(claims /\ g = wanted)
        <4>1. rows[g] = registry[g]
          BY <2>3, <3>3
        <4>2. registry[g].owner = "none" => ~registry[g].live
          BY DEF MediaInv, RowsFounded
        <4>3. QED
          BY <2>4, <2>5, <3>1, <4>1, <4>2
      <3>4. QED
        BY <3>2, <3>3
    <2>7. \A g \in marks : Buried(g)'
      BY <2>4, <2>5, <2>6 DEF Buried, RowsAge, Unused
    <2>8. /\ mediaCalls' \in [MediaCalls -> UploadCall \cup RemovalCall \cup PlaceCall \cup {NoMediaCall}]
          /\ \A d \in MediaCalls \ {c} : mediaCalls'[d] = mediaCalls[d]
          /\ \/ mediaCalls'[c] = NoMediaCall
             \/ marks # {} /\ mediaCalls'[c] = [op |-> "removing", file |-> seen]
      <3>1. marks # {} => [op |-> "removing", file |-> seen] \in RemovalCall
        BY <2>5 DEF RemovalCall
      <3>2. QED
        BY <1>1, <2>2, <3>1 DEF MediaTyped, Turns, Finishes
    <2>9. ~Uploading(c)' /\ RemovalFounded(c)'
      BY <2>5, <2>7, <2>8 DEF Uploading, RemovalFounded, NoMediaCall
    <2>10. /\ naming' \in [Features -> FileOrNone] /\ \A x \in Locked : naming'[x] = naming[x]
           /\ naming'["location"] \in {NoFile, wanted}
      BY <1>1, <1>3, <2>2, MediaNames DEF MediaTyped, FileOrNone
    <2>11. MediaTyped'
      BY <1>1, <1>5, <2>2, <2>4, <2>8, <2>10 DEF MediaTyped
    <2>12. NamesFounded'
      <3>1. \A x \in Locked : naming'[x] # NoFile => registry'[naming'[x]] = [owner |-> x, live |-> TRUE]
        <4> SUFFICES ASSUME NEW x \in Locked, naming[x] # NoFile
                     PROVE  registry'[naming[x]] = [owner |-> x, live |-> TRUE]
          BY <2>10
        <4>1. naming[x] \in MediaFiles /\ registry[naming[x]] = [owner |-> x, live |-> TRUE]
          BY <1>1, MediaNames DEF MediaTyped, FileOrNone, NamesFounded
        <4>2. naming[x] \notin marks /\ (claims => naming[x] # wanted)
          BY <2>3, <2>5, <4>1, MediaNames
        <4>3. QED
          BY <2>3, <2>4, <4>1, <4>2
      <3>2. ASSUME naming'["location"] # NoFile
            PROVE  registry'[naming'["location"]].owner = "location"
        <4>1. naming'["location"] = wanted /\ wanted \in MediaFiles
          BY <1>3, <2>10, <3>2 DEF FileOrNone
        <4>2. CASE claims
          BY <2>3, <2>4, <4>1, <4>2
        <4>3. CASE ~claims
          BY <1>2, <1>3, <1>4, <2>3, <2>4, <3>2, <4>1, <4>3
        <4>4. QED
          BY <4>2, <4>3
      <3>3. QED
        BY <3>1, <3>2 DEF NamesFounded
    <2>13. OnePhotoLeft'
      <3>1. \A g \in MediaFiles : registry'[g].live /\ registry'[g].owner = "photo"
                                   => registry[g].live /\ registry[g].owner = "photo"
        BY <2>6 DEF RowsAge
      <3>2. QED
        BY <2>10, <3>1, MediaNames DEF MediaInv, RowsFounded, OnePhotoLeft, LiveFiles
    <2>14. naming'["logo"] = naming["logo"]
      BY <2>10, MediaNames
    <2>15. QED
      BY <1>5, <2>6, <2>8, <2>9, <2>10, <2>11, <2>12, <2>13, <2>14, ClearingStays, RowsAgeKeeps,
         {c} \in SUBSET MediaCalls
  <1>8. QED
    BY <1>6, <1>7


\* An upload joins the registry with what its locks have kept.
LEMMA RegistersKeeps ==
  ASSUME MediaInv, NEW c \in MediaCalls, Registers(c)
  PROVE  MediaInv'
  <1>1. MediaTyped /\ NamesFounded
    BY DEF MediaInv
  <1>2. /\ mediaCalls[c] \in UploadCall /\ mediaCalls[c].op = "counted" /\ Uploading(c)
        /\ UploadFounded(c) /\ CountFounded(c)
    BY <1>1, MediaCallTyped DEF Registers, Uploading, MediaInv, CallsFounded
  <1>3. PICK f \in MediaFiles, for \in Locked \cup {Unused}, seen \in FileOrNone :
               f = mediaCalls[c].file /\ for = mediaCalls[c].for /\ seen = mediaCalls[c].seen
    BY <1>1, <1>2, MediaCallTyped
  <1>4. /\ f \in disk /\ f \notin aged /\ registry[f] = Unregistered
        /\ for \in Locked => holds[for] = {c} /\ seen = naming[for]
        /\ for = Unused => seen = NoFile
        /\ holds["quota"] = {c} /\ Cardinality(LiveFiles) < Quota
    BY <1>2, <1>3 DEF UploadFounded, CountFounded
  <1>5. PICK rows, old : /\ rows = [registry EXCEPT ![f] = [owner |-> for, live |-> TRUE]]
                         /\ old = {seen} \cap LiveFiles
    OBVIOUS
  <1>6. /\ registry' = IF for = "photo" THEN Marked(rows, old) ELSE rows
        /\ naming' = IF for \in Features THEN [naming EXCEPT ![for] = f] ELSE naming
        /\ IF old = {} \/ for = Unused THEN Finishes(c)
           ELSE Turns(c, [op |-> IF for = "photo" THEN "removing" ELSE "deleting", file |-> seen])
        /\ holds' = MediaReleased(c) /\ UNCHANGED <<disk, place, aged, clearing, orphans>>
    BY <1>3, <1>5 DEF Registers
  <1>7. /\ rows \in [MediaFiles -> FileRow] /\ rows[f] = [owner |-> for, live |-> TRUE]
        /\ \A g \in MediaFiles \ {f} : rows[g] = registry[g]
    BY <1>1, <1>5, MediaNames DEF FileRow, MediaTyped
  <1>8. old \subseteq MediaFiles \ {f}
          /\ \A g \in old : for \in Locked /\ g = seen /\ g = naming[for] /\ registry[g] = [owner |-> for, live |-> TRUE]
    <2>1. f \notin LiveFiles
      BY <1>4 DEF LiveFiles, Unregistered
    <2>2. ASSUME NEW g \in old
          PROVE  for \in Locked /\ g = seen /\ g = naming[for] /\ registry[g] = [owner |-> for, live |-> TRUE]
      <3>1. g = seen /\ g \in MediaFiles /\ seen # NoFile
        BY <1>5, MediaNames
      <3>2. for \in Locked /\ seen = naming[for]
        BY <1>4, <3>1
      <3>3. QED
        BY <1>1, <3>1, <3>2 DEF NamesFounded
    <2>3. QED
      BY <1>5, <2>1, <2>2, MediaNames
  <1>9. /\ registry' \in [MediaFiles -> FileRow] /\ registry'[f] = [owner |-> for, live |-> TRUE]
        /\ \A g \in MediaFiles \ {f} : /\ registry'[g].owner = registry[g].owner
                                       /\ registry'[g].live => registry[g].live
                                       /\ g \notin old \/ for # "photo" => registry'[g] = registry[g]
        /\ \A g \in old : for = "photo" => Buried(g)'
    <2>1. CASE for = "photo"
      <3>1. /\ registry' \in [MediaFiles -> FileRow]
            /\ \A g \in MediaFiles : /\ registry'[g].owner = rows[g].owner
                                     /\ registry'[g].live <=> (rows[g].live /\ g \notin old)
                                     /\ g \notin old => registry'[g] = rows[g]
        BY <1>6, <1>7, <2>1, MarkedRows
      <3>2. \A g \in old : Buried(g)'
        BY <1>7, <1>8, <2>1, <3>1 DEF Buried
      <3>3. registry'[f] = [owner |-> for, live |-> TRUE]
        BY <1>7, <1>8, <3>1
      <3>4. ASSUME NEW g \in MediaFiles \ {f}
            PROVE  /\ registry'[g].owner = registry[g].owner
                   /\ registry'[g].live => registry[g].live
                   /\ g \notin old => registry'[g] = registry[g]
        BY <1>7, <3>1
      <3>5. QED
        BY <2>1, <3>1, <3>2, <3>3, <3>4
    <2>2. CASE for # "photo"
      BY <1>6, <1>7, <2>2
    <2>3. QED
      BY <2>1, <2>2
  <1>10. /\ naming' \in [Features -> FileOrNone] /\ (for \in Locked => naming'[for] = f)
         /\ \A x \in Features : x # for => naming'[x] = naming[x]
    BY <1>1, <1>6, MediaNames DEF MediaTyped, FileOrNone
  <1>11. /\ mediaCalls' \in [MediaCalls -> UploadCall \cup RemovalCall \cup PlaceCall \cup {NoMediaCall}]
         /\ \A d \in MediaCalls \ {c} : mediaCalls'[d] = mediaCalls[d]
         /\ \/ mediaCalls'[c] = NoMediaCall
            \/ /\ old # {} /\ for \in Locked
               /\ mediaCalls'[c] = [op |-> IF for = "photo" THEN "removing" ELSE "deleting", file |-> seen]
    <2>1. ASSUME old # {}
          PROVE  [op |-> IF for = "photo" THEN "removing" ELSE "deleting", file |-> seen] \in RemovalCall
      BY <1>8, <2>1 DEF RemovalCall
    <2>2. QED
      BY <1>1, <1>6, <2>1 DEF MediaTyped, Turns, Finishes
  <1>12. /\ holds' \in [MediaLocks -> SUBSET MediaCalls] /\ LeavesLocks(c)
         /\ \A l \in MediaLocks : OneHolder(holds'[l])
    BY <1>1, <1>6, ReleasedLocks
  <1>13. MediaTyped'
    BY <1>1, <1>6, <1>9, <1>10, <1>11, <1>12 DEF MediaTyped
  <1>14. NamesFounded'
    <2>1. ASSUME NEW x \in Locked, naming'[x] # NoFile
          PROVE  registry'[naming'[x]] = [owner |-> x, live |-> TRUE]
      <3>1. CASE x = for
        BY <1>9, <1>10, <2>1, <3>1
      <3>2. CASE x # for
        <4>1. naming'[x] = naming[x] /\ naming[x] \in MediaFiles /\ registry[naming[x]] = [owner |-> x, live |-> TRUE]
          BY <1>1, <1>10, <2>1, <3>2, MediaNames DEF NamesFounded, MediaTyped, FileOrNone
        <4>2. naming[x] # f /\ naming[x] \notin old
          BY <1>4, <1>8, <3>2, <4>1 DEF Unregistered
        <4>3. QED
          BY <1>9, <4>1, <4>2
      <3>3. QED
        BY <3>1, <3>2
    <2>2. ASSUME naming'["location"] # NoFile
          PROVE  registry'[naming'["location"]].owner = "location"
      <3>1. naming'["location"] = naming["location"] /\ naming["location"] \in MediaFiles
              /\ registry[naming["location"]].owner = "location"
        BY <1>1, <1>10, <2>2, MediaNames DEF NamesFounded, MediaTyped, FileOrNone
      <3>2. naming["location"] # f
        BY <1>4, <3>1 DEF Unregistered
      <3>3. QED
        BY <1>9, <3>1, <3>2
    <2>3. QED
      BY <2>1, <2>2 DEF NamesFounded
  <1>15. OnePhotoLeft'
    <2> SUFFICES ASSUME NEW g \in MediaFiles, registry'[g].live, registry'[g].owner = "photo"
                 PROVE  g = naming'["photo"]
      BY DEF OnePhotoLeft, LiveFiles
    <2>1. CASE g = f
      BY <1>9, <1>10, <2>1, MediaNames
    <2>2. CASE g # f
      <3>1. g = naming["photo"] /\ registry[g].live
        BY <1>9, <2>2 DEF MediaInv, RowsFounded, OnePhotoLeft, LiveFiles
      <3>2. CASE for = "photo"
        <4>1. g \in old
          BY <1>4, <1>5, <3>1, <3>2, MediaNames DEF LiveFiles
        <4>2. QED
          BY <1>9, <3>2, <4>1 DEF Buried
      <3>3. CASE for # "photo"
        BY <1>10, <3>1, <3>3, MediaNames
      <3>4. QED
        BY <3>2, <3>3
    <2>3. QED
      BY <2>1, <2>2
  <1>16. \A g \in MediaFiles : Buried(g) => Buried(g)'
    BY <1>4, <1>9 DEF Buried, Unregistered
  <1>17. ~Uploading(c)' /\ (UploadFounded(c) /\ CountFounded(c) /\ RemovalFounded(c))'
    <2>1. CASE mediaCalls'[c] = NoMediaCall
      BY <2>1 DEF NoMediaCall, Uploading, UploadFounded, CountFounded, RemovalFounded
    <2>2. CASE mediaCalls'[c] # NoMediaCall
      <3>1. seen \in old /\ registry[seen].owner = for /\ seen # f /\ for \in Locked
        BY <1>8, <1>11, <2>2
      <3>2. for # "photo" => registry'[seen].owner = "logo" /\ seen # naming'["logo"]
        BY <1>8, <1>9, <1>10, <3>1, MediaNames
      <3>3. for = "photo" => Buried(seen)'
        BY <1>9, <3>1
      <3>4. QED
        BY <1>11, <2>2, <3>2, <3>3 DEF Uploading, UploadFounded, CountFounded, RemovalFounded, Buried
    <2>3. QED
      BY <2>1, <2>2
  <1>18. ASSUME NEW d \in MediaCalls \ {c}
         PROVE  (UploadFounded(d) /\ CountFounded(d) /\ RemovalFounded(d))'
    <2>1. Uploading(d) => LET g == mediaCalls[d].file
                          IN registry'[g] = registry[g] /\ g \in disk' /\ g \notin aged'
      <3> SUFFICES ASSUME Uploading(d)
                   PROVE  LET g == mediaCalls[d].file
                          IN registry'[g] = registry[g] /\ g \in disk' /\ g \notin aged'
        OBVIOUS
      <3>1. PICK g \in MediaFiles : g = mediaCalls[d].file
        BY <1>1, MediaCallTyped
      <3>2. g # f /\ registry[g] = Unregistered /\ g \in disk /\ g \notin aged
        BY <1>2, <1>3, <3>1 DEF MediaInv, UploadsApart, CallsFounded, UploadFounded
      <3>3. g \notin old
        BY <1>8, <3>2 DEF Unregistered
      <3>4. QED
        BY <1>6, <1>9, <3>1, <3>2, <3>3
    <2>2. mediaCalls[d].op # "counted"
      BY <1>4 DEF MediaInv, CallsFounded, CountFounded
    <2>3. \A l \in MediaLocks : holds[l] = {d} => holds'[l] = {d}
      BY <1>12 DEF LeavesLocks
    <2>4. \A x \in Locked : holds[x] = {d} => naming'[x] = naming[x]
      BY <1>4, <1>10, MediaNames
    <2>5. \A g \in MediaFiles :
            /\ Buried(g) => Buried(g)'
            /\ registry[g].owner \in {"location", "logo"} => registry'[g].owner = registry[g].owner
      BY <1>4, <1>9, <1>16 DEF Unregistered
    <2>6. naming'["logo"] = naming["logo"] \/ registry[naming'["logo"]] = Unregistered
      BY <1>4, <1>10, MediaNames
    <2>7. QED
      BY <1>11, <2>1, <2>2, <2>3, <2>4, <2>5, <2>6, OtherCallFounded
  <1>19. CallsFounded'
    BY <1>17, <1>18 DEF CallsFounded
  <1>20. UploadsApart'
    <2>1. \A d \in MediaCalls \ {c} : Uploading(d)' <=> Uploading(d)
      BY <1>11 DEF Uploading
    <2>2. QED
      BY <1>11, <1>17, <2>1 DEF UploadsApart, MediaInv
  <1>21. SweepsFounded'
    <2>1. \A g \in clearing' : Buried(g)'
      BY <1>1, <1>6, <1>16 DEF MediaInv, SweepsFounded, MediaTyped
    <2>2. \A g \in orphans' \cap aged' : ~registry'[g].live
      <3>1. \A g \in orphans \cap aged : g \in MediaFiles \ {f} /\ ~registry[g].live
        BY <1>1, <1>4 DEF MediaInv, SweepsFounded, MediaTyped
      <3>2. QED
        BY <1>6, <1>9, <3>1
    <2>3. QED
      BY <2>1, <2>2 DEF SweepsFounded
  <1>22. LiveFiles' \subseteq LiveFiles \cup {f}
    BY <1>9 DEF LiveFiles
  <1>23. RowsFounded'
    <2>1. LiveHaveFiles'
      BY <1>4, <1>6, <1>22 DEF LiveHaveFiles, MediaInv, RowsFounded
    <2>2. ASSUME NEW g \in MediaFiles
          PROVE  /\ registry'[g].owner = "damage_report" => registry'[g].live
                 /\ registry'[g].owner = "none" => ~registry'[g].live
      <3>1. CASE g = f
        BY <1>9, <3>1, MediaNames DEF Features, Unused
      <3>2. CASE g # f
        <4>1. registry[g].owner = "damage_report" => registry[g].live /\ g \notin old
          BY <1>8 DEF MediaInv, RowsFounded, Locked
        <4>2. registry[g].owner = "none" => ~registry[g].live
          BY DEF MediaInv, RowsFounded
        <4>3. QED
          BY <1>9, <3>2, <4>1, <4>2
      <3>3. QED
        BY <3>1, <3>2
    <2>3. QED
      BY <1>15, <2>1, <2>2 DEF RowsFounded
  <1>24. QuotaFounded'
    <2>1. IsFiniteSet(LiveFiles)
      BY DEF MediaInv, QuotaFounded
    <2>2. f \notin LiveFiles
      BY <1>4 DEF LiveFiles, Unregistered
    <2>3. /\ IsFiniteSet(LiveFiles \cup {f}) /\ Cardinality(LiveFiles \cup {f}) = Cardinality(LiveFiles) + 1
          /\ Cardinality(LiveFiles) \in Nat
      BY <2>1, <2>2, FS_AddElement, FS_CardinalityType
    <2>4. /\ IsFiniteSet(LiveFiles') /\ Cardinality(LiveFiles') <= Cardinality(LiveFiles \cup {f})
          /\ Cardinality(LiveFiles') \in Nat
      BY <1>22, <2>3, FS_Subset, FS_CardinalityType
    <2>5. QED
      BY <1>4, <2>3, <2>4, MediaAssumption DEF QuotaFounded, QuotaKept
  <1>25. QED
    BY <1>13, <1>14, <1>19, <1>20, <1>21, <1>23, <1>24 DEF MediaInv

LEMMA MediaStarts ==
  ASSUME MediaInit
  PROVE  MediaInv
  <1>1. LiveFiles = {}
    BY DEF MediaInit, LiveFiles, Unregistered
  <1>2. IsFiniteSet({}) /\ Cardinality({}) = 0
    BY FS_EmptySet
  <1>3. MediaTyped
    BY MediaNames DEF MediaInit, MediaTyped, OneHolder, FileOrNone, MediaLocks
  <1>4. NamesFounded /\ CallsFounded /\ UploadsApart /\ SweepsFounded
    BY MediaNames DEF MediaInit, NamesFounded, CallsFounded, UploadsApart, SweepsFounded, UploadFounded,
                      CountFounded, RemovalFounded, Uploading, NoMediaCall
  <1>5. RowsFounded
    BY <1>1 DEF MediaInit, RowsFounded, LiveHaveFiles, OnePhotoLeft, Unregistered
  <1>6. QuotaFounded
    BY <1>1, <1>2, MediaAssumption DEF QuotaFounded, QuotaKept
  <1>7. QED
    BY <1>3, <1>4, <1>5, <1>6 DEF MediaInv

LEMMA MediaStep ==
  ASSUME MediaInv, [MediaNext]_mediaVars
  PROVE  MediaInv'
  <1>1. CASE UNCHANGED mediaVars
    <2>1. MediaTyped' /\ NamesFounded' /\ SweepsFounded' /\ UploadsApart'
      BY <1>1 DEF mediaVars, MediaInv, MediaTyped, NamesFounded, SweepsFounded, UploadsApart, Uploading, Buried
    <2>2. CallsFounded'
      BY <1>1 DEF mediaVars, MediaInv, CallsFounded, UploadFounded, CountFounded, RemovalFounded, Uploading,
                  Buried, LiveFiles
    <2>3. RowsFounded' /\ QuotaFounded'
      BY <1>1 DEF mediaVars, MediaInv, RowsFounded, QuotaFounded, QuotaKept, LiveHaveFiles, OnePhotoLeft,
                  LiveFiles
    <2>4. QED
      BY <2>1, <2>2, <2>3 DEF MediaInv
  <1>2. CASE MediaNext
    <2>1. UnusedFiles \cup {naming["location"], NoFile} \subseteq FileOrNone /\ NoFile \in FileOrNone
      BY MediaNames DEF MediaInv, MediaTyped, UnusedFiles, LiveFiles, FileOrNone
    <2>2. ASSUME NEW c \in MediaCalls,
                 \/ \E for \in Locked \cup {Unused} : StoresUpload(c, for)
                 \/ Counts(c) \/ DiscardsUpload(c) \/ Registers(c) \/ Tombstones(c) \/ PurgesFile(c) \/ ProcessEnds(c)
                 \/ \E for \in Locked : Removes(c, for)
                 \/ \E f \in UnusedFiles \cup {naming["location"], NoFile} : ReadsPlace(c, f, FALSE)
                 \/ ReadsPlace(c, NoFile, TRUE) \/ WritesPlace(c)
          PROVE  MediaInv'
      BY <2>1, <2>2, StoresUploadKeeps, CountsKeeps, CallEndsKeeps, RegistersKeeps, TombstonesKeeps, RemovesKeeps,
         ReadsPlaceKeeps, WritesPlaceKeeps
    <2>3. ASSUME NEW f \in MediaFiles, Reports(f) \/ TimePassesFor(f)
          PROVE  MediaInv'
      BY <2>3, ReportsKeeps, SweepsKeep
    <2>4. CASE SweepMarks \/ SweepRemoves \/ OrphansFound \/ OrphanRemoved \/ SweepEnds
      BY <2>4, SweepMarksKeeps, SweepsKeep
    <2>5. QED
      BY <1>2, <2>2, <2>3, <2>4 DEF MediaNext
  <1>3. QED
    BY <1>1, <1>2

LEMMA MediaInvServes ==
  ASSUME MediaInv
  PROVE  MediaTypeOK /\ QuotaKept /\ LiveHaveFiles /\ NamedAreServed /\ OnePhotoLeft
  <1>1. \A l \in Locked \cup {"quota"} : holds[l] \in SUBSET MediaCalls /\ Cardinality(holds[l]) <= 1
    <2>1. \A c \in MediaCalls : Cardinality({c}) = 1
      BY FS_Singleton
    <2>2. Cardinality({}) = 0
      BY FS_EmptySet
    <2>3. ASSUME NEW l \in MediaLocks
          PROVE  holds[l] \in SUBSET MediaCalls /\ Cardinality(holds[l]) <= 1
      <3>1. holds[l] \in SUBSET MediaCalls /\ OneHolder(holds[l])
        BY DEF MediaInv, MediaTyped
      <3>2. CASE holds[l] = {}
        BY <2>2, <3>1, <3>2
      <3>3. ASSUME NEW c \in MediaCalls, holds[l] = {c}
            PROVE  Cardinality(holds[l]) <= 1
        BY <2>1, <3>3
      <3>4. QED
        BY <3>1, <3>2, <3>3 DEF OneHolder
    <2>4. QED
      BY <2>3 DEF MediaLocks
  <1>2. MediaTypeOK
    BY <1>1 DEF MediaInv, MediaTyped, MediaTypeOK, FileRow
  <1>3. NamedAreServed
    <2>1. \A x \in Locked : naming[x] # NoFile => naming[x] \in LiveFiles
      BY MediaNames DEF MediaInv, MediaTyped, NamesFounded, LiveFiles, FileOrNone
    <2>2. QED
      BY <2>1 DEF NamedAreServed, MediaInv, RowsFounded
  <1>4. QED
    BY <1>2, <1>3 DEF MediaInv, RowsFounded, QuotaFounded

\* Under the club's quota, every file that is named can be served: for any files,
\* quota, requests and processes that end anywhere (lib/media.ts).
THEOREM MediaIsSound == MediaSpec => MediaPromise
  <1>1. MediaInit => MediaInv
    BY MediaStarts
  <1>2. MediaInv /\ [MediaNext]_mediaVars => MediaInv'
    BY MediaStep
  <1>3. MediaInv => MediaTypeOK /\ QuotaKept /\ LiveHaveFiles /\ NamedAreServed /\ OnePhotoLeft
    BY MediaInvServes
  <1>4. QED
    BY <1>1, <1>2, <1>3, PTL DEF MediaSpec, MediaPromise

-----------------------------------------------------------------------------
(***************************************************************************)
(* The application form.  SubmissionsInv: what the board sees of a         *)
(* submission follows from its status (FiledRight), and each stored file   *)
(* has one owner only: a submission that names it, the upload that brings  *)
(* it, or nobody once that upload's process has ended (FilesApart).        *)
(***************************************************************************)
FiledRight(s) ==
  /\ Is(s, "submitted") <=> filed[s] = "pending"
  /\ Is(s, "accepted") <=> filed[s] = "approved"
  /\ Is(s, "rejected") <=> filed[s] = "rejected"
  /\ filed[s] = "withdrawn" => Is(s, "withdrawn")

Bringing == {u \in Uploads : uploading[u] # NoUpload}

FilesApart ==
  /\ \A s \in Subs : FilesOf(s) \subseteq stored \ (lost \cup Bringing)
  /\ \A s, t \in Subs : s # t => FilesOf(s) \cap FilesOf(t) = {}
  /\ Bringing \subseteq stored \ lost
  /\ \A u \in stored \ (lost \cup Bringing) : \E s \in Subs : u \in FilesOf(s)

WithdrawnBare == \A s \in Subs : Is(s, "withdrawn") => FilesOf(s) = {}

OwnPending(s) == subs[s] # NoSubmission /\ ~subs[s].child /\ filed[s] = "pending"

OneOwnPending == \A s, t \in Subs : OwnPending(s) /\ OwnPending(t) => s = t

SubmissionsInv ==
  /\ SubmissionsTypeOK /\ (\A s \in Subs : FiledRight(s))
  /\ FilesApart /\ WithdrawnBare /\ OneOwnPending

\* The step a draft may disappear by.
DraftSpared ==
  \A s \in Subs : subs[s] # NoSubmission /\ subs'[s] = NoSubmission
     => Discards(s) \/ (Is(s, "draft") /\ subs[s].old)

LEMMA SubmissionRows ==
  /\ NoSubmission.status = "none" /\ NoSubmission \notin Submission
  /\ \A sub \in Submission : sub.status # "none" /\ sub.files \in SUBSET Uploads /\ sub.child \in BOOLEAN
  BY DEF NoSubmission, Submission

LEMMA FilesTyped ==
  ASSUME SubmissionsTypeOK, NEW s \in Subs
  PROVE  /\ FilesOf(s) \in SUBSET Uploads
         /\ subs[s] = NoSubmission <=> Is(s, "none")
         /\ subs[s] # NoSubmission => subs[s] \in Submission /\ FilesOf(s) = subs[s].files
  BY SubmissionRows DEF SubmissionsTypeOK, FilesOf, Is

\* A step of one submission: it is written, and of its files some are dropped.
LEMMA OneSubmissionKeeps ==
  ASSUME SubmissionsInv, NEW s \in Subs, NEW sub \in Submission \cup {NoSubmission}, Put(s, sub),
         NEW files, files = (IF sub = NoSubmission THEN {} ELSE sub.files), files \subseteq FilesOf(s),
         stored' = stored \ (FilesOf(s) \ files),
         UNCHANGED form,
         filed' \in [Subs -> {"none", "pending", "approved", "rejected", "withdrawn"}],
         \A t \in Subs \ {s} : filed'[t] = filed[t],
         UNCHANGED <<lost, uploading>>, swept' \subseteq Subs,
         FiledRight(s)', sub.status = "withdrawn" => files = {},
         OwnPending(s)' => \A t \in Subs : OwnPending(t) => t = s
  PROVE  SubmissionsInv'
  <1>1. SubmissionsTypeOK
    BY DEF SubmissionsInv
  <1>2. subs'[s] = sub /\ \A t \in Subs \ {s} : subs'[t] = subs[t]
    BY <1>1 DEF Put, SubmissionsTypeOK
  <1>3. FilesOf(s)' = files /\ \A t \in Subs \ {s} : FilesOf(t)' = FilesOf(t)
    BY <1>2 DEF FilesOf
  <1>4. \A t \in Subs \ {s} : FiledRight(t)' /\ (OwnPending(t)' <=> OwnPending(t))
    BY <1>2 DEF SubmissionsInv, FiledRight, Is, OwnPending
  <1>5. Bringing' = Bringing
    BY DEF Bringing
  <1>6. FilesApart'
    <2>1. ASSUME NEW t \in Subs
          PROVE  FilesOf(t)' \subseteq stored' \ (lost' \cup Bringing')
      <3>1. CASE t = s
        BY <1>3, <1>5, <3>1 DEF SubmissionsInv, FilesApart
      <3>2. CASE t # s
        BY <1>3, <1>5, <3>2 DEF SubmissionsInv, FilesApart
      <3>3. QED
        BY <3>1, <3>2
    <2>2. ASSUME NEW t \in Subs, NEW r \in Subs, t # r
          PROVE  FilesOf(t)' \cap FilesOf(r)' = {}
      <3>1. FilesOf(t)' \subseteq FilesOf(t) /\ FilesOf(r)' \subseteq FilesOf(r)
        BY <1>3
      <3>2. FilesOf(t) \cap FilesOf(r) = {}
        BY <2>2 DEF SubmissionsInv, FilesApart
      <3>3. QED
        BY <3>1, <3>2
    <2>3. Bringing' \subseteq stored' \ lost'
      BY <1>5 DEF SubmissionsInv, FilesApart
    <2>4. ASSUME NEW u \in stored' \ (lost' \cup Bringing')
          PROVE  \E t \in Subs : u \in FilesOf(t)'
      <3>1. PICK t \in Subs : u \in FilesOf(t)
        BY <1>5, <2>4 DEF SubmissionsInv, FilesApart
      <3>2. CASE t = s
        BY <1>3, <2>4, <3>1, <3>2
      <3>3. CASE t # s
        BY <1>3, <3>1, <3>3
      <3>4. QED
        BY <3>2, <3>3
    <2>5. QED
      BY <2>1, <2>2, <2>3, <2>4 DEF FilesApart
  <1>7. WithdrawnBare'
    BY <1>2, <1>3 DEF SubmissionsInv, WithdrawnBare, Is
  <1>8. OneOwnPending'
    BY <1>4 DEF SubmissionsInv, OneOwnPending
  <1>9. SubmissionsTypeOK'
    <2>1. stored' \subseteq Uploads /\ lost' \subseteq stored'
      BY <1>1 DEF SubmissionsInv, FilesApart, SubmissionsTypeOK
    <2>2. subs' \in [Subs -> Submission \cup {NoSubmission}]
      BY <1>1 DEF Put, SubmissionsTypeOK
    <2>3. uploading' \in [Uploads -> [to: Subs] \cup {NoUpload}]
      BY <1>1 DEF SubmissionsTypeOK
    <2>4. drafted' \in BOOLEAN /\ versions' \in 0..MaxVersions /\ published' \in 0..versions'
      BY <1>1 DEF SubmissionsTypeOK, form
    <2>5. QED
      BY <2>1, <2>2, <2>3, <2>4 DEF SubmissionsTypeOK
  <1>10. QED
    BY <1>4, <1>6, <1>7, <1>8, <1>9 DEF SubmissionsInv


\* Nothing is filed for what there is no submission of.
LEMMA FiledTyped ==
  ASSUME SubmissionsInv, NEW s \in Subs
  PROVE  /\ filed[s] \in {"none", "pending", "approved", "rejected", "withdrawn"}
         /\ Is(s, "draft") \/ Is(s, "none") => filed[s] = "none"
         /\ SubmissionsTypeOK /\ FiledRight(s)
  BY DEF SubmissionsInv, SubmissionsTypeOK, FiledRight, Is

\* What a version is filled in for is published.
LEMMA PublishedTyped ==
  ASSUME SubmissionsTypeOK, published # 0
  PROVE  published \in 1..MaxVersions
  BY SubmissionsAssumption DEF SubmissionsTypeOK

LEMMA MayApplyAlone ==
  ASSUME SubmissionsInv, MayApply
  PROVE  \A t \in Subs : ~OwnPending(t)
  BY DEF SubmissionsInv, MayApply, OwnPending, FiledRight, Is

LEMMA BeginsKeeps ==
  ASSUME SubmissionsInv, NEW s \in Subs, NEW child \in BOOLEAN, Begins(s, child)
  PROVE  SubmissionsInv' /\ DraftSpared
  <1>1. SubmissionsTypeOK /\ filed[s] = "none" /\ subs[s] = NoSubmission /\ FilesOf(s) = {}
    BY FiledTyped, FilesTyped DEF Begins, FilesOf
  <1>2. Begun(child) \in Submission /\ Begun(child).files = {} /\ Begun(child).status = "draft"
    BY <1>1, PublishedTyped DEF Begins, Begun, Submission
  <1>3. /\ Put(s, Begun(child)) /\ UNCHANGED <<form, filed, stored, lost, uploading, swept>>
    BY DEF Begins
  <1>4. subs'[s] = Begun(child) /\ \A t \in Subs \ {s} : subs'[t] = subs[t]
    BY <1>1, <1>3 DEF Put, SubmissionsTypeOK
  <1>5. FiledRight(s)' /\ ~OwnPending(s)'
    BY <1>1, <1>2, <1>3, <1>4 DEF FiledRight, Is, OwnPending
  <1>6. filed' \in [Subs -> {"none", "pending", "approved", "rejected", "withdrawn"}] /\ swept' \subseteq Subs
    BY <1>1, <1>3 DEF SubmissionsTypeOK
  <1>7. Begun(child) # NoSubmission
    BY <1>2, SubmissionRows
  <1>8. SubmissionsInv'
    BY <1>1, <1>2, <1>3, <1>5, <1>6, <1>7, OneSubmissionKeeps
  <1>9. QED
    BY <1>4, <1>7, <1>8 DEF DraftSpared

\* A submission that stays, with some of its files.
LEMMA SubmissionMoves ==
  ASSUME SubmissionsInv, NEW s \in Subs, NEW sub \in Submission, Put(s, sub), sub.files \subseteq FilesOf(s),
         stored' = stored \ (FilesOf(s) \ sub.files),
         NEW as \in {"none", "pending", "approved", "rejected", "withdrawn"},
         filed' = [filed EXCEPT ![s] = as] \/ (UNCHANGED filed /\ as = filed[s]),
         UNCHANGED <<form, lost, uploading>>, swept' \subseteq Subs,
         sub.status = "submitted" <=> as = "pending", sub.status = "accepted" <=> as = "approved",
         sub.status = "rejected" <=> as = "rejected", as = "withdrawn" => sub.status = "withdrawn",
         sub.status = "withdrawn" => sub.files = {},
         as = "pending" /\ ~sub.child => \A t \in Subs : OwnPending(t) => t = s
  PROVE  SubmissionsInv' /\ DraftSpared
  <1>1. SubmissionsTypeOK
    BY DEF SubmissionsInv
  <1>2. sub # NoSubmission
    BY SubmissionRows
  <1>3. subs'[s] = sub /\ \A t \in Subs \ {s} : subs'[t] = subs[t]
    BY <1>1 DEF Put, SubmissionsTypeOK
  <1>4. /\ filed' \in [Subs -> {"none", "pending", "approved", "rejected", "withdrawn"}]
        /\ filed'[s] = as /\ \A t \in Subs \ {s} : filed'[t] = filed[t]
    BY <1>1 DEF SubmissionsTypeOK
  <1>5. FiledRight(s)' /\ (OwnPending(s)' => \A t \in Subs : OwnPending(t) => t = s)
    BY <1>3, <1>4 DEF FiledRight, Is, OwnPending
  <1>6. SubmissionsInv'
    BY <1>2, <1>4, <1>5, OneSubmissionKeeps
  <1>7. QED
    BY <1>2, <1>3, <1>6 DEF DraftSpared

\* A submission that goes, with all its files: it was a draft.
LEMMA SubmissionGoes ==
  ASSUME SubmissionsInv, NEW s \in Subs, Is(s, "draft"), Put(s, NoSubmission),
         stored' = stored \ subs[s].files, UNCHANGED <<form, filed, lost, uploading>>, swept' \subseteq Subs
  PROVE  SubmissionsInv' /\ \A t \in Subs \ {s} : subs'[t] = subs[t]
  <1>1. SubmissionsTypeOK /\ filed[s] = "none"
    BY FiledTyped
  <1>2. FilesOf(s) = subs[s].files
    BY <1>1, FilesTyped DEF Is
  <1>3. subs'[s] = NoSubmission /\ \A t \in Subs \ {s} : subs'[t] = subs[t]
    BY <1>1 DEF Put, SubmissionsTypeOK
  <1>4. FiledRight(s)' /\ ~OwnPending(s)'
    BY <1>1, <1>3, SubmissionRows DEF FiledRight, Is, OwnPending
  <1>5. filed' \in [Subs -> {"none", "pending", "approved", "rejected", "withdrawn"}]
    BY <1>1 DEF SubmissionsTypeOK
  <1>6. PICK sub, files : sub = NoSubmission /\ files = {}
    OBVIOUS
  <1>7. SubmissionsInv'
    <2>1. stored' = stored \ (FilesOf(s) \ files)
      BY <1>2, <1>6
    <2>2. /\ files = (IF sub = NoSubmission THEN {} ELSE sub.files) /\ files \subseteq FilesOf(s)
          /\ sub \in Submission \cup {NoSubmission} /\ (sub.status = "withdrawn" => files = {})
          /\ Put(s, sub)
      BY <1>6
    <2>3. \A t \in Subs \ {s} : filed'[t] = filed[t]
      OBVIOUS
    <2>4. QED
      BY <1>4, <1>5, <2>1, <2>2, <2>3, OneSubmissionKeeps
  <1>8. QED
    BY <1>3, <1>7


LEMMA RowOf ==
  ASSUME SubmissionsInv, NEW s \in Subs, ~Is(s, "none")
  PROVE  \E row \in Submission : row = subs[s] /\ FilesOf(s) = row.files
  BY FilesTyped, FiledTyped

\* Steps of one submission that file nothing and decide nothing.
LEMMA DraftSteps ==
  ASSUME SubmissionsInv, NEW s \in Subs,
         \/ \E kept \in SUBSET FilesOf(s) : Edits(s, kept)
         \/ \E u \in Uploads : RemovesFile(s, u)
         \/ Ages(s) \/ ExpiresFiles(s) \/ ErasesAnswers(s)
  PROVE  SubmissionsInv' /\ DraftSpared
  <1>1. SubmissionsTypeOK /\ FiledRight(s) /\ filed[s] \in {"none", "pending", "approved", "rejected", "withdrawn"}
    BY FiledTyped
  <1>2. ~Is(s, "none")
    BY DEF Edits, RemovesFile, Ages, ExpiresFiles, ErasesAnswers, Is
  <1>3. PICK row \in Submission : row = subs[s] /\ FilesOf(s) = row.files
    BY <1>2, RowOf
  <1>4. swept' = swept /\ swept' \subseteq Subs /\ UNCHANGED <<form, filed, lost, uploading>>
    BY <1>1 DEF Edits, RemovesFile, Ages, ExpiresFiles, ErasesAnswers, SubmissionsTypeOK
  <1>5. WithdrawnBare
    BY DEF SubmissionsInv
  <1>6. ASSUME NEW sub \in Submission, Put(s, sub), sub.files \subseteq row.files, sub.status = row.status,
               sub.child = row.child, stored' = stored \ (row.files \ sub.files)
        PROVE  SubmissionsInv' /\ DraftSpared
    <2>1. filed[s] = "pending" /\ ~sub.child => \A t \in Subs : OwnPending(t) => t = s
      <3>1. subs[s] # NoSubmission
        BY <1>2, <1>1, FilesTyped
      <3>2. filed[s] = "pending" /\ ~sub.child => OwnPending(s)
        BY <1>3, <1>6, <3>1 DEF OwnPending
      <3>3. QED
        BY <3>2 DEF SubmissionsInv, OneOwnPending
    <2>2. PICK as \in {"none", "pending", "approved", "rejected", "withdrawn"} : as = filed[s]
      BY <1>1
    <2>3. /\ sub.status = "submitted" <=> as = "pending"
          /\ sub.status = "accepted" <=> as = "approved"
          /\ sub.status = "rejected" <=> as = "rejected"
          /\ as = "withdrawn" => sub.status = "withdrawn"
      BY <1>1, <1>3, <1>6, <2>2 DEF FiledRight, Is
    <2>4. sub.status = "withdrawn" => sub.files = {}
      BY <1>3, <1>5, <1>6 DEF WithdrawnBare, Is
    <2>5. as = "pending" /\ ~sub.child => \A t \in Subs : OwnPending(t) => t = s
      BY <2>1, <2>2
    <2>6. stored' = stored \ (FilesOf(s) \ sub.files) /\ sub.files \subseteq FilesOf(s)
      BY <1>3, <1>6
    <2>7. UNCHANGED filed /\ as = filed[s] /\ UNCHANGED <<form, lost, uploading>> /\ swept' \subseteq Subs
      BY <1>4, <2>2
    <2>8. QED
      BY <1>6, <2>3, <2>4, <2>5, <2>6, <2>7, SubmissionMoves
  <1>7. ASSUME NEW kept \in SUBSET FilesOf(s), Edits(s, kept)
        PROVE  SubmissionsInv' /\ DraftSpared
    <2> DEFINE sub == [[row EXCEPT !.old = FALSE] EXCEPT !.version = published, !.files = kept]
    <2>1. published \in 1..MaxVersions
      BY <1>1, <1>7, PublishedTyped DEF Edits
    <2>2. sub \in Submission /\ sub.files = kept /\ sub.status = row.status /\ sub.child = row.child
      BY <1>3, <2>1 DEF Submission
    <2>3. Put(s, sub) /\ stored' = stored \ (row.files \ kept)
      BY <1>3, <1>7 DEF Edits, Touch
    <2> HIDE DEF sub
    <2>4. QED
      BY <1>3, <1>6, <2>2, <2>3
  <1>8. ASSUME NEW u \in Uploads, RemovesFile(s, u)
        PROVE  SubmissionsInv' /\ DraftSpared
    <2> DEFINE sub == [[row EXCEPT !.old = FALSE] EXCEPT !.files = @ \ {u}]
    <2>2. sub \in Submission /\ sub.files = row.files \ {u} /\ sub.status = row.status /\ sub.child = row.child
      BY DEF Submission
    <2>3. Put(s, sub) /\ stored' = stored \ {u} /\ u \in row.files
      BY <1>3, <1>8 DEF RemovesFile, Touch
    <2>4. stored' = stored \ (row.files \ sub.files) /\ sub.files \subseteq row.files
      BY <2>2, <2>3
    <2> HIDE DEF sub
    <2>5. QED
      BY <1>6, <2>2, <2>3, <2>4
  <1>9. CASE Ages(s)
    <2> DEFINE sub == [row EXCEPT !.old = TRUE]
    <2>2. sub \in Submission /\ sub.files = row.files /\ sub.status = row.status /\ sub.child = row.child
      BY DEF Submission
    <2>3. Put(s, sub) /\ stored' = stored
      BY <1>3, <1>9 DEF Ages
    <2>4. stored' = stored \ (row.files \ sub.files) /\ sub.files \subseteq row.files
      BY <2>2, <2>3
    <2> HIDE DEF sub
    <2>5. QED
      BY <1>6, <2>2, <2>3, <2>4
  <1>10. CASE ExpiresFiles(s)
    <2> DEFINE sub == [row EXCEPT !.files = {}]
    <2>2. sub \in Submission /\ sub.files = {} /\ sub.status = row.status /\ sub.child = row.child
      BY DEF Submission
    <2>3. Put(s, sub) /\ stored' = stored \ row.files
      BY <1>3, <1>10 DEF ExpiresFiles
    <2>4. stored' = stored \ (row.files \ sub.files) /\ sub.files \subseteq row.files
      BY <2>2, <2>3
    <2> HIDE DEF sub
    <2>5. QED
      BY <1>6, <2>2, <2>3, <2>4
  <1>11. CASE ErasesAnswers(s)
    <2> DEFINE sub == [[row EXCEPT !.old = FALSE] EXCEPT !.answered = FALSE]
    <2>2. sub \in Submission /\ sub.files = row.files /\ sub.status = row.status /\ sub.child = row.child
      BY DEF Submission
    <2>3. Put(s, sub) /\ stored' = stored
      BY <1>3, <1>11 DEF ErasesAnswers, Touch
    <2>4. stored' = stored \ (row.files \ sub.files) /\ sub.files \subseteq row.files
      BY <2>2, <2>3
    <2> HIDE DEF sub
    <2>5. QED
      BY <1>6, <2>2, <2>3, <2>4
  <1>12. QED
    BY <1>7, <1>8, <1>9, <1>10, <1>11

LEMMA DiscardsKeeps ==
  ASSUME SubmissionsInv, NEW s \in Subs, Discards(s) \/ SweepsDraft(s)
  PROVE  SubmissionsInv' /\ DraftSpared
  <1>1. SubmissionsTypeOK
    BY DEF SubmissionsInv
  <1>2. swept' \subseteq Subs /\ UNCHANGED <<form, filed, lost, uploading>>
    BY <1>1 DEF Discards, SweepsDraft, SubmissionsTypeOK
  <1>3. CASE /\ Is(s, "draft") /\ Put(s, NoSubmission) /\ stored' = stored \ subs[s].files
             /\ Discards(s) \/ subs[s].old
    <2>1. SubmissionsInv' /\ \A t \in Subs \ {s} : subs'[t] = subs[t]
      BY <1>2, <1>3, SubmissionGoes
    <2>2. QED
      BY <1>3, <2>1 DEF DraftSpared
  <1>4. CASE UNCHANGED <<subs, stored>>
    <2>1. SubmissionsTypeOK'
      BY <1>1, <1>2, <1>4 DEF SubmissionsTypeOK, form
    <2>2. (\A s2 \in Subs : FiledRight(s2)') /\ WithdrawnBare' /\ OneOwnPending'
      BY <1>2, <1>4 DEF SubmissionsInv, FiledRight, Is, WithdrawnBare, OneOwnPending, OwnPending, FilesOf
    <2>3. FilesApart'
      BY <1>2, <1>4 DEF SubmissionsInv, FilesApart, FilesOf, Bringing
    <2>4. QED
      BY <1>4, <2>1, <2>2, <2>3 DEF SubmissionsInv, DraftSpared
  <1>5. QED
    BY <1>3, <1>4 DEF Discards, SweepsDraft, Stale


LEMMA SubmittedKeeps ==
  ASSUME SubmissionsInv, NEW s \in Subs, NEW row \in Submission, NEW hidden \in SUBSET row.files,
         Submitted(s, row, hidden), row.files = FilesOf(s),
         ~row.child => \A t \in Subs : ~OwnPending(t)
  PROVE  SubmissionsInv' /\ DraftSpared
  <1> DEFINE sub == [row EXCEPT !.status = "submitted", !.old = FALSE, !.files = @ \ hidden]
  <1>1. sub \in Submission /\ sub.files = row.files \ hidden /\ sub.status = "submitted" /\ sub.child = row.child
    BY DEF Submission
  <1>2. Put(s, sub) /\ filed' = [filed EXCEPT ![s] = "pending"] /\ stored' = stored \ hidden
          /\ UNCHANGED <<form, lost, uploading, swept>>
    BY DEF Submitted
  <1>3. stored' = stored \ (FilesOf(s) \ sub.files) /\ sub.files \subseteq FilesOf(s)
    BY <1>1, <1>2
  <1>4. swept' \subseteq Subs
    BY <1>2 DEF SubmissionsInv, SubmissionsTypeOK
  <1> HIDE DEF sub
  <1>5. PICK as \in {"none", "pending", "approved", "rejected", "withdrawn"} : as = "pending"
    OBVIOUS
  <1>6. /\ filed' = [filed EXCEPT ![s] = as]
        /\ sub.status = "submitted" <=> as = "pending"
        /\ sub.status = "accepted" <=> as = "approved"
        /\ sub.status = "rejected" <=> as = "rejected"
        /\ as = "withdrawn" => sub.status = "withdrawn"
        /\ sub.status = "withdrawn" => sub.files = {}
        /\ as = "pending" /\ ~sub.child => \A t \in Subs : OwnPending(t) => t = s
    BY <1>1, <1>2, <1>5
  <1>7. UNCHANGED <<form, lost, uploading>>
    BY <1>2
  <1>8. QED
    BY <1>1, <1>2, <1>3, <1>4, <1>6, <1>7, SubmissionMoves

LEMMA SubmitsKeeps ==
  ASSUME SubmissionsInv, NEW s \in Subs,
         \/ \E hidden \in SUBSET FilesOf(s) : Submits(s, hidden)
         \/ \E child \in BOOLEAN : Applies(s, child)
  PROVE  SubmissionsInv' /\ DraftSpared
  <1>1. SubmissionsTypeOK
    BY DEF SubmissionsInv
  <1>2. ASSUME NEW hidden \in SUBSET FilesOf(s), Submits(s, hidden)
        PROVE  SubmissionsInv' /\ DraftSpared
    <2>1. PICK row \in Submission : row = subs[s] /\ FilesOf(s) = row.files
      BY <1>2, RowOf DEF Submits, Is
    <2>2. Submitted(s, row, hidden) /\ (row.child \/ MayApply)
      BY <1>2, <2>1 DEF Submits
    <2>3. QED
      BY <2>1, <2>2, MayApplyAlone, SubmittedKeeps
  <1>3. ASSUME NEW child \in BOOLEAN, Applies(s, child)
        PROVE  SubmissionsInv' /\ DraftSpared
    <2>1. Begun(child) \in Submission /\ Begun(child).files = {} /\ Begun(child).child = child
      BY <1>1, <1>3, PublishedTyped DEF Applies, Begun, Submission
    <2>2. FilesOf(s) = {}
      BY <1>3 DEF Applies, FilesOf
    <2>3. child \/ MayApply
      BY <1>3 DEF Applies, MayBegin
    <2>4. PICK row \in Submission : row = Begun(child)
      BY <2>1
    <2>5. Submitted(s, row, {}) /\ {} \in SUBSET row.files /\ row.files = FilesOf(s) /\ row.child = child
      BY <1>3, <2>1, <2>2, <2>4 DEF Applies
    <2>6. QED
      BY <2>3, <2>5, MayApplyAlone, SubmittedKeeps
  <1>4. QED
    BY <1>2, <1>3

LEMMA DecidedKeeps ==
  ASSUME SubmissionsInv, NEW s \in Subs,
         Withdraws(s) \/ Rejects(s) \/ \E photo \in SUBSET FilesOf(s) : Accepts(s, photo)
  PROVE  SubmissionsInv' /\ DraftSpared
  <1>1. SubmissionsTypeOK /\ FiledRight(s) /\ (Is(s, "draft") => filed[s] = "none")
    BY FiledTyped
  <1>2. Is(s, "draft") \/ Is(s, "submitted")
    BY DEF Withdraws, Rejects, Accepts, Decidable, Is
  <1>3. PICK row \in Submission : row = subs[s] /\ FilesOf(s) = row.files
    BY <1>2, RowOf DEF Is
  <1>4. swept' \subseteq Subs /\ UNCHANGED <<form, lost, uploading>>
    BY <1>1 DEF Withdraws, Rejects, Accepts, SubmissionsTypeOK
  <1>5. ASSUME NEW sub \in Submission, Put(s, sub), sub.files \subseteq row.files,
               stored' = stored \ (row.files \ sub.files),
               NEW as \in {"none", "approved", "rejected", "withdrawn"},
               filed' = [filed EXCEPT ![s] = as] \/ (UNCHANGED filed /\ as = filed[s]),
               \/ sub.status = "accepted" /\ as = "approved"
               \/ sub.status = "rejected" /\ as = "rejected"
               \/ sub.status = "withdrawn" /\ sub.files = {} /\ as \in {"none", "withdrawn"}
        PROVE  SubmissionsInv' /\ DraftSpared
    <2>1. stored' = stored \ (FilesOf(s) \ sub.files) /\ sub.files \subseteq FilesOf(s)
      BY <1>3, <1>5
    <2>2. as \in {"none", "pending", "approved", "rejected", "withdrawn"} /\ as # "pending"
      BY <1>5
    <2>3. /\ sub.status = "submitted" <=> as = "pending"
          /\ sub.status = "accepted" <=> as = "approved"
          /\ sub.status = "rejected" <=> as = "rejected"
          /\ as = "withdrawn" => sub.status = "withdrawn"
          /\ sub.status = "withdrawn" => sub.files = {}
          /\ as = "pending" /\ ~sub.child => \A t \in Subs : OwnPending(t) => t = s
      BY <1>5
    <2>4. QED
      BY <1>4, <1>5, <2>1, <2>2, <2>3, SubmissionMoves
  <1>6. CASE Withdraws(s)
    <2> DEFINE sub == [[row EXCEPT !.old = FALSE] EXCEPT !.status = "withdrawn", !.files = {}]
    <2>1. sub \in Submission /\ sub.files = {} /\ sub.status = "withdrawn"
      BY DEF Submission
    <2>2. Put(s, sub) /\ stored' = stored \ row.files /\ filed' = Closed(s)
      BY <1>3, <1>6 DEF Withdraws, Touch
    <2>3. stored' = stored \ (row.files \ sub.files) /\ sub.files \subseteq row.files
      BY <2>1, <2>2
    <2> HIDE DEF sub
    <2>4. CASE filed[s] = "pending"
      BY <1>5, <2>1, <2>2, <2>3, <2>4 DEF Closed
    <2>5. CASE filed[s] # "pending"
      <3>1. filed[s] = "none" /\ UNCHANGED filed
        BY <1>1, <1>2, <2>2, <2>5 DEF Closed, FiledRight
      <3>2. QED
        BY <1>5, <2>1, <2>2, <2>3, <3>1
    <2>6. QED
      BY <2>4, <2>5
  <1>7. CASE Rejects(s)
    <2> DEFINE sub == [[row EXCEPT !.old = FALSE] EXCEPT !.status = "rejected"]
    <2>1. sub \in Submission /\ sub.files = row.files /\ sub.status = "rejected"
      BY DEF Submission
    <2>2. Put(s, sub) /\ stored' = stored /\ filed' = [filed EXCEPT ![s] = "rejected"]
      BY <1>3, <1>7 DEF Rejects, Touch
    <2>3. stored' = stored \ (row.files \ sub.files) /\ sub.files \subseteq row.files
      BY <2>1, <2>2
    <2> HIDE DEF sub
    <2>4. QED
      BY <1>5, <2>1, <2>2, <2>3
  <1>8. ASSUME NEW photo \in SUBSET FilesOf(s), Accepts(s, photo)
        PROVE  SubmissionsInv' /\ DraftSpared
    <2> DEFINE sub == [[row EXCEPT !.old = FALSE] EXCEPT !.status = "accepted", !.files = @ \ photo]
    <2>1. sub \in Submission /\ sub.files = row.files \ photo /\ sub.status = "accepted"
      BY DEF Submission
    <2>2. Put(s, sub) /\ stored' = stored \ photo /\ filed' = [filed EXCEPT ![s] = "approved"]
      BY <1>3, <1>8 DEF Accepts, Touch
    <2>3. stored' = stored \ (row.files \ sub.files) /\ sub.files \subseteq row.files
      BY <1>3, <2>1, <2>2
    <2> HIDE DEF sub
    <2>4. QED
      BY <1>5, <2>1, <2>2, <2>3
  <1>9. QED
    BY <1>6, <1>7, <1>8


\* Steps of the form, of the lists and of lost files write no submission.
LEMMA NoSubmissionMoves ==
  ASSUME SubmissionsInv, UNCHANGED <<subs, filed, uploading>>, swept' \subseteq Subs,
         drafted' \in BOOLEAN, versions' \in 0..MaxVersions, published' \in 0..versions',
         \/ UNCHANGED <<stored, lost>>
         \/ stored' = stored \ lost /\ lost' = {}
  PROVE  SubmissionsInv' /\ DraftSpared
  <1>1. SubmissionsTypeOK'
    BY DEF SubmissionsInv, SubmissionsTypeOK
  <1>2. (\A s \in Subs : FiledRight(s)') /\ WithdrawnBare' /\ OneOwnPending'
    BY DEF SubmissionsInv, FiledRight, Is, WithdrawnBare, OneOwnPending, OwnPending, FilesOf
  <1>3. FilesApart'
    <2>1. Bringing' = Bringing /\ \A s \in Subs : FilesOf(s)' = FilesOf(s)
      BY DEF Bringing, FilesOf
    <2>2. stored' \ lost' = stored \ lost
      OBVIOUS
    <2>3. QED
      BY <2>1, <2>2 DEF SubmissionsInv, FilesApart
  <1>4. QED
    BY <1>1, <1>2, <1>3 DEF SubmissionsInv, DraftSpared

LEMMA FormSteps ==
  ASSUME SubmissionsInv,
         SavesForm \/ Publishes \/ ArchivesForm \/ SeedsForm \/ ListsStale \/ SweepsOrphans
           \/ UNCHANGED submissionsVars
  PROVE  SubmissionsInv' /\ DraftSpared
  <1>1. SubmissionsTypeOK
    BY DEF SubmissionsInv
  <1>2. drafted \in BOOLEAN /\ MaxVersions \in Nat /\ versions \in 0..MaxVersions /\ published \in 0..versions
    BY <1>1, SubmissionsAssumption DEF SubmissionsTypeOK
  <1>3. /\ drafted' \in BOOLEAN /\ versions' \in 0..MaxVersions /\ published' \in 0..versions'
        /\ UNCHANGED <<subs, filed, uploading>>
    <2>1. CASE SavesForm
      BY <1>2, <2>1 DEF SavesForm
    <2>2. CASE Publishes
      <3>1. /\ drafted' = FALSE /\ versions' = versions + 1 /\ published' = versions + 1 /\ versions < MaxVersions
            /\ UNCHANGED <<subs, filed, uploading>>
        BY <2>2 DEF Publishes
      <3>2. versions + 1 \in 0..MaxVersions /\ versions + 1 \in 0..(versions + 1)
        BY <1>2, <3>1
      <3>3. versions' \in 0..MaxVersions
        BY <3>1, <3>2
      <3>4. published' \in 0..versions'
        BY <3>1, <3>2
      <3>5. QED
        BY <3>1, <3>3, <3>4
    <2>3. CASE ArchivesForm
      <3>1. drafted' = FALSE /\ published' = 0 /\ UNCHANGED <<versions, subs, filed, uploading>>
        BY <2>3 DEF ArchivesForm
      <3>2. 0 \in 0..versions
        BY <1>2
      <3>3. versions' \in 0..MaxVersions /\ published' \in 0..versions'
        BY <1>2, <3>1, <3>2
      <3>4. QED
        BY <3>1, <3>3
    <2>4. CASE SeedsForm
      BY <1>2, <2>4 DEF SeedsForm
    <2>5. CASE ListsStale \/ SweepsOrphans \/ UNCHANGED submissionsVars
      BY <1>2, <2>5 DEF ListsStale, SweepsOrphans, submissionsVars, form
    <2>6. QED
      BY <2>1, <2>2, <2>3, <2>4, <2>5
  <1>4. swept' \subseteq Subs /\ (UNCHANGED <<stored, lost>> \/ (stored' = stored \ lost /\ lost' = {}))
    BY <1>1 DEF SavesForm, Publishes, ArchivesForm, SeedsForm, ListsStale, SweepsOrphans, SubmissionsTypeOK,
                submissionsVars, form, In
  <1>5. QED
    BY <1>3, <1>4, NoSubmissionMoves

\* A file is brought: it is stored, joins its draft, or is given up.
LEMMA UploadSteps ==
  ASSUME SubmissionsInv, NEW u \in Uploads,
         (\E s \in Subs : Stores(u, s)) \/ Attaches(u) \/ UploadFails(u)
  PROVE  SubmissionsInv' /\ DraftSpared
  <1>1. SubmissionsTypeOK /\ FilesApart
    BY DEF SubmissionsInv
  <1>2. UNCHANGED <<form, filed, swept>>
    BY DEF Stores, Attaches, UploadFails
  <1>3. drafted' \in BOOLEAN /\ versions' \in 0..MaxVersions /\ published' \in 0..versions' /\ swept' \subseteq Subs
    BY <1>1, <1>2 DEF SubmissionsTypeOK, form
  <1>4. ASSUME UNCHANGED subs, stored' \subseteq Uploads, lost' \subseteq stored',
               uploading' \in [Uploads -> [to: Subs] \cup {NoUpload}],
               \A s \in Subs : FilesOf(s) \subseteq stored' \ (lost' \cup Bringing'),
               Bringing' \subseteq stored' \ lost',
               stored' \ (lost' \cup Bringing') \subseteq stored \ (lost \cup Bringing)
        PROVE  SubmissionsInv' /\ DraftSpared
    <2>1. SubmissionsTypeOK'
      BY <1>1, <1>2, <1>3, <1>4 DEF SubmissionsTypeOK
    <2>2. (\A s \in Subs : FiledRight(s)') /\ WithdrawnBare' /\ OneOwnPending'
      BY <1>2, <1>4 DEF SubmissionsInv, FiledRight, Is, WithdrawnBare, OneOwnPending, OwnPending, FilesOf
    <2>3. \A s \in Subs : FilesOf(s)' = FilesOf(s)
      BY <1>4 DEF FilesOf
    <2>4. FilesApart'
      BY <1>1, <1>4, <2>3 DEF FilesApart
    <2>5. QED
      BY <1>4, <2>1, <2>2, <2>4 DEF SubmissionsInv, DraftSpared
  <1>5. ASSUME NEW s \in Subs, Stores(u, s)
        PROVE  SubmissionsInv' /\ DraftSpared
    <2>1. /\ uploading' = [uploading EXCEPT ![u] = [to |-> s]] /\ stored' = stored \cup {u}
          /\ u \notin stored /\ UNCHANGED <<subs, lost>>
      BY <1>5 DEF Stores
    <2>2. [to |-> s] # NoUpload
      BY SubmissionsAssumption DEF NoUpload
    <2>3. /\ uploading' \in [Uploads -> [to: Subs] \cup {NoUpload}] /\ Bringing' = Bringing \cup {u}
      BY <1>1, <2>1, <2>2 DEF SubmissionsTypeOK, Bringing
    <2>4. u \notin Bringing /\ u \notin lost /\ \A t \in Subs : u \notin FilesOf(t)
      BY <1>1, <2>1 DEF FilesApart, SubmissionsTypeOK
    <2>5. \A t \in Subs : FilesOf(t) \subseteq stored' \ (lost' \cup Bringing')
      BY <1>1, <2>1, <2>3, <2>4 DEF FilesApart
    <2>6. Bringing' \subseteq stored' \ lost' /\ stored' \subseteq Uploads /\ lost' \subseteq stored'
      BY <1>1, <2>1, <2>3, <2>4 DEF FilesApart, SubmissionsTypeOK
    <2>7. stored' \ (lost' \cup Bringing') \subseteq stored \ (lost \cup Bringing)
      BY <2>1, <2>3
    <2>8. QED
      BY <1>4, <2>1, <2>3, <2>5, <2>6, <2>7
  <1>6. CASE UploadFails(u)
    <2>1. /\ u \in Bringing /\ uploading' = [uploading EXCEPT ![u] = NoUpload] /\ UNCHANGED subs
          /\ \/ stored' = stored \ {u} /\ UNCHANGED lost
             \/ lost' = lost \cup {u} /\ UNCHANGED stored
      BY <1>6 DEF UploadFails, Bringing
    <2>2. uploading' \in [Uploads -> [to: Subs] \cup {NoUpload}] /\ Bringing' = Bringing \ {u}
      BY <1>1, <2>1 DEF SubmissionsTypeOK, Bringing
    <2>3. u \in stored /\ u \notin lost /\ \A s \in Subs : u \notin FilesOf(s)
      BY <1>1, <2>1 DEF FilesApart
    <2>4. QED
      BY <1>1, <1>4, <2>1, <2>2, <2>3 DEF FilesApart, SubmissionsTypeOK
  <1>7. CASE Attaches(u)
    <2>1. PICK s \in Subs : s = uploading[u].to
      BY <1>1, <1>7 DEF Attaches, SubmissionsTypeOK, NoUpload
    <2>2. u \in Bringing /\ Is(s, "draft")
      BY <1>7, <2>1 DEF Attaches, AcceptsUpload, Bringing
    <2>3. PICK row \in Submission : row = subs[s] /\ FilesOf(s) = row.files /\ row.status = "draft"
      BY <2>2, RowOf DEF Is
    <2>4. PICK replaced \in SUBSET row.files :
            /\ Put(s, [[row EXCEPT !.old = FALSE] EXCEPT !.files = (@ \ replaced) \cup {u}])
            /\ stored' = stored \ replaced
      BY <1>7, <2>1, <2>3 DEF Attaches, Touch
    <2> DEFINE sub == [[row EXCEPT !.old = FALSE] EXCEPT !.files = (@ \ replaced) \cup {u}]
    <2>5. sub \in Submission /\ sub.files = (row.files \ replaced) \cup {u} /\ sub.status = "draft"
      BY <2>3 DEF Submission
    <2> HIDE DEF sub
    <2>6. subs' = [subs EXCEPT ![s] = sub] /\ sub # NoSubmission
      BY <2>4, <2>5, SubmissionRows DEF Put, sub
    <2>7. subs'[s] = sub /\ \A t \in Subs \ {s} : subs'[t] = subs[t]
      BY <1>1, <2>6 DEF SubmissionsTypeOK
    <2>8. FilesOf(s)' = (FilesOf(s) \ replaced) \cup {u} /\ \A t \in Subs \ {s} : FilesOf(t)' = FilesOf(t)
      BY <2>3, <2>5, <2>6, <2>7 DEF FilesOf
    <2>9. uploading' = [uploading EXCEPT ![u] = NoUpload] /\ UNCHANGED <<form, filed, lost, swept>>
      BY <1>7 DEF Attaches
    <2>10. uploading' \in [Uploads -> [to: Subs] \cup {NoUpload}] /\ Bringing' = Bringing \ {u}
      BY <1>1, <2>9 DEF SubmissionsTypeOK, Bringing
    <2>11. u \in stored \ lost /\ \A t \in Subs : u \notin FilesOf(t)
      BY <1>1, <2>2 DEF FilesApart
    <2>12. replaced \subseteq FilesOf(s)
      BY <2>3
    <2>13. FilesApart'
      <3>1. ASSUME NEW t \in Subs
            PROVE  FilesOf(t)' \subseteq stored' \ (lost' \cup Bringing')
        <4>1. CASE t = s
          BY <1>1, <2>4, <2>8, <2>9, <2>10, <2>11, <2>12, <4>1 DEF FilesApart
        <4>2. CASE t # s
          <5>1. FilesOf(t) \cap FilesOf(s) = {} /\ FilesOf(t)' = FilesOf(t)
            BY <1>1, <2>8, <4>2 DEF FilesApart
          <5>2. QED
            BY <1>1, <2>4, <2>9, <2>10, <2>12, <5>1 DEF FilesApart
        <4>3. QED
          BY <4>1, <4>2
      <3>2. ASSUME NEW t \in Subs, NEW r \in Subs, t # r
            PROVE  FilesOf(t)' \cap FilesOf(r)' = {}
        <4>1. FilesOf(t) \cap FilesOf(r) = {}
          BY <1>1, <3>2 DEF FilesApart
        <4>2. /\ t # s => FilesOf(t)' = FilesOf(t)
              /\ r # s => FilesOf(r)' = FilesOf(r)
          BY <2>8
        <4>3. QED
          BY <2>8, <2>11, <3>2, <4>1, <4>2
      <3>3. Bringing' \subseteq stored' \ lost'
        BY <1>1, <2>4, <2>9, <2>10, <2>12 DEF FilesApart
      <3>4. ASSUME NEW f \in stored' \ (lost' \cup Bringing')
            PROVE  \E t \in Subs : f \in FilesOf(t)'
        <4>1. CASE f = u
          BY <2>8, <4>1
        <4>2. CASE f # u
          <5>1. f \in stored \ (lost \cup Bringing) /\ f \notin replaced
            BY <2>4, <2>9, <2>10, <3>4, <4>2
          <5>2. PICK t \in Subs : f \in FilesOf(t)
            BY <1>1, <5>1 DEF FilesApart
          <5>3. QED
            BY <2>8, <5>1, <5>2
        <4>3. QED
          BY <4>1, <4>2
      <3>5. QED
        BY <3>1, <3>2, <3>3, <3>4 DEF FilesApart
    <2>14. SubmissionsTypeOK'
      <3>1. subs' \in [Subs -> Submission \cup {NoSubmission}]
        BY <1>1, <2>5, <2>6 DEF SubmissionsTypeOK
      <3>2. stored' \subseteq Uploads /\ lost' \subseteq stored'
        BY <1>1, <2>4, <2>9, <2>12 DEF SubmissionsTypeOK, FilesApart
      <3>3. QED
        BY <1>1, <1>2, <1>3, <2>10, <3>1, <3>2 DEF SubmissionsTypeOK
    <2>15. \A t \in Subs : FiledRight(t)'
      <3>1. filed' = filed /\ \A t \in Subs : FiledRight(t)
        BY <2>9 DEF SubmissionsInv
      <3>2. ASSUME NEW t \in Subs
            PROVE  subs'[t].status = subs[t].status
        BY <2>3, <2>5, <2>7
      <3>3. QED
        BY <3>1, <3>2 DEF FiledRight, Is
    <2>16. WithdrawnBare'
      BY <2>5, <2>7, <2>8 DEF SubmissionsInv, WithdrawnBare, Is
    <2>17. OneOwnPending'
      <3>1. filed[s] = "none"
        BY <2>2, FiledTyped
      <3>2. \A t \in Subs : OwnPending(t)' => OwnPending(t)
        BY <2>7, <2>9, <3>1 DEF OwnPending
      <3>3. QED
        BY <3>2 DEF SubmissionsInv, OneOwnPending
    <2>18. DraftSpared
      BY <2>6, <2>7 DEF DraftSpared
    <2>19. QED
      BY <2>13, <2>14, <2>15, <2>16, <2>17, <2>18 DEF SubmissionsInv
  <1>8. QED
    BY <1>5, <1>6, <1>7

LEMMA SubmissionsStep ==
  ASSUME SubmissionsInv, [SubmissionsNext]_submissionsVars
  PROVE  SubmissionsInv' /\ DraftSpared
  BY BeginsKeeps, SubmitsKeeps, DraftSteps, DiscardsKeeps, DecidedKeeps, UploadSteps, FormSteps DEF SubmissionsNext

LEMMA SubmissionsStarts ==
  ASSUME SubmissionsInit
  PROVE  SubmissionsInv
  <1>1. \A s \in Subs : subs[s] = NoSubmission /\ Is(s, "none") /\ FilesOf(s) = {} /\ filed[s] = "none"
    BY DEF SubmissionsInit, NoSubmission, Is, FilesOf
  <1>2. Bringing = {}
    BY DEF SubmissionsInit, Bringing
  <1>3. SubmissionsTypeOK
    <2>1. MaxVersions \in Nat \ {0}
      BY SubmissionsAssumption
    <2>2. versions \in 0..MaxVersions /\ published \in 0..versions
      BY <2>1 DEF SubmissionsInit
    <2>3. QED
      BY <2>2 DEF SubmissionsInit, SubmissionsTypeOK
  <1>4. (\A s \in Subs : FiledRight(s)) /\ WithdrawnBare /\ OneOwnPending
    BY <1>1 DEF FiledRight, Is, WithdrawnBare, OneOwnPending, OwnPending
  <1>5. FilesApart
    BY <1>1, <1>2 DEF FilesApart, SubmissionsInit
  <1>6. QED
    BY <1>3, <1>4, <1>5 DEF SubmissionsInv

LEMMA SubmissionsInvShows ==
  ASSUME SubmissionsInv
  PROVE  FiledTogether /\ FilesAreStored /\ OneOwnApplication
  <1>1. FiledTogether
    BY DEF SubmissionsInv, SubmissionsTypeOK, FiledTogether, FiledRight, Is
  <1>2. FilesAreStored
    <2>1. stored \ (lost \cup Bringing) = UNION {FilesOf(s) : s \in Subs}
      BY DEF SubmissionsInv, FilesApart
    <2>2. ASSUME NEW s \in In("withdrawn")
          PROVE  subs[s].files = {}
      <3>1. s \in Subs /\ Is(s, "withdrawn") /\ subs[s] # NoSubmission
        BY <2>2, SubmissionRows DEF In, Is
      <3>2. QED
        BY <3>1 DEF SubmissionsInv, WithdrawnBare, FilesOf
    <2>3. QED
      BY <2>1, <2>2 DEF FilesAreStored, Bringing
  <1>3. OneOwnApplication
    <2> DEFINE S == {s \in Subs : subs[s] # NoSubmission /\ ~subs[s].child /\ filed[s] = "pending"}
    <2>1. S = {} \/ \E s \in Subs : S = {s}
      BY DEF SubmissionsInv, OneOwnPending, OwnPending
    <2>2. Cardinality({}) = 0 /\ \A s \in Subs : Cardinality({s}) = 1
      BY FS_EmptySet, FS_Singleton
    <2> HIDE DEF S
    <2>3. Cardinality(S) <= 1
      BY <2>1, <2>2
    <2>4. QED
      BY <2>3 DEF OneOwnApplication, S
  <1>4. QED
    BY <1>1, <1>2, <1>3

\* Board and applicant see the same of an application, its files are those it names,
\* and no sweep takes a draft that was touched: for any number of submissions,
\* uploads and versions of the form (routes/form-submissions.ts).
THEOREM SubmissionsAreSound == SubmissionsSpec => SubmissionsPromise
  <1>1. SubmissionsInit => SubmissionsInv
    BY SubmissionsStarts
  <1>2. SubmissionsInv /\ [SubmissionsNext]_submissionsVars => SubmissionsInv'
    BY SubmissionsStep
  <1>3. SubmissionsInv /\ [SubmissionsNext]_submissionsVars => [DraftSpared]_submissionsVars
    BY SubmissionsStep
  <1>4. SubmissionsInv => SubmissionsTypeOK /\ FiledTogether /\ FilesAreStored /\ OneOwnApplication
    BY SubmissionsInvShows DEF SubmissionsInv
  <1>5. QED
    BY <1>1, <1>2, <1>3, <1>4, PTL DEF SubmissionsSpec, SubmissionsPromise, SweepSparesTouched, DraftSpared

-----------------------------------------------------------------------------
(***************************************************************************)
(* Admission.  A call decides on an account it read, created or merged     *)
(* into, and others may remove that account before it is through.  The     *)
(* invariant therefore speaks of the records: whichever names an account   *)
(* names one that exists, an invited record is never taken back once it    *)
(* was linked (its history shows the link), and a child whose application  *)
(* waits has no guardian yet.                                              *)
(***************************************************************************)
Tables == [InvitedRows \cup Ids -> Record \cup {NoRecord}]

\* A table of records that names no account outside of a set.
Sound(table, accounts) ==
  /\ table \in Tables
  /\ \A r \in InvitedRows : table[r] \in Record /\ (table[r].account # 0 => table[r].touched)
  /\ \A r \in InvitedRows \cup Ids :
       table[r] # NoRecord /\ table[r].account # 0 => table[r].account \in accounts

\* No record with a history has gone, none that stays has changed into nothing.
HistoryKept(table) ==
  \A r \in InvitedRows \cup Ids : records[r] # NoRecord /\ table[r] = NoRecord => ~records[r].touched

CallRight(call) ==
  /\ call.op = "accept" => call.on \in InvitedRows
  /\ call.op # "none" /\ call.step \in {"added", "ready", "merging", "kept"} => call.account # 0

AdmissionInv ==
  /\ AdmissionTypeOK /\ Sound(records, accountsOf)
  /\ \A k \in ChildApplications : applications[k] = "pending" => guardianOf[k] = 0
  /\ \A c \in Deciders : CallRight(deciding[c])

LEMMA RecordsAreRows == NoRecord \notin Record /\ Idle \notin Deciding
  BY DEF NoRecord, Record, Idle, Deciding

LEMMA AdmissionNumbers ==
  /\ MaxAccounts \in Nat /\ MaxMoves \in Nat /\ 0 \notin InvitedRows
  /\ \A m \in Ids : m \in 0..MaxAccounts /\ m # 0 /\ m \notin InvitedRows
  BY AdmissionAssumption DEF Ids

LEMMA RecordChanges ==
  ASSUME NEW row \in Record, NEW m \in 0..MaxAccounts, NEW b \in BOOLEAN,
         NEW s \in {"interessent", "aktiv", "ausgetreten", "ausgeschlossen"}
  PROVE  /\ [row EXCEPT !.account = m] \in Record
         /\ [row EXCEPT !.status = s] \in Record
         /\ [row EXCEPT !.status = s, !.touched = TRUE] \in Record
         /\ [row EXCEPT !.account = m, !.status = s, !.touched = TRUE] \in Record
         /\ [row EXCEPT !.unlinked = TRUE, !.touched = TRUE] \in Record
         /\ [row EXCEPT !.account = m, !.known = TRUE, !.unlinked = FALSE, !.touched = TRUE] \in Record
         /\ [account |-> m, known |-> TRUE, unlinked |-> FALSE, touched |-> FALSE, status |-> "aktiv"] \in Record
  BY DEF Record

\* One record is written: it keeps its history, and names an account that is there.
LEMMA RowWritten ==
  ASSUME NEW accounts \in SUBSET Ids, Sound(records, accounts), NEW r \in InvitedRows \cup Ids, NEW row \in Record,
         row.account = 0 \/ row.account \in accounts,
         r \in InvitedRows => row.touched
  PROVE  Sound([records EXCEPT ![r] = row], accounts) /\ HistoryKept([records EXCEPT ![r] = row])
  <1>1. PICK new \in Tables : new = [records EXCEPT ![r] = row]
    BY DEF Sound, Tables
  <1>2. new[r] = row /\ \A q \in InvitedRows \cup Ids : q # r => new[q] = records[q]
    BY <1>1 DEF Sound, Tables
  <1>3. Sound(new, accounts)
    BY <1>2, RecordsAreRows DEF Sound
  <1>4. HistoryKept(new)
    BY <1>2, RecordsAreRows DEF HistoryKept
  <1>5. QED
    BY <1>1, <1>3, <1>4

\* Ensuring a record for an account that has one changes nothing; otherwise one is
\* taken up again, or created.
LEMMA EnsuredIsSound ==
  ASSUME AdmissionInv, NEW m \in Ids, NEW e \in Ensured(m)
  PROVE  /\ Sound(e, accountsOf) /\ HistoryKept(e) /\ m \in accountsOf
         /\ \E r \in InvitedRows \cup Ids : e[r] # NoRecord /\ e[r].account = m
  <1>1. /\ records \in Tables /\ accountsOf \in SUBSET Ids /\ Sound(records, accountsOf)
        /\ m \in 0..MaxAccounts /\ m # 0 /\ m \notin InvitedRows /\ DOMAIN records = InvitedRows \cup Ids
    BY AdmissionNumbers DEF AdmissionInv, AdmissionTypeOK, Tables
  <1>2. CASE RecordsOf(m) # {}
    <2>1. e = records
      BY <1>2 DEF Ensured
    <2>2. PICK r \in InvitedRows \cup Ids : records[r] # NoRecord /\ records[r].account = m
      BY <1>1, <1>2 DEF RecordsOf
    <2>3. m \in accountsOf
      BY <1>1, <2>2 DEF Sound
    <2>4. HistoryKept(e)
      BY <2>1 DEF HistoryKept
    <2>5. QED
      BY <1>1, <2>1, <2>2, <2>3, <2>4
  <1>3. CASE RecordsOf(m) = {}
    <2>1. m \in accountsOf
      BY <1>3 DEF Ensured
    <2>2. CASE Detached # {}
      <3>1. PICK r \in Detached :
              e = [records EXCEPT ![r].account = m, ![r].status = "aktiv", ![r].touched = TRUE]
        BY <1>3, <2>1, <2>2 DEF Ensured
      <3>2. r \in InvitedRows \cup Ids /\ records[r] \in Record
        BY <1>1, <3>1 DEF Detached, Tables
      <3>3. PICK row : row = [records[r] EXCEPT !.account = m, !.status = "aktiv", !.touched = TRUE]
        OBVIOUS
      <3>4. row \in Record /\ row.account = m /\ row.touched
        <4>1. "aktiv" \in {"interessent", "aktiv", "ausgetreten", "ausgeschlossen"} /\ TRUE \in BOOLEAN
          OBVIOUS
        <4>2. row \in Record
          BY <1>1, <3>2, <3>3, <4>1, RecordChanges
        <4>3. row.account = m /\ row.touched
          BY <3>2, <3>3 DEF Record
        <4>4. QED
          BY <4>2, <4>3
      <3>5. e = [records EXCEPT ![r] = row]
        BY <1>1, <3>1, <3>2, <3>3 DEF Tables
      <3>6. Sound(e, accountsOf) /\ HistoryKept(e)
        BY <1>1, <2>1, <3>2, <3>4, <3>5, RowWritten
      <3>7. e[r] = row
        BY <1>1, <3>2, <3>5
      <3>8. QED
        BY <2>1, <3>2, <3>4, <3>6, <3>7, RecordsAreRows
    <2>3. CASE Detached = {}
      <3>1. PICK row : row = [account |-> m, known |-> TRUE, unlinked |-> FALSE, touched |-> FALSE, status |-> "aktiv"]
        OBVIOUS
      <3>2. row \in Record /\ row.account = m
        BY <1>1, <3>1 DEF Record
      <3>3. e = [records EXCEPT ![m] = row]
        BY <1>3, <2>1, <2>3, <3>1 DEF Ensured
      <3>4. m \in InvitedRows \cup Ids
        OBVIOUS
      <3>5. Sound(e, accountsOf) /\ HistoryKept(e)
        BY <1>1, <2>1, <3>2, <3>3, <3>4, RowWritten
      <3>6. e[m] = row
        BY <1>1, <3>3, <3>4
      <3>7. QED
        BY <2>1, <3>2, <3>4, <3>5, <3>6, RecordsAreRows
    <2>4. QED
      BY <2>2, <2>3
  <1>4. QED
    BY <1>2, <1>3

\* ...and giving it a status keeps all of that.
LEMMA FixedIsSound ==
  ASSUME AdmissionInv, NEW m \in Ids, NEW s \in {"interessent", "aktiv"}, NEW f \in Fixed(m, s)
  PROVE  /\ Sound(f, accountsOf) /\ HistoryKept(f) /\ m \in accountsOf
         /\ \E r \in InvitedRows \cup Ids : f[r] # NoRecord /\ f[r].account = m /\ f[r].status = s
  <1>1. PICK e \in Ensured(m) :
          f = [r \in DOMAIN e |-> IF e[r] # NoRecord /\ e[r].account = m
                                  THEN [e[r] EXCEPT !.status = s] ELSE e[r]]
    BY DEF Fixed
  <1>2. /\ Sound(e, accountsOf) /\ HistoryKept(e) /\ m \in accountsOf
        /\ \E r \in InvitedRows \cup Ids : e[r] # NoRecord /\ e[r].account = m
    BY <1>1, EnsuredIsSound
  <1>3. DOMAIN e = InvitedRows \cup Ids /\ \A r \in InvitedRows \cup Ids : e[r] # NoRecord => e[r] \in Record
    BY <1>2 DEF Sound, Tables
  <1>4. \A r \in InvitedRows \cup Ids :
          IF e[r] # NoRecord /\ e[r].account = m
          THEN f[r] \in Record /\ f[r].account = m /\ f[r].touched = e[r].touched /\ f[r].status = s
          ELSE f[r] = e[r]
    <2> TAKE r \in InvitedRows \cup Ids
    <2>1. CASE e[r] # NoRecord /\ e[r].account = m
      <3>1. PICK row : row = [e[r] EXCEPT !.status = s]
        OBVIOUS
      <3>2. row \in Record /\ row.account = m /\ row.touched = e[r].touched /\ row.status = s
        BY <1>3, <2>1, <3>1 DEF Record
      <3>3. f[r] = row
        BY <1>1, <1>3, <2>1, <3>1
      <3>4. QED
        BY <2>1, <3>2, <3>3
    <2>2. CASE ~(e[r] # NoRecord /\ e[r].account = m)
      <3>1. f[r] = e[r]
        BY <1>1, <1>3, <2>2
      <3>2. QED
        BY <2>2, <3>1
    <2>3. QED
      BY <2>1, <2>2
  <1>5. f \in Tables
    <2>1. \A r \in InvitedRows \cup Ids : f[r] \in Record \cup {NoRecord}
      BY <1>3, <1>4
    <2>2. QED
      BY <1>1, <1>3, <2>1 DEF Tables
  <1>6. Sound(f, accountsOf)
    BY <1>2, <1>4, <1>5, RecordsAreRows DEF Sound
  <1>7. HistoryKept(f)
    BY <1>2, <1>4, RecordsAreRows DEF HistoryKept
  <1>8. QED
    BY <1>2, <1>4, <1>6, <1>7, RecordsAreRows

\* A membership that ends takes its account off the records.
LEMMA DetachIsSound ==
  ASSUME AdmissionInv, NEW m
  PROVE  Sound(Detach(records, m), accountsOf \ {m}) /\ HistoryKept(Detach(records, m))
  <1>1. Sound(records, accountsOf) /\ DOMAIN records = InvitedRows \cup Ids
        /\ 0 \in 0..MaxAccounts
    BY AdmissionNumbers DEF AdmissionInv, Sound, Tables
  <1>2. PICK f : f = Detach(records, m)
    OBVIOUS
  <1>3. \A r \in InvitedRows \cup Ids :
          IF records[r] # NoRecord /\ records[r].account = m
          THEN f[r] \in Record /\ f[r].account = 0
          ELSE f[r] = records[r]
    <2> TAKE r \in InvitedRows \cup Ids
    <2>1. CASE records[r] # NoRecord /\ records[r].account = m
      <3>1. records[r] \in Record
        BY <1>1, <2>1 DEF Sound, Tables
      <3>2. PICK row : row = [records[r] EXCEPT !.account = 0]
        OBVIOUS
      <3>3. row \in Record /\ row.account = 0
        BY <1>1, <3>1, <3>2 DEF Record
      <3>4. f[r] = row
        BY <1>1, <1>2, <2>1, <3>2 DEF Detach
      <3>5. QED
        BY <2>1, <3>3, <3>4
    <2>2. CASE ~(records[r] # NoRecord /\ records[r].account = m)
      <3>1. f[r] = records[r]
        BY <1>1, <1>2, <2>2 DEF Detach
      <3>2. QED
        BY <2>2, <3>1
    <2>3. QED
      BY <2>1, <2>2
  <1>4. f \in Tables
    <2>1. \A r \in InvitedRows \cup Ids : f[r] \in Record \cup {NoRecord}
      BY <1>1, <1>3 DEF Sound, Tables
    <2>2. f = [r \in InvitedRows \cup Ids |-> f[r]]
      BY <1>1, <1>2 DEF Detach
    <2>3. QED
      BY <2>1, <2>2 DEF Tables
  <1>5. Sound(f, accountsOf \ {m})
    BY <1>1, <1>3, <1>4, RecordsAreRows DEF Sound
  <1>6. HistoryKept(f)
    BY <1>1, <1>3, RecordsAreRows DEF HistoryKept
  <1>7. QED
    BY <1>2, <1>5, <1>6

\* What a step has to show for the invariant.
LEMMA AdmissionHolds ==
  ASSUME AdmissionInv, Sound(records', accountsOf'), accountsOf' \subseteq Ids,
         accountsOf' \subseteq 1..created', created' \in 0..MaxAccounts, guests' \subseteq Ids,
         invites' \subseteq InvitedRows,
         applications' \in [Applications -> {"pending", "approved", "rejected", "withdrawn"}],
         guardianOf' \in [ChildApplications -> {0} \cup accountsOf'],
         \A k \in ChildApplications : applications'[k] = "pending" => guardianOf'[k] = 0,
         deciding' \in [Deciders -> Deciding \cup {Idle}], \A c \in Deciders : CallRight(deciding'[c]),
         linkLock' \in Deciders \cup {Nobody}, parentLock' \in Deciders \cup {Nobody},
         moves' \in 0..MaxMoves
  PROVE  AdmissionInv'
  <1>1. AdmissionTypeOK'
    BY DEF AdmissionTypeOK, Sound, Tables
  <1>2. QED
    BY <1>1 DEF AdmissionInv, Sound, CallRight

AdmissionShows == ClaimSettled /\ GuardiansKept /\ HistoryLasts

\* A call moves to a step that is right for it; the others stay where they are.
LEMMA CallMoves ==
  ASSUME AdmissionInv, NEW c \in Deciders, NEW new \in Deciding \cup {Idle}, CallRight(new),
         deciding' = [deciding EXCEPT ![c] = new]
  PROVE  /\ deciding' \in [Deciders -> Deciding \cup {Idle}] /\ \A q \in Deciders : CallRight(deciding'[q])
         /\ deciding'[c] = new /\ \A q \in Deciders : q # c => deciding'[q] = deciding[q]
         /\ (\/ new # Idle \/ deciding[c].op # "accept"
             \/ deciding[c].step \notin {"claimed", "adding", "added", "failed"}) => ClaimSettled
  <1>1. deciding \in [Deciders -> Deciding \cup {Idle}]
    BY DEF AdmissionInv, AdmissionTypeOK
  <1>2. deciding'[c] = new /\ \A q \in Deciders : q # c => deciding'[q] = deciding[q]
    BY <1>1
  <1>3. deciding' \in [Deciders -> Deciding \cup {Idle}]
    BY <1>1
  <1>4. \A q \in Deciders : CallRight(deciding'[q])
    BY <1>2 DEF AdmissionInv
  <1>5. Idle.op = "none"
    BY DEF Idle
  <1>6. (\/ new # Idle \/ deciding[c].op # "accept"
         \/ deciding[c].step \notin {"claimed", "adding", "added", "failed"}) => ClaimSettled
    BY <1>2, <1>5 DEF ClaimSettled
  <1>7. QED
    BY <1>2, <1>3, <1>4, <1>6

LEMMA CallFields ==
  ASSUME AdmissionInv, NEW c \in Deciders, deciding[c].op # "none"
  PROVE  /\ deciding[c] \in Deciding /\ deciding[c].on \in InvitedRows \cup Applications
         /\ deciding[c].account \in 0..MaxAccounts /\ CallRight(deciding[c])
         /\ deciding[c].current \in BOOLEAN /\ deciding[c].record \in InvitedRows \cup (0..MaxAccounts)
         /\ deciding[c].op \in {"accept", "approve", "readmit", "child"}
  BY DEF AdmissionInv, AdmissionTypeOK, Idle, Deciding

\* The step alone, or the step and an account.
LEMMA CallGoes ==
  ASSUME AdmissionInv, NEW c \in Deciders, deciding[c].op # "none",
         NEW to \in {"queued", "unclaimed", "merging", "claimed", "adding", "added", "ready", "kept", "failed"},
         Goes(c, to), to \in {"added", "ready", "merging", "kept"} => deciding[c].account # 0
  PROVE  /\ deciding' \in [Deciders -> Deciding \cup {Idle}] /\ \A q \in Deciders : CallRight(deciding'[q])
         /\ deciding'[c] # Idle /\ \A q \in Deciders : q # c => deciding'[q] = deciding[q]
         /\ ClaimSettled
  <1>1. PICK new : new = [deciding[c] EXCEPT !.step = to]
    OBVIOUS
  <1>2. deciding[c] \in Deciding /\ CallRight(deciding[c])
    BY CallFields
  <1>3. /\ new \in Deciding /\ new.op = deciding[c].op /\ new.on = deciding[c].on /\ new.step = to
        /\ new.account = deciding[c].account
    BY <1>1, <1>2 DEF Deciding
  <1>4. new # Idle
    BY <1>3, RecordsAreRows
  <1>5. CallRight(new)
    BY <1>2, <1>3 DEF CallRight
  <1>6. deciding' = [deciding EXCEPT ![c] = new]
    BY <1>1 DEF Goes
  <1>7. QED
    BY <1>3, <1>4, <1>5, <1>6, CallMoves

LEMMA CallGoesWith ==
  ASSUME AdmissionInv, NEW c \in Deciders, deciding[c].op # "none",
         NEW to \in {"queued", "unclaimed", "merging", "claimed", "adding", "added", "ready", "kept", "failed"},
         NEW m \in Ids, deciding' = [deciding EXCEPT ![c].step = to, ![c].account = m]
  PROVE  /\ deciding' \in [Deciders -> Deciding \cup {Idle}] /\ \A q \in Deciders : CallRight(deciding'[q])
         /\ deciding'[c] # Idle /\ \A q \in Deciders : q # c => deciding'[q] = deciding[q]
         /\ ClaimSettled
  <1>1. PICK new : new = [deciding[c] EXCEPT !.step = to, !.account = m]
    OBVIOUS
  <1>2. deciding[c] \in Deciding /\ CallRight(deciding[c]) /\ m \in 0..MaxAccounts /\ m # 0
    BY CallFields, AdmissionNumbers
  <1>3. new \in Deciding /\ new.op = deciding[c].op /\ new.on = deciding[c].on /\ new.account = m
    BY <1>1, <1>2 DEF Deciding
  <1>4. new # Idle
    BY <1>3, RecordsAreRows
  <1>5. CallRight(new)
    BY <1>2, <1>3 DEF CallRight
  <1>6. deciding' = [deciding EXCEPT ![c] = new]
    <2>1. deciding \in [Deciders -> Deciding \cup {Idle}]
      BY DEF AdmissionInv, AdmissionTypeOK
    <2>2. QED
      BY <1>1, <2>1
  <1>7. QED
    BY <1>3, <1>4, <1>5, <1>6, CallMoves

LEMMA CallStops ==
  ASSUME AdmissionInv, NEW c \in Deciders, Stops(c)
  PROVE  /\ deciding' \in [Deciders -> Deciding \cup {Idle}] /\ \A q \in Deciders : CallRight(deciding'[q])
         /\ deciding'[c] = Idle /\ \A q \in Deciders : q # c => deciding'[q] = deciding[q]
         /\ (\/ deciding[c].op # "accept"
             \/ deciding[c].step \notin {"claimed", "adding", "added", "failed"}) => ClaimSettled
  <1>1. CallRight(Idle)
    BY DEF CallRight, Idle
  <1>2. QED
    BY <1>1, CallMoves DEF Stops

LEMMA CallStarts ==
  ASSUME AdmissionInv, NEW c \in Deciders, NEW op \in {"accept", "approve", "readmit", "child"},
         NEW on \in InvitedRows \cup Applications,
         NEW step \in {"queued", "adding", "ready", "kept"}, NEW m \in 0..MaxAccounts,
         NEW r \in InvitedRows \cup (0..MaxAccounts), NEW current \in BOOLEAN,
         Starts(c, op, on, step, m, r, current),
         op = "accept" => on \in InvitedRows, step \in {"ready", "kept"} => m # 0
  PROVE  /\ deciding' \in [Deciders -> Deciding \cup {Idle}] /\ \A q \in Deciders : CallRight(deciding'[q])
         /\ ClaimSettled /\ moves' \in 0..MaxMoves
  <1>1. PICK new : new = [op |-> op, on |-> on, step |-> step, account |-> m, current |-> current, record |-> r]
    OBVIOUS
  <1>2. new \in Deciding
    BY <1>1 DEF Deciding
  <1>3. new # Idle /\ CallRight(new)
    BY <1>1, <1>2, RecordsAreRows DEF CallRight
  <1>4. deciding' = [deciding EXCEPT ![c] = new]
    BY <1>1 DEF Starts
  <1>5. moves' \in 0..MaxMoves
    BY AdmissionNumbers DEF Starts, Moves, AdmissionInv, AdmissionTypeOK
  <1>6. QED
    BY <1>2, <1>3, <1>4, <1>5, CallMoves

\* A step that leaves accounts, records, applications and guardians alone.
LEMMA CallsOnly ==
  ASSUME AdmissionInv, UNCHANGED <<accountsOf, guests, created, records, applications, guardianOf>>,
         invites' \subseteq InvitedRows,
         deciding' \in [Deciders -> Deciding \cup {Idle}], \A q \in Deciders : CallRight(deciding'[q]),
         ClaimSettled, linkLock' \in Deciders \cup {Nobody}, parentLock' \in Deciders \cup {Nobody},
         moves' \in 0..MaxMoves
  PROVE  AdmissionInv' /\ AdmissionShows
  <1>1. AdmissionInv'
    <2>1. Sound(records', accountsOf')
      BY DEF AdmissionInv
    <2>2. /\ accountsOf' \subseteq Ids /\ accountsOf' \subseteq 1..created' /\ created' \in 0..MaxAccounts
          /\ guests' \subseteq Ids
          /\ applications' \in [Applications -> {"pending", "approved", "rejected", "withdrawn"}]
          /\ guardianOf' \in [ChildApplications -> {0} \cup accountsOf']
          /\ \A k \in ChildApplications : applications'[k] = "pending" => guardianOf'[k] = 0
      BY DEF AdmissionInv, AdmissionTypeOK
    <2>3. QED
      BY <2>1, <2>2, AdmissionHolds
  <1>2. QED
    BY <1>1 DEF AdmissionShows, GuardiansKept, HistoryLasts

\* A step that writes records and leaves the accounts and guardians alone; an
\* application it decides was waiting.
LEMMA RecordsOnly ==
  ASSUME AdmissionInv, UNCHANGED <<accountsOf, created, guardianOf>>,
         Sound(records', accountsOf), HistoryKept(records'), guests' \subseteq Ids,
         invites' \subseteq InvitedRows,
         applications' \in [Applications -> {"pending", "approved", "rejected", "withdrawn"}],
         \A k \in ChildApplications : applications'[k] = "pending" => applications[k] = "pending",
         deciding' \in [Deciders -> Deciding \cup {Idle}], \A q \in Deciders : CallRight(deciding'[q]),
         ClaimSettled, linkLock' \in Deciders \cup {Nobody}, parentLock' \in Deciders \cup {Nobody},
         moves' \in 0..MaxMoves
  PROVE  AdmissionInv' /\ AdmissionShows
  <1>1. AdmissionInv'
    <2>1. Sound(records', accountsOf')
      OBVIOUS
    <2>2. /\ accountsOf' \subseteq Ids /\ accountsOf' \subseteq 1..created' /\ created' \in 0..MaxAccounts
          /\ guardianOf' \in [ChildApplications -> {0} \cup accountsOf']
          /\ \A k \in ChildApplications : applications'[k] = "pending" => guardianOf'[k] = 0
      BY DEF AdmissionInv, AdmissionTypeOK
    <2>3. QED
      BY <2>1, <2>2, AdmissionHolds
  <1>2. HistoryLasts
    BY DEF HistoryLasts, HistoryKept, AdmissionInv, Sound, Tables
  <1>3. QED
    BY <1>1, <1>2 DEF AdmissionShows, GuardiansKept

\* A step that ends a membership.
LEMMA AccountEnds ==
  ASSUME AdmissionInv, NEW m, accountsOf' = accountsOf \ {m}, guardianOf' = Unguarded(m),
         Sound(records', accountsOf \ {m}), HistoryKept(records'),
         UNCHANGED <<guests, created, invites, applications>>,
         deciding' \in [Deciders -> Deciding \cup {Idle}], \A q \in Deciders : CallRight(deciding'[q]),
         ClaimSettled, linkLock' \in Deciders \cup {Nobody}, parentLock' \in Deciders \cup {Nobody},
         moves' \in 0..MaxMoves
  PROVE  AdmissionInv' /\ ClaimSettled /\ HistoryLasts
  <1>1. /\ accountsOf \subseteq Ids /\ guests \subseteq Ids /\ created \in 0..MaxAccounts
        /\ accountsOf \subseteq 1..created /\ invites \subseteq InvitedRows
        /\ applications \in [Applications -> {"pending", "approved", "rejected", "withdrawn"}]
        /\ guardianOf \in [ChildApplications -> {0} \cup accountsOf]
        /\ \A k \in ChildApplications : applications[k] = "pending" => guardianOf[k] = 0
    BY DEF AdmissionInv, AdmissionTypeOK
  <1>2. guardianOf' \in [ChildApplications -> {0} \cup accountsOf']
    BY <1>1 DEF Unguarded
  <1>3. \A k \in ChildApplications : applications'[k] = "pending" => guardianOf'[k] = 0
    BY <1>1 DEF Unguarded
  <1>4. Sound(records', accountsOf')
    OBVIOUS
  <1>5. AdmissionInv'
    <2>1. /\ accountsOf' \subseteq Ids /\ accountsOf' \subseteq 1..created' /\ created' \in 0..MaxAccounts
          /\ guests' \subseteq Ids /\ invites' \subseteq InvitedRows
          /\ applications' \in [Applications -> {"pending", "approved", "rejected", "withdrawn"}]
      BY <1>1
    <2>2. QED
      BY <1>2, <1>3, <1>4, <2>1, AdmissionHolds
  <1>6. HistoryLasts
    BY DEF HistoryLasts, HistoryKept, AdmissionInv, Sound, Tables
  <1>7. QED
    BY <1>5, <1>6

\* A step that makes a membership for the call.
LEMMA AccountMade ==
  ASSUME AdmissionInv, NEW c \in Deciders, NEW guest \in BOOLEAN, Inserts(c, guest), deciding[c].op # "none",
         UNCHANGED <<records, invites, applications, guardianOf, linkLock, parentLock, moves>>
  PROVE  AdmissionInv' /\ AdmissionShows
  <1>1. created \in 0..MaxAccounts /\ MaxAccounts \in Nat
    BY AdmissionNumbers DEF AdmissionInv, AdmissionTypeOK
  <1>2. created' = created + 1 /\ created' \in 0..MaxAccounts /\ created' \in Ids
    BY <1>1 DEF Inserts, Ids
  <1>3. 1..created \subseteq 1..created' /\ created' \in 1..created'
    BY <1>1, <1>2
  <1>4. /\ accountsOf' \subseteq Ids /\ accountsOf' \subseteq 1..created' /\ accountsOf \subseteq accountsOf'
        /\ guests' \subseteq Ids
    BY <1>2, <1>3 DEF Inserts, AdmissionInv, AdmissionTypeOK
  <1>5. /\ deciding' \in [Deciders -> Deciding \cup {Idle}] /\ \A q \in Deciders : CallRight(deciding'[q])
        /\ ClaimSettled
    <2>1. "added" \in {"queued", "unclaimed", "merging", "claimed", "adding", "added", "ready", "kept", "failed"}
      OBVIOUS
    <2>2. deciding' = [deciding EXCEPT ![c].step = "added", ![c].account = created']
      BY DEF Inserts
    <2>3. QED
      BY <1>2, <2>1, <2>2, CallGoesWith
  <1>6. Sound(records', accountsOf')
    BY <1>4 DEF AdmissionInv, Sound
  <1>7. AdmissionInv'
    <2>1. /\ invites' \subseteq InvitedRows
          /\ applications' \in [Applications -> {"pending", "approved", "rejected", "withdrawn"}]
          /\ guardianOf' \in [ChildApplications -> {0} \cup accountsOf']
          /\ \A k \in ChildApplications : applications'[k] = "pending" => guardianOf'[k] = 0
          /\ linkLock' \in Deciders \cup {Nobody} /\ parentLock' \in Deciders \cup {Nobody}
          /\ moves' \in 0..MaxMoves
      BY <1>4 DEF AdmissionInv, AdmissionTypeOK
    <2>2. QED
      BY <1>2, <1>4, <1>5, <1>6, <2>1, AdmissionHolds
  <1>8. QED
    BY <1>5, <1>7 DEF AdmissionShows, GuardiansKept, HistoryLasts

\* What the constants and rows of a resting part are.
LEMMA AdmissionRest ==
  ASSUME AdmissionInv
  PROVE  /\ invites \subseteq InvitedRows /\ guests \subseteq Ids /\ accountsOf \in SUBSET Ids
         /\ applications \in [Applications -> {"pending", "approved", "rejected", "withdrawn"}]
         /\ deciding \in [Deciders -> Deciding \cup {Idle}] /\ \A q \in Deciders : CallRight(deciding[q])
         /\ linkLock \in Deciders \cup {Nobody} /\ parentLock \in Deciders \cup {Nobody}
         /\ moves \in 0..MaxMoves /\ Sound(records, accountsOf) /\ DOMAIN records = InvitedRows \cup Ids
  BY DEF AdmissionInv, AdmissionTypeOK

LEMMA NobodyAnswers ==
  ASSUME UNCHANGED deciding
  PROVE  ClaimSettled /\ GuardiansKept
  BY DEF ClaimSettled, GuardiansKept, Idle

LEMMA CountedMove ==
  ASSUME AdmissionInv, Moves
  PROVE  moves' \in 0..MaxMoves
  BY AdmissionNumbers DEF AdmissionInv, AdmissionTypeOK, Moves

-----------------------------------------------------------------------------
\* The invitation.
LEMMA OutdatedCalls ==
  ASSUME AdmissionInv, NEW r, deciding' = Outdated(r)
  PROVE  /\ deciding' \in [Deciders -> Deciding \cup {Idle}] /\ \A q \in Deciders : CallRight(deciding'[q])
         /\ ClaimSettled
  <1>1. ASSUME NEW q \in Deciders
        PROVE  /\ deciding'[q] \in Deciding \cup {Idle} /\ CallRight(deciding'[q])
               /\ deciding'[q] = Idle => deciding[q] = Idle
    <2>1. CASE deciding[q].op = "accept" /\ deciding[q].on = r
      <3>1. PICK new : new = [deciding[q] EXCEPT !.current = FALSE]
        OBVIOUS
      <3>2. deciding[q] \in Deciding /\ CallRight(deciding[q])
        BY <2>1, CallFields
      <3>3. /\ new \in Deciding /\ new.op = deciding[q].op /\ new.on = deciding[q].on
            /\ new.step = deciding[q].step /\ new.account = deciding[q].account
        BY <3>1, <3>2 DEF Deciding
      <3>4. deciding'[q] = new
        BY <2>1, <3>1 DEF Outdated
      <3>5. QED
        BY <3>2, <3>3, <3>4, RecordsAreRows DEF CallRight
    <2>2. CASE ~(deciding[q].op = "accept" /\ deciding[q].on = r)
      <3>1. deciding'[q] = deciding[q]
        BY <2>2 DEF Outdated
      <3>2. QED
        BY <3>1, AdmissionRest
    <2>3. QED
      BY <2>1, <2>2
  <1>2. ClaimSettled
    BY <1>1 DEF ClaimSettled, Idle
  <1>3. QED
    BY <1>1, <1>2 DEF Outdated

LEMMA InvitesKeeps ==
  ASSUME AdmissionInv, NEW r \in InvitedRows, Invites(r) \/ InviteEnds(r)
  PROVE  AdmissionInv' /\ AdmissionShows
  <1>1. deciding' = Outdated(r)
    BY DEF Invites, InviteEnds
  <1>2. /\ UNCHANGED <<accountsOf, guests, created, records, applications, guardianOf>>
        /\ linkLock' \in Deciders \cup {Nobody} /\ parentLock' \in Deciders \cup {Nobody}
        /\ moves' \in 0..MaxMoves /\ invites' \subseteq InvitedRows
    BY AdmissionRest DEF Invites, InviteEnds
  <1>3. QED
    BY <1>1, <1>2, OutdatedCalls, CallsOnly

LEMMA AcceptStartsKeeps ==
  ASSUME AdmissionInv, NEW c \in Deciders, NEW r \in InvitedRows, AcceptStarts(c, r)
  PROVE  AdmissionInv' /\ AdmissionShows
  <1>1. 0 \in 0..MaxAccounts /\ "accept" \in {"accept", "approve", "readmit", "child"}
        /\ "queued" \in {"queued", "adding", "ready", "kept"} /\ TRUE \in BOOLEAN
        /\ r \in InvitedRows \cup (0..MaxAccounts) /\ r \in InvitedRows \cup Applications
    BY AdmissionNumbers
  <1>2. /\ deciding' \in [Deciders -> Deciding \cup {Idle}] /\ \A q \in Deciders : CallRight(deciding'[q])
        /\ ClaimSettled /\ moves' \in 0..MaxMoves
    BY <1>1, CallStarts DEF AcceptStarts
  <1>3. /\ UNCHANGED <<accountsOf, guests, created, records, applications, guardianOf>>
        /\ linkLock' \in Deciders \cup {Nobody} /\ parentLock' \in Deciders \cup {Nobody}
        /\ invites' \subseteq InvitedRows
    BY AdmissionRest DEF AcceptStarts
  <1>4. QED
    BY <1>2, <1>3, CallsOnly

LEMMA AcceptMovesKeeps ==
  ASSUME AdmissionInv, NEW c \in Deciders, AcceptLocks(c) \/ AcceptClaims(c) \/ AcceptAdds(c)
  PROVE  AdmissionInv' /\ AdmissionShows
  <1>1. deciding[c].op = "accept"
    BY DEF AcceptLocks, AcceptClaims, AcceptAdds, At
  <1>2. /\ UNCHANGED <<accountsOf, guests, created, records, applications, guardianOf>>
        /\ linkLock' \in Deciders \cup {Nobody} /\ parentLock' \in Deciders \cup {Nobody}
        /\ invites' \subseteq InvitedRows /\ moves' \in 0..MaxMoves
    BY AdmissionRest DEF AcceptLocks, AcceptClaims, AcceptAdds
  <1>3. \/ \E to \in {"unclaimed", "claimed", "adding", "failed"} : Goes(c, to)
        \/ \E m \in Ids : deciding' = [deciding EXCEPT ![c].step = "merging", ![c].account = m]
    BY AdmissionRest DEF AcceptLocks, AcceptClaims, AcceptAdds
  <1>4. /\ deciding' \in [Deciders -> Deciding \cup {Idle}] /\ \A q \in Deciders : CallRight(deciding'[q])
        /\ ClaimSettled
    <2>1. CASE \E to \in {"unclaimed", "claimed", "adding", "failed"} : Goes(c, to)
      BY <1>1, <2>1, CallGoes
    <2>2. CASE \E m \in Ids : deciding' = [deciding EXCEPT ![c].step = "merging", ![c].account = m]
      BY <1>1, <2>2, CallGoesWith
    <2>3. QED
      BY <1>3, <2>1, <2>2
  <1>5. QED
    BY <1>2, <1>4, CallsOnly

LEMMA AcceptInsertsKeeps ==
  ASSUME AdmissionInv, NEW c \in Deciders, AcceptInserts(c)
  PROVE  AdmissionInv' /\ AdmissionShows
  BY AccountMade DEF AcceptInserts, At

\* The record that a call links or merges into, after it.
LEMMA LinkedRow ==
  ASSUME AdmissionInv, NEW r \in InvitedRows, NEW m \in accountsOf
  PROVE  \E row \in Record :
           /\ row = [records[r] EXCEPT !.account = m, !.known = TRUE, !.unlinked = FALSE, !.touched = TRUE]
           /\ row.account = m /\ row.touched
  <1>1. records[r] \in Record /\ m \in 0..MaxAccounts
    BY AdmissionNumbers DEF AdmissionInv, AdmissionTypeOK, Sound
  <1>2. PICK row : row = [records[r] EXCEPT !.account = m, !.known = TRUE, !.unlinked = FALSE, !.touched = TRUE]
    OBVIOUS
  <1>3. row \in Record
    BY <1>1, <1>2 DEF Record
  <1>4. row.account = m /\ row.touched
    BY <1>1, <1>2 DEF Record
  <1>5. QED
    BY <1>2, <1>3, <1>4

LEMMA AcceptLinksKeeps ==
  ASSUME AdmissionInv, NEW c \in Deciders, AcceptLinks(c)
  PROVE  AdmissionInv' /\ AdmissionShows
  <1> DEFINE r == deciding[c].on
             m == deciding[c].account
  <1>1. /\ deciding[c].op = "accept" /\ accountsOf = {m} /\ r \in InvitedRows /\ m \in accountsOf
        /\ records' = [records EXCEPT ![r].account = m, ![r].known = TRUE, ![r].unlinked = FALSE,
                                      ![r].touched = TRUE]
    BY AdmissionRest DEF AcceptLinks, At, CallRight
  <1> HIDE DEF r, m
  <1>2. PICK row \in Record :
          /\ row = [records[r] EXCEPT !.account = m, !.known = TRUE, !.unlinked = FALSE, !.touched = TRUE]
          /\ row.account = m /\ row.touched
    BY <1>1, LinkedRow
  <1>3. records \in Tables /\ r \in InvitedRows \cup Ids
    BY <1>1, AdmissionRest DEF Sound
  <1>4. records' = [records EXCEPT ![r] = row]
    BY <1>1, <1>2, <1>3 DEF Tables
  <1>5. Sound(records', accountsOf) /\ HistoryKept(records') /\ records'[r].account = m
    <2>1. accountsOf \in SUBSET Ids /\ Sound(records, accountsOf)
      BY AdmissionRest
    <2>2. row.account \in accountsOf /\ row.touched
      BY <1>1, <1>2
    <2>3. Sound([records EXCEPT ![r] = row], accountsOf) /\ HistoryKept([records EXCEPT ![r] = row])
      BY <1>3, <2>1, <2>2, RowWritten
    <2>4. QED
      BY <1>2, <1>3, <1>4, <2>3 DEF Tables
  <1>6. /\ deciding' \in [Deciders -> Deciding \cup {Idle}] /\ \A q \in Deciders : CallRight(deciding'[q])
        /\ \A q \in Deciders : q # c => deciding'[q] = deciding[q]
    BY CallStops DEF AcceptLinks
  <1>7. ClaimSettled
    BY <1>5, <1>6 DEF ClaimSettled, Idle, r, m
  <1>8. /\ UNCHANGED <<accountsOf, guests, created, invites, applications, guardianOf, parentLock, moves>>
        /\ linkLock' \in Deciders \cup {Nobody}
    BY DEF AcceptLinks
  <1>9. QED
    <2>1. /\ guests' \subseteq Ids /\ invites' \subseteq InvitedRows
          /\ applications' \in [Applications -> {"pending", "approved", "rejected", "withdrawn"}]
          /\ \A k \in ChildApplications : applications'[k] = "pending" => applications[k] = "pending"
          /\ parentLock' \in Deciders \cup {Nobody} /\ moves' \in 0..MaxMoves
      BY <1>8, AdmissionRest
    <2>2. QED
      BY <1>5, <1>6, <1>7, <1>8, <2>1, RecordsOnly

LEMMA AcceptUndoesKeeps ==
  ASSUME AdmissionInv, NEW c \in Deciders, AcceptUndoes(c)
  PROVE  AdmissionInv' /\ AdmissionShows
  <1>1. /\ deciding[c].op = "accept"
        /\ Goes(c, "failed") /\ UNCHANGED <<guests, created, invites, applications, linkLock, moves>>
        /\ UNCHANGED parentLock \/ parentLock' \in Deciders \cup {Nobody}
    BY DEF AcceptUndoes, At
  <1>2. /\ deciding' \in [Deciders -> Deciding \cup {Idle}] /\ \A q \in Deciders : CallRight(deciding'[q])
        /\ deciding'[c] # Idle /\ \A q \in Deciders : q # c => deciding'[q] = deciding[q]
        /\ ClaimSettled
    BY <1>1, CallGoes
  <1>3. PICK m : /\ accountsOf' = accountsOf \ {m} /\ records' = Detach(records, m)
                 /\ guardianOf' = Unguarded(m)
    BY DEF AcceptUndoes
  <1>4. Sound(records', accountsOf \ {m}) /\ HistoryKept(records')
    BY <1>3, DetachIsSound
  <1>5. linkLock' \in Deciders \cup {Nobody} /\ parentLock' \in Deciders \cup {Nobody} /\ moves' \in 0..MaxMoves
    BY <1>1, AdmissionRest
  <1>6. AdmissionInv' /\ ClaimSettled /\ HistoryLasts
    BY <1>1, <1>2, <1>3, <1>4, <1>5, AccountEnds
  <1>7. GuardiansKept
    BY <1>1, <1>2 DEF GuardiansKept, Idle
  <1>8. QED
    BY <1>6, <1>7 DEF AdmissionShows

LEMMA AcceptReleasesKeeps ==
  ASSUME AdmissionInv, NEW c \in Deciders, AcceptReleases(c)
  PROVE  AdmissionInv' /\ AdmissionShows
  <1>1. deciding[c].on \in InvitedRows /\ invites' = invites \cup {deciding[c].on}
    BY AdmissionRest DEF AcceptReleases, At, CallRight, Released
  <1>2. /\ deciding' \in [Deciders -> Deciding \cup {Idle}] /\ \A q \in Deciders : CallRight(deciding'[q])
        /\ \A q \in Deciders : q # c => deciding'[q] = deciding[q]
    BY CallStops DEF AcceptReleases
  <1>3. ClaimSettled
    BY <1>1, <1>2 DEF ClaimSettled, Idle
  <1>4. /\ UNCHANGED <<accountsOf, guests, created, records, applications, guardianOf>>
        /\ linkLock' \in Deciders \cup {Nobody} /\ parentLock' \in Deciders \cup {Nobody}
        /\ invites' \subseteq InvitedRows /\ moves' \in 0..MaxMoves
    BY <1>1, AdmissionRest DEF AcceptReleases
  <1>5. QED
    BY <1>2, <1>3, <1>4, CallsOnly

LEMMA AcceptGivesUpKeeps ==
  ASSUME AdmissionInv, NEW c \in Deciders, AcceptGivesUp(c)
  PROVE  AdmissionInv' /\ AdmissionShows
  <1>1. /\ deciding' \in [Deciders -> Deciding \cup {Idle}] /\ \A q \in Deciders : CallRight(deciding'[q])
        /\ ClaimSettled
    BY CallStops DEF AcceptGivesUp
  <1>2. /\ UNCHANGED <<accountsOf, guests, created, records, applications, guardianOf>>
        /\ linkLock' \in Deciders \cup {Nobody} /\ parentLock' \in Deciders \cup {Nobody}
        /\ invites' \subseteq InvitedRows /\ moves' \in 0..MaxMoves
    BY AdmissionRest DEF AcceptGivesUp
  <1>3. QED
    BY <1>1, <1>2, CallsOnly

\* Records of an account that have no history, which no invited one is.
LEMMA OwnAreCreated ==
  ASSUME AdmissionInv, NEW m \in Ids, \A o \in RecordsOf(m) : ~records[o].touched
  PROVE  \A o \in RecordsOf(m) : o \in Ids /\ o \notin InvitedRows
  <1>1. m # 0 /\ \A o \in RecordsOf(m) : o \in InvitedRows \cup Ids /\ records[o].account = m
    BY AdmissionNumbers, AdmissionRest DEF RecordsOf
  <1>2. \A o \in InvitedRows : records[o].account # 0 => records[o].touched
    BY AdmissionRest DEF Sound
  <1>3. QED
    BY <1>1, <1>2

LEMMA AcceptMergesKeeps ==
  ASSUME AdmissionInv, NEW c \in Deciders, AcceptMerges(c)
  PROVE  AdmissionInv' /\ AdmissionShows
  <1>1. PICK r, m : r = deciding[c].on /\ m = deciding[c].account
    OBVIOUS
  <1>2. /\ deciding[c].op = "accept" /\ deciding[c].step = "merging" /\ m \in accountsOf /\ r \in InvitedRows
        /\ records[r].account = 0 /\ \A o \in RecordsOf(m) : ~records[o].touched
        /\ invites' \subseteq InvitedRows
        /\ records' = [o \in InvitedRows \cup Ids |->
             IF o \in RecordsOf(m) THEN NoRecord
             ELSE IF o = r THEN [records[r] EXCEPT !.account = m, !.known = TRUE, !.unlinked = FALSE,
                                                   !.touched = TRUE]
             ELSE records[o]]
    BY <1>1, AdmissionRest DEF AcceptMerges, At, CallRight
  <1>3. m \in Ids /\ m # 0 /\ \A o \in RecordsOf(m) : o \in Ids /\ o \notin InvitedRows
    BY <1>2, AdmissionRest, AdmissionNumbers, OwnAreCreated
  <1>4. PICK row \in Record :
          /\ row = [records[r] EXCEPT !.account = m, !.known = TRUE, !.unlinked = FALSE, !.touched = TRUE]
          /\ row.account = m /\ row.touched
    BY <1>2, LinkedRow
  <1>5. \A o \in InvitedRows \cup Ids :
          records'[o] = IF o \in RecordsOf(m) THEN NoRecord ELSE IF o = r THEN row ELSE records[o]
    BY <1>2, <1>4
  <1>6. records' \in Tables
    <2>1. \A o \in InvitedRows \cup Ids : records'[o] \in Record \cup {NoRecord}
      BY <1>5, AdmissionRest DEF Sound, Tables
    <2>2. QED
      BY <1>2, <2>1 DEF Tables
  <1>7. Sound(records', accountsOf)
    <2>1. \A o \in InvitedRows : records'[o] \in Record /\ (records'[o].account # 0 => records'[o].touched)
      BY <1>3, <1>4, <1>5, AdmissionRest DEF Sound
    <2>2. \A o \in InvitedRows \cup Ids :
            records'[o] # NoRecord /\ records'[o].account # 0 => records'[o].account \in accountsOf
      BY <1>2, <1>4, <1>5, AdmissionRest DEF Sound
    <2>3. QED
      BY <1>6, <2>1, <2>2 DEF Sound
  <1>8. HistoryKept(records')
    BY <1>2, <1>4, <1>5, RecordsAreRows DEF HistoryKept
  <1>9. /\ deciding' \in [Deciders -> Deciding \cup {Idle}] /\ \A q \in Deciders : CallRight(deciding'[q])
        /\ ClaimSettled
    BY <1>2, CallStops DEF AcceptMerges
  <1>10. /\ UNCHANGED <<accountsOf, guests, created, applications, guardianOf, parentLock, moves>>
         /\ linkLock' \in Deciders \cup {Nobody}
    BY DEF AcceptMerges
  <1>11. QED
    <2>1. /\ guests' \subseteq Ids
          /\ applications' \in [Applications -> {"pending", "approved", "rejected", "withdrawn"}]
          /\ \A k \in ChildApplications : applications'[k] = "pending" => applications[k] = "pending"
          /\ parentLock' \in Deciders \cup {Nobody} /\ moves' \in 0..MaxMoves
      BY <1>10, AdmissionRest
    <2>2. QED
      BY <1>2, <1>7, <1>8, <1>9, <1>10, <2>1, RecordsOnly

-----------------------------------------------------------------------------
\* The decision of the board.
LEMMA ApprovesTyped ==
  ASSUME AdmissionInv, NEW a, applications' = [applications EXCEPT ![a] = "approved"]
  PROVE  /\ applications' \in [Applications -> {"pending", "approved", "rejected", "withdrawn"}]
         /\ \A k \in ChildApplications : applications'[k] = "pending" => applications[k] = "pending" /\ k # a
  <1>1. applications \in [Applications -> {"pending", "approved", "rejected", "withdrawn"}]
    BY AdmissionRest
  <1>2. QED
    BY <1>1 DEF Applications

LEMMA DecisionStartsKeeps ==
  ASSUME AdmissionInv, NEW c \in Deciders,
         \/ \E a \in OwnApplications : \/ ApproveStarts(c, a)
                                       \/ \E m \in accountsOf, r \in DOMAIN records : ReadmitStarts(c, a, m, r)
         \/ \E k \in ChildApplications : ChildStarts(c, k)
  PROVE  AdmissionInv' /\ AdmissionShows
  <1>1. /\ UNCHANGED <<accountsOf, guests, created, records, invites, applications, guardianOf,
                       linkLock, parentLock>>
    BY DEF ApproveStarts, ReadmitStarts, ChildStarts
  <1>2. \E op \in {"approve", "readmit", "child"}, on \in InvitedRows \cup Applications,
           step \in {"queued", "adding", "ready", "kept"}, m \in 0..MaxAccounts,
           r \in InvitedRows \cup (0..MaxAccounts), current \in BOOLEAN :
          /\ Starts(c, op, on, step, m, r, current)
          /\ step \in {"ready", "kept"} => m # 0
    <2>1. 0 \in 0..MaxAccounts /\ \A m \in accountsOf : m \in 0..MaxAccounts /\ m # 0
      BY AdmissionNumbers, AdmissionRest
    <2>2. ASSUME NEW a \in OwnApplications, ApproveStarts(c, a)
          PROVE  Starts(c, "approve", a, "adding", 0, 0, TRUE)
      BY <2>2 DEF ApproveStarts
    <2>3. ASSUME NEW a \in OwnApplications, NEW m \in accountsOf, NEW r \in DOMAIN records, ReadmitStarts(c, a, m, r)
          PROVE  /\ \E step \in {"kept", "ready"}, current \in BOOLEAN : Starts(c, "readmit", a, step, m, r, current)
                 /\ r \in InvitedRows \cup (0..MaxAccounts)
      <3>1. r \in InvitedRows \cup (0..MaxAccounts)
        BY AdmissionRest, AdmissionNumbers
      <3>2. Left(r) \in BOOLEAN
        BY DEF Left
      <3>3. PICK current \in BOOLEAN : current = Left(r)
        BY <3>2
      <3>4. Starts(c, "readmit", a, IF records[r].status = "aktiv" THEN "kept" ELSE "ready", m, r, current)
        BY <2>3, <3>3 DEF ReadmitStarts
      <3>5. QED
        BY <3>1, <3>4
    <2>4. ASSUME NEW k \in ChildApplications, ChildStarts(c, k)
          PROVE  Starts(c, "child", k, "queued", 0, 0, TRUE)
      BY <2>4 DEF ChildStarts
    <2>5. CASE \E a \in OwnApplications : ApproveStarts(c, a)
      <3>1. PICK a \in OwnApplications : Starts(c, "approve", a, "adding", 0, 0, TRUE)
        BY <2>2, <2>5
      <3>2. a \in InvitedRows \cup Applications
        BY DEF Applications
      <3>3. QED
        BY <2>1, <3>1, <3>2
    <2>6. CASE \E a \in OwnApplications : \E m \in accountsOf, r \in DOMAIN records : ReadmitStarts(c, a, m, r)
      <3>1. PICK a \in OwnApplications, m \in accountsOf, r \in DOMAIN records : ReadmitStarts(c, a, m, r)
        BY <2>6
      <3>2. /\ \E step \in {"kept", "ready"}, current \in BOOLEAN : Starts(c, "readmit", a, step, m, r, current)
            /\ r \in InvitedRows \cup (0..MaxAccounts)
        BY <2>3, <3>1
      <3>3. a \in InvitedRows \cup Applications
        BY DEF Applications
      <3>4. QED
        BY <2>1, <3>2, <3>3
    <2>7. CASE \E k \in ChildApplications : ChildStarts(c, k)
      <3>1. PICK k \in ChildApplications : Starts(c, "child", k, "queued", 0, 0, TRUE)
        BY <2>4, <2>7
      <3>2. k \in InvitedRows \cup Applications
        BY DEF Applications
      <3>3. QED
        BY <2>1, <3>1, <3>2
    <2>8. QED
      BY <2>5, <2>6, <2>7
  <1>3. /\ deciding' \in [Deciders -> Deciding \cup {Idle}] /\ \A q \in Deciders : CallRight(deciding'[q])
        /\ ClaimSettled /\ moves' \in 0..MaxMoves
    BY <1>2, CallStarts
  <1>4. /\ linkLock' \in Deciders \cup {Nobody} /\ parentLock' \in Deciders \cup {Nobody}
        /\ invites' \subseteq InvitedRows
    BY <1>1, AdmissionRest
  <1>5. QED
    BY <1>1, <1>3, <1>4, CallsOnly

LEMMA AccountInserted ==
  ASSUME AdmissionInv, NEW c \in Deciders, ApproveInserts(c) \/ ChildInserts(c)
  PROVE  AdmissionInv' /\ AdmissionShows
  BY AccountMade DEF ApproveInserts, ChildInserts, At

LEMMA AccountOfCall ==
  ASSUME AdmissionInv, NEW c \in Deciders, deciding[c].op # "none",
         deciding[c].step \in {"added", "ready", "merging", "kept"}
  PROVE  deciding[c].account \in Ids
  BY CallFields, AdmissionNumbers DEF CallRight, Ids

LEMMA EnsuresKeeps ==
  ASSUME AdmissionInv, NEW c \in Deciders, ApproveEnsures(c) \/ ChildEnsures(c)
  PROVE  AdmissionInv' /\ AdmissionShows
  <1>1. /\ deciding[c].op # "none" /\ deciding[c].step = "added" /\ Goes(c, "ready")
        /\ UNCHANGED <<accountsOf, guests, created, invites, applications, guardianOf, linkLock, moves>>
    BY DEF ApproveEnsures, ChildEnsures, At
  <1>2. deciding[c].account \in Ids
    BY <1>1, AccountOfCall
  <1>3. Sound(records', accountsOf) /\ HistoryKept(records')
    <2>1. CASE ApproveEnsures(c)
      <3>1. records' \in Ensured(deciding[c].account) \/ records' = records
        BY <2>1 DEF ApproveEnsures
      <3>2. HistoryKept(records) /\ Sound(records, accountsOf)
        BY AdmissionRest DEF HistoryKept
      <3>3. QED
        BY <1>2, <3>1, <3>2, EnsuredIsSound
    <2>2. CASE ChildEnsures(c)
      <3>1. records' \in Fixed(deciding[c].account, "interessent")
        BY <2>2 DEF ChildEnsures
      <3>2. "interessent" \in {"interessent", "aktiv"}
        OBVIOUS
      <3>3. QED
        BY <1>2, <3>1, <3>2, FixedIsSound
    <2>3. QED
      BY <2>1, <2>2
  <1>4. /\ deciding' \in [Deciders -> Deciding \cup {Idle}] /\ \A q \in Deciders : CallRight(deciding'[q])
        /\ ClaimSettled
    BY <1>1, <1>2, CallGoes, AdmissionNumbers
  <1>5. parentLock' \in Deciders \cup {Nobody}
    BY AdmissionRest DEF ApproveEnsures, ChildEnsures
  <1>6. QED
    <2>1. /\ guests' \subseteq Ids /\ invites' \subseteq InvitedRows
          /\ applications' \in [Applications -> {"pending", "approved", "rejected", "withdrawn"}]
          /\ \A k \in ChildApplications : applications'[k] = "pending" => applications[k] = "pending"
          /\ linkLock' \in Deciders \cup {Nobody} /\ moves' \in 0..MaxMoves
      BY <1>1, AdmissionRest
    <2>2. QED
      BY <1>1, <1>3, <1>4, <1>5, <2>1, RecordsOnly

LEMMA ApproveDecidesKeeps ==
  ASSUME AdmissionInv, NEW c \in Deciders, ApproveDecides(c)
  PROVE  /\ AdmissionInv' /\ AdmissionShows
         /\ \E r \in DOMAIN records' : /\ records'[r] # NoRecord /\ records'[r].status = "aktiv"
                                       /\ records'[r].account \in accountsOf'
  <1>1. PICK a, m : a = deciding[c].on /\ m = deciding[c].account
    OBVIOUS
  <1>2. /\ deciding[c].op = "approve" /\ deciding[c].step = "ready" /\ records' \in Fixed(m, "aktiv")
        /\ applications' = [applications EXCEPT ![a] = "approved"] /\ Stops(c)
        /\ UNCHANGED <<accountsOf, guests, created, invites, guardianOf, linkLock, parentLock, moves>>
    BY <1>1 DEF ApproveDecides, At
  <1>3. m \in Ids /\ "aktiv" \in {"interessent", "aktiv"}
    BY <1>1, <1>2, AccountOfCall
  <1>4. /\ Sound(records', accountsOf) /\ HistoryKept(records') /\ m \in accountsOf
        /\ \E r \in InvitedRows \cup Ids :
             records'[r] # NoRecord /\ records'[r].account = m /\ records'[r].status = "aktiv"
    BY <1>2, <1>3, FixedIsSound
  <1>5. /\ deciding' \in [Deciders -> Deciding \cup {Idle}] /\ \A q \in Deciders : CallRight(deciding'[q])
        /\ ClaimSettled
    BY <1>2, CallStops
  <1>6. /\ applications' \in [Applications -> {"pending", "approved", "rejected", "withdrawn"}]
        /\ \A k \in ChildApplications : applications'[k] = "pending" => applications[k] = "pending"
    BY <1>2, ApprovesTyped
  <1>7. AdmissionInv' /\ AdmissionShows
    <2>1. /\ guests' \subseteq Ids /\ invites' \subseteq InvitedRows
          /\ linkLock' \in Deciders \cup {Nobody} /\ parentLock' \in Deciders \cup {Nobody}
          /\ moves' \in 0..MaxMoves
      BY <1>2, AdmissionRest
    <2>2. QED
      BY <1>2, <1>4, <1>5, <1>6, <2>1, RecordsOnly
  <1>8. DOMAIN records' = InvitedRows \cup Ids
    BY <1>4 DEF Sound, Tables
  <1>9. QED
    BY <1>2, <1>4, <1>7, <1>8

LEMMA ReadmitDecidesKeeps ==
  ASSUME AdmissionInv, NEW c \in Deciders, ReadmitDecides(c)
  PROVE  AdmissionInv' /\ AdmissionShows
  <1>1. PICK a, m, r : a = deciding[c].on /\ m = deciding[c].account /\ r = deciding[c].record
    OBVIOUS
  <1>2. /\ deciding[c].op = "readmit" /\ applications' = [applications EXCEPT ![a] = "approved"]
        /\ Stops(c) /\ guests' = guests \ {m}
        /\ UNCHANGED <<accountsOf, created, invites, guardianOf, linkLock, parentLock, moves>>
        /\ records[r] # NoRecord
        /\ \/ UNCHANGED records
           \/ records' = [records EXCEPT ![r].status = "aktiv", ![r].touched = TRUE]
    BY <1>1 DEF ReadmitDecides
  <1>3. Sound(records, accountsOf) /\ accountsOf \in SUBSET Ids /\ records \in Tables
    BY AdmissionRest DEF Sound
  <1>4. Sound(records', accountsOf) /\ HistoryKept(records')
    <2>1. CASE UNCHANGED records
      BY <1>3, <2>1 DEF HistoryKept
    <2>2. CASE records' = [records EXCEPT ![r].status = "aktiv", ![r].touched = TRUE] /\ r \in InvitedRows \cup Ids
      <3>1. records[r] \in Record /\ (records[r].account = 0 \/ records[r].account \in accountsOf)
        BY <1>2, <1>3, <2>2 DEF Sound, Tables
      <3>2. PICK row : row = [records[r] EXCEPT !.status = "aktiv", !.touched = TRUE]
        OBVIOUS
      <3>3. row \in Record /\ row.account = records[r].account /\ row.touched
        BY <3>1, <3>2 DEF Record
      <3>4. records' = [records EXCEPT ![r] = row]
        BY <1>3, <2>2, <3>2 DEF Tables
      <3>5. /\ row.account = 0 \/ row.account \in accountsOf
            /\ r \in InvitedRows \cup Ids
        BY <2>2, <3>1, <3>3
      <3>6. row \in Record /\ row.touched
        BY <3>3
      <3>7. QED
        BY <1>3, <3>4, <3>5, <3>6, RowWritten
    <2>3. CASE records' = [records EXCEPT ![r].status = "aktiv", ![r].touched = TRUE] /\ r \notin InvitedRows \cup Ids
      <3>1. records' = records
        BY <1>3, <2>3 DEF Tables
      <3>2. QED
        BY <1>3, <3>1 DEF HistoryKept
    <2>4. QED
      BY <1>2, <2>1, <2>2, <2>3
  <1>5. /\ deciding' \in [Deciders -> Deciding \cup {Idle}] /\ \A q \in Deciders : CallRight(deciding'[q])
        /\ ClaimSettled
    BY <1>2, CallStops
  <1>6. /\ applications' \in [Applications -> {"pending", "approved", "rejected", "withdrawn"}]
        /\ \A k \in ChildApplications : applications'[k] = "pending" => applications[k] = "pending"
    BY <1>2, ApprovesTyped
  <1>7. /\ guests' \subseteq Ids /\ invites' \subseteq InvitedRows
        /\ linkLock' \in Deciders \cup {Nobody} /\ parentLock' \in Deciders \cup {Nobody}
        /\ moves' \in 0..MaxMoves
    BY <1>2, AdmissionRest
  <1>8. QED
    BY <1>2, <1>4, <1>5, <1>6, <1>7, RecordsOnly

LEMMA ChildLocksKeeps ==
  ASSUME AdmissionInv, NEW c \in Deciders, ChildLocks(c)
  PROVE  AdmissionInv' /\ AdmissionShows
  <1>1. /\ deciding[c].op = "child"
        /\ UNCHANGED <<accountsOf, guests, created, records, invites, applications, guardianOf, linkLock, moves>>
        /\ parentLock' \in {c, parentLock}
    BY DEF ChildLocks, At
  <1>2. /\ deciding' \in [Deciders -> Deciding \cup {Idle}] /\ \A q \in Deciders : CallRight(deciding'[q])
        /\ ClaimSettled
    <2>1. CASE Goes(c, "adding")
      BY <1>1, <2>1, CallGoes
    <2>2. CASE \E m \in accountsOf :
                 deciding' = [deciding EXCEPT ![c].step = "ready", ![c].account = m, ![c].current = FALSE]
      <3>1. PICK m \in accountsOf :
              deciding' = [deciding EXCEPT ![c].step = "ready", ![c].account = m, ![c].current = FALSE]
        BY <2>2
      <3>2. m # 0 /\ m \in 0..MaxAccounts
        BY AdmissionRest, AdmissionNumbers
      <3>3. PICK new : new = [deciding[c] EXCEPT !.step = "ready", !.account = m, !.current = FALSE]
        OBVIOUS
      <3>4. deciding[c] \in Deciding
        BY <1>1, CallFields
      <3>5. new \in Deciding /\ new.op = "child" /\ new.account = m
        BY <1>1, <3>2, <3>3, <3>4 DEF Deciding
      <3>6. new # Idle /\ CallRight(new)
        BY <3>2, <3>5, RecordsAreRows DEF CallRight
      <3>7. deciding' = [deciding EXCEPT ![c] = new]
        BY <3>1, <3>3, AdmissionRest
      <3>8. QED
        BY <3>5, <3>6, <3>7, CallMoves
    <2>3. QED
      BY <2>1, <2>2 DEF ChildLocks
  <1>3. /\ invites' \subseteq InvitedRows /\ moves' \in 0..MaxMoves
        /\ linkLock' \in Deciders \cup {Nobody} /\ parentLock' \in Deciders \cup {Nobody}
    BY <1>1, AdmissionRest
  <1>4. QED
    BY <1>1, <1>2, <1>3, CallsOnly

LEMMA ChildDecidesKeeps ==
  ASSUME AdmissionInv, NEW c \in Deciders, ChildDecides(c)
  PROVE  AdmissionInv' /\ AdmissionShows
  <1>1. PICK k, m : k = deciding[c].on /\ m = deciding[c].account
    OBVIOUS
  <1>2. /\ deciding[c].op = "child" /\ applications[k] = "pending" /\ m \in accountsOf
        /\ applications' = [applications EXCEPT ![k] = "approved"]
        /\ guardianOf' = [guardianOf EXCEPT ![k] = m] /\ Stops(c)
        /\ UNCHANGED <<accountsOf, guests, created, records, invites, linkLock, parentLock, moves>>
    BY <1>1 DEF ChildDecides, At
  <1>3. /\ guardianOf \in [ChildApplications -> {0} \cup accountsOf]
        /\ \A q \in ChildApplications : applications[q] = "pending" => guardianOf[q] = 0
    BY DEF AdmissionInv, AdmissionTypeOK
  <1>4. guardianOf' \in [ChildApplications -> {0} \cup accountsOf']
    BY <1>2, <1>3
  <1>5. /\ applications' \in [Applications -> {"pending", "approved", "rejected", "withdrawn"}]
        /\ \A q \in ChildApplications : applications'[q] = "pending" => applications[q] = "pending" /\ q # k
    BY <1>2, ApprovesTyped
  <1>6. \A q \in ChildApplications : applications'[q] = "pending" => guardianOf'[q] = 0
    BY <1>2, <1>3, <1>5
  <1>7. /\ deciding' \in [Deciders -> Deciding \cup {Idle}] /\ \A q \in Deciders : CallRight(deciding'[q])
        /\ ClaimSettled
    BY <1>2, CallStops
  <1>8. AdmissionInv'
    <2>1. /\ Sound(records', accountsOf') /\ accountsOf' \subseteq Ids /\ accountsOf' \subseteq 1..created'
          /\ created' \in 0..MaxAccounts /\ guests' \subseteq Ids /\ invites' \subseteq InvitedRows
          /\ linkLock' \in Deciders \cup {Nobody} /\ parentLock' \in Deciders \cup {Nobody}
          /\ moves' \in 0..MaxMoves
      BY <1>2 DEF AdmissionInv, AdmissionTypeOK
    <2>2. QED
      BY <1>4, <1>5, <1>6, <1>7, <2>1, AdmissionHolds
  <1>9. GuardiansKept
    <2>1. \A q \in ChildApplications : guardianOf[q] # 0 => guardianOf'[q] = guardianOf[q]
      BY <1>2, <1>3
    <2>2. QED
      BY <2>1 DEF GuardiansKept
  <1>10. HistoryLasts
    BY <1>2 DEF HistoryLasts
  <1>11. QED
    BY <1>7, <1>8, <1>9, <1>10 DEF AdmissionShows

LEMMA DecisionAbortsKeeps ==
  ASSUME AdmissionInv, NEW c \in Deciders, DecisionAborts(c)
  PROVE  AdmissionInv' /\ AdmissionShows
  <1>1. /\ deciding[c].op \in {"approve", "readmit", "child"}
        /\ Goes(c, "failed") \/ Stops(c)
        /\ UNCHANGED <<accountsOf, guests, created, records, invites, applications, guardianOf, linkLock, moves>>
        /\ parentLock' \in {Nobody, parentLock}
    BY DEF DecisionAborts
  <1>2. /\ deciding' \in [Deciders -> Deciding \cup {Idle}] /\ \A q \in Deciders : CallRight(deciding'[q])
        /\ ClaimSettled
    BY <1>1, CallGoes, CallStops
  <1>3. /\ invites' \subseteq InvitedRows /\ moves' \in 0..MaxMoves
        /\ linkLock' \in Deciders \cup {Nobody} /\ parentLock' \in Deciders \cup {Nobody}
    BY <1>1, AdmissionRest
  <1>4. QED
    BY <1>1, <1>2, <1>3, CallsOnly

\* What is undone has no history, and guards nobody.
LEMMA DecisionUndoesKeeps ==
  ASSUME AdmissionInv, NEW c \in Deciders, DecisionUndoes(c)
  PROVE  AdmissionInv' /\ AdmissionShows
  <1>1. PICK m : m = deciding[c].account
    OBVIOUS
  <1>2. /\ deciding[c].op \in {"approve", "child"} /\ Stops(c) /\ parentLock' \in {Nobody, parentLock}
        /\ UNCHANGED <<guests, created, invites, applications, linkLock, moves>>
    BY DEF DecisionUndoes
  <1>3. /\ deciding' \in [Deciders -> Deciding \cup {Idle}] /\ \A q \in Deciders : CallRight(deciding'[q])
        /\ ClaimSettled
    BY <1>2, CallStops
  <1>4. /\ linkLock' \in Deciders \cup {Nobody} /\ parentLock' \in Deciders \cup {Nobody}
        /\ invites' \subseteq InvitedRows /\ moves' \in 0..MaxMoves
    BY <1>2, AdmissionRest
  <1>5. CASE UNCHANGED <<accountsOf, guardianOf, records>>
    BY <1>2, <1>3, <1>4, <1>5, CallsOnly
  <1>6. CASE /\ m \in accountsOf /\ Untouched(c) /\ accountsOf' = accountsOf \ {m} /\ guardianOf' = Unguarded(m)
             /\ records' = [r \in DOMAIN records |-> IF r \in RecordsOf(m) THEN NoRecord ELSE records[r]]
    <2>1. /\ \A k \in ChildApplications : guardianOf[k] # m
          /\ \A r \in RecordsOf(m) : ~records[r].touched
      BY <1>1, <1>6 DEF Untouched
    <2>2. m \in Ids /\ \A o \in RecordsOf(m) : o \notin InvitedRows
      BY <1>6, <2>1, AdmissionRest, OwnAreCreated
    <2>3. \A o \in InvitedRows \cup Ids :
            records'[o] = IF o \in RecordsOf(m) THEN NoRecord ELSE records[o]
      BY <1>6, AdmissionRest
    <2>4. records' \in Tables
      <3>1. \A o \in InvitedRows \cup Ids : records'[o] \in Record \cup {NoRecord}
        BY <2>3, AdmissionRest DEF Sound, Tables
      <3>2. QED
        BY <1>6, <3>1, AdmissionRest DEF Tables
    <2>5. Sound(records', accountsOf \ {m})
      <3>1. \A o \in InvitedRows : records'[o] \in Record /\ (records'[o].account # 0 => records'[o].touched)
        BY <2>2, <2>3, AdmissionRest DEF Sound
      <3>2. \A o \in InvitedRows \cup Ids : records'[o] # NoRecord =>
              records'[o] = records[o] /\ records[o] # NoRecord /\ records[o].account # m
        BY <2>3, AdmissionRest DEF RecordsOf
      <3>3. \A o \in InvitedRows \cup Ids :
              records'[o] # NoRecord /\ records'[o].account # 0 => records'[o].account \in accountsOf \ {m}
        BY <3>2, AdmissionRest DEF Sound
      <3>4. QED
        BY <2>4, <3>1, <3>3 DEF Sound
    <2>6. HistoryKept(records')
      BY <2>1, <2>3 DEF HistoryKept
    <2>7. AdmissionInv' /\ ClaimSettled /\ HistoryLasts
      BY <1>2, <1>3, <1>4, <1>6, <2>5, <2>6, AccountEnds
    <2>8. GuardiansKept
      <3>1. \A k \in ChildApplications : guardianOf'[k] = guardianOf[k]
        BY <1>6, <2>1 DEF Unguarded
      <3>2. QED
        BY <3>1 DEF GuardiansKept
    <2>9. QED
      BY <2>7, <2>8 DEF AdmissionShows
  <1>7. QED
    BY <1>1, <1>5, <1>6 DEF DecisionUndoes

LEMMA ClosesKeeps ==
  ASSUME AdmissionInv, NEW a \in Applications, NEW as \in {"rejected", "withdrawn"}, Closes(a, as)
  PROVE  AdmissionInv' /\ AdmissionShows
  <1>1. /\ applications' = [applications EXCEPT ![a] = as]
        /\ UNCHANGED <<accountsOf, guests, created, records, invites, guardianOf, linkLock, parentLock, deciding, moves>>
    BY DEF Closes
  <1>2. ClaimSettled
    BY <1>1, NobodyAnswers
  <1>3. /\ applications' \in [Applications -> {"pending", "approved", "rejected", "withdrawn"}]
        /\ \A k \in ChildApplications : applications'[k] = "pending" => applications[k] = "pending"
    BY <1>1, AdmissionRest DEF Applications
  <1>4. Sound(records', accountsOf) /\ HistoryKept(records')
    BY <1>1, AdmissionRest DEF HistoryKept
  <1>5. /\ guests' \subseteq Ids /\ invites' \subseteq InvitedRows
        /\ linkLock' \in Deciders \cup {Nobody} /\ parentLock' \in Deciders \cup {Nobody}
        /\ moves' \in 0..MaxMoves
        /\ deciding' \in [Deciders -> Deciding \cup {Idle}] /\ \A q \in Deciders : CallRight(deciding'[q])
    BY <1>1, AdmissionRest
  <1>6. QED
    BY <1>1, <1>2, <1>3, <1>4, <1>5, RecordsOnly

-----------------------------------------------------------------------------
\* Members come and go, and the board edits.
LEMMA LeavesKeeps ==
  ASSUME AdmissionInv, NEW m \in Ids, Leaves(m)
  PROVE  AdmissionInv' /\ AdmissionShows
  <1>1. /\ accountsOf' = accountsOf \ {m} /\ records' = Detach(records, m) /\ guardianOf' = Unguarded(m) /\ Moves
        /\ UNCHANGED <<guests, created, invites, applications, linkLock, parentLock, deciding>>
    BY DEF Leaves
  <1>2. ClaimSettled /\ GuardiansKept
    BY <1>1, NobodyAnswers
  <1>3. Sound(records', accountsOf \ {m}) /\ HistoryKept(records')
    BY <1>1, DetachIsSound
  <1>4. /\ linkLock' \in Deciders \cup {Nobody} /\ parentLock' \in Deciders \cup {Nobody}
        /\ moves' \in 0..MaxMoves
        /\ deciding' \in [Deciders -> Deciding \cup {Idle}] /\ \A q \in Deciders : CallRight(deciding'[q])
    BY <1>1, AdmissionRest, CountedMove
  <1>5. AdmissionInv' /\ ClaimSettled /\ HistoryLasts
    BY <1>1, <1>2, <1>3, <1>4, AccountEnds
  <1>6. QED
    BY <1>2, <1>5 DEF AdmissionShows

LEMMA UnlinksKeeps ==
  ASSUME AdmissionInv, NEW r \in DOMAIN records, Unlinks(r)
  PROVE  AdmissionInv' /\ AdmissionShows
  <1>1. PICK m : m = records[r].account
    OBVIOUS
  <1>2. /\ accountsOf' = accountsOf \ {m} /\ guardianOf' = Unguarded(m) /\ Moves /\ records[r] # NoRecord
        /\ records' = [Detach(records, m) EXCEPT ![r].unlinked = TRUE, ![r].touched = TRUE]
        /\ UNCHANGED <<guests, created, invites, applications, linkLock, parentLock, deciding>>
    BY <1>1 DEF Unlinks
  <1>3. ClaimSettled /\ GuardiansKept
    BY <1>2, NobodyAnswers
  <1>4. PICK table : table = Detach(records, m)
    OBVIOUS
  <1>5. Sound(table, accountsOf \ {m}) /\ HistoryKept(table) /\ r \in InvitedRows \cup Ids
    BY <1>4, DetachIsSound, AdmissionRest
  <1>6. table[r] = [records[r] EXCEPT !.account = 0]
    BY <1>1, <1>2, <1>4 DEF Detach
  <1>7. records[r] \in Record
    BY <1>2, <1>5, AdmissionRest DEF Sound, Tables
  <1>8. PICK row : row = [table[r] EXCEPT !.unlinked = TRUE, !.touched = TRUE]
    OBVIOUS
  <1>9. table[r] \in Record /\ table[r].account = 0
    BY <1>6, <1>7, AdmissionNumbers DEF Record
  <1>10. row \in Record /\ row.account = 0
    BY <1>8, <1>9 DEF Record
  <1>11. records' = [table EXCEPT ![r] = row]
    BY <1>2, <1>4, <1>5, <1>8 DEF Sound, Tables
  <1>12. \A q \in InvitedRows \cup Ids : records'[q] = IF q = r THEN row ELSE table[q]
    BY <1>5, <1>11 DEF Sound, Tables
  <1>13. records' \in Tables
    BY <1>5, <1>10, <1>11 DEF Sound, Tables
  <1>14. Sound(records', accountsOf \ {m})
    BY <1>5, <1>10, <1>12, <1>13 DEF Sound
  <1>15. HistoryKept(records')
    BY <1>5, <1>10, <1>12, RecordsAreRows DEF HistoryKept
  <1>16. /\ linkLock' \in Deciders \cup {Nobody} /\ parentLock' \in Deciders \cup {Nobody}
         /\ moves' \in 0..MaxMoves
         /\ deciding' \in [Deciders -> Deciding \cup {Idle}] /\ \A q \in Deciders : CallRight(deciding'[q])
    BY <1>2, AdmissionRest, CountedMove
  <1>17. AdmissionInv' /\ ClaimSettled /\ HistoryLasts
    BY <1>2, <1>3, <1>14, <1>15, <1>16, AccountEnds
  <1>18. QED
    BY <1>3, <1>17 DEF AdmissionShows

LEMMA EditsKeep ==
  ASSUME AdmissionInv, Moves, Sound(records', accountsOf), HistoryKept(records'),
         UNCHANGED <<accountsOf, guests, created, invites, applications, guardianOf, linkLock, parentLock, deciding>>
  PROVE  AdmissionInv' /\ AdmissionShows
  <1>1. ClaimSettled
    BY NobodyAnswers
  <1>2. /\ guests' \subseteq Ids /\ invites' \subseteq InvitedRows
        /\ applications' \in [Applications -> {"pending", "approved", "rejected", "withdrawn"}]
        /\ \A k \in ChildApplications : applications'[k] = "pending" => applications[k] = "pending"
        /\ linkLock' \in Deciders \cup {Nobody} /\ parentLock' \in Deciders \cup {Nobody}
        /\ moves' \in 0..MaxMoves
        /\ deciding' \in [Deciders -> Deciding \cup {Idle}] /\ \A q \in Deciders : CallRight(deciding'[q])
    BY AdmissionRest, CountedMove
  <1>3. QED
    BY <1>1, <1>2, RecordsOnly

LEMMA ClosesDetachedKeeps ==
  ASSUME AdmissionInv, ClosesDetached
  PROVE  AdmissionInv' /\ AdmissionShows
  <1>1. /\ Moves
        /\ UNCHANGED <<accountsOf, guests, created, invites, applications, guardianOf, linkLock, parentLock, deciding>>
        /\ records' = [r \in InvitedRows \cup Ids |->
             IF r \in Detached /\ ~Left(r) THEN [records[r] EXCEPT !.status = "ausgetreten", !.touched = TRUE]
             ELSE records[r]]
    BY AdmissionRest DEF ClosesDetached
  <1>2. Sound(records, accountsOf)
    BY AdmissionRest
  <1>3. \A r \in InvitedRows \cup Ids :
          IF r \in Detached /\ ~Left(r)
          THEN records'[r] \in Record /\ records'[r].account = records[r].account /\ records'[r].touched
          ELSE records'[r] = records[r]
    <2> TAKE r \in InvitedRows \cup Ids
    <2>1. CASE r \in Detached /\ ~Left(r)
      <3>1. records[r] \in Record
        BY <1>2, <2>1 DEF Detached, Sound, Tables
      <3>2. PICK row : row = [records[r] EXCEPT !.status = "ausgetreten", !.touched = TRUE]
        OBVIOUS
      <3>3. row \in Record /\ row.account = records[r].account /\ row.touched
        BY <3>1, <3>2 DEF Record
      <3>4. records'[r] = row
        BY <1>1, <2>1, <3>2
      <3>5. QED
        BY <2>1, <3>3, <3>4
    <2>2. CASE ~(r \in Detached /\ ~Left(r))
      <3>1. records'[r] = records[r]
        BY <1>1, <2>2
      <3>2. QED
        BY <2>2, <3>1
    <2>3. QED
      BY <2>1, <2>2
  <1>4. records' \in Tables
    <2>1. \A r \in InvitedRows \cup Ids : records'[r] \in Record \cup {NoRecord}
      BY <1>2, <1>3 DEF Sound, Tables
    <2>2. QED
      BY <1>1, <2>1 DEF Tables
  <1>5. \A r \in Detached : records[r] # NoRecord
    BY DEF Detached
  <1>6. Sound(records', accountsOf)
    BY <1>2, <1>3, <1>4, <1>5, RecordsAreRows DEF Sound
  <1>7. HistoryKept(records')
    BY <1>3, RecordsAreRows DEF HistoryKept
  <1>8. QED
    BY <1>1, <1>6, <1>7, EditsKeep

LEMMA RepairsKeeps ==
  ASSUME AdmissionInv, NEW m \in Ids, Repairs(m)
  PROVE  AdmissionInv' /\ AdmissionShows
  <1>1. /\ Moves /\ records' \in Ensured(m)
        /\ UNCHANGED <<accountsOf, guests, created, invites, applications, guardianOf, linkLock, parentLock, deciding>>
    BY DEF Repairs
  <1>2. QED
    BY <1>1, EnsuredIsSound, EditsKeep

LEMMA TransitionsKeeps ==
  ASSUME AdmissionInv, NEW r \in DOMAIN records, NEW to \in {"aktiv", "ausgeschlossen"}, Transitions(r, to)
  PROVE  AdmissionInv' /\ AdmissionShows
  <1>1. /\ Moves /\ records[r] # NoRecord
        /\ records' = [records EXCEPT ![r].status = to, ![r].touched = TRUE]
        /\ UNCHANGED <<accountsOf, guests, created, invites, applications, guardianOf, linkLock, parentLock, deciding>>
    BY DEF Transitions
  <1>2. Sound(records, accountsOf) /\ accountsOf \in SUBSET Ids /\ records \in Tables /\ r \in InvitedRows \cup Ids
    BY AdmissionRest DEF Sound
  <1>3. records[r] \in Record /\ (records[r].account = 0 \/ records[r].account \in accountsOf)
    BY <1>1, <1>2 DEF Sound, Tables
  <1>4. PICK row : row = [records[r] EXCEPT !.status = to, !.touched = TRUE]
    OBVIOUS
  <1>5. row \in Record /\ row.account = records[r].account /\ row.touched
    BY <1>3, <1>4 DEF Record
  <1>6. records' = [records EXCEPT ![r] = row]
    BY <1>1, <1>2, <1>4 DEF Tables
  <1>7. Sound(records', accountsOf) /\ HistoryKept(records')
    <2>1. row.account = 0 \/ row.account \in accountsOf
      BY <1>3, <1>5
    <2>2. row \in Record /\ row.touched
      BY <1>5
    <2>3. QED
      BY <1>2, <1>6, <2>1, <2>2, RowWritten
  <1>8. QED
    BY <1>1, <1>7, EditsKeep

-----------------------------------------------------------------------------
LEMMA AdmissionStarts ==
  ASSUME AdmissionInit
  PROVE  AdmissionInv
  <1>1. /\ accountsOf = {} /\ guests = {} /\ created = 0 /\ invites = {} /\ moves = 0
        /\ applications = [a \in Applications |-> "pending"] /\ guardianOf = [k \in ChildApplications |-> 0]
        /\ linkLock = Nobody /\ parentLock = Nobody /\ deciding = [c \in Deciders |-> Idle]
    BY DEF AdmissionInit
  <1>2. 0 \in 0..MaxAccounts /\ 0 \in 0..MaxMoves
    BY AdmissionNumbers
  <1>3. Sound(records, accountsOf)
    <2>1. PICK first :
            first = [account |-> 0, known |-> FALSE, unlinked |-> FALSE, touched |-> FALSE, status |-> "aktiv"]
      OBVIOUS
    <2>2. first \in Record /\ first.account = 0
      BY <1>2, <2>1 DEF Record
    <2>3. records = [r \in InvitedRows \cup Ids |-> IF r \in InvitedRows THEN first ELSE NoRecord]
      BY <2>1 DEF AdmissionInit
    <2>4. QED
      BY <2>2, <2>3 DEF Sound, Tables
  <1>4. AdmissionTypeOK
    BY <1>1, <1>2, <1>3 DEF AdmissionTypeOK, Sound, Tables
  <1>5. \A c \in Deciders : CallRight(deciding[c])
    BY <1>1 DEF CallRight, Idle
  <1>6. QED
    BY <1>1, <1>3, <1>4, <1>5 DEF AdmissionInv

LEMMA AcceptStepKeeps ==
  ASSUME AdmissionInv, AcceptStep
  PROVE  AdmissionInv' /\ AdmissionShows
  <1>1. CASE \E r \in InvitedRows : Invites(r) \/ InviteEnds(r) \/ \E c \in Deciders : AcceptStarts(c, r)
    BY <1>1, InvitesKeeps, AcceptStartsKeeps
  <1>2. ASSUME NEW c \in Deciders,
               \/ AcceptLocks(c) \/ AcceptClaims(c) \/ AcceptAdds(c) \/ AcceptInserts(c) \/ AcceptLinks(c)
               \/ AcceptUndoes(c) \/ AcceptReleases(c) \/ AcceptMerges(c) \/ AcceptGivesUp(c)
        PROVE  AdmissionInv' /\ AdmissionShows
    BY <1>2, AcceptMovesKeeps, AcceptInsertsKeeps, AcceptLinksKeeps, AcceptUndoesKeeps,
       AcceptReleasesKeeps, AcceptMergesKeeps, AcceptGivesUpKeeps
  <1>3. QED
    BY <1>1, <1>2 DEF AcceptStep

LEMMA DecisionStepKeeps ==
  ASSUME AdmissionInv, DecisionStep
  PROVE  AdmissionInv' /\ AdmissionShows
  <1>1. ASSUME NEW c \in Deciders,
               \/ \E a \in OwnApplications : \/ ApproveStarts(c, a)
                                             \/ \E m \in accountsOf, r \in DOMAIN records : ReadmitStarts(c, a, m, r)
               \/ \E k \in ChildApplications : ChildStarts(c, k)
        PROVE  AdmissionInv' /\ AdmissionShows
    BY <1>1, DecisionStartsKeeps
  <1>2. ASSUME NEW c \in Deciders,
               \/ ApproveInserts(c) \/ ApproveEnsures(c) \/ ApproveDecides(c) \/ ReadmitDecides(c)
               \/ ChildLocks(c) \/ ChildInserts(c) \/ ChildEnsures(c) \/ ChildDecides(c)
               \/ DecisionAborts(c) \/ DecisionUndoes(c)
        PROVE  AdmissionInv' /\ AdmissionShows
    BY <1>2, AccountInserted, EnsuresKeeps, ApproveDecidesKeeps, ReadmitDecidesKeeps, ChildLocksKeeps,
       ChildDecidesKeeps, DecisionAbortsKeeps, DecisionUndoesKeeps
  <1>3. CASE \E a \in Applications, as \in {"rejected", "withdrawn"} : Closes(a, as)
    BY <1>3, ClosesKeeps
  <1>4. QED
    BY <1>1, <1>2, <1>3 DEF DecisionStep

LEMMA AdmissionStep ==
  ASSUME AdmissionInv, [AdmissionNext]_admissionVars
  PROVE  AdmissionInv' /\ ((AdmissionShows /\ ApprovedAreMembers) \/ UNCHANGED admissionVars)
  <1>1. CASE AdmissionNext
    <2>1. AdmissionInv' /\ AdmissionShows
      <3>1. CASE MembershipStep
        BY <3>1, ClosesDetachedKeeps, LeavesKeeps, RepairsKeeps, UnlinksKeeps, TransitionsKeeps DEF MembershipStep
      <3>2. QED
        BY <1>1, <3>1, AcceptStepKeeps, DecisionStepKeeps DEF AdmissionNext
    <2>2. ApprovedAreMembers
      BY ApproveDecidesKeeps DEF ApprovedAreMembers
    <2>3. QED
      BY <2>1, <2>2
  <1>2. CASE UNCHANGED admissionVars
    <2>1. AdmissionInv'
      BY <1>2 DEF admissionVars, AdmissionInv, AdmissionTypeOK, Sound, CallRight, Tables
    <2>2. QED
      BY <1>2, <2>1
  <1>3. QED
    BY <1>1, <1>2

\* An accepted invitation has linked its record or is open again, a decision that
\* fails leaves every guardian and every history alone, and who is approved is a
\* member at once: for any number of invitations, applications and concurrent calls
\* (lib/member-invites.ts, lib/form-applications.ts, routes/club-applications.ts).
THEOREM AdmissionIsSound == AdmissionSpec => AdmissionPromise
  <1>1. AdmissionInit => AdmissionInv
    BY AdmissionStarts
  <1>2. AdmissionInv /\ [AdmissionNext]_admissionVars => AdmissionInv'
    BY AdmissionStep
  <1>3. AdmissionInv /\ [AdmissionNext]_admissionVars
          => /\ [ClaimSettled]_admissionVars /\ [GuardiansKept]_admissionVars
             /\ [HistoryLasts]_admissionVars /\ [ApprovedAreMembers]_admissionVars
    BY AdmissionStep DEF AdmissionShows
  <1>4. AdmissionInv => AdmissionTypeOK
    BY DEF AdmissionInv
  <1>5. QED
    BY <1>1, <1>2, <1>3, <1>4, PTL
    DEF AdmissionSpec, AdmissionPromise, InviteNotBurnt, GuardiansStand, HistoryStands, AdmittedAtOnce
=============================================================================
