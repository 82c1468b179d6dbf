-------------------------------- MODULE Archive --------------------------------
(***************************************************************************)
(* The document archive and the personal storage: upload, versions, trash,    *)
(* final deletion, legal hold, retention and acknowledgements                *)
(* (src/src/routes/documents.ts, routes/member-documents.ts,                 *)
(* routes/acknowledgements.ts, lib/documents.ts, lib/document-retention.ts).  *)
(*                                                                         *)
(* Almost every handler reads the document first and writes later, without a  *)
(* lock in between: a call is opened with what it read and ended by what it   *)
(* writes.  A final deletion has three steps: the check of the handler or the  *)
(* list of the sweep, the snapshot of the locking query, and the lock, under   *)
(* which only the columns of the row itself are evaluated again.             *)
(***************************************************************************)
EXTENDS Integers, FiniteSets

CONSTANTS
  Docs,        \* documents
  DocCallers,     \* requests and sweeps under way at the same time
  MaxPapers  \* MAX_VERSIONS_PER_DOCUMENT

ASSUME ArchiveAssumption == MaxPapers \in Nat \ {0}

VARIABLES
  archive,     \* documents
  acks,        \* document_acknowledgements of one person, by document and version
  papers,      \* calls under way
  retention    \* the daily retention run

archiveVars == <<archive, acks, papers, retention>>

-----------------------------------------------------------------------------
NoDoc == [status |-> "none"]
NoPaper == [kind |-> "none"]
NoRun == [phase |-> "idle", mark |-> {}, delete |-> {}]
Answers == {"bestaetigt", "abgelehnt"}

\* kept: the retention date is not set, not reached, or over; old: in the trash
\* for TRASH_RETENTION_DAYS, or marked for RETENTION_NOTICE_DAYS.
Document == [status: {"aktiv", "im_papierkorb", "zur_loeschung"}, own: BOOLEAN, held: BOOLEAN,
             kept: {"no", "runs", "over"}, old: BOOLEAN, version: 1..MaxPapers]

\* What a call has read: pending is whether a held document was marked for deletion.
Paper == [kind: {"trash", "restore", "release"}, doc: Docs]
   \cup [kind: {"hold"}, doc: Docs, pending: BOOLEAN]
   \cup [kind: {"ask"} \cup Answers, doc: Docs, version: 1..MaxPapers]
   \cup [kind: {"check", "lock"}, docs: SUBSET Docs]
   \cup [kind: {"erase"}, docs: SUBSET Docs]

ArchiveTypeOK ==
  /\ archive \in [Docs -> Document \cup {NoDoc}]
  /\ acks \in [Docs -> [1..MaxPapers -> {"none", "offen"} \cup Answers]]
  /\ papers \in [DocCallers -> Paper \cup {NoPaper}]
  /\ retention \in [phase: {"idle", "listed", "released", "marked", "chosen"}, mark: SUBSET Docs, delete: SUBSET Docs]

NoAcks == [v \in 1..MaxPapers |-> "none"]

ArchiveInit ==
  /\ archive = [d \in Docs |-> NoDoc] /\ acks = [d \in Docs |-> NoAcks]
  /\ papers = [c \in DocCallers |-> NoPaper] /\ retention = NoRun

-----------------------------------------------------------------------------
Stored == {d \in Docs : archive[d] # NoDoc}
Of(status) == {d \in Stored : archive[d].status = status}
Acknowledged(d) == \E v \in 1..MaxPapers : acks[d][v] # "none"

UnprotectedByDate(d) == archive[d].kept # "runs"
\* purgeDocuments, the row's own columns: no legal hold, no retention date ahead.
Unprotected(d) == ~archive[d].held /\ archive[d].kept # "runs"
\* purgeableCondition without its status
Purgeable(d) == Unprotected(d) /\ ~Acknowledged(d)

\* runDocumentRetention
DueForRetention(d) == ~archive[d].held /\ archive[d].kept = "over"

Update(d, doc) == archive' = [archive EXCEPT ![d] = doc]
\* updatedAt is set anew: the days of the notice begin again.
Touched(doc) == [doc EXCEPT !.old = doc.status = "im_papierkorb" /\ doc.old]

\* The rows go, and what refers to them with ON DELETE CASCADE.
RemovesDocument(docs) ==
  /\ archive' = [d \in Docs |-> IF d \in docs THEN NoDoc ELSE archive[d]]
  /\ acks' = [d \in Docs |-> IF d \in docs THEN NoAcks ELSE acks[d]]

Opens(c, paper) ==
  /\ papers[c] = NoPaper
  /\ papers' = [papers EXCEPT ![c] = paper]
  /\ UNCHANGED <<archive, acks, retention>>
EndsRequest(c) == papers' = [papers EXCEPT ![c] = NoPaper]

-----------------------------------------------------------------------------
\* createUploadedDocument; a generated document may come with a retention date.
UploadsDocument(d, own, kept) ==
  /\ archive[d] = NoDoc /\ \A c \in DocCallers : papers[c] = NoPaper   \* an id of its own
  /\ d \notin retention.mark \cup retention.delete
  /\ kept # "over"
  /\ Update(d, [status |-> "aktiv", own |-> own, held |-> FALSE, kept |-> kept, old |-> FALSE, version |-> 1])
  /\ UNCHANGED <<acks, papers, retention>>

\* addUploadedVersion holds the row while the file is stored.
AddsVersion(d) ==
  /\ d \in Of("aktiv") /\ archive[d].version < MaxPapers
  /\ Update(d, [Touched(archive[d]) EXCEPT !.version = @ + 1])
  /\ UNCHANGED <<acks, papers, retention>>

\* PATCH /:id, hide and unhide
Renames(d) ==
  /\ d \in Stored /\ Update(d, Touched(archive[d]))
  /\ UNCHANGED <<acks, papers, retention>>

\* syncExitRetention: the member leaves, the proofs get their date.
DatesProof(d) ==
  /\ d \in Stored /\ archive[d].own /\ archive[d].kept = "no"
  /\ Update(d, [archive[d] EXCEPT !.kept = "runs"])
  /\ UNCHANGED <<acks, papers, retention>>

DaysPass(d) ==
  /\ d \in Stored
  /\ \/ archive[d].status # "aktiv" /\ ~archive[d].old /\ Update(d, [archive[d] EXCEPT !.old = TRUE])
     \/ archive[d].kept = "runs" /\ Update(d, [archive[d] EXCEPT !.kept = "over"])
  /\ UNCHANGED <<acks, papers, retention>>

-----------------------------------------------------------------------------
\* DELETE /:id and POST /:id/restore read the status; their update has no condition on it.
ReadsForTrash(c, d) == d \in Of("aktiv") /\ ~archive[d].own /\ Opens(c, [kind |-> "trash", doc |-> d])
ReadsForRestore(c, d) == d \in Of("im_papierkorb") /\ Opens(c, [kind |-> "restore", doc |-> d])

\* PUT /:id/legal-hold calls a pending deletion off, as it read it.
ReadsForHold(c, d) ==
  /\ d \in Stored
  /\ \/ Opens(c, [kind |-> "hold", doc |-> d, pending |-> archive[d].status = "zur_loeschung"])
     \/ Opens(c, [kind |-> "release", doc |-> d])

Written(paper, doc) ==
  CASE paper.kind = "trash" -> [doc EXCEPT !.status = "im_papierkorb", !.old = FALSE]
    [] paper.kind = "restore" -> [doc EXCEPT !.status = "aktiv", !.old = FALSE]
    [] paper.kind = "release" -> [Touched(doc) EXCEPT !.held = FALSE]
    [] paper.kind = "hold" -> [Touched(doc) EXCEPT !.held = TRUE, !.status = IF paper.pending THEN "aktiv" ELSE @]

Writes(c) ==
  /\ papers[c].kind \in {"trash", "restore", "hold", "release"}
  /\ LET d == papers[c].doc IN
       archive' = IF d \in Stored THEN [archive EXCEPT ![d] = Written(papers[c], @)] ELSE archive
  /\ EndsRequest(c)
  /\ UNCHANGED <<acks, retention>>

-----------------------------------------------------------------------------
\* DELETE /:id/permanent, removeForGood, and the trash as a whole or its old part.
ChecksOne(c, d) ==
  /\ d \in Stored /\ (archive[d].own \/ d \in Of("im_papierkorb"))
  /\ Purgeable(d) /\ Opens(c, [kind |-> "check", docs |-> {d}])

ListsTrash(c) ==
  LET due == {d \in Of("im_papierkorb") : Purgeable(d)} IN
    /\ due # {}
    /\ \/ Opens(c, [kind |-> "check", docs |-> due])
       \/ /\ \E d \in due : archive[d].old
          /\ Opens(c, [kind |-> "check", docs |-> {d \in due : archive[d].old}])

\* The query that locks: its snapshot decides about the acknowledgements,
SnapshotsPurge(c) ==
  /\ papers[c].kind = "check"
  /\ papers' = [papers EXCEPT ![c] = [kind |-> "lock", docs |-> {d \in papers[c].docs \cap Stored : Purgeable(d)}]]
  /\ UNCHANGED <<archive, acks, retention>>

\* the locked row about the hold and the date.
Purges(c) ==
  /\ papers[c].kind = "lock"
  /\ RemovesDocument({d \in papers[c].docs \cap Stored : Unprotected(d)})
  /\ EndsRequest(c)
  /\ UNCHANGED <<retention>>

\* documentData.eraseSubject: read without a lock, and deleted.
ReadsForErasure(c) ==
  LET own == {d \in Stored : archive[d].own /\ Unprotected(d)} IN
    own # {} /\ Opens(c, [kind |-> "erase", docs |-> own])

Erases(c) ==
  /\ papers[c].kind = "erase"
  /\ RemovesDocument(papers[c].docs) /\ EndsRequest(c)
  /\ UNCHANGED <<retention>>

-----------------------------------------------------------------------------
\* runDocumentRetention: two lists,
RetentionLists ==
  /\ retention.phase = "idle"
  /\ LET due == {d \in Stored : DueForRetention(d)} IN
       retention' = [phase |-> "listed", mark |-> due \ Of("zur_loeschung"),
                     delete |-> {d \in due \cap Of("zur_loeschung") : archive[d].old}]
  /\ UNCHANGED <<archive, acks, papers>>

\* held documents come back,
RetentionReleases ==
  /\ retention.phase = "listed"
  /\ archive' = [d \in Docs |-> IF d \in Of("zur_loeschung") /\ archive[d].held
                                THEN [archive[d] EXCEPT !.status = "aktiv", !.old = FALSE] ELSE archive[d]]
  /\ retention' = [retention EXCEPT !.phase = "released"]
  /\ UNCHANGED <<acks, papers>>

\* the first list is marked by id alone,
RetentionMarks ==
  /\ retention.phase = "released"
  /\ archive' = [d \in Docs |-> IF d \in retention.mark \cap Stored
                                THEN [archive[d] EXCEPT !.status = "zur_loeschung", !.old = FALSE] ELSE archive[d]]
  /\ retention' = [retention EXCEPT !.phase = "marked"]
  /\ UNCHANGED <<acks, papers>>

\* and of the second what is still marked is purged, acknowledged or not.
RetentionChooses ==
  /\ retention.phase = "marked"
  /\ retention' = [retention EXCEPT !.phase = "chosen",
                                    !.delete = {d \in @ \cap Of("zur_loeschung") : ~archive[d].held}]
  /\ UNCHANGED <<archive, acks, papers>>

RetentionPurges ==
  /\ retention.phase = "chosen"
  /\ RemovesDocument({d \in retention.delete \cap Stored : Unprotected(d)})
  /\ retention' = NoRun
  /\ UNCHANGED <<papers>>

-----------------------------------------------------------------------------
\* POST /acknowledgements/requests for the current version,
ReadsForAsk(c, d) ==
  /\ d \in Of("aktiv") /\ ~archive[d].own
  /\ Opens(c, [kind |-> "ask", doc |-> d, version |-> archive[d].version])

\* under the lock of the version: a decided request stays as it is.
AsksAgain(ack) == IF ack \in Answers THEN ack ELSE "offen"
Asks(c) ==
  /\ papers[c].kind = "ask"
  /\ LET d == papers[c].doc IN
       acks' = IF d \in Stored THEN [acks EXCEPT ![d][papers[c].version] = AsksAgain(@)] ELSE acks
  /\ EndsRequest(c)
  /\ UNCHANGED <<archive, retention>>

\* POST /:id/confirm (of an active document) and /:id/paper read the request; that an
\* open one past its due date takes no digital answer is left out,
ReadsForAnswer(c, d, v, answer) ==
  /\ d \in Stored /\ acks[d][v] = "offen"
  /\ Opens(c, [kind |-> answer, doc |-> d, version |-> v])

\* and decide it if nobody did: the first answer wins.
Undecided(d, v) == acks[d][v] = "offen"
GivesAnswer(c) ==
  /\ papers[c].kind \in Answers
  /\ LET d == papers[c].doc  v == papers[c].version IN
       acks' = IF Undecided(d, v) THEN [acks EXCEPT ![d][v] = papers[c].kind] ELSE acks
  /\ EndsRequest(c)
  /\ UNCHANGED <<archive, retention>>

-----------------------------------------------------------------------------
Paperwork(c) ==
  \/ \E d \in Docs : \/ ReadsForTrash(c, d) \/ ReadsForRestore(c, d) \/ ReadsForHold(c, d)
                     \/ ChecksOne(c, d) \/ ReadsForAsk(c, d)
                     \/ \E v \in 1..MaxPapers, answer \in Answers : ReadsForAnswer(c, d, v, answer)
  \/ ListsTrash(c) \/ ReadsForErasure(c)
  \/ Writes(c) \/ SnapshotsPurge(c) \/ Purges(c) \/ Erases(c) \/ Asks(c) \/ GivesAnswer(c)

RetentionStep ==
  RetentionLists \/ RetentionReleases \/ RetentionMarks \/ RetentionChooses \/ RetentionPurges

ArchiveNext ==
  \/ \E d \in Docs : \/ \E own \in BOOLEAN, kept \in {"no", "runs"} : UploadsDocument(d, own, kept)
                     \/ AddsVersion(d) \/ DatesProof(d) \/ DaysPass(d) \/ Renames(d)
  \/ \E c \in DocCallers : Paperwork(c)
  \/ RetentionStep

ArchiveSpec == ArchiveInit /\ [][ArchiveNext]_archiveVars

-----------------------------------------------------------------------------
IsRemoved(d) == d \in Stored /\ archive'[d] = NoDoc

\* A document under legal hold is never deleted, whichever check passed before the
\* hold was set: by hand, from the trash or by the retention run (lib/documents.ts,
\* "a legal hold or retention date set after the caller selected the documents
\* wins").  The erasure of a person takes no lock and is left out here.
HeldIsKept ==
  \A d \in Docs : IsRemoved(d) /\ archive[d].held => \E c \in DocCallers : papers[c].kind = "erase" /\ d \in papers[c].docs

\* The first answer stands: neither a second answer, nor paper, nor a renewed
\* request changes it; it leaves with its document.
AnswersStand ==
  \A d \in Docs, v \in 1..MaxPapers :
    acks[d][v] \in Answers => acks'[d][v] = acks[d][v] \/ IsRemoved(d)

\* A date that is still running keeps the document whoever wants it gone,
\* but for the person whose erasure has read it before.
DatedIsKept ==
  \A d \in Docs : IsRemoved(d) /\ archive[d].kept = "runs" => \E c \in DocCallers : papers[c].kind = "erase" /\ d \in papers[c].docs

\* Documents leave the archive only as the rules of hold, date and proof allow,
\* and answered requests keep their answer.
ArchivePromise == []ArchiveTypeOK /\ [][HeldIsKept /\ DatedIsKept /\ AnswersStand]_archiveVars

\* "Only documents in the trash can be deleted for good" (routes/documents.ts:476):
\* an active document of the archive is not removed.
RestoredIsKept == [][\A d \in Docs : IsRemoved(d) /\ ~archive[d].own => archive[d].status # "aktiv"]_archiveVars

\* "a purge by hand or by the trash job therefore refuses documents that still carry
\* acknowledgements" (lib/documents.ts:167): the proof leaves only after its period.
ProofStaysWithDocument ==
  [][\A d \in Docs : IsRemoved(d) /\ Acknowledged(d) /\ ~archive[d].own => archive[d].kept = "over"]_archiveVars
=============================================================================
