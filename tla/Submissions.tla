------------------------------ MODULE Submissions ------------------------------
(***************************************************************************)
(* The application form: the board publishes its versions, an applicant fills *)
(* in drafts, uploads files, submits or withdraws, the board decides, and     *)
(* sweeps remove what is abandoned (src/src/routes/form-submissions.ts,      *)
(* routes/forms.ts, lib/form-sweeper.ts, lib/form-applications.ts).          *)
(*                                                                         *)
(* A transaction that holds the row lock of its submission is one step.  An    *)
(* upload is two: the file is stored first, and joins the draft in a short    *)
(* transaction; a process that ends in between leaves a file behind.  A sweep  *)
(* lists, and later takes one entry after the other.                        *)
(***************************************************************************)
EXTENDS Integers, FiniteSets

CONSTANTS
  Subs,         \* submissions of one applicant in one club
  Uploads,      \* concurrent uploads, each of its own file
  MaxVersions,  \* published versions of the form
  MaxDrafts,    \* MAX_DRAFTS_PER_CLUB, and the limit of open child applications
  MaxFiles      \* MAX_FILES_PER_SUBMISSION and the cap of the open drafts

ASSUME SubmissionsAssumption ==
  /\ MaxVersions \in Nat \ {0} /\ {MaxDrafts, MaxFiles} \subseteq Nat
  /\ "none" \notin Subs  \* an upload that is under way differs from none

VARIABLES
  drafted,     \* form_versions: there is a draft of the next version
  versions,    \* versions published so far
  published,   \* the published version; 0: the form is archived
  subs,        \* form_submissions
  filed,       \* club_applications, by submission
  stored,      \* media_files that belong to a submission
  lost,        \* stored by an upload that ended with its process
  uploading,   \* uploads under way
  swept        \* drafts that the running sweep has listed

submissionsVars == <<drafted, versions, published, subs, filed, stored, lost, uploading, swept>>
form == <<drafted, versions, published>>

-----------------------------------------------------------------------------
NoSubmission == [status |-> "none"]
NoUpload == [to |-> "none"]

\* old: idle longer than the time to live; answered: answers not erased.
Submission == [status: {"draft", "submitted", "accepted", "rejected", "withdrawn"},
               version: 1..MaxVersions, child: BOOLEAN, files: SUBSET Uploads,
               old: BOOLEAN, answered: BOOLEAN]

SubmissionsTypeOK ==
  /\ drafted \in BOOLEAN /\ versions \in 0..MaxVersions /\ published \in 0..versions
  /\ subs \in [Subs -> Submission \cup {NoSubmission}]
  /\ filed \in [Subs -> {"none", "pending", "approved", "rejected", "withdrawn"}]
  /\ stored \subseteq Uploads /\ lost \subseteq stored
  /\ uploading \in [Uploads -> [to: Subs] \cup {NoUpload}]
  /\ swept \subseteq Subs

SubmissionsInit ==
  /\ drafted = FALSE /\ versions = 1 /\ published = 1
  /\ subs = [s \in Subs |-> NoSubmission]
  /\ filed = [s \in Subs |-> "none"]
  /\ stored = {} /\ lost = {}
  /\ uploading = [u \in Uploads |-> NoUpload]
  /\ swept = {}

-----------------------------------------------------------------------------
In(status) == {s \in Subs : subs[s].status = status}
Is(s, status) == subs[s].status = status

\* resolveTarget: the version the draft was filled in for is still the published one.
OnTarget(s) == published # 0 /\ subs[s].version = published

\* assertMayApply: for oneself only one application at a time, and none by a member.
MayApply ==
  \A s \in Subs : ~(subs[s] # NoSubmission /\ ~subs[s].child /\ subs[s].status \in {"submitted", "accepted"})

\* Draft limit; a guardian's open applications are counted together.
MayBegin(child) ==
  IF child THEN Cardinality({s \in In("draft") \cup In("submitted") : subs[s].child}) < MaxDrafts
  ELSE MayApply

Touch(s) == [subs[s] EXCEPT !.old = FALSE]
Put(s, sub) == subs' = [subs EXCEPT ![s] = sub]
FilesOf(s) == IF subs[s] = NoSubmission THEN {} ELSE subs[s].files

-----------------------------------------------------------------------------
\* routes/forms.ts: a draft of the form is saved or discarded,
SavesForm ==
  /\ versions < MaxVersions
  /\ drafted' = ~drafted
  /\ UNCHANGED <<versions, published, subs, filed, stored, lost, uploading, swept>>

\* published: the previous version is archived in the same transaction,
Publishes ==
  /\ drafted /\ versions < MaxVersions
  /\ drafted' = FALSE /\ versions' = versions + 1 /\ published' = versions'
  /\ UNCHANGED <<subs, filed, stored, lost, uploading, swept>>

\* or archived as a whole; a standard form takes its place on the next access.
ArchivesForm ==
  /\ published # 0
  /\ published' = 0 /\ drafted' = FALSE
  /\ UNCHANGED <<versions, subs, filed, stored, lost, uploading, swept>>

SeedsForm ==
  /\ published = 0 /\ versions < MaxVersions
  /\ versions' = versions + 1 /\ published' = versions'
  /\ UNCHANGED <<drafted, subs, filed, stored, lost, uploading, swept>>

-----------------------------------------------------------------------------
Begun(child) == [status |-> "draft", version |-> published, child |-> child, files |-> {},
                 old |-> FALSE, answered |-> TRUE]

\* POST /form-submissions
Begins(s, child) ==
  /\ subs[s] = NoSubmission /\ published # 0
  /\ MayBegin(child)
  /\ Cardinality(In("draft")) < MaxDrafts
  /\ Put(s, Begun(child))
  /\ UNCHANGED <<form, filed, stored, lost, uploading, swept>>

\* PATCH: moving to another version drops the files whose field is gone.
Edits(s, kept) ==
  /\ Is(s, "draft") /\ published # 0
  /\ kept \subseteq subs[s].files /\ (OnTarget(s) => kept = subs[s].files)
  /\ Put(s, [Touch(s) EXCEPT !.version = published, !.files = kept])
  /\ stored' = stored \ (subs[s].files \ kept)
  /\ UNCHANGED <<form, filed, lost, uploading, swept>>

\* DELETE /:id
Discards(s) ==
  /\ Is(s, "draft")
  /\ Put(s, NoSubmission) /\ stored' = stored \ subs[s].files
  /\ UNCHANGED <<form, filed, lost, uploading, swept>>

\* POST /:id/files: first the cheap checks, and the file.
Stores(u, s) ==
  /\ uploading[u] = NoUpload /\ u \notin stored
  /\ Is(s, "draft") /\ OnTarget(s)
  /\ uploading' = [uploading EXCEPT ![u] = [to |-> s]]
  /\ stored' = stored \cup {u}
  /\ UNCHANGED <<form, subs, filed, lost, swept>>

\* The checks again, under the lock.
AcceptsUpload(u) ==
  LET s == uploading[u].to
  IN /\ Is(s, "draft") /\ OnTarget(s)
     /\ Cardinality(UNION {FilesOf(t) : t \in In("draft")}) < MaxFiles

\* Then the file joins the draft; an image takes the place of the earlier one.
Attaches(u) ==
  LET s == uploading[u].to
  IN /\ uploading[u] # NoUpload /\ AcceptsUpload(u)
     /\ \E replaced \in SUBSET subs[s].files :
          /\ Cardinality(replaced) <= 1
          /\ Put(s, [Touch(s) EXCEPT !.files = (@ \ replaced) \cup {u}])
          /\ stored' = stored \ replaced
     /\ uploading' = [uploading EXCEPT ![u] = NoUpload]
     /\ UNCHANGED <<form, filed, lost, swept>>

\* ...or the stored file is removed again, unless the process ends before.
UploadFails(u) ==
  /\ uploading[u] # NoUpload
  /\ uploading' = [uploading EXCEPT ![u] = NoUpload]
  /\ \/ stored' = stored \ {u} /\ UNCHANGED lost
     \/ lost' = lost \cup {u} /\ UNCHANGED stored
  /\ UNCHANGED <<form, subs, filed, swept>>

\* DELETE /:id/files/:fileId
RemovesFile(s, u) ==
  /\ Is(s, "draft") /\ u \in subs[s].files
  /\ Put(s, [Touch(s) EXCEPT !.files = @ \ {u}])
  /\ stored' = stored \ {u}
  /\ UNCHANGED <<form, filed, lost, uploading, swept>>

\* submitDraftInTx: files of fields that the answers hide go; the application is
\* filed with it.
Submitted(s, sub, hidden) ==
  /\ hidden \subseteq sub.files
  /\ Put(s, [sub EXCEPT !.status = "submitted", !.old = FALSE, !.files = @ \ hidden])
  /\ filed' = [filed EXCEPT ![s] = "pending"]
  /\ stored' = stored \ hidden
  /\ UNCHANGED <<form, lost, uploading, swept>>

Submits(s, hidden) ==
  /\ Is(s, "draft") /\ OnTarget(s)
  /\ (subs[s].child \/ MayApply) = TRUE
  /\ Submitted(s, subs[s], hidden)

\* POST /club-members/apply with answers: begun and submitted in one transaction.
Applies(s, child) ==
  /\ subs[s] = NoSubmission /\ published # 0
  /\ MayBegin(child)
  /\ Submitted(s, Begun(child), {})

\* closeApplicationOfSubmission
Closed(s) == IF filed[s] = "pending" THEN [filed EXCEPT ![s] = "withdrawn"] ELSE filed

\* POST /:id/withdraw
Withdraws(s) ==
  /\ subs[s].status \in {"draft", "submitted"}
  /\ Put(s, [Touch(s) EXCEPT !.status = "withdrawn", !.files = {}])
  /\ stored' = stored \ subs[s].files
  /\ filed' = Closed(s)
  /\ UNCHANGED <<form, lost, uploading, swept>>

-----------------------------------------------------------------------------
\* lockDecisionSubmission, and the claim of the application.
Decidable(s) == Is(s, "submitted") /\ filed[s] = "pending"

\* Approval: the photo goes over to the member, its file row goes.
Accepts(s, photo) ==
  /\ Decidable(s)
  /\ photo \subseteq subs[s].files /\ Cardinality(photo) <= 1
  /\ Put(s, [Touch(s) EXCEPT !.status = "accepted", !.files = @ \ photo])
  /\ filed' = [filed EXCEPT ![s] = "approved"]
  /\ stored' = stored \ photo
  /\ UNCHANGED <<form, lost, uploading, swept>>

Rejects(s) ==
  /\ Decidable(s)
  /\ Put(s, [Touch(s) EXCEPT !.status = "rejected"])
  /\ filed' = [filed EXCEPT ![s] = "rejected"]
  /\ UNCHANGED <<form, stored, lost, uploading, swept>>

-----------------------------------------------------------------------------
\* The time to live passes.
Ages(s) ==
  /\ subs[s].status \in {"draft", "rejected", "withdrawn"} /\ ~subs[s].old
  /\ Put(s, [subs[s] EXCEPT !.old = TRUE])
  /\ UNCHANGED <<form, filed, stored, lost, uploading, swept>>

\* sweepStaleFormDrafts
ListsStale ==
  /\ swept' = {s \in In("draft") : subs[s].old}
  /\ UNCHANGED <<form, subs, filed, stored, lost, uploading>>

\* Faulty variant: what was stale when it was listed is stale.
StaleWhenListed(s) == Is(s, "draft")

\* Looked at again under the row lock.
Stale(s) == Is(s, "draft") /\ subs[s].old

SweepsDraft(s) ==
  /\ s \in swept
  /\ swept' = swept \ {s}
  /\ IF Stale(s) THEN Put(s, NoSubmission) /\ stored' = stored \ subs[s].files
     ELSE UNCHANGED <<subs, stored>>
  /\ UNCHANGED <<form, filed, lost, uploading>>

\* Files older than an hour without a row: no upload takes that long.
SweepsOrphans ==
  /\ lost # {}
  /\ stored' = stored \ lost /\ lost' = {}
  /\ UNCHANGED <<form, subs, filed, uploading, swept>>

\* sweepRejectedFormFiles
ExpiresFiles(s) ==
  /\ Is(s, "rejected") /\ subs[s].old /\ subs[s].files # {}
  /\ Put(s, [subs[s] EXCEPT !.files = {}]) /\ stored' = stored \ subs[s].files
  /\ UNCHANGED <<form, filed, lost, uploading, swept>>

\* sweepRejectedChildAnswers
ErasesAnswers(s) ==
  /\ subs[s].status \in {"rejected", "withdrawn"} /\ subs[s].child /\ subs[s].old /\ subs[s].answered
  /\ Put(s, [Touch(s) EXCEPT !.answered = FALSE])
  /\ UNCHANGED <<form, filed, stored, lost, uploading, swept>>

-----------------------------------------------------------------------------
SubmissionsNext ==
  \/ SavesForm \/ Publishes \/ ArchivesForm \/ SeedsForm \/ ListsStale \/ SweepsOrphans
  \/ \E s \in Subs :
       \/ \E child \in BOOLEAN : Begins(s, child) \/ Applies(s, child)
       \/ \E some \in SUBSET FilesOf(s) : Edits(s, some) \/ Submits(s, some) \/ Accepts(s, some)
       \/ Discards(s) \/ Withdraws(s) \/ Rejects(s) \/ Ages(s)
       \/ SweepsDraft(s) \/ ExpiresFiles(s) \/ ErasesAnswers(s)
       \/ \E u \in Uploads : Stores(u, s) \/ RemovesFile(s, u)
  \/ \E u \in Uploads : Attaches(u) \/ UploadFails(u)

SubmissionsSpec == SubmissionsInit /\ [][SubmissionsNext]_submissionsVars

-----------------------------------------------------------------------------
\* Properties

\* "A submitted application form always has exactly one application": what the
\* board sees and what the applicant sees is decided together.
FiledTogether ==
  \A s \in Subs :
    filed[s] = CASE Is(s, "submitted") -> "pending" [] Is(s, "accepted") -> "approved"
                 [] Is(s, "rejected") -> "rejected"
                 [] OTHER -> IF filed[s] = "withdrawn" /\ Is(s, "withdrawn") THEN "withdrawn" ELSE "none"

\* The uploads of a form exist as long as it names them, and none but those: an
\* upload that met a withdrawal, a decision or a new version leaves nothing behind,
\* and a withdrawn application keeps no files.
FilesAreStored ==
  /\ stored \ (lost \cup {u \in Uploads : uploading[u] # NoUpload}) = UNION {FilesOf(s) : s \in Subs}
  /\ \A s \in In("withdrawn") : subs[s].files = {}

\* "A draft that was touched meanwhile (or submitted) stays."
SweepSparesTouched ==
  [][\A s \in Subs : subs[s] # NoSubmission /\ subs'[s] = NoSubmission
       => Discards(s) \/ (Is(s, "draft") /\ subs[s].old)]_submissionsVars

\* Nobody applies for the same club twice at a time.
OneOwnApplication ==
  Cardinality({s \in Subs : subs[s] # NoSubmission /\ ~subs[s].child /\ filed[s] = "pending"}) <= 1

SubmissionsPromise ==
  [](SubmissionsTypeOK /\ FiledTogether /\ FilesAreStored /\ OneOwnApplication) /\ SweepSparesTouched
=============================================================================
