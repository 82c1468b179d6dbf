------------------------------- MODULE Media -------------------------------
(* The files of one club (src/src/lib/media.ts, lib/member-photos.ts and the   *)
(* routes that take a photo or a logo): bytes on the disk, rows of the         *)
(* registry media_files, and the feature rows that name a file. An upload      *)
(* writes the file first and registers it in a transaction under the lock of   *)
(* the club's quota; a replaced file is marked in the registry and removed     *)
(* from the disk after the commit; two sweeps clear up, and processes end      *)
(* between any two of these steps.                                             *)
EXTENDS Integers, FiniteSets

CONSTANTS
  MediaFiles,  \* storage keys, each written once: a new upload has a new key
  LogoFiles,   \* those of them that are written below <club>/branding
  MediaCalls,  \* concurrent requests
  Quota,       \* files the club may store; a file counts as one unit
  UnusedCap,   \* uploads a user may have that no feature row has claimed
  NoFile

ASSUME MediaAssumption ==
  Quota \in Nat /\ UnusedCap \in Nat /\ NoFile \notin MediaFiles /\ LogoFiles \subseteq MediaFiles

VARIABLES
  disk,        \* files stored
  registry,    \* media_files: owner_type of each key, and whether it is live
  naming,      \* club_members.photo_key, club_settings.brand_logo_key, locations.photo_key
  place,       \* does the location still exist
  aged,        \* files older than what the sweeps spare: an hour, a day
  holds,       \* FOR UPDATE on the member's row and on the settings; the quota lock
  mediaCalls,  \* requests under way
  clearing,    \* the sweep of unclaimed uploads: files it marked and still removes
  orphans      \* the sweep of orphans: files it found without a live row

mediaVars == <<disk, registry, naming, place, aged, holds, mediaCalls,
               clearing, orphans>>

Features == {"photo", "logo", "location"}
Locked == {"photo", "logo"}
Unused == "unattached"
NoMediaCall == [op |-> "none"]
Unregistered == [owner |-> "none", live |-> FALSE]
FileOrNone == MediaFiles \cup {NoFile}

MediaTypeOK ==
  /\ disk \subseteq MediaFiles /\ aged \subseteq MediaFiles
  /\ clearing \subseteq MediaFiles /\ orphans \subseteq MediaFiles
  /\ registry \in [MediaFiles -> [owner: Features \cup {Unused, "damage_report", "none"}, live: BOOLEAN]]
  /\ naming \in [Features -> FileOrNone] /\ place \in BOOLEAN
  /\ \A l \in Locked \cup {"quota"} : holds[l] \in SUBSET MediaCalls /\ Cardinality(holds[l]) <= 1

MediaInit ==
  /\ disk = {} /\ aged = {} /\ clearing = {} /\ orphans = {}
  /\ registry = [f \in MediaFiles |-> Unregistered]
  /\ naming = [x \in Features |-> NoFile] /\ place = TRUE
  /\ holds = [l \in Locked \cup {"quota"} |-> {}]
  /\ mediaCalls = [c \in MediaCalls |-> NoMediaCall]

LiveFiles == {f \in MediaFiles : registry[f].live}
UnusedFiles == {f \in LiveFiles : registry[f].owner = Unused}
Marked(rows, S) == [f \in MediaFiles |-> IF f \in S THEN [rows[f] EXCEPT !.live = FALSE] ELSE rows[f]]
UploadsWritten == {mediaCalls[c].file : c \in {d \in MediaCalls : mediaCalls[d].op \in {"storing", "counted"}}}
MediaReleased(c) == [l \in DOMAIN holds |-> holds[l] \ {c}]
Finishes(c) == mediaCalls' = [mediaCalls EXCEPT ![c] = NoMediaCall]
Turns(c, call) == mediaCalls' = [mediaCalls EXCEPT ![c] = call]

-----------------------------------------------------------------------------
\* storeUpload: POST /media, PUT of a photo or of the logo.

\* The caller's transaction locks the row and reads the file it names; the new
\* file is written to the disk before anything is registered.
StoresUpload(c, for) ==
  /\ mediaCalls[c] = NoMediaCall
  /\ \E f \in (IF for = "logo" THEN LogoFiles ELSE MediaFiles \ LogoFiles) \ disk :
       /\ registry[f] = Unregistered /\ f \notin aged \cup UploadsWritten
       /\ disk' = disk \cup {f}
       /\ Turns(c, [op |-> "storing", for |-> for, file |-> f,
                    seen |-> IF for \in Locked THEN naming[for] ELSE NoFile])
  /\ for \in Locked => holds[for] = {}
  /\ holds' = IF for \in Locked THEN [holds EXCEPT ![for] = {c}] ELSE holds
  /\ UNCHANGED <<registry, naming, place, aged, clearing, orphans>>

\* Faulty variant: the sum is read without the advisory lock.
QuotaIsFreeUnlocked == TRUE

QuotaIsFree == holds["quota"] = {}

\* assertQuota, and the cap on unclaimed uploads: a refusal rolls back and
\* removes the file again.
Counts(c) ==
  /\ mediaCalls[c].op = "storing" /\ QuotaIsFree
  /\ IF /\ Cardinality(LiveFiles) < Quota
        /\ mediaCalls[c].for = Unused => Cardinality(UnusedFiles) < UnusedCap
     THEN /\ Turns(c, [mediaCalls[c] EXCEPT !.op = "counted"])
          /\ holds' = [holds EXCEPT !["quota"] = {c}] /\ UNCHANGED disk
     ELSE /\ disk' = disk \ {mediaCalls[c].file}
          /\ Finishes(c) /\ holds' = MediaReleased(c)
  /\ UNCHANGED <<registry, naming, place, aged, clearing, orphans>>

\* A statement of the transaction fails: discardStoredFile.
DiscardsUpload(c) ==
  /\ mediaCalls[c].op \in {"storing", "counted"}
  /\ disk' = disk \ {mediaCalls[c].file}
  /\ Finishes(c) /\ holds' = MediaReleased(c)
  /\ UNCHANGED <<registry, naming, place, aged, clearing, orphans>>

\* The row is registered and the feature row names it, in one transaction. The
\* old photo of a member is marked with it, the old logo by deleteMedia after it.
Registers(c) ==
  /\ mediaCalls[c].op = "counted"
  /\ LET call == mediaCalls[c]
         old == {call.seen} \cap LiveFiles
         rows == [registry EXCEPT ![call.file] = [owner |-> call.for, live |-> TRUE]]
     IN /\ registry' = IF call.for = "photo" THEN Marked(rows, old) ELSE rows
        /\ naming' = IF call.for \in Features THEN [naming EXCEPT ![call.for] = call.file] ELSE naming
        /\ IF old = {} \/ call.for = Unused THEN Finishes(c)
           ELSE Turns(c, [op |-> IF call.for = "photo" THEN "removing" ELSE "deleting", file |-> call.seen])
  /\ holds' = MediaReleased(c)
  /\ UNCHANGED <<disk, place, aged, clearing, orphans>>

-----------------------------------------------------------------------------
\* Claiming, replacing and removing.

\* removeMemberPhoto; DELETE of the logo.
Removes(c, for) ==
  /\ mediaCalls[c] = NoMediaCall /\ for \in Locked
  /\ holds[for] = {} /\ naming[for] # NoFile
  /\ naming' = [naming EXCEPT ![for] = NoFile]
  /\ registry' = IF for = "photo" THEN Marked(registry, {naming[for]}) ELSE registry
  /\ Turns(c, [op |-> IF for = "photo" THEN "removing" ELSE "deleting", file |-> naming[for]])
  /\ UNCHANGED <<disk, place, aged, holds, clearing, orphans>>

\* deleteMedia: the tombstone, and only with it the file.
Tombstones(c) ==
  /\ mediaCalls[c].op = "deleting"
  /\ registry' = Marked(registry, {mediaCalls[c].file})
  /\ IF mediaCalls[c].file \in LiveFiles THEN Turns(c, [mediaCalls[c] EXCEPT !.op = "removing"])
     ELSE Finishes(c)
  /\ UNCHANGED <<disk, naming, place, aged, holds, clearing, orphans>>

\* purgeMediaFile, after the commit.
PurgesFile(c) ==
  /\ mediaCalls[c].op = "removing" /\ disk' = disk \ {mediaCalls[c].file} /\ Finishes(c)
  /\ UNCHANGED <<registry, naming, place, aged, holds, clearing, orphans>>

\* Faulty variant: an upload that was swept can still be claimed.
ClaimableSwept(f) == registry[f].owner = Unused

\* attachUploadedImage: one conditional UPDATE.
Claimable(f) == registry[f] = [owner |-> Unused, live |-> TRUE]

Claimed(f, for) == [registry EXCEPT ![f].owner = for]

\* POST of a damage report with a photo, which it keeps.
Reports(f) ==
  /\ Claimable(f)
  /\ registry' = Claimed(f, "damage_report")
  /\ UNCHANGED <<disk, naming, place, aged, holds, mediaCalls, clearing, orphans>>

\* PATCH and DELETE of a location read the row before their transaction.
ReadsPlace(c, wanted, deletes) ==
  /\ mediaCalls[c] = NoMediaCall /\ place
  /\ Turns(c, [op |-> "place", seen |-> naming["location"], file |-> wanted, deletes |-> deletes])
  /\ UNCHANGED <<disk, registry, naming, place, aged, holds, clearing, orphans>>

\* A new photo is claimed, or the request rolls back; the photo that was read is
\* marked if it is another one. A location deleted meanwhile is not missed.
WritesPlace(c) ==
  LET call == mediaCalls[c]
      claims == call.file \notin {NoFile, call.seen}
      marks == ({call.seen} \ {call.file}) \cap LiveFiles
  IN /\ call.op = "place"
     /\ IF claims /\ ~Claimable(call.file)
        THEN Finishes(c) /\ UNCHANGED <<registry, naming, place>>
        ELSE /\ registry' = Marked(IF claims THEN Claimed(call.file, "location") ELSE registry, marks)
             /\ naming' = [naming EXCEPT !["location"] =
                             IF ~place \/ call.deletes THEN NoFile ELSE call.file]
             /\ place' = (place /\ ~call.deletes)
             /\ IF marks = {} THEN Finishes(c) ELSE Turns(c, [op |-> "removing", file |-> call.seen])
     /\ UNCHANGED <<disk, aged, holds, clearing, orphans>>

-----------------------------------------------------------------------------
\* The sweeps, time and crashes.

\* sweepUnattachedUploads: one conditional UPDATE, then the files one by one.
SweepMarks ==
  /\ clearing = {} /\ clearing' = UnusedFiles \cap aged /\ clearing' # {}
  /\ registry' = Marked(registry, clearing')
  /\ UNCHANGED <<disk, naming, place, aged, holds, mediaCalls, orphans>>

SweepRemoves ==
  /\ \E f \in clearing : disk' = disk \ {f} /\ clearing' = clearing \ {f}
  /\ UNCHANGED <<registry, naming, place, aged, holds, mediaCalls, orphans>>

\* sweepOrphanFiles looks only into directories that are newer than the registry:
\* of the features here, the logos.
OrphansFound ==
  /\ orphans = {} /\ orphans' = (disk \cap LogoFiles) \ LiveFiles /\ orphans' # {}
  /\ UNCHANGED <<disk, registry, naming, place, aged, holds, mediaCalls, clearing>>

\* Faulty variant: the age of the file is not looked at.
OldEnoughAtOnce(f) == TRUE

OldEnough(f) == f \in aged

OrphanRemoved ==
  /\ \E f \in orphans : /\ orphans' = orphans \ {f}
                        /\ disk' = IF OldEnough(f) THEN disk \ {f} ELSE disk
  /\ UNCHANGED <<registry, naming, place, aged, holds, mediaCalls, clearing>>

\* An upload, and a batch of the sweep of orphans, are over within the hour that
\* the sweep spares.
TimePassesFor(f) ==
  /\ f \in (disk \cap (UnusedFiles \cup LogoFiles)) \ (aged \cup UploadsWritten \cup orphans) /\ aged' = aged \cup {f}
  /\ UNCHANGED <<disk, registry, naming, place, holds, mediaCalls, clearing, orphans>>

\* The process of a request ends: its transaction is rolled back, its file stays.
ProcessEnds(c) ==
  /\ mediaCalls[c] # NoMediaCall /\ Finishes(c) /\ holds' = MediaReleased(c)
  /\ UNCHANGED <<disk, registry, naming, place, aged, clearing, orphans>>

SweepEnds == /\ clearing \cup orphans # {} /\ clearing' = {} /\ orphans' = {}
             /\ UNCHANGED <<disk, registry, naming, place, aged, holds, mediaCalls>>

MediaNext ==
  \/ \E c \in MediaCalls :
       \/ \E for \in Locked \cup {Unused} : StoresUpload(c, for)
       \/ Counts(c) \/ DiscardsUpload(c) \/ Registers(c) \/ Tombstones(c) \/ PurgesFile(c) \/ ProcessEnds(c)
       \/ \E for \in Locked : Removes(c, for)
       \/ \E f \in UnusedFiles \cup {naming["location"], NoFile} : ReadsPlace(c, f, FALSE)
       \/ ReadsPlace(c, NoFile, TRUE) \/ WritesPlace(c)
  \/ \E f \in MediaFiles : Reports(f) \/ TimePassesFor(f)
  \/ SweepMarks \/ SweepRemoves \/ OrphansFound \/ OrphanRemoved \/ SweepEnds

MediaSpec == MediaInit /\ [][MediaNext]_mediaVars

-----------------------------------------------------------------------------
\* Properties

\* "Parallel uploads cannot overshoot the quota", although each writes its file
\* before it counts and counts before it registers.
QuotaKept == Cardinality(LiveFiles) <= Quota

\* Whatever is registered can be served: neither a sweep that listed the disk
\* before a row was committed nor a refused upload removes its file.
LiveHaveFiles == LiveFiles \subseteq disk

\* What a member, the settings or a damage report name is registered and live: a
\* claim and the sweep of unclaimed uploads never both get the same file.
NamedAreServed ==
  /\ {naming[x] : x \in Locked} \ {NoFile} \subseteq LiveFiles
  /\ \A f \in MediaFiles : registry[f].owner = "damage_report" => registry[f].live

\* Of the photos of a member only the current one is left, whoever replaces or
\* removes it at the same time and wherever a process ends.
OnePhotoLeft == \A f \in LiveFiles : registry[f].owner = "photo" => f = naming["photo"]

MediaPromise == /\ [](MediaTypeOK /\ QuotaKept)
                /\ [](LiveHaveFiles /\ NamedAreServed /\ OnePhotoLeft)

\* routes/locations.ts:262: "A replaced / removed photo is deleted". Of two PATCHes
\* that read the same photo each deletes that one and none deletes the other's.
ReplacedPlacePhotoIsGone ==
  \A f \in LiveFiles : registry[f].owner = "location" => f = naming["location"]
=============================================================================
