------------------------------ MODULE FolderTree ------------------------------
(***************************************************************************)
(* The folders of the document archive: created, moved, removed, and given     *)
(* rights that the folders below inherit (src/src/routes/documents.ts,        *)
(* lib/document-access.ts).                                                *)
(*                                                                         *)
(* A request loads the whole tree, checks what it is about to do, and writes   *)
(* later; nothing is locked in between.  Only foreign keys are checked at the  *)
(* moment of the write.                                                    *)
(***************************************************************************)
EXTENDS Integers, FiniteSets

CONSTANTS
  Folders,     \* folders
  Editors,     \* requests under way at the same time
  MaxDepth,    \* MAX_FOLDER_DEPTH
  Top, Gone    \* no parent folder; no such folder

ASSUME FolderAssumption == MaxDepth \in Nat \ {0} /\ {Top, Gone} \cap Folders = {} /\ Top # Gone

VARIABLES
  parent,      \* document_folders.parent_id
  ruled,       \* folders with rows of their own in document_permissions
  filled,      \* folders that hold documents, in the trash or not
  moving       \* what a request is about to write

foldersVars == <<parent, ruled, filled, moving>>

NoMove == [folder |-> Gone, to |-> Top, new |-> FALSE]

FoldersTypeOK ==
  /\ parent \in [Folders -> Folders \cup {Top, Gone}]
  /\ ruled \subseteq Folders /\ filled \subseteq Folders
  /\ moving \in [Editors -> [folder: Folders, to: Folders \cup {Top}, new: BOOLEAN] \cup {NoMove}]

FoldersInit ==
  /\ parent = [f \in Folders |-> Gone] /\ ruled = {} /\ filled = {}
  /\ moving = [e \in Editors |-> NoMove]

-----------------------------------------------------------------------------
Live == {f \in Folders : parent[f] # Gone}

\* A folder with what lies above it, at most n steps up.
Above[f \in Folders, n \in 0..MaxDepth + 1] ==
  IF n = 0 THEN {f} ELSE LET up == Above[f, n - 1] IN up \cup ({parent[g] : g \in up} \cap Folders)
Path(f) == Above[f, MaxDepth + 1]

\* folderDepth, subtreeIds and subtreeHeight of the tree as it was loaded
Depth(f) == Cardinality(Path(f))
Below(f) == {g \in Live : f \in Path(g)}
Height(f) == CHOOSE h \in 1..Cardinality(Folders) :
               /\ \A g \in Below(f) : Depth(g) - Depth(f) < h
               /\ \E g \in Below(f) : Depth(g) - Depth(f) = h - 1

\* folderLevel and nearestFolderWithRights: the nearest folder with rows of its own decides.
DecidingFolder(f) == {g \in Path(f) \cap ruled : \A h \in Path(f) \cap ruled : g \in Path(h) => g = h}

MovableAlone(f, to) == to \in Live \ Below(f) /\ Depth(to) < MaxDepth
\* A move is refused into the folder's own subtree, and where it would get too deep.
Movable(f, to) == to \in Live \ Below(f) /\ Depth(to) + Height(f) <= MaxDepth

-----------------------------------------------------------------------------
OpensBranch(e, write) == moving[e] = NoMove /\ moving' = [moving EXCEPT ![e] = write]

\* POST /folders
ReadsForFolder(e, f, under) ==
  /\ parent[f] = Gone /\ f \notin {moving[o].folder : o \in Editors}
  /\ (under # Top => under \in Live /\ Depth(under) < MaxDepth)
  /\ OpensBranch(e, [folder |-> f, to |-> under, new |-> TRUE])
  /\ UNCHANGED <<parent, ruled, filled>>

\* PATCH /folders/:id
ReadsForMove(e, f, to) ==
  /\ f \in Live /\ (to # Top => Movable(f, to))
  /\ OpensBranch(e, [folder |-> f, to |-> to, new |-> FALSE])
  /\ UNCHANGED <<parent, ruled, filled>>

\* The write; the foreign key refuses a parent that is gone.
WritesFolder(e) ==
  LET f == moving[e].folder  to == moving[e].to IN
    /\ moving[e] # NoMove
    /\ parent' = IF (moving[e].new \/ f \in Live) /\ to \in Live \cup {Top} THEN [parent EXCEPT ![f] = to] ELSE parent
    /\ moving' = [moving EXCEPT ![e] = NoMove]
    /\ UNCHANGED <<ruled, filled>>

\* DELETE /folders/:id: documents and sub-folders hold it (ON DELETE RESTRICT); its rows go.
DeletesFolder(f) ==
  /\ f \in Live \ filled /\ f \notin {parent[g] : g \in Folders}
  /\ parent' = [parent EXCEPT ![f] = Gone] /\ ruled' = ruled \ {f}
  /\ UNCHANGED <<filled, moving>>

\* PUT /folders/:id/permissions replaces the rows; none at all: the folder inherits again.
SetsRights(f) ==
  /\ f \in Live
  /\ ruled' = IF f \in ruled THEN ruled \ {f} ELSE ruled \cup {f}
  /\ UNCHANGED <<parent, filled, moving>>

\* Documents are filed, moved away or deleted.
FilesDocuments(f) ==
  /\ f \in Live
  /\ filled' = IF f \in filled THEN filled \ {f} ELSE filled \cup {f}
  /\ UNCHANGED <<parent, ruled, moving>>

FoldersNext ==
  \/ \E e \in Editors : \/ \E f \in Folders, to \in Folders \cup {Top} : ReadsForFolder(e, f, to) \/ ReadsForMove(e, f, to)
                        \/ WritesFolder(e)
  \/ \E f \in Folders : DeletesFolder(f) \/ SetsRights(f) \/ FilesDocuments(f)

FoldersSpec == FoldersInit /\ [][FoldersNext]_foldersVars

-----------------------------------------------------------------------------
\* "A folder cannot be moved into itself" (routes/documents.ts:165): every folder
\* has the top above it, whatever the moves.
NoFolderCycle == \A f \in Live : \E g \in Path(f) : parent[g] = Top

\* No folder lies deeper than MAX_FOLDER_DEPTH, so that the walk of folderLevel,
\* which ends after as many steps, meets every folder above.
DepthIsKept == \A f \in Live : Depth(f) <= MaxDepth

\* The rights of a folder come from exactly one folder or from none.
OneFolderDecides == \A f \in Live : Cardinality(DecidingFolder(f)) <= 1

\* With one request at a time, and folders removed, filled and given rights in
\* between, the tree stays a tree, no deeper than allowed, and rights are defined.
FoldersPromise == /\ [](FoldersTypeOK /\ NoFolderCycle /\ DepthIsKept)
                  /\ []OneFolderDecides
=============================================================================
