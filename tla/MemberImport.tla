---------------------------- MODULE MemberImport ----------------------------
(* How members and their numbers enter the roll of a club: the CSV import      *)
(* (src/src/lib/member-import.ts, POST /club-members/import), the board's own  *)
(* POST and PATCH of a member, the automatic number (lib/member-number.ts).    *)
(* A member's number is not unique in the database: every call that gives one  *)
(* away holds the organization's row from its check to its commit.             *)
(* A person the roll can recognise has a birth date or an address; Strangers   *)
(* have neither. Groups are the categories of the club.                        *)
EXTENDS Integers, Sequences, SequencesExt, FiniteSetsExt, FiniteSets

CONSTANTS
  Strangers,     \* persons no duplicate check recognises
  Files,         \* files: sequences of rows [who, number, group, via], number 0 if none
  Groups,
  Tokens,        \* confirmations a dry run issues
  RollCalls,     \* requests in flight
  NoCall,
  MaxRoll, MaxNumber, MaxPosts

ASSUME MemberImportAssumption ==
  /\ MaxRoll \in Nat /\ MaxNumber \in Nat /\ NoCall \notin RollCalls
  /\ \A file \in Files : \A i \in DOMAIN file :
       file[i].number \in 0..MaxNumber /\ file[i].group \in Groups

VARIABLES
  roll,          \* rows of club_members, in the order they were inserted
  archived,      \* groups that are archived
  tokens,        \* [is, file]: bound to the file of its dry run
  applied,       \* tokens of the audit entries "club_member.import", in order
  orgLock,       \* the call that holds the organization's row
  groupLocks,    \* calls that hold a category in share mode
  rollCalls,
  posts          \* calls of the board so far (bound)

rollVars ==
  <<roll, archived, tokens, applied, orgLock, groupLocks, rollCalls, posts>>

People == UNION {{file[i].who : i \in DOMAIN file} : file \in Files}
Idle == [op |-> "idle"]
RollRows == [who : People, number : 0..MaxNumber, group : Groups, via : {"import", "post"}]

ImportToken == [is : {"none", "issued", "expired"}, file : Files \cup {<<>>}]

RollTypeOK ==
  /\ roll \in Seq(RollRows) /\ Len(roll) <= MaxRoll /\ archived \subseteq Groups
  /\ tokens \in [Tokens -> ImportToken]
  /\ \A i \in DOMAIN applied : applied[i] \in Tokens
  /\ orgLock \in RollCalls \cup {NoCall} /\ groupLocks \subseteq RollCalls
  /\ \A c \in RollCalls : rollCalls[c].op \in {"idle", "import", "post", "renumber"}
  /\ posts \in 0..MaxPosts

RollInit ==
  /\ roll = <<>> /\ archived = {} /\ tokens = [t \in Tokens |-> [is |-> "none", file |-> <<>>]]
  /\ applied = <<>> /\ orgLock = NoCall /\ groupLocks = {}
  /\ rollCalls = [c \in RollCalls |-> Idle] /\ posts = 0

-----------------------------------------------------------------------------
\* Numbers

Held(rows) == {rows[i].number : i \in DOMAIN rows} \ {0}

\* nextMemberNumber: one more than the highest number and than the count of rows.
nextMemberNumber(rows) == Max(Held(rows) \cup {Len(rows)}) + 1

Numbered(rows, row) ==
  Append(rows, IF row.number = 0 THEN [row EXCEPT !.number = nextMemberNumber(rows)] ELSE row)

\* Faulty variant: the rows are inserted in the order of the file.
AsInTheFile(rows) == rows

\* The rows with a number of their own are inserted first.
Ordered(rows) ==
  SelectSeq(rows, LAMBDA r : r.number # 0) \o SelectSeq(rows, LAMBDA r : r.number = 0)

-----------------------------------------------------------------------------
\* The file against the roll

Known(rows, who) == who \notin Strangers /\ \E i \in DOMAIN rows : rows[i].who = who

\* Rows with an issue: the group is archived, the number is taken.
HasErrors(file) ==
  \E i \in DOMAIN file : file[i].group \in archived \/ file[i].number \in Held(roll)

\* analyzeImport: the rows that are neither on the roll nor earlier in the file.
analyzeImport(file) ==
  FoldLeft(LAMBDA rows, row : IF Known(roll \o rows, row.who) THEN rows ELSE Append(rows, row),
           <<>>, file)

\* The dry run reports and signs a confirmation, whatever it found.
DryRun(t, file) ==
  /\ tokens[t].is = "none" /\ tokens' = [tokens EXCEPT ![t] = [is |-> "issued", file |-> file]]
  /\ UNCHANGED <<roll, archived, applied, orgLock, groupLocks, rollCalls, posts>>

\* Thirty minutes pass.
TokenExpires(t) ==
  /\ tokens[t].is = "issued" /\ tokens' = [tokens EXCEPT ![t].is = "expired"]
  /\ UNCHANGED <<roll, archived, applied, orgLock, groupLocks, rollCalls, posts>>

-----------------------------------------------------------------------------
\* Calls

RollMoves(c, call) == rollCalls' = [rollCalls EXCEPT ![c] = call]

RollEnds(c) ==
  /\ RollMoves(c, Idle) /\ groupLocks' = groupLocks \ {c}
  /\ orgLock' = IF orgLock = c THEN NoCall ELSE orgLock

\* verifyImportToken, then all groups in share mode.
Confirms(c, t) ==
  /\ rollCalls[c] = Idle /\ tokens[t].is = "issued"
  /\ RollMoves(c, [op |-> "import", at |-> "waiting", token |-> t])
  /\ groupLocks' = groupLocks \cup {c}
  /\ UNCHANGED <<roll, archived, tokens, applied, orgLock, posts>>

\* Faulty variant: the audit entries are not asked.
UnusedAnyway(t) == TRUE

Unused(t) == \A i \in DOMAIN applied : applied[i] # t

\* Faulty variant: the call reads the roll before it holds the row.
OrgFreeAnyway == TRUE

OrgFree == orgLock = NoCall

\* The organization's row is locked; the token must be unused, the file without
\* errors and not without news. Otherwise the call ends and changes nothing.
Analyses(c) ==
  /\ rollCalls[c].op = "import" /\ rollCalls[c].at = "waiting" /\ OrgFree
  /\ LET file == tokens[rollCalls[c].token].file
     IN IF Unused(rollCalls[c].token) /\ ~HasErrors(file) /\ analyzeImport(file) # <<>>
        THEN /\ RollMoves(c, [op |-> "import", at |-> "analysed", token |-> rollCalls[c].token,
                          rows |-> analyzeImport(file)])
             /\ orgLock' = c /\ UNCHANGED groupLocks
        ELSE RollEnds(c)
  /\ UNCHANGED <<roll, archived, tokens, applied, posts>>

\* All rows, their history and the audit entry, in one transaction.
Imports(c) ==
  /\ rollCalls[c].op = "import" /\ rollCalls[c].at = "analysed"
  /\ Len(roll) + Len(rollCalls[c].rows) <= MaxRoll
  /\ roll' = FoldLeft(Numbered, roll, Ordered(rollCalls[c].rows))
  /\ applied' = Append(applied, rollCalls[c].token) /\ RollEnds(c)
  /\ UNCHANGED <<archived, tokens, posts>>

\* A POST of the board: resolveCategory holds the group in share mode.
Posts(c, who, number, g) ==
  /\ rollCalls[c] = Idle /\ posts < MaxPosts /\ posts' = posts + 1 /\ g \notin archived
  /\ RollMoves(c, [op |-> "post", at |-> "waiting",
               row |-> [who |-> who, number |-> number, group |-> g, via |-> "post"]])
  /\ groupLocks' = groupLocks \cup {c}
  /\ UNCHANGED <<roll, archived, tokens, applied, orgLock>>

MemberRowFree(i) == \A d \in RollCalls : rollCalls[d].op = "renumber" => rollCalls[d].index # i

\* A PATCH of a member's number; its row is locked, the number is another one.
Renumbers(c, i, number) ==
  /\ rollCalls[c] = Idle /\ posts < MaxPosts /\ posts' = posts + 1
  /\ i \in DOMAIN roll /\ roll[i].number # number /\ MemberRowFree(i)
  /\ RollMoves(c, [op |-> "renumber", at |-> "waiting", index |-> i, number |-> number])
  /\ UNCHANGED <<roll, archived, tokens, applied, orgLock, groupLocks>>

\* A PATCH that takes a member's number away asks nobody.
ClearsNumber(i) ==
  /\ i \in DOMAIN roll /\ roll[i].number # 0 /\ MemberRowFree(i)
  /\ posts < MaxPosts /\ posts' = posts + 1 /\ roll' = [roll EXCEPT ![i].number = 0]
  /\ UNCHANGED <<archived, tokens, applied, orgLock, groupLocks, rollCalls>>

NumberOf(call) == IF call.op = "post" THEN call.row.number ELSE call.number

\* memberNumberTaken: the organization's row is locked, then the roll is asked.
Asks(c) ==
  /\ rollCalls[c].op \in {"post", "renumber"} /\ rollCalls[c].at = "waiting" /\ OrgFree
  /\ IF NumberOf(rollCalls[c]) \in Held(roll)
     THEN RollEnds(c)
     ELSE /\ RollMoves(c, [rollCalls[c] EXCEPT !.at = "free"]) /\ orgLock' = c /\ UNCHANGED groupLocks
  /\ UNCHANGED <<roll, archived, tokens, applied, posts>>

Writes(c) ==
  /\ rollCalls[c].op \in {"post", "renumber"} /\ rollCalls[c].at = "free"
  /\ rollCalls[c].op = "post" => Len(roll) < MaxRoll
  /\ roll' = IF rollCalls[c].op = "post" THEN Numbered(roll, rollCalls[c].row)
             ELSE [roll EXCEPT ![rollCalls[c].index].number = rollCalls[c].number]
  /\ RollEnds(c) /\ UNCHANGED <<archived, tokens, applied, posts>>

\* The transaction of a call rolls back: an error, a lost connection, a crash.
RollsBack(c) ==
  /\ rollCalls[c] # Idle /\ RollEnds(c)
  /\ UNCHANGED <<roll, archived, tokens, applied, posts>>

\* Faulty variant: nobody's share lock is waited for.
GroupsFreeAnyway == TRUE

GroupsFree == groupLocks = {}

\* DELETE of a category no member is in: all categories of the club are locked.
Archives(g) ==
  /\ GroupsFree /\ g \notin archived /\ \A i \in DOMAIN roll : roll[i].group # g
  /\ archived' = archived \cup {g}
  /\ UNCHANGED <<roll, tokens, applied, orgLock, groupLocks, rollCalls, posts>>

RollNext ==
  \/ \E t \in Tokens : TokenExpires(t) \/ \E file \in Files : DryRun(t, file)
  \/ \E c \in RollCalls :
       \/ \E t \in Tokens : Confirms(c, t)
       \/ \E who \in People, n \in 0..1, g \in Groups : Posts(c, who, n, g)
       \/ \E i \in DOMAIN roll, n \in 1..2 : Renumbers(c, i, n)
       \/ Analyses(c) \/ Imports(c) \/ Asks(c) \/ Writes(c) \/ RollsBack(c)
  \/ \E i \in DOMAIN roll : ClearsNumber(i)
  \/ \E g \in Groups : Archives(g)

RollSpec == RollInit /\ [][RollNext]_rollVars

-----------------------------------------------------------------------------
\* Properties

\* Whatever calls run in parallel, no two members carry the same number:
\* "uniqueness per club is enforced by the API" (db/schema/club-members.ts).
NumbersAreDistinct ==
  \A i, j \in DOMAIN roll : roll[i].number = roll[j].number /\ roll[i].number # 0 => i = j

\* A confirmation is applied once, in parallel commits too.
TokensApplyOnce == \A i, j \in DOMAIN applied : applied[i] = applied[j] => i = j

\* A person the roll recognises enters by an import at most once, and never after
\* the board entered her, whichever confirmations run together.
NobodyTwiceByImport ==
  \A i, j \in DOMAIN roll :
    i < j /\ roll[i].who = roll[j].who /\ roll[i].who \notin Strangers => roll[j].via = "post"

\* No call lands a member in a category that was archived under it.
NobodyInArchivedGroup == \A i \in DOMAIN roll : roll[i].group \notin archived

\* The roll of the club, through imports and the board's calls.
RollPromise ==
  /\ [](RollTypeOK /\ TokensApplyOnce)
  /\ [](NumbersAreDistinct /\ NobodyTwiceByImport /\ NobodyInArchivedGroup)

-----------------------------------------------------------------------------
(* The custom fields of a club (src/src/routes/member-fields.ts) and the       *)
(* values one member has in them (routes/club-member-custom-fields.ts,         *)
(* lib/custom-fields.ts, an accepted application in lib/form-applications.ts). *)
(* A write of a value holds the definition in share mode; every change of a    *)
(* definition locks it and waits for the writes.                               *)
CONSTANTS
  Fields,        \* keys a definition may have
  FieldOptions,       \* options of a select
  FieldLimit,    \* MAX_CUSTOM_FIELDS_PER_CLUB
  FieldCalls,    \* requests in flight
  MaxFieldEdits, \* bound on the changes of definitions
  MaxEntries     \* bound on the writes of values

ASSUME FieldsAssumption == {FieldLimit, MaxFieldEdits, MaxEntries} \subseteq Nat

VARIABLES
  fields,        \* the definitions: [is, type, options, sensitive]
  entries,       \* the member's values: [text, secret], "none" without one
  fieldCalls,
  guarding,      \* the guardian's link to the member exists
  fieldEdits, entryCount

fieldVars == <<fields, entries, fieldCalls, guarding, fieldEdits, entryCount>>

NoField == [is |-> "none", type |-> "text", options |-> {}, sensitive |-> FALSE]
Empty == [text |-> "none", secret |-> FALSE]
NoFieldCall == [op |-> "none", at |-> "none"]
Texts == FieldOptions \cup {"free"}
Modes == {"direct", "guardian", "form"}    \* "direct": the board, or the member itself

FieldsTypeOK ==
  /\ fields \in [Fields -> [is : {"none", "active", "archived"}, type : {"text", "select"},
                            options : SUBSET FieldOptions, sensitive : BOOLEAN]]
  /\ entries \in [Fields -> [text : Texts \cup {"none"}, secret : BOOLEAN]]
  /\ \A c \in FieldCalls : fieldCalls[c].op \in {"none", "write", "create"}
  /\ guarding \in BOOLEAN /\ fieldEdits \in 0..MaxFieldEdits /\ entryCount \in 0..MaxEntries

FieldsInit ==
  /\ fields = [f \in Fields |-> NoField] /\ entries = [f \in Fields |-> Empty]
  /\ fieldCalls = [c \in FieldCalls |-> NoFieldCall] /\ guarding = TRUE
  /\ fieldEdits = 0 /\ entryCount = 0

FieldCall(c, call) == fieldCalls' = [fieldCalls EXCEPT ![c] = call]

-----------------------------------------------------------------------------
\* Values

\* The form engine's check of a value against the definition.
Fits(def, text) == IF def.type = "select" THEN text \in def.options ELSE text = "free"

\* A request with one value; "none" clears it. An application's answer was given to a
\* form that promised a sensitive field.
AsksToWrite(c, f, text, mode) ==
  /\ fieldCalls[c] = NoFieldCall /\ entryCount < MaxEntries /\ entryCount' = entryCount + 1
  /\ FieldCall(c, [op |-> "write", at |-> "asked", field |-> f, text |-> text, mode |-> mode])
  /\ UNCHANGED <<fields, entries, guarding, fieldEdits>>

\* canSelfWrite, canGuardianWrite, canBoardWrite and checkCustomAssignment, as far as
\* `sensitive` decides: a guardian never, an application only where it was promised.
MayWrite(def, mode) ==
  IF mode = "guardian" THEN ~def.sensitive ELSE mode = "form" => def.sensitive

\* The guardian's link and the definition are locked in share mode and checked.
ChecksValue(c) ==
  /\ fieldCalls[c].op = "write" /\ fieldCalls[c].at = "asked"
  /\ LET call == fieldCalls[c]
         def == fields[call.field]
         goes == /\ call.mode = "guardian" => guarding
                 /\ def.is = "active" /\ MayWrite(def, call.mode)
                 /\ call.text = "none" \/ Fits(def, call.text)
     IN FieldCall(c, IF goes THEN [call EXCEPT !.at = "checked"] ELSE NoFieldCall)
  /\ UNCHANGED <<fields, entries, guarding, fieldEdits, entryCount>>

\* writeValues: the value is inserted, replaced or deleted. `secret` is what it was
\* entered under (history).
WritesValue(c) ==
  /\ fieldCalls[c].op = "write" /\ fieldCalls[c].at = "checked" /\ FieldCall(c, NoFieldCall)
  /\ LET f == fieldCalls[c].field
     IN entries' = [entries EXCEPT ![f] =
          IF fieldCalls[c].text = "none" THEN Empty
          ELSE [text |-> fieldCalls[c].text, secret |-> fields[f].sensitive]]
  /\ UNCHANGED <<fields, guarding, fieldEdits, entryCount>>

\* The board ends the guardianship; a write of the guardian is waited for.
EndsGuarding ==
  /\ guarding /\ guarding' = FALSE
  /\ \A c \in FieldCalls : fieldCalls[c].at = "checked" => fieldCalls[c].mode # "guardian"
  /\ UNCHANGED <<fields, entries, fieldCalls, fieldEdits, entryCount>>

-----------------------------------------------------------------------------
\* Definitions

\* Faulty variant: the definition is not locked.
FieldFreeAnyway(f) == TRUE

\* FOR UPDATE waits for the writes that hold the definition.
FieldFree(f) == \A c \in FieldCalls : fieldCalls[c].at = "checked" => fieldCalls[c].field # f

Edits == fieldEdits < MaxFieldEdits /\ fieldEdits' = fieldEdits + 1

HasValue(f) == entries[f] # Empty

\* Faulty variant: only the type is protected once there are values.
AllowsAnything(f, def) == def.type # fields[f].type => ~HasValue(f)

\* With values: no other type, no option in use removed, a sensitive field stays so.
Allows(f, def) ==
  HasValue(f) => /\ def.type = fields[f].type
                 /\ fields[f].sensitive => def.sensitive
                 /\ def.type = "select" => entries[f].text \in def.options

\* PATCH of a definition.
ChangesField(f, def) ==
  /\ FieldFree(f) /\ fields[f].is = "active" /\ def # fields[f] /\ Allows(f, def) /\ Edits
  /\ fields' = [fields EXCEPT ![f] = def]
  /\ UNCHANGED <<entries, fieldCalls, guarding, entryCount>>

\* DELETE: archived with values, deleted without; deactivate: archived in any case.
RemovesField(f, how) ==
  /\ FieldFree(f) /\ fields[f].is \in {"active", "archived"} /\ Edits
  /\ how = "deactivate" => fields[f].is = "active"
  /\ fields' = [fields EXCEPT ![f] =
       IF how = "deactivate" \/ HasValue(f) THEN [@ EXCEPT !.is = "archived"] ELSE NoField]
  /\ UNCHANGED <<entries, fieldCalls, guarding, entryCount>>

\* unarchive, and activate of a module whose field is archived.
RestoresField(f) ==
  /\ FieldFree(f) /\ fields[f].is = "archived" /\ Edits
  /\ fields' = [fields EXCEPT ![f].is = "active"]
  /\ UNCHANGED <<entries, fieldCalls, guarding, entryCount>>

Existing == {f \in Fields : fields[f].is # "none"}

\* Faulty variant: two creations count at the same time.
CreationsFreeAnyway == TRUE

\* The advisory lock of the club's creations.
CreationsFree == \A c \in FieldCalls : fieldCalls[c].op # "create"

\* POST and activate of a module, up to the count.
CountsFields(c, f, def) ==
  /\ fieldCalls[c] = NoFieldCall /\ CreationsFree /\ Edits
  /\ Cardinality(Existing) < FieldLimit
  /\ FieldCall(c, [op |-> "create", at |-> "counted", field |-> f, def |-> def])
  /\ UNCHANGED <<fields, entries, guarding, entryCount>>

\* The insert; the key is unique in the club.
CreatesField(c) ==
  /\ fieldCalls[c].op = "create" /\ FieldCall(c, NoFieldCall)
  /\ LET f == fieldCalls[c].field
     IN fields' = IF f \in Existing THEN fields ELSE [fields EXCEPT ![f] = fieldCalls[c].def]
  /\ UNCHANGED <<entries, guarding, fieldEdits, entryCount>>

Definitions ==
  {[is |-> "active", type |-> "text", options |-> {}, sensitive |-> s] : s \in BOOLEAN}
    \cup {[is |-> "active", type |-> "select", options |-> o, sensitive |-> s] :
            o \in SUBSET FieldOptions \ {{}}, s \in BOOLEAN}

FieldsNext ==
  \/ \E c \in FieldCalls :
       \/ ChecksValue(c) \/ WritesValue(c) \/ CreatesField(c)
       \/ \E f \in Fields :
            \/ \E text \in Texts \cup {"none"}, mode \in Modes : AsksToWrite(c, f, text, mode)
            \/ \E def \in Definitions : CountsFields(c, f, def)
  \/ \E f \in Fields :
       \/ RestoresField(f) \/ \E how \in {"delete", "deactivate"} : RemovesField(f, how)
       \/ \E def \in Definitions : ChangesField(f, def)
  \/ EndsGuarding

FieldsSpec == FieldsInit /\ [][FieldsNext]_fieldVars

-----------------------------------------------------------------------------
\* Properties

\* "A value that is stored always fits the definition" (lib/custom-fields.ts),
\* whatever becomes of the definition afterwards.
ValuesFit ==
  \A f \in Fields : HasValue(f) => fields[f].is # "none" /\ Fits(fields[f], entries[f].text)

\* What was entered under a sensitive definition is never under another one.
SecretsStaySecret == \A f \in Fields : entries[f].secret => fields[f].sensitive

\* A club has at most its limit of fields, archived ones included.
FieldsWithinLimit == Cardinality(Existing) <= FieldLimit

\* While a guardian's write lasts the link is there.
GuardiansAreLinked ==
  \A c \in FieldCalls :
    fieldCalls[c].at = "checked" /\ fieldCalls[c].mode = "guardian" => guarding

\* A value changes only while its field is in use.
ArchivedValuesRest == \A f \in Fields : entries'[f] # entries[f] => fields[f].is = "active"

\* The custom fields of a club.
FieldsPromise ==
  /\ [](FieldsTypeOK /\ ValuesFit /\ SecretsStaySecret /\ FieldsWithinLimit
          /\ GuardiansAreLinked)
  /\ [][ArchivedValuesRest]_fieldVars
=============================================================================
