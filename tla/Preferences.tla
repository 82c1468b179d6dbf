----------------------------- MODULE Preferences -----------------------------
(* Who has switched the mails of one category off, and for which club          *)
(* (src/src/routes/notification-preferences.ts, lib/notify/preferences.ts):    *)
(* one account, its member record in every club, linked or not yet, the        *)
(* account's own choices and the unsubscribe links in the mails, which act     *)
(* without a session. Rows of both count, one that is off is enough.           *)
(* And, sharing no row with them, the devices a push message is sent to.       *)
EXTENDS Integers, FiniteSets

CONSTANTS
  Clubs,       \* clubs with a member record of the person
  PrefCalls,   \* requests in flight
  MaxChoices,  \* bound on the choices, links and unsubscribe clicks
  PushAccounts,
  Devices,      \* push tokens, one for each installation of the app
  PushCalls,    \* registrations in flight
  DeviceLimit,  \* PUSH_TOKENS_MAX_PER_USER
  ReceiptAttempts,
  MaxRegistered,\* bound: registrations
  MaxPushes     \* bound: push messages sent

ASSUME PreferencesAssumption == "all" \notin Clubs /\ MaxChoices \in Nat
ASSUME DevicesAssumption ==
  /\ IsFiniteSet(Devices) /\ IsFiniteSet(PushCalls) /\ {DeviceLimit, MaxRegistered, MaxPushes} \subseteq Nat
  /\ ReceiptAttempts \in Nat \ {0}

VARIABLES
  linked,       \* clubs whose record is linked to the account
  accountRows,  \* the account's rows: global, and for one club
  recordRows,   \* the rows of the record in every club: global, and for its club
  prefCalls,
  unsubscribed, \* history: <<club, scope>> of a link clicked since the last choice
  choices,
  devices,    \* push_tokens: [row, owner, state] of each token, or none
  installed,  \* devices on which the app is installed
  pushCalls,  \* POST /push-tokens in flight
  pushing,    \* the push message under way: its account and the rows read
  receipts,   \* jobs notify.push_receipts: [no, items, attempt]
  pushed,     \* history: messages sent
  registered, \* history: registrations begun, rows created
  dropped,    \* history: rows whose device lost the app
  overtook     \* history: registrations saved beside another one

prefVars == <<linked, accountRows, recordRows, prefCalls, unsubscribed, choices>>
deviceVars == <<devices, installed, pushCalls, pushing, receipts, pushed, registered,
                dropped, overtook>>

Switch == {"unset", "on", "off"}
Scopes == Clubs \cup {"all"}
NoPrefCall == [value |-> "none"]

\* The rows of an account, and those of the record of a member without one.
AccountRows == [Scopes -> Switch]
RecordRows == [{"all", "club"} -> Switch]

PreferencesTypeOK ==
  /\ linked \subseteq Clubs /\ accountRows \in AccountRows
  /\ recordRows \in [Clubs -> RecordRows]
  /\ \A x \in PrefCalls : prefCalls[x].value \in {"none", "on", "off", "reset"}
  /\ unsubscribed \subseteq Clubs \X {"all", "club"} /\ choices \in 0..MaxChoices

PreferencesInit ==
  /\ linked = {} /\ accountRows = [s \in Scopes |-> "unset"]
  /\ recordRows = [k \in Clubs |-> [s \in {"all", "club"} |-> "unset"]]
  /\ prefCalls = [x \in PrefCalls |-> NoPrefCall] /\ unsubscribed = {} /\ choices = 0

Chooses == choices < MaxChoices /\ choices' = choices + 1

-----------------------------------------------------------------------------
\* What a row means

\* The row of the club wins over the global one; no row is on.
Effective(clubRow, globalRow) ==
  IF clubRow # "unset" THEN clubRow = "on" ELSE globalRow # "off"

AccountOn(k) == Effective(accountRows[k], accountRows["all"])
RecordOn(k) == Effective(recordRows[k]["club"], recordRows[k]["all"])

\* loadPrefResolver: a mail of club k to the person behind its record.
Enabled(k) == (k \in linked => AccountOn(k)) /\ RecordOn(k)

\* Faulty variant: the person's own view leaves the rows of the record out.
ShownOfAccount(k) == AccountOn(k)

\* loadPrefs: what the person is shown for club k.
Shown(k) == AccountOn(k) /\ \A r \in linked \cap {k} : RecordOn(r)

\* The leadership's list of those who get no announcement mails.
ListedAsOff(k) == ~RecordOn(k) \/ (k \in linked /\ ~AccountOn(k))

-----------------------------------------------------------------------------
\* The account's own choice

\* Faulty variant: a choice for one club meets the records of every club.
OwnRecordsAnywhere(scope) == linked

OwnRecords(scope) == IF scope = "all" THEN linked ELSE linked \cap {scope}

\* PUT up to the transaction: the records of the account are read.
AsksChoice(x, scope, value) ==
  /\ prefCalls[x] = NoPrefCall /\ Chooses
  /\ IF scope = "all" THEN value # "reset" ELSE scope \in linked
  /\ prefCalls' = [prefCalls EXCEPT ![x] =
       [value |-> value, scope |-> scope, records |-> OwnRecords(scope)]]
  /\ UNCHANGED <<linked, accountRows, recordRows, unsubscribed>>

\* Faulty variant: a choice for a club leaves the global row of the record.
OverruledNarrowly(scope) == IF scope = "all" THEN {"all"} ELSE {"club"}

\* The rows of a record that an explicit choice overrules.
Overruled(scope) == IF scope = "all" THEN {"all"} ELSE {"all", "club"}

\* The transaction: the account's row is set or removed, rows of the records that
\* exist follow.
WritesChoice(x) ==
  /\ prefCalls[x] # NoPrefCall /\ prefCalls' = [prefCalls EXCEPT ![x] = NoPrefCall]
  /\ LET call == prefCalls[x]
         row == IF call.value = "reset" THEN "unset" ELSE call.value
         rows == IF call.value = "reset" THEN {"club"} ELSE Overruled(call.scope)
     IN /\ accountRows' = [accountRows EXCEPT ![call.scope] = row]
        /\ recordRows' = [k \in Clubs |-> [s \in {"all", "club"} |->
             IF k \in call.records /\ s \in rows /\ recordRows[k][s] # "unset"
             THEN row ELSE recordRows[k][s]]]
        /\ unsubscribed' = {u \in unsubscribed :
             IF call.scope = "all" THEN u[2] = "club" ELSE u[1] # call.scope}
  /\ UNCHANGED <<linked, choices>>

-----------------------------------------------------------------------------
\* Around it

\* POST of an unsubscribe link to the account: of one club, or an older one of all.
UnsubscribesAccount(scope) ==
  /\ Chooses /\ accountRows' = [accountRows EXCEPT ![scope] = "off"]
  /\ unsubscribed' = unsubscribed \cup
       (IF scope = "all" THEN Clubs \X {"all"} ELSE {<<scope, "club">>})
  /\ UNCHANGED <<linked, recordRows, prefCalls>>

\* A link that was mailed to the record, before it had an account or after.
UnsubscribesRecord(k, scope) ==
  /\ Chooses /\ recordRows' = [recordRows EXCEPT ![k][scope] = "off"]
  /\ unsubscribed' = unsubscribed \cup {<<k, scope>>}
  /\ UNCHANGED <<linked, accountRows, prefCalls>>

\* The record is linked to the account, or unlinked.
LinksRecord(k) ==
  /\ Chooses /\ linked' = IF k \in linked THEN linked \ {k} ELSE linked \cup {k}
  /\ UNCHANGED <<accountRows, recordRows, prefCalls, unsubscribed>>

PreferencesNext ==
  \/ \E x \in PrefCalls :
       \/ WritesChoice(x)
       \/ \E scope \in Scopes, v \in {"on", "off", "reset"} : AsksChoice(x, scope, v)
  \/ \E scope \in Scopes : UnsubscribesAccount(scope)
  \/ \E k \in Clubs :
       \/ LinksRecord(k)
       \/ \E scope \in {"all", "club"} : UnsubscribesRecord(k, scope)

PreferencesSpec == PreferencesInit /\ [][PreferencesNext]_prefVars

-----------------------------------------------------------------------------
\* Properties

\* Who has unsubscribed from a club with a link, and chosen nothing for it since, gets
\* no mail of that club, whatever was chosen for all clubs or for others meanwhile.
UnsubscribedGetNothing ==
  \A k \in linked : <<k, "club">> \in unsubscribed => ~Enabled(k)

\* The resolver of the dispatcher, the person's view and the leadership's list agree.
ViewsAgree == \A k \in Clubs : /\ ListedAsOff(k) = ~Enabled(k)
                              /\ k \in linked => Shown(k) = Enabled(k)

\* The choice that is written in this step.
Done(x) == prefCalls[x] # NoPrefCall /\ prefCalls'[x] = NoPrefCall

\* An explicit choice for a club is what counts there: no older unsubscribe link of the
\* account-less period outlives it (routes/notification-preferences.ts).
ChoiceCounts ==
  \A x \in PrefCalls :
    LET call == prefCalls[x]
    IN Done(x) /\ call.value # "reset" =>
         \A k \in call.records \cap linked : k = call.scope => Enabled(k)' = (call.value = "on")

\* A choice for one club changes nothing in another.
ElsewhereTheSame ==
  \A x \in PrefCalls :
    Done(x) /\ prefCalls[x].scope # "all" =>
      \A k \in Clubs \ {prefCalls[x].scope} : Enabled(k)' = Enabled(k)

\* The preferences of one person.
PreferencesPromise ==
  /\ [](PreferencesTypeOK /\ UnsubscribedGetNothing /\ ViewsAgree)
  /\ [][ChoiceCounts /\ ElsewhereTheSame]_prefVars

\* An older link switches a category off "in allen Vereinen".
AllMeansAll == \A k \in linked : <<k, "all">> \in unsubscribed => ~Enabled(k)

-----------------------------------------------------------------------------
\* The devices a push message goes to (routes/push-tokens.ts, push.ts): people
\* register and log out, apps disappear, and what the push service says about a
\* message sent long ago is worked off by a job of its own.

AtRest == [at |-> "idle"]

DevicesInit ==
  /\ devices = [d \in Devices |-> {}] /\ installed = {}
  /\ pushCalls = [c \in PushCalls |-> AtRest] /\ pushing = AtRest
  /\ receipts = {} /\ pushed = 0
  /\ registered = [calls |-> 0, rows |-> 0]
  /\ dropped = {} /\ overtook = 0

DevicesTypeOK ==
  /\ \A d \in Devices : Cardinality(devices[d]) <= 1
       /\ devices[d] \subseteq [row: 1..MaxRegistered, owner: PushAccounts,
                              state: {"fresh", "stale", "disabled"}]
  /\ installed \subseteq Devices
  /\ dropped \subseteq 1..MaxRegistered
  /\ \A r \in receipts : r.attempt \in 1..ReceiptAttempts

OwnedBy(a) == {d \in Devices : \E r \in devices[d] : r.owner = a}
DeadWeight(a) == {d \in OwnedBy(a) : \A r \in devices[d] : r.state # "fresh"}

\* Rows a transaction has deleted and not yet committed: others wait for it.
HeldRows(c) == UNION {pushCalls[o].room : o \in {x \in PushCalls \ {c} : pushCalls[x].at = "counted"}}

\* The app starts and registers: is the token there, and the caller's?
Register(c, a, d) ==
  /\ pushCalls[c].at = "idle" /\ registered.calls < MaxRegistered
  /\ registered' = [registered EXCEPT !.calls = @ + 1]
  /\ installed' = installed \cup {d}
  /\ pushCalls' = [pushCalls EXCEPT ![c] =
       IF d \in OwnedBy(a)
       THEN [at |-> "counted", owner |-> a, device |-> d, room |-> {}, beside |-> FALSE]
       ELSE [at |-> "looked", owner |-> a, device |-> d, weight |-> DeadWeight(a),
             beside |-> FALSE]]
  /\ UNCHANGED <<devices, pushing, receipts, pushed, dropped, overtook>>

\* Faulty variant: the room that was made is not counted off.
FullByOne(a, room) == Cardinality(OwnedBy(a) \ room) > DeviceLimit

Full(a, room) == Cardinality(OwnedBy(a) \ room) >= DeviceLimit

\* Faulty variant: room is made on any account.
RoomAnywhere(a, weight) == {d \in Devices : \E r \in devices[d] : r.state # "fresh"}

\* What was dead weight when the request came, and still is.
RoomOf(a, weight) == weight \cap DeadWeight(a)

\* Room is made and the rest counted: too many and all is rolled back.
CountDevices(c) ==
  /\ pushCalls[c].at = "looked"
  /\ LET a == pushCalls[c].owner
         room == RoomOf(a, pushCalls[c].weight)
     IN /\ room \cap HeldRows(c) = {}
        /\ pushCalls' = [pushCalls EXCEPT ![c] =
             IF Full(a, room) THEN AtRest
             ELSE [at |-> "counted", owner |-> a, device |-> @.device, room |-> room,
                   beside |-> @.beside]]
  /\ UNCHANGED <<devices, installed, pushing, receipts, pushed, registered, dropped, overtook>>

\* The upsert: a token that is stored keeps its row, whosever it was.
SaveDevice(c) ==
  LET call == pushCalls[c]
      d == call.device
      kept == IF d \in call.room THEN {} ELSE {r.row : r \in devices[d]}
      row == IF kept = {} THEN registered.rows + 1 ELSE CHOOSE i \in kept : TRUE
  IN /\ call.at = "counted" /\ d \notin HeldRows(c)
     /\ devices' = [x \in Devices |->
          IF x = d THEN {[row |-> row, owner |-> call.owner, state |-> "fresh"]}
          ELSE IF x \in call.room THEN {} ELSE devices[x]]
     /\ registered' = [registered EXCEPT !.rows = IF kept = {} THEN @ + 1 ELSE @]
     /\ dropped' = IF d \in installed THEN dropped ELSE dropped \cup {row}
     /\ overtook' = IF call.beside THEN overtook + 1 ELSE overtook
     /\ pushCalls' = [o \in PushCalls |->
          IF o = c THEN AtRest
          ELSE IF pushCalls[o].at = "idle" THEN AtRest ELSE [pushCalls[o] EXCEPT !.beside = TRUE]]
     /\ UNCHANGED <<installed, pushing, receipts, pushed>>

\* DELETE /push-tokens/:token
LogOut(a, d) ==
  /\ d \in OwnedBy(a) /\ \A c \in PushCalls : pushCalls[c].at = "counted" => d \notin pushCalls[c].room
  /\ devices' = [devices EXCEPT ![d] = {}]
  /\ UNCHANGED <<installed, pushCalls, pushing, receipts, pushed, registered, dropped, overtook>>

LoseApp(d) ==
  /\ d \in installed
  /\ installed' = installed \ {d}
  /\ dropped' = dropped \cup {r.row : r \in devices[d]}
  /\ UNCHANGED <<devices, pushCalls, pushing, receipts, pushed, registered, overtook>>

GrowStale(d) ==
  /\ \E r \in devices[d] : r.state = "fresh"
  /\ devices' = [devices EXCEPT ![d] = {[r EXCEPT !.state = "stale"] : r \in @}]
  /\ UNCHANGED <<installed, pushCalls, pushing, receipts, pushed, registered, dropped, overtook>>

\* handlePushDelivery reads the devices that are not disabled.
ReadDevices(a) ==
  /\ pushing = AtRest /\ pushed < MaxPushes
  /\ LET rows == UNION {{[row |-> r.row, device |-> d] :
                           r \in {x \in devices[d] : x.state # "disabled"}} : d \in OwnedBy(a)}
     IN rows # {} /\ pushing' = [at |-> "read", owner |-> a, rows |-> rows]
  /\ UNCHANGED <<devices, installed, pushCalls, receipts, pushed, registered, dropped, overtook>>

\* disableTokens: by the id of the row, whatever has become of its device.
DisableRows(ids) ==
  devices' = [d \in Devices |->
    {IF r.row \in ids THEN [r EXCEPT !.state = "disabled"] ELSE r : r \in devices[d]}]

WaitsForRows(ids) ==
  \E c \in PushCalls : pushCalls[c].at = "counted"
    /\ \E d \in pushCalls[c].room : \E r \in devices[d] : r.row \in ids

\* Of a device without the app the service knows it at once, or says so in the
\* receipt.
SendPush ==
  /\ pushing # AtRest
  /\ \E atOnce \in SUBSET {x.row : x \in {y \in pushing.rows : y.device \notin installed}} :
       /\ ~WaitsForRows(atOnce) /\ DisableRows(atOnce)
       /\ LET items == {[row |-> x.row, gone |-> x.device \notin installed] :
                          x \in {y \in pushing.rows : y.row \notin atOnce}}
          IN receipts' = IF items = {} THEN receipts
                         ELSE receipts \cup {[no |-> pushed + 1, items |-> items, attempt |-> 1]}
  /\ pushing' = AtRest /\ pushed' = pushed + 1
  /\ UNCHANGED <<installed, pushCalls, registered, dropped, overtook>>

\* Faulty variant: a receipt that is missing is taken for an error.
DeadOrMissing(items, missing) == {i.row : i \in {x \in items : x.gone}} \cup {i.row : i \in missing}

Dead(items, missing) == {i.row : i \in {x \in items \ missing : x.gone}}

\* handlePushReceipts: what is missing has all of them asked for again.
AskReceipts(job) ==
  /\ \E missing \in SUBSET job.items :
       /\ ~WaitsForRows(Dead(job.items, missing)) /\ DisableRows(Dead(job.items, missing))
       /\ receipts' = (receipts \ {job}) \cup
            IF missing # {} /\ job.attempt < ReceiptAttempts
            THEN {[job EXCEPT !.attempt = @ + 1]} ELSE {}
  /\ UNCHANGED <<installed, pushCalls, pushing, pushed, registered, dropped, overtook>>

DevicesNext ==
  \/ \E c \in PushCalls : CountDevices(c) \/ SaveDevice(c)
  \/ \E c \in PushCalls, a \in PushAccounts, d \in Devices : Register(c, a, d)
  \/ \E a \in PushAccounts : ReadDevices(a) \/ \E d \in Devices : LogOut(a, d)
  \/ \E d \in Devices : LoseApp(d) \/ GrowStale(d)
  \/ SendPush
  \/ \E job \in receipts : AskReceipts(job)

DevicesSpec == DevicesInit /\ [][DevicesNext]_deviceVars

\* No account has more devices than the limit, but for registrations that ran
\* beside another one: the rows are counted without a lock (push-tokens.ts:56).
LimitExceededByRacesOnly ==
  \A a \in PushAccounts : Cardinality(OwnedBy(a)) <= DeviceLimit + overtook

\* A device is cut off only if the app was gone from it at some time since its
\* row was made: never for a receipt that is late or lost, and never in place
\* of a device that has taken the token over.
CutOffForAReason ==
  \A d \in Devices : \A r \in devices[d] : r.state = "disabled" => r.row \in dropped

\* A registration makes room among the caller's own devices: of somebody else's
\* it takes over the token it registers and touches no other.
SavedDevice(c) == pushCalls[c].at = "counted" /\ pushCalls'[c] = AtRest
OthersKeepTheirDevices ==
  \A c \in PushCalls : SavedDevice(c) =>
    \A d \in Devices \ ({pushCalls[c].device} \cup OwnedBy(pushCalls[c].owner)) :
      devices'[d] = devices[d]

\* What the devices of the accounts keep through races and late answers.
DevicesPromise ==
  /\ [](DevicesTypeOK /\ LimitExceededByRacesOnly /\ CutOffForAReason)
  /\ [][OthersKeepTheirDevices]_deviceVars

\* Statements the code does not keep, and no run checks.  The limit itself; that
\* a device which has registered again stays reachable, though an older receipt
\* (or one asked for a second time) still reports it; that a message does not
\* reach a device which has changed hands since its row was read.
LimitKept == \A a \in PushAccounts : Cardinality(OwnedBy(a)) <= DeviceLimit
ReachableAgain == \A d \in installed : \A r \in devices[d] : r.state # "disabled"
NotToTheNextOwner ==
  pushing # AtRest => \A x \in pushing.rows : \A r \in devices[x.device] : r.owner = pushing.owner
=============================================================================
