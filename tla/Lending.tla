------------------------------- MODULE Lending -------------------------------
(* What a club lends: the keys of a location, an item of its inventory, and   *)
(* the location itself. Three registers that share no row, each with requests *)
(* in flight that decide on what they have read.                              *)
EXTENDS Integers, FiniteSets

CONSTANTS
  Keepers,    \* accounts, each with one membership that may end
  KeyCalls,
  NoRow,
  MaxHandouts,
  LoanCalls,
  LastLoanDay,
  BookingIds,
  BookingCalls,
  LastSlot,
  NoHolder,
  MaxPlaceEdits

ASSUME LendingAssumption ==
  /\ MaxHandouts \in Nat /\ LastLoanDay \in Nat \ {0} /\ MaxPlaceEdits \in Nat
  /\ NoRow \notin 1..MaxHandouts /\ NoHolder \notin BookingCalls

VARIABLES
  living,     \* accounts that exist
  held,       \* the holder row of each account
  handouts,   \* rows created so far
  keyLog,     \* how often each account's key was logged as issued and as returned
  keyCalls,
  hooked,     \* history: accounts a removal by the organisation's routes was begun for
  loan,       \* [due, returned]: a day, NotYet while it is out
  loanDay,
  loanCalls,
  confirmed,  \* history: the days on which a return was confirmed
  bookable,
  bookings,   \* each booking: absent, or its slots and the event it belongs to
  occasion,   \* the event at the location: its slots, none if there is none
  placeLock,  \* the call that holds the location's row
  bookingCalls,
  placeEdits

-----------------------------------------------------------------------------
\* The keys of one location (src/src/routes/locations.ts, lib/key-returns.ts,
\* and the removals of an account in lib/member-invites.ts and auth/auth.ts):
\* at most one holder row per account, and a log of what was handed over. A
\* return deletes the row it has read; a removed account takes its rows
\* along.

keyVars == <<living, held, handouts, keyLog, keyCalls, hooked>>

NoKeyCall == [op |-> "none"]
KeyRows == 1..MaxHandouts
KeyOps == {"issued", "returned"}

\* How often each operation is in the log of one keeper.
KeyHistory == [KeyOps -> Nat]

KeysTypeOK ==
  /\ living \subseteq Keepers /\ hooked \subseteq Keepers
  /\ held \in [Keepers -> KeyRows \cup {NoRow}]
  /\ handouts \in 0..MaxHandouts
  /\ keyLog \in [Keepers -> KeyHistory]
  /\ \A k, l \in Keepers : held[k] = held[l] => k = l \/ held[k] = NoRow

KeysInit ==
  /\ living = Keepers /\ held = [k \in Keepers |-> NoRow] /\ handouts = 0
  /\ keyLog = [k \in Keepers |-> [op \in KeyOps |-> 0]]
  /\ keyCalls = [c \in KeyCalls |-> NoKeyCall] /\ hooked = {}

KeyCall(c, call) == keyCalls' = [keyCalls EXCEPT ![c] = call]
LogsKey(k, op) == keyLog' = [keyLog EXCEPT ![k][op] = @ + 1]

-----------------------------------------------------------------------------

\* POST of a holder: row and log entry in one transaction, which the unique index
\* and the reference to the account abort.
IssuesKey(k) ==
  /\ k \in living /\ held[k] = NoRow /\ handouts < MaxHandouts
  /\ handouts' = handouts + 1 /\ held' = [held EXCEPT ![k] = handouts + 1]
  /\ LogsKey(k, "issued") /\ UNCHANGED <<living, keyCalls, hooked>>

\* DELETE of a holder reads the row first.
ReadsKey(c, k) ==
  /\ keyCalls[c] = NoKeyCall /\ held[k] # NoRow
  /\ KeyCall(c, [op |-> "returning", keeper |-> k, row |-> held[k]])
  /\ UNCHANGED <<living, held, handouts, keyLog, hooked>>

\* Faulty variant: what the deletion found is not looked at.
RowWasDeletedAnyway(call) == call.keeper \in living

\* "A parallel return already removed the row: do not log it twice."
RowWasDeleted(call) == held[call.keeper] = call.row

ReturnsKey(c) ==
  LET call == keyCalls[c]
  IN /\ call.op = "returning" /\ KeyCall(c, NoKeyCall)
     /\ held' = [k \in Keepers |-> IF held[k] = call.row THEN NoRow ELSE held[k]]
     /\ IF RowWasDeleted(call) THEN LogsKey(call.keeper, "returned") ELSE UNCHANGED keyLog
     /\ UNCHANGED <<living, handouts, hooked>>

\* recordKeyReturnsForRemovedAccount reads what the account holds.
ReadsForRemoval(c, k) ==
  /\ keyCalls[c] = NoKeyCall /\ k \in living
  /\ KeyCall(c, [op |-> "removing", keeper |-> k, found |-> held[k] # NoRow])
  /\ UNCHANGED <<living, held, handouts, keyLog, hooked>>

\* The hook of the organisation's own removal logs it in a transaction of its own
\* (once for each account here).
HookLogsReturn(c) ==
  LET call == keyCalls[c]
  IN /\ call.op = "removing" /\ call.found /\ call.keeper \in living \ hooked
     /\ LogsKey(call.keeper, "returned") /\ hooked' = hooked \cup {call.keeper}
     /\ KeyCall(c, [call EXCEPT !.found = FALSE]) /\ UNCHANGED <<living, held, handouts>>

\* Unlinking and erasing log it in the transaction in which the account goes, and
\* its rows with it.
RemovesKeeper(c) ==
  LET call == keyCalls[c]
  IN /\ call.op = "removing" /\ KeyCall(c, NoKeyCall)
     /\ IF call.keeper \in living
        THEN /\ living' = living \ {call.keeper} /\ held' = [held EXCEPT ![call.keeper] = NoRow]
             /\ IF call.found THEN LogsKey(call.keeper, "returned") ELSE UNCHANGED keyLog
        ELSE UNCHANGED <<living, held, keyLog>>
     /\ UNCHANGED <<handouts, hooked>>

KeyCallDies(c) ==
  /\ keyCalls[c] # NoKeyCall /\ KeyCall(c, NoKeyCall)
  /\ UNCHANGED <<living, held, handouts, keyLog, hooked>>

KeysNext ==
  \/ \E k \in Keepers : IssuesKey(k) \/ \E c \in KeyCalls : ReadsKey(c, k) \/ ReadsForRemoval(c, k)
  \/ \E c \in KeyCalls : ReturnsKey(c) \/ HookLogsReturn(c) \/ RemovesKeeper(c) \/ KeyCallDies(c)

KeysSpec == KeysInit /\ [][KeysNext]_keyVars

-----------------------------------------------------------------------------
\* Properties

\* While an account exists and no hook has begun to remove it, the log says of each
\* key that was issued either that it was returned or, of one at most, that it is
\* held: through returns in parallel, removals that are rolled back, and a return
\* that is late and meets a key that was issued again.
LogMatchesHolders ==
  \A k \in living \ hooked : keyLog[k]["issued"] = keyLog[k]["returned"] + (IF held[k] = NoRow THEN 0 ELSE 1)

\* key-returns.ts:9, on the entry for a removed account: without it there would be
\* an "`issued` entry without a matching return".
RemovedLeaveNoKey == \A k \in Keepers \ living : keyLog[k]["issued"] = keyLog[k]["returned"]

-----------------------------------------------------------------------------
\* One loan of an inventory item (src/src/routes/inventory-items.ts, PATCH of
\* a loan): the borrower or the keeper of the inventory returns it, the
\* keeper extends it. Every call decides on the row as it was read before it
\* writes.

loanVars == <<loan, loanDay, loanCalls, confirmed>>

NotYet == 0
NoLoanCall == [op |-> "none"]
LoanDays == 1..LastLoanDay

Loan == [due: 0..LastLoanDay, returned: 0..LastLoanDay]

LoansTypeOK ==
  /\ loan \in Loan /\ loanDay \in LoanDays
  /\ confirmed \subseteq LoanDays

\* POST of a loan, with or without a day of return.
LoansInit ==
  /\ loan \in [due: {NotYet, 1}, returned: {NotYet}] /\ loanDay = 1
  /\ loanCalls = [c \in LoanCalls |-> NoLoanCall] /\ confirmed = {}

LoanCall(c, call) == loanCalls' = [loanCalls EXCEPT ![c] = call]

LoanDayPasses ==
  loanDay < LastLoanDay /\ loanDay' = loanDay + 1 /\ UNCHANGED <<loan, loanCalls, confirmed>>

-----------------------------------------------------------------------------

\* The row is read and checked: not returned, and a later day of return.
AsksToReturn(c) ==
  /\ loanCalls[c] = NoLoanCall /\ loan.returned = NotYet
  /\ LoanCall(c, [op |-> "return"]) /\ UNCHANGED <<loan, loanDay, confirmed>>

AsksToExtend(c, day) ==
  /\ loanCalls[c] = NoLoanCall /\ loan.returned = NotYet /\ day > loan.due /\ day > loanDay
  /\ LoanCall(c, [op |-> "extend", due |-> day]) /\ UNCHANGED <<loan, loanDay, confirmed>>

\* The return updates the row by its id.
ReturnsLoan(c) ==
  /\ loanCalls[c].op = "return" /\ LoanCall(c, NoLoanCall)
  /\ loan' = [loan EXCEPT !.returned = loanDay] /\ confirmed' = confirmed \cup {loanDay}
  /\ UNCHANGED loanDay

\* Faulty variant: the extension updates the row by its id alone.
StillOutAnyway == TRUE

StillOut == loan.returned = NotYet

\* The extension updates it while it is out.
ExtendsLoan(c) ==
  /\ loanCalls[c].op = "extend" /\ LoanCall(c, NoLoanCall)
  /\ loan' = IF StillOut THEN [loan EXCEPT !.due = loanCalls[c].due] ELSE loan
  /\ UNCHANGED <<loanDay, confirmed>>

LoansNext ==
  \/ LoanDayPasses
  \/ \E c \in LoanCalls :
       \/ AsksToReturn(c) \/ ReturnsLoan(c) \/ ExtendsLoan(c)
       \/ \E day \in LoanDays : AsksToExtend(c, day)

LoansSpec == LoansInit /\ [][LoansNext]_loanVars

-----------------------------------------------------------------------------
\* Properties

\* A loan that came back is not out again and its day of return is not extended.
ReturnedLoansRest ==
  loan.returned # NotYet => loan'.returned >= loan.returned /\ loan'.due = loan.due

LoansPromise == []LoansTypeOK /\ [][ReturnedLoansRest]_loanVars

\* inventory-items.ts, the error of an extension: "dueAt must be later than the
\* current return date and in the future".
ExtensionsExtend == [][loan'.due >= loan.due]_loanVars

\* inventory-items.ts, the error of a return: "Loan has already been returned".
ReturnedOnce == Cardinality(confirmed) <= 1

-----------------------------------------------------------------------------
\* Bookings of one location (src/src/routes/location-bookings.ts,
\* lib/location-bookings.ts): a booking is checked against other bookings and
\* events in a transaction that holds the location's row; an event is saved
\* without it and only warned of.

bookingVars == <<bookable, bookings, occasion, placeLock, bookingCalls, placeEdits>>

Windows == {{s \in 1..LastSlot : from <= s /\ s < to} : from \in 1..LastSlot, to \in 2..LastSlot + 1} \ {{}}
AbsentBooking == [slots |-> {}, ofEvent |-> FALSE]
NoBookingCall == [op |-> "none"]

BookingsTypeOK ==
  /\ bookable \in BOOLEAN
  /\ bookings \in [BookingIds -> [slots: Windows \cup {{}}, ofEvent: BOOLEAN]]
  /\ occasion \in Windows \cup {{}} /\ placeLock \in BookingCalls \cup {NoHolder}
  /\ placeEdits \in 0..MaxPlaceEdits

BookingsInit ==
  /\ bookable = TRUE /\ bookings = [b \in BookingIds |-> AbsentBooking]
  /\ occasion \in Windows \cup {{}} /\ placeLock = NoHolder /\ placeEdits = 0
  /\ bookingCalls = [c \in BookingCalls |-> NoBookingCall]

BookingCall(c, call) == bookingCalls' = [bookingCalls EXCEPT ![c] = call]
Booked(b) == bookings[b].slots # {}

\* occupancyOf without the booking itself and its event: bookings and events that
\* overlap; an event that has a booking among those is the same occupation.
Busy(id, want) ==
  LET others == {b \in BookingIds \ {id} : bookings[b].slots \cap want.slots # {}}
  IN others # {} \/ (~want.ofEvent /\ occasion \cap want.slots # {})

-----------------------------------------------------------------------------

\* POST of a booking, which has an id of its own.
AsksToBook(c, b, want) ==
  /\ bookingCalls[c] = NoBookingCall /\ (want.ofEvent => occasion # {})
  /\ ~Booked(b) /\ \A d \in BookingCalls : bookingCalls[d] # NoBookingCall => bookingCalls[d].id # b
  /\ BookingCall(c, [op |-> "book", id |-> b, want |-> want])
  /\ UNCHANGED <<bookable, bookings, occasion, placeLock, placeEdits>>

\* PATCH of a booking: what the body leaves out is taken from the row as it is
\* read here, before the lock.
AsksToMove(c, b, slots, ofEvent) ==
  /\ bookingCalls[c] = NoBookingCall /\ Booked(b)
  /\ ofEvent = bookings[b].ofEvent \/ ~ofEvent \/ occasion # {}
  /\ BookingCall(c, [op |-> "move", id |-> b, want |-> [slots |-> slots, ofEvent |-> ofEvent]])
  /\ UNCHANGED <<bookable, bookings, occasion, placeLock, placeEdits>>

\* Faulty variant: the row of the location is not locked.
PlaceFreeAlways == TRUE

PlaceFree == placeLock = NoHolder

\* Under the lock: is the location bookable, is the time free?
ChecksPlace(c) ==
  LET call == bookingCalls[c]
  IN /\ call.op \in {"book", "move"} /\ PlaceFree
     /\ IF (call.op = "book" /\ ~bookable) \/ Busy(call.id, call.want)
        THEN BookingCall(c, NoBookingCall) /\ UNCHANGED placeLock
        ELSE /\ placeLock' = c
             /\ BookingCall(c, [call EXCEPT !.op = IF @ = "book" THEN "inserts" ELSE "updates"])
     /\ UNCHANGED <<bookable, bookings, occasion, placeEdits>>

\* The row is inserted, or updated if it is still there.
SavesBooking(c) ==
  LET call == bookingCalls[c]
  IN /\ call.op \in {"inserts", "updates"}
     /\ bookings' = IF call.op = "inserts" \/ Booked(call.id)
                    THEN [bookings EXCEPT ![call.id] = call.want] ELSE bookings
     /\ placeLock' = NoHolder /\ BookingCall(c, NoBookingCall)
     /\ UNCHANGED <<bookable, occasion, placeEdits>>

BookingFails(c) ==
  /\ bookingCalls[c] # NoBookingCall /\ BookingCall(c, NoBookingCall)
  /\ placeLock' = IF placeLock = c THEN NoHolder ELSE placeLock
  /\ UNCHANGED <<bookable, bookings, occasion, placeEdits>>

\* DELETE of a booking takes no lock.
DeletesBooking(b) ==
  /\ Booked(b) /\ bookings' = [bookings EXCEPT ![b] = AbsentBooking]
  /\ UNCHANGED <<bookable, occasion, placeLock, bookingCalls, placeEdits>>

\* An event is saved, moved or cancelled: no lock, no check.
SavesOccasion(slots) ==
  /\ placeEdits < MaxPlaceEdits /\ placeEdits' = placeEdits + 1 /\ occasion' = slots
  /\ UNCHANGED <<bookable, bookings, placeLock, bookingCalls>>

\* A deleted event takes its bookings along.
DeletesOccasion ==
  /\ placeEdits < MaxPlaceEdits /\ placeEdits' = placeEdits + 1 /\ occasion' = {}
  /\ bookings' = [b \in BookingIds |-> IF bookings[b].ofEvent THEN AbsentBooking ELSE bookings[b]]
  /\ UNCHANGED <<bookable, placeLock, bookingCalls>>

\* PATCH of the location, an UPDATE of its row.
TogglesBookable ==
  /\ placeEdits < MaxPlaceEdits /\ placeEdits' = placeEdits + 1 /\ placeLock = NoHolder
  /\ bookable' = ~bookable /\ UNCHANGED <<bookings, occasion, placeLock, bookingCalls>>

BookingsNext ==
  \/ \E c \in BookingCalls :
       \/ \E b \in BookingIds :
            \/ \E want \in [slots: Windows, ofEvent: BOOLEAN] : AsksToBook(c, b, want)
            \/ \E slots \in Windows, ofEvent \in BOOLEAN : AsksToMove(c, b, slots, ofEvent)
       \/ ChecksPlace(c) \/ SavesBooking(c) \/ BookingFails(c)
  \/ \E b \in BookingIds : DeletesBooking(b)
  \/ \E slots \in Windows \cup {{}} : SavesOccasion(slots)
  \/ DeletesOccasion \/ TogglesBookable

BookingsSpec == BookingsInit /\ [][BookingsNext]_bookingVars

-----------------------------------------------------------------------------
\* Properties

\* "two parallel bookings cannot both win": no two bookings overlap, whoever books
\* and moves in parallel, also with a change that was read before another's.
BookingsApart ==
  \A b, d \in BookingIds : b # d => bookings[b].slots \cap bookings[d].slots = {}

\* location-bookings.ts:21: "checked against other bookings AND events at the location".
BookedIsUnoccupied ==
  \A b \in BookingIds : bookings[b].ofEvent \/ bookings[b].slots \cap occasion = {}

\* What the three registers of what a club lends promise, together.
LendingPromise ==
  /\ [](KeysTypeOK /\ LogMatchesHolders)
  /\ LoansPromise
  /\ [](BookingsTypeOK /\ BookingsApart)
=============================================================================
