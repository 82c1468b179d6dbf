---------------------------- MODULE EventsProofs ----------------------------
(***************************************************************************)
(* What surrounds an event keeps its promise, proved for all values of the *)
(* constants: the attendance list, the rides, the calendars, the reminders,*)
(* and the seats.  Each part has its invariant, one lemma for every step of *)
(* its next-state relation, and a theorem; the last one puts the first four *)
(* together.                                                               *)
(***************************************************************************)
EXTENDS ClubEvents, EventSeats, FiniteSetTheorems, WellFoundedInduction, TLAPS

-----------------------------------------------------------------------------
(***************************************************************************)
(* The attendance list.  One request at a time holds the lock on the sheet, *)
(* and what it noted under the lock, the entry as it was and whether the    *)
(* list was closed, is still true when it writes.  That is the strengthening*)
(* the correction log needs: an entry that did not change leaves no line.   *)
(***************************************************************************)
AskedSave == [op: {"save"}, at: {"asked"}, who: Attendees, status: Statuses, reason: BOOLEAN]
AskedClose == [op: {"close"}, at: {"asked"}, mark: BOOLEAN, day: Days]
LockedSave == [op: {"save"}, at: {"locked"}, who: Attendees, status: Statuses, was: Statuses, closed: BOOLEAN]
LockedClose == [op: {"close"}, at: {"locked"}, absent: SUBSET Attendees, open: SUBSET Attendees]
SheetRecord == AskedSave \cup AskedClose \cup LockedSave \cup LockedClose \cup {NoSheetCall}

OneSheetLock == \A c, d \in SheetCalls : sheetCalls[c].at = "locked" /\ sheetCalls[d].at = "locked" => c = d

LockedSeesTheList ==
  \A c \in SheetCalls :
    /\ sheetCalls[c] \in LockedSave =>
         sheetCalls[c].was = list[sheetCalls[c].who] /\ sheetCalls[c].closed = closedList
    /\ sheetCalls[c] \in LockedClose => ~closedList /\ \A a \in sheetCalls[c].open : list[a] = "open"

OpenListHasNoLog == ~closedList => \A a \in Attendees : log[a] = "none"

AttendanceInv ==
  /\ AttendanceTypeOK /\ sheetCalls \in [SheetCalls -> SheetRecord]
  /\ OneSheetLock /\ LockedSeesTheList
  /\ CorrectionsTellTheList /\ OpenListHasNoLog

LEMMA SheetCallFields ==
  ASSUME NEW call \in SheetRecord
  PROVE  /\ call.op \in {"none", "save", "close"} /\ call.at \in {"none", "asked", "locked"}
         /\ call.op = "save" /\ call.at = "asked" => call \in AskedSave
         /\ call.op = "close" /\ call.at = "asked" => call \in AskedClose
         /\ call.op = "save" /\ call.at = "locked" => call \in LockedSave
         /\ call.op = "close" /\ call.at = "locked" => call \in LockedClose
         /\ call \in LockedSave => call.at = "locked" /\ call.op = "save"
         /\ call \in LockedClose => call.at = "locked" /\ call.op = "close"
  BY DEF SheetRecord, AskedSave, AskedClose, LockedSave, LockedClose, NoSheetCall

LEMMA SheetCallSet ==
  ASSUME sheetCalls \in [SheetCalls -> SheetRecord], NEW c \in SheetCalls, NEW call \in SheetRecord, SheetCall(c, call)
  PROVE  /\ sheetCalls' \in [SheetCalls -> SheetRecord] /\ sheetCalls'[c] = call
         /\ \A d \in SheetCalls : d # c => sheetCalls'[d] = sheetCalls[d]
         /\ \A d \in SheetCalls : sheetCalls'[d].op \in {"none", "save", "close"}
  BY SheetCallFields DEF SheetCall

LEMMA AttendanceTypes ==
  ASSUME AttendanceInv
  PROVE  /\ list \in [Attendees -> Statuses] /\ listAtClose \in [Attendees -> Statuses]
         /\ log \in [Attendees -> Corrections] /\ closedList \in BOOLEAN
         /\ roster \subseteq Attendees /\ eventDay \in Days
         /\ reports \in [Attendees -> AbsenceReport] /\ saves \in 0..MaxSaves /\ reportCount \in 0..MaxReports
         /\ sheetCalls \in [SheetCalls -> SheetRecord] /\ MaxSaves \in Nat /\ MaxReports \in Nat
  BY AttendanceAssumption DEF AttendanceInv, AttendanceTypeOK

ListKept == UNCHANGED <<list, closedList, log, listAtClose>>

LEMMA ListRests ==
  ASSUME AttendanceInv, ListKept
  PROVE  CorrectionsTellTheList' /\ OpenListHasNoLog' /\ ListsCloseOnce /\ ClosingKeepsRecords
  BY DEF ListKept, AttendanceInv, CorrectionsTellTheList, OpenListHasNoLog, ListsCloseOnce, ClosingKeepsRecords

\* What happens around the list.
LEMMA AroundKeeps ==
  ASSUME AttendanceInv, Around, roster' \subseteq Attendees, eventDay' \in Days, reports' \in [Attendees -> AbsenceReport]
  PROVE  AttendanceInv' /\ ListsCloseOnce /\ ClosingKeepsRecords
  <1>1. reportCount' \in 0..MaxReports
    BY AttendanceTypes DEF Around
  <1>2. ListKept /\ UNCHANGED <<sheetCalls, saves>>
    BY DEF Around, ListKept
  <1>3. AttendanceTypeOK'
    BY <1>1, <1>2 DEF AttendanceInv, AttendanceTypeOK, ListKept
  <1>4. OneSheetLock' /\ LockedSeesTheList'
    BY <1>2 DEF AttendanceInv, OneSheetLock, LockedSeesTheList, ListKept
  <1>5. QED
    BY <1>2, <1>3, <1>4, ListRests DEF AttendanceInv

LEMMA ReportsKeep ==
  ASSUME AttendanceInv, NEW a \in Attendees,
         WithdrawsAbsence(a) \/ \E days \in SUBSET Days \ {{}} : ReportsAbsence(a, days)
  PROVE  AttendanceInv' /\ ListsCloseOnce /\ ClosingKeepsRecords
  <1>1. Around /\ UNCHANGED <<roster, eventDay>>
    BY DEF WithdrawsAbsence, ReportsAbsence
  <1>2. reports' \in [Attendees -> AbsenceReport]
    BY AttendanceTypes DEF WithdrawsAbsence, ReportsAbsence, AbsenceReport
  <1>3. QED
    BY <1>1, <1>2, AttendanceTypes, AroundKeeps

LEMMA SurroundingsKeep ==
  ASSUME AttendanceInv, (\E r \in SUBSET Attendees : RosterChanges(r)) \/ (\E d \in Days : EventMoves(d))
  PROVE  AttendanceInv' /\ ListsCloseOnce /\ ClosingKeepsRecords
  BY AttendanceTypes, AroundKeeps DEF RosterChanges, EventMoves

LEMMA OpensSheetKeeps ==
  ASSUME AttendanceInv, NEW c \in SheetCalls, NEW call \in AskedSave \cup AskedClose, OpensSheet(c, call)
  PROVE  AttendanceInv' /\ ListsCloseOnce /\ ClosingKeepsRecords
  <1>1. call \in SheetRecord /\ call.at = "asked"
    BY DEF SheetRecord, AskedSave, AskedClose
  <1>2. /\ sheetCalls' \in [SheetCalls -> SheetRecord] /\ sheetCalls'[c] = call
        /\ \A d \in SheetCalls : d # c => sheetCalls'[d] = sheetCalls[d]
        /\ \A d \in SheetCalls : sheetCalls'[d].op \in {"none", "save", "close"}
    BY <1>1, AttendanceTypes, SheetCallSet DEF OpensSheet
  <1>3. saves' \in 0..MaxSaves /\ ListKept /\ UNCHANGED <<roster, reports, eventDay, reportCount>>
    BY AttendanceTypes DEF OpensSheet, ListKept
  <1>4. AttendanceTypeOK'
    BY <1>2, <1>3 DEF AttendanceInv, AttendanceTypeOK, ListKept
  <1>5. OneSheetLock'
    BY <1>1, <1>2 DEF AttendanceInv, OneSheetLock
  <1>6. LockedSeesTheList'
    BY <1>1, <1>2, <1>3, SheetCallFields DEF AttendanceInv, LockedSeesTheList, ListKept
  <1>7. QED
    BY <1>2, <1>3, <1>4, <1>5, <1>6, ListRests DEF AttendanceInv

LEMMA LocksSheetKeeps ==
  ASSUME AttendanceInv, NEW c \in SheetCalls, LocksSheet(c)
  PROVE  AttendanceInv' /\ ListsCloseOnce /\ ClosingKeepsRecords
  <1>1. PICK call \in SheetRecord :
          /\ SheetCall(c, call)
          /\ call \in LockedSave => call.was = list[call.who] /\ call.closed = closedList
          /\ call \in LockedClose => ~closedList /\ \A a \in call.open : list[a] = "open"
    <2>1. PICK request : request = sheetCalls[c]
      OBVIOUS
    <2>2. request \in SheetRecord /\ request.at = "asked"
      BY <2>1, AttendanceTypes DEF LocksSheet
    <2>3. CASE request.op = "save"
      <3>1. request \in AskedSave
        BY <2>2, <2>3, SheetCallFields
      <3>2. request.who \in Attendees /\ request.status \in Statuses /\ list[request.who] \in Statuses /\ closedList \in BOOLEAN
        BY <3>1, AttendanceTypes DEF AskedSave
      <3>3. CASE closedList => request.reason
        <4>1. PICK next : next = [op |-> "save", at |-> "locked", who |-> request.who, status |-> request.status,
                                  was |-> list[request.who], closed |-> closedList]
          OBVIOUS
        <4>2. next \in LockedSave /\ next.was = list[next.who] /\ next.closed = closedList
          BY <3>2, <4>1 DEF LockedSave
        <4>3. SheetCall(c, next)
          BY <2>1, <2>3, <3>3, <4>1 DEF LocksSheet
        <4>4. next \notin LockedClose /\ next \in SheetRecord
          BY <4>2 DEF LockedSave, LockedClose, SheetRecord
        <4>5. QED
          BY <4>2, <4>3, <4>4
      <3>4. CASE ~(closedList => request.reason)
        <4>1. SheetCall(c, NoSheetCall)
          BY <2>1, <2>3, <3>4 DEF LocksSheet
        <4>2. QED
          BY <4>1, SheetCallFields DEF SheetRecord, NoSheetCall
      <3>5. QED
        BY <3>3, <3>4
    <2>4. CASE request.op # "save"
      <3>1. request \in AskedClose
        BY <2>2, <2>4, SheetCallFields DEF SheetRecord, AskedSave, AskedClose, LockedSave, LockedClose, NoSheetCall
      <3>2. CASE ~closedList
        <4>1. PICK free : free = IF request.mark THEN {a \in roster : list[a] = "open"} ELSE {}
          OBVIOUS
        <4>2. free \in SUBSET Attendees /\ \A a \in free : list[a] = "open"
          BY <4>1, AttendanceTypes
        <4>3. Absent(request.day) \in SUBSET Attendees
          BY DEF Absent
        <4>4. PICK next : next = [op |-> "close", at |-> "locked", absent |-> Absent(request.day), open |-> free]
          OBVIOUS
        <4>5. next \in LockedClose /\ next.open = free
          BY <4>2, <4>3, <4>4 DEF LockedClose
        <4>6. SheetCall(c, next)
          BY <2>1, <2>4, <3>2, <4>1, <4>4 DEF LocksSheet
        <4>7. next \notin LockedSave /\ next \in SheetRecord
          BY <4>5 DEF LockedSave, LockedClose, SheetRecord
        <4>8. QED
          BY <3>2, <4>2, <4>5, <4>6, <4>7
      <3>3. CASE closedList
        <4>1. SheetCall(c, NoSheetCall)
          BY <2>1, <2>4, <3>3 DEF LocksSheet
        <4>2. QED
          BY <4>1, SheetCallFields DEF SheetRecord, NoSheetCall
      <3>4. QED
        BY <3>2, <3>3
    <2>5. QED
      BY <2>3, <2>4
  <1>2. /\ sheetCalls' \in [SheetCalls -> SheetRecord] /\ sheetCalls'[c] = call
        /\ \A d \in SheetCalls : d # c => sheetCalls'[d] = sheetCalls[d]
        /\ \A d \in SheetCalls : sheetCalls'[d].op \in {"none", "save", "close"}
    BY <1>1, AttendanceTypes, SheetCallSet
  <1>3. ListKept /\ UNCHANGED <<roster, reports, eventDay, saves, reportCount>>
    BY DEF LocksSheet, ListKept
  <1>4. AttendanceTypeOK'
    BY <1>2, <1>3 DEF AttendanceInv, AttendanceTypeOK, ListKept
  <1>5. OneSheetLock'
    BY <1>2 DEF LocksSheet, SheetFree, OneSheetLock
  <1>6. LockedSeesTheList'
    BY <1>1, <1>2, <1>3 DEF AttendanceInv, LockedSeesTheList, ListKept
  <1>7. QED
    BY <1>2, <1>3, <1>4, <1>5, <1>6, ListRests DEF AttendanceInv

\* Whoever holds the lock leaves it: nobody else holds it.
LEMMA LockIsLeft ==
  ASSUME AttendanceInv, NEW c \in SheetCalls, sheetCalls[c].at = "locked", SheetCall(c, NoSheetCall)
  PROVE  /\ sheetCalls' \in [SheetCalls -> SheetRecord] /\ OneSheetLock' /\ LockedSeesTheList'
         /\ \A d \in SheetCalls : sheetCalls'[d].op \in {"none", "save", "close"}
  <1>1. NoSheetCall \in SheetRecord /\ NoSheetCall.at = "none"
    BY DEF SheetRecord, NoSheetCall
  <1>2. /\ sheetCalls' \in [SheetCalls -> SheetRecord] /\ sheetCalls'[c] = NoSheetCall
        /\ \A d \in SheetCalls : d # c => sheetCalls'[d] = sheetCalls[d]
        /\ \A d \in SheetCalls : sheetCalls'[d].op \in {"none", "save", "close"}
    BY <1>1, AttendanceTypes, SheetCallSet
  <1>3. \A d \in SheetCalls : sheetCalls'[d].at # "locked"
    BY <1>1, <1>2 DEF AttendanceInv, OneSheetLock
  <1>4. OneSheetLock'
    BY <1>3 DEF OneSheetLock
  <1>5. LockedSeesTheList'
    BY <1>2, <1>3, SheetCallFields DEF LockedSeesTheList
  <1>6. QED
    BY <1>2, <1>4, <1>5

LEMMA SavesEntryKeeps ==
  ASSUME AttendanceInv, NEW c \in SheetCalls, SavesEntry(c)
  PROVE  AttendanceInv' /\ ListsCloseOnce /\ ClosingKeepsRecords
  <1>1. PICK call : call = sheetCalls[c]
    OBVIOUS
  <1>2. call \in LockedSave /\ call.was = list[call.who] /\ call.closed = closedList
    BY <1>1, AttendanceTypes, SheetCallFields DEF SavesEntry, AttendanceInv, LockedSeesTheList
  <1>3. call.who \in Attendees /\ call.status \in Statuses /\ call.status # "none"
    BY <1>2 DEF LockedSave, Statuses, Recorded
  <1>4. /\ list' = [list EXCEPT ![call.who] = call.status]
        /\ log' = IF Logs(call) THEN [log EXCEPT ![call.who] = call.status] ELSE log
        /\ UNCHANGED <<closedList, listAtClose, roster, reports, eventDay, saves, reportCount>>
    BY <1>1 DEF SavesEntry
  <1>5. /\ sheetCalls' \in [SheetCalls -> SheetRecord] /\ OneSheetLock' /\ LockedSeesTheList'
        /\ \A d \in SheetCalls : sheetCalls'[d].op \in {"none", "save", "close"}
    BY LockIsLeft DEF SavesEntry
  <1>6. list' \in [Attendees -> Statuses] /\ log' \in [Attendees -> Corrections]
    BY <1>3, <1>4, AttendanceTypes DEF Corrections
  <1>7. AttendanceTypeOK'
    BY <1>4, <1>5, <1>6 DEF AttendanceInv, AttendanceTypeOK
  <1>8. CorrectionsTellTheList'
    BY <1>2, <1>3, <1>4, AttendanceTypes DEF AttendanceInv, CorrectionsTellTheList, Logs
  <1>9. OpenListHasNoLog'
    BY <1>2, <1>4 DEF AttendanceInv, OpenListHasNoLog, Logs
  <1>10. ListsCloseOnce /\ ClosingKeepsRecords
    BY <1>4 DEF AttendanceInv, OpenListHasNoLog, ListsCloseOnce, ClosingKeepsRecords
  <1>11. QED
    BY <1>5, <1>7, <1>8, <1>9, <1>10 DEF AttendanceInv

LEMMA ClosesListKeeps ==
  ASSUME AttendanceInv, NEW c \in SheetCalls, ClosesList(c)
  PROVE  AttendanceInv' /\ ListsCloseOnce /\ ClosingKeepsRecords
  <1>1. sheetCalls[c] \in LockedClose /\ ~closedList /\ \A a \in sheetCalls[c].open : list[a] = "open"
    BY AttendanceTypes, SheetCallFields DEF ClosesList, AttendanceInv, LockedSeesTheList
  <1>2. /\ \A a \in Attendees :
             list'[a] = IF a \notin sheetCalls[c].open THEN list[a]
                        ELSE IF a \in sheetCalls[c].absent THEN "excused" ELSE "unexcused"
        /\ list' \in [Attendees -> Statuses]
    BY AttendanceTypes DEF ClosesList, Statuses, Recorded
  <1>3. closedList' = TRUE /\ listAtClose' = list' /\ UNCHANGED <<log, roster, reports, eventDay, saves, reportCount>>
    BY DEF ClosesList
  <1>4. /\ sheetCalls' \in [SheetCalls -> SheetRecord] /\ OneSheetLock' /\ LockedSeesTheList'
        /\ \A d \in SheetCalls : sheetCalls'[d].op \in {"none", "save", "close"}
    BY LockIsLeft DEF ClosesList
  <1>5. AttendanceTypeOK'
    BY <1>2, <1>3, <1>4 DEF AttendanceInv, AttendanceTypeOK
  <1>6. CorrectionsTellTheList' /\ OpenListHasNoLog' /\ ListsCloseOnce
    BY <1>1, <1>3 DEF AttendanceInv, OpenListHasNoLog, CorrectionsTellTheList, ListsCloseOnce
  <1>7. ClosingKeepsRecords
    BY <1>1, <1>2 DEF ClosingKeepsRecords
  <1>8. QED
    BY <1>4, <1>5, <1>6, <1>7 DEF AttendanceInv

LEMMA AttendanceStarts ==
  ASSUME AttendanceInit
  PROVE  AttendanceInv
  <1>1. NoSheetCall \in SheetRecord /\ NoSheetCall.op = "none" /\ NoSheetCall.at = "none"
    BY DEF SheetRecord, NoSheetCall
  <1>2. sheetCalls \in [SheetCalls -> SheetRecord] /\ \A c \in SheetCalls : sheetCalls[c] = NoSheetCall
    BY <1>1 DEF AttendanceInit
  <1>3. AttendanceTypeOK
    <2>1. NoReport \in AbsenceReport
      BY DEF NoReport, AbsenceReport
    <2>2. reports \in [Attendees -> AbsenceReport]
      BY <2>1 DEF AttendanceInit
    <2>3. list \in [Attendees -> Statuses] /\ listAtClose \in [Attendees -> Statuses] /\ log \in [Attendees -> Corrections]
      BY DEF AttendanceInit, Statuses, Corrections
    <2>4. saves \in 0..MaxSaves /\ reportCount \in 0..MaxReports
      BY AttendanceAssumption DEF AttendanceInit
    <2>5. QED
      BY <1>1, <1>2, <2>2, <2>3, <2>4 DEF AttendanceInit, AttendanceTypeOK
  <1>4. OneSheetLock /\ LockedSeesTheList
    BY <1>1, <1>2, SheetCallFields DEF OneSheetLock, LockedSeesTheList
  <1>5. CorrectionsTellTheList /\ OpenListHasNoLog
    BY DEF AttendanceInit, CorrectionsTellTheList, OpenListHasNoLog
  <1>6. QED
    BY <1>2, <1>3, <1>4, <1>5 DEF AttendanceInv

LEMMA AttendanceStep ==
  ASSUME AttendanceInv, [AttendanceNext]_sheetVars
  PROVE  AttendanceInv' /\ ListsCloseOnce /\ ClosingKeepsRecords
  <1>1. ASSUME NEW c \in SheetCalls,
               \/ \E a \in Attendees, s \in Statuses, why \in BOOLEAN :
                    OpensSheet(c, [op |-> "save", at |-> "asked", who |-> a, status |-> s, reason |-> why])
               \/ \E mark \in BOOLEAN :
                    OpensSheet(c, [op |-> "close", at |-> "asked", mark |-> mark, day |-> eventDay])
        PROVE  \E call \in AskedSave \cup AskedClose : OpensSheet(c, call)
    BY <1>1, AttendanceTypes DEF AskedSave, AskedClose
  <1>2. CASE AttendanceNext
    BY <1>1, <1>2, ReportsKeep, SurroundingsKeep, OpensSheetKeeps, LocksSheetKeeps, SavesEntryKeeps, ClosesListKeeps
    DEF AttendanceNext
  <1>3. CASE UNCHANGED sheetVars
    <2>1. ListKept /\ UNCHANGED <<roster, reports, eventDay, sheetCalls, saves, reportCount>>
      BY <1>3 DEF sheetVars, ListKept
    <2>2. AttendanceTypeOK'
      BY <2>1 DEF AttendanceInv, AttendanceTypeOK, ListKept
    <2>3. OneSheetLock' /\ LockedSeesTheList'
      BY <2>1 DEF AttendanceInv, OneSheetLock, LockedSeesTheList, ListKept
    <2>4. QED
      BY <2>1, <2>2, <2>3, ListRests DEF AttendanceInv
  <1>4. QED
    BY <1>2, <1>3

\* A closed attendance list is always what it was when it was closed and the logged
\* corrections since; it closes once, and closing overwrites no entry: for any members
\* and any concurrent saves and closings (routes/event-attendance.ts).
THEOREM AttendanceIsSound == AttendanceSpec => AttendancePromise
  <1>1. AttendanceInit => AttendanceInv
    BY AttendanceStarts
  <1>2. AttendanceInv /\ [AttendanceNext]_sheetVars => AttendanceInv'
    BY AttendanceStep
  <1>3. AttendanceInv /\ [AttendanceNext]_sheetVars => [ListsCloseOnce /\ ClosingKeepsRecords]_sheetVars
    BY AttendanceStep
  <1>4. AttendanceInv => AttendanceTypeOK /\ CorrectionsTellTheList
    BY DEF AttendanceInv
  <1>5. QED
    BY <1>1, <1>2, <1>3, <1>4, PTL DEF AttendanceSpec, AttendancePromise

-----------------------------------------------------------------------------
(***************************************************************************)
(* The rides.  A decision and a change of the seats count who has a seat    *)
(* under the lock on the ride, and only on the ride they were made for;     *)
(* what a call carries from before is the passenger and the verdict.  The   *)
(* confirmed passengers are finitely many, since they come one by one.      *)
(***************************************************************************)
DecideCall == [op: {"decide"}, who: Passengers, id: 0..MaxAsks, verdict: Verdicts,
               number: 1..MaxRides, seats: 0..MaxSeats]
TellCall == [op: {"tell"}, who: Passengers, verdict: Verdicts, number: 1..MaxRides]
ResizeCall == [op: {"resize"}, to: 1..MaxSeats, number: 1..MaxRides]
CancelCall == [op: {"cancel"}, those: SUBSET Passengers, number: 1..MaxRides]
RideRecord == DecideCall \cup TellCall \cup ResizeCall \cup CancelCall \cup {NoRideCall}

RidesInv ==
  /\ RidesTypeOK /\ rideCalls \in [RideCalls -> RideRecord]
  /\ IsFiniteSet(Confirmed) /\ CarIsNotOverfull /\ RequestsHaveARide

LEMMA RideNumbers ==
  ASSUME RidesInv
  PROVE  /\ MaxSeats \in Nat /\ MaxRides \in Nat /\ MaxAsks \in Nat /\ ride \in Ride
         /\ ride.number \in 1..MaxRides /\ ride.seats \in 0..MaxSeats /\ asked \in 0..MaxAsks
         /\ requests \in [Passengers -> RideRequest] /\ rideCalls \in [RideCalls -> RideRecord]
         /\ told \in [Passengers -> {"nothing", "cancelled"} \cup Verdicts]
  BY RidesAssumption DEF RidesInv, RidesTypeOK, Ride

LEMMA RideCallFields ==
  ASSUME NEW call \in RideRecord
  PROVE  /\ call.op \in {"none", "decide", "tell", "cancel", "resize"}
         /\ call.op = "decide" => call \in DecideCall
         /\ call.op = "tell" => call \in TellCall
         /\ call.op = "resize" => call \in ResizeCall
         /\ call.op = "cancel" => call \in CancelCall
         /\ call.op = "none" => call = NoRideCall
  BY DEF RideRecord, DecideCall, TellCall, ResizeCall, CancelCall, NoRideCall

LEMMA RideCallSet ==
  ASSUME RidesInv, NEW c \in RideCalls, NEW call \in RideRecord, RideCall(c, call)
  PROVE  /\ rideCalls' \in [RideCalls -> RideRecord]
         /\ \A d \in RideCalls : rideCalls'[d].op \in {"none", "decide", "tell", "cancel", "resize"}
  BY RideNumbers, RideCallFields DEF RideCall

\* Nobody without a seat gets one: whoever is confirmed was confirmed before.
LEMMA FewerConfirmed ==
  ASSUME RidesInv, Confirmed' \subseteq Confirmed
  PROVE  IsFiniteSet(Confirmed') /\ Cardinality(Confirmed') <= Cardinality(Confirmed)
  BY FS_Subset DEF RidesInv

\* A step that leaves the ride as it is and confirms nobody.
LEMMA SeatsUnused ==
  ASSUME RidesInv, Confirmed' \subseteq Confirmed, UNCHANGED ride, RequestsHaveARide', RidesTypeOK',
         rideCalls' \in [RideCalls -> RideRecord]
  PROVE  RidesInv'
  <1>1. ride.seats \in Nat /\ Cardinality(Confirmed) \in Nat /\ Cardinality(Confirmed) <= ride.seats
    BY RideNumbers, FS_CardinalityType DEF RidesInv, CarIsNotOverfull
  <1>2. Cardinality(Confirmed') <= Cardinality(Confirmed) /\ IsFiniteSet(Confirmed')
    BY FewerConfirmed
  <1>3. Cardinality(Confirmed') \in Nat
    BY <1>2, FS_CardinalityType
  <1>4. CarIsNotOverfull'
    BY <1>1, <1>2, <1>3 DEF CarIsNotOverfull
  <1>5. QED
    BY <1>2, <1>4 DEF RidesInv

\* A step that leaves the requests alone takes nobody's seat.
LEMMA RequestsRest ==
  ASSUME UNCHANGED requests
  PROVE  SeatsAreKept /\ Confirmed' = Confirmed
  BY DEF SeatsAreKept, Confirmed

LEMMA AsksForSeatKeeps ==
  ASSUME RidesInv, NEW p \in Passengers, AsksForSeat(p)
  PROVE  RidesInv' /\ SeatsAreKept
  <1>1. asked' \in 0..MaxAsks
    BY RideNumbers DEF AsksForSeat
  <1>2. PICK new \in RideRequest : new = [is |-> "asked", id |-> asked']
    BY <1>1 DEF RideRequest
  <1>3. requests' = [requests EXCEPT ![p] = new] /\ requests' \in [Passengers -> RideRequest] /\ new.is = "asked"
    BY <1>2, RideNumbers DEF AsksForSeat
  <1>4. Confirmed' \subseteq Confirmed
    BY <1>3, RideNumbers DEF Confirmed
  <1>5. RidesTypeOK'
    <2>1. told' \in [Passengers -> {"nothing", "cancelled"} \cup Verdicts]
      BY RideNumbers DEF AsksForSeat
    <2>2. QED
      BY <1>1, <1>3, <2>1 DEF RidesTypeOK, AsksForSeat, RidesInv
  <1>6. RequestsHaveARide'
    BY DEF RequestsHaveARide, Offered, AsksForSeat
  <1>7. RidesInv'
    BY <1>4, <1>5, <1>6, SeatsUnused, RideNumbers DEF AsksForSeat
  <1>8. SeatsAreKept
    <2>1. p \notin Confirmed
      BY DEF AsksForSeat, Confirmed, NoRequest
    <2>2. QED
      BY <1>3, <2>1, RideNumbers DEF SeatsAreKept, Confirmed
  <1>9. QED
    BY <1>7, <1>8

LEMMA WithdrawsRequestKeeps ==
  ASSUME RidesInv, NEW p \in Passengers, WithdrawsRequest(p)
  PROVE  RidesInv' /\ SeatsAreKept
  <1>1. NoRequest \in RideRequest /\ NoRequest.is = "none"
    BY RidesAssumption DEF RideRequest, NoRequest
  <1>2. requests' = [requests EXCEPT ![p] = NoRequest] /\ UNCHANGED <<ride, rideCalls, told, asked>> /\ Offered
    BY DEF WithdrawsRequest
  <1>3. Confirmed' \subseteq Confirmed
    BY <1>1, <1>2, RideNumbers DEF Confirmed
  <1>4. RidesTypeOK'
    BY <1>1, <1>2 DEF RidesTypeOK, RidesInv
  <1>5. RequestsHaveARide'
    BY <1>2 DEF RequestsHaveARide, Offered
  <1>6. RidesInv'
    BY <1>2, <1>3, <1>4, <1>5, SeatsUnused, RideNumbers
  <1>7. SeatsAreKept
    BY <1>2, RideNumbers DEF SeatsAreKept, Confirmed
  <1>8. QED
    BY <1>6, <1>7

\* A step of a call that writes no row.
LEMMA CallsMove ==
  ASSUME RidesInv, NEW c \in RideCalls, NEW call \in RideRecord, RideCall(c, call),
         UNCHANGED <<ride, requests, asked>>,
         told' \in [Passengers -> {"nothing", "cancelled"} \cup Verdicts]
  PROVE  RidesInv' /\ SeatsAreKept
  <1>1. /\ rideCalls' \in [RideCalls -> RideRecord]
        /\ \A d \in RideCalls : rideCalls'[d].op \in {"none", "decide", "tell", "cancel", "resize"}
    BY RideCallSet
  <1>2. RidesTypeOK'
    BY <1>1 DEF RidesTypeOK, RidesInv
  <1>3. RequestsHaveARide'
    BY DEF RequestsHaveARide, Offered, RidesInv
  <1>4. SeatsAreKept /\ Confirmed' = Confirmed
    BY RequestsRest
  <1>5. QED
    BY <1>1, <1>2, <1>3, <1>4, SeatsUnused

LEMMA DriverActsKeeps ==
  ASSUME RidesInv, NEW c \in RideCalls,
         \/ \E p \in Passengers, v \in Verdicts :
              /\ requests[p] # NoRequest
              /\ DriverActs(c, [op |-> "decide", who |-> p, id |-> requests[p].id, verdict |-> v,
                                number |-> ride.number, seats |-> ride.seats])
         \/ \E n \in 1..MaxSeats : DriverActs(c, [op |-> "resize", to |-> n, number |-> ride.number])
         \/ DriverActs(c, [op |-> "cancel", those |-> Waiting, number |-> ride.number])
  PROVE  RidesInv' /\ SeatsAreKept
  <1>1. \E call \in RideRecord : DriverActs(c, call)
    <2>1. ASSUME NEW p \in Passengers, NEW v \in Verdicts
          PROVE  [op |-> "decide", who |-> p, id |-> requests[p].id, verdict |-> v,
                  number |-> ride.number, seats |-> ride.seats] \in RideRecord
      <3>1. requests[p].id \in 0..MaxAsks
        BY RideNumbers DEF RideRequest
      <3>2. QED
        BY <3>1, RideNumbers DEF RideRecord, DecideCall
    <2>2. ASSUME NEW n \in 1..MaxSeats
          PROVE  [op |-> "resize", to |-> n, number |-> ride.number] \in RideRecord
      BY RideNumbers DEF RideRecord, ResizeCall
    <2>3. [op |-> "cancel", those |-> Waiting, number |-> ride.number] \in RideRecord
      BY RideNumbers DEF RideRecord, CancelCall, Waiting
    <2>4. QED
      BY <2>1, <2>2, <2>3
  <1>2. PICK call \in RideRecord : DriverActs(c, call)
    BY <1>1
  <1>3. QED
    BY <1>2, CallsMove, RideNumbers DEF DriverActs

LEMMA TellsVerdictKeeps ==
  ASSUME RidesInv, NEW c \in RideCalls, TellsVerdict(c)
  PROVE  RidesInv' /\ SeatsAreKept
  <1>1. rideCalls[c] \in TellCall
    BY RideNumbers, RideCallFields DEF TellsVerdict
  <1>2. rideCalls[c].verdict \in Verdicts
    BY <1>1 DEF TellCall
  <1>3. told' \in [Passengers -> {"nothing", "cancelled"} \cup Verdicts]
    BY <1>2, RideNumbers DEF TellsVerdict
  <1>4. NoRideCall \in RideRecord
    BY DEF RideRecord
  <1>5. QED
    BY <1>3, <1>4, CallsMove DEF TellsVerdict

LEMMA DecidesKeeps ==
  ASSUME RidesInv, NEW c \in RideCalls, Decides(c)
  PROVE  RidesInv' /\ SeatsAreKept
  <1>1. PICK p, v : p = rideCalls[c].who /\ v = rideCalls[c].verdict
    OBVIOUS
  <1>2. rideCalls[c] \in DecideCall
    BY RideNumbers, RideCallFields DEF Decides
  <1>3. p \in Passengers /\ v \in Verdicts /\ rideCalls[c].op = "decide"
    BY <1>1, <1>2 DEF DecideCall
  <1>4. CASE RideCall(c, NoRideCall) /\ UNCHANGED requests
    <2>1. NoRideCall \in RideRecord
      BY DEF RideRecord
    <2>2. UNCHANGED <<ride, requests, asked>> /\ told' \in [Passengers -> {"nothing", "cancelled"} \cup Verdicts]
      BY <1>4, RideNumbers DEF Decides
    <2>3. QED
      BY <1>4, <2>1, <2>2, CallsMove
  <1>5. CASE /\ StillThere(c) /\ (v = "confirmed" => p \in Confirmed \/ SeatIsFree(c))
             /\ requests' = [requests EXCEPT ![p].is = v]
             /\ RideCall(c, [op |-> "tell", who |-> p, verdict |-> v, number |-> ride.number])
             /\ UNCHANGED <<ride, told, asked>>
    <2>1. PICK tells \in RideRecord : tells = [op |-> "tell", who |-> p, verdict |-> v, number |-> ride.number]
      BY <1>3, RideNumbers DEF RideRecord, TellCall
    <2>2. /\ rideCalls' \in [RideCalls -> RideRecord]
          /\ \A d \in RideCalls : rideCalls'[d].op \in {"none", "decide", "tell", "cancel", "resize"}
      BY <1>5, <2>1, RideCallSet
    <2>3. requests[p] \in RideRequest
      BY <1>3, RideNumbers
    <2>4. PICK new : new = [requests[p] EXCEPT !.is = v]
      OBVIOUS
    <2>5. new \in RideRequest /\ new.is = v
      BY <1>3, <2>3, <2>4 DEF RideRequest
    <2>6. requests' = [requests EXCEPT ![p] = new] /\ requests' \in [Passengers -> RideRequest]
      BY <1>3, <1>5, <2>4, <2>5, RideNumbers
    <2>7. \A q \in Passengers : requests'[q] = IF q = p THEN new ELSE requests[q]
      BY <2>6, RideNumbers
    <2>8. RidesTypeOK'
      BY <1>5, <2>2, <2>6 DEF RidesTypeOK, RidesInv
    <2>9. RequestsHaveARide'
      BY <1>5 DEF RequestsHaveARide, StillThere, Offered
    <2>10. ASSUME v = "confirmed", p \notin Confirmed PROVE RidesInv'
      <3>1. Confirmed' = Confirmed \cup {p}
        BY <1>3, <2>5, <2>7, <2>10 DEF Confirmed
      <3>2. IsFiniteSet(Confirmed) /\ Cardinality(Confirmed) \in Nat
        BY FS_CardinalityType DEF RidesInv
      <3>3. IsFiniteSet(Confirmed') /\ Cardinality(Confirmed') = Cardinality(Confirmed) + 1
        BY <2>10, <3>1, <3>2, FS_AddElement
      <3>4. Cardinality(Confirmed) < ride.seats /\ ride.seats \in Nat
        BY <1>5, <2>10, RideNumbers DEF SeatIsFree
      <3>5. CarIsNotOverfull'
        BY <1>5, <3>2, <3>3, <3>4 DEF CarIsNotOverfull
      <3>6. QED
        BY <2>2, <2>8, <2>9, <3>3, <3>5 DEF RidesInv
    <2>11. ASSUME ~(v = "confirmed" /\ p \notin Confirmed) PROVE RidesInv'
      <3>1. Confirmed' \subseteq Confirmed
        BY <2>5, <2>7, <2>11 DEF Confirmed
      <3>2. QED
        BY <1>5, <2>2, <2>8, <2>9, <3>1, SeatsUnused
    <2>12. RidesInv'
      BY <2>10, <2>11
    <2>13. SeatsAreKept
      <3>1. rideCalls'[c] # rideCalls[c]
        <4>1. rideCalls'[c] = tells
          BY <1>5, <2>1, RideNumbers DEF RideCall
        <4>2. tells.op = "tell"
          BY <2>1
        <4>3. QED
          BY <1>3, <4>1, <4>2
      <3>2. v = "confirmed" \/ v = "declined"
        BY <1>3 DEF Verdicts
      <3>3. ASSUME NEW q \in Confirmed, requests'[q].is # "confirmed"
            PROVE  q = p /\ v = "declined"
        BY <2>5, <2>7, <3>2, <3>3 DEF Confirmed
      <3>4. QED
        BY <1>1, <1>3, <3>1, <3>3 DEF SeatsAreKept
    <2>14. QED
      BY <2>12, <2>13
  <1>6. QED
    BY <1>1, <1>4, <1>5 DEF Decides

LEMMA ResizesRideKeeps ==
  ASSUME RidesInv, NEW c \in RideCalls, ResizesRide(c)
  PROVE  RidesInv' /\ SeatsAreKept
  <1>1. rideCalls[c] \in ResizeCall /\ RideCall(c, NoRideCall) /\ UNCHANGED <<requests, told, asked>>
    BY RideNumbers, RideCallFields DEF ResizesRide
  <1>2. PICK n \in 1..MaxSeats : n = rideCalls[c].to
    BY <1>1 DEF ResizeCall
  <1>3. NoRideCall \in RideRecord
    BY DEF RideRecord
  <1>4. CASE UNCHANGED ride
    BY <1>1, <1>3, <1>4, CallsMove, RideNumbers
  <1>5. CASE ride' = [ride EXCEPT !.seats = n] /\ Cardinality(Confirmed) <= n
    <2>1. ride' \in Ride /\ ride'.seats = n /\ n \in Nat /\ n # 0
      BY <1>2, <1>5, RideNumbers DEF Ride
    <2>2. SeatsAreKept /\ Confirmed' = Confirmed
      BY <1>1, RequestsRest
    <2>3. /\ rideCalls' \in [RideCalls -> RideRecord]
          /\ \A d \in RideCalls : rideCalls'[d].op \in {"none", "decide", "tell", "cancel", "resize"}
      BY <1>1, <1>3, RideCallSet
    <2>4. RidesTypeOK'
      BY <1>1, <2>1, <2>3 DEF RidesTypeOK, RidesInv
    <2>5. CarIsNotOverfull' /\ RequestsHaveARide' /\ IsFiniteSet(Confirmed')
      BY <1>5, <2>1, <2>2 DEF CarIsNotOverfull, RequestsHaveARide, Offered, NoRide, RidesInv
    <2>6. QED
      BY <2>2, <2>3, <2>4, <2>5 DEF RidesInv
  <1>6. QED
    BY <1>2, <1>4, <1>5 DEF ResizesRide

LEMMA CancelsRideKeeps ==
  ASSUME RidesInv, NEW c \in RideCalls, CancelsRide(c)
  PROVE  RidesInv' /\ SeatsAreKept
  <1>1. RideCall(c, NoRideCall) /\ NoRideCall \in RideRecord /\ UNCHANGED asked
    BY DEF CancelsRide, RideRecord
  <1>2. told' \in [Passengers -> {"nothing", "cancelled"} \cup Verdicts]
    BY RideNumbers DEF CancelsRide
  <1>3. CASE UNCHANGED <<ride, requests>>
    BY <1>1, <1>2, <1>3, CallsMove
  <1>4. CASE ride' = [ride EXCEPT !.seats = NoRide] /\ requests' = [p \in Passengers |-> NoRequest]
    <2>1. ride' \in Ride /\ ride'.seats = 0
      BY <1>4, RideNumbers DEF Ride, NoRide
    <2>2. NoRequest \in RideRequest /\ NoRequest.is = "none"
      BY RidesAssumption DEF RideRequest, NoRequest
    <2>3. requests' \in [Passengers -> RideRequest] /\ \A p \in Passengers : requests'[p] = NoRequest
      BY <1>4, <2>2
    <2>4. Confirmed' = {}
      BY <2>2, <2>3 DEF Confirmed
    <2>5. /\ rideCalls' \in [RideCalls -> RideRecord]
          /\ \A d \in RideCalls : rideCalls'[d].op \in {"none", "decide", "tell", "cancel", "resize"}
      BY <1>1, RideCallSet
    <2>6. RidesTypeOK'
      BY <1>1, <1>2, <2>1, <2>3, <2>5 DEF RidesTypeOK, RidesInv
    <2>7. CarIsNotOverfull' /\ RequestsHaveARide' /\ IsFiniteSet(Confirmed')
      BY <2>1, <2>3, <2>4, FS_EmptySet DEF CarIsNotOverfull, RequestsHaveARide
    <2>8. SeatsAreKept
      BY <2>3 DEF SeatsAreKept, Confirmed
    <2>9. QED
      BY <2>5, <2>6, <2>7, <2>8 DEF RidesInv
  <1>5. QED
    BY <1>3, <1>4 DEF CancelsRide

LEMMA OffersRideKeeps ==
  ASSUME RidesInv, NEW n \in 1..MaxSeats, OffersRide(n)
  PROVE  RidesInv' /\ SeatsAreKept
  <1>1. /\ ride' = [number |-> ride.number + 1, seats |-> n] /\ UNCHANGED <<requests, rideCalls, asked>>
        /\ told' = [p \in Passengers |-> "nothing"] /\ ~Offered /\ ride.number < MaxRides
    BY DEF OffersRide
  <1>2. ride' \in Ride /\ ride'.seats = n /\ n \in Nat /\ n # 0
    BY <1>1, RideNumbers DEF Ride
  <1>3. SeatsAreKept /\ Confirmed' = Confirmed
    BY <1>1, RequestsRest
  <1>4. Confirmed = {}
    <2>1. \A p \in Passengers : requests[p] = NoRequest
      BY <1>1 DEF RidesInv, RequestsHaveARide
    <2>2. QED
      BY <2>1 DEF Confirmed, NoRequest
  <1>5. RidesTypeOK'
    BY <1>1, <1>2 DEF RidesTypeOK, RidesInv
  <1>6. CarIsNotOverfull' /\ RequestsHaveARide' /\ IsFiniteSet(Confirmed')
    BY <1>2, <1>3, <1>4, FS_EmptySet DEF CarIsNotOverfull, RequestsHaveARide, Offered, NoRide
  <1>7. QED
    BY <1>1, <1>3, <1>5, <1>6, RideNumbers DEF RidesInv

LEMMA RidesStarts ==
  ASSUME RidesInit
  PROVE  RidesInv
  <1>1. /\ requests = [p \in Passengers |-> NoRequest] /\ rideCalls = [c \in RideCalls |-> NoRideCall]
        /\ told = [p \in Passengers |-> "nothing"] /\ asked = 0
        /\ ride \in [number : {1}, seats : 1..MaxSeats]
    BY DEF RidesInit
  <1>2. ride \in Ride /\ ride.seats \in Nat /\ asked \in 0..MaxAsks
    BY <1>1, RidesAssumption DEF Ride
  <1>3. NoRequest \in RideRequest /\ NoRequest.is = "none" /\ NoRideCall \in RideRecord /\ NoRideCall.op = "none"
    BY RidesAssumption DEF RideRequest, NoRequest, RideRecord, NoRideCall
  <1>4. Confirmed = {}
    BY <1>1, <1>3 DEF Confirmed
  <1>5. RidesTypeOK /\ rideCalls \in [RideCalls -> RideRecord]
    BY <1>1, <1>2, <1>3 DEF RidesTypeOK
  <1>6. CarIsNotOverfull /\ RequestsHaveARide /\ IsFiniteSet(Confirmed)
    BY <1>1, <1>2, <1>4, FS_EmptySet DEF CarIsNotOverfull, RequestsHaveARide
  <1>7. QED
    BY <1>5, <1>6 DEF RidesInv

LEMMA RidesStep ==
  ASSUME RidesInv, [RidesNext]_rideVars
  PROVE  RidesInv' /\ (SeatsAreKept \/ UNCHANGED rideVars)
  <1>1. CASE RidesNext
    BY <1>1, AsksForSeatKeeps, WithdrawsRequestKeeps, DriverActsKeeps, DecidesKeeps, TellsVerdictKeeps,
       ResizesRideKeeps, CancelsRideKeeps, OffersRideKeeps DEF RidesNext
  <1>2. CASE UNCHANGED rideVars
    BY <1>2 DEF rideVars, RidesInv, RidesTypeOK, Confirmed, CarIsNotOverfull, RequestsHaveARide, Offered
  <1>3. QED
    BY <1>1, <1>2

\* No car carries more than its seats, no request outlives its ride, and a seat that
\* was given is lost only by withdrawal, the ride's end or the driver's decision: for
\* any passengers, seats and concurrent calls (routes/event-rides.ts).
THEOREM RidesAreSound == RidesSpec => RidesPromise
  <1>1. RidesInit => RidesInv
    BY RidesStarts
  <1>2. RidesInv /\ [RidesNext]_rideVars => RidesInv'
    BY RidesStep
  <1>3. RidesInv /\ [RidesNext]_rideVars => [SeatsAreKept]_rideVars
    BY RidesStep
  <1>4. RidesInv => RidesTypeOK /\ CarIsNotOverfull /\ RequestsHaveARide
    BY DEF RidesInv
  <1>5. QED
    BY <1>1, <1>2, <1>3, <1>4, PTL DEF RidesSpec, RidesPromise

-----------------------------------------------------------------------------
(***************************************************************************)
(* The calendars.  Whoever holds the lock of the club has just checked that *)
(* the calendar is there and, when it is the default, that it stays so.  A  *)
(* department that goes takes its calendars around the lock, but the calls  *)
(* for them end with it, so the check still holds when a request writes.    *)
(***************************************************************************)
CalendarAsked ==
  [op: {"create"}, at: {"asked", "locked"}, id: {"none"}, default: {"yes", "no"}, section: Anywhere, was: BOOLEAN]
CalendarNamed ==
  [op: {"change", "delete"}, at: {"asked", "locked"}, id: CalendarIds, default: {"yes", "no", "keep"},
   section: Anywhere \cup {"keep"}, was: BOOLEAN]
CalendarRecord == CalendarAsked \cup CalendarNamed \cup {NoCalendarCall}

OneCalendarLock ==
  \A c, d \in CalendarCalls : calendarCalls[c].at = "locked" /\ calendarCalls[d].at = "locked" => c = d

CheckedStays ==
  \A c \in CalendarCalls :
    calendarCalls[c].at = "locked" /\ calendarCalls[c].op # "create" => StaysDefault(calendarCalls[c])

OneDefault == \A k, l \in Defaults : k = l

CalendarsInv ==
  /\ CalendarsTypeOK /\ calendarCalls \in [CalendarCalls -> CalendarRecord]
  /\ OneCalendarLock /\ CheckedStays /\ OneDefault

CalendarSteps == DefaultGoesWithItsSection /\ DefaultIsNotMoved

LEMMA CalendarTypes ==
  ASSUME CalendarsInv
  PROVE  /\ shelf \in [CalendarIds -> Calendar] /\ grants \in [CalendarIds -> SUBSET Grantees]
         /\ sections \subseteq Sections /\ calendarEdits \in 0..MaxCalendarEdits /\ MaxCalendarEdits \in Nat
         /\ calendarCalls \in [CalendarCalls -> CalendarRecord]
         /\ \A k \in CalendarIds : shelf[k].default \in BOOLEAN /\ shelf[k].section \in Anywhere \cup {"none"}
  BY CalendarsAssumption DEF CalendarsInv, CalendarsTypeOK, Calendar

\* A calendar that is the default is one.
LEMMA DefaultsAre ==
  ASSUME shelf \in [CalendarIds -> Calendar]
  PROVE  Defaults = {k \in CalendarIds : shelf[k].default}
  BY DEF Defaults, Calendars, Missing, Calendar

LEMMA CalendarCallFields ==
  ASSUME NEW call \in CalendarRecord
  PROVE  /\ call.op \in {"none", "create", "change", "delete"} /\ call.at \in {"none", "asked", "locked"}
         /\ call.op = "create" => call \in CalendarAsked
         /\ call.op \in {"change", "delete"} => call \in CalendarNamed
         /\ call.at # "none" => call.op # "none"
  BY DEF CalendarRecord, CalendarAsked, CalendarNamed, NoCalendarCall

LEMMA CalendarCallSet ==
  ASSUME calendarCalls \in [CalendarCalls -> CalendarRecord], NEW c \in CalendarCalls, NEW call \in CalendarRecord,
         CalendarCall(c, call)
  PROVE  /\ calendarCalls' \in [CalendarCalls -> CalendarRecord] /\ calendarCalls'[c] = call
         /\ \A d \in CalendarCalls : d # c => calendarCalls'[d] = calendarCalls[d]
         /\ \A d \in CalendarCalls : calendarCalls'[d].op \in {"none", "create", "change", "delete"}
  BY CalendarCallFields DEF CalendarCall

LEMMA NoCallIsCall == NoCalendarCall \in CalendarRecord /\ NoCalendarCall.at = "none"
  BY DEF CalendarRecord, NoCalendarCall

LEMMA EditCounts ==
  ASSUME CalendarsInv, OneEdit
  PROVE  calendarEdits' \in 0..MaxCalendarEdits
  BY CalendarTypes DEF OneEdit

LEMMA ShelfRests ==
  ASSUME CalendarsInv, UNCHANGED <<shelf, sections>>
  PROVE  OneDefault' /\ CalendarSteps
  BY DEF CalendarsInv, OneDefault, Defaults, Calendars, CalendarSteps, DefaultGoesWithItsSection, DefaultIsNotMoved

LEMMA AsksCalendarKeeps ==
  ASSUME CalendarsInv, NEW c \in CalendarCalls, NEW op, NEW k, NEW default, NEW section,
         AsksCalendar(c, op, k, default, section),
         \/ op = "create" /\ k = "none" /\ default \in {"yes", "no"} /\ section \in Anywhere
         \/ op \in {"change", "delete"} /\ k \in CalendarIds /\ default \in {"yes", "no", "keep"}
              /\ section \in Anywhere \cup {"keep"}
  PROVE  CalendarsInv' /\ CalendarSteps
  <1>1. PICK b \in BOOLEAN : b = (k \in Defaults)
    <2>1. (k \in Defaults) \in BOOLEAN
      OBVIOUS
    <2>2. QED
      BY <2>1
  <1>2. PICK call : call = [op |-> op, at |-> "asked", id |-> k, default |-> default, section |-> section, was |-> b]
    OBVIOUS
  <1>3. call \in CalendarRecord /\ call.at = "asked"
    BY <1>2 DEF CalendarRecord, CalendarAsked, CalendarNamed
  <1>4. CalendarCall(c, call) /\ UNCHANGED <<shelf, grants, sections>> /\ OneEdit
    BY <1>1, <1>2 DEF AsksCalendar
  <1>5. /\ calendarCalls' \in [CalendarCalls -> CalendarRecord] /\ calendarCalls'[c] = call
        /\ \A d \in CalendarCalls : d # c => calendarCalls'[d] = calendarCalls[d]
        /\ \A d \in CalendarCalls : calendarCalls'[d].op \in {"none", "create", "change", "delete"}
    BY <1>3, <1>4, CalendarTypes, CalendarCallSet
  <1>6. CalendarsTypeOK'
    BY <1>4, <1>5, EditCounts DEF CalendarsInv, CalendarsTypeOK
  <1>7. OneCalendarLock'
    BY <1>3, <1>5 DEF CalendarsInv, OneCalendarLock
  <1>8. CheckedStays'
    BY <1>3, <1>4, <1>5 DEF CalendarsInv, CheckedStays, StaysDefault
  <1>9. QED
    BY <1>4, <1>5, <1>6, <1>7, <1>8, ShelfRests DEF CalendarsInv

LEMMA LocksCalendarsKeeps ==
  ASSUME CalendarsInv, NEW c \in CalendarCalls, LocksCalendars(c)
  PROVE  CalendarsInv' /\ CalendarSteps
  <1>1. PICK call : call = calendarCalls[c]
    OBVIOUS
  <1>2. PICK locked : locked = [call EXCEPT !.at = "locked"]
    OBVIOUS
  <1>3. call \in CalendarRecord /\ call.op # "none"
    BY <1>1, CalendarTypes, CalendarCallFields DEF LocksCalendars
  <1>4. locked \in CalendarRecord /\ locked.op = call.op /\ (locked.op # "create" => StaysDefault(locked) = StaysDefault(call))
    <2>1. CASE call.op = "create"
      <3>1. call \in CalendarAsked
        BY <1>3, <2>1, CalendarCallFields
      <3>2. locked \in CalendarAsked /\ locked.op = call.op
        BY <1>2, <3>1 DEF CalendarAsked
      <3>3. QED
        BY <2>1, <3>2 DEF CalendarRecord
    <2>2. CASE call.op # "create"
      <3>1. call \in CalendarNamed
        BY <1>3, <2>2, CalendarCallFields
      <3>2. /\ locked \in CalendarNamed /\ locked.op = call.op /\ locked.id = call.id
            /\ locked.default = call.default /\ locked.section = call.section
        BY <1>2, <3>1 DEF CalendarNamed
      <3>3. QED
        BY <3>2 DEF CalendarRecord, StaysDefault
    <2>3. QED
      BY <2>1, <2>2
  <1>5. UNCHANGED <<shelf, grants, sections, calendarEdits>> /\ LockFree
    BY DEF LocksCalendars
  <1>6. PICK new \in CalendarRecord :
          CalendarCall(c, new) /\ (new.at = "locked" /\ new.op # "create" => StaysDefault(new))
    <2>1. CASE call.op = "create" \/ (call.id \in Calendars /\ StaysDefault(call))
      <3>1. CalendarCall(c, locked)
        BY <1>1, <1>2, <2>1 DEF LocksCalendars
      <3>2. QED
        BY <1>4, <2>1, <3>1
    <2>2. CASE ~(call.op = "create" \/ (call.id \in Calendars /\ StaysDefault(call)))
      <3>1. CalendarCall(c, NoCalendarCall)
        BY <1>1, <2>2 DEF LocksCalendars
      <3>2. QED
        BY <3>1, NoCallIsCall
    <2>3. QED
      BY <2>1, <2>2
  <1>7. /\ calendarCalls' \in [CalendarCalls -> CalendarRecord] /\ calendarCalls'[c] = new
        /\ \A d \in CalendarCalls : d # c => calendarCalls'[d] = calendarCalls[d]
        /\ \A d \in CalendarCalls : calendarCalls'[d].op \in {"none", "create", "change", "delete"}
    BY <1>6, CalendarTypes, CalendarCallSet
  <1>8. CalendarsTypeOK'
    BY <1>5, <1>7 DEF CalendarsInv, CalendarsTypeOK
  <1>9. OneCalendarLock'
    BY <1>5, <1>7 DEF OneCalendarLock, LockFree
  <1>10. CheckedStays'
    BY <1>5, <1>6, <1>7 DEF CalendarsInv, CheckedStays, StaysDefault
  <1>11. QED
    BY <1>5, <1>7, <1>8, <1>9, <1>10, ShelfRests DEF CalendarsInv

\* Whoever holds the lock of the club leaves it: nobody else holds it.
LEMMA ClubLockIsLeft ==
  ASSUME CalendarsInv, NEW c \in CalendarCalls, calendarCalls[c].at = "locked", CalendarCall(c, NoCalendarCall)
  PROVE  /\ calendarCalls' \in [CalendarCalls -> CalendarRecord] /\ OneCalendarLock' /\ CheckedStays'
         /\ \A d \in CalendarCalls : calendarCalls'[d].op \in {"none", "create", "change", "delete"}
  <1>1. /\ calendarCalls' \in [CalendarCalls -> CalendarRecord] /\ calendarCalls'[c] = NoCalendarCall
        /\ \A d \in CalendarCalls : d # c => calendarCalls'[d] = calendarCalls[d]
        /\ \A d \in CalendarCalls : calendarCalls'[d].op \in {"none", "create", "change", "delete"}
    BY NoCallIsCall, CalendarTypes, CalendarCallSet
  <1>2. \A d \in CalendarCalls : calendarCalls'[d].at # "locked"
    BY <1>1, NoCallIsCall DEF CalendarsInv, OneCalendarLock
  <1>3. QED
    BY <1>1, <1>2 DEF OneCalendarLock, CheckedStays

\* A calendar is written and the others keep their place: the new default, when it
\* is set, is the only one, and the old one is left alone otherwise.
LEMMA CalendarIsWritten ==
  ASSUME CalendarsInv, NEW k \in CalendarIds, NEW before \in [CalendarIds -> Calendar], NEW sets \in BOOLEAN,
         NEW new \in Calendar, before[k].default => new.default, sets => new.default,
         ~sets /\ new.default => before[k].default, before[k].default => new.section \in {before[k].section, ClubWide},
         \A l, m \in CalendarIds : before[l].default /\ before[m].default => l = m,
         \A l \in CalendarIds : shelf[l].default => before[l] = shelf[l],
         shelf' = [(IF sets THEN Unset(before) ELSE before) EXCEPT ![k] = new], UNCHANGED sections
  PROVE  shelf' \in [CalendarIds -> Calendar] /\ OneDefault' /\ CalendarSteps
  <1>1. ASSUME NEW l \in CalendarIds
        PROVE  /\ Unset(before)[l] \in Calendar /\ ~Unset(before)[l].default
               /\ Unset(before)[l].section = before[l].section
    <2>1. Unset(before)[l] = [before[l] EXCEPT !.default = FALSE] /\ before[l] \in Calendar
      BY DEF Unset
    <2>2. QED
      BY <2>1 DEF Calendar
  <1>2. Unset(before) \in [CalendarIds -> Calendar]
    BY <1>1 DEF Unset
  <1>3. shelf' \in [CalendarIds -> Calendar] /\ shelf'[k] = new
    BY <1>2
  <1>4. \A l \in CalendarIds \ {k} : shelf'[l] = IF sets THEN Unset(before)[l] ELSE before[l]
    BY <1>2
  <1>5. Defaults = {l \in CalendarIds : shelf[l].default} /\ Defaults' = {l \in CalendarIds : shelf'[l].default}
    <2>1. shelf \in [CalendarIds -> Calendar]
      BY CalendarTypes
    <2>2. Defaults = {l \in CalendarIds : shelf[l].default}
      BY <2>1, DefaultsAre
    <2>3. Defaults' = {l \in CalendarIds : shelf'[l].default}
      BY <1>3 DEF Defaults, Calendars, Missing, Calendar
    <2>4. QED
      BY <2>2, <2>3
  <1>6. new.default \in BOOLEAN /\ \A l \in CalendarIds : before[l].default \in BOOLEAN
    BY DEF Calendar
  <1>7. OneDefault'
    BY <1>1, <1>3, <1>4, <1>5, <1>6 DEF OneDefault
  <1>8. DefaultGoesWithItsSection
    BY <1>3, <1>4, <1>5, <1>6 DEF DefaultGoesWithItsSection
  <1>9. DefaultIsNotMoved
    BY <1>1, <1>3, <1>4, <1>5, <1>6 DEF DefaultIsNotMoved
  <1>10. QED
    BY <1>3, <1>7, <1>8, <1>9 DEF CalendarSteps

LEMMA CreatesCalendarKeeps ==
  ASSUME CalendarsInv, NEW c \in CalendarCalls, NEW first \in CalendarIds, NEW k \in CalendarIds,
         CreatesCalendar(c, first, k)
  PROVE  CalendarsInv' /\ CalendarSteps
  <1>1. PICK call : call = calendarCalls[c]
    OBVIOUS
  <1>2. call \in CalendarAsked
    BY <1>1, CalendarTypes, CalendarCallFields DEF CreatesCalendar
  <1>3. /\ calendarCalls' \in [CalendarCalls -> CalendarRecord] /\ OneCalendarLock' /\ CheckedStays'
        /\ \A d \in CalendarCalls : calendarCalls'[d].op \in {"none", "create", "change", "delete"}
    BY ClubLockIsLeft DEF CreatesCalendar
  <1>4. PICK before : before = IF Calendars = {} THEN [shelf EXCEPT ![first] = Standard] ELSE shelf
    OBVIOUS
  <1>5. PICK sets \in BOOLEAN : sets = (call.default = "yes")
    <2>1. (call.default = "yes") \in BOOLEAN
      OBVIOUS
    <2>2. QED
      BY <2>1
  <1>6. PICK new : new = [default |-> sets, section |-> call.section]
    OBVIOUS
  <1>7. new \in Calendar /\ new.default = sets
    BY <1>2, <1>6 DEF CalendarAsked, Calendar
  <1>8. Standard \in Calendar /\ Missing.default = FALSE
    BY DEF Standard, Calendar, Anywhere, Missing
  <1>9. Defaults = {l \in CalendarIds : shelf[l].default}
    BY CalendarTypes, DefaultsAre
  <1>10. /\ before \in [CalendarIds -> Calendar] /\ before[k].default = FALSE
         /\ \A l, m \in CalendarIds : before[l].default /\ before[m].default => l = m
         /\ \A l \in CalendarIds : shelf[l].default => before[l] = shelf[l]
    <2>1. CASE Calendars = {}
      <3>1. before = [shelf EXCEPT ![first] = Standard] /\ first # k
        BY <1>4, <2>1 DEF CreatesCalendar
      <3>2. \A l \in CalendarIds : shelf[l] = Missing
        BY <2>1 DEF Calendars
      <3>3. QED
        BY <1>8, <3>1, <3>2, CalendarTypes
    <2>2. CASE Calendars # {}
      <3>1. before = shelf /\ k \notin Calendars
        BY <1>4, <2>2 DEF CreatesCalendar
      <3>2. shelf[k] = Missing
        BY <3>1 DEF Calendars
      <3>3. QED
        BY <1>8, <1>9, <3>1, <3>2, CalendarTypes DEF CalendarsInv, OneDefault
    <2>3. QED
      BY <2>1, <2>2
  <1>11. grants' \in [CalendarIds -> SUBSET Grantees] /\ UNCHANGED <<sections, calendarEdits>>
    BY CalendarTypes DEF CreatesCalendar, Grantees
  <1>12. shelf' \in [CalendarIds -> Calendar] /\ OneDefault' /\ CalendarSteps
    <2>1. CASE call.section \in Sections \ sections
      <3>1. shelf' = shelf
        BY <1>1, <2>1 DEF CreatesCalendar
      <3>2. QED
        BY <1>11, <3>1, CalendarTypes, ShelfRests
    <2>2. CASE call.section \notin Sections \ sections
      <3>1. shelf' = [(IF sets THEN Unset(before) ELSE before) EXCEPT ![k] = new]
        BY <1>1, <1>4, <1>5, <1>6, <2>2 DEF CreatesCalendar
      <3>2. QED
        BY <1>7, <1>10, <1>11, <3>1, CalendarIsWritten
    <2>3. QED
      BY <2>1, <2>2
  <1>13. CalendarsTypeOK'
    BY <1>3, <1>11, <1>12 DEF CalendarsInv, CalendarsTypeOK
  <1>14. QED
    BY <1>3, <1>12, <1>13 DEF CalendarsInv

LEMMA ChangesCalendarKeeps ==
  ASSUME CalendarsInv, NEW c \in CalendarCalls, ChangesCalendar(c)
  PROVE  CalendarsInv' /\ CalendarSteps
  <1>1. PICK call : call = calendarCalls[c]
    OBVIOUS
  <1>2. call \in CalendarNamed /\ call.op = "change" /\ StaysDefault(call)
    BY <1>1, CalendarTypes, CalendarCallFields DEF ChangesCalendar, CalendarsInv, CheckedStays
  <1>3. /\ calendarCalls' \in [CalendarCalls -> CalendarRecord] /\ OneCalendarLock' /\ CheckedStays'
        /\ \A d \in CalendarCalls : calendarCalls'[d].op \in {"none", "create", "change", "delete"}
    BY ClubLockIsLeft DEF ChangesCalendar
  <1>4. PICK k \in CalendarIds : k = call.id
    BY <1>2 DEF CalendarNamed
  <1>5. PICK old \in Calendar : old = shelf[k]
    BY CalendarTypes
  <1>6. PICK sets \in BOOLEAN : sets = (call.default = "yes")
    <2>1. (call.default = "yes") \in BOOLEAN
      OBVIOUS
    <2>2. QED
      BY <2>1
  <1>7. PICK s : s = IF call.section = "keep" THEN old.section ELSE call.section
    OBVIOUS
  <1>8. PICK d : d = IF call.default = "keep" THEN old.default ELSE sets
    OBVIOUS
  <1>9. PICK new : new = [default |-> d, section |-> s]
    OBVIOUS
  <1>10. s \in Anywhere \cup {"none"} /\ d \in BOOLEAN
    BY <1>2, <1>5, <1>7, <1>8 DEF CalendarNamed, Calendar
  <1>11. new \in Calendar /\ new.default = d /\ new.section = s
    BY <1>9, <1>10 DEF Calendar
  <1>12. call.default \in {"yes", "no", "keep"} /\ call.section \in Anywhere \cup {"keep"} /\ old.default \in BOOLEAN
    BY <1>2, <1>5 DEF CalendarNamed, Calendar
  <1>13. old.default => call.default # "no" /\ call.section \notin Sections
    BY <1>2, <1>4, <1>5 DEF StaysDefault
  <1>14. /\ old.default => new.default
         /\ sets => new.default
         /\ ~sets /\ new.default => old.default
         /\ old.default => new.section \in {old.section, ClubWide}
    BY <1>6, <1>7, <1>8, <1>11, <1>12, <1>13 DEF Anywhere
  <1>15. grants' = grants /\ UNCHANGED <<sections, calendarEdits>>
    BY DEF ChangesCalendar
  <1>16. shelf' \in [CalendarIds -> Calendar] /\ OneDefault' /\ CalendarSteps
    <2>1. CASE call.id \notin Calendars \/ call.section \in Sections \ sections
      <3>1. shelf' = shelf
        BY <1>1, <2>1 DEF ChangesCalendar
      <3>2. QED
        BY <1>15, <3>1, CalendarTypes, ShelfRests
    <2>2. CASE ~(call.id \notin Calendars \/ call.section \in Sections \ sections)
      <3>1. new = [default |-> IF call.default = "keep" THEN shelf[call.id].default ELSE call.default = "yes",
                   section |-> IF call.section = "keep" THEN shelf[call.id].section ELSE call.section]
        BY <1>4, <1>5, <1>6, <1>7, <1>8, <1>9
      <3>2. shelf' = [(IF sets THEN Unset(shelf) ELSE shelf) EXCEPT ![k] = new]
        BY <1>1, <1>4, <1>6, <2>2, <3>1 DEF ChangesCalendar
      <3>3. \A l, m \in CalendarIds : shelf[l].default /\ shelf[m].default => l = m
        BY CalendarTypes, DefaultsAre DEF CalendarsInv, OneDefault
      <3>4. shelf \in [CalendarIds -> Calendar] /\ UNCHANGED sections
        BY <1>15, CalendarTypes
      <3>5. QED
        BY <1>5, <1>11, <1>14, <3>2, <3>3, <3>4, CalendarIsWritten
    <2>3. QED
      BY <2>1, <2>2
  <1>17. CalendarsTypeOK'
    BY <1>3, <1>15, <1>16, CalendarTypes DEF CalendarsInv, CalendarsTypeOK
  <1>18. QED
    BY <1>3, <1>16, <1>17 DEF CalendarsInv

\* Calendars that go take the calls for them along.
LEMMA CalendarsGoKeeps ==
  ASSUME CalendarsInv, NEW gone, CalendarsGo(gone), sections' \subseteq sections,
         grants' \in [CalendarIds -> SUBSET Grantees], calendarEdits' \in 0..MaxCalendarEdits,
         \A k \in Defaults : k \in gone => shelf[k].section \notin sections'
  PROVE  CalendarsInv' /\ CalendarSteps
  <1>1. Missing \in Calendar /\ Missing.default = FALSE
    BY DEF Missing, Calendar
  <1>2. /\ shelf' \in [CalendarIds -> Calendar]
        /\ \A k \in CalendarIds : shelf'[k] = IF k \in gone THEN Missing ELSE shelf[k]
    BY <1>1, CalendarTypes DEF CalendarsGo
  <1>3. Defaults' = Defaults \ gone
    BY <1>1, <1>2 DEF Defaults, Calendars
  <1>4. /\ calendarCalls' \in [CalendarCalls -> CalendarRecord]
        /\ \A c \in CalendarCalls : calendarCalls'[c] = IF calendarCalls[c].id \in gone THEN NoCalendarCall ELSE calendarCalls[c]
    BY NoCallIsCall, CalendarTypes DEF CalendarsGo
  <1>5. \A c \in CalendarCalls :
          calendarCalls'[c].at = "locked" => calendarCalls'[c] = calendarCalls[c] /\ calendarCalls[c].id \notin gone
    BY <1>4, NoCallIsCall
  <1>6. CalendarsTypeOK'
    <2>1. \A c \in CalendarCalls : calendarCalls'[c].op \in {"none", "create", "change", "delete"}
      BY <1>4, CalendarCallFields
    <2>2. QED
      BY <1>2, <2>1, CalendarTypes DEF CalendarsInv, CalendarsTypeOK
  <1>7. OneCalendarLock'
    BY <1>5 DEF CalendarsInv, OneCalendarLock
  <1>8. CheckedStays'
    <2>1. ASSUME NEW c \in CalendarCalls, calendarCalls'[c].at = "locked", calendarCalls'[c].op # "create"
          PROVE  /\ calendarCalls'[c] = calendarCalls[c] /\ shelf'[calendarCalls[c].id] = shelf[calendarCalls[c].id]
                 /\ calendarCalls[c].op # "create" /\ StaysDefault(calendarCalls[c])
      <3>1. PICK call : call = calendarCalls[c]
        OBVIOUS
      <3>2. calendarCalls'[c] = call /\ call.id \notin gone /\ call.at = "locked" /\ call.op # "create"
        BY <1>5, <2>1, <3>1
      <3>3. call \in CalendarNamed /\ StaysDefault(call)
        BY <3>1, <3>2, CalendarTypes, CalendarCallFields DEF CalendarsInv, CheckedStays, CalendarRecord, NoCalendarCall
      <3>4. shelf'[call.id] = shelf[call.id]
        BY <1>2, <3>2, <3>3 DEF CalendarNamed
      <3>5. QED
        BY <3>1, <3>2, <3>3, <3>4
    <2>2. QED
      BY <2>1 DEF CheckedStays, StaysDefault
  <1>9. OneDefault'
    BY <1>3 DEF CalendarsInv, OneDefault
  <1>10. DefaultGoesWithItsSection
    BY <1>3 DEF DefaultGoesWithItsSection
  <1>11. DefaultIsNotMoved
    BY <1>2, <1>3 DEF DefaultIsNotMoved, Defaults, Calendars
  <1>12. QED
    BY <1>4, <1>6, <1>7, <1>8, <1>9, <1>10, <1>11 DEF CalendarsInv, CalendarSteps

LEMMA DeletesCalendarKeeps ==
  ASSUME CalendarsInv, NEW c \in CalendarCalls, DeletesCalendar(c)
  PROVE  CalendarsInv' /\ CalendarSteps
  <1>1. PICK k : k = calendarCalls[c].id
    OBVIOUS
  <1>2. CalendarsGo({k}) /\ UNCHANGED <<sections, calendarEdits>>
    BY <1>1 DEF DeletesCalendar
  <1>3. ~shelf[k].default
    BY <1>1 DEF DeletesCalendar, CalendarsInv, CheckedStays, StaysDefault
  <1>4. grants' \in [CalendarIds -> SUBSET Grantees]
    BY CalendarTypes DEF DeletesCalendar
  <1>5. \A l \in Defaults : l \notin {k}
    BY <1>3 DEF Defaults
  <1>6. QED
    BY <1>2, <1>4, <1>5, CalendarTypes, CalendarsGoKeeps

LEMMA DeletesSectionKeeps ==
  ASSUME CalendarsInv, NEW s \in Sections, DeletesSection(s)
  PROVE  CalendarsInv' /\ CalendarSteps
  <1>1. PICK gone : gone = {k \in Calendars : shelf[k].section = s}
    OBVIOUS
  <1>2. /\ CalendarsGo(gone) /\ sections' = sections \ {s} /\ OneEdit
        /\ grants' = [k \in CalendarIds |-> IF k \in gone THEN {} ELSE grants[k] \ {s}]
    BY <1>1 DEF DeletesSection
  <1>3. grants' \in [CalendarIds -> SUBSET Grantees]
    BY <1>2, CalendarTypes
  <1>4. \A k \in Defaults : k \in gone => shelf[k].section \notin sections'
    BY <1>1, <1>2
  <1>5. sections' \subseteq sections /\ calendarEdits' \in 0..MaxCalendarEdits
    BY <1>2, EditCounts
  <1>6. QED
    BY <1>2, <1>3, <1>4, <1>5, CalendarsGoKeeps

LEMMA EnsuresCalendarKeeps ==
  ASSUME CalendarsInv, NEW k \in CalendarIds, EnsuresCalendar(k)
  PROVE  CalendarsInv' /\ CalendarSteps
  <1>1. Standard \in Calendar /\ Missing.default = FALSE
    BY DEF Standard, Calendar, Anywhere, Missing
  <1>2. \A l \in CalendarIds : shelf[l] = Missing
    BY DEF EnsuresCalendar, Calendars
  <1>3. shelf' = [shelf EXCEPT ![k] = Standard] /\ shelf' \in [CalendarIds -> Calendar]
    BY <1>1, CalendarTypes DEF EnsuresCalendar
  <1>4. grants' \in [CalendarIds -> SUBSET Grantees] /\ UNCHANGED <<sections, calendarCalls, calendarEdits>>
    BY CalendarTypes DEF EnsuresCalendar, Grantees
  <1>5. Defaults = {}
    BY <1>1, <1>2 DEF Defaults, Calendars
  <1>6. Defaults' \subseteq {k}
    <2>1. \A l \in CalendarIds : l # k => shelf'[l] = Missing
      BY <1>2, <1>3, CalendarTypes
    <2>2. QED
      BY <1>1, <2>1 DEF Defaults, Calendars
  <1>7. OneDefault' /\ CalendarSteps
    BY <1>5, <1>6 DEF OneDefault, CalendarSteps, DefaultGoesWithItsSection, DefaultIsNotMoved
  <1>8. OneCalendarLock' /\ CheckedStays'
    BY <1>4 DEF EnsuresCalendar, LockFree, OneCalendarLock, CheckedStays
  <1>9. CalendarsTypeOK'
    BY <1>3, <1>4 DEF CalendarsInv, CalendarsTypeOK
  <1>10. QED
    BY <1>4, <1>7, <1>8, <1>9 DEF CalendarsInv

\* Steps of the grants alone.
LEMMA GrantsKeep ==
  ASSUME CalendarsInv, UNCHANGED <<shelf, sections, calendarCalls>>,
         grants' \in [CalendarIds -> SUBSET Grantees], calendarEdits' \in 0..MaxCalendarEdits
  PROVE  CalendarsInv' /\ CalendarSteps
  <1>1. CalendarsTypeOK'
    BY DEF CalendarsInv, CalendarsTypeOK
  <1>2. OneCalendarLock' /\ CheckedStays'
    BY DEF CalendarsInv, OneCalendarLock, CheckedStays, StaysDefault
  <1>3. QED
    BY <1>1, <1>2, ShelfRests DEF CalendarsInv

LEMMA GrantStepsKeep ==
  ASSUME CalendarsInv,
         \/ \E k \in CalendarIds, g \in Grantees : AddsGrant(k, g) \/ RemovesGrant(k, g)
         \/ GuestLeaves
  PROVE  CalendarsInv' /\ CalendarSteps
  <1>1. UNCHANGED <<shelf, sections, calendarCalls>> /\ OneEdit
    BY DEF AddsGrant, RemovesGrant, GuestLeaves
  <1>2. grants' \in [CalendarIds -> SUBSET Grantees]
    <2>1. CASE \E k \in CalendarIds, g \in Grantees : AddsGrant(k, g)
      BY <2>1, CalendarTypes DEF AddsGrant
    <2>2. CASE \E k \in CalendarIds, g \in Grantees : RemovesGrant(k, g)
      BY <2>2, CalendarTypes DEF RemovesGrant
    <2>3. CASE GuestLeaves
      BY <2>3, CalendarTypes DEF GuestLeaves
    <2>4. QED
      BY <2>1, <2>2, <2>3
  <1>3. QED
    BY <1>1, <1>2, EditCounts, GrantsKeep

LEMMA CalendarsStart ==
  ASSUME CalendarsInit
  PROVE  CalendarsInv
  <1>1. PICK first \in SUBSET CalendarIds :
          /\ Cardinality(first) <= 1
          /\ shelf = [k \in CalendarIds |-> IF k \in first THEN Standard ELSE Missing]
          /\ grants = [k \in CalendarIds |-> IF k \in first THEN {"mitglied"} ELSE {}]
    BY DEF CalendarsInit
  <1>2. Standard \in Calendar /\ Missing \in Calendar /\ Missing.default = FALSE
    BY DEF Standard, Calendar, Anywhere, Missing
  <1>3. shelf \in [CalendarIds -> Calendar] /\ grants \in [CalendarIds -> SUBSET Grantees]
    BY <1>1, <1>2 DEF Grantees
  <1>4. Defaults \subseteq first
    BY <1>1, <1>2 DEF Defaults, Calendars
  <1>5. \A k, l \in first : k = l
    <2>1. SUFFICES ASSUME NEW k \in first, NEW l \in first, k # l PROVE FALSE
      OBVIOUS
    <2>2. IsFiniteSet(first)
      BY FS_Subset, CalendarsAssumption
    <2>3. Cardinality(first \ {k}) = Cardinality(first) - 1 /\ IsFiniteSet(first \ {k})
      BY <2>2, FS_RemoveElement
    <2>4. Cardinality(first) \in Nat /\ Cardinality(first \ {k}) \in Nat
      BY <2>2, <2>3, FS_CardinalityType
    <2>5. Cardinality(first \ {k}) = 0
      BY <1>1, <2>3, <2>4
    <2>6. first \ {k} = {}
      BY <2>3, <2>5, FS_EmptySet
    <2>7. QED
      BY <2>1, <2>6
  <1>6. calendarCalls \in [CalendarCalls -> CalendarRecord] /\ \A c \in CalendarCalls : calendarCalls[c] = NoCalendarCall
    BY NoCallIsCall DEF CalendarsInit
  <1>7. \A c \in CalendarCalls : calendarCalls[c].op \in {"none", "create", "change", "delete"}
    BY <1>6, CalendarCallFields
  <1>8. CalendarsTypeOK
    BY <1>3, <1>7, CalendarsAssumption DEF CalendarsInit, CalendarsTypeOK
  <1>9. OneCalendarLock /\ CheckedStays
    BY <1>6, NoCallIsCall DEF OneCalendarLock, CheckedStays
  <1>10. QED
    BY <1>4, <1>5, <1>6, <1>8, <1>9 DEF CalendarsInv, OneDefault

LEMMA CalendarsStep ==
  ASSUME CalendarsInv, [CalendarsNext]_calendarVars
  PROVE  CalendarsInv' /\ CalendarSteps
  <1>1. CASE CalendarsNext
    BY <1>1, AsksCalendarKeeps, LocksCalendarsKeeps, ChangesCalendarKeeps, DeletesCalendarKeeps, CreatesCalendarKeeps,
       EnsuresCalendarKeeps, GrantStepsKeep, DeletesSectionKeeps DEF CalendarsNext
  <1>2. CASE UNCHANGED calendarVars
    BY <1>2, GrantsKeep, CalendarTypes DEF calendarVars
  <1>3. QED
    BY <1>1, <1>2

\* Two different calendars would be two elements.
LEMMA OneDefaultIsCounted ==
  ASSUME OneDefault
  PROVE  AtMostOneDefault
  <1>1. CASE Defaults = {}
    BY <1>1, FS_EmptySet DEF AtMostOneDefault
  <1>2. CASE Defaults # {}
    <2>1. PICK k \in Defaults : Defaults = {k}
      BY <1>2 DEF OneDefault
    <2>2. QED
      BY <2>1, FS_Singleton DEF AtMostOneDefault
  <1>3. QED
    BY <1>1, <1>2

\* A club never has two default calendars, loses the one it has only with the
\* department it was given to, and the one that stays is not moved into a department:
\* for any calendars, departments and concurrent calls (routes/calendars.ts,
\* routes/departments.ts).
THEOREM CalendarsAreSound == CalendarsSpec => CalendarsPromise
  <1>1. CalendarsInit => CalendarsInv
    BY CalendarsStart
  <1>2. CalendarsInv /\ [CalendarsNext]_calendarVars => CalendarsInv'
    BY CalendarsStep
  <1>3. CalendarsInv /\ [CalendarsNext]_calendarVars => [DefaultGoesWithItsSection /\ DefaultIsNotMoved]_calendarVars
    BY CalendarsStep DEF CalendarSteps
  <1>4. CalendarsInv => CalendarsTypeOK /\ AtMostOneDefault
    BY OneDefaultIsCounted DEF CalendarsInv
  <1>5. QED
    BY <1>1, <1>2, <1>3, <1>4, PTL DEF CalendarsSpec, CalendarsPromise

-----------------------------------------------------------------------------
(***************************************************************************)
(* The reminders.  A key of an overdue loan lies in the past, and a loan is *)
(* extended only to a day ahead: so the keys of the old date and those of   *)
(* the new one never meet.  That is what the guard of the extension is for. *)
(***************************************************************************)
ReminderJob == [key: Keys, people: SUBSET Persons, state: {"queued", "ran", "done"}, at: 0..LastRemindDay]
Meaning == [key: Keys, date: RemindDays, step: {0} \cup Steps]

\* What a key of the loan stands for: its date, or a step after it that has come.
MeansItsDate(k) ==
  \/ k.key.what = "due" /\ k.step = 0 /\ k.key.date = k.date
  \/ k.key.what = "overdue" /\ k.step \in Steps /\ k.key.date = k.date + k.step /\ k.key.date <= remindDay

KeysOfTheLoan ==
  \A k \in keysMeant :
    /\ matter.kind = "loan" /\ MeansItsDate(k) /\ k.date <= matter.date
    /\ k.key.what = "overdue" /\ k.date # matter.date => k.key.date < matter.date

RemindersInv ==
  /\ RemindersTypeOK /\ remindJobs \subseteq ReminderJob
  /\ RemindedOnce /\ OneMeaning /\ KeysOfTheLoan

LEMMA ReminderNumbers ==
  /\ LastRemindDay \in Nat \ {0} /\ MaxMatterMoves \in Nat /\ Lead \in Nat /\ NoticeWindow \in Nat /\ JobKeep \in Nat
  /\ LastStep \in Steps /\ \A t \in Steps : t \in Nat /\ t # 0 /\ t <= LastStep
  <1>1. \E s \in Steps : \A t \in Steps : t <= s
    BY RemindersAssumption
  <1>2. LastStep \in Steps /\ \A t \in Steps : t <= LastStep
    BY <1>1 DEF LastStep
  <1>3. QED
    BY <1>2, RemindersAssumption

LEMMA ReminderTypes ==
  ASSUME RemindersInv
  PROVE  /\ matter \in Matter /\ matter.kind \in MatterKinds /\ matter.date \in 1..LastRemindDay /\ matter.open \in BOOLEAN
         /\ remindDay \in 1..LastRemindDay /\ concerned \subseteq Persons /\ matterMoves \in 0..MaxMatterMoves
         /\ remindJobs \subseteq ReminderJob /\ \A j, k \in remindJobs : j.key = k.key => j = k
         /\ reminded \subseteq [person: Persons, key: Keys, copy: 1..2] /\ keysMeant \subseteq Meaning
  BY DEF RemindersInv, RemindersTypeOK, Matter, Meaning, RemindDays

\* What the collectors find: its key is one of the keys, and a loan is due on its
\* date or on the latest step that has passed.
LEMMA DueMeans ==
  ASSUME RemindersInv, NEW due \in DueReminders
  PROVE  /\ [what |-> due.what, date |-> due.date] \in Keys
         /\ matter.kind = "loan" =>
              \/ due.what = "due" /\ due.step = 0 /\ due.date = matter.date
              \/ /\ due.what = "overdue" /\ due.step \in Steps /\ due.date = matter.date + due.step
                 /\ due.date <= remindDay
                 /\ \A t \in Steps : matter.date + t <= remindDay => t <= due.step
  <1>1. CASE matter.kind = "loan"
    <2>1. due \in DueLoan
      BY <1>1 DEF DueReminders
    <2>2. CASE due = [what |-> "due", date |-> matter.date, step |-> 0]
      BY <2>2, ReminderTypes, ReminderNumbers DEF Keys, Whats
    <2>3. CASE due # [what |-> "due", date |-> matter.date, step |-> 0]
      <3>1. PICK s \in Steps : /\ s <= Passed /\ \A t \in {u \in Steps : u <= Passed} : t <= s
                               /\ due = [what |-> "overdue", date |-> matter.date + s, step |-> s]
        BY <2>1, <2>3 DEF DueLoan
      <3>2. due.what = "overdue" /\ due.step = s /\ due.date = matter.date + s
        BY <3>1
      <3>3. s \in Nat /\ s <= LastStep /\ LastStep \in Nat /\ s # 0
        BY ReminderNumbers
      <3>4. matter.date + s \in 1..LastRemindDay + LastStep /\ matter.date + s <= remindDay
        BY <3>1, <3>3, ReminderTypes, ReminderNumbers DEF Passed
      <3>5. \A t \in Steps : matter.date + t <= remindDay => t <= s
        BY <3>1, ReminderTypes, ReminderNumbers DEF Passed
      <3>6. QED
        BY <3>2, <3>4, <3>5 DEF Keys, Whats
    <2>4. QED
      BY <2>2, <2>3
  <1>2. CASE matter.kind # "loan"
    <2>1. due.what \in Whats /\ due.date \in {matter.date, remindDay}
      BY <1>2, ReminderTypes
      DEF DueReminders, MatterKinds, DueEvent, DueRsvp, DueAhead, DueInvite, DueCredential, DueExpiry, DueMaintenance, Whats
    <2>2. due.date \in 1..LastRemindDay + LastStep
      BY <2>1, ReminderTypes, ReminderNumbers
    <2>3. QED
      BY <1>2, <2>1, <2>2 DEF Keys
  <1>3. QED
    BY <1>1, <1>2

\* Replacing a job by one with its key keeps one job a key.
LEMMA JobMoves ==
  ASSUME RemindersInv, NEW j \in remindJobs, NEW new \in ReminderJob, new.key = j.key,
         remindJobs' = (remindJobs \ {j}) \cup {new}
  PROVE  remindJobs' \subseteq ReminderJob /\ \A k, l \in remindJobs' : k.key = l.key => k = l
  BY ReminderTypes

LEMMA JobFields ==
  ASSUME NEW jobs, jobs \subseteq ReminderJob
  PROVE  \A j \in jobs :
           j.key \in Keys /\ j.people \subseteq Persons /\ j.state \in {"queued", "ran", "done"} /\ j.at \in 0..LastRemindDay
  BY DEF ReminderJob

\* Steps of the jobs that leave the matter, the day and what was decided.
LEMMA JobsKeep ==
  ASSUME RemindersInv, UNCHANGED <<matter, concerned, remindDay, matterMoves, keysMeant>>,
         remindJobs' \subseteq ReminderJob, \A k, l \in remindJobs' : k.key = l.key => k = l,
         reminded' \subseteq [person: Persons, key: Keys, copy: 1..2], RemindedOnce'
  PROVE  RemindersInv' /\ StepsAhead
  <1>1. RemindersTypeOK'
    <2>1. \A j \in remindJobs' :
            j.key \in Keys /\ j.people \subseteq Persons /\ j.state \in {"queued", "ran", "done"} /\ j.at \in 0..LastRemindDay
      BY JobFields
    <2>2. QED
      BY <2>1 DEF RemindersInv, RemindersTypeOK
  <1>2. OneMeaning' /\ KeysOfTheLoan' /\ StepsAhead
    BY DEF RemindersInv, OneMeaning, KeysOfTheLoan, MeansItsDate, StepsAhead
  <1>3. QED
    BY <1>1, <1>2 DEF RemindersInv

LEMMA SweepRemindsKeeps ==
  ASSUME RemindersInv, SweepReminds
  PROVE  RemindersInv' /\ StepsAhead
  <1>1. PICK due \in DueReminders :
          LET key == [what |-> due.what, date |-> due.date]
              taken == \E j \in remindJobs : j.key = key
          IN /\ remindJobs' = IF taken THEN remindJobs
                              ELSE remindJobs \cup {[key |-> key, people |-> concerned, state |-> "queued", at |-> 0]}
             /\ keysMeant' = IF matter.kind # "loan" THEN keysMeant
                             ELSE keysMeant \cup {[key |-> key, date |-> matter.date, step |-> due.step]}
             /\ UNCHANGED <<matter, concerned, remindDay, reminded, matterMoves>>
    BY DEF SweepReminds
  <1>2. PICK key : key = [what |-> due.what, date |-> due.date]
    OBVIOUS
  <1>3. key \in Keys /\ key.what = due.what /\ key.date = due.date
    BY <1>2, DueMeans
  <1>4. remindJobs' \subseteq ReminderJob /\ \A k, l \in remindJobs' : k.key = l.key => k = l
    <2>1. PICK new : new = [key |-> key, people |-> concerned, state |-> "queued", at |-> 0]
      OBVIOUS
    <2>2. new \in ReminderJob /\ new.key = key
      BY <1>3, <2>1, ReminderTypes, ReminderNumbers DEF ReminderJob
    <2>3. CASE \E j \in remindJobs : j.key = key
      BY <1>1, <1>2, <2>3, ReminderTypes
    <2>4. CASE ~\E j \in remindJobs : j.key = key
      <3>1. remindJobs' = remindJobs \cup {new}
        BY <1>1, <1>2, <2>1, <2>4
      <3>2. QED
        BY <2>2, <2>4, <3>1, ReminderTypes
    <2>5. QED
      BY <2>3, <2>4
  <1>5. UNCHANGED <<matter, concerned, remindDay, reminded, matterMoves>> /\ RemindedOnce'
    BY <1>1 DEF RemindersInv, RemindedOnce
  <1>6. CASE matter.kind # "loan"
    BY <1>1, <1>4, <1>5, <1>6, JobsKeep, ReminderTypes
  <1>7. CASE matter.kind = "loan"
    <2>1. PICK new : new = [key |-> key, date |-> matter.date, step |-> due.step]
      OBVIOUS
    <2>2. new.key = key /\ new.date = matter.date /\ new.step = due.step
      BY <2>1
    <2>3. keysMeant' = keysMeant \cup {new}
      BY <1>1, <1>2, <1>7, <2>1
    <2>4. \/ new.key.what = "due" /\ new.step = 0 /\ new.key.date = new.date
          \/ /\ new.key.what = "overdue" /\ new.step \in Steps /\ new.key.date = new.date + new.step
             /\ new.key.date <= remindDay
             /\ \A t \in Steps : new.date + t <= remindDay => t <= new.step
      BY <1>3, <1>7, <2>2, DueMeans
    <2>5. new \in Meaning
      BY <1>3, <2>1, <2>2, <2>4, ReminderTypes DEF Meaning, RemindDays
    <2>6. RemindersTypeOK'
      <3>1. \A j \in remindJobs' :
              j.key \in Keys /\ j.people \subseteq Persons /\ j.state \in {"queued", "ran", "done"} /\ j.at \in 0..LastRemindDay
        BY <1>4, JobFields
      <3>2. keysMeant' \subseteq [key: Keys, date: RemindDays, step: {0} \cup Steps]
        BY <2>3, <2>5, ReminderTypes DEF Meaning
      <3>3. QED
        BY <1>4, <1>5, <3>1, <3>2 DEF RemindersInv, RemindersTypeOK
    <2>7. KeysOfTheLoan'
      <3>1. MeansItsDate(new)' /\ new.date <= matter.date
        BY <1>5, <2>2, <2>4, ReminderTypes DEF MeansItsDate
      <3>2. QED
        BY <1>5, <1>7, <2>2, <2>3, <3>1 DEF RemindersInv, KeysOfTheLoan, MeansItsDate
    <2>8. ASSUME NEW k \in keysMeant
          PROVE  /\ k.key = new.key => k = new
                 /\ k # new /\ k.key.what = "overdue" /\ new.key.what = "overdue" /\ k.date = new.date => new.step > k.step
      <3>1. k \in Meaning /\ MeansItsDate(k) /\ (k.key.what = "overdue" /\ k.date # matter.date => k.key.date < matter.date)
        BY ReminderTypes DEF RemindersInv, KeysOfTheLoan
      <3>2. k.date = new.date /\ k.step = new.step /\ k.key = new.key => k = new
        BY <2>5, <3>1 DEF Meaning
      <3>3. k.date \in Nat /\ k.step \in Nat /\ new.step \in Nat /\ new.date \in Nat /\ remindDay \in Nat
        BY <2>5, <3>1, ReminderNumbers, ReminderTypes DEF Meaning, RemindDays
      <3>4. ASSUME k.key = new.key
            PROVE  k = new
        <4>1. CASE k.key.what = "due"
          BY <2>4, <3>1, <3>2, <3>4, <4>1 DEF MeansItsDate
        <4>2. CASE k.key.what = "overdue"
          <5>1. k.key.date = k.date + k.step /\ k.key.date = new.date + new.step /\ new.step \in Steps /\ new.step # 0
            BY <2>4, <3>1, <3>4, <4>2, ReminderNumbers DEF MeansItsDate
          <5>2. k.date = matter.date
            BY <2>2, <3>1, <3>3, <4>2, <5>1
          <5>3. QED
            BY <2>2, <3>2, <3>3, <3>4, <5>1, <5>2
        <4>3. QED
          BY <3>1, <4>1, <4>2 DEF MeansItsDate
      <3>5. ASSUME k # new, k.key.what = "overdue", new.key.what = "overdue", k.date = new.date
            PROVE  new.step > k.step
        <4>1. k.step \in Steps /\ k.key.date = k.date + k.step /\ k.key.date <= remindDay /\ new.key.date = new.date + new.step
          BY <2>4, <3>1, <3>5 DEF MeansItsDate
        <4>2. k.step <= new.step
          BY <2>4, <3>5, <4>1
        <4>3. k.key # new.key
          BY <3>4, <3>5
        <4>4. k.key \in Keys /\ new.key \in Keys
          BY <2>5, <3>1 DEF Meaning
        <4>5. k.key.date # new.key.date
          BY <3>5, <4>3, <4>4 DEF Keys
        <4>6. QED
          BY <3>3, <3>5, <4>1, <4>2, <4>5
      <3>6. QED
        BY <3>4, <3>5
    <2>9. OneMeaning'
      BY <2>3, <2>8 DEF RemindersInv, OneMeaning
    <2>10. StepsAhead
      BY <2>3, <2>8 DEF StepsAhead
    <2>11. QED
      BY <1>4, <1>5, <2>6, <2>7, <2>9, <2>10 DEF RemindersInv
  <1>8. QED
    BY <1>6, <1>7

LEMMA RunsReminderKeeps ==
  ASSUME RemindersInv, NEW j \in remindJobs, RunsReminder(j)
  PROVE  RemindersInv' /\ StepsAhead
  <1>1. j \in ReminderJob /\ j.key \in Keys /\ j.people \subseteq Persons
    BY ReminderTypes DEF ReminderJob
  <1>2. PICK audience \in SUBSET Persons :
          reminded' = reminded \cup
            {[person |-> p, key |-> j.key, copy |-> IF TellsOf(p, j.key) = {} THEN 1 ELSE 2] :
               p \in {q \in audience : Untold(q, j.key)}}
    <2>1. (IF ByRole THEN concerned ELSE j.people) \in SUBSET Persons
      BY <1>1, ReminderTypes
    <2>2. QED
      BY <2>1 DEF RunsReminder
  <1>3. PICK tellings : tellings = {[person |-> p, key |-> j.key, copy |-> 1] : p \in {q \in audience : TellsOf(q, j.key) = {}}}
    OBVIOUS
  <1>4. reminded' = reminded \cup tellings
    BY <1>2, <1>3 DEF Untold
  <1>5. reminded' \subseteq [person: Persons, key: Keys, copy: 1..2]
    BY <1>1, <1>3, <1>4, ReminderTypes
  <1>6. RemindedOnce'
    <2>1. \A r \in reminded, s \in tellings : ~(r.person = s.person /\ r.key = s.key)
      BY <1>3 DEF TellsOf
    <2>2. \A r, s \in tellings : r.person = s.person => r = s
      BY <1>3
    <2>3. QED
      BY <1>4, <2>1, <2>2 DEF RemindersInv, RemindedOnce
  <1>7. PICK new : new = [j EXCEPT !.state = "ran"]
    OBVIOUS
  <1>8. new \in ReminderJob /\ new.key = j.key
    BY <1>1, <1>7 DEF ReminderJob
  <1>9. /\ remindJobs' = (remindJobs \ {j}) \cup {new}
        /\ UNCHANGED <<matter, concerned, remindDay, matterMoves, keysMeant>>
    BY <1>7 DEF RunsReminder
  <1>10. QED
    BY <1>5, <1>6, <1>8, <1>9, JobMoves, JobsKeep

LEMMA EndsReminderKeeps ==
  ASSUME RemindersInv, NEW j \in remindJobs, EndsReminder(j)
  PROVE  RemindersInv' /\ StepsAhead
  <1>1. PICK new : new = [j EXCEPT !.state = "done", !.at = remindDay]
    OBVIOUS
  <1>2. new \in ReminderJob /\ new.key = j.key
    <2>1. j \in ReminderJob /\ remindDay \in 0..LastRemindDay
      BY ReminderTypes, ReminderNumbers
    <2>2. QED
      BY <1>1, <2>1 DEF ReminderJob
  <1>3. /\ remindJobs' = (remindJobs \ {j}) \cup {new}
        /\ UNCHANGED <<matter, concerned, remindDay, reminded, matterMoves, keysMeant>>
    BY <1>1 DEF EndsReminder
  <1>4. RemindedOnce'
    BY <1>3 DEF RemindersInv, RemindedOnce
  <1>5. QED
    BY <1>2, <1>3, <1>4, JobMoves, JobsKeep, ReminderTypes

LEMMA DeletesOldJobKeeps ==
  ASSUME RemindersInv, NEW j \in remindJobs, DeletesOldJob(j)
  PROVE  RemindersInv' /\ StepsAhead
  <1>1. /\ remindJobs' = remindJobs \ {j}
        /\ UNCHANGED <<matter, concerned, remindDay, reminded, matterMoves, keysMeant>>
    BY DEF DeletesOldJob
  <1>2. RemindedOnce'
    BY <1>1 DEF RemindersInv, RemindedOnce
  <1>3. remindJobs' \subseteq ReminderJob /\ \A k, l \in remindJobs' : k.key = l.key => k = l
    BY <1>1, ReminderTypes
  <1>4. QED
    BY <1>1, <1>2, <1>3, JobsKeep, ReminderTypes

\* Steps of the matter and the day: the jobs and what was decided stay.
LEMMA MatterKeeps ==
  ASSUME RemindersInv, UNCHANGED <<remindJobs, reminded, keysMeant>>, matter' \in Matter, concerned' \subseteq Persons,
         remindDay' \in RemindDays, remindDay <= remindDay', matterMoves' \in 0..MaxMatterMoves, matter'.kind = matter.kind,
         \/ matter'.date = matter.date
         \/ matter.kind = "loan" => matter'.date > matter.date /\ matter'.date > remindDay
  PROVE  RemindersInv' /\ StepsAhead
  <1>1. RemindersTypeOK'
    BY DEF RemindersInv, RemindersTypeOK
  <1>2. RemindedOnce' /\ OneMeaning' /\ StepsAhead
    BY DEF RemindersInv, RemindedOnce, OneMeaning, StepsAhead
  <1>3. ASSUME NEW k \in keysMeant
        PROVE  /\ matter'.kind = "loan" /\ MeansItsDate(k)' /\ k.date <= matter'.date
               /\ k.key.what = "overdue" /\ k.date # matter'.date => k.key.date < matter'.date
    <2>1. /\ matter.kind = "loan" /\ MeansItsDate(k) /\ k.date <= matter.date
          /\ k.key.what = "overdue" /\ k.date # matter.date => k.key.date < matter.date
      BY DEF RemindersInv, KeysOfTheLoan
    <2>2. k.date \in Nat /\ k.key.date \in Nat /\ matter'.date \in Nat /\ remindDay' \in Nat
      <3>1. k \in Meaning
        BY ReminderTypes
      <3>2. k.date \in RemindDays /\ k.key \in Keys
        BY <3>1 DEF Meaning
      <3>3. k.key.date \in 1..LastRemindDay + LastStep /\ LastRemindDay + LastStep \in Nat
        BY <3>2, ReminderNumbers DEF Keys
      <3>4. QED
        BY <3>2, <3>3, ReminderNumbers DEF Matter, RemindDays
    <2>3. MeansItsDate(k)'
      BY <2>1, <2>2, ReminderTypes DEF MeansItsDate
    <2>4. CASE matter'.date = matter.date
      BY <2>1, <2>3, <2>4
    <2>5. CASE matter'.date > matter.date /\ matter'.date > remindDay
      <3>1. k.date <= matter'.date
        BY <2>1, <2>2, <2>5, ReminderTypes
      <3>2. k.key.what = "overdue" => k.key.date < matter'.date
        BY <2>1, <2>2, <2>5, ReminderTypes DEF MeansItsDate
      <3>3. QED
        BY <2>1, <2>3, <3>1, <3>2
    <2>6. QED
      BY <2>1, <2>4, <2>5
  <1>4. KeysOfTheLoan'
    BY <1>3 DEF KeysOfTheLoan
  <1>5. QED
    BY <1>1, <1>2, <1>4, ReminderTypes DEF RemindersInv

LEMMA MovesMatterKeeps ==
  ASSUME RemindersInv, NEW date \in RemindDays, MovesMatter(date)
  PROVE  RemindersInv' /\ StepsAhead
  <1>1. matter' \in Matter /\ matter'.date = date /\ matter'.kind = matter.kind
    BY ReminderTypes DEF MovesMatter, Matter
  <1>2. matterMoves' \in 0..MaxMatterMoves
    BY ReminderTypes, ReminderNumbers DEF MovesMatter, MatterMove
  <1>3. UNCHANGED <<concerned, remindDay, remindJobs, reminded, keysMeant>>
    BY DEF MovesMatter
  <1>4. matter.kind = "loan" => date > matter.date /\ date > remindDay
    BY DEF MovesMatter, MayMoveTo
  <1>5. remindDay' \in RemindDays /\ remindDay <= remindDay' /\ concerned' \subseteq Persons
    BY <1>3, ReminderTypes DEF RemindDays
  <1>6. QED
    BY <1>1, <1>2, <1>3, <1>4, <1>5, MatterKeeps

LEMMA MatterStepsKeep ==
  ASSUME RemindersInv, RemindDayPasses \/ ClosesMatter \/ \E p \in Persons : ConcernedChange(p)
  PROVE  RemindersInv' /\ StepsAhead
  <1>1. matter' \in Matter /\ matter'.date = matter.date /\ matter'.kind = matter.kind
    BY ReminderTypes DEF RemindDayPasses, ClosesMatter, ConcernedChange, Matter
  <1>2. matterMoves' \in 0..MaxMatterMoves
    BY ReminderTypes, ReminderNumbers DEF RemindDayPasses, ClosesMatter, ConcernedChange, MatterMove
  <1>3. remindDay' \in RemindDays /\ remindDay <= remindDay'
    BY ReminderTypes, ReminderNumbers DEF RemindDayPasses, ClosesMatter, ConcernedChange, RemindDays
  <1>4. concerned' \subseteq Persons /\ UNCHANGED <<remindJobs, reminded, keysMeant>>
    BY ReminderTypes DEF RemindDayPasses, ClosesMatter, ConcernedChange
  <1>5. QED
    BY <1>1, <1>2, <1>3, <1>4, MatterKeeps

LEMMA RemindersStarts ==
  ASSUME RemindersInit
  PROVE  RemindersInv
  <1>1. matter \in Matter
    BY DEF RemindersInit, Matter
  <1>2. RemindersTypeOK
    BY <1>1, ReminderNumbers DEF RemindersInit, RemindersTypeOK, RemindDays
  <1>3. QED
    BY <1>2 DEF RemindersInit, RemindersInv, RemindedOnce, OneMeaning, KeysOfTheLoan

LEMMA RemindersStep ==
  ASSUME RemindersInv, [RemindersNext]_reminderVars
  PROVE  RemindersInv' /\ StepsAhead
  <1>1. CASE RemindersNext
    BY <1>1, MatterStepsKeep, SweepRemindsKeeps, RunsReminderKeeps, EndsReminderKeeps, DeletesOldJobKeeps, MovesMatterKeeps
    DEF RemindersNext
  <1>2. CASE UNCHANGED reminderVars
    BY <1>2, JobsKeep, ReminderTypes DEF reminderVars, RemindersInv, RemindedOnce
  <1>3. QED
    BY <1>1, <1>2

\* Nobody is reminded twice of the same date, whatever is retried, swept again or
\* deleted with the finished jobs; a reminder of an extended loan is never taken for
\* one of its earlier date, and the steps come in their order: for any dates, steps,
\* people and downtimes (lib/reminders.ts).
THEOREM RemindersAreSound == RemindersSpec => RemindersPromise
  <1>1. RemindersInit => RemindersInv
    BY RemindersStarts
  <1>2. RemindersInv /\ [RemindersNext]_reminderVars => RemindersInv'
    BY RemindersStep
  <1>3. RemindersInv /\ [RemindersNext]_reminderVars => [StepsAhead]_reminderVars
    BY RemindersStep
  <1>4. RemindersInv => RemindersTypeOK /\ RemindedOnce /\ OneMeaning
    BY DEF RemindersInv
  <1>5. QED
    BY <1>1, <1>2, <1>3, <1>4, PTL DEF RemindersSpec, RemindersPromise

-----------------------------------------------------------------------------
(***************************************************************************)
(* The seats.  The type invariant, that rows and queue belong together, is *)
(* inductive by itself.  What needs an argument is the waitlist that moves *)
(* up: a recursion over the queue, of which an induction over natural      *)
(* numbers shows that nobody sits down for whom there is no room, and that *)
(* nobody is passed by a group that is no smaller.  Seats are counted as a *)
(* set, so that one row more takes as many seats more as it is large.      *)
(***************************************************************************)
\* Induction, with a set for the property: what holds of 0 and of the successor of
\* whatever it holds of, holds of every natural number.
LEMMA NatSetInduction ==
  ASSUME NEW S, 0 \in S, \A n \in Nat : n \in S => n + 1 \in S
  PROVE  \A n \in Nat : n \in S
  <1>1. PICK T : T = {n \in Nat : n \notin S}
    OBVIOUS
  <1>2. PICK R : R = OpToRel(<, Nat)
    OBVIOUS
  <1>3. IsWellFoundedOn(R, Nat)
    BY <1>2, NatLessThanWellFounded, Zenon
  <1>4. ASSUME NEW x \in T, \A y \in T : <<y, x>> \notin R
        PROVE  FALSE
    <2>1. x \in Nat /\ x # 0 /\ x - 1 \in Nat
      BY <1>1, <1>4
    <2>2. <<x - 1, x>> \in Nat \X Nat /\ x - 1 < x
      BY <2>1
    <2>3. <<x - 1, x>> \in R
      BY <1>2, <2>2 DEF OpToRel
    <2>4. x - 1 \in S
      BY <1>1, <1>4, <2>1, <2>3
    <2>5. (x - 1) + 1 \in S
      BY <2>1, <2>4
    <2>6. QED
      BY <1>1, <1>4, <2>1, <2>5
  <1>5. T = {}
    BY <1>1, <1>3, <1>4, WFMin, Zenon
  <1>6. QED
    BY <1>1, <1>5

FiltersUpTo(f, q, K, n) ==
  f = [i \in 0..n |->
         IF i = 0 THEN <<>> ELSE IF q[i] \in K THEN Append(f[i - 1], q[i]) ELSE f[i - 1]]

\* Only is what the recursion computes.
LEMMA OnlyUnfolds ==
  ASSUME NEW X, NEW q \in Seq(X), NEW K
  PROVE  \E f : FiltersUpTo(f, q, K, Len(q)) /\ Only(q, K) = f[Len(q)]
  <1>1. PICK S : S = {n \in Nat : \E f : FiltersUpTo(f, q, K, n)}
    OBVIOUS
  <1>2. 0 \in S
    <2>1. PICK f : f = [i \in 0..0 |-> <<>>]
      OBVIOUS
    <2>2. FiltersUpTo(f, q, K, 0)
      BY <2>1 DEF FiltersUpTo
    <2>3. QED
      BY <1>1, <2>2
  <1>3. ASSUME NEW n \in Nat, n \in S
        PROVE  n + 1 \in S
    <2>1. PICK f : FiltersUpTo(f, q, K, n)
      BY <1>1, <1>3
    <2>2. PICK g : g = [i \in 0..n + 1 |->
                          IF i <= n THEN f[i]
                          ELSE IF q[i] \in K THEN Append(f[i - 1], q[i]) ELSE f[i - 1]]
      OBVIOUS
    <2>3. \A i \in 0..n : g[i] = f[i]
      BY <2>2
    <2>4. ASSUME NEW i \in 0..n + 1
          PROVE  g[i] = IF i = 0 THEN <<>>
                        ELSE IF q[i] \in K THEN Append(g[i - 1], q[i]) ELSE g[i - 1]
      <3>1. CASE i = 0
        BY <2>1, <2>3, <3>1 DEF FiltersUpTo
      <3>2. CASE i # 0
        <4>1. i - 1 \in 0..n /\ g[i - 1] = f[i - 1]
          BY <2>3, <3>2
        <4>2. CASE i <= n
          <5>1. i \in 0..n /\ g[i] = f[i]
            BY <2>3, <4>2
          <5>2. f[i] = IF q[i] \in K THEN Append(f[i - 1], q[i]) ELSE f[i - 1]
            BY <2>1, <3>2, <5>1 DEF FiltersUpTo
          <5>3. QED
            BY <3>2, <4>1, <5>1, <5>2
        <4>3. CASE ~(i <= n)
          BY <2>2, <3>2, <4>1, <4>3
        <4>4. QED
          BY <4>2, <4>3
      <3>3. QED
        BY <3>1, <3>2
    <2>5. FiltersUpTo(g, q, K, n + 1)
      BY <2>2, <2>4 DEF FiltersUpTo
    <2>6. QED
      BY <1>1, <2>5
  <1>4. Len(q) \in S
    <2>1. \A n \in Nat : n \in S
      BY <1>2, <1>3, NatSetInduction
    <2>2. QED
      BY <2>1
  <1>5. PICK f : FiltersUpTo(f, q, K, Len(q))
    BY <1>1, <1>4
  <1>6. QED
    BY <1>5 DEF Only, FiltersUpTo

Filtered(r, q, K, n) ==
  /\ \A x \in 1..Len(r) : r[x] \in K /\ \E a \in 1..n : r[x] = q[a]
  /\ \A x, y \in 1..Len(r) : x < y => \E a, b \in 1..n : a < b /\ r[x] = q[a] /\ r[y] = q[b]
  /\ \A a \in 1..n : q[a] \in K => \E x \in 1..Len(r) : r[x] = q[a]

LEMMA OnlyFilters ==
  ASSUME NEW X, NEW q \in Seq(X), NEW K
  PROVE  Only(q, K) \in Seq(X) /\ Filtered(Only(q, K), q, K, Len(q))
  <1>1. PICK f : FiltersUpTo(f, q, K, Len(q)) /\ Only(q, K) = f[Len(q)]
    BY OnlyUnfolds
  <1>2. PICK S : S = {n \in Nat : n <= Len(q) => f[n] \in Seq(X) /\ Filtered(f[n], q, K, n)}
    OBVIOUS
  <1>3. 0 \in S
    <2>1. f[0] = <<>>
      BY <1>1 DEF FiltersUpTo
    <2>2. Filtered(f[0], q, K, 0)
      BY <2>1 DEF Filtered
    <2>3. f[0] \in Seq(X)
      BY <2>1
    <2>4. QED
      BY <1>2, <2>2, <2>3
  <1>4. ASSUME NEW n \in Nat, n \in S, n + 1 <= Len(q)
        PROVE  f[n + 1] \in Seq(X) /\ Filtered(f[n + 1], q, K, n + 1)
    <2>1. f[n] \in Seq(X) /\ Filtered(f[n], q, K, n)
      BY <1>2, <1>4
    <2>2. f[n + 1] = IF q[n + 1] \in K THEN Append(f[n], q[n + 1]) ELSE f[n]
      <3>1. n + 1 \in 0..Len(q) /\ n + 1 # 0 /\ (n + 1) - 1 = n
        BY <1>4
      <3>2. \A i \in 0..Len(q) : i # 0 => f[i] = IF q[i] \in K THEN Append(f[i - 1], q[i]) ELSE f[i - 1]
        BY <1>1 DEF FiltersUpTo
      <3>3. QED
        BY <3>1, <3>2
    <2>3. n + 1 \in 1..Len(q) /\ q[n + 1] \in X
      BY <1>4
    <2>4. CASE q[n + 1] \notin K
      <3>1. f[n + 1] = f[n]
        BY <2>2, <2>4
      <3>2. Filtered(f[n], q, K, n + 1)
        <4>1. \A x \in 1..Len(f[n]) : f[n][x] \in K /\ \E a \in 1..n + 1 : f[n][x] = q[a]
          <5>1. TAKE x \in 1..Len(f[n])
          <5>2. f[n][x] \in K /\ \E a \in 1..n : f[n][x] = q[a]
            BY <2>1 DEF Filtered
          <5>3. QED
            BY <5>2
        <4>2. \A x, y \in 1..Len(f[n]) :
                x < y => \E a, b \in 1..n + 1 : a < b /\ f[n][x] = q[a] /\ f[n][y] = q[b]
          BY <2>1 DEF Filtered
        <4>3. \A a \in 1..n + 1 : q[a] \in K => \E x \in 1..Len(f[n]) : f[n][x] = q[a]
          BY <2>1, <2>4 DEF Filtered
        <4>4. QED
          BY <4>1, <4>2, <4>3 DEF Filtered
      <3>3. QED
        BY <2>1, <3>1, <3>2
    <2>5. CASE q[n + 1] \in K
      <3>1. PICK r : r = f[n + 1]
        OBVIOUS
      <3>2. r = Append(f[n], q[n + 1])
        BY <2>2, <2>5, <3>1
      <3>3. /\ r \in Seq(X) /\ Len(r) = Len(f[n]) + 1 /\ Len(f[n]) \in Nat
            /\ r[Len(r)] = q[n + 1]
            /\ \A x \in 1..Len(f[n]) : r[x] = f[n][x]
        BY <2>1, <2>3, <3>2
      <3>4. \A x \in 1..Len(r) : r[x] \in K /\ \E a \in 1..n + 1 : r[x] = q[a]
        <4>1. TAKE x \in 1..Len(r)
        <4>2. CASE x = Len(r)
          BY <2>5, <3>3, <4>2
        <4>3. CASE x # Len(r)
          <5>1. x \in 1..Len(f[n]) /\ r[x] = f[n][x]
            BY <3>3, <4>3
          <5>2. r[x] \in K /\ \E a \in 1..n : r[x] = q[a]
            BY <2>1, <5>1 DEF Filtered
          <5>3. QED
            BY <5>2
        <4>4. QED
          BY <4>2, <4>3
      <3>5. \A x, y \in 1..Len(r) :
              x < y => \E a, b \in 1..n + 1 : a < b /\ r[x] = q[a] /\ r[y] = q[b]
        <4>1. SUFFICES ASSUME NEW x \in 1..Len(r), NEW y \in 1..Len(r), x < y
                       PROVE  \E a, b \in 1..n + 1 : a < b /\ r[x] = q[a] /\ r[y] = q[b]
          OBVIOUS
        <4>2. x \in 1..Len(f[n]) /\ r[x] = f[n][x]
          BY <3>3, <4>1
        <4>3. CASE y = Len(r)
          <5>1. PICK a \in 1..n : r[x] = q[a]
            BY <2>1, <4>2 DEF Filtered
          <5>2. a \in 1..n + 1 /\ n + 1 \in 1..n + 1 /\ a < n + 1
            BY <5>1
          <5>3. QED
            BY <3>3, <4>3, <5>1, <5>2
        <4>4. CASE y # Len(r)
          <5>0. y \in 1..Len(f[n])
            BY <3>3, <4>4
          <5>1. y \in 1..Len(f[n]) /\ r[y] = f[n][y]
            BY <3>3, <5>0
          <5>2. \E a, b \in 1..n : a < b /\ r[x] = q[a] /\ r[y] = q[b]
            BY <2>1, <4>1, <4>2, <5>1 DEF Filtered
          <5>3. QED
            BY <5>2
        <4>5. QED
          BY <4>3, <4>4
      <3>6. \A a \in 1..n + 1 : q[a] \in K => \E x \in 1..Len(r) : r[x] = q[a]
        <4>1. SUFFICES ASSUME NEW a \in 1..n + 1, q[a] \in K
                       PROVE  \E x \in 1..Len(r) : r[x] = q[a]
          OBVIOUS
        <4>2. CASE a = n + 1
          BY <3>3, <4>2
        <4>3. CASE a # n + 1
          <5>1. a \in 1..n
            BY <4>3
          <5>2. PICK x \in 1..Len(f[n]) : f[n][x] = q[a]
            BY <2>1, <4>1, <5>1 DEF Filtered
          <5>3. x \in 1..Len(r) /\ r[x] = q[a]
            BY <3>3, <5>2
          <5>4. QED
            BY <5>3
        <4>4. QED
          BY <4>2, <4>3
      <3>7. Filtered(r, q, K, n + 1)
        BY <3>4, <3>5, <3>6 DEF Filtered
      <3>8. QED
        BY <3>1, <3>3, <3>7
    <2>6. QED
      BY <2>4, <2>5
  <1>5. \A n \in Nat : n \in S => n + 1 \in S
    BY <1>2, <1>4
  <1>6. Len(q) \in S
    <2>1. \A n \in Nat : n \in S
      BY <1>3, <1>5, NatSetInduction
    <2>2. QED
      BY <2>1
  <1>7. QED
    BY <1>1, <1>2, <1>6

Listed(q) == {q[i] : i \in DOMAIN q}
ListedOnce(q) == \A i, j \in DOMAIN q : q[i] = q[j] => i = j
Earlier(q, a, b) == \E i, j \in DOMAIN q : i < j /\ q[i] = a /\ q[j] = b

\* What is left of a queue in which nobody stands twice: those of the set, once
\* each, in the order they had.
LEMMA OnlyKeeps ==
  ASSUME NEW X, NEW q \in Seq(X), NEW K, ListedOnce(q)
  PROVE  /\ Only(q, K) \in Seq(X) /\ ListedOnce(Only(q, K))
         /\ Listed(Only(q, K)) = Listed(q) \cap K
         /\ \A a, b \in K : Earlier(q, a, b) => Earlier(Only(q, K), a, b)
  <1>1. PICK r : r = Only(q, K)
    OBVIOUS
  <1>2. r \in Seq(X) /\ Filtered(r, q, K, Len(q))
    BY <1>1, OnlyFilters
  <1>3. DOMAIN r = 1..Len(r) /\ DOMAIN q = 1..Len(q) /\ Len(r) \in Nat /\ Len(q) \in Nat
    BY <1>2
  <1>4. ListedOnce(r)
    <2>1. SUFFICES ASSUME NEW x \in 1..Len(r), NEW y \in 1..Len(r), x < y, r[x] = r[y]
                   PROVE  FALSE
      BY <1>3 DEF ListedOnce
    <2>2. PICK a \in 1..Len(q), b \in 1..Len(q) : a < b /\ r[x] = q[a] /\ r[y] = q[b]
      BY <1>2, <2>1 DEF Filtered
    <2>3. a = b
      BY <1>3, <2>1, <2>2 DEF ListedOnce
    <2>4. QED
      BY <2>2, <2>3
  <1>5. Listed(r) = Listed(q) \cap K
    <2>1. ASSUME NEW x \in 1..Len(r)
          PROVE  r[x] \in Listed(q) \cap K
      BY <1>2, <1>3 DEF Filtered, Listed
    <2>2. ASSUME NEW a \in 1..Len(q), q[a] \in K
          PROVE  q[a] \in Listed(r)
      <3>1. PICK x \in 1..Len(r) : r[x] = q[a]
        BY <1>2, <2>2 DEF Filtered
      <3>2. QED
        BY <1>3, <3>1 DEF Listed
    <2>3. QED
      BY <1>3, <2>1, <2>2 DEF Listed
  <1>6. ASSUME NEW a \in K, NEW b \in K, Earlier(q, a, b)
        PROVE  Earlier(r, a, b)
    <2>1. PICK i \in 1..Len(q), j \in 1..Len(q) : i < j /\ q[i] = a /\ q[j] = b
      BY <1>3, <1>6 DEF Earlier
    <2>2. PICK x \in 1..Len(r) : r[x] = q[i]
      BY <1>2, <2>1 DEF Filtered
    <2>3. PICK y \in 1..Len(r) : r[y] = q[j]
      BY <1>2, <2>1 DEF Filtered
    <2>4. x < y
      <3>1. ASSUME y < x
            PROVE  FALSE
        <4>1. PICK c \in 1..Len(q), d \in 1..Len(q) : c < d /\ r[y] = q[c] /\ r[x] = q[d]
          BY <1>2, <3>1 DEF Filtered
        <4>2. c = j /\ d = i
          BY <1>3, <2>2, <2>3, <4>1 DEF ListedOnce
        <4>3. QED
          BY <2>1, <4>1, <4>2
      <3>2. x # y
        BY <1>3, <2>1, <2>2, <2>3 DEF ListedOnce
      <3>3. QED
        BY <3>1, <3>2
    <2>5. QED
      BY <1>3, <2>1, <2>2, <2>3, <2>4 DEF Earlier
  <1>7. QED
    BY <1>1, <1>2, <1>4, <1>5, <1>6

-----------------------------------------------------------------------------
LEMMA SeatConstants ==
  Sizes \subseteq Nat \ {0} /\ Capacities \subseteq Nat \ {0} /\ NoLimit \notin Nat
  BY EventSeatsAssumption, Zenon

\* A row has a size of at least one, or is none.
LEMMA RowTypes ==
  ASSUME NEW row \in Row
  PROVE  /\ row.size \in Nat
         /\ row.status \in {"none", "seated", "waiting", "unconfirmed"}
         /\ row.status = "none" <=> row = NoRow
         /\ row.status # "none" => row \in [status: {"seated", "waiting", "unconfirmed"}, size: Sizes \cup {1}]
  <1>1. CASE row = NoRow
    BY <1>1 DEF NoRow
  <1>2. CASE row \in [status: {"seated", "waiting", "unconfirmed"}, size: Sizes \cup {1}]
    <2>1. row.size \in Sizes \cup {1} /\ row.status \in {"seated", "waiting", "unconfirmed"}
      BY <1>2
    <2>2. row.size \in Nat
      <3>1. \A n \in Sizes \cup {1} : n \in Nat
        BY SeatConstants
      <3>2. QED
        BY <2>1, <3>1
    <2>3. row # NoRow
      BY <2>1 DEF NoRow
    <2>4. QED
      BY <1>2, <2>1, <2>2, <2>3
  <1>3. QED
    BY <1>1, <1>2 DEF Row

LEMMA RowKeysFinite == IsFiniteSet(RowKeys)
  <1>1. PICK f : f = [w \in Wards |-> AnswerOf(w)]
    OBVIOUS
  <1>2. f \in Surjection(Wards, {AnswerOf(w) : w \in Wards})
    BY <1>1 DEF Surjection
  <1>3. IsFiniteSet({AnswerOf(w) : w \in Wards})
    BY <1>2, EventSeatsAssumption, FS_Surjection
  <1>4. IsFiniteSet(Accounts \cup Wards)
    BY EventSeatsAssumption, FS_Union
  <1>5. IsFiniteSet(Registrations)
    BY <1>4, EventSeatsAssumption, FS_Union DEF Registrations
  <1>6. QED
    BY <1>3, <1>5, FS_Union DEF RowKeys

LEMMA SeatsMeans ==
  ASSUME NEW table, NEW keys
  PROVE  /\ \A k \in keys : \A n \in 1..table[k].size : <<k, n>> \in SeatsOf(table, keys)
         /\ \A s \in SeatsOf(table, keys) :
              \E k \in keys : \E n \in 1..table[k].size : s = <<k, n>>
  BY DEF SeatsOf

LEMMA SeatsFinite ==
  ASSUME NEW table \in [RowKeys -> Row], NEW keys \in SUBSET RowKeys
  PROVE  /\ IsFiniteSet(SeatsOf(table, keys))
         /\ Cardinality(SeatsOf(table, keys)) \in Nat
  <1>1. IsFiniteSet(keys)
    BY RowKeysFinite, FS_Subset
  <1>2. PICK f : f = [k \in keys |-> {k} \X (1..table[k].size)]
    OBVIOUS
  <1>3. PICK T : T = {{k} \X (1..table[k].size) : k \in keys}
    OBVIOUS
  <1>4. f \in Surjection(keys, T)
    BY <1>2, <1>3 DEF Surjection
  <1>5. IsFiniteSet(T)
    BY <1>1, <1>4, FS_Surjection
  <1>6. ASSUME NEW t \in T
        PROVE  IsFiniteSet(t)
    <2>1. PICK k \in keys : t = {k} \X (1..table[k].size)
      BY <1>3
    <2>2. table[k].size \in Int
      BY RowTypes
    <2>3. IsFiniteSet(1..table[k].size)
      BY <2>2, FS_Interval
    <2>4. IsFiniteSet({k})
      BY FS_Singleton
    <2>5. QED
      BY <2>1, <2>3, <2>4, FS_Product
  <1>7. IsFiniteSet(UNION T)
    BY <1>5, <1>6, FS_UNION
  <1>8. IsFiniteSet(SeatsOf(table, keys))
    BY <1>3, <1>7, Zenon DEF SeatsOf
  <1>9. QED
    BY <1>8, FS_CardinalityType

\* Fewer rows of the same sizes take no more seats.
LEMMA SeatsGrow ==
  ASSUME NEW table \in [RowKeys -> Row], NEW other \in [RowKeys -> Row],
         NEW keys \in SUBSET RowKeys, NEW more \in SUBSET RowKeys,
         keys \subseteq more, \A k \in keys : table[k].size = other[k].size
  PROVE  Cardinality(SeatsOf(table, keys)) <= Cardinality(SeatsOf(other, more))
  <1>1. SeatsOf(table, keys) \subseteq SeatsOf(other, more)
    <2>1. ASSUME NEW s \in SeatsOf(table, keys)
          PROVE  s \in SeatsOf(other, more)
      <3>1. PICK k \in keys : \E n \in 1..table[k].size : s = <<k, n>>
        BY SeatsMeans
      <3>2. PICK n \in 1..other[k].size : s = <<k, n>>
        BY <3>1
      <3>3. QED
        BY <3>2, SeatsMeans
    <2>2. QED
      BY <2>1
  <1>2. QED
    BY <1>1, SeatsFinite, FS_Subset

\* Rows of the same sizes take the same seats.
LEMMA SeatsSame ==
  ASSUME NEW table \in [RowKeys -> Row], NEW other \in [RowKeys -> Row],
         NEW keys \in SUBSET RowKeys, \A k \in keys : table[k].size = other[k].size
  PROVE  Cardinality(SeatsOf(table, keys)) = Cardinality(SeatsOf(other, keys))
  <1>1. /\ Cardinality(SeatsOf(table, keys)) <= Cardinality(SeatsOf(other, keys))
        /\ Cardinality(SeatsOf(other, keys)) <= Cardinality(SeatsOf(table, keys))
    BY SeatsGrow
  <1>2. QED
    BY <1>1, SeatsFinite

\* One row more takes as many seats more as it is large.
LEMMA SeatsAdd ==
  ASSUME NEW table \in [RowKeys -> Row], NEW keys \in SUBSET RowKeys,
         NEW k \in RowKeys, k \notin keys
  PROVE  Cardinality(SeatsOf(table, keys \cup {k}))
           = Cardinality(SeatsOf(table, keys)) + table[k].size
  <1>1. PICK own : own = {k} \X (1..table[k].size)
    OBVIOUS
  <1>2. PICK n \in Nat : n = table[k].size
    BY RowTypes
  <1>3. IsFiniteSet(own) /\ Cardinality(own) = table[k].size
    <2>1. IsFiniteSet(1..n) /\ Cardinality(1..n) = n
      <3>1. 1 \in Int /\ n \in Int
        OBVIOUS
      <3>2. IsFiniteSet(1..n) /\ Cardinality(1..n) = IF 1 > n THEN 0 ELSE n - 1 + 1
        BY <3>1, FS_Interval
      <3>3. QED
        BY <3>2
    <2>2. IsFiniteSet({k}) /\ Cardinality({k}) = 1
      BY FS_Singleton
    <2>3. own = {k} \X (1..n)
      BY <1>1, <1>2
    <2>4. IsFiniteSet(own) /\ Cardinality(own) = 1 * n
      BY <2>1, <2>2, <2>3, FS_Product
    <2>5. QED
      BY <1>2, <2>4
  <1>4. SeatsOf(table, keys \cup {k}) = SeatsOf(table, keys) \cup own
    BY <1>1 DEF SeatsOf
  <1>5. SeatsOf(table, keys) \cap own = {}
    BY <1>1 DEF SeatsOf
  <1>6. PICK c \in Nat : c = Cardinality(SeatsOf(table, keys))
    BY SeatsFinite
  <1>7. Cardinality(SeatsOf(table, keys) \cup own) = c + table[k].size - Cardinality(SeatsOf(table, keys) \cap own)
    BY <1>3, <1>6, SeatsFinite, FS_Union
  <1>8. Cardinality(SeatsOf(table, keys) \cap own) = 0
    BY <1>5, FS_EmptySet
  <1>9. Cardinality(SeatsOf(table, keys \cup {k})) = c + table[k].size - 0
    BY <1>4, <1>7, <1>8, Zenon
  <1>10. QED
    BY <1>2, <1>6, <1>9

\* Who is counted beside one row, and with it.
LEMMA TakenIsCounted ==
  ASSUME NEW table \in [RowKeys -> Row], NEW k
  PROVE  /\ Taken(table, k) \in Nat /\ Occupied(table) \in Nat
         /\ Taken(table, k) <= Occupied(table)
         /\ k \notin SeatedRows(table) => Taken(table, k) = Occupied(table)
  <1>1. SeatedRows(table) \in SUBSET RowKeys /\ SeatedRows(table) \ {k} \in SUBSET RowKeys
    BY DEF SeatedRows
  <1>2. Taken(table, k) \in Nat
    BY <1>1, SeatsFinite DEF Taken
  <1>3. Occupied(table) \in Nat
    BY <1>1, SeatsFinite DEF Occupied
  <1>4. Taken(table, k) <= Occupied(table)
    BY <1>1, SeatsGrow DEF Taken, Occupied
  <1>5. ASSUME k \notin SeatedRows(table)
        PROVE  Taken(table, k) = Occupied(table)
    <2>1. SeatedRows(table) \ {k} = SeatedRows(table)
      BY <1>5
    <2>2. QED
      BY <2>1, Zenon DEF Taken, Occupied
  <1>6. QED
    BY <1>2, <1>3, <1>4, <1>5

LEMMA NobodyIsNoRow == <<>> \notin RowKeys
  <1>1. \A w \in Wards : AnswerOf(w) # <<>>
    BY DEF AnswerOf
  <1>2. <<>> \notin Registrations
    BY EventSeatsAssumption, Zenon
  <1>3. QED
    BY <1>1, <1>2 DEF RowKeys

LEMMA TakenIsOccupied ==
  ASSUME NEW table \in [RowKeys -> Row]
  PROVE  Taken(table, <<>>) = Occupied(table)
  <1>1. <<>> \notin SeatedRows(table)
    BY NobodyIsNoRow DEF SeatedRows
  <1>2. QED
    BY <1>1, TakenIsCounted

\* A row sits down beside the others.
LEMMA OccupiedWith ==
  ASSUME NEW table \in [RowKeys -> Row], NEW other \in [RowKeys -> Row], NEW k \in RowKeys,
         other[k].status = "seated", \A e \in RowKeys \ {k} : other[e] = table[e]
  PROVE  Occupied(other) = Taken(table, k) + other[k].size
  <1>1. PICK keys \in SUBSET RowKeys : keys = SeatedRows(table) \ {k}
    BY DEF SeatedRows
  <1>2. SeatedRows(other) = keys \cup {k} /\ k \notin keys
    BY <1>1 DEF SeatedRows
  <1>3. Cardinality(SeatsOf(other, keys)) = Cardinality(SeatsOf(table, keys))
    <2>1. \A e \in keys : other[e].size = table[e].size
      BY <1>1
    <2>2. QED
      BY <2>1, SeatsSame
  <1>4. Cardinality(SeatsOf(other, keys \cup {k})) = Cardinality(SeatsOf(other, keys)) + other[k].size
    BY <1>2, SeatsAdd
  <1>5. Occupied(other) = Cardinality(SeatsOf(other, keys \cup {k}))
    BY <1>2, Zenon DEF Occupied
  <1>6. Taken(table, k) = Cardinality(SeatsOf(table, keys))
    BY <1>1, Zenon DEF Taken
  <1>7. QED
    BY <1>3, <1>4, <1>5, <1>6, Zenon

\* Whoever fits beside the others, the event has room for.
LEMMA FitsBeside ==
  ASSUME NEW table \in [RowKeys -> Row], NEW other \in [RowKeys -> Row], NEW k \in RowKeys,
         other[k].status = "seated", \A e \in RowKeys \ {k} : other[e] = table[e],
         NEW limit \in Capacities \cup {NoLimit}, Fits(limit, Taken(table, k), other[k].size)
  PROVE  Fits(limit, Occupied(other), 0)
  <1>1. Occupied(other) = Taken(table, k) + other[k].size
    BY OccupiedWith
  <1>2. Taken(table, k) \in Nat /\ other[k].size \in Nat
    BY TakenIsCounted, RowTypes
  <1>3. QED
    BY <1>1, <1>2 DEF Fits

-----------------------------------------------------------------------------
\* One entry of the waitlist.
LEMMA MovesUpMeans ==
  ASSUME NEW table \in [RowKeys -> Row], NEW k \in RowKeys,
         NEW limit \in Capacities \cup {NoLimit}, NEW moved, moved = MovesUp(table, k, limit)
  PROVE  /\ moved \in [RowKeys -> Row]
         /\ \A e \in RowKeys \ {k} : moved[e] = table[e]
         /\ moved[k].size = table[k].size
         /\ moved = table \/ (table[k].status = "waiting" /\ moved[k].status = "seated")
         /\ moved = table \/ Fits(limit, Occupied(moved), 0)
         /\ table[k].status = "waiting" /\ Fits(limit, Occupied(table), table[k].size)
              => moved[k].status = "seated"
         /\ moved # table => Fits(limit, Occupied(table), table[k].size)
  <1>2. Taken(table, <<>>) = Occupied(table)
    BY TakenIsOccupied
  <1>3. CASE ~(table[k].status = "waiting" /\ Fits(limit, Occupied(table), table[k].size))
    <2>1. moved = table
      BY <1>2, <1>3 DEF MovesUp
    <2>2. QED
      BY <1>3, <2>1
  <1>4. CASE table[k].status = "waiting" /\ Fits(limit, Occupied(table), table[k].size)
    <2>1. moved = [table EXCEPT ![k].status = "seated"]
      BY <1>2, <1>4 DEF MovesUp
    <2>2. PICK row : row = [table[k] EXCEPT !.status = "seated"]
      OBVIOUS
    <2>3. row \in Row /\ row.status = "seated" /\ row.size = table[k].size
      <3>1. table[k] \in [status: {"seated", "waiting", "unconfirmed"}, size: Sizes \cup {1}]
        BY <1>4, RowTypes
      <3>2. QED
        BY <2>2, <3>1 DEF Row
    <2>4. moved = [table EXCEPT ![k] = row]
      BY <2>1, <2>2
    <2>5. moved \in [RowKeys -> Row] /\ moved[k] = row /\ \A e \in RowKeys \ {k} : moved[e] = table[e]
      BY <2>3, <2>4
    <2>6. Taken(table, k) = Occupied(table)
      <3>1. k \notin SeatedRows(table)
        BY <1>4 DEF SeatedRows
      <3>2. QED
        BY <3>1, TakenIsCounted
    <2>7. Fits(limit, Occupied(moved), 0)
      BY <1>4, <2>3, <2>5, <2>6, FitsBeside
    <2>8. QED
      BY <1>4, <2>3, <2>5, <2>7
  <1>5. QED
    BY <1>3, <1>4

-----------------------------------------------------------------------------
MovesUpTo(f, table, queue, limit, n) ==
  f = [i \in 0..n |-> IF i = 0 THEN table ELSE MovesUp(f[i - 1], queue[i], limit)]

\* Promote is what the recursion computes.
LEMMA PromoteUnfolds ==
  ASSUME NEW table, NEW queue \in Seq(RowKeys), NEW limit
  PROVE  \E f : /\ MovesUpTo(f, table, queue, limit, Len(queue))
                /\ Promote(table, queue, limit) = f[Len(queue)]
  <1>1. PICK S : S = {n \in Nat : \E f : MovesUpTo(f, table, queue, limit, n)}
    OBVIOUS
  <1>2. 0 \in S
    <2>1. PICK f : f = [i \in 0..0 |-> table]
      OBVIOUS
    <2>2. MovesUpTo(f, table, queue, limit, 0)
      BY <2>1 DEF MovesUpTo
    <2>3. QED
      BY <1>1, <2>2
  <1>3. ASSUME NEW n \in Nat, n \in S
        PROVE  n + 1 \in S
    <2>1. PICK f : MovesUpTo(f, table, queue, limit, n)
      BY <1>1, <1>3
    <2>2. PICK g : g = [i \in 0..n + 1 |->
                          IF i <= n THEN f[i] ELSE MovesUp(f[i - 1], queue[i], limit)]
      OBVIOUS
    <2>3. \A i \in 0..n : g[i] = f[i]
      BY <2>2
    <2>4. ASSUME NEW i \in 0..n + 1
          PROVE  g[i] = IF i = 0 THEN table ELSE MovesUp(g[i - 1], queue[i], limit)
      <3>1. CASE i = 0
        BY <2>1, <2>3, <3>1 DEF MovesUpTo
      <3>2. CASE i # 0
        <4>1. i - 1 \in 0..n /\ g[i - 1] = f[i - 1]
          BY <2>3, <3>2
        <4>2. CASE i <= n
          <5>1. i \in 0..n /\ g[i] = f[i]
            BY <2>3, <4>2
          <5>2. f[i] = MovesUp(f[i - 1], queue[i], limit)
            BY <2>1, <3>2, <5>1 DEF MovesUpTo
          <5>3. QED
            BY <3>2, <4>1, <5>1, <5>2
        <4>3. CASE ~(i <= n)
          BY <2>2, <3>2, <4>1, <4>3
        <4>4. QED
          BY <4>2, <4>3
      <3>3. QED
        BY <3>1, <3>2
    <2>5. MovesUpTo(g, table, queue, limit, n + 1)
      BY <2>2, <2>4 DEF MovesUpTo
    <2>6. QED
      BY <1>1, <2>5
  <1>4. Len(queue) \in S
    <2>1. \A n \in Nat : n \in S
      BY <1>2, <1>3, NatSetInduction
    <2>2. QED
      BY <2>1
  <1>5. PICK f : MovesUpTo(f, table, queue, limit, Len(queue))
    BY <1>1, <1>4
  <1>6. QED
    BY <1>5 DEF Promote, MovesUpTo

\* What holds when so many of the queue have had their turn.
Promoted(f, table, queue, limit, n) ==
  /\ f[n] \in [RowKeys -> Row]
  /\ \A e \in RowKeys : f[n][e].size = table[e].size
  /\ \A e \in RowKeys :
       \/ f[n][e] = table[e]
       \/ /\ table[e].status = "waiting" /\ f[n][e].status = "seated"
          /\ \E l \in 1..n : queue[l] = e /\ Fits(limit, Occupied(f[l - 1]), table[e].size)
  /\ f[n] = table \/ Fits(limit, Occupied(f[n]), 0)
  /\ \A l \in 0..n : SeatedRows(f[l]) \subseteq SeatedRows(f[n])

LEMMA PromotesInTurn ==
  ASSUME NEW table \in [RowKeys -> Row], NEW queue \in Seq(RowKeys),
         NEW limit \in Capacities \cup {NoLimit}, NEW f,
         MovesUpTo(f, table, queue, limit, Len(queue))
  PROVE  \A n \in 0..Len(queue) : Promoted(f, table, queue, limit, n)
  <1>1. PICK S : S = {n \in Nat : n <= Len(queue) => Promoted(f, table, queue, limit, n)}
    OBVIOUS
  <1>2. f[0] = table
    BY DEF MovesUpTo
  <1>3. 0 \in S
    <2>1. Promoted(f, table, queue, limit, 0)
      BY <1>2 DEF Promoted
    <2>2. QED
      BY <1>1, <2>1
  <1>4. ASSUME NEW n \in Nat, n \in S, n + 1 <= Len(queue)
        PROVE  Promoted(f, table, queue, limit, n + 1)
    <2>1. Promoted(f, table, queue, limit, n)
      BY <1>1, <1>4
    <2>2. PICK k \in RowKeys : k = queue[n + 1]
      BY <1>4
    <2>3. f[n + 1] = MovesUp(f[n], k, limit)
      <3>1. n + 1 \in 0..Len(queue) /\ n + 1 # 0 /\ (n + 1) - 1 = n
        BY <1>4
      <3>2. \A i \in 0..Len(queue) : i # 0 => f[i] = MovesUp(f[i - 1], queue[i], limit)
        BY DEF MovesUpTo
      <3>3. QED
        BY <2>2, <3>1, <3>2
    <2>4. PICK so \in [RowKeys -> Row] : so = f[n]
      BY <2>1 DEF Promoted
    <2>5. PICK then : then = f[n + 1]
      OBVIOUS
    <2>6. /\ then \in [RowKeys -> Row]
          /\ \A e \in RowKeys \ {k} : then[e] = so[e]
          /\ then[k].size = so[k].size
          /\ then = so \/ (so[k].status = "waiting" /\ then[k].status = "seated")
          /\ then = so \/ Fits(limit, Occupied(then), 0)
          /\ then # so => Fits(limit, Occupied(so), so[k].size)
      <3>1. then = MovesUp(so, k, limit)
        BY <2>3, <2>4, <2>5
      <3>2. QED
        BY <3>1, MovesUpMeans
    <2>7. \A e \in RowKeys : then[e].size = table[e].size
      BY <2>1, <2>4, <2>6 DEF Promoted
    <2>8. ASSUME NEW e \in RowKeys, then[e] # table[e]
          PROVE  /\ table[e].status = "waiting" /\ then[e].status = "seated"
                 /\ \E l \in 1..n + 1 : queue[l] = e /\ Fits(limit, Occupied(f[l - 1]), table[e].size)
      <3>1. CASE then[e] = so[e]
        <4>1. /\ table[e].status = "waiting" /\ so[e].status = "seated"
              /\ \E l \in 1..n : queue[l] = e /\ Fits(limit, Occupied(f[l - 1]), table[e].size)
          BY <2>1, <2>4, <2>8, <3>1 DEF Promoted
        <4>2. QED
          BY <3>1, <4>1
      <3>2. CASE then[e] # so[e]
        <4>1. e = k /\ then # so
          BY <2>6, <3>2
        <4>2. so[e].status = "waiting" /\ then[e].status = "seated"
          BY <2>6, <4>1
        <4>3. so[e] = table[e]
          BY <2>1, <2>4, <4>2 DEF Promoted
        <4>4. Fits(limit, Occupied(f[(n + 1) - 1]), table[e].size)
          BY <2>4, <2>6, <4>1, <4>3
        <4>5. n + 1 \in 1..n + 1 /\ queue[n + 1] = e
          BY <2>2, <4>1
        <4>6. QED
          BY <4>2, <4>3, <4>4, <4>5
      <3>3. QED
        BY <3>1, <3>2
    <2>9. then = table \/ Fits(limit, Occupied(then), 0)
      BY <2>1, <2>4, <2>6 DEF Promoted
    <2>10. ASSUME NEW l \in 0..n + 1
           PROVE  SeatedRows(f[l]) \subseteq SeatedRows(then)
      <3>1. SeatedRows(so) \subseteq SeatedRows(then)
        BY <2>6 DEF SeatedRows
      <3>2. CASE l = n + 1
        BY <2>5, <3>2
      <3>3. CASE l # n + 1
        <4>1. l \in 0..n
          BY <3>3
        <4>2. SeatedRows(f[l]) \subseteq SeatedRows(so)
          BY <2>1, <2>4, <4>1 DEF Promoted
        <4>3. QED
          BY <3>1, <4>2
      <3>4. QED
        BY <3>2, <3>3
    <2>11. QED
      BY <2>5, <2>6, <2>7, <2>8, <2>9, <2>10 DEF Promoted
  <1>5. \A n \in Nat : n \in S => n + 1 \in S
    BY <1>1, <1>4
  <1>6. \A n \in Nat : n \in S
    BY <1>3, <1>5, NatSetInduction
  <1>7. QED
    BY <1>1, <1>6

\* The waitlist moves up: who waits may sit down, nobody else changes, and nobody
\* sits down for whom there is no room.
LEMMA PromoteMeans ==
  ASSUME NEW table \in [RowKeys -> Row], NEW queue \in Seq(RowKeys),
         NEW limit \in Capacities \cup {NoLimit}, NEW moved,
         moved = Promote(table, queue, limit)
  PROVE  /\ moved \in [RowKeys -> Row]
         /\ \A e \in RowKeys :
              /\ moved[e].size = table[e].size
              /\ moved[e] = table[e] \/ (table[e].status = "waiting" /\ moved[e].status = "seated")
         /\ moved = table \/ Fits(limit, Occupied(moved), 0)
  <1>1. PICK f : /\ MovesUpTo(f, table, queue, limit, Len(queue))
                 /\ moved = f[Len(queue)]
    BY PromoteUnfolds
  <1>2. Len(queue) \in 0..Len(queue)
    OBVIOUS
  <1>3. Promoted(f, table, queue, limit, Len(queue))
    BY <1>1, <1>2, PromotesInTurn
  <1>4. QED
    BY <1>1, <1>3 DEF Promoted

\* Nobody sits down past somebody who answered earlier with a group no larger.
LEMMA PromotesInOrder ==
  ASSUME NEW table \in [RowKeys -> Row], NEW queue \in Seq(RowKeys), ListedOnce(queue),
         NEW limit \in Capacities \cup {NoLimit}, NEW moved,
         moved = Promote(table, queue, limit),
         NEW a \in RowKeys, NEW b \in RowKeys, Earlier(queue, a, b),
         table[a].status = "waiting", table[b].status = "waiting",
         table[a].size <= table[b].size, moved[b].status = "seated"
  PROVE  moved[a].status = "seated"
  <1>1. PICK f : /\ MovesUpTo(f, table, queue, limit, Len(queue))
                 /\ moved = f[Len(queue)]
    BY PromoteUnfolds
  <1>2. \A n \in 0..Len(queue) : Promoted(f, table, queue, limit, n)
    BY <1>1, PromotesInTurn
  <1>3. PICK x \in 1..Len(queue), y \in 1..Len(queue) : x < y /\ queue[x] = a /\ queue[y] = b
    BY DEF Earlier
  <1>4. Len(queue) \in 0..Len(queue) /\ x \in 0..Len(queue) /\ x - 1 \in 0..Len(queue)
         /\ y - 1 \in 0..Len(queue) /\ x - 1 \in 0..y - 1 /\ x - 1 \in 0..Len(queue)
    BY <1>3
  <1>5. PICK l \in 1..Len(queue) : queue[l] = b /\ Fits(limit, Occupied(f[l - 1]), table[b].size)
    <2>1. moved[b] # table[b]
      OBVIOUS
    <2>2. QED
      BY <1>1, <1>2, <1>4, <2>1 DEF Promoted
  <1>6. l = y
    BY <1>3, <1>5 DEF ListedOnce
  <1>7. PICK before \in [RowKeys -> Row] : before = f[x - 1]
    <2>1. Promoted(f, table, queue, limit, x - 1)
      BY <1>2, <1>4
    <2>2. QED
      BY <2>1 DEF Promoted
  <1>8. PICK later \in [RowKeys -> Row] : later = f[y - 1]
    <2>1. Promoted(f, table, queue, limit, y - 1)
      BY <1>2, <1>4
    <2>2. QED
      BY <2>1 DEF Promoted
  <1>9. Occupied(before) <= Occupied(later)
    <2>1. SeatedRows(before) \subseteq SeatedRows(later)
      BY <1>2, <1>4, <1>7, <1>8 DEF Promoted
    <2>2. \A e \in RowKeys : before[e].size = later[e].size
      <3>1. \A e \in RowKeys : before[e].size = table[e].size
        <4>1. Promoted(f, table, queue, limit, x - 1)
          BY <1>2, <1>4
        <4>2. QED
          BY <1>7, <4>1 DEF Promoted
      <3>2. \A e \in RowKeys : later[e].size = table[e].size
        <4>1. Promoted(f, table, queue, limit, y - 1)
          BY <1>2, <1>4
        <4>2. QED
          BY <1>8, <4>1 DEF Promoted
      <3>3. QED
        BY <3>1, <3>2
    <2>3. SeatedRows(before) \in SUBSET RowKeys /\ SeatedRows(later) \in SUBSET RowKeys
      BY DEF SeatedRows
    <2>4. QED
      BY <2>1, <2>2, <2>3, SeatsGrow DEF Occupied
  <1>10. Fits(limit, Occupied(before), table[a].size)
    <2>1. Fits(limit, Occupied(later), table[b].size)
      BY <1>5, <1>6, <1>8
    <2>2. Occupied(before) \in Nat /\ Occupied(later) \in Nat
      BY TakenIsCounted
    <2>3. table[a].size \in Nat /\ table[b].size \in Nat
      BY RowTypes
    <2>4. limit = NoLimit \/ limit \in Nat
      BY SeatConstants
    <2>5. QED
      BY <1>9, <2>1, <2>2, <2>3, <2>4 DEF Fits
  <1>11. a \in SeatedRows(f[x])
    <2>1. f[x] = MovesUp(before, a, limit)
      <3>1. \A i \in 0..Len(queue) : i # 0 => f[i] = MovesUp(f[i - 1], queue[i], limit)
        BY <1>1 DEF MovesUpTo
      <3>2. x # 0
        OBVIOUS
      <3>3. QED
        BY <1>3, <1>4, <1>7, <3>1, <3>2
    <2>2. before[a].size = table[a].size
      BY <1>2, <1>4, <1>7 DEF Promoted
    <2>3. CASE before[a] = table[a]
      <3>1. f[x][a].status = "seated"
        BY <1>10, <2>1, <2>2, <2>3, MovesUpMeans
      <3>2. QED
        BY <3>1 DEF SeatedRows
    <2>4. CASE before[a] # table[a]
      <3>1. before[a].status = "seated"
        BY <1>2, <1>4, <1>7, <2>4 DEF Promoted
      <3>2. a \in SeatedRows(f[x - 1])
        BY <1>7, <3>1 DEF SeatedRows
      <3>3. SeatedRows(f[x - 1]) \subseteq SeatedRows(f[x])
        <4>1. Promoted(f, table, queue, limit, x) /\ x - 1 \in 0..x
          BY <1>2, <1>3, <1>4
        <4>2. QED
          BY <4>1 DEF Promoted
      <3>4. QED
        BY <3>2, <3>3
    <2>5. QED
      BY <2>3, <2>4
  <1>12. SeatedRows(f[x]) \subseteq SeatedRows(moved)
    BY <1>1, <1>2, <1>4 DEF Promoted
  <1>13. QED
    BY <1>11, <1>12 DEF SeatedRows

-----------------------------------------------------------------------------
\* Rows, queue and expired guests as the type invariant relates them.
RowsTyped(table, queue, over) ==
  /\ table \in [RowKeys -> Row]
  /\ queue \in Seq(RowKeys)
  /\ ListedOnce(queue)
  /\ Listed(queue) = {k \in RowKeys : table[k].status \in {"seated", "waiting"}}
  /\ over \subseteq {g \in Guests : table[g].status = "unconfirmed"}

RestTyped ==
  /\ capacity \in Capacities \cup {NoLimit}
  /\ open \in RegistrationStates
  /\ dueGuests \subseteq Guests
  /\ guardian \in [Wards -> {NotAnswering} \cup [registered: BOOLEAN,
                                                 capacity: Capacities \cup {NoLimit}]]
  /\ promoting \in BOOLEAN

LEMMA TypesSplit ==
  /\ EventSeatsTypeOK <=> RowsTyped(rows, answered, expired) /\ RestTyped
  /\ EventSeatsTypeOK' <=> RowsTyped(rows', answered', expired') /\ RestTyped'
  <1>1. EventSeatsTypeOK <=> RowsTyped(rows, answered, expired) /\ RestTyped
    BY DEF EventSeatsTypeOK, RowsTyped, RestTyped, Listed, ListedOnce
  <1>2. EventSeatsTypeOK' <=> RowsTyped(rows', answered', expired') /\ RestTyped'
    BY DEF EventSeatsTypeOK, RowsTyped, RestTyped, Listed, ListedOnce
  <1>3. QED
    BY <1>1, <1>2

LEMMA KeysAre ==
  /\ Accounts \cup Wards \cup Guests \subseteq RowKeys
  /\ \A w \in Wards : AnswerOf(w) \in RowKeys /\ AnswerOf(w) \notin Registrations
  /\ \A p \in Accounts \cup Wards : p \notin Guests
  /\ Registrations = Accounts \cup Wards \cup Guests
  <1>1. \A w \in Wards : AnswerOf(w) \in RowKeys /\ AnswerOf(w) \notin Registrations
    BY EventSeatsAssumption, Zenon DEF RowKeys
  <1>2. (Accounts \cup Wards) \cap Guests = {}
    BY EventSeatsAssumption, Zenon
  <1>3. QED
    BY <1>1, <1>2 DEF RowKeys, Registrations

\* The waitlist that moves up leaves rows and queue as they belong together.
LEMMA PromoteTyped ==
  ASSUME NEW table, NEW queue, NEW over, RowsTyped(table, queue, over),
         NEW order \in Seq(RowKeys), NEW limit \in Capacities \cup {NoLimit}
  PROVE  RowsTyped(Promote(table, order, limit), queue, over)
  <1>1. PICK moved : moved = Promote(table, order, limit)
    OBVIOUS
  <1>2. /\ moved \in [RowKeys -> Row]
        /\ \A e \in RowKeys :
              moved[e] = table[e] \/ (table[e].status = "waiting" /\ moved[e].status = "seated")
    BY <1>1, PromoteMeans DEF RowsTyped
  <1>3. \A e \in RowKeys : moved[e].status \in {"seated", "waiting"} <=> table[e].status \in {"seated", "waiting"}
    BY <1>2
  <1>4. \A g \in Guests : table[g].status = "unconfirmed" => moved[g].status = "unconfirmed"
    BY <1>2, KeysAre
  <1>5. QED
    BY <1>1, <1>2, <1>3, <1>4 DEF RowsTyped

\* Rows go, and their answers with them.
LEMMA RemovingRows ==
  ASSUME NEW table, NEW queue, NEW over, RowsTyped(table, queue, over),
         NEW gone \in SUBSET RowKeys, NEW keys, keys = RowKeys \ gone,
         NEW left \in [RowKeys -> Row],
         \A e \in gone : left[e] = NoRow, \A e \in RowKeys \ gone : left[e] = table[e]
  PROVE  /\ RowsTyped(left, Only(queue, keys), over \ gone)
         /\ \A a, b \in RowKeys \ gone : Earlier(queue, a, b) => Earlier(Only(queue, keys), a, b)
  <1>1. PICK rest : rest = Only(queue, keys)
    OBVIOUS
  <1>2. /\ rest \in Seq(RowKeys) /\ ListedOnce(rest)
        /\ Listed(rest) = Listed(queue) \cap keys
        /\ \A a, b \in keys : Earlier(queue, a, b) => Earlier(rest, a, b)
    BY <1>1, OnlyKeeps DEF RowsTyped
  <1>3. Listed(rest) = {k \in RowKeys : left[k].status \in {"seated", "waiting"}}
    BY <1>2 DEF RowsTyped, NoRow
  <1>4. over \ gone \subseteq {g \in Guests : left[g].status = "unconfirmed"}
    BY KeysAre DEF RowsTyped
  <1>5. QED
    BY <1>1, <1>2, <1>3, <1>4 DEF RowsTyped

\* An answer comes last.
LEMMA AppendingRow ==
  ASSUME NEW table, NEW queue, NEW over, RowsTyped(table, queue, over),
         NEW p \in RowKeys, p \notin over, table[p].status \notin {"seated", "waiting"},
         NEW row \in Row, row.status \in {"seated", "waiting"},
         NEW with, with = [table EXCEPT ![p] = row]
  PROVE  /\ RowsTyped(with, Append(queue, p), over)
         /\ \A a, b \in RowKeys : Earlier(queue, a, b) => Earlier(Append(queue, p), a, b)
  <1>1. PICK long : long = Append(queue, p)
    OBVIOUS
  <1>2. queue \in Seq(RowKeys)
    BY DEF RowsTyped
  <1>3. /\ long \in Seq(RowKeys) /\ Len(long) = Len(queue) + 1 /\ Len(queue) \in Nat
        /\ long[Len(long)] = p /\ \A i \in 1..Len(queue) : long[i] = queue[i]
        /\ DOMAIN long = 1..Len(long) /\ DOMAIN queue = 1..Len(queue)
    BY <1>1, <1>2
  <1>4. p \notin Listed(queue)
    BY DEF RowsTyped
  <1>5. \A i \in 1..Len(queue) : queue[i] # p
    BY <1>3, <1>4 DEF Listed
  <1>6. ListedOnce(long)
    <2>1. SUFFICES ASSUME NEW i \in 1..Len(long), NEW j \in 1..Len(long), long[i] = long[j]
                   PROVE  i = j
      BY <1>3 DEF ListedOnce
    <2>2. CASE i = Len(long)
      <3>1. j \notin 1..Len(queue)
        BY <1>3, <1>5, <2>1, <2>2
      <3>2. QED
        BY <1>3, <2>2, <3>1
    <2>3. CASE j = Len(long)
      <3>1. i \notin 1..Len(queue)
        BY <1>3, <1>5, <2>1, <2>3
      <3>2. QED
        BY <1>3, <2>3, <3>1
    <2>4. CASE i # Len(long) /\ j # Len(long)
      <3>1. i \in 1..Len(queue) /\ j \in 1..Len(queue)
        BY <1>3, <2>4
      <3>2. queue[i] = queue[j]
        BY <1>3, <2>1, <3>1
      <3>3. ListedOnce(queue)
        BY DEF RowsTyped
      <3>4. QED
        BY <1>3, <3>1, <3>2, <3>3 DEF ListedOnce
    <2>5. QED
      BY <2>2, <2>3, <2>4
  <1>7. Listed(long) = Listed(queue) \cup {p}
    <2>1. ASSUME NEW i \in 1..Len(long)
          PROVE  long[i] \in Listed(queue) \cup {p}
      <3>1. CASE i = Len(long)
        BY <1>3, <3>1
      <3>2. CASE i # Len(long)
        <4>1. i \in 1..Len(queue)
          BY <1>3, <3>2
        <4>2. QED
          BY <1>3, <4>1 DEF Listed
      <3>3. QED
        BY <3>1, <3>2
    <2>2. ASSUME NEW i \in 1..Len(queue)
          PROVE  queue[i] \in Listed(long)
      <3>1. i \in 1..Len(long) /\ long[i] = queue[i]
        BY <1>3
      <3>2. QED
        BY <1>3, <3>1 DEF Listed
    <2>3. p \in Listed(long)
      <3>1. Len(long) \in DOMAIN long
        BY <1>3
      <3>2. QED
        BY <1>3, <3>1 DEF Listed
    <2>4. QED
      BY <1>3, <2>1, <2>2, <2>3 DEF Listed
  <1>8. /\ with \in [RowKeys -> Row] /\ with[p] = row
        /\ \A e \in RowKeys \ {p} : with[e] = table[e]
    BY DEF RowsTyped
  <1>9. Listed(long) = {k \in RowKeys : with[k].status \in {"seated", "waiting"}}
    BY <1>7, <1>8 DEF RowsTyped
  <1>10. over \subseteq {g \in Guests : with[g].status = "unconfirmed"}
    BY <1>8, KeysAre DEF RowsTyped
  <1>11. ASSUME NEW a \in RowKeys, NEW b \in RowKeys, Earlier(queue, a, b)
         PROVE  Earlier(long, a, b)
    <2>1. PICK i \in 1..Len(queue), j \in 1..Len(queue) : i < j /\ queue[i] = a /\ queue[j] = b
      BY <1>3, <1>11 DEF Earlier
    <2>2. i \in 1..Len(long) /\ j \in 1..Len(long) /\ long[i] = a /\ long[j] = b
      BY <1>3, <2>1
    <2>3. QED
      BY <1>3, <2>1, <2>2 DEF Earlier
  <1>12. QED
    BY <1>1, <1>3, <1>6, <1>8, <1>9, <1>10, <1>11 DEF RowsTyped

\* An answer changes and keeps its place.
LEMMA ChangingRow ==
  ASSUME NEW table, NEW queue, NEW over, RowsTyped(table, queue, over),
         NEW p \in RowKeys, NEW row \in Row,
         row.status \in {"seated", "waiting"}, table[p].status \in {"seated", "waiting"},
         NEW with, with = [table EXCEPT ![p] = row]
  PROVE  RowsTyped(with, queue, over)
  <1>1. /\ with \in [RowKeys -> Row] /\ with[p] = row
        /\ \A e \in RowKeys \ {p} : with[e] = table[e]
    BY DEF RowsTyped
  <1>2. over \subseteq {g \in Guests : with[g].status = "unconfirmed"}
    BY <1>1, KeysAre DEF RowsTyped
  <1>3. Listed(queue) = {k \in RowKeys : with[k].status \in {"seated", "waiting"}}
    BY <1>1 DEF RowsTyped
  <1>4. QED
    BY <1>1, <1>2, <1>3 DEF RowsTyped

-----------------------------------------------------------------------------
\* Who may move up past others.
Served(b) ==
  \/ \E force \in BOOLEAN : Seats(b, force)
  \/ \E n \in Sizes : Register(b, n)
  \/ \E w \in Wards : guardian[w] # NotAnswering /\ guardian'[w] = NotAnswering

\* The rows a step writes itself, and then the waitlist moves up or does not.
MovedFrom(table, order, limit) ==
  rows' = table \/ rows' = Promote(table, order, limit)

LEMMA MovedFromMeans ==
  ASSUME NEW table \in [RowKeys -> Row], NEW order \in Seq(RowKeys),
         NEW limit \in Capacities \cup {NoLimit}, MovedFrom(table, order, limit)
  PROVE  /\ rows' \in [RowKeys -> Row]
         /\ \A e \in RowKeys :
              /\ rows'[e].size = table[e].size
              /\ \/ rows'[e] = table[e]
                 \/ table[e].status = "waiting" /\ rows'[e].status = "seated"
         /\ rows' = table \/ Fits(limit, Occupied(rows'), 0)
  <1>1. CASE rows' = table
    BY <1>1
  <1>2. CASE rows' = Promote(table, order, limit)
    BY <1>2, PromoteMeans
  <1>3. QED
    BY <1>1, <1>2 DEF MovedFrom

\* Nobody sits down without room, if the step itself seats nobody without room.
LEMMA RoomIsRespected ==
  ASSUME NEW table \in [RowKeys -> Row], NEW order \in Seq(RowKeys),
         NEW limit \in Capacities \cup {NoLimit}, MovedFrom(table, order, limit),
         limit = capacity' \/ StaleAnswer \/ rows' = table,
         \A k \in RowKeys : rows[k].status # "seated" /\ table[k].status = "seated"
                              => Fits(capacity', Occupied(table), 0) \/ Forced \/ StaleAnswer
  PROVE  SeatsRespected
  <1>1. SUFFICES ASSUME ~Fits(capacity', Occupied(rows'), 0), ~(Forced \/ StaleAnswer),
                        NEW k \in RowKeys, rows[k].status # "seated", rows'[k].status = "seated"
                 PROVE  FALSE
    BY DEF SeatsRespected, Overbooks
  <1>2. rows' = table
    BY <1>1, MovedFromMeans
  <1>3. Fits(capacity', Occupied(table), 0)
    BY <1>1, <1>2
  <1>4. QED
    BY <1>1, <1>2, <1>3

\* Nobody is passed, if the step itself seats nobody but who asks.
LEMMA OrderIsKept ==
  ASSUME rows \in [RowKeys -> Row], answered \in Seq(RowKeys),
         NEW table \in [RowKeys -> Row], NEW order \in Seq(RowKeys),
         NEW limit \in Capacities \cup {NoLimit}, MovedFrom(table, order, limit),
         rows' # table => ListedOnce(order),
         rows' # table =>
           \A a, b \in RowKeys : /\ Earlier(answered, a, b)
                                 /\ rows[a].status = "waiting" /\ table[a] = rows[a]
                                 /\ rows[b].status = "waiting" /\ table[b] = rows[b]
             => Earlier(order, a, b),
         \A b \in RowKeys : rows[b].status = "waiting" /\ table[b] # rows[b]
                              /\ rows'[b].status = "seated" => Served(b)
  PROVE  FirstComeFirstServed
  <1>1. SUFFICES ASSUME NEW i \in DOMAIN answered, NEW j \in DOMAIN answered, i < j,
                        rows[answered[i]].status = "waiting", rows[answered[j]].status = "waiting",
                        rows[answered[i]].size <= rows[answered[j]].size,
                        rows'[answered[j]] = [rows[answered[j]] EXCEPT !.status = "seated"],
                        rows'[answered[i]] = rows[answered[i]], ~Served(answered[j])
                 PROVE  FALSE
    BY DEF FirstComeFirstServed, Served
  <1>2. PICK a \in RowKeys, b \in RowKeys : a = answered[i] /\ b = answered[j]
    OBVIOUS
  <1>3. Earlier(answered, a, b)
    BY <1>1, <1>2 DEF Earlier
  <1>4. rows'[b].status = "seated"
    <2>1. rows[b] \in [status: {"seated", "waiting", "unconfirmed"}, size: Sizes \cup {1}]
      BY <1>1, <1>2, RowTypes
    <2>2. rows'[b] = [rows[b] EXCEPT !.status = "seated"]
      BY <1>1, <1>2
    <2>3. QED
      BY <2>1, <2>2
  <1>5. table[b] = rows[b]
    BY <1>1, <1>2, <1>4
  <1>6. rows' # table
    BY <1>1, <1>2, <1>4, <1>5
  <1>7. table[a] = rows[a]
    BY <1>1, <1>2, MovedFromMeans
  <1>8. Earlier(order, a, b) /\ ListedOnce(order)
    BY <1>1, <1>2, <1>3, <1>5, <1>6, <1>7
  <1>9. rows' = Promote(table, order, limit)
    BY <1>6 DEF MovedFrom
  <1>10. table[a].status = "waiting" /\ table[b].status = "waiting" /\ table[a].size <= table[b].size
    BY <1>1, <1>2, <1>5, <1>7
  <1>11. rows'[a].status = "seated"
    BY <1>4, <1>8, <1>9, <1>10, PromotesInOrder
  <1>12. QED
    BY <1>1, <1>2, <1>11

\* Nobody loses a seat, if the step itself takes none.
LEMMA SeatsStay ==
  ASSUME NEW table \in [RowKeys -> Row], NEW order \in Seq(RowKeys),
         NEW limit \in Capacities \cup {NoLimit}, MovedFrom(table, order, limit),
         \A k \in RowKeys : rows[k].status = "seated" /\ table[k].status = "waiting"
           => Unseats(k) \/ \E w \in Wards : k = AnswerOf(w)
  PROVE  RegistrantsKeepSeats
  <1>1. \A k \in RowKeys : rows'[k].status = "waiting" => table[k].status = "waiting"
    BY MovedFromMeans
  <1>2. QED
    BY <1>1 DEF RegistrantsKeepSeats

SeatStep == SeatsRespected /\ FirstComeFirstServed /\ RegistrantsKeepSeats

\* Steps in which nobody sits down and nobody is sent back.
LEMMA QuietStep ==
  ASSUME EventSeatsTypeOK, rows' \in [RowKeys -> Row],
         \A k \in RowKeys : rows[k].status = "seated" /\ rows'[k].status = "waiting" => Unseats(k),
         \A k \in RowKeys : rows'[k].status = "seated" => rows[k].status = "seated"
  PROVE  SeatStep
  <1>1. SeatsRespected
    BY DEF SeatsRespected, Overbooks
  <1>2. RegistrantsKeepSeats
    BY DEF RegistrantsKeepSeats
  <1>3. FirstComeFirstServed
    <2>1. SUFFICES ASSUME NEW i \in DOMAIN answered, NEW j \in DOMAIN answered,
                          rows[answered[j]].status = "waiting",
                          rows'[answered[j]] = [rows[answered[j]] EXCEPT !.status = "seated"]
                   PROVE  FALSE
      BY DEF FirstComeFirstServed
    <2>2. answered[j] \in RowKeys /\ rows[answered[j]] \in Row
      BY DEF EventSeatsTypeOK
    <2>3. rows[answered[j]] \in [status: {"seated", "waiting", "unconfirmed"}, size: Sizes \cup {1}]
      BY <2>1, <2>2, RowTypes
    <2>4. rows'[answered[j]].status = "seated"
      BY <2>1, <2>3
    <2>5. QED
      BY <2>1, <2>2, <2>4
  <1>4. QED
    BY <1>1, <1>2, <1>3 DEF SeatStep

\* Steps that do not touch the rows.
LEMMA RowsRest ==
  ASSUME EventSeatsTypeOK, UNCHANGED rows
  PROVE  SeatStep
  <1>1. rows' \in [RowKeys -> Row]
    BY DEF EventSeatsTypeOK
  <1>2. QED
    BY <1>1, QuietStep

\* The row goes, and if it had a seat the waitlist moves up.
LEMMA RemovesRow ==
  ASSUME EventSeatsTypeOK, NEW k \in RowKeys, Removes(k, capacity), UNCHANGED capacity
  PROVE  RowsTyped(rows', answered', expired') /\ SeatStep /\ dueGuests' \subseteq Guests
  <1>1. RowsTyped(rows, answered, expired) /\ RestTyped
    BY TypesSplit
  <1>2. PICK table : table = [rows EXCEPT ![k] = NoRow]
    OBVIOUS
  <1>3. /\ table \in [RowKeys -> Row] /\ table[k] = NoRow
        /\ \A e \in RowKeys \ {k} : table[e] = rows[e]
    BY <1>1, <1>2 DEF RowsTyped, Row
  <1>4. PICK order : order = Without(k)
    OBVIOUS
  <1>5. order = Only(answered, RowKeys \ {k})
    BY <1>4 DEF Without
  <1>6. /\ RowsTyped(table, order, expired \ {k})
        /\ \A a, b \in RowKeys \ {k} : Earlier(answered, a, b) => Earlier(order, a, b)
    <2>1. \A e \in {k} : table[e] = NoRow
      BY <1>3
    <2>2. {k} \in SUBSET RowKeys
      OBVIOUS
    <2>3. QED
      BY <1>1, <1>3, <1>5, <2>1, <2>2, RemovingRows
  <1>7. order \in Seq(RowKeys) /\ ListedOnce(order)
    BY <1>6 DEF RowsTyped
  <1>8. capacity \in Capacities \cup {NoLimit}
    BY <1>1 DEF RestTyped
  <1>9. /\ answered' = order /\ expired' = expired \ {k} /\ dueGuests' = dueGuests \ {k}
        /\ MovedFrom(table, order, capacity)
    BY <1>2, <1>4 DEF Removes, MovedFrom
  <1>10. RowsTyped(rows', answered', expired')
    <2>1. CASE rows' = table
      BY <1>6, <1>9, <2>1
    <2>2. CASE rows' = Promote(table, order, capacity)
      <3>1. RowsTyped(Promote(table, order, capacity), order, expired \ {k})
        BY <1>6, <1>7, <1>8, PromoteTyped
      <3>2. QED
        BY <1>9, <2>2, <3>1
    <2>3. QED
      BY <1>9, <2>1, <2>2 DEF MovedFrom
  <1>11. dueGuests' \subseteq Guests
    BY <1>1, <1>9 DEF RestTyped
  <1>12. SeatsRespected
    <2>1. \A e \in RowKeys : table[e].status = "seated" => rows[e].status = "seated"
      BY <1>3 DEF NoRow
    <2>2. QED
      BY <1>3, <1>7, <1>8, <1>9, <2>1, RoomIsRespected
  <1>13. FirstComeFirstServed
    <2>1. ASSUME NEW a \in RowKeys, NEW b \in RowKeys, Earlier(answered, a, b),
                 rows[a].status = "waiting", table[a] = rows[a],
                 rows[b].status = "waiting", table[b] = rows[b]
          PROVE  Earlier(order, a, b)
      BY <1>3, <1>6, <2>1 DEF NoRow
    <2>2. ASSUME NEW b \in RowKeys, rows'[b].status = "seated", table[b] # rows[b]
          PROVE  FALSE
      <3>1. b = k /\ table[b].status = "none"
        BY <1>3, <2>2 DEF NoRow
      <3>2. QED
        BY <1>3, <1>7, <1>8, <1>9, <2>2, <3>1, MovedFromMeans
    <2>3. rows \in [RowKeys -> Row] /\ answered \in Seq(RowKeys)
      BY <1>1 DEF RowsTyped
    <2>4. QED
      BY <1>3, <1>7, <1>8, <1>9, <2>1, <2>2, <2>3, OrderIsKept
  <1>14. RegistrantsKeepSeats
    <2>1. \A e \in RowKeys : rows[e].status = "seated" => table[e].status # "waiting"
      BY <1>3 DEF NoRow
    <2>2. QED
      BY <1>3, <1>7, <1>8, <1>9, <2>1, SeatsStay
  <1>15. QED
    BY <1>10, <1>11, <1>12, <1>13, <1>14 DEF SeatStep

LEMMA RemovesKeeps ==
  ASSUME EventSeatsTypeOK, NEW k \in RowKeys, Removes(k, capacity),
         UNCHANGED <<capacity, open, guardian, promoting>>
  PROVE  EventSeatsTypeOK' /\ SeatStep
  <1>1. RowsTyped(rows', answered', expired') /\ SeatStep /\ dueGuests' \subseteq Guests
    BY RemovesRow
  <1>2. RestTyped'
    BY <1>1, TypesSplit DEF RestTyped
  <1>3. QED
    BY <1>1, <1>2, TypesSplit

-----------------------------------------------------------------------------
\* A registration is written: anew at the end of the queue, or where it waits.
LEMMA SaveKeeps ==
  ASSUME EventSeatsTypeOK, NEW p \in Accounts \cup Wards, NEW size \in Sizes \cup {1},
         Save(p, size), Served(p), UNCHANGED <<capacity, expired>>
  PROVE  RowsTyped(rows', answered', expired') /\ SeatStep
  <1>1. RowsTyped(rows, answered, expired) /\ RestTyped
    BY TypesSplit
  <1>2. /\ p \in RowKeys /\ p \notin Guests
        /\ p \in Wards => AnswerOf(p) \in RowKeys /\ AnswerOf(p) # p /\ AnswerOf(p) \notin Guests
    BY KeysAre
  <1>3. PICK legacy \in RowKeys : legacy = IF p \in Wards THEN AnswerOf(p) ELSE p
    BY <1>2
  <1>4. /\ p \in Wards => legacy = AnswerOf(p) /\ legacy # p
        /\ p \notin Wards => legacy = p
        /\ legacy \notin Guests
    BY <1>2, <1>3
  <1>5. PICK table : table = IF p \in Wards THEN [rows EXCEPT ![legacy] = NoRow] ELSE rows
    OBVIOUS
  <1>6. /\ table \in [RowKeys -> Row]
        /\ p \in Wards => table[legacy] = NoRow
        /\ \A e \in RowKeys : e # legacy \/ p \notin Wards => table[e] = rows[e]
    <2>1. rows \in [RowKeys -> Row] /\ NoRow \in Row
      BY <1>1 DEF RowsTyped, Row
    <2>2. QED
      BY <1>5, <2>1
  <1>7. table[p] = rows[p]
    BY <1>2, <1>4, <1>6
  <1>8. PICK status : status = IF Fits(capacity, Taken(table, p), size) THEN "seated" ELSE "waiting"
    OBVIOUS
  <1>9. PICK row : row = [status |-> status, size |-> size]
    OBVIOUS
  <1>10. row \in Row /\ row.status = status /\ row.size = size /\ status \in {"seated", "waiting"}
    BY <1>8, <1>9 DEF Row
  <1>11. PICK keeps \in BOOLEAN : keeps <=> rows[p].status = "waiting" /\ status = "waiting"
    OBVIOUS
  <1>12. PICK queue : queue = Only(answered, {e \in RowKeys : (keeps \/ e # p) /\ (p \notin Wards \/ e # legacy)})
    OBVIOUS
  <1>13. PICK now : now = IF keeps THEN queue ELSE Append(queue, p)
    OBVIOUS
  <1>14. PICK saved : saved = [table EXCEPT ![p] = row]
    OBVIOUS
  <1>15. /\ saved \in [RowKeys -> Row] /\ saved[p] = row
         /\ \A e \in RowKeys \ {p} : saved[e] = table[e]
    BY <1>2, <1>6, <1>10, <1>14
  <1>16. capacity \in Capacities \cup {NoLimit} /\ capacity' = capacity
    BY <1>1 DEF RestTyped
  <1>17. /\ answered' = now /\ expired' = expired
         /\ MovedFrom(saved, now, capacity)
         /\ ~(rows[p].status = "seated" /\ status = "waiting")
    <2>1. /\ answered' = now
          /\ ~Refuses(rows[p].status = "seated" \/ (p \in Wards /\ rows[legacy].status = "seated"), status)
          /\ rows' = saved \/ rows' = Promote(saved, now, capacity)
      BY <1>3, <1>5, <1>8, <1>9, <1>11, <1>12, <1>13, <1>14, Zenon DEF Save
    <2>2. QED
      BY <2>1 DEF MovedFrom, Refuses
  <1>18. p \notin expired /\ legacy \notin expired
    BY <1>1, <1>2, <1>4 DEF RowsTyped
  <1>19. /\ RowsTyped(saved, now, expired)
         /\ \A a, b \in RowKeys :
              /\ Earlier(answered, a, b)
              /\ rows[a].status = "waiting" /\ saved[a] = rows[a]
              /\ rows[b].status = "waiting" /\ saved[b] = rows[b]
              => Earlier(now, a, b)
    <2>1. PICK gone \in SUBSET RowKeys : gone = (IF keeps THEN {} ELSE {p}) \cup (IF p \in Wards THEN {legacy} ELSE {})
      BY <1>2
    <2>2. {e \in RowKeys : (keeps \/ e # p) /\ (p \notin Wards \/ e # legacy)} = RowKeys \ gone
      BY <2>1
    <2>3. PICK left : left = [e \in RowKeys |-> IF e \in gone THEN NoRow ELSE rows[e]]
      OBVIOUS
    <2>4. left \in [RowKeys -> Row]
      BY <1>1, <2>3 DEF RowsTyped, Row
    <2>5. /\ \A e \in gone : left[e] = NoRow
          /\ \A e \in RowKeys \ gone : left[e] = rows[e]
      BY <2>3
    <2>6. queue = Only(answered, RowKeys \ gone)
      BY <1>12, <2>2, Zenon
    <2>7. expired \ gone = expired
      BY <1>18, <2>1
    <2>8. /\ RowsTyped(left, queue, expired)
          /\ \A a, b \in RowKeys \ gone : Earlier(answered, a, b) => Earlier(queue, a, b)
      <3>1. /\ RowsTyped(left, Only(answered, RowKeys \ gone), expired \ gone)
            /\ \A a, b \in RowKeys \ gone : Earlier(answered, a, b) => Earlier(Only(answered, RowKeys \ gone), a, b)
        BY <1>1, <2>4, <2>5, RemovingRows
      <3>2. QED
        BY <2>6, <2>7, <3>1, Zenon
    <2>9. saved = [left EXCEPT ![p] = row]
      <3>1. left \in [RowKeys -> Row] /\ saved \in [RowKeys -> Row]
        BY <1>15, <2>4
      <3>2. \A e \in RowKeys \ {p} : saved[e] = left[e]
        BY <1>4, <1>6, <1>15, <2>1, <2>5
      <3>3. QED
        BY <1>2, <1>15, <3>1, <3>2
    <2>10. ASSUME NEW e \in RowKeys, rows[e].status = "waiting", saved[e] = rows[e]
           PROVE  e \notin gone
      <3>1. CASE e = p
        <4>1. status = "waiting"
          BY <1>10, <1>15, <2>10, <3>1
        <4>2. keeps
          BY <1>11, <2>10, <3>1, <4>1
        <4>3. QED
          BY <1>4, <2>1, <3>1, <4>2
      <3>2. CASE e # p
        <4>1. saved[e] = left[e]
          BY <1>2, <1>15, <2>9, <3>2, <2>4
        <4>2. QED
          BY <2>5, <2>10, <4>1 DEF NoRow
      <3>3. QED
        BY <3>1, <3>2
    <2>11. CASE keeps
      <3>1. left[p].status = "waiting"
        BY <1>2, <1>4, <1>11, <2>1, <2>5, <2>11
      <3>2. RowsTyped(saved, queue, expired)
        BY <1>2, <1>10, <2>8, <2>9, <3>1, ChangingRow
      <3>3. QED
        BY <1>13, <2>8, <2>10, <2>11, <3>2
    <2>12. CASE ~keeps
      <3>1. left[p].status \notin {"seated", "waiting"}
        BY <2>1, <2>5, <2>12 DEF NoRow
      <3>2. /\ RowsTyped(saved, Append(queue, p), expired)
            /\ \A a, b \in RowKeys : Earlier(queue, a, b) => Earlier(Append(queue, p), a, b)
        BY <1>2, <1>10, <1>18, <2>8, <2>9, <3>1, AppendingRow
      <3>3. QED
        BY <1>13, <2>8, <2>10, <2>12, <3>2
    <2>13. QED
      BY <2>11, <2>12
  <1>20. now \in Seq(RowKeys) /\ ListedOnce(now)
    BY <1>19 DEF RowsTyped
  <1>21. RowsTyped(rows', answered', expired')
    <2>1. CASE rows' = saved
      BY <1>17, <1>19, <2>1
    <2>2. CASE rows' = Promote(saved, now, capacity)
      <3>1. RowsTyped(Promote(saved, now, capacity), now, expired)
        BY <1>16, <1>19, <1>20, PromoteTyped
      <3>2. QED
        BY <1>17, <2>2, <3>1
    <2>3. QED
      BY <1>17, <2>1, <2>2 DEF MovedFrom
  <1>22. SeatsRespected
    <2>1. ASSUME NEW k \in RowKeys, rows[k].status # "seated", saved[k].status = "seated"
          PROVE  Fits(capacity, Occupied(saved), 0)
      <3>1. k = p
        BY <1>6, <1>15, <2>1 DEF NoRow
      <3>2. status = "seated"
        BY <1>10, <1>15, <2>1, <3>1
      <3>3. Fits(capacity, Taken(table, p), saved[p].size)
        BY <1>8, <1>10, <1>15, <3>2
      <3>4. QED
        BY <1>2, <1>6, <1>10, <1>15, <1>16, <3>2, <3>3, FitsBeside
    <2>2. QED
      BY <1>15, <1>16, <1>17, <1>20, <2>1, RoomIsRespected
  <1>23. FirstComeFirstServed
    <2>1. ASSUME NEW b \in RowKeys, rows[b].status = "waiting", saved[b] # rows[b], rows'[b].status = "seated"
          PROVE  Served(b)
      <3>1. CASE b = p
        BY <3>1
      <3>2. CASE b # p
        <4>1. saved[b] = NoRow
          BY <1>6, <1>15, <2>1, <3>2
        <4>2. rows'[b] = NoRow
          BY <1>15, <1>16, <1>17, <1>20, <4>1, MovedFromMeans DEF NoRow
        <4>3. QED
          BY <2>1, <4>2 DEF NoRow
      <3>3. QED
        BY <3>1, <3>2
    <2>2. rows \in [RowKeys -> Row] /\ answered \in Seq(RowKeys)
      BY <1>1 DEF RowsTyped
    <2>3. QED
      BY <1>15, <1>16, <1>17, <1>19, <1>20, <2>1, <2>2, OrderIsKept
  <1>24. RegistrantsKeepSeats
    <2>1. \A e \in RowKeys : rows[e].status = "seated" => saved[e].status # "waiting"
      BY <1>6, <1>10, <1>15, <1>17 DEF NoRow
    <2>2. QED
      BY <1>15, <1>16, <1>17, <1>20, <2>1, SeatsStay
  <1>25. QED
    BY <1>21, <1>22, <1>23, <1>24 DEF SeatStep

-----------------------------------------------------------------------------
LEMMA RegisterKeeps ==
  ASSUME EventSeatsTypeOK, NEW p \in Accounts \cup Wards, NEW size \in Sizes, Register(p, size)
  PROVE  EventSeatsTypeOK' /\ SeatStep
  <1>1. Served(p)
    BY DEF Served
  <1>2. Save(p, size) /\ UNCHANGED <<capacity, open, expired, dueGuests, guardian, promoting>>
    BY DEF Register
  <1>3. RowsTyped(rows', answered', expired') /\ SeatStep
    BY <1>1, <1>2, SaveKeeps
  <1>4. RestTyped'
    BY <1>2, TypesSplit DEF RestTyped
  <1>5. QED
    BY <1>3, <1>4, TypesSplit

LEMMA CancelRegistrationKeeps ==
  ASSUME EventSeatsTypeOK, NEW p \in Accounts \cup Wards, CancelRegistration(p)
  PROVE  EventSeatsTypeOK' /\ SeatStep
  <1>1. \E k \in RowKeys : Removes(k, capacity)
    BY KeysAre DEF CancelRegistration
  <1>2. UNCHANGED <<capacity, open, guardian, promoting>>
    BY DEF CancelRegistration
  <1>3. QED
    BY <1>1, <1>2, RemovesKeeps

LEMMA GuardianReadsKeeps ==
  ASSUME EventSeatsTypeOK, NEW w \in Wards, GuardianReads(w)
  PROVE  EventSeatsTypeOK' /\ SeatStep
  <1>1. RowsTyped(rows, answered, expired) /\ RestTyped
    BY TypesSplit
  <1>2. PICK b \in BOOLEAN : b = (rows[w] # NoRow)
    OBVIOUS
  <1>3. guardian' = [guardian EXCEPT ![w] = [registered |-> b, capacity |-> capacity]]
    BY <1>2 DEF GuardianReads
  <1>4. UNCHANGED <<capacity, open, rows, answered, expired, dueGuests, promoting>>
    BY DEF GuardianReads
  <1>5. RestTyped'
    BY <1>1, <1>3, <1>4 DEF RestTyped
  <1>6. EventSeatsTypeOK'
    BY <1>1, <1>4, <1>5, TypesSplit
  <1>7. QED
    BY <1>4, <1>6, RowsRest

\* The answer of a guardian for a ward without registration.
LEMMA GuardianWrites ==
  ASSUME EventSeatsTypeOK, NEW w \in Wards, NEW comes \in BOOLEAN, GuardianAnswers(w, comes),
         ~guardian[w].registered
  PROVE  RowsTyped(rows', answered', expired') /\ SeatStep /\ UNCHANGED dueGuests
  <1>1. RowsTyped(rows, answered, expired) /\ RestTyped
    BY TypesSplit
  <1>2. PICK key \in RowKeys : key = AnswerOf(w)
    BY KeysAre
  <1>3. key \notin Guests
    BY <1>2, KeysAre
  <1>4. PICK limit \in Capacities \cup {NoLimit} : limit = guardian[w].capacity
    <2>1. guardian[w] \in [registered: BOOLEAN, capacity: Capacities \cup {NoLimit}]
      BY <1>1 DEF GuardianAnswers, RestTyped
    <2>2. QED
      BY <2>1
  <1>5. PICK status : status = IF ~comes THEN "none"
                               ELSE IF Fits(limit, Taken(rows, key), 1) THEN "seated" ELSE "waiting"
    OBVIOUS
  <1>6. PICK row : row = IF comes THEN [status |-> status, size |-> 1] ELSE NoRow
    OBVIOUS
  <1>7. /\ row \in Row
        /\ comes => row.status = status /\ status \in {"seated", "waiting"} /\ row.size = 1
        /\ ~comes => row = NoRow
    BY <1>5, <1>6 DEF Row
  <1>8. PICK table : table = [rows EXCEPT ![key] = row]
    OBVIOUS
  <1>9. /\ table \in [RowKeys -> Row] /\ table[key] = row
        /\ \A e \in RowKeys \ {key} : table[e] = rows[e]
    BY <1>1, <1>7, <1>8 DEF RowsTyped
  <1>10. PICK now : now = IF comes THEN Append(Without(key), key) ELSE Without(key)
    OBVIOUS
  <1>11. /\ answered' = now /\ UNCHANGED <<expired, dueGuests, capacity>>
         /\ guardian[w] # NotAnswering /\ guardian' = [guardian EXCEPT ![w] = NotAnswering]
         /\ MovedFrom(table, now, limit)
    <2>1. /\ answered' = now /\ UNCHANGED <<expired, dueGuests, capacity>>
          /\ guardian[w] # NotAnswering /\ guardian' = [guardian EXCEPT ![w] = NotAnswering]
          /\ rows' = table \/ rows' = Promote(table, now, limit)
      BY <1>2, <1>4, <1>5, <1>6, <1>8, <1>10, Zenon DEF GuardianAnswers
    <2>2. QED
      BY <2>1 DEF MovedFrom
  <1>12. key \notin expired
    BY <1>1, <1>3 DEF RowsTyped
  <1>13. RowsTyped(table, now, expired)
    <2>1. PICK left : left = [rows EXCEPT ![key] = NoRow]
      OBVIOUS
    <2>2. /\ left \in [RowKeys -> Row] /\ left[key] = NoRow
          /\ \A e \in RowKeys \ {key} : left[e] = rows[e]
      BY <1>1, <2>1 DEF RowsTyped, Row
    <2>3. Without(key) = Only(answered, RowKeys \ {key})
      BY DEF Without
    <2>4. expired \ {key} = expired
      BY <1>12
    <2>5. RowsTyped(left, Without(key), expired)
      <3>1. \A e \in {key} : left[e] = NoRow
        BY <2>2
      <3>2. {key} \in SUBSET RowKeys
        OBVIOUS
      <3>3. RowsTyped(left, Only(answered, RowKeys \ {key}), expired \ {key})
        BY <1>1, <2>2, <3>1, <3>2, RemovingRows
      <3>4. QED
        BY <2>3, <2>4, <3>3, Zenon
    <2>6. CASE comes
      <3>1. table = [left EXCEPT ![key] = row]
        BY <1>9, <2>2
      <3>2. left[key].status \notin {"seated", "waiting"}
        BY <2>2 DEF NoRow
      <3>3. RowsTyped(table, Append(Without(key), key), expired)
        BY <1>7, <1>12, <2>5, <2>6, <3>1, <3>2, AppendingRow
      <3>4. QED
        BY <1>10, <2>6, <3>3
    <2>7. CASE ~comes
      <3>1. table = left
        BY <1>7, <1>8, <2>1, <2>7
      <3>2. QED
        BY <1>10, <2>5, <2>7, <3>1
    <2>8. QED
      BY <2>6, <2>7
  <1>14. now \in Seq(RowKeys)
    BY <1>13 DEF RowsTyped
  <1>15. RowsTyped(rows', answered', expired')
    <2>1. CASE rows' = table
      BY <1>11, <1>13, <2>1
    <2>2. CASE rows' = Promote(table, now, limit)
      <3>1. RowsTyped(Promote(table, now, limit), now, expired)
        BY <1>13, <1>14, PromoteTyped
      <3>2. QED
        BY <1>11, <2>2, <3>1
    <2>3. QED
      BY <1>11, <2>1, <2>2 DEF MovedFrom
  <1>16. guardian'[w] = NotAnswering
    BY <1>1, <1>11 DEF RestTyped
  <1>17. limit = capacity' \/ StaleAnswer
    BY <1>4, <1>11, <1>16 DEF StaleAnswer
  <1>18. SeatsRespected
    <2>1. ASSUME NEW k \in RowKeys, rows[k].status # "seated", table[k].status = "seated"
          PROVE  Fits(limit, Occupied(table), 0)
      <3>1. k = key
        BY <1>9, <2>1
      <3>2. comes /\ status = "seated"
        BY <1>7, <1>9, <2>1, <3>1 DEF NoRow
      <3>3. Fits(limit, Taken(rows, key), table[key].size) /\ table[key].status = "seated"
        BY <1>5, <1>7, <1>9, <3>2
      <3>4. rows \in [RowKeys -> Row]
        BY <1>1 DEF RowsTyped
      <3>5. QED
        BY <1>9, <3>3, <3>4, FitsBeside
    <2>2. \A k \in RowKeys : rows[k].status # "seated" /\ table[k].status = "seated"
            => Fits(capacity', Occupied(table), 0) \/ StaleAnswer
      BY <1>17, <2>1
    <2>3. QED
      BY <1>9, <1>11, <1>14, <1>17, <2>2, RoomIsRespected
  <1>19. FirstComeFirstServed
    BY <1>11, <1>16 DEF FirstComeFirstServed
  <1>20. RegistrantsKeepSeats
    <2>1. ASSUME NEW k \in RowKeys, rows[k].status = "seated", table[k].status = "waiting"
          PROVE  \E v \in Wards : k = AnswerOf(v)
      BY <1>2, <1>9, <2>1
    <2>2. QED
      BY <1>9, <1>11, <1>14, <2>1, SeatsStay
  <1>21. QED
    BY <1>11, <1>15, <1>18, <1>19, <1>20 DEF SeatStep

LEMMA GuardianAnswersKeeps ==
  ASSUME EventSeatsTypeOK, NEW w \in Wards, NEW comes \in BOOLEAN, GuardianAnswers(w, comes)
  PROVE  EventSeatsTypeOK' /\ SeatStep
  <1>1. RowsTyped(rows, answered, expired) /\ RestTyped
    BY TypesSplit
  <1>2. /\ guardian[w] # NotAnswering /\ guardian' = [guardian EXCEPT ![w] = NotAnswering]
        /\ UNCHANGED <<capacity, open, promoting>>
    BY DEF GuardianAnswers
  <1>3. /\ guardian'[w] = NotAnswering
        /\ guardian' \in [Wards -> {NotAnswering} \cup [registered: BOOLEAN,
                                                        capacity: Capacities \cup {NoLimit}]]
    BY <1>1, <1>2 DEF RestTyped
  <1>4. ASSUME dueGuests' \subseteq Guests, RowsTyped(rows', answered', expired')
        PROVE  EventSeatsTypeOK'
    <2>1. RestTyped'
      BY <1>1, <1>2, <1>3, <1>4 DEF RestTyped
    <2>2. QED
      BY <1>4, <2>1, TypesSplit
  <1>5. dueGuests \subseteq Guests
    BY <1>1 DEF RestTyped
  <1>6. CASE ~guardian[w].registered
    BY <1>4, <1>5, <1>6, GuardianWrites
  <1>7. CASE guardian[w].registered /\ UNCHANGED <<rows, answered, expired, dueGuests>>
    <2>1. RowsTyped(rows', answered', expired')
      BY <1>1, <1>7
    <2>2. QED
      BY <1>4, <1>5, <1>7, <2>1, RowsRest
  <1>8. CASE guardian[w].registered /\ comes /\ ~UNCHANGED <<rows, answered, expired, dueGuests>>
    <2>1. PICK size : size = IF rows[w] = NoRow THEN 1 ELSE rows[w].size
      OBVIOUS
    <2>2. Save(w, size) /\ UNCHANGED <<expired, dueGuests>>
      BY <1>8, <2>1 DEF GuardianAnswers
    <2>3. size \in Sizes \cup {1}
      <3>1. w \in RowKeys
        BY KeysAre
      <3>2. rows[w] \in Row
        BY <1>1, <3>1 DEF RowsTyped
      <3>3. CASE rows[w] = NoRow
        BY <2>1, <3>3
      <3>4. CASE rows[w] # NoRow
        <4>1. rows[w] \in [status: {"seated", "waiting", "unconfirmed"}, size: Sizes \cup {1}]
          BY <3>2, <3>4 DEF Row
        <4>2. QED
          BY <2>1, <3>4, <4>1
      <3>5. QED
        BY <3>3, <3>4
    <2>4. Served(w)
      BY <1>2, <1>3 DEF Served
    <2>5. RowsTyped(rows', answered', expired') /\ SeatStep
      BY <1>2, <2>2, <2>3, <2>4, SaveKeeps
    <2>6. QED
      BY <1>4, <1>5, <2>2, <2>5
  <1>9. CASE guardian[w].registered /\ ~comes /\ ~UNCHANGED <<rows, answered, expired, dueGuests>>
    <2>1. Removes(w, capacity) /\ w \in RowKeys
      BY <1>9, KeysAre DEF GuardianAnswers
    <2>2. RowsTyped(rows', answered', expired') /\ SeatStep /\ dueGuests' \subseteq Guests
      BY <1>2, <2>1, RemovesRow
    <2>3. QED
      BY <1>4, <2>2
  <1>10. QED
    BY <1>6, <1>7, <1>8, <1>9

-----------------------------------------------------------------------------
LEMMA GuestRegistersKeeps ==
  ASSUME EventSeatsTypeOK, NEW g \in Guests, NEW size \in Sizes, GuestRegisters(g, size)
  PROVE  EventSeatsTypeOK' /\ SeatStep
  <1>1. RowsTyped(rows, answered, expired) /\ RestTyped /\ g \in RowKeys
    BY TypesSplit, KeysAre
  <1>2. PICK row : row = [status |-> "unconfirmed", size |-> size]
    OBVIOUS
  <1>3. row \in Row /\ row.status = "unconfirmed"
    BY <1>2 DEF Row
  <1>4. /\ rows[g].status \in {"none", "unconfirmed"}
        /\ rows' = [rows EXCEPT ![g] = row] /\ expired' = expired \ {g}
        /\ UNCHANGED <<capacity, open, answered, dueGuests, guardian, promoting>>
    BY <1>2 DEF GuestRegisters
  <1>5. /\ rows' \in [RowKeys -> Row] /\ rows'[g] = row
        /\ \A e \in RowKeys \ {g} : rows'[e] = rows[e]
    BY <1>1, <1>3, <1>4 DEF RowsTyped
  <1>6. Listed(answered) = {k \in RowKeys : rows'[k].status \in {"seated", "waiting"}}
    BY <1>1, <1>3, <1>4, <1>5 DEF RowsTyped
  <1>7. expired' \subseteq {e \in Guests : rows'[e].status = "unconfirmed"}
    BY <1>1, <1>4, <1>5, KeysAre DEF RowsTyped
  <1>8. RowsTyped(rows', answered', expired')
    BY <1>1, <1>4, <1>5, <1>6, <1>7 DEF RowsTyped
  <1>9. RestTyped'
    BY <1>1, <1>4 DEF RestTyped
  <1>10. \A k \in RowKeys : rows'[k].status \in {"seated", "waiting"} => rows'[k] = rows[k]
    BY <1>3, <1>5
  <1>11. SeatStep
    BY <1>5, <1>10, QuietStep
  <1>12. QED
    BY <1>8, <1>9, <1>11, TypesSplit

LEMMA GuestExpiresKeeps ==
  ASSUME EventSeatsTypeOK, NEW g \in Guests, GuestExpires(g)
  PROVE  EventSeatsTypeOK' /\ SeatStep
  <1>1. RowsTyped(rows, answered, expired) /\ RestTyped
    BY TypesSplit
  <1>2. RowsTyped(rows', answered', expired')
    BY <1>1 DEF GuestExpires, RowsTyped
  <1>3. RestTyped'
    BY <1>1 DEF GuestExpires, RestTyped
  <1>4. SeatStep
    BY RowsRest DEF GuestExpires
  <1>5. QED
    BY <1>2, <1>3, <1>4, TypesSplit

LEMMA GuestConfirmsKeeps ==
  ASSUME EventSeatsTypeOK, NEW g \in Guests, GuestConfirms(g)
  PROVE  EventSeatsTypeOK' /\ SeatStep
  <1>1. RowsTyped(rows, answered, expired) /\ RestTyped /\ g \in RowKeys
    BY TypesSplit, KeysAre
  <1>2. PICK status : status = IF Fits(capacity, Taken(rows, g), rows[g].size) THEN "seated" ELSE "waiting"
    OBVIOUS
  <1>3. PICK row : row = [rows[g] EXCEPT !.status = status]
    OBVIOUS
  <1>4. /\ rows[g].status = "unconfirmed" /\ g \notin expired
        /\ rows' = [rows EXCEPT ![g] = row]
        /\ answered' = Append(answered, g)
        /\ UNCHANGED <<capacity, open, expired, dueGuests, guardian, promoting>>
    BY <1>2, <1>3 DEF GuestConfirms
  <1>5. row \in Row /\ row.status = status /\ row.size = rows[g].size /\ status \in {"seated", "waiting"}
    <2>1. rows[g] \in [status: {"seated", "waiting", "unconfirmed"}, size: Sizes \cup {1}]
      BY <1>1, <1>4, RowTypes DEF RowsTyped
    <2>2. QED
      BY <1>2, <1>3, <2>1 DEF Row
  <1>6. RowsTyped(rows', answered', expired')
    <2>1. RowsTyped(rows', Append(answered, g), expired)
      BY <1>1, <1>4, <1>5, AppendingRow
    <2>2. QED
      BY <1>4, <2>1
  <1>7. RestTyped'
    BY <1>1, <1>4 DEF RestTyped
  <1>8. /\ rows' \in [RowKeys -> Row] /\ rows'[g] = row /\ rows \in [RowKeys -> Row]
        /\ \A e \in RowKeys \ {g} : rows'[e] = rows[e]
    BY <1>1, <1>4, <1>5 DEF RowsTyped
  <1>9. PICK order : order = answered
    OBVIOUS
  <1>10. /\ order \in Seq(RowKeys) /\ capacity \in Capacities \cup {NoLimit} /\ capacity' = capacity
         /\ answered \in Seq(RowKeys)
    BY <1>1, <1>4, <1>9 DEF RowsTyped, RestTyped
  <1>11. PICK table \in [RowKeys -> Row] : table = rows'
    BY <1>8
  <1>12. MovedFrom(table, order, capacity)
    BY <1>11 DEF MovedFrom
  <1>13. SeatsRespected
    <2>1. ASSUME NEW k \in RowKeys, rows[k].status # "seated", table[k].status = "seated"
          PROVE  Fits(capacity, Occupied(table), 0)
      <3>1. k = g /\ status = "seated"
        BY <1>5, <1>8, <1>11, <2>1
      <3>2. Fits(capacity, Taken(rows, g), table[g].size)
        BY <1>2, <1>5, <1>8, <1>11, <3>1
      <3>3. QED
        BY <1>1, <1>8, <1>10, <1>11, <2>1, <3>1, <3>2, FitsBeside
    <2>2. QED
      BY <1>10, <1>11, <1>12, <2>1, RoomIsRespected
  <1>14. FirstComeFirstServed
    <2>1. \A b \in RowKeys : rows[b].status = "waiting" => table[b] = rows[b]
      BY <1>4, <1>8, <1>11
    <2>2. QED
      BY <1>8, <1>10, <1>11, <1>12, <2>1, OrderIsKept
  <1>15. RegistrantsKeepSeats
    <2>1. \A k \in RowKeys : rows[k].status = "seated" => table[k] = rows[k]
      BY <1>4, <1>8, <1>11
    <2>2. QED
      BY <1>10, <1>12, <2>1, SeatsStay
  <1>16. QED
    BY <1>6, <1>7, <1>13, <1>14, <1>15, TypesSplit DEF SeatStep

LEMMA GuestUpdatesKeeps ==
  ASSUME EventSeatsTypeOK, NEW g \in Guests, NEW size \in Sizes, GuestUpdates(g, size)
  PROVE  EventSeatsTypeOK' /\ SeatStep
  <1>1. RowsTyped(rows, answered, expired) /\ RestTyped /\ g \in RowKeys
    BY TypesSplit, KeysAre
  <1>2. PICK row : row = [rows[g] EXCEPT !.size = size]
    OBVIOUS
  <1>3. PICK table : table = [rows EXCEPT ![g] = row]
    OBVIOUS
  <1>4. /\ rows[g].status \in {"seated", "waiting"}
        /\ rows' = IF rows[g].status = "seated" /\ size < rows[g].size
                   THEN Promote(table, answered, capacity) ELSE table
        /\ UNCHANGED <<capacity, open, answered, expired, dueGuests, guardian, promoting>>
    BY <1>2, <1>3 DEF GuestUpdates
  <1>5. row \in Row /\ row.status = rows[g].status
    <2>1. rows[g] \in [status: {"seated", "waiting", "unconfirmed"}, size: Sizes \cup {1}]
      BY <1>1, <1>4, RowTypes DEF RowsTyped
    <2>2. QED
      BY <1>2, <2>1 DEF Row
  <1>6. /\ table \in [RowKeys -> Row] /\ table[g] = row /\ rows \in [RowKeys -> Row]
        /\ \A e \in RowKeys \ {g} : table[e] = rows[e]
    BY <1>1, <1>3, <1>5 DEF RowsTyped
  <1>7. PICK order \in Seq(RowKeys) : order = answered
    BY <1>1 DEF RowsTyped
  <1>8. capacity \in Capacities \cup {NoLimit} /\ capacity' = capacity /\ ListedOnce(order)
    BY <1>1, <1>4, <1>7 DEF RestTyped, RowsTyped
  <1>9. MovedFrom(table, order, capacity)
    BY <1>4, <1>7 DEF MovedFrom
  <1>10. RowsTyped(table, answered, expired)
    BY <1>1, <1>3, <1>4, <1>5, ChangingRow
  <1>11. RowsTyped(rows', answered', expired')
    <2>1. CASE rows' = table
      BY <1>4, <1>10, <2>1
    <2>2. CASE rows' = Promote(table, order, capacity)
      <3>1. RowsTyped(Promote(table, order, capacity), answered, expired)
        BY <1>8, <1>10, PromoteTyped
      <3>2. QED
        BY <1>4, <2>2, <3>1
    <2>3. QED
      BY <1>9, <2>1, <2>2 DEF MovedFrom
  <1>12. RestTyped'
    BY <1>1, <1>4 DEF RestTyped
  <1>13. \A k \in RowKeys : table[k].status = rows[k].status
    BY <1>5, <1>6
  <1>14. SeatsRespected
    BY <1>6, <1>8, <1>9, <1>13, RoomIsRespected
  <1>15. FirstComeFirstServed
    <2>1. ASSUME NEW b \in RowKeys, rows[b].status = "waiting", table[b] # rows[b], rows'[b].status = "seated"
          PROVE  FALSE
      <3>1. b = g
        BY <1>6, <2>1
      <3>2. rows' = table
        BY <1>4, <2>1, <3>1
      <3>3. QED
        BY <1>13, <2>1, <3>2
    <2>2. QED
      BY <1>6, <1>7, <1>8, <1>9, <2>1, OrderIsKept
  <1>16. RegistrantsKeepSeats
    BY <1>6, <1>8, <1>9, <1>13, SeatsStay
  <1>17. QED
    BY <1>11, <1>12, <1>14, <1>15, <1>16, TypesSplit DEF SeatStep

LEMMA SweepSelectsGuestsKeeps ==
  ASSUME EventSeatsTypeOK, SweepSelectsGuests
  PROVE  EventSeatsTypeOK' /\ SeatStep
  <1>1. RowsTyped(rows, answered, expired) /\ RestTyped
    BY TypesSplit
  <1>2. RowsTyped(rows', answered', expired')
    BY <1>1 DEF SweepSelectsGuests
  <1>3. RestTyped'
    BY <1>1 DEF SweepSelectsGuests, RestTyped, RowsTyped
  <1>4. SeatStep
    BY RowsRest DEF SweepSelectsGuests
  <1>5. QED
    BY <1>2, <1>3, <1>4, TypesSplit

LEMMA SweepDeletesGuestsKeeps ==
  ASSUME EventSeatsTypeOK, SweepDeletesGuests
  PROVE  EventSeatsTypeOK' /\ SeatStep
  <1>1. RowsTyped(rows, answered, expired) /\ RestTyped
    BY TypesSplit
  <1>2. PICK left : left = [k \in RowKeys |-> IF k \in dueGuests THEN NoRow ELSE rows[k]]
    OBVIOUS
  <1>3. left \in [RowKeys -> Row]
    BY <1>1, <1>2 DEF RowsTyped, Row
  <1>4. dueGuests \in SUBSET RowKeys
    BY <1>1, KeysAre DEF RestTyped
  <1>5. RowsTyped(left, Only(answered, RowKeys \ dueGuests), expired \ dueGuests)
    <2>1. /\ \A e \in dueGuests : left[e] = NoRow
          /\ \A e \in RowKeys \ dueGuests : left[e] = rows[e]
      BY <1>2, <1>4
    <2>2. QED
      BY <1>1, <1>3, <1>4, <2>1, RemovingRows
  <1>6. RowsTyped(rows', answered', expired')
    BY <1>2, <1>5 DEF SweepDeletesGuests
  <1>7. RestTyped'
    BY <1>1 DEF SweepDeletesGuests, RestTyped
  <1>8. rows' = left
    BY <1>2 DEF SweepDeletesGuests
  <1>9. \A k \in RowKeys : rows'[k].status \in {"seated", "waiting"} => rows'[k] = rows[k]
    BY <1>2, <1>8 DEF NoRow
  <1>10. SeatStep
    BY <1>3, <1>8, <1>9, QuietStep
  <1>11. QED
    BY <1>6, <1>7, <1>10, TypesSplit

-----------------------------------------------------------------------------
LEMMA SeatsKeeps ==
  ASSUME EventSeatsTypeOK, NEW k \in Registrations, NEW force \in BOOLEAN, Seats(k, force)
  PROVE  EventSeatsTypeOK' /\ SeatStep
  <1>1. RowsTyped(rows, answered, expired) /\ RestTyped /\ k \in RowKeys
    BY TypesSplit, KeysAre
  <1>2. PICK row : row = [rows[k] EXCEPT !.status = "seated"]
    OBVIOUS
  <1>3. /\ rows[k].status = "waiting"
        /\ force = TRUE \/ Fits(capacity, Taken(rows, k), rows[k].size)
        /\ rows' = [rows EXCEPT ![k] = row]
        /\ UNCHANGED <<capacity, open, answered, expired, dueGuests, guardian, promoting>>
    BY <1>2 DEF Seats
  <1>4. row \in Row /\ row.status = "seated" /\ row.size = rows[k].size
    <2>1. rows[k] \in [status: {"seated", "waiting", "unconfirmed"}, size: Sizes \cup {1}]
      BY <1>1, <1>3, RowTypes DEF RowsTyped
    <2>2. QED
      BY <1>2, <2>1 DEF Row
  <1>5. RowsTyped(rows', answered', expired')
    <2>1. RowsTyped(rows', answered, expired)
      BY <1>1, <1>3, <1>4, ChangingRow
    <2>2. QED
      BY <1>3, <2>1
  <1>6. RestTyped'
    BY <1>1, <1>3 DEF RestTyped
  <1>7. /\ rows \in [RowKeys -> Row] /\ rows' \in [RowKeys -> Row] /\ rows'[k] = row
        /\ \A e \in RowKeys \ {k} : rows'[e] = rows[e]
    BY <1>1, <1>3, <1>4 DEF RowsTyped
  <1>8. PICK table \in [RowKeys -> Row] : table = rows'
    BY <1>7
  <1>9. PICK order \in Seq(RowKeys) : order = answered
    BY <1>1 DEF RowsTyped
  <1>10. /\ capacity \in Capacities \cup {NoLimit} /\ capacity' = capacity
         /\ MovedFrom(table, order, capacity)
    BY <1>1, <1>3, <1>8 DEF RestTyped, MovedFrom
  <1>11. SeatsRespected
    <2>1. CASE force = TRUE
      BY <2>1 DEF SeatsRespected, Forced
    <2>2. CASE Fits(capacity, Taken(rows, k), rows[k].size)
      <3>1. Fits(capacity, Occupied(table), 0)
        BY <1>1, <1>4, <1>7, <1>8, <1>10, <2>2, FitsBeside
      <3>2. QED
        BY <1>8, <1>10, <3>1, RoomIsRespected
    <2>3. QED
      BY <1>3, <2>1, <2>2
  <1>12. FirstComeFirstServed
    <2>1. ASSUME NEW b \in RowKeys, table[b] # rows[b]
          PROVE  Served(b)
      BY <1>7, <1>8, <2>1 DEF Served
    <2>2. QED
      BY <1>7, <1>8, <1>9, <1>10, <2>1, OrderIsKept
  <1>13. RegistrantsKeepSeats
    <2>1. \A e \in RowKeys : rows[e].status = "seated" => table[e] = rows[e]
      BY <1>3, <1>7, <1>8
    <2>2. QED
      BY <1>10, <2>1, SeatsStay
  <1>14. QED
    BY <1>5, <1>6, <1>11, <1>12, <1>13, TypesSplit DEF SeatStep

LEMMA UnseatsKeeps ==
  ASSUME EventSeatsTypeOK, NEW k \in Registrations, Unseats(k)
  PROVE  EventSeatsTypeOK' /\ SeatStep
  <1>1. RowsTyped(rows, answered, expired) /\ RestTyped /\ k \in RowKeys
    BY TypesSplit, KeysAre
  <1>2. PICK row : row = [rows[k] EXCEPT !.status = "waiting"]
    OBVIOUS
  <1>3. /\ rows[k].status = "seated"
        /\ rows' = [rows EXCEPT ![k] = row]
        /\ UNCHANGED <<capacity, open, answered, expired, dueGuests, guardian, promoting>>
    BY <1>2 DEF Unseats
  <1>4. row \in Row /\ row.status = "waiting"
    <2>1. rows[k] \in [status: {"seated", "waiting", "unconfirmed"}, size: Sizes \cup {1}]
      BY <1>1, <1>3, RowTypes DEF RowsTyped
    <2>2. QED
      BY <1>2, <2>1 DEF Row
  <1>5. RowsTyped(rows', answered', expired')
    <2>1. RowsTyped(rows', answered, expired)
      BY <1>1, <1>3, <1>4, ChangingRow
    <2>2. QED
      BY <1>3, <2>1
  <1>6. RestTyped'
    BY <1>1, <1>3 DEF RestTyped
  <1>7. /\ rows' \in [RowKeys -> Row] /\ rows'[k] = row
        /\ \A e \in RowKeys \ {k} : rows'[e] = rows[e]
    BY <1>1, <1>3, <1>4 DEF RowsTyped
  <1>8. SeatStep
    <2>1. \A e \in RowKeys : rows[e].status = "seated" /\ rows'[e].status = "waiting" => Unseats(e)
      BY <1>7
    <2>2. \A e \in RowKeys : rows'[e].status = "seated" => rows[e].status = "seated"
      BY <1>4, <1>7
    <2>3. QED
      BY <1>7, <2>1, <2>2, QuietStep
  <1>9. QED
    BY <1>5, <1>6, <1>8, TypesSplit

LEMMA SetCapacityKeeps ==
  ASSUME EventSeatsTypeOK, NEW limit \in Capacities \cup {NoLimit}, SetCapacity(limit)
  PROVE  EventSeatsTypeOK' /\ SeatStep
  <1>1. RowsTyped(rows, answered, expired) /\ RestTyped
    BY TypesSplit
  <1>2. UNCHANGED <<open, rows, answered, expired, dueGuests, guardian>> /\ capacity' = limit
    BY DEF SetCapacity
  <1>3. promoting' \in BOOLEAN
    BY DEF SetCapacity
  <1>4. RestTyped'
    BY <1>1, <1>2, <1>3 DEF RestTyped
  <1>5. RowsTyped(rows', answered', expired')
    BY <1>1, <1>2
  <1>6. QED
    BY <1>2, <1>4, <1>5, RowsRest, TypesSplit

LEMMA CapacityPromotesKeeps ==
  ASSUME EventSeatsTypeOK, CapacityPromotes
  PROVE  EventSeatsTypeOK' /\ SeatStep
  <1>1. RowsTyped(rows, answered, expired) /\ RestTyped
    BY TypesSplit
  <1>2. PICK table \in [RowKeys -> Row] : table = rows
    BY <1>1 DEF RowsTyped
  <1>3. PICK order \in Seq(RowKeys) : order = answered
    BY <1>1 DEF RowsTyped
  <1>4. /\ MovedFrom(table, order, capacity)
        /\ UNCHANGED <<capacity, open, answered, expired, dueGuests, guardian>> /\ promoting' = FALSE
    BY <1>2, <1>3 DEF CapacityPromotes, MovedFrom
  <1>5. capacity \in Capacities \cup {NoLimit} /\ ListedOnce(order)
    BY <1>1, <1>3 DEF RestTyped, RowsTyped
  <1>6. RowsTyped(rows', answered', expired')
    <2>1. CASE rows' = table
      BY <1>1, <1>2, <1>4, <2>1
    <2>2. CASE rows' = Promote(table, order, capacity)
      <3>1. RowsTyped(Promote(table, order, capacity), answered, expired)
        BY <1>1, <1>2, <1>5, PromoteTyped
      <3>2. QED
        BY <1>4, <2>2, <3>1
    <2>3. QED
      BY <1>4, <2>1, <2>2 DEF MovedFrom
  <1>7. RestTyped'
    BY <1>1, <1>4 DEF RestTyped
  <1>8. SeatsRespected
    BY <1>2, <1>4, <1>5, RoomIsRespected
  <1>9. FirstComeFirstServed
    BY <1>2, <1>3, <1>4, <1>5, OrderIsKept
  <1>10. RegistrantsKeepSeats
    BY <1>2, <1>4, <1>5, SeatsStay
  <1>11. QED
    BY <1>6, <1>7, <1>8, <1>9, <1>10, TypesSplit DEF SeatStep

LEMMA SetOpenKeeps ==
  ASSUME EventSeatsTypeOK, NEW to \in RegistrationStates, SetOpen(to)
  PROVE  EventSeatsTypeOK' /\ SeatStep
  <1>1. RowsTyped(rows, answered, expired) /\ RestTyped
    BY TypesSplit
  <1>2. UNCHANGED <<capacity, rows, answered, expired, dueGuests, guardian, promoting>> /\ open' = to
    BY DEF SetOpen
  <1>3. RowsTyped(rows', answered', expired') /\ RestTyped'
    BY <1>1, <1>2 DEF RestTyped
  <1>4. QED
    BY <1>2, <1>3, RowsRest, TypesSplit

-----------------------------------------------------------------------------
LEMMA SeatsStart ==
  ASSUME EventSeatsInit
  PROVE  EventSeatsTypeOK
  <1>1. rows = [k \in RowKeys |-> NoRow] /\ rows \in [RowKeys -> Row]
    BY DEF EventSeatsInit, Row
  <1>2. \A k \in RowKeys : rows[k].status = "none"
    BY <1>1 DEF NoRow
  <1>3. RowsTyped(rows, answered, expired)
    BY <1>1, <1>2 DEF EventSeatsInit, RowsTyped, Listed, ListedOnce
  <1>4. RestTyped
    BY DEF EventSeatsInit, RestTyped, RegistrationStates
  <1>5. QED
    BY <1>3, <1>4, TypesSplit

LEMMA SeatsStepKeeps ==
  ASSUME EventSeatsTypeOK, [EventSeatsNext]_seatVars
  PROVE  EventSeatsTypeOK' /\ SeatStep
  <1>1. CASE RegistrantStep
    BY <1>1, RegisterKeeps, CancelRegistrationKeeps DEF RegistrantStep
  <1>2. CASE GuardianStep
    BY <1>2, GuardianReadsKeeps, GuardianAnswersKeeps DEF GuardianStep
  <1>3. CASE GuestStep
    <2>1. ASSUME NEW g \in Guests, GuestCancels(g)
          PROVE  EventSeatsTypeOK' /\ SeatStep
      <3>1. g \in RowKeys
        BY KeysAre
      <3>2. QED
        BY <2>1, <3>1, RemovesKeeps DEF GuestCancels
    <2>2. QED
      BY <1>3, <2>1, GuestExpiresKeeps, GuestConfirmsKeeps, GuestRegistersKeeps, GuestUpdatesKeeps,
         SweepSelectsGuestsKeeps, SweepDeletesGuestsKeeps DEF GuestStep
  <1>4. CASE OrganiserStep
    <2>1. ASSUME NEW k \in Registrations, Strikes(k)
          PROVE  EventSeatsTypeOK' /\ SeatStep
      <3>1. k \in RowKeys
        BY KeysAre
      <3>2. QED
        BY <2>1, <3>1, RemovesKeeps DEF Strikes
    <2>2. QED
      BY <1>4, <2>1, SeatsKeeps, UnseatsKeeps, SetCapacityKeeps, CapacityPromotesKeeps, SetOpenKeeps
      DEF OrganiserStep, RegistrationStates
  <1>5. CASE UNCHANGED seatVars
    <2>1. UNCHANGED <<capacity, open, rows, answered, expired, dueGuests, guardian, promoting>>
      BY <1>5 DEF seatVars
    <2>2. RowsTyped(rows', answered', expired') /\ RestTyped'
      BY <2>1, TypesSplit DEF RestTyped
    <2>3. QED
      BY <2>1, <2>2, RowsRest, TypesSplit
  <1>6. QED
    BY <1>1, <1>2, <1>3, <1>4, <1>5 DEF EventSeatsNext

\* What the seats of an event keep, whatever the members, wards, guests, sizes of
\* groups and capacities are: rows and queue belong together; nobody sits down
\* beyond the capacity but by the organiser's wish or a guardian's answer to an
\* older capacity; the waitlist is first come, first served; and no registration
\* loses its seat unless the organiser takes it (event-seats.ts,
\* event-registration.ts, event-guests.ts, guardian.ts).
THEOREM SeatsAreSound == EventSeatsSpec => SeatsPromise
  <1>1. EventSeatsInit => EventSeatsTypeOK
    BY SeatsStart
  <1>2. EventSeatsTypeOK /\ [EventSeatsNext]_seatVars => EventSeatsTypeOK'
    BY SeatsStepKeeps
  <1>3. EventSeatsTypeOK /\ [EventSeatsNext]_seatVars
          => [SeatsRespected /\ FirstComeFirstServed /\ RegistrantsKeepSeats]_seatVars
    BY SeatsStepKeeps DEF SeatStep
  <1>4. QED
    BY <1>1, <1>2, <1>3, PTL DEF EventSeatsSpec, SeatsPromise

-----------------------------------------------------------------------------
\* Each component reaches its own rows only, so what is true of each alone is true of
\* all of them together, in whatever order their steps come: everything the run of the
\* planner checks about the surroundings of an event (routes/event-attendance.ts,
\* routes/event-rides.ts, routes/calendars.ts, lib/reminders.ts).
THEOREM EventsAreSound ==
  AttendanceSpec /\ RidesSpec /\ CalendarsSpec /\ RemindersSpec => EventsPromise
  BY AttendanceIsSound, RidesAreSound, CalendarsAreSound, RemindersAreSound DEF EventsPromise
=============================================================================
