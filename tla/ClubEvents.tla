----------------------------- MODULE ClubEvents -----------------------------
(* What surrounds the events of a club and shares no rows: the attendance      *)
(* list, the rides there, the calendars, the reminders.                        *)
EXTENDS Integers, FiniteSets

-----------------------------------------------------------------------------
(* The attendance list of one event (src/src/routes/event-attendance.ts,       *)
(* lib/event-attendance.ts): saving, closing, correcting, with the absence     *)
(* reports that pre-fill it (lib/absences.ts). Every write locks the sheet;    *)
(* the event was read before.                                                  *)
CONSTANTS
  Attendees,
  SheetCalls,    \* requests in flight
  Days,          \* days the event may be on
  MaxSaves,      \* bound on the saves
  MaxReports     \* bound on what happens around the list

ASSUME AttendanceAssumption == MaxSaves \in Nat /\ MaxReports \in Nat

VARIABLES
  list,          \* status of every attendee, "open" without a row
  closedList,
  log,           \* newStatus of the last correction, "none" without one
  listAtClose,   \* history: the list when it was closed
  roster,        \* department members and confirmed seats who are still members
  reports,       \* the absence report of every attendee: [days, withdrawn]
  eventDay,
  sheetCalls,
  saves, reportCount

sheetVars ==
  <<list, closedList, log, listAtClose, roster, reports, eventDay, sheetCalls, saves, reportCount>>

Recorded == {"present", "excused", "unexcused"}
Statuses == Recorded \cup {"open"}
NoSheetCall == [op |-> "none", at |-> "none"]
NoReport == [days |-> {}, withdrawn |-> FALSE]

\* The absences somebody reported, and whether the report was taken back.
AbsenceReport == [days : SUBSET Days, withdrawn : BOOLEAN]
\* What the log of corrections says an entry was changed to last.
Corrections == Statuses \cup {"none"}

AttendanceTypeOK ==
  /\ list \in [Attendees -> Statuses] /\ listAtClose \in [Attendees -> Statuses]
  /\ log \in [Attendees -> Corrections] /\ closedList \in BOOLEAN
  /\ roster \subseteq Attendees /\ eventDay \in Days
  /\ reports \in [Attendees -> AbsenceReport]
  /\ \A c \in SheetCalls : sheetCalls[c].op \in {"none", "save", "close"}
  /\ saves \in 0..MaxSaves /\ reportCount \in 0..MaxReports

AttendanceInit ==
  /\ list = [a \in Attendees |-> "open"] /\ listAtClose = list /\ closedList = FALSE
  /\ log = [a \in Attendees |-> "none"] /\ roster \in SUBSET Attendees
  /\ reports = [a \in Attendees |-> NoReport] /\ eventDay \in Days
  /\ sheetCalls = [c \in SheetCalls |-> NoSheetCall] /\ saves = 0 /\ reportCount = 0

SheetCall(c, call) == sheetCalls' = [sheetCalls EXCEPT ![c] = call]

-----------------------------------------------------------------------------
\* Around the list

Around == reportCount < MaxReports /\ reportCount' = reportCount + 1
              /\ UNCHANGED <<list, closedList, log, listAtClose, sheetCalls, saves>>

\* createAbsence and updateAbsence: a report that was withdrawn is not changed.
ReportsAbsence(a, days) ==
  /\ Around /\ ~reports[a].withdrawn /\ reports[a].days # days
  /\ reports' = [reports EXCEPT ![a].days = days] /\ UNCHANGED <<roster, eventDay>>

WithdrawsAbsence(a) ==
  /\ Around /\ reports[a].days # {} /\ ~reports[a].withdrawn
  /\ reports' = [reports EXCEPT ![a].withdrawn = TRUE] /\ UNCHANGED <<roster, eventDay>>

\* Seats, departments and memberships change, the event moves.
RosterChanges(r) ==
  /\ Around /\ r # roster /\ roster' = r /\ UNCHANGED <<reports, eventDay>>

EventMoves(d) ==
  /\ Around /\ d # eventDay /\ eventDay' = d /\ UNCHANGED <<roster, reports>>

\* absentMemberIds: a report that was not withdrawn covers the day.
Absent(day) == {a \in Attendees : day \in reports[a].days /\ ~reports[a].withdrawn}

-----------------------------------------------------------------------------
\* The list

\* The event is read, with its day; a save has one entry and maybe a reason.
OpensSheet(c, call) ==
  /\ sheetCalls[c] = NoSheetCall /\ saves < MaxSaves /\ saves' = saves + 1
  /\ SheetCall(c, call)
  /\ UNCHANGED <<list, closedList, log, listAtClose, roster, reports, eventDay, reportCount>>

\* Faulty variant: nobody waits for the lock on the sheet.
SheetFreeAnyway == TRUE

SheetFree == \A c \in SheetCalls : sheetCalls[c].at # "locked"

\* lockedSheet, and what is decided on the list as it is then: a closed list needs a
\* reason and is not closed again.
LocksSheet(c) ==
  /\ sheetCalls[c].at = "asked" /\ SheetFree
  /\ LET call == sheetCalls[c]
         goes == IF call.op = "save" THEN closedList => call.reason ELSE ~closedList
     IN SheetCall(c, IF ~goes THEN NoSheetCall
                     ELSE IF call.op = "save"
                     THEN [op |-> "save", at |-> "locked", who |-> call.who, status |-> call.status,
                           was |-> list[call.who], closed |-> closedList]
                     ELSE [op |-> "close", at |-> "locked", absent |-> Absent(call.day),
                           open |-> IF call.mark THEN {a \in roster : list[a] = "open"} ELSE {}])
  /\ UNCHANGED <<list, closedList, log, listAtClose, roster, reports, eventDay, saves, reportCount>>

\* Faulty variant: taking somebody off the closed list leaves no correction.
LogsChangesOnly(call) == call.closed /\ call.status \notin {call.was, "open"}

Logs(call) == call.closed /\ call.status # call.was

\* PUT: the row is inserted, updated or deleted; on a closed list with a correction.
SavesEntry(c) ==
  /\ sheetCalls[c].op = "save" /\ sheetCalls[c].at = "locked" /\ SheetCall(c, NoSheetCall)
  /\ LET call == sheetCalls[c]
     IN /\ list' = [list EXCEPT ![call.who] = call.status]
        /\ log' = IF Logs(call) THEN [log EXCEPT ![call.who] = call.status] ELSE log
  /\ UNCHANGED <<closedList, listAtClose, roster, reports, eventDay, saves, reportCount>>

\* POST close: whoever on the roster has no row gets one.
ClosesList(c) ==
  /\ sheetCalls[c].op = "close" /\ sheetCalls[c].at = "locked" /\ SheetCall(c, NoSheetCall)
  /\ list' = [a \in Attendees |->
       IF a \notin sheetCalls[c].open THEN list[a]
       ELSE IF a \in sheetCalls[c].absent THEN "excused" ELSE "unexcused"]
  /\ closedList' = TRUE /\ listAtClose' = list'
  /\ UNCHANGED <<log, roster, reports, eventDay, saves, reportCount>>

AttendanceNext ==
  \/ \E a \in Attendees :
       \/ WithdrawsAbsence(a) \/ \E days \in SUBSET Days \ {{}} : ReportsAbsence(a, days)
  \/ \E r \in SUBSET Attendees : RosterChanges(r)
  \/ \E d \in Days : EventMoves(d)
  \/ \E c \in SheetCalls :
       \/ \E a \in Attendees, s \in Statuses, why \in BOOLEAN :
            OpensSheet(c, [op |-> "save", at |-> "asked", who |-> a, status |-> s, reason |-> why])
       \/ \E mark \in BOOLEAN :
            OpensSheet(c, [op |-> "close", at |-> "asked", mark |-> mark, day |-> eventDay])
       \/ LocksSheet(c) \/ SavesEntry(c) \/ ClosesList(c)

AttendanceSpec == AttendanceInit /\ [][AttendanceNext]_sheetVars

-----------------------------------------------------------------------------
\* Properties

\* Once closed, the list is what it was then and the corrections since: "later changes
\* need a reason and are logged" (event-attendance.ts).
CorrectionsTellTheList ==
  closedList =>
    \A a \in Attendees : list[a] = IF log[a] = "none" THEN listAtClose[a] ELSE log[a]

\* An open list has no corrections; a closed one is not opened or closed again.
ListsCloseOnce ==
  /\ closedList => closedList' /\ listAtClose' = listAtClose
  /\ ~closedList => \A a \in Attendees : log[a] = "none"

\* Closing takes nobody's recorded status.
ClosingKeepsRecords ==
  closedList' /\ ~closedList => \A a \in Attendees : list[a] # "open" => list'[a] = list[a]

\* The attendance of an event.
AttendancePromise ==
  /\ [](AttendanceTypeOK /\ CorrectionsTellTheList)
  /\ [][ListsCloseOnce /\ ClosingKeepsRecords]_sheetVars

\* event-attendance.ts: "an absence report ... pre-fills `entschuldigt`": whoever has a
\* report for the day is never marked absent without one by closing the list.
ReportedAreExcused ==
  [][closedList' /\ ~closedList =>
       \A a \in Absent(eventDay) : list[a] = "open" => list'[a] # "unexcused"]_sheetVars

-----------------------------------------------------------------------------
(* One ride to an event (src/src/routes/event-rides.ts): a driver offers seats *)
(* and decides who gets one. The decision and a change of the seats lock the   *)
(* ride's row; a request, its withdrawal and the driver's cancellation do not. *)
CONSTANTS
  Passengers,
  RideCalls,
  MaxSeats,      \* seats of a car
  MaxRides,      \* rides of the driver so far (bound)
  MaxAsks        \* bound on the requests made

ASSUME RidesAssumption == MaxSeats \in Nat /\ MaxRides \in Nat \ {0} /\ MaxAsks \in Nat

VARIABLES
  ride,          \* [number, seats]: number counts the rides, seats 0 without one
  requests,      \* [is, id]: the request of every passenger
  rideCalls,
  told,          \* history: what the passenger was told last about this ride
  asked

rideVars == <<ride, requests, rideCalls, told, asked>>

NoRide == 0
NoRideCall == [op |-> "none"]
NoRequest == [is |-> "none", id |-> 0]
Verdicts == {"confirmed", "declined"}

Ride == [number : 1..MaxRides, seats : 0..MaxSeats]
RideRequest == [is : {"none", "asked"} \cup Verdicts, id : 0..MaxAsks]

RidesTypeOK ==
  /\ ride \in Ride
  /\ requests \in [Passengers -> RideRequest]
  /\ \A c \in RideCalls : rideCalls[c].op \in {"none", "decide", "tell", "cancel", "resize"}
  /\ told \in [Passengers -> {"nothing", "cancelled"} \cup Verdicts] /\ asked \in 0..MaxAsks

RidesInit ==
  /\ ride \in [number : {1}, seats : 1..MaxSeats]
  /\ requests = [p \in Passengers |-> NoRequest] /\ rideCalls = [c \in RideCalls |-> NoRideCall]
  /\ told = [p \in Passengers |-> "nothing"] /\ asked = 0

RideCall(c, call) == rideCalls' = [rideCalls EXCEPT ![c] = call]

Offered == ride.seats # NoRide

Confirmed == {p \in Passengers : requests[p].is = "confirmed"}

-----------------------------------------------------------------------------

\* POST of a request: one per ride and passenger.
AsksForSeat(p) ==
  /\ Offered /\ requests[p] = NoRequest /\ asked < MaxAsks /\ asked' = asked + 1
  /\ requests' = [requests EXCEPT ![p] = [is |-> "asked", id |-> asked']]
  /\ told' = [told EXCEPT ![p] = "nothing"]
  /\ UNCHANGED <<ride, rideCalls>>

\* DELETE of a request, by either side; a confirmed seat is free again.
WithdrawsRequest(p) ==
  /\ Offered /\ requests[p] # NoRequest /\ requests' = [requests EXCEPT ![p] = NoRequest]
  /\ UNCHANGED <<ride, rideCalls, told, asked>>

\* The driver opens the ride and asks for a decision, another number of seats, its end.
DriverActs(c, call) ==
  /\ rideCalls[c] = NoRideCall /\ Offered /\ RideCall(c, call)
  /\ UNCHANGED <<ride, requests, told, asked>>

\* The call still meets the ride it was made for.
StillThere(c) == Offered /\ rideCalls[c].number = ride.number

\* Faulty variant: the seats are those of the ride as the driver opened it.
SeatsWhenOpened(c) == Cardinality(Confirmed) < rideCalls[c].seats

\* The seats and who has one, counted under the lock on the ride.
SeatIsFree(c) == Cardinality(Confirmed) < ride.seats

\* PATCH of a request, in its transaction.
Decides(c) ==
  /\ rideCalls[c].op = "decide"
  /\ LET p == rideCalls[c].who
         v == rideCalls[c].verdict
     IN IF /\ StillThere(c) /\ requests[p].id = rideCalls[c].id
           /\ v = "confirmed" => p \in Confirmed \/ SeatIsFree(c)
        THEN /\ requests' = [requests EXCEPT ![p].is = v]
             /\ RideCall(c, [op |-> "tell", who |-> p, verdict |-> v, number |-> ride.number])
        ELSE RideCall(c, NoRideCall) /\ UNCHANGED requests
  /\ UNCHANGED <<ride, told, asked>>

\* After the commit the passenger is told.
TellsVerdict(c) ==
  /\ rideCalls[c].op = "tell" /\ RideCall(c, NoRideCall)
  /\ told' = IF StillThere(c) THEN [told EXCEPT ![rideCalls[c].who] = rideCalls[c].verdict] ELSE told
  /\ UNCHANGED <<ride, requests, asked>>

\* PATCH of the ride: not below the seats that are taken.
ResizesRide(c) ==
  /\ rideCalls[c].op = "resize" /\ RideCall(c, NoRideCall)
  /\ ride' = IF StillThere(c) /\ Cardinality(Confirmed) <= rideCalls[c].to
             THEN [ride EXCEPT !.seats = rideCalls[c].to] ELSE ride
  /\ UNCHANGED <<requests, told, asked>>

\* DELETE of the ride: those with a request were read before, they are told after.
CancelsRide(c) ==
  /\ rideCalls[c].op = "cancel" /\ RideCall(c, NoRideCall)
  /\ IF StillThere(c)
     THEN /\ ride' = [ride EXCEPT !.seats = NoRide]
          /\ requests' = [p \in Passengers |-> NoRequest]
     ELSE UNCHANGED <<ride, requests>>
  /\ told' = [p \in Passengers |->
       IF StillThere(c) /\ p \in rideCalls[c].those THEN "cancelled" ELSE told[p]]
  /\ UNCHANGED asked

\* The driver offers another ride.
OffersRide(seats) ==
  /\ ~Offered /\ ride.number < MaxRides
  /\ ride' = [number |-> ride.number + 1, seats |-> seats]
  /\ told' = [p \in Passengers |-> "nothing"] /\ UNCHANGED <<requests, rideCalls, asked>>

Waiting == {p \in Passengers : requests[p].is \in {"asked", "confirmed"}}

RidesNext ==
  \/ \E p \in Passengers : AsksForSeat(p) \/ WithdrawsRequest(p)
  \/ \E c \in RideCalls :
       \/ \E p \in Passengers, v \in Verdicts :
            /\ requests[p] # NoRequest
            /\ DriverActs(c, [op |-> "decide", who |-> p, id |-> requests[p].id, verdict |-> v,
                              number |-> ride.number, seats |-> ride.seats])
       \/ \E n \in 1..MaxSeats : DriverActs(c, [op |-> "resize", to |-> n, number |-> ride.number])
       \/ DriverActs(c, [op |-> "cancel", those |-> Waiting, number |-> ride.number])
       \/ Decides(c) \/ TellsVerdict(c) \/ ResizesRide(c) \/ CancelsRide(c)
  \/ \E n \in 1..MaxSeats : OffersRide(n)

RidesSpec == RidesInit /\ [][RidesNext]_rideVars

-----------------------------------------------------------------------------
\* Properties

\* "Seats are counted under a lock on the ride, so a full car cannot be
\* over-confirmed" (event-rides.ts), with the seats changed meanwhile too.
CarIsNotOverfull == Cardinality(Confirmed) <= ride.seats

\* Nobody has a request without a ride.
RequestsHaveARide == (\E p \in Passengers : requests[p] # NoRequest) => Offered

\* A seat that was confirmed goes only with the ride, the request or a decision.
SeatsAreKept ==
  \A p \in Confirmed : requests'[p].is # "confirmed" =>
    \/ requests'[p] = NoRequest
    \/ \E c \in RideCalls : rideCalls[c].op = "decide" /\ rideCalls[c].who = p
                              /\ rideCalls[c].verdict = "declined" /\ rideCalls'[c] # rideCalls[c]

\* The rides to an event.
RidesPromise ==
  [](RidesTypeOK /\ CarIsNotOverfull /\ RequestsHaveARide) /\ [][SeatsAreKept]_rideVars

\* The mail of a cancelled ride: "The driver cancelled the ride you wanted to join",
\* to everybody with a request (event-rides.ts, DELETE of the ride).
CancelledRidesAreTold ==
  [][\A p \in Waiting : ride'.seats = NoRide => told'[p] = "cancelled"]_rideVars

-----------------------------------------------------------------------------
(* The calendars of a club (src/src/routes/calendars.ts,                       *)
(* lib/calendar-defaults.ts), who may see them (lib/calendar-visibility.ts),   *)
(* and the departments they may belong to (routes/departments.ts). Whoever     *)
(* decides about the default calendar holds the advisory lock of the club; the *)
(* deletion of a department takes its calendars and grants with it.            *)
CONSTANTS
  CalendarIds,      \* ids of calendars
  Sections,         \* departments
  ClubWide,         \* stands for no department
  CalendarCalls,    \* requests in flight
  MaxCalendarEdits  \* bound on the requests that change something

ASSUME CalendarsAssumption ==
  IsFiniteSet(CalendarIds) /\ ClubWide \notin Sections /\ MaxCalendarEdits \in Nat

VARIABLES
  shelf,         \* the calendars: [default, section], Missing without one
  grants,        \* who a calendar is visible to
  sections,      \* the departments there are
  calendarCalls,
  calendarEdits

calendarVars == <<shelf, grants, sections, calendarCalls, calendarEdits>>

Missing == [default |-> FALSE, section |-> "none"]
Standard == [default |-> TRUE, section |-> ClubWide]
NoCalendarCall == [op |-> "none", at |-> "none", id |-> "none"]
Grantees == Sections \cup {"mitglied", "guest"}    \* "guest": one external account
Anywhere == Sections \cup {ClubWide}

Calendar == [default : BOOLEAN, section : Anywhere \cup {"none"}]

CalendarsTypeOK ==
  /\ shelf \in [CalendarIds -> Calendar]
  /\ grants \in [CalendarIds -> SUBSET Grantees] /\ sections \subseteq Sections
  /\ \A c \in CalendarCalls : calendarCalls[c].op \in {"none", "create", "change", "delete"}
  /\ calendarEdits \in 0..MaxCalendarEdits

Calendars == {k \in CalendarIds : shelf[k] # Missing}
Defaults == {k \in Calendars : shelf[k].default}

\* A club from before the default calendar, or one founded with it.
CalendarsInit ==
  /\ \E first \in SUBSET CalendarIds :
       /\ Cardinality(first) <= 1
       /\ shelf = [k \in CalendarIds |-> IF k \in first THEN Standard ELSE Missing]
       /\ grants = [k \in CalendarIds |-> IF k \in first THEN {"mitglied"} ELSE {}]
  /\ sections = Sections /\ calendarEdits = 0
  /\ calendarCalls = [c \in CalendarCalls |-> NoCalendarCall]

OneEdit == calendarEdits < MaxCalendarEdits /\ calendarEdits' = calendarEdits + 1

CalendarCall(c, call) == calendarCalls' = [calendarCalls EXCEPT ![c] = call]

-----------------------------------------------------------------------------
\* Calendars

\* The calendar and the department are looked up before the transaction; "keep" is
\* a property the body does not name.
AsksCalendar(c, op, k, default, section) ==
  /\ calendarCalls[c] = NoCalendarCall /\ OneEdit
  /\ op # "create" => k \in Calendars
  /\ section \in Sections => section \in sections
  /\ CalendarCall(c, [op |-> op, at |-> "asked", id |-> k, default |-> default,
                      section |-> section, was |-> k \in Defaults])
  /\ UNCHANGED <<shelf, grants, sections>>

\* Faulty variant: what was read before the transaction decides.
StaysDefaultAsRead(call) ==
  call.was => call.op = "change" /\ call.default # "no" /\ call.section \notin Sections

\* The default calendar is not deleted, unset or moved to a department.
StaysDefault(call) ==
  shelf[call.id].default =>
    call.op = "change" /\ call.default # "no" /\ call.section \notin Sections

LockFree == \A c \in CalendarCalls : calendarCalls[c].at # "locked"

\* lockClubCalendars, and the check under it; a calendar that is gone is not found.
LocksCalendars(c) ==
  /\ calendarCalls[c].at = "asked" /\ LockFree
  /\ LET call == calendarCalls[c]
     IN CalendarCall(c, IF call.op = "create" \/ (call.id \in Calendars /\ StaysDefault(call))
                        THEN [call EXCEPT !.at = "locked"] ELSE NoCalendarCall)
  /\ UNCHANGED <<shelf, grants, sections, calendarEdits>>

Unset(all) == [k \in CalendarIds |-> [all[k] EXCEPT !.default = FALSE]]

\* POST: the standard calendar first when there is none; a department that is gone
\* fails the insert.
CreatesCalendar(c, first, k) ==
  /\ calendarCalls[c].op = "create" /\ calendarCalls[c].at = "locked"
  /\ {first, k} \cap Calendars = {}
  /\ first = k <=> Calendars # {}
  /\ LET call == calendarCalls[c]
         before == IF Calendars = {} THEN [shelf EXCEPT ![first] = Standard] ELSE shelf
         others == IF call.default = "yes" THEN Unset(before) ELSE before
     IN IF call.section \in Sections \ sections THEN UNCHANGED <<shelf, grants>>
        ELSE /\ shelf' = [others EXCEPT ![k] = [default |-> call.default = "yes",
                                                section |-> call.section]]
             /\ grants' = IF Calendars = {} THEN [grants EXCEPT ![first] = {"mitglied"}]
                          ELSE grants
  /\ CalendarCall(c, NoCalendarCall) /\ UNCHANGED <<sections, calendarEdits>>

\* PATCH: the default moves here, the properties the body names are set.
ChangesCalendar(c) ==
  /\ calendarCalls[c].op = "change" /\ calendarCalls[c].at = "locked"
  /\ LET call == calendarCalls[c]
         others == IF call.default = "yes" THEN Unset(shelf) ELSE shelf
         old == shelf[call.id]
     IN shelf' = IF call.id \notin Calendars \/ call.section \in Sections \ sections THEN shelf
                 ELSE [others EXCEPT ![call.id] =
                   [default |-> IF call.default = "keep" THEN old.default ELSE call.default = "yes",
                    section |-> IF call.section = "keep" THEN old.section ELSE call.section]]
  /\ CalendarCall(c, NoCalendarCall) /\ UNCHANGED <<grants, sections, calendarEdits>>

\* Calendars go with their grants; requests for them find nothing any more.
CalendarsGo(gone) ==
  /\ shelf' = [k \in CalendarIds |-> IF k \in gone THEN Missing ELSE shelf[k]]
  /\ calendarCalls' = [c \in CalendarCalls |->
       IF calendarCalls[c].id \in gone THEN NoCalendarCall ELSE calendarCalls[c]]

\* DELETE.
DeletesCalendar(c) ==
  /\ calendarCalls[c].op = "delete" /\ calendarCalls[c].at = "locked"
  /\ CalendarsGo({calendarCalls[c].id})
  /\ grants' = [grants EXCEPT ![calendarCalls[c].id] = {}]
  /\ UNCHANGED <<sections, calendarEdits>>

\* ensureClubHasCalendar: whoever lists the calendars of a club without one.
EnsuresCalendar(k) ==
  /\ Calendars = {} /\ LockFree /\ shelf' = [shelf EXCEPT ![k] = Standard]
  /\ grants' = [grants EXCEPT ![k] = {"mitglied"}]
  /\ UNCHANGED <<sections, calendarCalls, calendarEdits>>

\* The deletion of a department.
DeletesSection(s) ==
  /\ s \in sections /\ OneEdit /\ sections' = sections \ {s}
  /\ LET gone == {k \in Calendars : shelf[k].section = s}
     IN /\ CalendarsGo(gone)
        /\ grants' = [k \in CalendarIds |-> IF k \in gone THEN {} ELSE grants[k] \ {s}]

-----------------------------------------------------------------------------
\* Visibility

AddsGrant(k, g) ==
  /\ k \in Calendars
  /\ g \in Sections => g \in sections
  /\ g \notin grants[k] /\ OneEdit /\ grants' = [grants EXCEPT ![k] = @ \cup {g}]
  /\ UNCHANGED <<shelf, sections, calendarCalls>>

RemovesGrant(k, g) ==
  /\ g \in grants[k] /\ OneEdit /\ grants' = [grants EXCEPT ![k] = @ \ {g}]
  /\ UNCHANGED <<shelf, sections, calendarCalls>>

\* The external account leaves the club, its grants go with the membership.
GuestLeaves ==
  /\ \E k \in Calendars : "guest" \in grants[k]
  /\ OneEdit /\ grants' = [k \in CalendarIds |-> grants[k] \ {"guest"}]
  /\ UNCHANGED <<shelf, sections, calendarCalls>>

\* grantAllows and rule 1: what each kind of account sees.
VisibleTo(who) ==
  {k \in Calendars : who \in grants[k] \/ (who = "mitglied" /\ grants[k] = {})}

CalendarsNext ==
  \/ \E c \in CalendarCalls :
       \/ \E d \in {"yes", "no"}, s \in Anywhere : AsksCalendar(c, "create", "none", d, s)
       \/ \E k \in CalendarIds :
            \/ AsksCalendar(c, "delete", k, "keep", "keep")
            \/ \E d \in {"yes", "no", "keep"}, s \in Anywhere \cup {"keep"} :
                 AsksCalendar(c, "change", k, d, s)
       \/ LocksCalendars(c) \/ ChangesCalendar(c) \/ DeletesCalendar(c)
       \/ \E first, k \in CalendarIds : CreatesCalendar(c, first, k)
  \/ \E k \in CalendarIds :
       \/ EnsuresCalendar(k)
       \/ \E g \in Grantees : AddsGrant(k, g) \/ RemovesGrant(k, g)
  \/ \E s \in Sections : DeletesSection(s)
  \/ GuestLeaves

CalendarsSpec == CalendarsInit /\ [][CalendarsNext]_calendarVars

-----------------------------------------------------------------------------
\* Properties

\* calendars_one_default_per_club_uidx is never hit: the old default is unset first.
AtMostOneDefault == Cardinality(Defaults) <= 1

\* Handing over, deleting and creating in any order leave a club its default; it goes
\* only together with the department it was given to.
DefaultGoesWithItsSection ==
  Defaults # {} => Defaults' # {} \/ \E k \in Defaults : shelf[k].section \notin sections'

\* The calendar that is the default is not moved to a department.
DefaultIsNotMoved ==
  \A k \in Defaults \cap Defaults' : shelf'[k].section \in {shelf[k].section, ClubWide}

\* The calendars of a club.
CalendarsPromise ==
  /\ [](CalendarsTypeOK /\ AtMostOneDefault)
  /\ [][DefaultGoesWithItsSection /\ DefaultIsNotMoved]_calendarVars

\* "Every club has a standard calendar [...] exactly one default per club"
\* (README.md:707), once it has calendars.
ExactlyOneDefault == Calendars # {} => Cardinality(Defaults) = 1

\* The deletion of a department never shows a calendar to members who did not see it.
RestrictedStaysRestricted ==
  sections' # sections => VisibleTo("mitglied")' \subseteq VisibleTo("mitglied")

-----------------------------------------------------------------------------
(* Reminders (src/src/lib/reminders.ts) of one matter: an event, a loan, a     *)
(* meeting, an invitation, a credential or the maintenance of the inventory.   *)
(* The sweep schedules a job under the key kind:ref:date, the job hands the    *)
(* message to the dispatcher, which keeps one delivery a recipient, message    *)
(* and date; finished jobs, and their keys, are deleted after a while.         *)
CONSTANTS
  Persons,
  LastRemindDay,
  Lead,          \* days ahead of the date
  Steps,         \* days after which an overdue loan is reminded again
  NoticeWindow,  \* days in which something expired is still told
  JobKeep,       \* days a finished job is kept
  MaxMatterMoves

ASSUME RemindersAssumption ==
  /\ LastRemindDay \in Nat \ {0} /\ {Lead, NoticeWindow, JobKeep, MaxMatterMoves} \subseteq Nat
  /\ Steps \subseteq Nat \ {0} /\ \E s \in Steps : \A t \in Steps : t <= s

VARIABLES
  matter,        \* [kind, date, open]
  concerned,     \* attendees, borrower, invitees without an answer, holder, leadership
  remindDay,
  remindJobs,    \* jobs: key, the persons it was decided for, state, the day it ended
  reminded,      \* deliveries: person, key, and how many of them there are
  matterMoves,
  keysMeant      \* history: what each key of a loan was decided for

reminderVars == <<matter, concerned, remindDay, remindJobs, reminded, matterMoves, keysMeant>>

RemindDays == 1..LastRemindDay
MatterKinds == {"event", "loan", "rsvp", "invite", "credential", "maintenance"}
LastStep == CHOOSE s \in Steps : \A t \in Steps : t <= s

\* The leadership is found by its roles when the job runs.
ByRole == matter.kind \in {"invite", "maintenance"}

Whats == {"event", "rsvp", "due", "overdue", "expiring", "expired", "maintenance"}
Keys == [what: Whats, date: 1..LastRemindDay + LastStep]

Matter == [kind: MatterKinds, date: RemindDays, open: BOOLEAN]

RemindersTypeOK ==
  /\ matter \in Matter
  /\ concerned \subseteq Persons /\ remindDay \in RemindDays /\ matterMoves \in 0..MaxMatterMoves
  /\ \A j \in remindJobs :
       j.key \in Keys /\ j.people \subseteq Persons /\ j.state \in {"queued", "ran", "done"} /\ j.at \in 0..LastRemindDay
  /\ \A j, k \in remindJobs : j.key = k.key => j = k
  /\ reminded \subseteq [person: Persons, key: Keys, copy: 1..2]
  /\ keysMeant \subseteq [key: Keys, date: RemindDays, step: {0} \cup Steps]

RemindersInit ==
  /\ matter \in [kind: MatterKinds, date: RemindDays, open: {TRUE}]
  /\ concerned \in SUBSET Persons /\ remindDay = 1 /\ remindJobs = {} /\ reminded = {}
  /\ matterMoves = 0 /\ keysMeant = {}

-----------------------------------------------------------------------------
\* What is due (the collectors).

Near == remindDay >= matter.date - Lead
Passed == remindDay - matter.date

\* Something with a time ahead.
DueAhead(what) ==
  IF matter.open /\ Passed <= 0 /\ Near /\ concerned # {}
  THEN {[what |-> what, date |-> matter.date, step |-> 0]} ELSE {}

\* The attendees of an event, the invitees of a meeting who have not answered.
DueEvent == DueAhead("event")
DueRsvp == DueAhead("rsvp")

\* A loan: once before its date, then on the latest of the steps that have passed.
DueLoan ==
  LET past == {s \in Steps : s <= Passed}
      last == {s \in past : \A t \in past : t <= s}
  IN IF ~matter.open \/ ~Near THEN {}
     ELSE IF Passed <= 0 THEN {[what |-> "due", date |-> matter.date, step |-> 0]}
     ELSE {[what |-> "overdue", date |-> matter.date + s, step |-> s] : s \in last}

\* Something that expires: told ahead, and for some days after.
DueExpiry ==
  IF ~matter.open \/ ~Near \/ Passed > NoticeWindow THEN {}
  ELSE {[what |-> IF Passed > 0 THEN "expired" ELSE "expiring", date |-> matter.date, step |-> 0]}

\* An invitation that nobody accepted, a credential.
DueInvite == DueExpiry
DueCredential == DueExpiry

\* One digest a day while something is due.
DueMaintenance == IF Near THEN {[what |-> "maintenance", date |-> remindDay, step |-> 0]} ELSE {}

DueReminders ==
  CASE matter.kind = "event" -> DueEvent
    [] matter.kind = "loan" -> DueLoan
    [] matter.kind = "maintenance" -> DueMaintenance
    [] matter.kind = "rsvp" -> DueRsvp
    [] matter.kind = "invite" -> DueInvite
    [] matter.kind = "credential" -> DueCredential

-----------------------------------------------------------------------------

RemindDayPasses ==
  /\ remindDay < LastRemindDay /\ remindDay' = remindDay + 1
  /\ UNCHANGED <<matter, concerned, remindJobs, reminded, matterMoves, keysMeant>>

\* runReminderSweep: a job for what is due, unless its key is taken.
SweepReminds ==
  \E due \in DueReminders :
    LET key == [what |-> due.what, date |-> due.date]
        taken == \E j \in remindJobs : j.key = key
    IN /\ remindJobs' = IF taken THEN remindJobs
                        ELSE remindJobs \cup {[key |-> key, people |-> concerned, state |-> "queued", at |-> 0]}
       /\ keysMeant' = IF matter.kind # "loan" THEN keysMeant
                       ELSE keysMeant \cup {[key |-> key, date |-> matter.date, step |-> due.step]}
       /\ UNCHANGED <<matter, concerned, remindDay, reminded, matterMoves>>

TellsOf(person, key) == {r \in reminded : r.person = person /\ r.key = key}

\* Faulty variant: the dispatcher does not look for an earlier delivery.
UntoldAnyway(person, key) == TRUE

\* The unique index of deliveries: event key, ref with the date, recipient.
Untold(person, key) == TellsOf(person, key) = {}

\* notify_reminder: hands over the message; it runs again when its end was not recorded.
RunsReminder(j) ==
  LET audience == IF ByRole THEN concerned ELSE j.people
  IN /\ j.state # "done"
     /\ reminded' = reminded \cup
          {[person |-> p, key |-> j.key, copy |-> IF TellsOf(p, j.key) = {} THEN 1 ELSE 2] :
             p \in {q \in audience : Untold(q, j.key)}}
     /\ remindJobs' = (remindJobs \ {j}) \cup {[j EXCEPT !.state = "ran"]}
     /\ UNCHANGED <<matter, concerned, remindDay, matterMoves, keysMeant>>

EndsReminder(j) ==
  /\ j.state = "ran" /\ remindJobs' = (remindJobs \ {j}) \cup {[j EXCEPT !.state = "done", !.at = remindDay]}
  /\ UNCHANGED <<matter, concerned, remindDay, reminded, matterMoves, keysMeant>>

\* jobs-retention.
DeletesOldJob(j) ==
  /\ j.state = "done" /\ j.at < remindDay - JobKeep /\ remindJobs' = remindJobs \ {j}
  /\ UNCHANGED <<matter, concerned, remindDay, reminded, matterMoves, keysMeant>>

MatterMove == matterMoves < MaxMatterMoves /\ matterMoves' = matterMoves + 1

\* Faulty variant: a loan is also extended to a day that has passed.
MayMoveToAnywhere(date) == date > matter.date

\* A loan is extended to a later day than its own and than today.
MayMoveTo(date) == matter.kind # "loan" \/ (date > matter.date /\ date > remindDay)

\* An event or a meeting moves, a loan is extended, a credential renewed (an
\* invitation that is sent again is a new one, with a key of its own).
MovesMatter(date) ==
  /\ MatterMove /\ matter.open /\ matter.kind # "invite" /\ date # matter.date /\ MayMoveTo(date)
  /\ matter' = [matter EXCEPT !.date = date]
  /\ UNCHANGED <<concerned, remindDay, remindJobs, reminded, keysMeant>>

\* It is cancelled, returned, accepted or archived.
ClosesMatter ==
  /\ matter.open /\ matter.kind # "maintenance" /\ matter' = [matter EXCEPT !.open = FALSE]
  /\ UNCHANGED <<concerned, remindDay, remindJobs, reminded, matterMoves, keysMeant>>

\* Somebody registers or withdraws, answers, gains or loses the role.
ConcernedChange(p) ==
  /\ MatterMove /\ matter.kind \notin {"loan", "credential"}
  /\ concerned' = IF p \in concerned THEN concerned \ {p} ELSE concerned \cup {p}
  /\ UNCHANGED <<matter, remindDay, remindJobs, reminded, keysMeant>>

RemindersNext ==
  \/ RemindDayPasses \/ SweepReminds \/ ClosesMatter
  \/ \E j \in remindJobs : RunsReminder(j) \/ EndsReminder(j) \/ DeletesOldJob(j)
  \/ \E date \in RemindDays : MovesMatter(date)
  \/ \E p \in Persons : ConcernedChange(p)

RemindersSpec == RemindersInit /\ [][RemindersNext]_reminderVars

-----------------------------------------------------------------------------
\* Properties

\* "exactly-once, however often it sweeps": nobody is reminded twice of the same
\* date, when a job runs again and when its key was deleted while the matter is
\* still due (an overdue loan stays due on its last step).
RemindedOnce ==
  \A r, s \in reminded : r.person = s.person /\ r.key = s.key => r = s

\* A key stands for one date of the matter and one step: a reminder of a loan that
\* was extended is never taken for one of its earlier date.
OneMeaning == \A k, l \in keysMeant : k.key = l.key => k = l

\* The steps of a late loan are decided in their order, and after a downtime only
\* the latest: none is scheduled once a later one of the same date was.
StepsAhead ==
  \A k \in keysMeant' \ keysMeant, l \in keysMeant :
    k.key.what = "overdue" /\ l.key.what = "overdue" /\ k.date = l.date => k.step > l.step

RemindersPromise == [](RemindersTypeOK /\ RemindedOnce /\ OneMeaning) /\ [][StepsAhead]_reminderVars

\* README.md:1105, on the reminder of an event: "cancelled events never".
CancelledEventsRest ==
  [][matter.kind = "event" /\ ~matter.open => reminded' = reminded]_reminderVars

-----------------------------------------------------------------------------
\* What the components around an event and its calendar promise, together.
EventsPromise ==
  /\ RidesPromise
  /\ AttendancePromise
  /\ CalendarsPromise
  /\ RemindersPromise
=============================================================================
