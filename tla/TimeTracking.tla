------------------------------ MODULE TimeTracking ------------------------------
(***************************************************************************)
(* The recorded hours of one person (src/src/routes/time-tracking.ts,           *)
(* lib/time-tracking.ts): a clock that is started and stopped, hours entered    *)
(* by hand or taken over from an event, corrected, deleted, confirmed or        *)
(* rejected.                                                                   *)
(*                                                                         *)
(* Two kinds of locks matter: the advisory lock of the person and the locks of  *)
(* the entries' rows.  Correcting takes the row first, stopping the clock the    *)
(* advisory lock first, so both are two steps.  What takes a single lock, or     *)
(* its last one, is done with it in one step.  Times are counted in units of     *)
(* the five minutes an entry may lie in the future.                             *)
(***************************************************************************)
EXTENDS Integers, FiniteSets

CONSTANTS
  TimeEntries,  \* entries of the person
  TimeCalls,    \* concurrent calls
  LastTime,     \* bound on the clock
  MaxLength,    \* MAX_ENTRY_HOURS
  MaxAge,       \* MAX_AGE_DAYS
  EventTimes    \* where the event the person supervised may lie: <<from, to>>

ASSUME TimeTrackingAssumption ==
  /\ {LastTime, MaxLength, MaxAge} \subseteq Nat /\ LastTime > 0
  /\ EventTimes \subseteq (Nat \ {0}) \X Nat /\ EventTimes # {}

VARIABLES
  clock,       \* the time
  eventAt,     \* the event the person supervised: <<from, to>>
  entries,     \* time_entries
  timeCalls    \* calls between two steps

timeVars == <<clock, eventAt, entries, timeCalls>>

-----------------------------------------------------------------------------
Slack == 1     \* an entry ends at most five minutes in the future
Unfinished == 0
NoTimeEntry == [status |-> "none"]
NoTimeCall == [op |-> "none"]
EntryTimes == 1..(LastTime + Slack)

TimeEntry == [status: {"offen", "bestaetigt", "abgelehnt"}, from: EntryTimes,
          to: EntryTimes \cup {Unfinished}, event: BOOLEAN]

TimeTypeOK ==
  /\ clock \in 1..LastTime
  /\ eventAt \in EventTimes
  /\ entries \in [TimeEntries -> TimeEntry \cup {NoTimeEntry}]
  /\ timeCalls \in [TimeCalls ->
       {NoTimeCall} \cup [op: {"stop"}] \cup [op: {"adopt"}, from: EntryTimes, to: EntryTimes]
         \cup [op: {"correct"}, entry: TimeEntries, from: EntryTimes, to: EntryTimes]]

TimeInit ==
  /\ clock = 1 /\ eventAt \in EventTimes
  /\ entries = [e \in TimeEntries |-> NoTimeEntry]
  /\ timeCalls = [c \in TimeCalls |-> NoTimeCall]

-----------------------------------------------------------------------------
Entered == {e \in TimeEntries : entries[e] # NoTimeEntry}
Clocked == {e \in Entered : entries[e].to = Unfinished}
CountedEntries == {e \in Entered : entries[e].status # "abgelehnt"}

PersonIsFree == \A c \in TimeCalls : timeCalls[c].op # "stop"
RowIsFree(e) == \A c \in TimeCalls : timeCalls[c].op = "correct" => timeCalls[c].entry # e

\* assertEntryWindow
InWindow(from, to) ==
  /\ from < to /\ to <= clock + Slack
  /\ to - from <= MaxLength
  /\ clock - from <= MaxAge

\* assertNoOverlap; a running entry counts until now.  An entry that starts
\* exactly where the new one ends is refused too.
EndOf(e) == IF entries[e].to = Unfinished THEN clock ELSE entries[e].to
ClashesStopped(e, from, to) == e \notin Clocked /\ entries[e].from <= to /\ entries[e].to > from
Clashes(e, from, to) == entries[e].from <= to /\ EndOf(e) > from
NoOverlap(from, to, except) == \A e \in CountedEntries \ {except} : ~Clashes(e, from, to)

PutEntry(e, entry) == entries' = [entries EXCEPT ![e] = entry]
Calling(c, call) == timeCalls' = [timeCalls EXCEPT ![c] = call]
RecordedHours(from, to, event) == [status |-> "offen", from |-> from, to |-> to, event |-> event]

-----------------------------------------------------------------------------
\* POST /clock-in: there is no running entry; what is entered already is not looked at.
ClocksIn(e) ==
  /\ PersonIsFree /\ entries[e] = NoTimeEntry /\ Clocked = {}
  /\ PutEntry(e, RecordedHours(clock, Unfinished, FALSE))
  /\ UNCHANGED <<clock, eventAt, timeCalls>>

\* POST /clock-out: the advisory lock, then the running row.
StartsStop(c) ==
  /\ timeCalls[c] = NoTimeCall /\ PersonIsFree
  /\ Calling(c, [op |-> "stop"])
  /\ UNCHANGED <<clock, eventAt, entries>>

StopsAt(c) ==
  /\ timeCalls[c].op = "stop"
  /\ \A e \in Clocked : RowIsFree(e)
  /\ \/ \E e \in Clocked : /\ InWindow(entries[e].from, clock)
                           /\ PutEntry(e, [entries[e] EXCEPT !.to = clock])
     \/ /\ \A e \in Clocked : ~InWindow(entries[e].from, clock)
        /\ UNCHANGED entries
  /\ Calling(c, NoTimeCall)
  /\ UNCHANGED <<clock, eventAt>>

\* POST /: hours entered by hand.
Enters(e, from, to) ==
  /\ PersonIsFree /\ entries[e] = NoTimeEntry
  /\ InWindow(from, to) /\ NoOverlap(from, to, e)
  /\ PutEntry(e, RecordedHours(from, to, FALSE))
  /\ UNCHANGED <<clock, eventAt, timeCalls>>

\* POST /from-event: the proposal and its times are read before the lock.
ReadsProposal(c) ==
  /\ timeCalls[c] = NoTimeCall
  /\ eventAt[1] <= clock /\ InWindow(eventAt[1], eventAt[2])
  /\ ~\E e \in CountedEntries : entries[e].event
  /\ Calling(c, [op |-> "adopt", from |-> eventAt[1], to |-> eventAt[2]])
  /\ UNCHANGED <<clock, eventAt, entries>>

Adopts(c, e) ==
  /\ timeCalls[c].op = "adopt" /\ PersonIsFree /\ entries[e] = NoTimeEntry
  /\ IF NoOverlap(timeCalls[c].from, timeCalls[c].to, e)
     THEN PutEntry(e, RecordedHours(timeCalls[c].from, timeCalls[c].to, TRUE)) ELSE UNCHANGED entries
  /\ Calling(c, NoTimeCall)
  /\ UNCHANGED <<clock, eventAt>>

\* PATCH /:id: the row, the checks on it, the advisory lock, the overlap.
StillOpen(e) == e \in Entered /\ entries[e].status = "offen"
CorrectableRunning(e) == StillOpen(e)
Correctable(e) == StillOpen(e) /\ entries[e].to # Unfinished

StartsCorrection(c, e, from, to) ==
  /\ timeCalls[c] = NoTimeCall /\ RowIsFree(e)
  /\ Correctable(e)
  /\ InWindow(from, to)
  /\ Calling(c, [op |-> "correct", entry |-> e, from |-> from, to |-> to])
  /\ UNCHANGED <<clock, eventAt, entries>>

Corrects(c) ==
  /\ timeCalls[c].op = "correct" /\ PersonIsFree
  /\ LET call == timeCalls[c]
     IN  IF NoOverlap(call.from, call.to, call.entry)
         THEN PutEntry(call.entry, [entries[call.entry] EXCEPT !.from = call.from, !.to = call.to])
         ELSE UNCHANGED entries
  /\ Calling(c, NoTimeCall)
  /\ UNCHANGED <<clock, eventAt>>

\* DELETE /:id
Deletes(e) ==
  /\ RowIsFree(e) /\ StillOpen(e)
  /\ PutEntry(e, NoTimeEntry)
  /\ UNCHANGED <<clock, eventAt, timeCalls>>

\* POST /:id/confirm and /:id/reject, by somebody else.
DecidesHours(e, status) ==
  /\ RowIsFree(e) /\ StillOpen(e) /\ entries[e].to # Unfinished
  /\ PutEntry(e, [entries[e] EXCEPT !.status = status])
  /\ UNCHANGED <<clock, eventAt, timeCalls>>

-----------------------------------------------------------------------------
MovesEvent ==
  /\ eventAt' \in EventTimes \ {eventAt}
  /\ UNCHANGED <<clock, entries, timeCalls>>

TimeGoesOn ==
  /\ clock < LastTime
  /\ clock' = clock + 1
  /\ UNCHANGED <<eventAt, entries, timeCalls>>

OnEntry(e) ==
  \/ ClocksIn(e) \/ Deletes(e)
  \/ \E status \in {"bestaetigt", "abgelehnt"} : DecidesHours(e, status)
  \/ \E from, to \in EntryTimes : Enters(e, from, to)

OnTimeCall(c) ==
  \/ StartsStop(c) \/ StopsAt(c) \/ ReadsProposal(c) \/ Corrects(c)
  \/ \E e \in TimeEntries : Adopts(c, e)
  \/ \E e \in TimeEntries, from, to \in EntryTimes : StartsCorrection(c, e, from, to)

TimeNext ==
  \/ \E e \in TimeEntries : OnEntry(e)
  \/ \E c \in TimeCalls : OnTimeCall(c)
  \/ MovesEvent \/ TimeGoesOn

TimeSpec == TimeInit /\ [][TimeNext]_timeVars

-----------------------------------------------------------------------------
\* No hour is counted twice: two entries that may be paid share at most the
\* five minutes an entry may reach into the future, however clock, manual
\* entries and corrections interleave (lib/time-tracking.ts:99).
Shared(e, f) ==
  LET from == IF entries[e].from > entries[f].from THEN entries[e].from ELSE entries[f].from
      to == IF EndOf(e) < EndOf(f) THEN EndOf(e) ELSE EndOf(f)
  IN  to - from
HoursCountOnce == \A e, f \in CountedEntries : e # f => Shared(e, f) <= Slack

\* Stopping the clock and correcting an entry take their two locks in opposite
\* orders (routes/time-tracking.ts:165 and :272); they never wait for each
\* other, because a running entry is refused before the second lock.
NoTimeLockCycle ==
  ~\E stop, correct \in TimeCalls :
     timeCalls[stop].op = "stop" /\ timeCalls[correct].op = "correct"
       /\ timeCalls[correct].entry \in Clocked

\* What somebody confirmed is what is paid: a decided entry stays as it was
\* although a correction may have been under way (routes/time-tracking.ts:265).
DecidedHoursStand ==
  [][\A e \in Entered : entries[e].status # "offen" => entries'[e] = entries[e]]_timeVars

TimePromise == [](TimeTypeOK /\ HoursCountOnce /\ NoTimeLockCycle) /\ DecidedHoursStand
=============================================================================
