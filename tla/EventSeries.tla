------------------------------ MODULE EventSeries ------------------------------
(***************************************************************************)
(* Recurring events (src/src/lib/event-series.ts, recurrence.ts,           *)
(* event-series-refill.ts and the routes over them): occurrences are rows of *)
(* events; a series is refilled up to its horizon, edited or removed with a *)
(* scope, and split.  An occurrence keeps its row, on which registrations   *)
(* hang, whenever an edit can be applied in place.                          *)
(*                                                                         *)
(* Every transaction holds the lock of the series and is one step.  COUNT is *)
(* an UNTIL here: both end the days a rule produces.                        *)
(***************************************************************************)
EXTENDS Integers, FiniteSets

CONSTANTS
  LastDate,    \* bound: days are 1..LastDate
  LastHour,   \* times of day are 0..LastHour
  Patterns,   \* sets of days a rule produces before its end
  Holidays,   \* days a series may skip
  Reach,      \* days ahead that are materialized
  MaxSeries,  \* bound: the series and what is split off
  MaxRows,    \* bound: occurrences at a time
  MaxEdits    \* bound: edits, removals and answers

ASSUME EventSeriesAssumption ==
  /\ {LastDate, MaxSeries, MaxRows} \subseteq Nat \ {0} /\ {LastHour, Reach, MaxEdits} \subseteq Nat
  /\ \A p \in Patterns : p \subseteq 1..LastDate
  /\ Holidays \subseteq 1..LastDate

VARIABLES
  series,       \* event_series
  occs,         \* events of a series
  exceptions,   \* event_series_exceptions
  now,          \* the instant
  seriesEdits         \* edits, removals and answers so far

seriesVars == <<series, occs, exceptions, now, seriesEdits>>

-----------------------------------------------------------------------------
\* An instant is a local time of a day.
MomentOf(d, h) == d * (LastHour + 1) + h
DayOf(t) == t \div (LastHour + 1)
Instants == MomentOf(1, 0)..MomentOf(LastDate, LastHour)

SeriesIds == 1..MaxSeries
RowIds == 1..MaxRows
NoSeries == [days |-> {}, hour |-> 0, skip |-> FALSE, start |-> 0, until |-> 0, horizon |-> 0]
NoOcc == [series |-> 0, orig |-> 0, override |-> FALSE, cancelled |-> FALSE, used |-> FALSE]

Occurrence == [series: SeriesIds, orig: Instants, override: BOOLEAN, cancelled: BOOLEAN, used: BOOLEAN]
Exception == [series: SeriesIds, orig: Instants, kind: {"entfaellt", "verschoben", "feiertag"}]

EventSeriesTypeOK ==
  /\ series \in [SeriesIds -> [days: Patterns \cup {{}}, hour: 0..LastHour, skip: BOOLEAN,
                               start: 0..LastDate, until: 0..LastDate, horizon: Nat]]
  /\ occs \in [RowIds -> {NoOcc} \cup Occurrence]
  /\ \A e \in RowIds : occs[e] # NoOcc => series[occs[e].series] # NoSeries
  /\ exceptions \subseteq Exception
  /\ \A x, y \in exceptions : x.series = y.series /\ x.orig = y.orig => x = y
  /\ now \in Instants /\ seriesEdits \in 0..MaxEdits

-----------------------------------------------------------------------------
\* expandSeries: the days of the rule from one instant to another, without those
\* that are blocked.
Produced(r, from, to, blocked) ==
  {MomentOf(d, r.hour) : d \in {d \in r.days : /\ r.start <= d /\ d <= r.until
                                          /\ from <= MomentOf(d, r.hour) /\ MomentOf(d, r.hour) <= to
                                          /\ d \notin blocked}}
HolidaysOf(r, instants) == {t \in instants : r.skip /\ DayOf(t) \in Holidays}
Expand(r, from, to, blocked) ==
  LET all == Produced(r, from, to, blocked) IN all \ HolidaysOf(r, all)

RowsOf(rows, s) == {e \in RowIds : rows[e].series = s}
ExceptionDays(table, s) == {DayOf(x.orig) : x \in {x \in table : x.series = s}}

\* onConflictDoNothing, or the kind replaced
Recorded(table, s, instants) ==
  table \cup {[series |-> s, orig |-> t, kind |-> "feiertag"] :
                t \in {t \in instants : ~\E x \in table : x.series = s /\ x.orig = t}}
Excepted(table, s, t, kind) ==
  {x \in table : ~(x.series = s /\ x.orig = t)} \cup {[series |-> s, orig |-> t, kind |-> kind]}

\* The order in which rows and instants are taken.
Rank(S, t) == Cardinality({u \in S : u < t})
AtRank(S, n) == {t \in S : Rank(S, t) = n}

\* insertOccurrences: what exists already is left alone.
Inserted(rows, s, instants) ==
  LET new  == instants \ {rows[e].orig : e \in RowsOf(rows, s)}
      free == {e \in RowIds : rows[e] = NoOcc}
  IN [e \in RowIds |->
        IF e \in free /\ AtRank(new, Rank(free, e)) # {}
        THEN [NoOcc EXCEPT !.series = s, !.orig = CHOOSE t \in AtRank(new, Rank(free, e)) : TRUE]
        ELSE rows[e]]
RoomFor(rows, s, instants) ==
  Cardinality(instants \ {rows[e].orig : e \in RowsOf(rows, s)})
    <= Cardinality({e \in RowIds : rows[e] = NoOcc})

\* removeOccurrences: cancelled when somebody has signed up, else deleted.
Deleted(rows, gone) ==
  [e \in RowIds |-> IF e \notin gone THEN rows[e]
                    ELSE IF rows[e].used THEN [rows[e] EXCEPT !.cancelled = TRUE] ELSE NoOcc]

\* Faulty variant: dropped days are forgotten.
BlockedByFixed(table, s, rows, fixed) == {DayOf(rows[e].orig) : e \in fixed}

\* Dropped, moved, overridden and cancelled occurrences block their day.
Blocked(table, s, rows, fixed) ==
  ExceptionDays(table, s) \cup {DayOf(rows[e].orig) : e \in fixed}

\* Occurrences move, the earliest to the earliest new instant.
Place(rows, old, e) == Rank({rows[x].orig : x \in old}, rows[e].orig)
Shifted(rows, old, new) ==
  [e \in RowIds |->
     IF e \in old /\ AtRank(new, Place(rows, old, e)) # {}
     THEN [rows[e] EXCEPT !.orig = CHOOSE t \in AtRank(new, Place(rows, old, e)) : TRUE]
     ELSE rows[e]]

\* reconcileOccurrences, with the rule r of series s
Reconcile(rows, table, s, r, from) ==
  LET live     == {x \in table : ~(x.series = s /\ x.kind = "feiertag" /\ x.orig >= from)}
      existing == {e \in RowsOf(rows, s) : rows[e].orig >= from}
      fixed    == {e \in existing : rows[e].override \/ rows[e].cancelled}
      blocked  == Blocked(live, s, rows, fixed)
      target   == Expand(r, from, r.horizon, blocked)
      kept     == {e \in existing \ fixed : rows[e].orig \in target}
      old      == (existing \ fixed) \ kept
      new      == target \ {rows[e].orig : e \in kept}
      shifted  == Shifted(rows, old, new)
      paired   == {e \in old : shifted[e] # rows[e]}
      left     == Deleted(shifted, old \ paired)
      fresh    == new \ {shifted[e].orig : e \in paired}
  IN [rows  |-> Inserted(left, s, fresh),
      fits  |-> RoomFor(left, s, fresh),
      table |-> Recorded(live, s, HolidaysOf(r, Produced(r, from, r.horizon, blocked)))]

-----------------------------------------------------------------------------
\* createSeries: the occurrences of the first months exist.
EventSeriesInit ==
  \E p \in Patterns, h \in 0..LastHour, skip \in BOOLEAN :
    LET r == [days |-> p, hour |-> h, skip |-> skip, start |-> 1, until |-> LastDate,
              horizon |-> MomentOf(1 + Reach, 0)]
        all == Produced(r, 0, r.horizon, {})
    IN /\ 1 \in p
       /\ series = [s \in SeriesIds |-> IF s = 1 THEN r ELSE NoSeries]
       /\ occs = Inserted([e \in RowIds |-> NoOcc], 1, all \ HolidaysOf(r, all))
       /\ exceptions = Recorded({}, 1, HolidaysOf(r, all))
       /\ now = MomentOf(1, 0) /\ seriesEdits = 0

Tick ==
  /\ now < MomentOf(LastDate, LastHour) /\ now' = now + 1
  /\ UNCHANGED <<series, occs, exceptions>>

\* extendHorizon, by the weekly job or by a read
Refill(s) ==
  LET r       == series[s]
      target  == now + MomentOf(Reach, 0)
      all     == Produced(r, r.horizon, target, ExceptionDays(exceptions, s))
      wanted  == all \ HolidaysOf(r, all)
  IN /\ r # NoSeries /\ target > r.horizon
     /\ RoomFor(occs, s, wanted)
     /\ occs' = Inserted(occs, s, wanted)
     /\ exceptions' = Recorded(exceptions, s, HolidaysOf(r, all))
     /\ series' = [series EXCEPT ![s].horizon = target]
     /\ UNCHANGED now

\* editedSeries
Edited(r, days, h, skip, until) ==
  [r EXCEPT !.days = days, !.hour = h, !.skip = skip, !.until = until]
SeriesEdits(r) == {Edited(r, p, h, skip, u) : p \in Patterns, h \in 0..LastHour, skip \in BOOLEAN,
                                              u \in {r.until, LastDate}}

\* Scope `all` from now on...
EditAllFrom(s, next, from) ==
  LET done == Reconcile(occs, exceptions, s, next, from)
  IN /\ done.fits
     /\ series' = [series EXCEPT ![s] = next]
     /\ occs' = done.rows /\ exceptions' = done.table
     /\ UNCHANGED now

EditAll(s, next) == /\ series[s] # NoSeries /\ next \in SeriesEdits(series[s])
                    /\ EditAllFrom(s, next, now)

\* ...and `this_and_following`: the series is split at the occurrence.
Split(s, e, next) ==
  LET at    == occs[e].orig
      fresh == CHOOSE n \in SeriesIds : series[n] = NoSeries
      base  == [next EXCEPT !.start = DayOf(at)]
      later(x) == x.series = s /\ x.orig >= at
      done  == Reconcile([x \in RowIds |-> IF later(occs[x]) THEN [occs[x] EXCEPT !.series = fresh]
                                           ELSE occs[x]],
                         {IF later(x) THEN [x EXCEPT !.series = fresh] ELSE x : x \in exceptions},
                         fresh, base, at)
  IN /\ DayOf(at) > series[s].start /\ DayOf(at) <= base.until
     /\ \E n \in SeriesIds : series[n] = NoSeries
     /\ done.fits
     /\ series' = [series EXCEPT ![s].until = DayOf(at) - 1, ![fresh] = base]
     /\ occs' = done.rows /\ exceptions' = done.table
     /\ UNCHANGED now

EditFollowing(s, e, next) ==
  /\ series[s] # NoSeries /\ occs[e].series = s /\ next \in SeriesEdits(series[s])
  /\ \/ Split(s, e, next)
     \/ DayOf(occs[e].orig) <= series[s].start /\ EditAllFrom(s, next, occs[e].orig)

\* Scope `this`, and PATCH /events/:id: the occurrence becomes an override.
EditThis(e, moves) ==
  /\ occs[e] # NoOcc
  /\ occs' = [occs EXCEPT ![e].override = TRUE]
  /\ exceptions' = IF moves
                   THEN Excepted(exceptions, occs[e].series, occs[e].orig, "verschoben")
                   ELSE exceptions
  /\ UNCHANGED <<series, now>>

-----------------------------------------------------------------------------
\* removeScoped, `this`
RemoveThis(e) ==
  /\ occs[e] # NoOcc
  /\ occs' = Deleted(occs, {e})
  /\ exceptions' = IF occs[e].used THEN exceptions
                   ELSE Excepted(exceptions, occs[e].series, occs[e].orig, "entfaellt")
  /\ UNCHANGED <<series, now>>

Later(d, e) == IF d < e THEN e ELSE d

\* `all` and `this_and_following`
RemoveFrom(s, from) ==
  LET rows  == Deleted(occs, {e \in RowsOf(occs, s) : occs[e].orig >= from})
      ends  == DayOf(from) - 1
      stays == RowsOf(rows, s) # {}
  IN /\ series[s] # NoSeries
     /\ occs' = rows
     /\ series' = [series EXCEPT ![s] =
                      IF stays THEN [series[s] EXCEPT !.until = Later(ends, series[s].start)]
                      ELSE NoSeries]
     /\ exceptions' = {x \in exceptions : x.series = s => stays /\ x.orig < from}
     /\ UNCHANGED now

\* DELETE /events/:id: what people signed up for goes, too.
DeleteEvent(e) ==
  /\ occs[e] # NoOcc
  /\ occs' = [occs EXCEPT ![e] = NoOcc]
  /\ exceptions' = Excepted(exceptions, occs[e].series, occs[e].orig, "entfaellt")
  /\ UNCHANGED <<series, now>>

\* POST /events/:id/cancel
CancelEvent(e) ==
  /\ occs[e] # NoOcc /\ ~occs[e].cancelled
  /\ occs' = [occs EXCEPT ![e].cancelled = TRUE]
  /\ UNCHANGED <<series, exceptions, now>>

\* Somebody signs up, or the last one leaves.
SignUp(e) ==
  /\ occs[e] # NoOcc /\ ~occs[e].cancelled /\ ~occs[e].used
  /\ occs' = [occs EXCEPT ![e].used = TRUE]
  /\ UNCHANGED <<series, exceptions, now>>

SignOff(e) ==
  /\ occs[e] # NoOcc /\ occs[e].used
  /\ occs' = [occs EXCEPT ![e].used = FALSE]
  /\ UNCHANGED <<series, exceptions, now>>

-----------------------------------------------------------------------------
Refills == \E s \in SeriesIds : Refill(s)

SeriesStep ==
  \E s \in SeriesIds :
    \/ \E next \in SeriesEdits(series[s]) : EditAll(s, next) \/ \E e \in RowIds : EditFollowing(s, e, next)
    \/ RemoveFrom(s, now)
    \/ \E e \in RowIds : occs[e].series = s /\ RemoveFrom(s, occs[e].orig)

OccurrenceStep ==
  \E e \in RowIds : \/ RemoveThis(e) \/ DeleteEvent(e) \/ CancelEvent(e)
                    \/ SignUp(e) \/ SignOff(e)
                    \/ \E moves \in BOOLEAN : EditThis(e, moves)

EventSeriesNext ==
  \/ (Tick \/ Refills) /\ UNCHANGED seriesEdits
  \/ seriesEdits < MaxEdits /\ seriesEdits' = seriesEdits + 1 /\ (SeriesStep \/ OccurrenceStep)

EventSeriesSpec == EventSeriesInit /\ [][EventSeriesNext]_seriesVars

-----------------------------------------------------------------------------
\* Properties

\* The rows of a series have distinct original instants, through every shift,
\* split and refill: no edit runs into the unique key of events.
OriginalsDistinct ==
  \A e, f \in RowIds : occs[e] # NoOcc /\ occs[e].series = occs[f].series
                       /\ occs[e].orig = occs[f].orig => e = f

\* A dropped occurrence stays dropped: no refill, split or edit of the time of day
\* brings its day back.
DroppedStaysDropped ==
  \A x \in exceptions' : x.kind = "entfaellt" =>
    \A e \in RowIds : occs'[e].series = x.series /\ DayOf(occs'[e].orig) = DayOf(x.orig)
                       => DayOf(occs[e].orig) = DayOf(x.orig)

\* Whatever happens to a series, the occurrence somebody signed up for stays, at
\* worst cancelled; only DELETE /events/:id takes it away.
SignedUpStays ==
  \A e \in RowIds : occs[e].used /\ occs'[e] = NoOcc => DeleteEvent(e)

SeriesPromise ==
  /\ [](EventSeriesTypeOK /\ OriginalsDistinct)
  /\ [][DroppedStaysDropped /\ SignedUpStays]_seriesVars

\* event-series.ts:18: "Occurrences keep their `events.id` (RSVPs, attendance and
\* helper plans hang on it) whenever the edit can be applied in place."  A split
\* that changes nothing but the time of day leaves every occurrence on its day.
SplitKeepsTheDays ==
  \A s \in SeriesIds, e \in RowIds, h \in 0..LastHour :
    occs[e].series = s /\ Split(s, e, [series[s] EXCEPT !.hour = h])
      => \A f \in RowIds : occs[f].series = s /\ ~occs[f].override /\ ~occs[f].cancelled
                           /\ occs'[f] # NoOcc
           => DayOf(occs'[f].orig) = DayOf(occs[f].orig)
=============================================================================
