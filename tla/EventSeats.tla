------------------------------- MODULE EventSeats -------------------------------
(***************************************************************************)
(* The seats of one event (src/src/lib/event-seats.ts, event-registration.ts,*)
(* event-guests.ts and the routes over them): registrations with companions, *)
(* answers of guardians for wards without account, guests who confirm an     *)
(* address first, the waitlist, and the organiser.                          *)
(*                                                                         *)
(* Every write locks the event.  What is read before the lock: the capacity  *)
(* and the registration a guardian's answer starts from, and the rows the    *)
(* sweep of unconfirmed guests deletes.  A raised capacity and the waitlist  *)
(* that moves up are two transactions.                                     *)
(***************************************************************************)
EXTENDS Integers, FiniteSets, Sequences

CONSTANTS
  Accounts,    \* members with an account
  Wards,       \* members without one, answered for by a guardian
  Guests,      \* e-mail addresses
  Sizes,       \* sizes of a party
  Capacities,  \* capacities an organiser sets
  NoLimit      \* no capacity

\* A ward has a registration or, as a legacy, an answer of its own table.
AnswerOf(w) == <<w>>
Registrations == Accounts \cup Wards \cup Guests

ASSUME EventSeatsAssumption ==
  /\ Sizes \subseteq Nat \ {0} /\ Capacities \subseteq Nat \ {0}
  /\ NoLimit \notin Nat
  /\ IsFiniteSet(Accounts) /\ IsFiniteSet(Wards) /\ IsFiniteSet(Guests)
  /\ Accounts \cap Wards = {} /\ (Accounts \cup Wards) \cap Guests = {}
  /\ \A w \in Wards : AnswerOf(w) \notin Registrations
  /\ <<>> \notin Registrations

VARIABLES
  capacity,   \* events.capacity
  open,       \* registration: open, past its deadline, or the event cancelled
  rows,       \* event_attendees and ward_event_responses
  answered,   \* rows with an answer, by responded_at
  expired,    \* unconfirmed guests whose 48 hours are over
  dueGuests,  \* rows the sweep has selected
  guardian,   \* a guardian's answer under way: what it has read
  promoting   \* a raised capacity whose waitlist has not moved up yet

seatVars == <<capacity, open, rows, answered, expired, dueGuests, guardian, promoting>>

-----------------------------------------------------------------------------
RowKeys == Registrations \cup {AnswerOf(w) : w \in Wards}

NoRow == [status |-> "none", size |-> 0]
Row == {NoRow} \cup [status: {"seated", "waiting", "unconfirmed"}, size: Sizes \cup {1}]
NotAnswering == [registered |-> FALSE, capacity |-> 0]

\* Whether registration is open, over, or the event is off.
RegistrationStates == {"open", "closed", "cancelled"}

EventSeatsTypeOK ==
  /\ capacity \in Capacities \cup {NoLimit}
  /\ open \in RegistrationStates
  /\ rows \in [RowKeys -> Row]
  /\ answered \in Seq(RowKeys)
  /\ \A i, j \in DOMAIN answered : answered[i] = answered[j] => i = j
  /\ {answered[i] : i \in DOMAIN answered} = {k \in RowKeys : rows[k].status \in {"seated", "waiting"}}
  /\ expired \subseteq {g \in Guests : rows[g].status = "unconfirmed"}
  /\ dueGuests \subseteq Guests
  /\ guardian \in [Wards -> {NotAnswering} \cup [registered: BOOLEAN,
                                                 capacity: Capacities \cup {NoLimit}]]
  /\ promoting \in BOOLEAN

EventSeatsInit ==
  /\ capacity \in Capacities \cup {NoLimit}
  /\ open = "open"
  /\ rows = [k \in RowKeys |-> NoRow]
  /\ answered = <<>>
  /\ expired = {} /\ dueGuests = {}
  /\ guardian = [w \in Wards |-> NotAnswering]
  /\ promoting = FALSE

-----------------------------------------------------------------------------
SeatedRows(table) == {k \in RowKeys : table[k].status = "seated"}

\* The seats those rows take, one by one.
SeatsOf(table, keys) == UNION {{k} \X (1..table[k].size) : k \in keys}

\* Faulty variant: the answers of wards without registration are not counted.
TakenByRegistrations(table, except) ==
  Cardinality(SeatsOf(table, (SeatedRows(table) \cap Registrations) \ {except}))

\* takenSeats, without one of the rows.
Taken(table, except) == Cardinality(SeatsOf(table, SeatedRows(table) \ {except}))

\* fits
Fits(limit, taken, size) == IF limit = NoLimit THEN TRUE ELSE taken + size <= limit

\* A party larger than the event is refused.
SizeAllowed(size) == Fits(capacity, 0, size)

\* One entry of the waitlist: a group that does not fit blocks nobody.
MovesUp(table, k, limit) ==
  IF table[k].status = "waiting" /\ Fits(limit, Taken(table, <<>>), table[k].size)
  THEN [table EXCEPT ![k].status = "seated"] ELSE table

\* promoteWaitlist, waitingEntries: the oldest answer first.
Promote(table, queue, limit) ==
  LET moved[i \in 0..Len(queue)] ==
        IF i = 0 THEN table ELSE MovesUp(moved[i - 1], queue[i], limit)
  IN moved[Len(queue)]

\* Those of a queue that are in the set, in their order.
Only(queue, keys) ==
  LET those[i \in 0..Len(queue)] ==
        IF i = 0 THEN <<>>
        ELSE IF queue[i] \in keys THEN Append(those[i - 1], queue[i]) ELSE those[i - 1]
  IN those[Len(queue)]

Without(k) == Only(answered, RowKeys \ {k})

\* The row goes; if it had a seat, the waitlist moves up.
Removes(k, limit) ==
  LET table == [rows EXCEPT ![k] = NoRow]
  IN /\ answered' = Without(k)
     /\ rows' = IF rows[k].status = "seated" THEN Promote(table, Without(k), limit) ELSE table
     /\ dueGuests' = dueGuests \ {k}
     /\ expired' = expired \ {k}

\* Who has a seat is refused rather than demoted.
Refuses(holds, status) == holds /\ status = "waiting"

\* saveRegistration
Save(p, size) ==
  LET legacy == IF p \in Wards THEN AnswerOf(p) ELSE p
      table  == IF p \in Wards THEN [rows EXCEPT ![legacy] = NoRow] ELSE rows
      had    == rows[p]
      holds  == had.status = "seated" \/ (p \in Wards /\ rows[legacy].status = "seated")
      status == IF Fits(capacity, Taken(table, p), size) THEN "seated" ELSE "waiting"
      keeps  == had.status = "waiting" /\ status = "waiting"
      queue  == Only(answered, {e \in RowKeys : (keeps \/ e # p) /\ (p \notin Wards \/ e # legacy)})
      now    == IF keeps THEN queue ELSE Append(queue, p)
      saved  == [table EXCEPT ![p] = [status |-> status, size |-> size]]
  IN /\ open = "open"
     /\ SizeAllowed(size)
     /\ ~Refuses(holds, status)
     /\ answered' = now
     /\ rows' = IF had # NoRow /\ (had.size > size \/ had.status # "seated")
                THEN Promote(saved, now, capacity) ELSE saved

Register(p, size) ==
  /\ p \in Accounts \cup Wards
  /\ Save(p, size)
  /\ UNCHANGED <<capacity, open, expired, dueGuests, guardian, promoting>>

\* cancelRegistration: also of a legacy answer.
CancelRegistration(p) ==
  /\ p \in Accounts \cup Wards
  /\ IF rows[p] # NoRow THEN Removes(p, capacity)
     ELSE p \in Wards /\ rows[AnswerOf(p)] # NoRow /\ Removes(AnswerOf(p), capacity)
  /\ UNCHANGED <<capacity, open, guardian, promoting>>

-----------------------------------------------------------------------------
\* PUT wards/:id/events/:id/response: the event and the registration of the ward
\* are read first.
GuardianReads(w) ==
  /\ guardian[w] = NotAnswering /\ open # "cancelled"
  /\ guardian' = [guardian EXCEPT ![w] = [registered |-> rows[w] # NoRow, capacity |-> capacity]]
  /\ UNCHANGED <<capacity, open, rows, answered, expired, dueGuests, promoting>>

\* Then the answer is written under the lock, by the capacity that was read.
GuardianAnswers(w, comes) ==
  LET key    == AnswerOf(w)
      limit  == guardian[w].capacity
      status == IF ~comes THEN "none"
                ELSE IF Fits(limit, Taken(rows, key), 1) THEN "seated" ELSE "waiting"
      table  == [rows EXCEPT ![key] = IF comes THEN [status |-> status, size |-> 1] ELSE NoRow]
      now    == IF comes THEN Append(Without(key), key) ELSE Without(key)
  IN /\ guardian[w] # NotAnswering
     /\ guardian' = [guardian EXCEPT ![w] = NotAnswering]
     /\ IF guardian[w].registered
        THEN IF comes
             THEN \/ Save(w, IF rows[w] = NoRow THEN 1 ELSE rows[w].size) /\ UNCHANGED <<expired, dueGuests>>
                  \/ open # "open" /\ UNCHANGED <<rows, answered, expired, dueGuests>>
             ELSE IF rows[w] # NoRow THEN Removes(w, capacity)
                  ELSE UNCHANGED <<rows, answered, expired, dueGuests>>
        ELSE /\ answered' = now
             /\ rows' = IF rows[key].status = "seated" /\ status # "seated" /\ limit # NoLimit
                        THEN Promote(table, now, limit) ELSE table
             /\ UNCHANGED <<expired, dueGuests>>
     /\ UNCHANGED <<capacity, open, promoting>>

-----------------------------------------------------------------------------
\* registerGuest: a new address, or one that has not confirmed yet.
GuestRegisters(g, size) ==
  /\ open = "open" /\ SizeAllowed(size)
  /\ rows[g].status \in {"none", "unconfirmed"}
  /\ rows' = [rows EXCEPT ![g] = [status |-> "unconfirmed", size |-> size]]
  /\ expired' = expired \ {g}
  /\ UNCHANGED <<capacity, open, answered, dueGuests, guardian, promoting>>

GuestExpires(g) ==
  /\ rows[g].status = "unconfirmed"
  /\ expired' = expired \cup {g}
  /\ UNCHANGED <<capacity, open, rows, answered, dueGuests, guardian, promoting>>

\* confirmGuest
GuestConfirms(g) ==
  /\ open = "open"
  /\ rows[g].status = "unconfirmed" /\ g \notin expired
  /\ rows' = [rows EXCEPT ![g].status =
                IF Fits(capacity, Taken(rows, g), rows[g].size) THEN "seated" ELSE "waiting"]
  /\ answered' = Append(answered, g)
  /\ UNCHANGED <<capacity, open, expired, dueGuests, guardian, promoting>>

\* updateGuest: who waits goes on waiting, even when the smaller group fits.
GuestUpdates(g, size) ==
  LET table == [rows EXCEPT ![g].size = size]
  IN /\ open = "open" /\ SizeAllowed(size)
     /\ rows[g].status \in {"seated", "waiting"} /\ rows[g].size # size
     /\ (rows[g].status = "waiting" \/ Fits(capacity, Taken(rows, g), size)) = TRUE
     /\ rows' = IF rows[g].status = "seated" /\ size < rows[g].size
                THEN Promote(table, answered, capacity) ELSE table
     /\ UNCHANGED <<capacity, open, answered, expired, dueGuests, guardian, promoting>>

\* cancelGuest
GuestCancels(g) ==
  /\ rows[g].status \in {"seated", "waiting"}
  /\ Removes(g, capacity)
  /\ UNCHANGED <<capacity, open, guardian, promoting>>

\* sweepUnconfirmedGuests selects, then deletes what it has selected.
SweepSelectsGuests ==
  /\ dueGuests = {} /\ dueGuests' = expired
  /\ UNCHANGED <<capacity, open, rows, answered, expired, guardian, promoting>>

SweepDeletesGuests ==
  /\ rows' = [k \in RowKeys |-> IF k \in dueGuests THEN NoRow ELSE rows[k]]
  /\ answered' = Only(answered, RowKeys \ dueGuests)
  /\ expired' = expired \ dueGuests
  /\ dueGuests' = {}
  /\ UNCHANGED <<capacity, open, guardian, promoting>>

-----------------------------------------------------------------------------
\* PATCH registrations/:id: the organiser seats, with force or without...
Seats(k, force) ==
  /\ rows[k].status = "waiting"
  /\ force = TRUE \/ Fits(capacity, Taken(rows, k), rows[k].size) = TRUE
  /\ rows' = [rows EXCEPT ![k].status = "seated"]
  /\ UNCHANGED <<capacity, open, answered, expired, dueGuests, guardian, promoting>>

\* ...sends back to the waitlist, where nobody moves up for it...
Unseats(k) ==
  /\ rows[k].status = "seated"
  /\ rows' = [rows EXCEPT ![k].status = "waiting"]
  /\ UNCHANGED <<capacity, open, answered, expired, dueGuests, guardian, promoting>>

\* ...or removes.
Strikes(k) ==
  /\ rows[k].status \in {"seated", "waiting"}
  /\ Removes(k, capacity)
  /\ UNCHANGED <<capacity, open, guardian, promoting>>

\* PATCH events/:id
SetCapacity(limit) ==
  /\ limit # capacity
  /\ capacity' = limit
  /\ promoting' = (promoting \/ IF NoLimit \in {limit, capacity} THEN limit = NoLimit ELSE limit > capacity)
  /\ UNCHANGED <<open, rows, answered, expired, dueGuests, guardian>>

CapacityPromotes ==
  /\ promoting /\ promoting' = FALSE
  /\ rows' \in {rows, Promote(rows, answered, capacity)}
  /\ UNCHANGED <<capacity, open, answered, expired, dueGuests, guardian>>

\* Deadline and settings; POST events/:id/cancel is final.
SetOpen(to) ==
  /\ open # "cancelled" /\ to # open
  /\ open' = to
  /\ UNCHANGED <<capacity, rows, answered, expired, dueGuests, guardian, promoting>>

-----------------------------------------------------------------------------
RegistrantStep ==
  \E p \in Accounts \cup Wards : CancelRegistration(p) \/ \E n \in Sizes : Register(p, n)

GuardianStep ==
  \E w \in Wards : GuardianReads(w) \/ \E comes \in BOOLEAN : GuardianAnswers(w, comes)

GuestStep ==
  \/ \E g \in Guests : \/ GuestExpires(g) \/ GuestConfirms(g) \/ GuestCancels(g)
                       \/ \E n \in Sizes : GuestRegisters(g, n) \/ GuestUpdates(g, n)
  \/ SweepSelectsGuests \/ SweepDeletesGuests

OrganiserStep ==
  \/ \E k \in Registrations : \/ Unseats(k) \/ Strikes(k)
                              \/ \E force \in BOOLEAN : Seats(k, force)
  \/ \E limit \in Capacities \cup {NoLimit} : SetCapacity(limit)
  \/ CapacityPromotes
  \/ \E to \in {"open", "closed", "cancelled"} : SetOpen(to)

EventSeatsNext == RegistrantStep \/ GuardianStep \/ GuestStep \/ OrganiserStep

EventSeatsSpec == EventSeatsInit /\ [][EventSeatsNext]_seatVars

-----------------------------------------------------------------------------
\* Properties

\* Everybody who comes.
Occupied(table) == Cardinality(SeatsOf(table, SeatedRows(table)))

\* Somebody sits down beyond the capacity of the event.
Overbooks ==
  /\ ~Fits(capacity', Occupied(rows'), 0)
  /\ \E k \in RowKeys : rows[k].status # "seated" /\ rows'[k].status = "seated"

Forced == \E k \in Registrations : Seats(k, TRUE)

\* A guardian's answer that goes by a capacity that is not the event's any more.
StaleAnswer == \E w \in Wards : guardian[w] # NotAnswering /\ guardian'[w] = NotAnswering
                                /\ guardian[w].capacity # capacity

\* Groups of any size, guests, wards, a capacity that goes up and down and a
\* waitlist that moves up never seat more than there is room for; only the
\* organiser may, and a guardian's answer to an older capacity.
SeatsRespected == Overbooks => Forced \/ StaleAnswer

\* guardian.ts:198: "Same lock as the account RSVP: capacity cannot be overbooked
\* by parallel responses."
GuardiansRespectSeats == Overbooks => Forced

\* The waitlist is first come, first served: nobody moves up past somebody who
\* answered earlier with a group no larger, unless the organiser wants it so or
\* they ask again themselves.
FirstComeFirstServed ==
  \A i, j \in DOMAIN answered :
    LET a == answered[i]
        b == answered[j]
    IN i < j /\ rows[a].status = "waiting" /\ rows[b].status = "waiting"
       /\ rows[a].size <= rows[b].size /\ rows'[b] = [rows[b] EXCEPT !.status = "seated"]
       /\ rows'[a] = rows[a]
         => \/ \E force \in BOOLEAN : Seats(b, force)
            \/ \E n \in Sizes : Register(b, n)
            \/ \E w \in Wards : guardian[w] # NotAnswering /\ guardian'[w] = NotAnswering

\* "A person who already holds a seat keeps it (a larger group that no longer
\* fits is refused instead of demoting them)": no registration demotes anybody.
RegistrantsKeepSeats ==
  \A k \in RowKeys : rows[k].status = "seated" /\ rows'[k].status = "waiting"
    => Unseats(k) \/ \E w \in Wards : k = AnswerOf(w)

\* event-guests.ts: the sweep "deletes registrations of guests who never confirmed
\* their address".
SweepSparesConfirmed ==
  \A g \in Guests : dueGuests # {} /\ dueGuests' = {} /\ g \in dueGuests
    /\ rows'[g] = NoRow => rows[g].status = "unconfirmed" \/ GuestCancels(g) \/ Strikes(g)

\* What the seats of an event keep through groups, guests, wards and the waitlist.
SeatsPromise ==
  /\ []EventSeatsTypeOK
  /\ [][SeatsRespected /\ FirstComeFirstServed /\ RegistrantsKeepSeats]_seatVars
=============================================================================
