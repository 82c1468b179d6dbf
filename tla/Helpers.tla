-------------------------------- MODULE Helpers --------------------------------
(***************************************************************************)
(* The helper plan of an event (src/src/lib/event-helpers.ts,               *)
(* routes/event-helpers.ts): shifts with a capacity, sign-ups and requests   *)
(* to take a shift over.                                                   *)
(*                                                                         *)
(* A call is a session that takes locks one after the other: the advisory    *)
(* lock of a person and the row of a shift.  What it checks under them it    *)
(* writes in a later step, and may be refused or rolled back before; a       *)
(* refusal changes nothing, so the clock ("the shift is over") and the       *)
(* permissions are left to that choice.  Removing a shift reads who is       *)
(* signed up without a lock, to tell them.                                  *)
(***************************************************************************)
EXTENDS Integers, FiniteSets

CONSTANTS
  People,    \* club members
  Shifts,    \* the shifts of one station
  Slots,     \* <<startsAt, endsAt>>
  Rooms,     \* capacities
  Callers,   \* concurrent calls
  Anybody,   \* addressee of an open request
  NoShift    \* a shift that was removed or not entered yet

ASSUME HelpersAssumption ==
  /\ Slots \subseteq {t \in Nat \X Nat : t[1] < t[2]}
  /\ Rooms \subseteq Nat \ {0}
  /\ Anybody \notin People /\ "none" \notin People \cup {Anybody}
  /\ NoShift \notin [slot: Slots, room: Rooms]

VARIABLES
  plan,        \* helper_shifts
  signups,     \* helper_signups: <<shift, person>>
  offers,      \* open helper_swap_requests: their addressee, by sign-up
  helping,     \* the event is not cancelled
  calls        \* calls under way

helperVars == <<plan, signups, offers, helping, calls>>

-----------------------------------------------------------------------------
Shift == [slot: Slots, room: Rooms]
Signup == Shifts \X People
NoOffer == "none"

NoCall == [op |-> "none"]
PersonCall == [op: {"signup", "withdraw", "accept"}, who: People, shift: Shifts,
               step: {"person", "checked"}, from: People]
MoveCall == [op: {"move"}, shift: Shifts, to: Shift, left: SUBSET People, mine: SUBSET People]
RemoveCall == [op: {"remove"}, shifts: SUBSET Shifts, people: SUBSET People]

HelpersTypeOK ==
  /\ plan \in [Shifts -> Shift \cup {NoShift}]
  /\ signups \subseteq {e \in Signup : plan[e[1]] # NoShift}
  /\ offers \in [Signup -> People \cup {Anybody, NoOffer}]
  /\ \A e \in Signup : offers[e] # NoOffer => e \in signups
  /\ helping \in BOOLEAN
  /\ calls \in [Callers -> {NoCall} \cup PersonCall \cup MoveCall \cup RemoveCall]

HelpersInit ==
  /\ plan = [s \in Shifts |-> NoShift]
  /\ signups = {}
  /\ offers = [e \in Signup |-> NoOffer]
  /\ helping = TRUE
  /\ calls = [c \in Callers |-> NoCall]

-----------------------------------------------------------------------------
\* Faulty variant: the overlap check is not serialised per person.
PeopleHeldByNobody(c) == {}

\* lockMemberShifts: the people whose lock another call holds.
PeopleHeld(c) ==
  UNION {CASE calls[d].op \in {"signup", "withdraw", "accept"} -> {calls[d].who}
           [] calls[d].op = "move" -> calls[d].mine
           [] OTHER -> {} : d \in Callers \ {c}}

\* SELECT ... FOR UPDATE: the row of the shift is held until the call ends.
HoldsShift ==
  {d \in Callers : \/ calls[d].op = "move"
                   \/ calls[d].op \in {"signup", "accept"} /\ calls[d].step = "checked"}

ShiftsHeld(c) == {calls[d].shift : d \in HoldsShift \ {c}}

Overlap(a, b) == a[1] < b[2] /\ b[1] < a[2]

\* overlappingShift
Overlapping(p, slot, except) ==
  \E s \in Shifts \ {except} : <<s, p>> \in signups /\ Overlap(plan[s].slot, slot)

HelpersOf(s) == {p \in People : <<s, p>> \in signups}

EndsCall(c) == calls' = [calls EXCEPT ![c] = NoCall]

\* An error, a refusal or a deadlock the database breaks: nothing is written.
GivesUp(c) ==
  /\ calls[c] # NoCall /\ EndsCall(c)
  /\ UNCHANGED <<plan, signups, offers, helping>>

-----------------------------------------------------------------------------
\* A sign-up, a withdrawal or a takeover starts with the lock of the person.
LocksPerson(c, op, p, s) ==
  /\ calls[c] = NoCall /\ p \notin PeopleHeld(c)
  /\ op # "withdraw" => helping
  /\ calls' = [calls EXCEPT ![c] = [op |-> op, who |-> p, shift |-> s, step |-> "person", from |-> p]]
  /\ UNCHANGED <<plan, signups, offers, helping>>

\* ...and goes on with the row of the shift.
HasShift(c, op) ==
  /\ calls[c].op = op /\ calls[c].step = "person"
  /\ plan[calls[c].shift] # NoShift
  /\ calls[c].shift \notin ShiftsHeld(c)

\* POST shifts/:shiftId/signup: not full, and no other shift at the time.
ChecksSignup(c) ==
  LET s == calls[c].shift
      p == calls[c].who
  IN /\ HasShift(c, "signup")
     /\ <<s, p>> \notin signups
     /\ Cardinality(HelpersOf(s)) < plan[s].room
     /\ ~Overlapping(p, plan[s].slot, s)
     /\ calls' = [calls EXCEPT ![c].step = "checked"]
     /\ UNCHANGED <<plan, signups, offers, helping>>

SignsUp(c) ==
  /\ calls[c].op = "signup" /\ calls[c].step = "checked"
  /\ signups' = signups \cup {<<calls[c].shift, calls[c].who>>}
  /\ EndsCall(c)
  /\ UNCHANGED <<plan, offers, helping>>

\* DELETE shifts/:shiftId/signup: an open request goes with the sign-up.
WithdrawsFrom(c) ==
  LET e == <<calls[c].shift, calls[c].who>>
  IN /\ HasShift(c, "withdraw")
     /\ e \in signups
     /\ signups' = signups \ {e}
     /\ offers' = [offers EXCEPT ![e] = NoOffer]
     /\ EndsCall(c)
     /\ UNCHANGED <<plan, helping>>

\* POST swaps/:swapId/accept: for the addressee or for anybody, under the rules
\* of a sign-up except the capacity.
ChecksTakeover(c, giver) ==
  LET s == calls[c].shift
      p == calls[c].who
  IN /\ HasShift(c, "accept")
     /\ giver # p /\ offers[<<s, giver>>] \in {p, Anybody}
     /\ <<s, p>> \notin signups
     /\ ~Overlapping(p, plan[s].slot, s)
     /\ calls' = [calls EXCEPT ![c].step = "checked", ![c].from = giver]
     /\ UNCHANGED <<plan, signups, offers, helping>>

TakesOver(c) ==
  LET s     == calls[c].shift
      given == <<s, calls[c].from>>
  IN /\ calls[c].op = "accept" /\ calls[c].step = "checked"
     /\ signups' = (signups \ {given}) \cup {<<s, calls[c].who>>}
     /\ offers' = [offers EXCEPT ![given] = NoOffer]
     /\ EndsCall(c)
     /\ UNCHANGED <<plan, helping>>

-----------------------------------------------------------------------------
\* POST shifts/:shiftId/swaps: only the row of the shift is locked.
Offers(s, p, to) ==
  /\ s \notin {calls[d].shift : d \in HoldsShift} /\ <<s, p>> \in signups
  /\ offers[<<s, p>>] = NoOffer
  /\ to # p /\ <<s, to>> \notin signups
  /\ offers' = [offers EXCEPT ![<<s, p>>] = to]
  /\ UNCHANGED <<plan, signups, helping, calls>>

\* The addressee declines, or the owner takes the request back: the row of the
\* request is locked, which a takeover holds as well.
ClosesOffer(s, p) ==
  /\ offers[<<s, p>>] # NoOffer
  /\ \A c \in Callers : calls[c].op = "accept" /\ calls[c].step = "checked"
                          => <<calls[c].shift, calls[c].from>> # <<s, p>>
  /\ offers' = [offers EXCEPT ![<<s, p>>] = NoOffer]
  /\ UNCHANGED <<plan, signups, helping, calls>>

-----------------------------------------------------------------------------
\* POST stations/:stationId/shifts
CreatesShift(s, to) ==
  /\ plan[s] = NoShift
  /\ plan' = [plan EXCEPT ![s] = to]
  /\ UNCHANGED <<signups, offers, helping, calls>>

\* PATCH shifts/:shiftId: the row of the shift comes first...
LocksShift(c, s, to) ==
  /\ calls[c] = NoCall /\ plan[s] # NoShift /\ s \notin ShiftsHeld(c)
  /\ Cardinality(HelpersOf(s)) <= to.room
  /\ calls' = [calls EXCEPT ![c] =
       [op |-> "move", shift |-> s, to |-> to, mine |-> {},
        left |-> IF to.slot = plan[s].slot THEN {} ELSE HelpersOf(s)]]
  /\ UNCHANGED <<plan, signups, offers, helping>>

\* ...then the lock of everybody on it, one after the other...
LocksHelper(c, p) ==
  /\ calls[c].op = "move" /\ p \in calls[c].left /\ p \notin PeopleHeld(c)
  /\ ~Overlapping(p, calls[c].to.slot, calls[c].shift)
  /\ calls' = [calls EXCEPT ![c].left = @ \ {p}, ![c].mine = @ \cup {p}]
  /\ UNCHANGED <<plan, signups, offers, helping>>

\* ...and the shift moves.
MovesShift(c) ==
  /\ calls[c].op = "move" /\ calls[c].left = {}
  /\ plan' = [plan EXCEPT ![calls[c].shift] = calls[c].to]
  /\ EndsCall(c)
  /\ UNCHANGED <<signups, offers, helping>>

\* DELETE shifts/:shiftId and stations/:stationId: who is signed up is read...
ReadsHelpers(c, some) ==
  /\ calls[c] = NoCall /\ \A s \in some : plan[s] # NoShift
  /\ calls' = [calls EXCEPT ![c] =
       [op |-> "remove", shifts |-> some, people |-> UNION {HelpersOf(s) : s \in some}]]
  /\ UNCHANGED <<plan, signups, offers, helping>>

\* ...before the rows go, with their sign-ups and requests.
RemovesShifts(c) ==
  LET gone == calls[c].shifts
  IN /\ calls[c].op = "remove"
     /\ gone \cap ShiftsHeld(c) = {}
     /\ plan' = [s \in Shifts |-> IF s \in gone THEN NoShift ELSE plan[s]]
     /\ signups' = {e \in signups : e[1] \notin gone}
     /\ offers' = [e \in Signup |-> IF e[1] \in gone THEN NoOffer ELSE offers[e]]
     /\ EndsCall(c)
     /\ UNCHANGED helping

\* POST events/:id/cancel
CancelsPlan ==
  /\ helping /\ helping' = FALSE
  /\ UNCHANGED <<plan, signups, offers, calls>>

-----------------------------------------------------------------------------
HelperStep ==
  \E c \in Callers :
    \/ \E op \in {"signup", "withdraw", "accept"}, p \in People, s \in Shifts : LocksPerson(c, op, p, s)
    \/ ChecksSignup(c) \/ SignsUp(c) \/ WithdrawsFrom(c) \/ TakesOver(c) \/ GivesUp(c)
    \/ \E p \in People : ChecksTakeover(c, p)

OfferStep ==
  \E s \in Shifts, p \in People :
    ClosesOffer(s, p) \/ \E to \in People \cup {Anybody} : Offers(s, p, to)

PlannerStep ==
  \/ \E s \in Shifts, to \in Shift : CreatesShift(s, to)
  \/ CancelsPlan
  \/ \E c \in Callers :
       \/ \E s \in Shifts, to \in Shift : LocksShift(c, s, to)
       \/ \E p \in People : LocksHelper(c, p)
       \/ \E some \in {{s} : s \in Shifts} \cup {Shifts} : ReadsHelpers(c, some)
       \/ MovesShift(c) \/ RemovesShifts(c)

HelpersNext == HelperStep \/ OfferStep \/ PlannerStep

HelpersSpec == HelpersInit /\ [][HelpersNext]_helperVars

-----------------------------------------------------------------------------
\* Properties

\* However sign-ups, takeovers and moved shifts interleave, nobody has two shifts
\* at one time ("serialises everything one person does with shifts so the overlap
\* check cannot be raced").
NoDoubleShift ==
  \A p \in People, s, t \in Shifts :
    s # t /\ {<<s, p>>, <<t, p>>} \subseteq signups => ~Overlap(plan[s].slot, plan[t].slot)

\* A shift never has more helpers than it has room for.
ShiftsHaveRoom == \A s \in Shifts : plan[s] # NoShift => Cardinality(HelpersOf(s)) <= plan[s].room

\* "The signup moves; capacity and the booking stay": whoever hands a shift over
\* leaves it for exactly one other person, and two takeovers have one winner.
TakeoverHasOneWinner ==
  [][\A e \in signups : offers[e] # NoOffer /\ e \notin signups' /\ plan'[e[1]] # NoShift
       => \/ \E c \in Callers : WithdrawsFrom(c)
          \/ Cardinality({f \in signups' : f[1] = e[1]}) = Cardinality(HelpersOf(e[1]))]_helperVars

\* NoDoubleShift, ShiftsHaveRoom and TakeoverHasOneWinner.
HelpersPromise == [](HelpersTypeOK /\ NoDoubleShift /\ ShiftsHaveRoom) /\ TakeoverHasOneWinner

\* What a call waits for next: the lock of a person, or the row of a shift.
WaitsForPerson(c) == IF calls[c].op = "move" THEN calls[c].left ELSE {}

WaitsForShift(c) ==
  IF calls[c].op \in {"signup", "withdraw", "accept"} /\ calls[c].step = "person"
  THEN {calls[c].shift} ELSE {}

\* event-helpers.ts:229: "Order of locks everywhere: the person first, then the
\* shift row": no two calls wait for one another.
NoLockCycle ==
  \A c, d \in Callers :
    c # d /\ calls[c].op = "move" /\ calls[d].op \in {"signup", "withdraw", "accept"}
      => ~(calls[d].who \in WaitsForPerson(c) /\ calls[c].shift \in WaitsForShift(d))

\* event-helpers.ts: "Everybody signed up for the shifts of a station / a shift,
\* for the notice before they vanish."
RemovedAreTold ==
  [][\A c \in Callers : calls[c].op = "remove" /\ RemovesShifts(c)
       => {e[2] : e \in signups \ signups'} \subseteq calls[c].people]_helperVars
=============================================================================
