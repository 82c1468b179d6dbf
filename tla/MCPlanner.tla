------------------------------ MODULE MCPlanner -----------------------------
\* Instances of what a club lends, books and plans. Components that share no
\* rows, each explored in behaviours of its own: the others rest in one
\* initial state.
EXTENDS Lending, ClubEvents, Invitation, Voting, TLC

VARIABLE part    \* the component whose rows move in this behaviour

CONSTANTS x1, x2, y1, y2

partVars == <<part, keyVars, loanVars, bookingVars, rideVars, sheetVars,
                    calendarVars, reminderVars, invitationVars, votingVars>>

\* Two share a mailbox, one has neither address nor account, one has left.
Person(member, mail, account) == [member |-> member, mail |-> mail, account |-> account]
MCRegister == <<Person(TRUE, "a", TRUE), Person(TRUE, "a", FALSE),
                Person(TRUE, NoMail, FALSE), Person(FALSE, "b", TRUE)>>
\* What a club may have stated: nothing, or one general majority of each kind.
MCStated ==
  {Unstated} \cup
  {[majority |-> [t \in Topics |-> IF t = "allgemein" THEN k ELSE "drei_viertel"],
    abstain |-> IF k \in {"einfach", "absolut"} THEN "against" ELSE "not_counted",
    agenda |-> k # "einfach", circular |-> TRUE, unanimity |-> FALSE, quota |-> 50] :
     k \in Majorities}
\* Drafts that offer an abstention; free choices on a general item only.
MCDrafted ==
  /\ paper.form.abstain /\ paper.on = (agendum # NotStated)
  /\ \/ paper.form.choices = {}
     \/ /\ paper.form.choices = Options /\ statute # Unstated
        /\ paper.on /\ paper.topic = "allgemein"

Init ==
  /\ part \in {"keys", "loans", "bookings", "rides", "attendance",
                "calendars", "reminders", "invitation", "voting"}
  /\ KeysInit
  /\ LoansInit
  /\ (part # "loans" => loan.due = NotYet)
  /\ BookingsInit
  /\ (part # "bookings" => occasion = {})
  /\ RidesInit
  /\ (part # "rides" => ride.seats = 1)
  /\ AttendanceInit
  /\ (part # "attendance" => roster = {} /\ eventDay = 1)
  /\ CalendarsInit
  /\ (part # "calendars" => Defaults = {})
  /\ RemindersInit
  /\ (part # "reminders" => matter = [kind |-> "event", date |-> 1, open |-> TRUE] /\ concerned = {})
  /\ InvitationInit
  /\ VotingInit
  /\ IF part = "voting" THEN MCDrafted
     ELSE statute = Unstated /\ agendum = NotStated /\ paper.mode = "circular" /\ paper.form.abstain

Next ==
  \/ /\ part = "keys" /\ KeysNext
     /\ UNCHANGED <<part, loanVars, bookingVars, rideVars, sheetVars,
                    calendarVars, reminderVars, invitationVars, votingVars>>
  \/ /\ part = "loans" /\ LoansNext
     /\ UNCHANGED <<part, keyVars, bookingVars, rideVars, sheetVars,
                    calendarVars, reminderVars, invitationVars, votingVars>>
  \/ /\ part = "bookings" /\ BookingsNext
     /\ UNCHANGED <<part, keyVars, loanVars, rideVars, sheetVars,
                    calendarVars, reminderVars, invitationVars, votingVars>>
  \/ /\ part = "rides" /\ RidesNext
     /\ UNCHANGED <<part, keyVars, loanVars, bookingVars, sheetVars,
                    calendarVars, reminderVars, invitationVars, votingVars>>
  \/ /\ part = "attendance" /\ AttendanceNext
     /\ UNCHANGED <<part, keyVars, loanVars, bookingVars, rideVars,
                    calendarVars, reminderVars, invitationVars, votingVars>>
  \/ /\ part = "calendars" /\ CalendarsNext
     /\ UNCHANGED <<part, keyVars, loanVars, bookingVars, rideVars, sheetVars,
                    reminderVars, invitationVars, votingVars>>
  \/ /\ part = "reminders" /\ RemindersNext
     /\ UNCHANGED <<part, keyVars, loanVars, bookingVars, rideVars, sheetVars,
                    calendarVars, invitationVars, votingVars>>
  \/ /\ part = "invitation" /\ InvitationNext
     /\ UNCHANGED <<part, keyVars, loanVars, bookingVars, rideVars, sheetVars,
                    calendarVars, reminderVars, votingVars>>
  \/ /\ part = "voting" /\ VotingNext
     /\ UNCHANGED <<part, keyVars, loanVars, bookingVars, rideVars, sheetVars,
                    calendarVars, reminderVars, invitationVars>>

Spec == Init /\ [][Next]_partVars

\* What the invitation to an assembly and the evaluation of its ballots
\* promise, together.
AssemblyPromise ==
  /\ InvitationPromise
  /\ VotingPromise

Symmetry == Permutations({x1, x2}) \cup Permutations({y1, y2})
=============================================================================
