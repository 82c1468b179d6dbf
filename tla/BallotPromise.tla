--------------------------- MODULE BallotPromise ---------------------------
(***************************************************************************)
(* What a digital ballot promises, whatever runs concurrently: a voter's    *)
(* choice is recorded at most once, only while the vote is on, and never    *)
(* changes; what is decided is decided on all of these choices; a vote that *)
(* is over is not called off any more; the minutes get one entry.           *)
(***************************************************************************)
EXTENDS Naturals

CONSTANTS Ballots, Members, Choices, NoChoice

VARIABLES
  phase,    \* ballot -> its phase
  choice,   \* ballot -> member -> the recorded choice
  outcome,  \* ballot -> the choices that were counted
  entries   \* ballot -> entries in the minutes

vars == <<phase, choice, outcome, entries>>

Blank == [m \in Members |-> NoChoice]

Init ==
  /\ phase = [b \in Ballots |-> "planned"]
  /\ choice = [b \in Ballots |-> Blank]
  /\ outcome = [b \in Ballots |-> Blank]
  /\ entries = [b \in Ballots |-> 0]

Moves(b, from, to) ==
  /\ phase[b] \in from
  /\ phase' = [phase EXCEPT ![b] = to]

Begin(b) == /\ Moves(b, {"planned"}, "voting")
            /\ UNCHANGED <<choice, outcome, entries>>

Vote(b, m, c) == /\ phase[b] = "voting"
                 /\ choice[b][m] = NoChoice
                 /\ choice' = [choice EXCEPT ![b][m] = c]
                 /\ UNCHANGED <<phase, outcome, entries>>

End(b) == /\ Moves(b, {"voting"}, "over")
          /\ UNCHANGED <<choice, outcome, entries>>

Decide(b) == /\ Moves(b, {"over"}, "decided")
             /\ outcome' = [outcome EXCEPT ![b] = choice[b]]
             /\ UNCHANGED <<choice, entries>>

Enter(b) == /\ Moves(b, {"decided"}, "entered")
            /\ entries' = [entries EXCEPT ![b] = @ + 1]
            /\ UNCHANGED <<choice, outcome>>

CallOff(b) == /\ Moves(b, {"planned", "voting"}, "calledOff")
              /\ UNCHANGED <<choice, outcome, entries>>

Next == \E b \in Ballots :
          \/ Begin(b) \/ End(b) \/ Decide(b) \/ Enter(b) \/ CallOff(b)
          \/ \E m \in Members, c \in Choices : Vote(b, m, c)

Spec == Init /\ [][Next]_vars
=============================================================================
