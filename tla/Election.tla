------------------------------- MODULE Election -------------------------------
(***************************************************************************)
(* One election of an office (src/src/lib/elections.ts): candidacies, the   *)
(* rounds it takes, who is elected, and the hand-over of the office.        *)
(*                                                                         *)
(* Every operation locks the election's row.  Answering reads the account   *)
(* of the elected person without a lock; linking an account collects the    *)
(* pending candidacies before it locks an election.  Both are two steps.    *)
(* A round is a ballot, opened, counted and finalized as module Ballots     *)
(* says: here its stages take turns as they like.                           *)
(***************************************************************************)
EXTENDS Integers, FiniteSets, Sequences

CONSTANTS
  Candidates,  \* club_members who may stand or lead
  Unled,       \* no election lead
  MaxSeats,    \* bound: seats of the office
  MaxRounds    \* bound: rounds, the cancelled ones included

ASSUME ElectionAssumption ==
  IsFiniteSet(Candidates) /\ Unled \notin Candidates /\ {MaxSeats, MaxRounds} \subseteq Nat

VARIABLES
  seats,      \* elections.seats
  stage,      \* elections.status
  lead,       \* election_lead_club_member_id
  standingOf,   \* election_candidates.status, or "none"
  rounds,     \* the ballots of the election, oldest first
  accounts,   \* members whose account is linked
  holders,    \* members with the role, its term open
  former,     \* history: who held the office when the election was created
  answering,  \* the answer whose transaction holds the election's row
  linking     \* members whose link has collected its candidacies, and which

electionVars == <<seats, stage, lead, standingOf, rounds, accounts, holders, former,
                  answering, linking>>

-----------------------------------------------------------------------------
Seated == {"elected", "accepted", "pending_account"}
Unanswered == {"elected", "pending_account"}
Standings == {"none", "proposed", "willing", "declined", "withdrawn"} \cup Seated
Silent == [who |-> Unled]

Round == [at: {"draft", "open", "counted", "finalized", "cancelled"},
          on: SUBSET Candidates, choices: 0..MaxSeats,
          elected: SUBSET Candidates, tied: SUBSET Candidates, decided: BOOLEAN]

Stages == {"planned", "running", "decided", "closed"}

ElectionTypeOK ==
  /\ seats \in 0..MaxSeats
  /\ stage \in Stages
  /\ lead \in Candidates \cup {Unled}
  /\ standingOf \in [Candidates -> Standings]
  /\ rounds \in Seq(Round) /\ Len(rounds) <= MaxRounds
  /\ {accounts, holders, former} \subseteq SUBSET Candidates
  /\ holders \subseteq accounts
  /\ answering \in {Silent} \cup [who: Candidates, accept: BOOLEAN, account: BOOLEAN]
  /\ linking \in [Candidates -> {"no", "pending", "nothing"}]

ElectionInit ==
  /\ seats \in 1..MaxSeats
  /\ stage = "planned"
  /\ lead = Unled
  /\ standingOf = [c \in Candidates |-> "none"]
  /\ rounds = <<>>
  /\ accounts \in SUBSET Candidates
  /\ former \in SUBSET accounts
  /\ holders = former
  /\ answering = Silent
  /\ linking = [c \in Candidates |-> "no"]

-----------------------------------------------------------------------------
ElectionFree == answering = Silent
InStanding(S) == {c \in Candidates : standingOf[c] \in S}
SeatsLeft == seats - Cardinality(InStanding(Seated))
Vacant == stage \notin {"decided", "closed"}

\* Rounds that were not called off, and the latest of them; the numbers of rounds
\* leave out the cancelled ones.
Held == {r \in DOMAIN rounds : rounds[r].at # "cancelled"}
Latest == CHOOSE r \in Held : \A s \in Held : s <= r

\* updateElection
ChangeSeats(n) ==
  /\ ElectionFree
  /\ stage # "closed"
  /\ n >= Cardinality(InStanding(Seated))
  /\ seats' = n
  /\ UNCHANGED <<stage, lead, standingOf, rounds, accounts, holders, former, answering, linking>>

\* assertLead
ChangeLead(c) ==
  /\ ElectionFree
  /\ stage # "closed"
  /\ c # Unled => standingOf[c] \notin Seated \cup {"proposed", "willing"}
  /\ lead' = c
  /\ UNCHANGED <<seats, stage, standingOf, rounds, accounts, holders, former, answering, linking>>

\* proposeCandidate
Propose(c, willing) ==
  /\ ElectionFree
  /\ Vacant
  /\ c # lead
  /\ standingOf[c] = "none"
  /\ standingOf' = [standingOf EXCEPT ![c] = IF willing THEN "willing" ELSE "proposed"]
  /\ UNCHANGED <<seats, stage, lead, rounds, accounts, holders, former, answering, linking>>

\* setCandidateStatus; a manager may take a refusal or a withdrawal back.
OnRunningRound(c) ==
  \E r \in DOMAIN rounds : rounds[r].at \in {"draft", "open"} /\ c \in rounds[r].on

SetStanding(c, to) ==
  /\ ElectionFree
  /\ \/ standingOf[c] = "proposed" /\ to \in {"willing", "declined", "withdrawn"}
     \/ standingOf[c] = "willing" /\ to = "withdrawn"
     \/ standingOf[c] \in {"declined", "withdrawn"} /\ to = "willing"
  /\ to # "willing" => ~OnRunningRound(c)
  /\ standingOf' = [standingOf EXCEPT ![c] = to]
  /\ UNCHANGED <<seats, stage, lead, rounds, accounts, holders, former, answering, linking>>

\* Faulty variant: an elected candidate can be removed as well.
RemovableUnlessStood(c) == \A r \in DOMAIN rounds : c \notin rounds[r].on \ rounds[r].elected

\* removeCandidate
Removable(c) ==
  /\ standingOf[c] \notin Seated
  /\ \A r \in DOMAIN rounds : c \notin rounds[r].on

RemoveCandidate(c) ==
  /\ ElectionFree
  /\ standingOf[c] # "none"
  /\ Removable(c)
  /\ standingOf' = [standingOf EXCEPT ![c] = "none"]
  /\ UNCHANGED <<seats, stage, lead, rounds, accounts, holders, former, answering, linking>>

-----------------------------------------------------------------------------
\* createRound: the willing candidates, or those a run-off is narrowed down to.
CreateRound(pool) ==
  /\ ElectionFree
  /\ Len(rounds) < MaxRounds
  /\ Vacant
  /\ \A r \in Held : rounds[r].at = "finalized" /\ rounds[r].decided
  /\ SeatsLeft >= 1
  /\ pool # {} /\ pool \subseteq InStanding({"willing"})
  /\ rounds' = Append(rounds,
       [at |-> "draft", on |-> pool,
        choices |-> IF SeatsLeft < Cardinality(pool) THEN SeatsLeft ELSE Cardinality(pool),
        elected |-> {}, tied |-> {}, decided |-> FALSE])
  /\ stage' = "running"
  /\ UNCHANGED <<seats, lead, standingOf, accounts, holders, former, answering, linking>>

RoundMoves(r, from, to) ==
  /\ rounds[r].at \in from
  /\ rounds' = [rounds EXCEPT ![r].at = to]
  /\ UNCHANGED <<seats, stage, lead, standingOf, accounts, holders, former, answering, linking>>

\* evaluateChoices, when the votes are counted: the best candidates win a seat,
\* those who tie at the last one wait for the lot.
RoundCounted(r, best, level) ==
  /\ rounds[r].at = "open"
  /\ best \cup level \subseteq rounds[r].on /\ best \cap level = {}
  /\ Cardinality(best) <= rounds[r].choices
  /\ level # {} => /\ Cardinality(best) < rounds[r].choices
                   /\ Cardinality(best \cup level) > rounds[r].choices
  /\ rounds' = [rounds EXCEPT ![r] = [@ EXCEPT !.at = "counted", !.elected = best, !.tied = level]]
  /\ UNCHANGED <<seats, stage, lead, standingOf, accounts, holders, former, answering, linking>>

\* decideElection; the lot picks exactly the open seats among the tied.
Winners(r, lot) == rounds[r].elected \cup lot
LotDrawn(r, lot) ==
  /\ lot \subseteq rounds[r].tied
  /\ rounds[r].tied # {} => Cardinality(Winners(r, lot)) = rounds[r].choices

Decide(lot) ==
  /\ ElectionFree
  /\ Vacant
  /\ Held # {}
  /\ rounds[Latest].at = "finalized" /\ ~rounds[Latest].decided
  /\ LotDrawn(Latest, lot)
  /\ LET won == Winners(Latest, lot)
     IN /\ standingOf' = [c \in Candidates |-> IF c \in won THEN "elected" ELSE standingOf[c]]
        /\ stage' = IF Cardinality(InStanding(Seated)) + Cardinality(won) >= seats
                    THEN "decided" ELSE "running"
  /\ rounds' = [rounds EXCEPT ![Latest].decided = TRUE]
  /\ UNCHANGED <<seats, lead, accounts, holders, former, answering, linking>>

-----------------------------------------------------------------------------
\* Faulty variant: who waits for an account is not waited for.
SettledUnlessSilent(st, at) == at = "decided" /\ \A c \in Candidates : st[c] # "elected"

\* settleElection: all seats filled, everybody has answered, nobody waits.
Settled(st, at) == at = "decided" /\ \A c \in Candidates : st[c] \notin Unanswered

\* The state an answer or a link leaves: the office passes to the new group in
\* the transaction in which it is complete.
HandsOver(st, at, with) ==
  /\ standingOf' = st
  /\ stage' = IF Settled(st, at) THEN "closed" ELSE at
  /\ holders' = IF Settled(st, at) THEN {c \in with : st[c] = "accepted"} ELSE with

\* answerElection reads the account of the person...
AnswerReads(c, accept) ==
  /\ ElectionFree
  /\ standingOf[c] = "elected"
  /\ answering' = [who |-> c, accept |-> accept, account |-> c \in accounts]
  /\ UNCHANGED <<seats, stage, lead, standingOf, rounds, accounts, holders, former, linking>>

\* ...and writes the role, the pending candidacy or the refusal.
AnswerWrites ==
  /\ answering # Silent
  /\ LET c == answering.who
         refused == ~answering.accept
         granted == answering.accept /\ answering.account
         as == CASE refused -> "declined" [] granted -> "accepted" [] OTHER -> "pending_account"
     IN HandsOver([standingOf EXCEPT ![c] = as],
                  IF refused /\ stage \in {"decided", "closed"} THEN "running" ELSE stage,
                  IF granted THEN holders \cup {c} ELSE holders)
  /\ answering' = Silent
  /\ UNCHANGED <<seats, lead, rounds, accounts, former, linking>>

AnswerRollsBack ==
  /\ answering # Silent
  /\ answering' = Silent
  /\ UNCHANGED <<seats, stage, lead, standingOf, rounds, accounts, holders, former, linking>>

\* grantPendingElectionRoles, inside the transaction that links the account.
LinkReads(c) ==
  /\ c \notin accounts /\ linking[c] = "no"
  /\ linking' = [linking EXCEPT ![c] =
                   IF standingOf[c] = "pending_account" THEN "pending" ELSE "nothing"]
  /\ UNCHANGED <<seats, stage, lead, standingOf, rounds, accounts, holders, former, answering>>

LinkCommits(c) ==
  /\ linking[c] # "no"
  /\ accounts' = accounts \cup {c}
  /\ IF linking[c] = "pending"
     THEN ElectionFree /\ HandsOver([standingOf EXCEPT ![c] = "accepted"], stage, holders \cup {c})
     ELSE UNCHANGED <<standingOf, stage, holders>>
  /\ linking' = [linking EXCEPT ![c] = "no"]
  /\ UNCHANGED <<seats, lead, rounds, former, answering>>

LinkRollsBack(c) ==
  /\ linking[c] # "no"
  /\ linking' = [linking EXCEPT ![c] = "no"]
  /\ UNCHANGED <<seats, stage, lead, standingOf, rounds, accounts, holders, former, answering>>

-----------------------------------------------------------------------------
ElectionNext ==
  \/ \E n \in 1..MaxSeats : ChangeSeats(n)
  \/ \E c \in Candidates \cup {Unled} : ChangeLead(c)
  \/ \E c \in Candidates :
       \/ \E w \in BOOLEAN : Propose(c, w) \/ AnswerReads(c, w)
       \/ \E to \in {"willing", "declined", "withdrawn"} : SetStanding(c, to)
       \/ RemoveCandidate(c) \/ LinkReads(c) \/ LinkCommits(c) \/ LinkRollsBack(c)
  \/ \E pool, lot \in SUBSET Candidates : CreateRound(pool) \/ Decide(lot)
  \/ \E r \in DOMAIN rounds :
       \/ RoundMoves(r, {"draft"}, "open")
       \/ RoundMoves(r, {"counted"}, "finalized")
       \/ RoundMoves(r, {"draft", "open"}, "cancelled")
       \/ \E best, level \in SUBSET Candidates : RoundCounted(r, best, level)
  \/ AnswerWrites \/ AnswerRollsBack

ElectionSpec == ElectionInit /\ [][ElectionNext]_electionVars

-----------------------------------------------------------------------------
\* Properties

\* The office changes hands at once: until everybody elected has answered and
\* has an account nobody loses the role, and with the last answer, or the link
\* of the last account, exactly the accepted candidates have it.
HandedOverAtOnce ==
  /\ stage # "closed" => former \subseteq holders
  /\ stage = "closed" => /\ InStanding(Unanswered) = {}
                         /\ holders = InStanding({"accepted"})

\* Nobody is seated except by a decided round he stood in, and whoever is seated
\* stays so unless he refuses himself: neither a removal, nor another round, nor
\* somebody else's answer or link takes a seat away.
SeatsAreWonInRounds ==
  [][\A c \in Candidates :
       /\ standingOf'[c] \in Seated /\ standingOf[c] \notin Seated =>
            \E r \in DOMAIN rounds : /\ ~rounds[r].decided /\ rounds'[r].decided
                                     /\ c \in rounds[r].elected \cup rounds[r].tied
       /\ standingOf[c] \in Seated /\ standingOf'[c] \notin Seated =>
            answering.who = c /\ ~answering.accept
    ]_electionVars

\* elections.ts:25: the role of an elected person without an account "follows
\* automatically when the account is linked".
PendingMeansUnlinked == \A c \in Candidates : standingOf[c] = "pending_account" => c \notin accounts

\* elections.ts:121 refuses "more elected candidates than seats".
ElectedFitTheSeats == Cardinality(InStanding(Seated)) <= seats

\* What an election keeps through removals, rounds, answers and late accounts.
ElectionPromise == [](ElectionTypeOK /\ HandedOverAtOnce) /\ SeatsAreWonInRounds
=============================================================================
