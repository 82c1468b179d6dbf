-------------------------------- MODULE Voting --------------------------------
(***************************************************************************)
(* What decides a ballot (src/src/lib/ballot-evaluation.ts and              *)
(* assembly-rules.ts): the statute the club states, the copy the first      *)
(* invitation makes of it, the agenda item a resolution is about, the draft *)
(* of the ballot, the rules it opens with, its papers and its result.       *)
(*                                                                         *)
(* One resolution, put to the assembly or to a circular vote.  Who may vote *)
(* and when is module Ballots: here the entitled hand in a paper each.      *)
(***************************************************************************)
EXTENDS Integers, FiniteSets

CONSTANTS
  ChoiceSets,     \* free choices a ballot may offer, none for yes or no
  Entitled,       \* how many are entitled to vote
  Quotas,         \* shares of them, in percent, a circular vote may need
  Stated,         \* statutes a club may have stated when it drafts
  NotStated,          \* a parameter nobody has stated, or no such row
  MaxVotingEdits, \* bound: edits of statute, agenda and draft
  EditedPapers    \* bound: papers handed in where something was edited

Options == UNION ChoiceSets

ASSUME VotingAssumption ==
  /\ IsFiniteSet(Options) /\ Options \cap {"yes", "no", "abstain"} = {}
  /\ Entitled \in Nat \ {0} /\ Quotas \subseteq 1..100
  /\ {MaxVotingEdits, EditedPapers} \subseteq Nat

VARIABLES
  statute,   \* club_settings.assembly_rules
  invited,   \* meetings.rules_snapshot: the statute of the first invitation
  sending,   \* the statute an invitation on its way has read
  agendum,   \* the agenda item: its topic, and whether an invitation announced it
  paper,     \* the ballot's draft: mode, on the item or not, topic, options
  fixed,     \* the rules it opened with, or NotStated for a draft
  votes,     \* votes per option
  handed,    \* papers handed in
  edits      \* counts the edits (bound)

votingVars == <<statute, invited, sending, agendum, paper, fixed, votes, handed, edits>>

-----------------------------------------------------------------------------
Topics == {"allgemein", "satzungsaenderung"}
Majorities == {"einfach", "absolut", "zwei_drittel", "drei_viertel", "einstimmig"}
AllOptions == {"yes", "no", "abstain"} \cup Options

Statutes == [majority: [Topics -> Majorities \cup {NotStated}],
             abstain: {"against", "not_counted", NotStated}, agenda: BOOLEAN \cup {NotStated},
             circular: BOOLEAN, unanimity: BOOLEAN \cup {NotStated}, quota: Quotas \cup {NotStated}]

\* emptyAssemblyRules: nothing legal has a default.
Unstated == [majority |-> [t \in Topics |-> NotStated], abstain |-> NotStated, agenda |-> NotStated,
             circular |-> FALSE, unanimity |-> NotStated, quota |-> NotStated]

Agenda == [topic: Topics, announced: BOOLEAN]

ASSUME StatedAssumption == Stated \subseteq Statutes /\ NotStated \notin Agenda \cup Majorities

\* buildOptions
Forms == [choices: ChoiceSets, abstain: BOOLEAN, marks: 1..(Cardinality(Options) + 1)]
Buildable(mode, form) ==
  IF form.choices = {} THEN form.marks = 1
  ELSE mode = "in_session" /\ form.marks <= Cardinality(form.choices)

Papers == [mode: {"in_session", "circular"}, on: BOOLEAN, topic: Topics, form: Forms]

VotingTypeOK ==
  /\ statute \in Statutes
  /\ {invited, sending} \subseteq Statutes \cup {NotStated}
  /\ agendum \in Agenda \cup {NotStated}
  /\ paper \in Papers /\ Buildable(paper.mode, paper.form)
  /\ fixed \in [rules: Statutes, majority: Majorities, warned: BOOLEAN] \cup {NotStated}
  /\ votes \in [AllOptions -> Nat] /\ handed \in 0..Entitled /\ edits \in 0..MaxVotingEdits

VotingInit ==
  /\ statute \in Stated
  /\ invited = NotStated /\ sending = NotStated
  /\ agendum \in [topic: Topics, announced: {FALSE}] \cup {NotStated}
  /\ paper \in {p \in Papers : /\ Buildable(p.mode, p.form)
                               /\ IF p.on THEN /\ p.mode = "in_session" /\ agendum # NotStated
                                               /\ p.topic = agendum.topic
                                  ELSE p.topic = "allgemein"}
  /\ fixed = NotStated
  /\ votes = [o \in AllOptions |-> 0] /\ handed = 0 /\ edits = 0

-----------------------------------------------------------------------------
\* The statute and the agenda

\* majorityFor: a topic without an entry of its own takes the general one.
MajorityFor(rules, topic) ==
  IF rules.majority[topic] # NotStated THEN rules.majority[topic] ELSE rules.majority["allgemein"]

\* missingAssemblyRules: what keeps the first invitation back.
CircularStated(rules) ==
  rules.unanimity # NotStated /\ (rules.unanimity = FALSE => rules.quota # NotStated)
Complete(rules) ==
  /\ rules.agenda # NotStated
  /\ NotStated \notin {rules.abstain, rules.majority["allgemein"]}
  /\ rules.circular => CircularStated(rules)

VotingEdit ==
  /\ edits < MaxVotingEdits /\ handed <= EditedPapers
  /\ edits' = edits + 1
SameRest == UNCHANGED <<fixed, votes, handed>>

\* PATCH of the statute: one parameter, merged under the row's lock.
ChangeStatute ==
  /\ VotingEdit /\ SameRest
  /\ \/ \E t \in Topics, k \in Majorities \cup {NotStated} :
          statute' = [statute EXCEPT !.majority[t] = k]
     \/ \E a \in {"against", "not_counted", NotStated} : statute' = [statute EXCEPT !.abstain = a]
     \/ \E a \in BOOLEAN \cup {NotStated} : statute' = [statute EXCEPT !.agenda = a]
     \/ \E u \in BOOLEAN \cup {NotStated}, q \in Quotas \cup {NotStated} :
          statute' = [statute EXCEPT !.circular = TRUE, !.unanimity = u, !.quota = q]
  /\ UNCHANGED <<invited, sending, agendum, paper>>

\* rulesOfMeeting
RulesOfMeeting == IF invited # NotStated THEN invited ELSE statute

\* sendInvitation: reads the statute, and announces under the meeting's lock what
\* is new; the meeting keeps the rules of its first invitation.
InviteReads ==
  /\ SameRest
  /\ sending = NotStated /\ Complete(statute)
  /\ sending' = statute
  /\ UNCHANGED <<statute, invited, agendum, paper, edits>>

InviteWrites ==
  /\ SameRest
  /\ sending # NotStated
  /\ sending' = NotStated
  /\ \/ /\ IF invited = NotStated THEN sending.agenda = TRUE => agendum # NotStated
           ELSE agendum # NotStated /\ ~agendum.announced
        /\ invited' = IF invited = NotStated THEN sending ELSE invited
        /\ agendum' = IF agendum = NotStated THEN NotStated ELSE [agendum EXCEPT !.announced = TRUE]
     \/ UNCHANGED <<invited, agendum>>
  /\ UNCHANGED <<statute, paper, edits>>

\* POST, PATCH and DELETE of the agenda item; an announced one stays as it is.
PutItem(topic) ==
  /\ VotingEdit /\ SameRest
  /\ agendum # NotStated => ~agendum.announced
  /\ agendum' = [topic |-> topic, announced |-> FALSE]
  /\ UNCHANGED <<statute, invited, sending, paper>>

DropItem ==
  /\ VotingEdit /\ SameRest
  /\ agendum # NotStated /\ ~agendum.announced
  /\ agendum' = NotStated
  /\ paper' = [paper EXCEPT !.on = FALSE]
  /\ UNCHANGED <<statute, invited, sending>>

-----------------------------------------------------------------------------
\* The draft

\* resolveTopic: the topic is that of the agenda item, and without one the general one.
Resolved(on, topic) ==
  IF paper.mode = "circular" THEN ~on
  ELSE IF on THEN agendum # NotStated /\ topic = agendum.topic
  ELSE topic = "allgemein"

\* updateBallot
EditTopic(on, topic) ==
  /\ VotingEdit /\ SameRest
  /\ fixed = NotStated
  /\ Resolved(on, topic)
  /\ paper' = [paper EXCEPT !.on = on, !.topic = topic]
  /\ UNCHANGED <<statute, invited, sending, agendum>>

EditOptions(form) ==
  /\ VotingEdit /\ SameRest
  /\ fixed = NotStated
  /\ Buildable(paper.mode, form)
  /\ paper' = [paper EXCEPT !.form = form]
  /\ UNCHANGED <<statute, invited, sending, agendum>>

-----------------------------------------------------------------------------
\* openBallot

\* requireRules
Required(rules) ==
  /\ MajorityFor(rules, paper.topic) # NotStated
  /\ rules.abstain # NotStated
  /\ paper.mode = "circular" => rules.circular /\ CircularStated(rules)

\* A resolution on an item takes the item's topic as it is now; without an
\* announced item it is about nothing the statute wants announced.
Announced == paper.on /\ agendum.announced
Puttable(rules) ==
  paper.mode = "in_session" =>
    /\ paper.on => paper.topic = agendum.topic
    /\ ~Announced /\ paper.topic # "allgemein" => rules.agenda = FALSE

\* Faulty variant: the topic of the draft is trusted.
PuttableStale(rules) ==
  paper.mode = "in_session" /\ ~Announced /\ paper.topic # "allgemein" => rules.agenda = FALSE

Open ==
  /\ fixed = NotStated
  /\ LET rules == IF paper.mode = "circular" THEN statute ELSE RulesOfMeeting
     IN /\ Required(rules) /\ Puttable(rules)
        /\ fixed' = [rules |-> rules, majority |-> MajorityFor(rules, paper.topic),
                     warned |-> paper.mode = "in_session" /\ ~Announced]
  /\ UNCHANGED <<statute, invited, sending, agendum, paper, votes, handed, edits>>

-----------------------------------------------------------------------------
\* castVote

OptionsOf(form) ==
  (IF form.choices = {} THEN {"yes", "no"} ELSE form.choices)
    \cup (IF form.abstain THEN {"abstain"} ELSE {})

\* validateSelection
Selectable(S) ==
  /\ S \subseteq OptionsOf(paper.form)
  /\ Cardinality(S) \in 1..paper.form.marks
  /\ "abstain" \in S => S = {"abstain"}

Cast(S) ==
  /\ fixed # NotStated
  /\ handed < Entitled
  /\ edits > 0 => handed < EditedPapers
  /\ Selectable(S)
  /\ votes' = [o \in AllOptions |-> votes[o] + (IF o \in S THEN 1 ELSE 0)]
  /\ handed' = handed + 1
  /\ UNCHANGED <<statute, invited, sending, agendum, paper, fixed, edits>>

VotingNext ==
  \/ ChangeStatute \/ InviteReads \/ InviteWrites \/ DropItem \/ Open
  \/ \E t \in Topics : PutItem(t)
  \/ \E on \in BOOLEAN, t \in Topics : EditTopic(on, t)
  \/ \E form \in Forms : EditOptions(form)
  \/ \E S \in SUBSET AllOptions : Cast(S)

VotingSpec == VotingInit /\ [][VotingNext]_votingVars

-----------------------------------------------------------------------------
\* evaluateBallot

\* meetsMajority
MeetsMajority(majority, yes, against, cast) ==
  \/ majority = "einfach" /\ yes > against
  \/ majority = "absolut" /\ 2 * yes > cast
  \/ majority = "zwei_drittel" /\ yes + against > 0 /\ 3 * yes >= 2 * (yes + against)
  \/ majority = "drei_viertel" /\ yes + against > 0 /\ 4 * yes >= 3 * (yes + against)
  \/ majority = "einstimmig" /\ yes > 0 /\ against = 0

Against == votes["no"] + (IF fixed.rules.abstain = "against" THEN votes["abstain"] ELSE 0)
Accepts(majority) == MeetsMajority(majority, votes["yes"], Against, handed)

\* Papers a circular vote needs: the share of the entitled, rounded up.
Needed == LET n == (Entitled * fixed.rules.quota + 99) \div 100 IN IF n < 1 THEN 1 ELSE n

Verdict(accepted) == IF accepted THEN "angenommen" ELSE "abgelehnt"
Outcome ==
  IF paper.mode = "circular" /\ fixed.rules.unanimity = TRUE
    THEN Verdict(votes["yes"] = Entitled)
  ELSE IF paper.mode = "circular" /\ ~CircularStated(fixed.rules) THEN "rules_missing"
  ELSE IF paper.mode = "circular" /\ handed < Needed THEN "nicht_beschlussfaehig"
  ELSE Verdict(Accepts(fixed.majority))

-----------------------------------------------------------------------------
\* evaluateChoices; as many seats as marks.

Counted == handed - (IF fixed.rules.abstain = "not_counted" THEN votes["abstain"] ELSE 0)

Qualifies(o) ==
  /\ votes[o] > 0
  /\ \/ fixed.majority = "einfach"
     \/ fixed.majority = "absolut" /\ 2 * votes[o] > handed
     \/ fixed.majority = "zwei_drittel" /\ 3 * votes[o] >= 2 * Counted
     \/ fixed.majority = "drei_viertel" /\ 4 * votes[o] >= 3 * Counted
     \/ fixed.majority = "einstimmig" /\ votes[o] = Counted

Qualified == {o \in paper.form.choices : Qualifies(o)}
Seats == paper.form.marks
WithAtLeast(v) == {o \in Qualified : votes[o] >= v}
Above(v) == {o \in Qualified : votes[o] > v}

\* The votes of the last seat, among more who qualify than there are seats.
LastVotes ==
  CHOOSE v \in {votes[o] : o \in Qualified} :
    Cardinality(Above(v)) < Seats /\ Seats <= Cardinality(WithAtLeast(v))

AllWin == Cardinality(Qualified) <= Seats
Elected == IF AllWin THEN Qualified
           ELSE IF Cardinality(WithAtLeast(LastVotes)) = Seats THEN WithAtLeast(LastVotes)
           ELSE Above(LastVotes)
Tied == IF AllWin \/ Cardinality(WithAtLeast(LastVotes)) = Seats THEN {}
        ELSE WithAtLeast(LastVotes) \ Above(LastVotes)
OpenSeats == IF Tied = {} THEN 0 ELSE Seats - Cardinality(Elected)

\* Faulty variant: everybody level at the last seat is elected.
ElectedLevel == IF AllWin THEN Qualified ELSE WithAtLeast(LastVotes)

-----------------------------------------------------------------------------
\* Properties

Voting == fixed # NotStated
IsChoice == paper.form.choices # {}

\* What the members were invited to is what decides: a ballot opened without the
\* warning is on the announced item, about its topic, and is decided by the
\* majority the statute of the first invitation states for it, whatever was
\* edited in the statute, the agenda or the draft before or after.
DecidedAsInvited ==
  Voting /\ paper.mode = "in_session" /\ ~fixed.warned =>
    /\ paper.on /\ agendum # NotStated /\ invited # NotStated
    /\ agendum.announced /\ paper.topic = agendum.topic
    /\ fixed.majority = MajorityFor(invited, agendum.topic)

\* Nothing that is counted lacks a parameter.
NeverWithoutRules == Voting => fixed.majority # NotStated /\ Outcome # "rules_missing"

\* The seats go to a fairest set of winners: the options every such set shares
\* are elected, the others such a set may hold are tied, and whichever of them
\* the lot picks for the open seats completes one.
FairSets ==
  {W \in SUBSET Qualified :
     /\ Cardinality(W) = IF AllWin THEN Cardinality(Qualified) ELSE Seats
     /\ \A w \in W, l \in Qualified \ W : votes[w] >= votes[l]}

FairestWin ==
  Voting /\ IsChoice =>
    /\ Elected = {o \in Qualified : \A W \in FairSets : o \in W}
    /\ Tied = (UNION FairSets) \ Elected
    /\ \A lot \in SUBSET Tied : Cardinality(lot) = OpenSeats => Elected \cup lot \in FairSets

\* A stricter kind of majority accepts nothing that a weaker one rejects.
StricterAcceptsLess ==
  Voting =>
    /\ Accepts("einstimmig") => Accepts("drei_viertel")
    /\ Accepts("drei_viertel") => Accepts("zwei_drittel")
    /\ Accepts("zwei_drittel") \/ Accepts("absolut") => Accepts("einfach")

\* A motion and its opposite are never both accepted by the same papers: a tie
\* decides nothing.
NeverBothWays ==
  Voting /\ Accepts(fixed.majority) =>
    ~MeetsMajority(fixed.majority, votes["no"], votes["yes"] + Against - votes["no"], handed)

\* No vote turns against who cast it: a yes never undoes an acceptance, a no
\* never turns a rejection round, and a paper that names an elected option
\* leaves it elected.
Papered(S) == Voting /\ votes' = [o \in AllOptions |-> votes[o] + (IF o \in S THEN 1 ELSE 0)]

VotesNeverBackfire ==
  [][/\ Papered({"yes"}) /\ Outcome = "angenommen" => Outcome' = "angenommen"
     /\ Papered({"no"}) /\ Outcome = "abgelehnt" => Outcome' = "abgelehnt"
     /\ \A S \in SUBSET Options :
          Papered(S) /\ IsChoice => Elected \cap S \subseteq Elected']_votingVars

\* Abstentions that are not counted decide nothing: only the absolute majority
\* counts them, and a circular vote may reach its share by them.
AbstentionsAreNeutral ==
  [][Papered({"abstain"}) /\ fixed.rules.abstain = "not_counted" /\ fixed.majority # "absolut" =>
       IF IsChoice THEN Elected' = Elected /\ Tied' = Tied
       ELSE Outcome' = Outcome \/ Outcome = "nicht_beschlussfaehig"]_votingVars

VotingPromise ==
  /\ [](VotingTypeOK /\ DecidedAsInvited /\ NeverWithoutRules)
  /\ [](FairestWin /\ StricterAcceptsLess /\ NeverBothWays)
  /\ VotesNeverBackfire
  /\ AbstentionsAreNeutral
=============================================================================
