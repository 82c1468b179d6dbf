------------------------------ MODULE Ballots ------------------------------
(***************************************************************************)
(* Digital ballots (src/src/lib/ballots.ts, src/src/lib/ballot-jobs.ts):    *)
(* the ballots of one assembly and circular resolutions, the requests that  *)
(* vote and manage them, and the sweep of the scheduler.                    *)
(*                                                                         *)
(* A request is one transaction at READ COMMITTED.  A vote locks the row of *)
(* its ballot FOR SHARE and reads attendance and proxies statement by       *)
(* statement, with no lock on the meeting; everything else locks the row    *)
(* FOR UPDATE.  What a transaction wrote is seen when it commits, so a      *)
(* request keeps it until then; a transaction that fails leaves nothing.    *)
(***************************************************************************)
EXTENDS Assembly, Sequences

CONSTANTS
  BallotIds,     \* rows of the table ballots
  Circulars,     \* those of mode circular; the others are in session
  Requests,      \* concurrent calls of the API
  Sweepers,      \* processes that run job ballot_sweep
  Board,         \* members with a role of BOARD_ROLE_TYPES
  Choices,       \* options of a yes/no ballot
  NoChoice,      \* not voted
  ReminderLead,  \* BALLOT_REMINDER_HOURS, in ticks of the clock
  MaxClock,      \* bound: the clock of the database
  MaxFailures    \* bound: transactions that fail for no reason of their own

ASSUME BallotsAssumption ==
  /\ IsFiniteSet(BallotIds) /\ IsFiniteSet(Requests)
  /\ IsFiniteSet(Sweepers)
  /\ Sweepers \cap Requests = {}
  /\ Circulars \subseteq BallotIds
  /\ Board \subseteq Members
  /\ NoChoice \notin Choices
  /\ {ReminderLead, MaxFailures} \subseteq Nat
  /\ MaxClock \in Nat \ {0}

VARIABLES
  ballot,    \* ballot -> its row, or a row with status "none"
  voters,    \* ballot -> members with a row in ballot_voters
  voted,     \* ballot -> those with has_voted
  box,       \* ballot -> voter -> choices recorded in ballot_votes_*
  entries,   \* ballot -> rows in meeting_resolutions
  notices,   \* dedupe keys of the enqueued ballot_notify jobs
  req,       \* session -> its transaction
  sweep,     \* sweeper -> progress of its sweep
  clock,     \* clock_timestamp()
  failures   \* history: transactions that failed

ballotVars == <<ballot, voters, voted, box, entries, notices>>
vars == <<assemblyVars, ballotVars, req, sweep, clock, failures>>

-----------------------------------------------------------------------------
Sessions == Requests \cup Sweepers
Statuses == {"none", "draft", "open", "closed", "counted", "finalized", "cancelled"}
Ops == {"update", "open", "settle", "close", "count", "finalize", "cancel"}

\* closesAt = 0: no end; result is what was counted, once something was.
Row == [status: Statuses, secret: BOOLEAN, opensAt: Nat,
        closesAt: Nat, result: {<<>>} \cup [Members -> Seq(Choices)]]

VotingStages == {"begun", "mandated", "seated", "admitted", "marked"}
Voting == [at: VotingStages,
           ballot: BallotIds, voter: Members, by: Members, choice: Choices]
Managing == [at: {"holds", "opening"}, op: Ops, ballot: BallotIds,
             roll: SUBSET Members]

Sweep == [stage: {"idle", "settle", "count", "finalize"}, todo: SUBSET BallotIds]
Asleep == [stage |-> "idle", todo |-> {}]

TypeOK ==
  /\ AssemblyTypeOK
  /\ ballot \in [BallotIds -> Row]
  /\ voters \in [BallotIds -> SUBSET Members]
  /\ voted \in [BallotIds -> SUBSET Members]
  /\ box \in [BallotIds -> [Members -> Seq(Choices)]]
  /\ entries \in [BallotIds -> Nat]
  /\ notices \subseteq {"opened", "reminder"} \X BallotIds
  /\ req \in [Sessions -> {Resting} \cup Voting \cup Managing]
  /\ readers = {s \in Sessions : req[s].at = "opening" /\ req[s].ballot \notin Circulars}
  /\ sweep \in [Sweepers -> Sweep]
  /\ clock \in 1..MaxClock
  /\ failures \in 0..MaxFailures

Vacant == [status |-> "none", secret |-> FALSE, opensAt |-> 0, closesAt |-> 0,
           result |-> <<>>]

Empty == [m \in Members |-> <<>>]

Init ==
  /\ AssemblyInit
  /\ ballot = [b \in BallotIds |-> Vacant]
  /\ voters = [b \in BallotIds |-> {}]
  /\ voted = [b \in BallotIds |-> {}]
  /\ box = [b \in BallotIds |-> Empty]
  /\ entries = [b \in BallotIds |-> 0]
  /\ notices = {}
  /\ req = [s \in Sessions |-> Resting]
  /\ sweep = [w \in Sweepers |-> Asleep]
  /\ clock = 1
  /\ failures = 0

-----------------------------------------------------------------------------
\* Locks

VotingOn(b) == {s \in Sessions : req[s].at \in VotingStages /\ req[s].ballot = b}
ManagingOn(b) == {s \in Sessions : req[s].at \in {"holds", "opening"} /\ req[s].ballot = b}

\* Faulty variant: votes do not lock the ballot.
ExclusiveDespiteVotes(b) == ManagingOn(b) = {}

\* FOR UPDATE waits for every other transaction on the row, FOR SHARE for writers.
ExclusiveFree(b) == ManagingOn(b) = {} /\ VotingOn(b) = {}
ShareFree(b) == ManagingOn(b) = {}

\* Faulty variant: two transactions write one row of ballot_voters.
VoterRowFreeAlways(b, m) == TRUE

\* The row of ballot_voters is locked by the transaction that has set has_voted.
VoterRowFree(b, m) ==
  \A s \in VotingOn(b) : ~(req[s].at = "marked" /\ req[s].voter = m)

-----------------------------------------------------------------------------
\* Where a ballot stands

Status(b) == ballot[b].status
WindowOver(b) == ballot[b].closesAt # 0 /\ ballot[b].closesAt <= clock
WindowOpen(b) == ballot[b].opensAt <= clock /\ ~WindowOver(b)
SecretOpen == \E b \in BallotIds :
                Status(b) = "open" /\ ballot[b].secret /\ b \notin Circulars

\* The rows of ballot_votes_open or ballot_votes_secret.
Recorded(b) == UNION {{m} \X DOMAIN box[b][m] : m \in Members}

\* countBallot refuses when the votes do not match the participation.
Matching(b) == Cardinality(Recorded(b)) = Cardinality(voted[b])

\* Faulty variant: finalizing relies on the status the caller saw.
AllowedFinalizeAgain(op, b) ==
  \/ op \in {"update", "open"} /\ Status(b) = "draft"
  \/ op = "settle" /\ Status(b) = "open" /\ WindowOver(b)
  \/ op = "close" /\ Status(b) = "open" /\ ballot[b].opensAt <= clock
  \/ op = "count" /\ Status(b) = "closed"
  \/ op = "finalize" /\ Status(b) \in {"counted", "finalized"}
  \/ op = "cancel" /\ Status(b) \in {"draft", "open"}

\* What a managing call finds under the lock, or refuses.
Allowed(op, b) ==
  \/ op \in {"update", "open"} /\ Status(b) = "draft"
  \/ op = "settle" /\ Status(b) = "open" /\ WindowOver(b)
  \/ op = "close" /\ Status(b) = "open" /\ ballot[b].opensAt <= clock
  \/ op = "count" /\ Status(b) = "closed"
  \/ op = "finalize" /\ Status(b) = "counted"
  \/ op = "cancel" /\ Status(b) \in {"draft", "open"}

Moved(b, status) == [ballot EXCEPT ![b] = [@ EXCEPT !.status = status]]

-----------------------------------------------------------------------------
\* Drafts

CreateBallot(b, secret) ==
  /\ Status(b) = "none"
  /\ ballot' = [ballot EXCEPT ![b] = [@ EXCEPT !.status = "draft", !.secret = secret]]
  /\ UNCHANGED <<assemblyVars, voters, voted, box, entries, notices, req, sweep,
                 clock, failures>>

\* One DELETE; it waits for the row and looks at its status again.
DeleteDraft(b) ==
  /\ Status(b) = "draft"
  /\ ExclusiveFree(b)
  /\ ballot' = [ballot EXCEPT ![b] = Vacant]
  /\ UNCHANGED <<assemblyVars, voters, voted, box, entries, notices, req, sweep,
                 clock, failures>>

-----------------------------------------------------------------------------
\* castVote

\* The SHARE lock, the selection, the voter's row; no proxies in circulars.
VoteBegins(s, b, voter, by, c) ==
  /\ req[s] = Resting
  /\ ShareFree(b)
  /\ voter \in voters[b]
  /\ b \in Circulars => by = voter
  /\ req' = [req EXCEPT ![s] =
       [at |-> IF b \in Circulars THEN "admitted"
               ELSE IF by = voter THEN "mandated" ELSE "begun",
        ballot |-> b, voter |-> voter, by |-> by, choice |-> c]]
  /\ UNCHANGED <<assemblyVars, ballotVars, sweep, clock, failures>>

\* The reads of castVote; a stage whose read fails ends in RollBack.
ReadsSay(s) ==
  \/ req[s].at = "begun" /\ proxy[req[s].voter] = req[s].by
  \/ req[s].at = "mandated" /\ req[s].by \in present
  \/ req[s].at = "seated" /\ req[s].voter \notin present

Advances(s, stage) ==
  /\ req' = [req EXCEPT ![s] = [@ EXCEPT !.at = stage]]
  /\ UNCHANGED <<assemblyVars, ballotVars, sweep, clock, failures>>

ReadsProxy(s) == /\ req[s].at = "begun" /\ ReadsSay(s)
                 /\ Advances(s, "mandated")

ReadsCaller(s) ==
  /\ req[s].at = "mandated" /\ ReadsSay(s)
  /\ Advances(s, IF req[s].by = req[s].voter THEN "admitted" ELSE "seated")

ReadsVoter(s) == /\ req[s].at = "seated" /\ ReadsSay(s)
                 /\ Advances(s, "admitted")

\* The conditional UPDATE of ballot_voters.
Marks(s) ==
  LET b == req[s].ballot  m == req[s].voter IN
  /\ req[s].at = "admitted"
  /\ VoterRowFree(b, m)
  /\ m \notin voted[b]
  /\ Status(b) = "open"
  /\ WindowOpen(b)
  /\ Advances(s, "marked")

\* Faulty variant: the flag is committed, the vote is not.
RecordsFlagOnly(s) ==
  LET b == req[s].ballot  m == req[s].voter IN
  /\ req[s].at = "marked"
  /\ voted' = [voted EXCEPT ![b] = @ \cup {m}]
  /\ req' = [req EXCEPT ![s] = Resting]
  /\ UNCHANGED <<assemblyVars, ballot, voters, box, entries, notices, sweep,
                 clock, failures>>

\* The INSERT of the vote, and the commit.
Records(s) ==
  LET b == req[s].ballot  m == req[s].voter IN
  /\ req[s].at = "marked"
  /\ voted' = [voted EXCEPT ![b] = @ \cup {m}]
  /\ box' = [box EXCEPT ![b][m] = Append(@, req[s].choice)]
  /\ req' = [req EXCEPT ![s] = Resting]
  /\ UNCHANGED <<assemblyVars, ballot, voters, entries, notices, sweep, clock, failures>>

\* What castVote or a managing call refuses on what it finds.
Refused(s) ==
  \/ req[s].at \in {"begun", "mandated", "seated"} /\ ~ReadsSay(s)
  \/ /\ req[s].at = "admitted"
     /\ VoterRowFree(req[s].ballot, req[s].voter)
     /\ \/ req[s].voter \in voted[req[s].ballot]
        \/ Status(req[s].ballot) # "open"
        \/ ~WindowOpen(req[s].ballot)
  \/ /\ req[s].at = "holds" /\ req[s].op = "count"
     /\ ~Matching(req[s].ballot)
  \/ /\ req[s].at = "holds" /\ req[s].op = "open"
     /\ IF req[s].ballot \in Circulars
        THEN entitled \cup Board = {}
        ELSE standing \notin {"geplant", "abgehalten"} \/ ~Quorate \/ Eligible = {}

\* Faulty variant: the lock on the meeting is kept.
ReleasedRowOnly(s) == req' = [req EXCEPT ![s] = Resting] /\ readers' = readers

Released(s) == req' = [req EXCEPT ![s] = Resting] /\ readers' = readers \ {s}

\* A refusal, an error, a lost connection, a crash.
RollBack(s) ==
  /\ req[s] # Resting
  /\ IF Refused(s) THEN failures' = failures
                   ELSE failures < MaxFailures /\ failures' = failures + 1
  /\ Released(s)
  /\ UNCHANGED <<entitled, changes, standing, frozen, roll, present, proxy, proven,
                 desk, ballotVars, sweep, clock>>

-----------------------------------------------------------------------------
\* Managing calls

Locks(s, op, b) ==
  /\ req[s] = Resting
  /\ ExclusiveFree(b)
  /\ Allowed(op, b)
  /\ op = "open" /\ b \notin Circulars => frozen
  /\ req' = [req EXCEPT ![s] = [at |-> "holds", op |-> op, ballot |-> b, roll |-> {}]]

\* A manager, or for "settle" anybody who reads the ballot.
Manages(s, op, b) ==
  /\ Locks(s, op, b)
  /\ UNCHANGED <<assemblyVars, ballotVars, sweep, clock, failures>>

\* Faulty variant: opening does not lock the meeting.
OpeningReadsUnlocked(s) ==
  LET b == req[s].ballot IN
  /\ req[s].at = "holds" /\ req[s].op = "open"
  /\ \/ /\ b \in Circulars
        /\ \E r \in {entitled, Board} \ {{}} :
             req' = [req EXCEPT ![s] = [@ EXCEPT !.at = "opening", !.roll = r]]
     \/ /\ b \notin Circulars
        /\ standing \in {"geplant", "abgehalten"}
        /\ Quorate
        /\ Eligible # {}
        /\ req' = [req EXCEPT ![s] = [@ EXCEPT !.at = "opening", !.roll = Eligible]]
  /\ UNCHANGED <<assemblyVars, ballotVars, sweep, clock, failures>>

\* openBallot: the meeting FOR SHARE, its quorum, and who may vote.
OpeningReads(s) ==
  LET b == req[s].ballot IN
  /\ req[s].at = "holds" /\ req[s].op = "open"
  /\ \/ /\ b \in Circulars
        /\ \E r \in {entitled, Board} \ {{}} :
             req' = [req EXCEPT ![s] = [@ EXCEPT !.at = "opening", !.roll = r]]
        /\ UNCHANGED readers
     \/ /\ b \notin Circulars
        /\ \A d \in Desks : desk[d] = Resting
        /\ standing \in {"geplant", "abgehalten"}
        /\ Quorate
        /\ Eligible # {}
        /\ readers' = readers \cup {s}
        /\ req' = [req EXCEPT ![s] = [@ EXCEPT !.at = "opening", !.roll = Eligible]]
  /\ UNCHANGED <<entitled, changes, standing, frozen, roll, present, proxy, proven,
                 desk, ballotVars, sweep, clock, failures>>

\* The window was checked before: its end may have come meanwhile.  An opensAt
\* that had passed then counts as the present moment.
Opens(s, opensAt, closesAt) ==
  LET b == req[s].ballot IN
  /\ req[s].at = "opening"
  /\ opensAt >= clock
  /\ closesAt = 0 \/ closesAt > opensAt \/ closesAt = clock
  /\ b \in Circulars => closesAt # 0
  /\ ballot' = [ballot EXCEPT ![b] = [@ EXCEPT !.status = "open", !.opensAt = opensAt,
                                        !.closesAt = closesAt]]
  /\ voters' = [voters EXCEPT ![b] = req[s].roll]
  /\ notices' = IF b \in Circulars THEN notices \cup {<<"opened", b>>} ELSE notices
  /\ Released(s)
  /\ UNCHANGED <<entitled, changes, standing, frozen, roll, present, proxy, proven,
                 desk, voted, box, entries, sweep, clock, failures>>

\* closeLocked: closed by hand, the window ends now.
Closed(row) ==
  [row EXCEPT !.status = "closed",
              !.closesAt = IF row.closesAt \in 1..clock THEN row.closesAt ELSE clock]

\* What the other calls write under the lock: the ballot's row, and for
\* finalizeBallot the resolution (of a circular with its meeting and minutes).
Written(op, b) ==
  CASE op = "update" -> [ballot EXCEPT ![b].secret = ~@]
    [] op \in {"settle", "close"} -> [ballot EXCEPT ![b] = Closed(@)]
    [] op = "count" -> [ballot EXCEPT ![b] = [@ EXCEPT !.status = "counted",
                                                !.result = box[b]]]
    [] op = "finalize" -> Moved(b, "finalized")
    [] op = "cancel" -> Moved(b, "cancelled")

Commits(s) ==
  LET b == req[s].ballot  op == req[s].op IN
  /\ req[s].at = "holds" /\ op # "open"
  /\ op = "count" => Matching(b)
  /\ ballot' = Written(op, b)
  /\ entries' = IF op = "finalize" THEN [entries EXCEPT ![b] = @ + 1] ELSE entries
  /\ req' = [req EXCEPT ![s] = Resting]
  /\ UNCHANGED <<assemblyVars, voters, voted, box, notices, sweep, clock, failures>>

-----------------------------------------------------------------------------
\* runBallotSweep: select, then act on one after the other

\* Faulty variant: nobody counts what has ended.
DueUncounted(stage) ==
  {b \in BallotIds :
     \/ stage = "settle" /\ Status(b) = "open" /\ WindowOver(b)
     \/ stage = "finalize" /\ Status(b) = "counted" /\ b \in Circulars}

\* Faulty variant: a circular resolution waits for the board, like any other.
DueInSession(stage) ==
  {b \in BallotIds :
     \/ stage = "settle" /\ Status(b) = "open" /\ WindowOver(b)
     \/ stage = "count" /\ Status(b) = "closed"}

Due(stage) ==
  {b \in BallotIds :
     \/ stage = "settle" /\ Status(b) = "open" /\ WindowOver(b)
     \/ stage = "count" /\ Status(b) = "closed"
     \/ stage = "finalize" /\ Status(b) = "counted" /\ b \in Circulars}

SweepTurnsTo(w, stage, from) ==
  /\ sweep[w].stage = from
  /\ sweep[w].todo = {}
  /\ req[w] = Resting
  /\ sweep' = [sweep EXCEPT ![w] = [stage |-> stage, todo |-> Due(stage)]]
  /\ UNCHANGED <<assemblyVars, ballotVars, req, clock, failures>>

TakenOff(w, b) == sweep' = [sweep EXCEPT ![w].todo = @ \ {b}]

SweepActs(w, b) ==
  /\ b \in sweep[w].todo
  /\ Locks(w, sweep[w].stage, b)
  /\ TakenOff(w, b)
  /\ UNCHANGED <<assemblyVars, ballotVars, clock, failures>>

\* Under the lock there is nothing to do any more: a no-op, or a caught error.
SweepPasses(w, b) ==
  /\ b \in sweep[w].todo
  /\ req[w] = Resting
  /\ ExclusiveFree(b)
  /\ ~Allowed(sweep[w].stage, b)
  /\ TakenOff(w, b)
  /\ UNCHANGED <<assemblyVars, ballotVars, req, clock, failures>>

\* At the end of a sweep: one reminder per circular resolution.
SweepReminds(w) ==
  /\ sweep[w].stage = "finalize"
  /\ sweep[w].todo = {}
  /\ req[w] = Resting
  /\ notices' = notices \cup
       {<<"reminder", b>> : b \in {x \in Circulars :
          /\ Status(x) = "open" /\ WindowOpen(x)
          /\ ballot[x].closesAt <= clock + ReminderLead}}
  /\ sweep' = [sweep EXCEPT ![w] = Asleep]
  /\ UNCHANGED <<assemblyVars, ballot, voters, voted, box, entries, req, clock, failures>>

\* The process of the sweep ends.
SweepDies(w) ==
  /\ sweep[w] # Asleep
  /\ failures < MaxFailures
  /\ failures' = failures + 1
  /\ sweep' = [sweep EXCEPT ![w] = Asleep]
  /\ Released(w)
  /\ UNCHANGED <<entitled, changes, standing, frozen, roll, present, proxy, proven,
                 desk, ballotVars, clock>>

-----------------------------------------------------------------------------
Tick == /\ clock < MaxClock
        /\ clock' = clock + 1
        /\ UNCHANGED <<assemblyVars, ballotVars, req, sweep, failures>>

DraftStep(b) ==
  \/ \E secret \in BOOLEAN : CreateBallot(b, secret)
  \/ DeleteDraft(b)

VoteStep(s) ==
  \/ \E b \in BallotIds, voter, by \in Members, c \in Choices :
       VoteBegins(s, b, voter, by, c)
  \/ ReadsProxy(s) \/ ReadsCaller(s) \/ ReadsVoter(s) \/ Marks(s) \/ Records(s)

ManageStep(s) ==
  \/ OpeningReads(s) \/ Commits(s)
  \/ \E from \in 1..MaxClock, to \in 0..MaxClock : Opens(s, from, to)

SweepStep(w) ==
  \/ SweepTurnsTo(w, "settle", "idle") \/ SweepTurnsTo(w, "count", "settle")
  \/ SweepTurnsTo(w, "finalize", "count") \/ SweepReminds(w) \/ SweepDies(w)
  \/ \E b \in BallotIds : SweepActs(w, b) \/ SweepPasses(w, b)

MeetingStep == /\ AssemblyStep(SecretOpen)
               /\ UNCHANGED <<ballotVars, req, sweep, clock, failures>>

Next == \/ MeetingStep \/ Tick
        \/ \E w \in Sweepers : SweepStep(w)
        \/ \E b \in BallotIds : DraftStep(b)
        \/ \E s \in Requests : \/ VoteStep(s)
                               \/ \E op \in Ops, b \in BallotIds : Manages(s, op, b)
        \/ \E s \in Sessions : ManageStep(s) \/ RollBack(s)

Spec == Init /\ [][Next]_vars

\* Fairness.  The clock runs; a request ends, by a commit or a roll-back; the
\* queue runs the sweep every minute and it goes through its lists; and calls
\* do not keep the row of a ballot from the sweep for ever.
Progress(s) == ManageStep(s) \/ RollBack(s) \/ ReadsProxy(s) \/ ReadsCaller(s)
               \/ ReadsVoter(s) \/ Marks(s) \/ Records(s)

Fairness ==
  /\ WF_vars(Tick)
  /\ \A s \in Sessions : WF_vars(Progress(s))
  /\ \A w \in Sweepers :
       /\ WF_vars(SweepTurnsTo(w, "settle", "idle"))
       /\ WF_vars(SweepTurnsTo(w, "count", "settle"))
       /\ WF_vars(SweepTurnsTo(w, "finalize", "count"))
       /\ WF_vars(SweepReminds(w))
       /\ \A b \in BallotIds : SF_vars(SweepActs(w, b) \/ SweepPasses(w, b))

FairSpec == Spec /\ Fairness

-----------------------------------------------------------------------------
\* Properties

\* The committed votes are the votes of those who are marked as having voted,
\* one of each, in every state: the count can never be refused for a mismatch,
\* whatever votes of one voter collide and wherever a transaction breaks off.
OneVoteEach ==
  \A b \in BallotIds :
    /\ voted[b] \subseteq voters[b]
    /\ \A m \in Members : Len(box[b][m]) = IF m \in voted[b] THEN 1 ELSE 0

Chosen(votes) == [m \in Members |-> IF votes # <<>> /\ votes[m] # <<>>
                                   THEN Head(votes[m]) ELSE NoChoice]

Phase == [none |-> "planned", draft |-> "planned", open |-> "voting",
          closed |-> "over", counted |-> "decided", finalized |-> "entered",
          cancelled |-> "calledOff"]

Promise == INSTANCE BallotPromise WITH
  Ballots <- BallotIds,
  phase <- [b \in BallotIds |-> Phase[Status(b)]],
  choice <- [b \in BallotIds |-> Chosen(box[b])],
  outcome <- [b \in BallotIds |-> Chosen(ballot[b].result)]

\* The ballots keep what BallotPromise promises: the SHARE lock of the votes, the
\* exclusive lock of the close and the status read under it let no vote slip
\* past the count, no call undo another, and no resolution be written twice.
PromiseKept == Promise!Spec

\* While a secret ballot of the assembly is open the board records no proxy for
\* anybody (comment in grantProxy): the check is a plain read, and holds only
\* because opening a ballot locks the meeting.
NotRepresentedUnseen == [][SecretOpen => proven' \subseteq proven]_vars

\* A ballot whose window is over is counted without anybody looking, unless the
\* board called it off; runs of the sweep may fail and calls may get in between.
EndedIsCounted ==
  \A b \in BallotIds :
    (Status(b) = "open" /\ WindowOver(b))
      ~> (Status(b) \in {"counted", "finalized", "cancelled"})

\* A circular resolution, once opened, is finalized by itself.
CircularIsFinalized ==
  \A b \in BallotIds :
    (Status(b) = "open" /\ b \in Circulars)
      ~> (Status(b) \in {"finalized", "cancelled"})

\* A call that the code accepts to cancel b: it found its status good enough.
Withdraws(s, b) ==
  /\ req[s] = Resting
  /\ req'[s] = [at |-> "holds", op |-> "cancel", ballot |-> b, roll |-> {}]

\* Once the voting is over the result is finalized, never withdrawn (comments of
\* cancelBallot and of ballot-jobs.ts, which says that nothing depends on the
\* sweep).  Not so: a ballot whose window has ended can be cancelled until
\* something has closed it.
NeverWithdrawn ==
  [][\A b \in BallotIds, s \in Requests :
       /\ Status(b) = "open"
       /\ WindowOver(b)
       /\ ballot[b].opensAt < ballot[b].closesAt
       => ~Withdraws(s, b)]_vars
=============================================================================
