------------------------------ MODULE Assembly ------------------------------
(***************************************************************************)
(* One general assembly (src/src/lib/assembly-attendance.ts and the meeting *)
(* routes): its voting roll, who is checked in, and who represents whom.    *)
(*                                                                         *)
(* A transaction that writes locks the meeting's row first (FOR UPDATE);    *)
(* opening a ballot locks it FOR SHARE.  Transactions that decide on what   *)
(* they read and write afterwards are two steps; withdrawing a proxy takes  *)
(* no lock and may come between them.  What a longer PATCH /attendance does *)
(* in one transaction is a sequence of the steps below.                     *)
(***************************************************************************)
EXTENDS Integers, FiniteSets

CONSTANTS
  Members,        \* club_members
  Desks,          \* concurrent transactions of clerks and members
  Nobody,         \* no proxy holder
  MaxProxies,     \* rules.maxProxiesPerPerson
  QuorumPercent,  \* rules.quorumValue of quorumMode "fraction"; 0: "none"
  MaxChanges      \* bound: changes of standing, of voting rights, of roll entries

ASSUME AssemblyAssumption ==
  /\ IsFiniteSet(Members)
  /\ Nobody \notin Members
  /\ {MaxProxies, MaxChanges} \subseteq Nat
  /\ QuorumPercent \in 0..100

VARIABLES
  entitled,  \* members the statute gives a voting right today
  changes,   \* history: number of these changes
  standing,  \* meetings.status
  frozen,    \* meetings.voting_roll_frozen_at is set
  roll,      \* eligible members of meeting_voting_roll
  present,   \* meeting_attendance.present
  proxy,     \* grantor -> holder (meeting_proxies)
  proven,    \* grantors whose proxy the board recorded, with its proof_source
  desk,      \* transactions that hold the meeting's row FOR UPDATE
  readers    \* transactions that hold it FOR SHARE

assemblyVars == <<entitled, changes, standing, frozen, roll, present, proxy,
                  proven, desk, readers>>

-----------------------------------------------------------------------------
Over == {"abgehalten", "protokolliert", "abgesagt"}
Resting == [at |-> "idle"]

DeskState == {Resting} \cup [at: {"checkIn"}, who: Members]
                       \cup [at: {"grant"}, from: Members, to: Members, board: BOOLEAN]

Grantors == {m \in Members : proxy[m] # Nobody}
HeldBy(h) == {g \in Members : proxy[g] = h}

AssemblyTypeOK ==
  /\ entitled \subseteq Members
  /\ changes \in 0..MaxChanges
  /\ standing \in {"geplant"} \cup Over
  /\ frozen \in BOOLEAN
  /\ roll \subseteq Members
  /\ present \subseteq Members
  /\ proxy \in [Members -> Members \cup {Nobody}]
  /\ proven \subseteq Grantors
  /\ desk \in [Desks -> DeskState]

AssemblyInit ==
  /\ entitled = Members
  /\ changes = 0
  /\ standing = "geplant"
  /\ frozen = FALSE
  /\ roll = {}
  /\ present = {}
  /\ proxy = [m \in Members |-> Nobody]
  /\ proven = {}
  /\ desk = [d \in Desks |-> Resting]
  /\ readers = {}

-----------------------------------------------------------------------------
\* Faulty variant: nobody waits for the row of the meeting.
MeetingFreeAlways == TRUE

MeetingFree == readers = {} /\ \A d \in Desks : desk[d] = Resting

\* loadEligibility
Eligible == IF frozen THEN roll ELSE entitled

\* computeQuorum: present, or represented by somebody who is.
Represented ==
  (present \cap Eligible) \cup
    {g \in Eligible \ present : proxy[g] \in present \cap Eligible}

\* evaluateQuorum
Quorate ==
  \/ QuorumPercent = 0
  \/ /\ Represented # {}
     /\ 100 * Cardinality(Represented) >= QuorumPercent * Cardinality(Eligible)

-----------------------------------------------------------------------------
Changes == changes < MaxChanges /\ changes' = changes + 1

\* The membership register moves on: a status, category or age changes.
MemberChanges(m) ==
  /\ Changes
  /\ entitled' = IF m \in entitled THEN entitled \ {m} ELSE entitled \cup {m}
  /\ UNCHANGED <<standing, frozen, roll, present, proxy, proven, desk, readers>>

\* PATCH /meetings/:id; the UPDATE waits for the row.
ChangesStanding(s) ==
  /\ Changes
  /\ MeetingFree
  /\ standing' = s
  /\ UNCHANGED <<entitled, frozen, roll, present, proxy, proven, desk, readers>>

\* freezeVotingRoll: by the board, or ahead of the first ballot.
FreezeRoll ==
  /\ MeetingFree
  /\ ~frozen
  /\ frozen' = TRUE
  /\ roll' = entitled
  /\ UNCHANGED <<entitled, changes, standing, present, proxy, proven, desk, readers>>

\* overrideVotingRight
OverrideRight(m, eligible) ==
  /\ Changes
  /\ MeetingFree
  /\ frozen
  /\ roll' = IF eligible THEN roll \cup {m} ELSE roll \ {m}
  /\ UNCHANGED <<entitled, standing, frozen, present, proxy, proven, desk, readers>>

\* Check-in, by the secretary or by oneself online: not for whoever gave a proxy.
CheckInReads(d, m) ==
  /\ MeetingFree
  /\ m \notin present
  /\ m \notin Grantors
  /\ desk' = [desk EXCEPT ![d] = [at |-> "checkIn", who |-> m]]
  /\ UNCHANGED <<entitled, changes, standing, frozen, roll, present, proxy, proven, readers>>

CheckInWrites(d) ==
  /\ desk[d].at = "checkIn"
  /\ present' = present \cup {desk[d].who}
  /\ desk' = [desk EXCEPT ![d] = Resting]
  /\ UNCHANGED <<entitled, changes, standing, frozen, roll, proxy, proven, readers>>

Leaves(m) ==
  /\ MeetingFree
  /\ m \in present
  /\ present' = present \ {m}
  /\ UNCHANGED <<entitled, changes, standing, frozen, roll, proxy, proven, desk, readers>>

\* grantProxy, under the meeting's lock; secretOpen: an open secret ballot.
GrantReads(d, g, h, board, secretOpen) ==
  /\ MeetingFree
  /\ g # h
  /\ board \/ standing \notin Over
  /\ ~(board /\ secretOpen)
  /\ {g, h} \subseteq Eligible
  /\ g \notin present
  /\ h \notin Grantors
  /\ HeldBy(g) = {}
  /\ Cardinality(HeldBy(h) \ {g}) < MaxProxies
  /\ desk' = [desk EXCEPT ![d] = [at |-> "grant", from |-> g, to |-> h, board |-> board]]
  /\ UNCHANGED <<entitled, changes, standing, frozen, roll, present, proxy, proven, readers>>

GrantWrites(d) ==
  /\ desk[d].at = "grant"
  /\ proxy' = [proxy EXCEPT ![desk[d].from] = desk[d].to]
  /\ proven' = IF desk[d].board THEN proven \cup {desk[d].from}
                                ELSE proven \ {desk[d].from}
  /\ desk' = [desk EXCEPT ![d] = Resting]
  /\ UNCHANGED <<entitled, changes, standing, frozen, roll, present, readers>>

\* An error, or a process that ends, rolls the transaction back.
DeskRollsBack(d) ==
  /\ desk[d] # Resting
  /\ desk' = [desk EXCEPT ![d] = Resting]
  /\ UNCHANGED <<entitled, changes, standing, frozen, roll, present, proxy, proven, readers>>

\* Faulty variant: who grants a proxy again finds the old proof.
WithdrawnProofKept(S) ==
  /\ proxy' = [g \in Members |-> IF g \in S THEN Nobody ELSE proxy[g]]
  /\ proven' = proven

Withdrawn(S) ==
  /\ proxy' = [g \in Members |-> IF g \in S THEN Nobody ELSE proxy[g]]
  /\ proven' = proven \ S

\* PATCH /attendance with proxyForClubMemberId null.
ClearProxies(h) ==
  /\ MeetingFree
  /\ Withdrawn(HeldBy(h))
  /\ UNCHANGED <<entitled, changes, standing, frozen, roll, present, desk, readers>>

\* DELETE /proxies/:grantor, one statement: no lock on the meeting.
Revoke(g) ==
  /\ g \in Grantors
  /\ Withdrawn({g})
  /\ UNCHANGED <<entitled, changes, standing, frozen, roll, present, desk, readers>>

-----------------------------------------------------------------------------
AssemblyStep(secretOpen) ==
  \/ FreezeRoll
  \/ \E m \in Members : \/ MemberChanges(m) \/ Leaves(m) \/ ClearProxies(m) \/ Revoke(m)
                        \/ \E e \in BOOLEAN : OverrideRight(m, e)
  \/ \E s \in {"geplant"} \cup Over : ChangesStanding(s)
  \/ \E d \in Desks :
       \/ CheckInWrites(d) \/ GrantWrites(d) \/ DeskRollsBack(d)
       \/ \E m \in Members : CheckInReads(d, m)
       \/ \E g, h \in Members, board \in BOOLEAN : GrantReads(d, g, h, board, secretOpen)

\* On its own: the ballots of the meeting are open or not, as they like.
AssemblyNext == \E secretOpen \in BOOLEAN : AssemblyStep(secretOpen)

AssemblySpec == AssemblyInit /\ [][AssemblyNext]_assemblyVars

-----------------------------------------------------------------------------
\* Properties

\* Nobody speaks twice at the assembly, and no voice is passed on: whoever gave
\* a proxy is not checked in and holds none, and no holder has more proxies
\* than the statute allows, whichever check-ins, grants, replacements and
\* unlocked withdrawals run against each other.
OneVoiceEach ==
  /\ Grantors \cap present = {}
  /\ \A g \in Grantors : HeldBy(g) = {}
  /\ \A h \in Members : Cardinality(HeldBy(h)) <= MaxProxies
=============================================================================
