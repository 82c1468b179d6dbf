--------------------------- MODULE BallotsProofs ---------------------------
(***************************************************************************)
(* Proofs about the hall of an assembly, its ballots and its invitation,    *)
(* for any members, ballots, agendas, numbers of concurrent transactions,   *)
(* requests and sweepers, any limit of proxies and any number of changes.   *)
(***************************************************************************)
EXTENDS Ballots, Invitation, FiniteSetTheorems, WellFoundedInduction, TLAPS

-----------------------------------------------------------------------------
(***************************************************************************)
(* The hall.  OneVoiceEach is not inductive: what a transaction wrote it    *)
(* decided a step earlier.  AssemblyInv says what stays true in between:    *)
(* there is at most one such transaction (the row of the meeting is its     *)
(* lock), and what it read still holds when it writes, although             *)
(* withdrawals take no lock.                                                *)
(***************************************************************************)
\* What GrantReads found and GrantWrites relies on.
Grantable(g, h) ==
  /\ g # h
  /\ g \notin present
  /\ h \notin Grantors
  /\ HeldBy(g) = {}
  /\ Cardinality(HeldBy(h) \ {g}) < MaxProxies

OneDesk == \A c, d \in Desks : desk[c] # Resting /\ desk[d] # Resting => c = d

ReadHolds(s) ==
  /\ s.at = "checkIn" => s.who \notin Grantors
  /\ s.at = "grant" => Grantable(s.from, s.to)

ReadsHold == \A d \in Desks : ReadHolds(desk[d])

AssemblyInv == AssemblyTypeOK /\ OneVoiceEach /\ OneDesk /\ ReadsHold

-----------------------------------------------------------------------------
\* A transaction at work is one of the two kinds, with the fields of its kind.
LEMMA DeskKinds ==
  ASSUME NEW s \in DeskState
  PROVE  /\ s = Resting => s.at = "idle"
         /\ s # Resting => s.at \in {"checkIn", "grant"}
         /\ s.at = "checkIn" => s.who \in Members
         /\ s.at = "grant" => s.from \in Members /\ s.to \in Members /\ s.board \in BOOLEAN
  BY DEF DeskState, Resting

\* Fewer proxies of a holder are not more than before.
LEMMA FewerHeld ==
  ASSUME NEW S \in SUBSET Members, NEW T \in SUBSET S
  PROVE  /\ Cardinality(S) \in Nat /\ Cardinality(T) \in Nat
         /\ Cardinality(T) <= Cardinality(S)
  <1>1. IsFiniteSet(S) /\ IsFiniteSet(T)
    BY FS_Subset, AssemblyAssumption
  <1>2. QED
    BY <1>1, FS_Subset, FS_CardinalityType

\* Withdrawing proxies, with or without the lock, disturbs nothing that any
\* transaction has read.
LEMMA WithdrawnKeeps ==
  ASSUME AssemblyInv, NEW S \in SUBSET Members, Withdrawn(S),
         UNCHANGED <<entitled, changes, standing, frozen, roll, present, desk, readers>>
  PROVE  AssemblyInv'
  <1>1. \A m \in Members : proxy'[m] = IF m \in S THEN Nobody ELSE proxy[m]
    BY DEF Withdrawn
  <1>2. proxy' \in [Members -> Members \cup {Nobody}]
    BY DEF Withdrawn, AssemblyInv, AssemblyTypeOK
  <1>3. Grantors' \subseteq Grantors
    BY <1>1 DEF Grantors
  <1>4. \A h \in Members : HeldBy(h)' \subseteq HeldBy(h) /\ HeldBy(h) \subseteq Members
    BY <1>1, AssemblyAssumption DEF HeldBy
  <1>5. AssemblyTypeOK'
    <2>1. proven' \subseteq Grantors'
      BY <1>1 DEF Withdrawn, AssemblyInv, AssemblyTypeOK, Grantors
    <2>2. QED
      BY <1>2, <2>1 DEF AssemblyInv, AssemblyTypeOK
  <1>6. OneVoiceEach'
    <2>1. \A h \in Members : Cardinality(HeldBy(h)') <= MaxProxies
      <3> SUFFICES ASSUME NEW h \in Members PROVE Cardinality(HeldBy(h)') <= MaxProxies
        OBVIOUS
      <3>1. /\ Cardinality(HeldBy(h)) \in Nat /\ Cardinality(HeldBy(h)') \in Nat
            /\ Cardinality(HeldBy(h)') <= Cardinality(HeldBy(h))
        BY <1>4, FewerHeld
      <3>2. QED
        BY <3>1, AssemblyAssumption DEF AssemblyInv, OneVoiceEach
    <2>2. \A g \in Grantors' : HeldBy(g)' = {}
      BY <1>3, <1>4 DEF AssemblyInv, OneVoiceEach, Grantors
    <2>3. QED
      BY <1>3, <2>1, <2>2 DEF AssemblyInv, OneVoiceEach
  <1>7. OneDesk'
    BY DEF AssemblyInv, OneDesk
  <1>8. ReadsHold'
    <2> SUFFICES ASSUME NEW d \in Desks
                 PROVE  ReadHolds(desk[d])'
      BY DEF ReadsHold
    <2>1. desk[d] \in DeskState
      BY DEF AssemblyInv, AssemblyTypeOK
    <2>2. desk'[d].at = "checkIn" => desk'[d].who \notin Grantors'
      BY <1>3 DEF AssemblyInv, ReadsHold, ReadHolds
    <2>3. ASSUME desk[d].at = "grant"
          PROVE  Grantable(desk[d].from, desk[d].to)'
      <3> DEFINE g == desk[d].from
                 h == desk[d].to
      <3>1. g \in Members /\ h \in Members
        BY <2>1, <2>3, DeskKinds
      <3>2. Grantable(g, h)
        BY <2>3 DEF AssemblyInv, ReadsHold, ReadHolds
      <3>3. /\ HeldBy(h)' \ {g} \subseteq HeldBy(h) \ {g}
            /\ HeldBy(h) \ {g} \subseteq Members
        BY <1>4, <3>1
      <3>4. /\ Cardinality(HeldBy(h) \ {g}) \in Nat
            /\ Cardinality(HeldBy(h)' \ {g}) \in Nat
            /\ Cardinality(HeldBy(h)' \ {g}) <= Cardinality(HeldBy(h) \ {g})
        BY <3>3, FewerHeld
      <3>5. Cardinality(HeldBy(h)' \ {g}) < MaxProxies
        BY <3>2, <3>4, AssemblyAssumption DEF Grantable
      <3>6. HeldBy(g)' = {}
        BY <1>4, <3>1, <3>2 DEF Grantable
      <3>7. g \notin present' /\ h \notin Grantors' /\ g # h
        BY <1>3, <3>2 DEF Grantable
      <3>8. QED
        BY <3>5, <3>6, <3>7 DEF Grantable
    <2>4. QED
      BY <2>2, <2>3 DEF ReadHolds
  <1>9. QED
    BY <1>5, <1>6, <1>7, <1>8 DEF AssemblyInv

\* Desks that rest, or go on with what they read, keep the lock and the reads,
\* as long as attendance and proxies stay.
LEMMA RollsKeep ==
  ASSUME AssemblyInv, UNCHANGED <<present, proxy>>, AssemblyTypeOK',
         \A d \in Desks : desk'[d] = desk[d] \/ desk'[d] = Resting
  PROVE  AssemblyInv'
  <1>1. /\ \A m \in Members : HeldBy(m)' = HeldBy(m)
        /\ Grantors' = Grantors
    BY DEF HeldBy, Grantors
  <1>2. OneVoiceEach'
    BY <1>1 DEF AssemblyInv, OneVoiceEach, Grantors
  <1>3. OneDesk'
    BY DEF AssemblyInv, OneDesk
  <1>4. ReadsHold'
    <2> SUFFICES ASSUME NEW d \in Desks
                 PROVE  ReadHolds(desk[d])'
      BY DEF ReadsHold
    <2>1. CASE desk'[d] = Resting
      BY <2>1 DEF Resting, ReadHolds
    <2>2. CASE desk'[d] = desk[d] /\ desk[d].at = "grant"
      <3>1. desk[d] \in DeskState
        BY DEF AssemblyInv, AssemblyTypeOK
      <3>2. desk[d].from \in Members /\ desk[d].to \in Members
        BY <2>2, <3>1, DeskKinds
      <3>3. Grantable(desk[d].from, desk[d].to)
        BY <2>2 DEF AssemblyInv, ReadsHold, ReadHolds
      <3>4. QED
        BY <1>1, <2>2, <3>2, <3>3 DEF Grantable, ReadHolds
    <2>3. CASE desk'[d] = desk[d] /\ desk[d].at # "grant"
      BY <1>1, <2>3 DEF AssemblyInv, ReadsHold, ReadHolds
    <2>4. QED
      BY <2>1, <2>2, <2>3
  <1>5. QED
    BY <1>2, <1>3, <1>4 DEF AssemblyInv

\* Taking the row of the meeting: no other transaction is at work, and what the
\* new one has read is true.
LEMMA ReadsKeep ==
  ASSUME AssemblyInv, NEW d \in Desks, NEW s \in DeskState, MeetingFree,
         desk' = [desk EXCEPT ![d] = s],
         UNCHANGED <<entitled, changes, standing, frozen, roll, present, proxy, proven>>,
         ReadHolds(s)
  PROVE  AssemblyInv'
  <1>1. desk \in [Desks -> DeskState] /\ \A c \in Desks : desk[c] = Resting
    BY DEF AssemblyInv, AssemblyTypeOK, MeetingFree
  <1>2. \A c \in Desks : desk'[c] = IF c = d THEN s ELSE Resting
    BY <1>1
  <1>3. /\ \A m \in Members : HeldBy(m)' = HeldBy(m)
        /\ Grantors' = Grantors
    BY DEF HeldBy, Grantors
  <1>4. AssemblyTypeOK'
    BY <1>1, <1>3 DEF AssemblyInv, AssemblyTypeOK
  <1>5. OneVoiceEach'
    BY <1>3 DEF AssemblyInv, OneVoiceEach, Grantors
  <1>6. OneDesk'
    BY <1>2 DEF OneDesk
  <1>7. ReadsHold'
    <2> SUFFICES ASSUME NEW c \in Desks
                 PROVE  ReadHolds(desk[c])'
      BY DEF ReadsHold
    <2>1. CASE c # d
      BY <1>2, <2>1 DEF Resting, ReadHolds
    <2>2. CASE c = d /\ s.at = "grant"
      <3>1. s.from \in Members /\ s.to \in Members
        BY <2>2, DeskKinds
      <3>2. QED
        BY <1>2, <1>3, <2>2, <3>1 DEF Grantable, ReadHolds
    <2>3. CASE c = d /\ s.at # "grant"
      BY <1>2, <1>3, <2>3 DEF ReadHolds
    <2>4. QED
      BY <2>1, <2>2, <2>3
  <1>8. QED
    BY <1>4, <1>5, <1>6, <1>7 DEF AssemblyInv

\* The check-in of somebody who gave no proxy is the last thing its transaction does.
LEMMA CheckInKeeps ==
  ASSUME AssemblyInv, NEW d \in Desks, CheckInWrites(d)
  PROVE  AssemblyInv'
  <1>1. /\ desk \in [Desks -> DeskState] /\ desk[d] # Resting
        /\ desk[d].who \in Members /\ desk[d].who \notin Grantors
    <2>1. desk[d] \in DeskState
      BY DEF AssemblyInv, AssemblyTypeOK
    <2>2. QED
      BY <2>1, DeskKinds DEF CheckInWrites, AssemblyInv, AssemblyTypeOK, ReadsHold, ReadHolds, Resting
  <1>2. \A c \in Desks : desk'[c] = Resting
    BY <1>1 DEF CheckInWrites, AssemblyInv, OneDesk
  <1>3. /\ \A m \in Members : HeldBy(m)' = HeldBy(m)
        /\ Grantors' = Grantors
    BY DEF CheckInWrites, HeldBy, Grantors
  <1>4. AssemblyTypeOK'
    <2>1. Resting \in DeskState
      BY DEF DeskState
    <2>2. QED
      BY <1>1, <1>3, <2>1 DEF CheckInWrites, AssemblyInv, AssemblyTypeOK
  <1>5. OneVoiceEach'
    BY <1>1, <1>3 DEF CheckInWrites, AssemblyInv, OneVoiceEach, Grantors
  <1>6. OneDesk' /\ ReadsHold'
    BY <1>2 DEF OneDesk, ReadsHold, ReadHolds, Resting
  <1>7. QED
    BY <1>4, <1>5, <1>6 DEF AssemblyInv

\* A proxy recorded on what GrantReads found: the giver becomes the one new
\* grantor, the holder gains at most the one proxy there was room for.
LEMMA GrantKeeps ==
  ASSUME AssemblyInv, NEW d \in Desks, GrantWrites(d)
  PROVE  AssemblyInv'
  <1> DEFINE from == desk[d].from
             to == desk[d].to
  <1>1. /\ desk \in [Desks -> DeskState] /\ desk[d] # Resting
        /\ from \in Members /\ to \in Members /\ Grantable(from, to)
    <2>1. desk[d] \in DeskState
      BY DEF AssemblyInv, AssemblyTypeOK
    <2>2. QED
      BY <2>1, DeskKinds DEF GrantWrites, AssemblyInv, AssemblyTypeOK, ReadsHold, ReadHolds, Resting
  <1>2. \A c \in Desks : desk'[c] = Resting
    BY <1>1 DEF GrantWrites, AssemblyInv, OneDesk
  <1>3. /\ proxy' \in [Members -> Members \cup {Nobody}]
        /\ \A m \in Members : proxy'[m] = IF m = from THEN to ELSE proxy[m]
    BY <1>1 DEF GrantWrites, AssemblyInv, AssemblyTypeOK
  <1>4. Grantors' = Grantors \cup {from}
    BY <1>1, <1>3, AssemblyAssumption DEF Grantors
  <1>5. \A h \in Members : HeldBy(h)' = IF h = to THEN (HeldBy(h) \ {from}) \cup {from}
                                                  ELSE HeldBy(h) \ {from}
    BY <1>1, <1>3 DEF HeldBy
  <1>6. AssemblyTypeOK'
    <2>1. Resting \in DeskState
      BY DEF DeskState
    <2>2. desk' \in [Desks -> DeskState]
      BY <1>1, <2>1 DEF GrantWrites
    <2>3. proven' \subseteq Grantors'
      BY <1>4 DEF GrantWrites, AssemblyInv, AssemblyTypeOK
    <2>4. QED
      BY <1>3, <2>2, <2>3 DEF GrantWrites, AssemblyInv, AssemblyTypeOK
  <1>7. OneVoiceEach'
    <2>1. Grantors' \cap present' = {}
      BY <1>1, <1>4 DEF GrantWrites, AssemblyInv, OneVoiceEach, Grantable
    <2>2. ASSUME NEW g \in Grantors' PROVE HeldBy(g)' = {}
      <3>1. g \in Members
        BY DEF Grantors
      <3>2. HeldBy(g) = {}
        BY <1>1, <1>4 DEF AssemblyInv, OneVoiceEach, Grantable
      <3>3. g # to
        BY <1>1, <1>4 DEF Grantable
      <3>4. QED
        BY <1>5, <3>1, <3>2, <3>3
    <2>3. ASSUME NEW h \in Members PROVE Cardinality(HeldBy(h)') <= MaxProxies
      <3>1. HeldBy(h) \in SUBSET Members
        BY DEF HeldBy
      <3>2. IsFiniteSet(HeldBy(h) \ {from})
        BY <3>1, FS_Subset, AssemblyAssumption
      <3>3. /\ Cardinality(HeldBy(h) \ {from}) \in Nat /\ Cardinality(HeldBy(h)) \in Nat
            /\ Cardinality(HeldBy(h) \ {from}) <= Cardinality(HeldBy(h))
        BY <3>1, FewerHeld
      <3>4. Cardinality((HeldBy(h) \ {from}) \cup {from}) = Cardinality(HeldBy(h) \ {from}) + 1
        BY <3>2, FS_AddElement
      <3>5. CASE h = to
        BY <1>1, <1>5, <3>3, <3>4, <3>5, AssemblyAssumption DEF Grantable
      <3>6. CASE h # to
        BY <1>5, <3>3, <3>6, AssemblyAssumption DEF AssemblyInv, OneVoiceEach
      <3>7. QED
        BY <3>5, <3>6
    <2>4. QED
      BY <2>1, <2>2, <2>3 DEF OneVoiceEach
  <1>8. OneDesk' /\ ReadsHold'
    BY <1>2 DEF OneDesk, ReadsHold, ReadHolds, Resting
  <1>9. QED
    BY <1>6, <1>7, <1>8 DEF AssemblyInv

-----------------------------------------------------------------------------
\* Every step of the assembly keeps the invariant, whether a secret ballot is
\* open or not: the meetings' routes and grantProxy, one step each.
LEMMA StepKeeps ==
  ASSUME AssemblyInv, NEW secretOpen \in BOOLEAN, AssemblyStep(secretOpen)
  PROVE  AssemblyInv'
  <1>1. ASSUME UNCHANGED <<present, proxy, proven, desk>>, AssemblyTypeOK'
        PROVE  AssemblyInv'
    BY <1>1, RollsKeep
  <1>2. UNCHANGED proxy => Grantors' = Grantors
    BY DEF Grantors
  <1>3. CASE FreezeRoll
    <2>1. AssemblyTypeOK'
      BY <1>2, <1>3 DEF FreezeRoll, AssemblyInv, AssemblyTypeOK
    <2>2. QED
      BY <1>1, <1>3, <2>1 DEF FreezeRoll
  <1>4. ASSUME NEW m \in Members, MemberChanges(m)
        PROVE  AssemblyInv'
    <2>1. AssemblyTypeOK'
      BY <1>2, <1>4, AssemblyAssumption DEF MemberChanges, Changes, AssemblyInv, AssemblyTypeOK
    <2>2. QED
      BY <1>1, <1>4, <2>1 DEF MemberChanges
  <1>5. ASSUME NEW m \in Members, NEW e \in BOOLEAN, OverrideRight(m, e)
        PROVE  AssemblyInv'
    <2>1. AssemblyTypeOK'
      BY <1>2, <1>5, AssemblyAssumption DEF OverrideRight, Changes, AssemblyInv, AssemblyTypeOK
    <2>2. QED
      BY <1>1, <1>5, <2>1 DEF OverrideRight
  <1>6. ASSUME NEW s \in {"geplant"} \cup Over, ChangesStanding(s)
        PROVE  AssemblyInv'
    <2>1. AssemblyTypeOK'
      BY <1>2, <1>6, AssemblyAssumption DEF ChangesStanding, Changes, AssemblyInv, AssemblyTypeOK
    <2>2. QED
      BY <1>1, <1>6, <2>1 DEF ChangesStanding
  <1>7. ASSUME NEW m \in Members, Leaves(m)
        PROVE  AssemblyInv'
    <2>1. /\ \A h \in Members : HeldBy(h)' = HeldBy(h)
          /\ \A d \in Desks : desk'[d] = Resting
          /\ Grantors' = Grantors /\ Grantors \subseteq Members
          /\ present' \subseteq present
      BY <1>7 DEF Leaves, HeldBy, Grantors, MeetingFree
    <2>2. AssemblyTypeOK'
      BY <1>7, <2>1 DEF Leaves, AssemblyInv, AssemblyTypeOK
    <2>3. OneVoiceEach'
      BY <2>1 DEF AssemblyInv, OneVoiceEach
    <2>4. OneDesk' /\ ReadsHold'
      BY <2>1 DEF OneDesk, ReadsHold, ReadHolds, Resting
    <2>5. QED
      BY <2>2, <2>3, <2>4 DEF AssemblyInv
  <1>8. ASSUME NEW m \in Members, ClearProxies(m)
        PROVE  AssemblyInv'
    BY <1>8, WithdrawnKeeps DEF ClearProxies, HeldBy
  <1>9. ASSUME NEW m \in Members, Revoke(m)
        PROVE  AssemblyInv'
    BY <1>9, WithdrawnKeeps DEF Revoke
  <1>10. ASSUME NEW d \in Desks, DeskRollsBack(d)
         PROVE  AssemblyInv'
    <2>1. desk \in [Desks -> DeskState] /\ Resting \in DeskState
      BY DEF AssemblyInv, AssemblyTypeOK, DeskState
    <2>2. AssemblyTypeOK'
      BY <1>2, <1>10, <2>1 DEF DeskRollsBack, AssemblyInv, AssemblyTypeOK
    <2>3. \A c \in Desks : desk'[c] = desk[c] \/ desk'[c] = Resting
      BY <1>10, <2>1 DEF DeskRollsBack
    <2>4. QED
      BY <1>10, <2>2, <2>3, RollsKeep DEF DeskRollsBack
  <1>11. ASSUME NEW d \in Desks, NEW m \in Members, CheckInReads(d, m)
         PROVE  AssemblyInv'
    <2> DEFINE s == [at |-> "checkIn", who |-> m]
    <2>1. s \in DeskState /\ ReadHolds(s)
      BY <1>11 DEF CheckInReads, DeskState, ReadHolds
    <2>2. MeetingFree /\ desk' = [desk EXCEPT ![d] = s]
      BY <1>11 DEF CheckInReads
    <2>3. UNCHANGED <<entitled, changes, standing, frozen, roll, present, proxy, proven>>
      BY <1>11 DEF CheckInReads
    <2> HIDE DEF s
    <2>4. QED
      BY <2>1, <2>2, <2>3, ReadsKeep
  <1>12. ASSUME NEW d \in Desks, NEW g \in Members, NEW h \in Members,
                NEW board \in BOOLEAN, GrantReads(d, g, h, board, secretOpen)
         PROVE  AssemblyInv'
    <2> DEFINE s == [at |-> "grant", from |-> g, to |-> h, board |-> board]
    <2>1. s \in DeskState /\ ReadHolds(s)
      BY <1>12 DEF GrantReads, DeskState, ReadHolds, Grantable
    <2>2. MeetingFree /\ desk' = [desk EXCEPT ![d] = s]
      BY <1>12 DEF GrantReads
    <2>3. UNCHANGED <<entitled, changes, standing, frozen, roll, present, proxy, proven>>
      BY <1>12 DEF GrantReads
    <2> HIDE DEF s
    <2>4. QED
      BY <2>1, <2>2, <2>3, ReadsKeep
  <1>13. QED
    BY <1>3, <1>4, <1>5, <1>6, <1>7, <1>8, <1>9, <1>10, <1>11, <1>12,
       CheckInKeeps, GrantKeeps DEF AssemblyStep

\* An assembly starts with nobody checked in, no proxy and no transaction at work.
LEMMA AssemblyInitInv ==
  ASSUME AssemblyInit
  PROVE  AssemblyInv
  <1>1. Grantors = {} /\ \A h \in Members : HeldBy(h) = {}
    BY AssemblyAssumption DEF AssemblyInit, Grantors, HeldBy
  <1>2. AssemblyTypeOK
    <2>1. desk \in [Desks -> DeskState]
      BY DEF AssemblyInit, DeskState
    <2>2. changes \in 0..MaxChanges
      BY AssemblyAssumption DEF AssemblyInit
    <2>3. QED
      BY <1>1, <2>1, <2>2 DEF AssemblyInit, AssemblyTypeOK
  <1>3. OneVoiceEach
    <2>1. Cardinality({}) = 0 /\ 0 <= MaxProxies
      BY FS_EmptySet, AssemblyAssumption
    <2>2. QED
      BY <1>1, <2>1 DEF OneVoiceEach
  <1>4. OneDesk /\ ReadsHold
    BY DEF AssemblyInit, OneDesk, ReadsHold, ReadHolds, Resting
  <1>5. QED
    BY <1>2, <1>3, <1>4 DEF AssemblyInv

\* The invariant holds of an assembly that starts with nobody checked in and no
\* proxy, and of every assembly reached from there.
THEOREM AssemblyIsInvariant == AssemblySpec => []AssemblyInv
  <1>1. AssemblyInit => AssemblyInv
    BY AssemblyInitInv
  <1>2. AssemblyInv /\ [AssemblyNext]_assemblyVars => AssemblyInv'
    <2> SUFFICES ASSUME AssemblyInv, [AssemblyNext]_assemblyVars PROVE AssemblyInv'
      OBVIOUS
    <2>1. CASE AssemblyNext
      BY <2>1, StepKeeps DEF AssemblyNext
    <2>2. CASE UNCHANGED assemblyVars
      <3>1. AssemblyTypeOK'
        BY <2>2 DEF assemblyVars, AssemblyInv, AssemblyTypeOK, Grantors
      <3>2. QED
        BY <2>2, <3>1, RollsKeep DEF assemblyVars
    <2>3. QED
      BY <2>1, <2>2
  <1>3. QED
    BY <1>1, <1>2, PTL DEF AssemblySpec

\* The type invariant of the assembly, in particular that a proof is on file only
\* for a proxy that stands.
THEOREM AssemblyTypeCorrect == AssemblySpec => []AssemblyTypeOK
  <1>1. AssemblyInv => AssemblyTypeOK
    BY DEF AssemblyInv
  <1>2. QED
    BY <1>1, AssemblyIsInvariant, PTL

\* Nobody is present and represented, no proxy is passed on and nobody holds more
\* than the statute allows (grantProxy, PATCH /attendance, the self check-in),
\* for any number of transactions running against unlocked withdrawals.
THEOREM OneVoicePerMember == AssemblySpec => []OneVoiceEach
  <1>1. AssemblyInv => OneVoiceEach
    BY DEF AssemblyInv
  <1>2. QED
    BY <1>1, AssemblyIsInvariant, PTL

-----------------------------------------------------------------------------
(***************************************************************************)
(* The ballots.  A vote is decided on in one step and recorded in a later   *)
(* one, so that OneVoteEach is not inductive.  BallotsInv adds what the      *)
(* locks guarantee in between: nobody else writes a ballot that is being     *)
(* written or voted on, a marked voter has not voted and is marked once, a   *)
(* ballot that is written as a draft is one, and a draft has neither voters  *)
(* nor votes.                                                              *)
(***************************************************************************)
Request == {Resting} \cup Voting \cup Managing

Writes(r) == r.at \in {"holds", "opening"}
Votes(r) == r.at \in VotingStages

\* Two transactions that the locks on the ballot's row and the voter's row keep apart.
Collide(r, q) ==
  /\ Writes(r) \/ Votes(r)
  /\ Writes(q) \/ Votes(q)
  /\ r.ballot = q.ballot
  /\ \/ Writes(r) \/ Writes(q)
     \/ r.at = "marked" /\ q.at = "marked" /\ r.voter = q.voter

\* What a transaction has found, and still relies on.
Founded(r) ==
  /\ r.at = "opening" => r.op = "open"
  /\ Writes(r) => Status(r.ballot) # "none"
  /\ Writes(r) /\ r.op \in {"update", "open"} => Status(r.ballot) = "draft"
  /\ Votes(r) => r.voter \in voters[r.ballot]
  /\ r.at = "marked" => r.voter \notin voted[r.ballot]

LocksExclude == \A s, t \in Sessions : s # t => ~Collide(req[s], req[t])
ReadsFounded == \A s \in Sessions : Founded(req[s])

DraftsEmpty ==
  \A b \in BallotIds : Status(b) \in {"none", "draft"} => voters[b] = {} /\ voted[b] = {}

\* The meeting's row: FOR SHARE by openings, or FOR UPDATE by a desk.
MeetingLocked == readers # {} => \A d \in Desks : desk[d] = Resting
GrantUnseen == \A d \in Desks : desk[d].at = "grant" /\ desk[d].board => ~SecretOpen

BallotsInv ==
  /\ TypeOK /\ AssemblyInv
  /\ LocksExclude /\ ReadsFounded /\ DraftsEmpty /\ OneVoteEach
  /\ MeetingLocked /\ GrantUnseen

-----------------------------------------------------------------------------
\* A transaction votes, manages or rests, with the fields of its kind.
LEMMA RequestKinds ==
  ASSUME NEW r \in Request
  PROVE  /\ r = Resting => ~Writes(r) /\ ~Votes(r) /\ r.at # "marked"
         /\ Votes(r) => r \in Voting /\ ~Writes(r)
         /\ Writes(r) => r \in Managing /\ ~Votes(r)
         /\ r # Resting => Writes(r) \/ Votes(r)
  BY DEF Request, Voting, Managing, VotingStages, Resting, Writes, Votes

\* What a step that leaves the assembly alone, but for the lock FOR SHARE, keeps.
LEMMA AssemblyStays ==
  ASSUME AssemblyInv,
         UNCHANGED <<entitled, changes, standing, frozen, roll, present, proxy, proven, desk>>
  PROVE  AssemblyInv'
  <1>1. AssemblyTypeOK'
    BY DEF AssemblyInv, AssemblyTypeOK, Grantors
  <1>2. QED
    BY <1>1, RollsKeep

\* A step of one transaction that writes nothing yet: what it found must be so,
\* and it must not collide with another one.
LEMMA RequestStep ==
  ASSUME BallotsInv, NEW s \in Sessions, NEW r \in Request,
         req' = [req EXCEPT ![s] = r],
         UNCHANGED ballotVars,
         UNCHANGED <<entitled, changes, standing, frozen, roll, present, proxy, proven, desk>>,
         sweep' \in [Sweepers -> Sweep], clock' \in 1..MaxClock, failures' \in 0..MaxFailures,
         Founded(r),
         \A t \in Sessions \ {s} : ~Collide(r, req[t]) /\ ~Collide(req[t], r),
         IF r.at = "opening" /\ r.ballot \notin Circulars
         THEN readers' = readers \cup {s} /\ \A d \in Desks : desk[d] = Resting
         ELSE readers' = readers \ {s}
  PROVE  BallotsInv'
  <1>1. /\ req \in [Sessions -> Request]
        /\ \A t \in Sessions : req'[t] = IF t = s THEN r ELSE req[t]
        /\ req' \in [Sessions -> Request]
    BY DEF BallotsInv, TypeOK, Request
  <1>2. AssemblyInv'
    BY AssemblyStays DEF BallotsInv
  <1>3. readers' = {t \in Sessions : req'[t].at = "opening" /\ req'[t].ballot \notin Circulars}
    <2>1. readers = {t \in Sessions : req[t].at = "opening" /\ req[t].ballot \notin Circulars}
      BY DEF BallotsInv, TypeOK
    <2>2. QED
      BY <1>1, <2>1
  <1>4. TypeOK'
    BY <1>1, <1>2, <1>3 DEF BallotsInv, AssemblyInv, TypeOK, ballotVars, Request
  <1>5. LocksExclude'
    <2>1. ASSUME NEW t \in Sessions, NEW u \in Sessions, t # u
          PROVE  ~Collide(req'[t], req'[u])
      BY <1>1, <2>1 DEF BallotsInv, LocksExclude
    <2>2. QED
      BY <2>1 DEF LocksExclude, Collide, Writes, Votes
  <1>6. ReadsFounded'
    <2>1. \A t \in Sessions : Founded(req'[t])
      BY <1>1 DEF BallotsInv, ReadsFounded
    <2>2. QED
      BY <2>1 DEF ReadsFounded, Founded, Status, ballotVars, Writes, Votes
  <1>7. DraftsEmpty' /\ OneVoteEach'
    BY DEF BallotsInv, DraftsEmpty, OneVoteEach, Status, ballotVars
  <1>8. MeetingLocked'
    BY DEF BallotsInv, MeetingLocked
  <1>9. GrantUnseen'
    <2>1. SecretOpen' <=> SecretOpen
      BY DEF SecretOpen, Status, ballotVars
    <2>2. QED
      BY <2>1 DEF BallotsInv, GrantUnseen
  <1>10. QED
    BY <1>2, <1>4, <1>5, <1>6, <1>7, <1>8, <1>9 DEF BallotsInv

\* Steps that touch neither a transaction nor a ballot.
LEMMA QuietStep ==
  ASSUME BallotsInv,
         UNCHANGED <<assemblyVars, ballot, voters, voted, box, entries, req>>,
         notices' \subseteq {"opened", "reminder"} \X BallotIds,
         sweep' \in [Sweepers -> Sweep], clock' \in 1..MaxClock, failures' \in 0..MaxFailures
  PROVE  BallotsInv'
  <1> USE DEF assemblyVars
  <1>1. AssemblyInv'
    BY AssemblyStays DEF BallotsInv
  <1>2. TypeOK'
    BY <1>1 DEF BallotsInv, AssemblyInv, TypeOK
  <1>3. LocksExclude' /\ ReadsFounded'
    BY DEF BallotsInv, LocksExclude, ReadsFounded, Collide, Founded, Writes, Votes, Status
  <1>4. DraftsEmpty' /\ OneVoteEach' /\ MeetingLocked'
    BY DEF BallotsInv, DraftsEmpty, OneVoteEach, MeetingLocked, Status
  <1>5. GrantUnseen'
    BY DEF BallotsInv, GrantUnseen, SecretOpen, Status
  <1>6. QED
    BY <1>1, <1>2, <1>3, <1>4, <1>5 DEF BallotsInv

\* A transaction that ends without having written anything, for whatever reason.
LEMMA ReleaseKeeps ==
  ASSUME BallotsInv, NEW s \in Sessions, Released(s),
         UNCHANGED ballotVars,
         UNCHANGED <<entitled, changes, standing, frozen, roll, present, proxy, proven, desk>>,
         sweep' \in [Sweepers -> Sweep], clock' \in 1..MaxClock, failures' \in 0..MaxFailures
  PROVE  BallotsInv'
  <1>1. /\ Resting \in Request /\ Founded(Resting) /\ Resting.at # "opening"
        /\ \A q : ~Collide(Resting, q) /\ ~Collide(q, Resting)
    BY DEF Request, Resting, Founded, Collide, Writes, Votes, VotingStages
  <1>2. req' = [req EXCEPT ![s] = Resting] /\ readers' = readers \ {s}
    BY DEF Released
  <1> HIDE DEF Resting
  <1>3. QED
    BY <1>1, <1>2, RequestStep

\* The steps of castVote up to the conditional UPDATE.
LEMMA VoteBeginsKeeps ==
  ASSUME BallotsInv, NEW s \in Requests, NEW b \in BallotIds, NEW voter \in Members,
         NEW by \in Members, NEW c \in Choices, VoteBegins(s, b, voter, by, c)
  PROVE  BallotsInv'
  <1>1. PICK stage \in {"begun", "mandated", "admitted"} :
          req' = [req EXCEPT ![s] = [at |-> stage, ballot |-> b, voter |-> voter,
                                     by |-> by, choice |-> c]]
    BY DEF VoteBegins
  <1> DEFINE r == [at |-> stage, ballot |-> b, voter |-> voter, by |-> by, choice |-> c]
  <1>2. r \in Request /\ r.at \notin {"opening", "holds", "marked"}
    BY DEF Request, Voting, VotingStages
  <1>3. Founded(r)
    BY DEF VoteBegins, Founded, Writes, Votes
  <1>4. \A t \in Sessions \ {s} : ~Collide(r, req[t]) /\ ~Collide(req[t], r)
    BY DEF VoteBegins, ShareFree, ManagingOn, Collide, Writes, Votes
  <1>5. s \in Sessions /\ s \notin readers
    BY DEF VoteBegins, Sessions, BallotsInv, TypeOK, Resting
  <1>6. /\ UNCHANGED <<assemblyVars, ballotVars, sweep, clock, failures>>
        /\ req' = [req EXCEPT ![s] = r]
    BY <1>1 DEF VoteBegins
  <1>7. /\ readers' = readers \ {s}
        /\ sweep' \in [Sweepers -> Sweep] /\ clock' \in 1..MaxClock
        /\ failures' \in 0..MaxFailures
    BY <1>5, <1>6 DEF BallotsInv, TypeOK, assemblyVars
  <1> HIDE DEF r
  <1>8. QED
    BY <1>2, <1>3, <1>4, <1>5, <1>6, <1>7, RequestStep DEF assemblyVars

\* A vote goes on to its next stage: it reads that it may, or marks its voter.
LEMMA AdvanceKeeps ==
  ASSUME BallotsInv, NEW s \in Sessions, Votes(req[s]),
         NEW stage \in VotingStages, Advances(s, stage),
         stage = "marked" =>
           /\ VoterRowFree(req[s].ballot, req[s].voter)
           /\ req[s].voter \notin voted[req[s].ballot]
  PROVE  BallotsInv'
  <1> DEFINE r == [req[s] EXCEPT !.at = stage]
  <1>1. req[s] \in Voting /\ req \in [Sessions -> Request]
    BY RequestKinds DEF BallotsInv, TypeOK, Request
  <1>2. /\ r \in Request /\ r.at = stage
        /\ r.ballot = req[s].ballot /\ r.voter = req[s].voter
    BY <1>1 DEF Request, Voting
  <1>3. Votes(r) /\ ~Writes(r) /\ r.at # "opening" /\ req[s].at # "opening" /\ ~Writes(req[s])
    BY <1>2 DEF Writes, Votes, VotingStages
  <1>4. Founded(r)
    BY <1>2, <1>3 DEF BallotsInv, ReadsFounded, Founded
  <1>5. ASSUME NEW t \in Sessions \ {s}
        PROVE  ~Collide(r, req[t]) /\ ~Collide(req[t], r)
    <2>1. ~Collide(req[s], req[t]) /\ ~Collide(req[t], req[s])
      BY DEF BallotsInv, LocksExclude
    <2>2. ~(Writes(req[t]) /\ req[t].ballot = r.ballot)
      BY <1>2, <2>1 DEF Collide
    <2>3. ASSUME req[t].at = "marked", r.at = "marked", req[t].ballot = r.ballot,
                 req[t].voter = r.voter
          PROVE  FALSE
      BY <1>2, <2>3 DEF VoterRowFree, VotingOn, VotingStages
    <2>4. QED
      BY <1>3, <2>2, <2>3 DEF Collide
  <1>6. s \notin readers
    BY <1>3 DEF BallotsInv, TypeOK
  <1>7. /\ UNCHANGED <<assemblyVars, ballotVars, sweep, clock, failures>>
        /\ req' = [req EXCEPT ![s] = r]
    BY DEF Advances
  <1>8. /\ readers' = readers \ {s}
        /\ sweep' \in [Sweepers -> Sweep] /\ clock' \in 1..MaxClock
        /\ failures' \in 0..MaxFailures
    BY <1>6, <1>7 DEF BallotsInv, TypeOK, assemblyVars
  <1> HIDE DEF r
  <1>9. QED
    BY <1>2, <1>3, <1>4, <1>5, <1>7, <1>8, RequestStep DEF assemblyVars

\* Taking the row of a ballot FOR UPDATE, and looking at its status.
LEMMA LocksKeeps ==
  ASSUME BallotsInv, NEW s \in Sessions, NEW op, NEW b \in BallotIds, Locks(s, op, b),
         UNCHANGED <<assemblyVars, ballotVars, clock, failures>>,
         sweep' \in [Sweepers -> Sweep]
  PROVE  BallotsInv'
  <1> DEFINE r == [at |-> "holds", op |-> op, ballot |-> b, roll |-> {}]
  <1>1. /\ op \in Ops /\ Status(b) # "none"
        /\ op \in {"update", "open"} => Status(b) = "draft"
    BY DEF Locks, Allowed, Ops
  <1>2. r \in Request /\ r.at # "opening" /\ Writes(r) /\ ~Votes(r)
    BY <1>1 DEF Request, Managing, Writes, Votes, VotingStages
  <1>3. Founded(r)
    BY <1>1, <1>2 DEF Founded
  <1>4. \A t \in Sessions \ {s} : ~Collide(r, req[t]) /\ ~Collide(req[t], r)
    BY DEF Locks, ExclusiveFree, ManagingOn, VotingOn, Collide, Writes, Votes
  <1>5. s \notin readers
    BY DEF Locks, BallotsInv, TypeOK, Resting
  <1>6. req' = [req EXCEPT ![s] = r]
    BY DEF Locks
  <1>7. /\ readers' = readers \ {s}
        /\ clock' \in 1..MaxClock /\ failures' \in 0..MaxFailures
    BY <1>5 DEF BallotsInv, TypeOK, assemblyVars
  <1> HIDE DEF r
  <1>8. QED
    BY <1>2, <1>3, <1>4, <1>6, <1>7, RequestStep DEF assemblyVars

\* The reads of openBallot: an opening in session holds the meeting FOR SHARE, and
\* no desk is at work then.
LEMMA OpeningKeeps ==
  ASSUME BallotsInv, NEW s \in Sessions, OpeningReads(s)
  PROVE  BallotsInv'
  <1>1. req[s] \in Managing /\ req[s].at = "holds" /\ req[s].op = "open" /\ Writes(req[s])
    <2>1. req[s] \in Request
      BY DEF BallotsInv, TypeOK, Request
    <2>2. QED
      BY <2>1, RequestKinds DEF OpeningReads, Writes
  <1>2. /\ entitled \subseteq Members /\ Board \subseteq Members /\ Eligible \subseteq Members
    BY BallotsAssumption DEF BallotsInv, TypeOK, AssemblyTypeOK, Eligible
  <1>3. PICK r \in SUBSET Members :
          req' = [req EXCEPT ![s] = [@ EXCEPT !.at = "opening", !.roll = r]]
    BY <1>2 DEF OpeningReads
  <1> DEFINE q == [req[s] EXCEPT !.at = "opening", !.roll = r]
  <1>4. /\ q \in Request /\ q.at = "opening" /\ q.op = "open" /\ q.ballot = req[s].ballot
    BY <1>1 DEF Request, Managing
  <1>5. Founded(q)
    <2>1. Status(req[s].ballot) = "draft"
      BY <1>1 DEF BallotsInv, ReadsFounded, Founded
    <2>2. QED
      BY <1>4, <2>1 DEF Founded, Votes, VotingStages
  <1>6. ASSUME NEW t \in Sessions \ {s}
        PROVE  ~Collide(q, req[t]) /\ ~Collide(req[t], q)
    <2>1. ~Collide(req[s], req[t]) /\ ~Collide(req[t], req[s])
      BY DEF BallotsInv, LocksExclude
    <2>2. QED
      BY <1>1, <1>4, <2>1 DEF Collide, Writes, Votes
  <1>7. s \notin readers
    BY <1>1 DEF BallotsInv, TypeOK
  <1>8. IF q.at = "opening" /\ q.ballot \notin Circulars
        THEN readers' = readers \cup {s} /\ \A d \in Desks : desk[d] = Resting
        ELSE readers' = readers \ {s}
    BY <1>4, <1>7 DEF OpeningReads
  <1>9. /\ UNCHANGED <<entitled, changes, standing, frozen, roll, present, proxy, proven, desk>>
        /\ UNCHANGED ballotVars
        /\ sweep' \in [Sweepers -> Sweep] /\ clock' \in 1..MaxClock
        /\ failures' \in 0..MaxFailures
    BY DEF OpeningReads, BallotsInv, TypeOK, ballotVars
  <1>10. req' = [req EXCEPT ![s] = q]
    BY <1>3
  <1> HIDE DEF q
  <1>11. QED
    BY <1>4, <1>5, <1>6, <1>8, <1>9, <1>10, RequestStep

-----------------------------------------------------------------------------
\* The commit of a vote: it was marked, so it is the voter's first, and nobody
\* else is about to record one.
LEMMA RecordsKeeps ==
  ASSUME BallotsInv, NEW s \in Sessions, Records(s)
  PROVE  BallotsInv'
  <1> DEFINE b == req[s].ballot
             m == req[s].voter
  <1>1. /\ req \in [Sessions -> Request]
        /\ req[s] \in Voting /\ req[s].at = "marked" /\ Votes(req[s])
        /\ b \in BallotIds /\ m \in Members /\ req[s].choice \in Choices
    <2>1. req \in [Sessions -> Request] /\ req[s] \in Request
      BY DEF BallotsInv, TypeOK, Request
    <2>2. Votes(req[s]) /\ req[s].at = "marked"
      BY DEF Records, Votes, VotingStages
    <2>3. req[s] \in Voting
      BY <2>1, <2>2, RequestKinds
    <2>4. QED
      BY <2>1, <2>2, <2>3 DEF Voting
  <1>2. m \in voters[b] /\ m \notin voted[b] /\ Status(b) \notin {"none", "draft"}
    <2>1. Founded(req[s])
      BY DEF BallotsInv, ReadsFounded
    <2>2. QED
      BY <1>1, <2>1 DEF Founded, BallotsInv, DraftsEmpty
  <1>3. /\ UNCHANGED <<ballot, voters, entries, notices, sweep, clock, failures>>
        /\ UNCHANGED assemblyVars
        /\ \A t \in Sessions : req'[t] = IF t = s THEN Resting ELSE req[t]
        /\ req' \in [Sessions -> Request]
    BY <1>1 DEF Records, Request
  <1>4. /\ voted \in [BallotIds -> SUBSET Members]
        /\ voted' = [voted EXCEPT ![b] = voted[b] \cup {m}]
        /\ box \in [BallotIds -> [Members -> Seq(Choices)]]
        /\ box' = [box EXCEPT ![b] = [box[b] EXCEPT ![m] = Append(box[b][m], req[s].choice)]]
    <2>1. voted \in [BallotIds -> SUBSET Members] /\ box \in [BallotIds -> [Members -> Seq(Choices)]]
      BY DEF BallotsInv, TypeOK
    <2>2. /\ voted' = [voted EXCEPT ![b] = voted[b] \cup {m}]
          /\ box' = [box EXCEPT ![b][m] = Append(box[b][m], req[s].choice)]
      BY DEF Records
    <2>3. QED
      BY <2>1, <2>2
  <1>5. AssemblyInv'
    BY <1>3, AssemblyStays DEF BallotsInv, assemblyVars
  <1>6. TypeOK'
    <2>1. box' \in [BallotIds -> [Members -> Seq(Choices)]]
      <3>1. Append(box[b][m], req[s].choice) \in Seq(Choices)
        BY <1>1, <1>4
      <3>2. [box[b] EXCEPT ![m] = Append(box[b][m], req[s].choice)] \in [Members -> Seq(Choices)]
        BY <1>1, <1>4, <3>1
      <3>3. QED
        BY <1>1, <1>4, <3>2
    <2>2. voted' \in [BallotIds -> SUBSET Members]
      BY <1>1, <1>4
    <2>3. readers' = {t \in Sessions : req'[t].at = "opening" /\ req'[t].ballot \notin Circulars}
      <3>1. /\ readers = {t \in Sessions : req[t].at = "opening" /\ req[t].ballot \notin Circulars}
            /\ readers' = readers
        BY <1>3 DEF BallotsInv, TypeOK, assemblyVars
      <3>2. Resting.at # "opening" /\ req[s].at # "opening"
        BY <1>1 DEF Resting
      <3>3. QED
        BY <1>3, <3>1, <3>2
    <2>4. QED
      BY <1>3, <1>5, <2>1, <2>2, <2>3
      DEF BallotsInv, AssemblyInv, TypeOK, assemblyVars, Request
  <1>7. LocksExclude'
    <2>1. ASSUME NEW t \in Sessions, NEW u \in Sessions, t # u
          PROVE  ~Collide(req'[t], req'[u])
      <3>1. \A q : ~Collide(Resting, q) /\ ~Collide(q, Resting)
        BY DEF Resting, Collide, Writes, Votes, VotingStages
      <3>2. QED
        BY <1>3, <2>1, <3>1 DEF BallotsInv, LocksExclude
    <2>2. QED
      BY <2>1 DEF LocksExclude, Collide, Writes, Votes
  <1>8. ReadsFounded'
    <2> SUFFICES ASSUME NEW t \in Sessions PROVE Founded(req[t])'
      BY DEF ReadsFounded
    <2>1. CASE t = s
      BY <1>3, <2>1 DEF Founded, Resting, Writes, Votes, VotingStages
    <2>2. CASE t # s
      <3>1. Founded(req[t]) /\ ~Collide(req[s], req[t]) /\ req'[t] = req[t]
        BY <1>3, <2>2 DEF BallotsInv, ReadsFounded, LocksExclude
      <3>2. req[t].at = "marked" => req[t].voter \notin voted'[req[t].ballot]
        <4>1. CASE req[t].at = "marked" /\ req[t].ballot = b
          <5>1. req[t].voter # m
            BY <1>1, <3>1, <4>1 DEF Collide, Writes, Votes, VotingStages
          <5>2. QED
            BY <1>1, <1>4, <3>1, <4>1, <5>1 DEF Founded
        <4>2. CASE req[t].at = "marked" /\ req[t].ballot # b
          <5>1. req[t].ballot \in BallotIds
            <6>1. req[t] \in Request
              BY <1>1
            <6>2. QED
              BY <4>2, <6>1, RequestKinds DEF Votes, VotingStages, Voting
          <5>2. QED
            BY <1>1, <1>4, <3>1, <4>2, <5>1 DEF Founded
        <4>3. QED
          BY <4>1, <4>2
      <3>3. QED
        BY <1>3, <3>1, <3>2 DEF Founded, Writes, Votes, Status
    <2>3. QED
      BY <2>1, <2>2
  <1>9. DraftsEmpty'
    BY <1>1, <1>2, <1>3, <1>4 DEF BallotsInv, DraftsEmpty, Status
  <1>10. OneVoteEach'
    <2> SUFFICES ASSUME NEW a \in BallotIds
                 PROVE  /\ voted'[a] \subseteq voters[a]
                        /\ \A x \in Members :
                             Len(box'[a][x]) = IF x \in voted'[a] THEN 1 ELSE 0
      BY <1>3 DEF OneVoteEach
    <2>1. /\ voted[a] \subseteq voters[a]
          /\ \A x \in Members : Len(box[a][x]) = IF x \in voted[a] THEN 1 ELSE 0
      BY DEF BallotsInv, OneVoteEach
    <2>2. CASE a # b
      BY <1>1, <1>4, <2>1, <2>2
    <2>3. CASE a = b
      <3>1. Len(Append(box[b][m], req[s].choice)) = 1
        <4>1. Len(box[b][m]) = 0 /\ box[b][m] \in Seq(Choices)
          BY <1>1, <1>2, <1>4, <2>1, <2>3
        <4>2. QED
          BY <1>1, <4>1
      <3>2. /\ voted'[b] = voted[b] \cup {m}
            /\ \A x \in Members : box'[b][x] = IF x = m THEN Append(box[b][m], req[s].choice)
                                                       ELSE box[b][x]
        BY <1>1, <1>4
      <3>3. QED
        BY <1>2, <2>1, <2>3, <3>1, <3>2
    <2>4. QED
      BY <2>2, <2>3
  <1>11. MeetingLocked' /\ GrantUnseen'
    BY <1>3 DEF BallotsInv, MeetingLocked, GrantUnseen, SecretOpen, Status, assemblyVars
  <1>12. QED
    BY <1>5, <1>6, <1>7, <1>8, <1>9, <1>10, <1>11 DEF BallotsInv

\* The rows that managing calls write are well-formed.
LEMMA RowTyped ==
  ASSUME NEW r \in Row, NEW st \in Statuses
  PROVE  /\ [r EXCEPT !.status = st] \in Row
         /\ \A secret \in BOOLEAN : [r EXCEPT !.secret = secret] \in Row
         /\ \A from, to \in Nat :
              [r EXCEPT !.status = st, !.opensAt = from, !.closesAt = to] \in Row
         /\ \A to \in Nat : [r EXCEPT !.status = st, !.closesAt = to] \in Row
         /\ \A votes \in [Members -> Seq(Choices)] :
              [r EXCEPT !.status = st, !.result = votes] \in Row
  <1>1. [r EXCEPT !.status = st] \in Row
    BY Zenon DEF Row
  <1>2. ASSUME NEW secret \in BOOLEAN PROVE [r EXCEPT !.secret = secret] \in Row
    BY Zenon DEF Row
  <1>3. ASSUME NEW from \in Nat, NEW to \in Nat
        PROVE  [r EXCEPT !.status = st, !.opensAt = from, !.closesAt = to] \in Row
    BY Zenon DEF Row
  <1>4. ASSUME NEW to \in Nat PROVE [r EXCEPT !.status = st, !.closesAt = to] \in Row
    BY Zenon DEF Row
  <1>5. ASSUME NEW votes \in [Members -> Seq(Choices)]
        PROVE  [r EXCEPT !.status = st, !.result = votes] \in Row
    <2>1. votes \in {<<>>} \cup [Members -> Seq(Choices)]
      OBVIOUS
    <2>2. QED
      BY <2>1, Zenon DEF Row
  <1>6. QED
    BY <1>1, <1>2, <1>3, <1>4, <1>5

\* A step that writes the row of one ballot, and at most its voters while it has
\* none: the transaction that holds the row, or none when nobody holds it.
LEMMA RowStep ==
  ASSUME BallotsInv, NEW b \in BallotIds, NEW row \in Row, NEW electors \in SUBSET Members,
         ballot' = [ballot EXCEPT ![b] = row],
         voters' = [voters EXCEPT ![b] = electors],
         UNCHANGED <<voted, box, sweep, clock, failures>>,
         UNCHANGED <<entitled, changes, standing, frozen, roll, present, proxy, proven, desk>>,
         entries' \in [BallotIds -> Nat],
         notices' \subseteq {"opened", "reminder"} \X BallotIds,
         req' \in [Sessions -> Request],
         \A t \in Sessions : req'[t] \in {req[t], Resting},
         readers' = {t \in Sessions : req'[t].at = "opening" /\ req'[t].ballot \notin Circulars},
         \A t \in Sessions : Writes(req'[t]) => req'[t].ballot # b \/ row.status = Status(b),
         electors = voters[b] \/ \A t \in Sessions : ~(Votes(req'[t]) /\ req'[t].ballot = b),
         electors = voters[b] \/ voted[b] = {},
         row.status \in {"none", "draft"} => Status(b) \in {"none", "draft"} /\ electors = voters[b],
         row.status = "open" /\ row.secret /\ b \notin Circulars =>
           \A d \in Desks : desk[d] = Resting
  PROVE  BallotsInv'
  <1>1. /\ req \in [Sessions -> Request] /\ ballot \in [BallotIds -> Row]
        /\ voters \in [BallotIds -> SUBSET Members]
    BY DEF BallotsInv, TypeOK, Request
  <1>2. /\ \A a \in BallotIds : ballot'[a] = IF a = b THEN row ELSE ballot[a]
        /\ \A a \in BallotIds : voters'[a] = IF a = b THEN electors ELSE voters[a]
        /\ ballot' \in [BallotIds -> Row] /\ voters' \in [BallotIds -> SUBSET Members]
    BY <1>1
  <1>3. AssemblyInv'
    BY AssemblyStays DEF BallotsInv
  <1>4. TypeOK'
    BY <1>2, <1>3 DEF BallotsInv, AssemblyInv, TypeOK, Request
  <1>5. LocksExclude'
    <2>1. ASSUME NEW t \in Sessions, NEW u \in Sessions, t # u
          PROVE  ~Collide(req'[t], req'[u])
      <3>1. \A q : ~Collide(Resting, q) /\ ~Collide(q, Resting)
        BY DEF Resting, Collide, Writes, Votes, VotingStages
      <3>2. QED
        BY <2>1, <3>1 DEF BallotsInv, LocksExclude
    <2>2. QED
      BY <2>1 DEF LocksExclude, Collide, Writes, Votes
  <1>6. ReadsFounded'
    <2> SUFFICES ASSUME NEW t \in Sessions PROVE Founded(req[t])'
      BY DEF ReadsFounded
    <2>1. CASE req'[t] = Resting
      BY <2>1 DEF Founded, Resting, Writes, Votes, VotingStages
    <2>2. CASE req'[t] = req[t] /\ Writes(req[t])
      <3>1. Founded(req[t]) /\ req[t].ballot \in BallotIds /\ ~Votes(req[t])
        <4>1. req[t] \in Request
          BY <1>1
        <4>2. QED
          BY <2>2, <4>1, RequestKinds DEF BallotsInv, ReadsFounded, Managing
      <3>2. Status(req[t].ballot)' = Status(req[t].ballot)
        BY <1>2, <2>2, <3>1 DEF Status
      <3>3. QED
        BY <2>2, <3>1, <3>2 DEF Founded, Writes, Votes, VotingStages, Status
    <2>3. CASE req'[t] = req[t] /\ Votes(req[t])
      <3>1. Founded(req[t]) /\ req[t].ballot \in BallotIds /\ ~Writes(req[t])
        <4>1. req[t] \in Request
          BY <1>1
        <4>2. QED
          BY <2>3, <4>1, RequestKinds DEF BallotsInv, ReadsFounded, Voting
      <3>2. req[t].voter \in voters'[req[t].ballot]
        BY <1>2, <2>3, <3>1 DEF Founded
      <3>3. QED
        BY <2>3, <3>1, <3>2 DEF Founded, Writes, Votes, VotingStages
    <2>4. CASE req'[t] = req[t] /\ ~Writes(req[t]) /\ ~Votes(req[t])
      BY <2>4 DEF Founded, Writes, Votes, VotingStages
    <2>5. QED
      BY <2>1, <2>2, <2>3, <2>4
  <1>7. DraftsEmpty'
    BY <1>2 DEF BallotsInv, DraftsEmpty, Status
  <1>8. OneVoteEach'
    BY <1>2 DEF BallotsInv, OneVoteEach
  <1>9. MeetingLocked'
    <2>1. readers' \subseteq readers
      <3>1. readers = {t \in Sessions : req[t].at = "opening" /\ req[t].ballot \notin Circulars}
        BY DEF BallotsInv, TypeOK
      <3>2. QED
        BY <3>1 DEF Resting
    <2>2. QED
      BY <2>1 DEF BallotsInv, MeetingLocked
  <1>10. GrantUnseen'
    <2>1. CASE \A d \in Desks : desk[d] = Resting
      BY <2>1 DEF GrantUnseen, Resting
    <2>2. CASE ~(\A d \in Desks : desk[d] = Resting)
      <3>1. SecretOpen' => SecretOpen
        BY <1>2, <2>2 DEF SecretOpen, Status
      <3>2. QED
        BY <3>1 DEF BallotsInv, GrantUnseen
    <2>3. QED
      BY <2>1, <2>2
  <1>11. QED
    BY <1>3, <1>4, <1>5, <1>6, <1>7, <1>8, <1>9, <1>10 DEF BallotsInv

\* A transaction that holds the row of a ballot is the only one on it.
LEMMA HolderAlone ==
  ASSUME BallotsInv, NEW s \in Sessions, Writes(req[s])
  PROVE  /\ req[s] \in Managing
         /\ \A t \in Sessions \ {s} :
              ~((Writes(req[t]) \/ Votes(req[t])) /\ req[t].ballot = req[s].ballot)
  <1>1. req[s] \in Managing
    <2>1. req[s] \in Request
      BY DEF BallotsInv, TypeOK, Request
    <2>2. QED
      BY <2>1, RequestKinds
  <1>2. \A t \in Sessions \ {s} : ~Collide(req[s], req[t])
    BY DEF BallotsInv, LocksExclude
  <1>3. QED
    BY <1>1, <1>2 DEF Collide

\* Creating and deleting drafts: nobody is at work on a ballot that is a draft, or
\* that is not there.
LEMMA DraftKeeps ==
  ASSUME BallotsInv, NEW b \in BallotIds, DraftStep(b)
  PROVE  BallotsInv'
  <1>1. /\ req \in [Sessions -> Request] /\ ballot[b] \in Row /\ voters[b] \in SUBSET Members
        /\ voters = [voters EXCEPT ![b] = voters[b]]
        /\ readers = {t \in Sessions : req[t].at = "opening" /\ req[t].ballot \notin Circulars}
        /\ entries \in [BallotIds -> Nat]
        /\ notices \subseteq {"opened", "reminder"} \X BallotIds
    BY DEF BallotsInv, TypeOK, Request
  <1>2. ASSUME NEW secret \in BOOLEAN, CreateBallot(b, secret)
        PROVE  BallotsInv'
    <2> DEFINE row == [ballot[b] EXCEPT !.status = "draft", !.secret = secret]
    <2>1. row \in Row /\ row.status = "draft"
      <3>1. row \in Row
        BY <1>1, Zenon DEF Row, Statuses
      <3>2. QED
        BY <1>1, <3>1 DEF Row
    <2>2. /\ ballot' = [ballot EXCEPT ![b] = row] /\ Status(b) = "none"
          /\ UNCHANGED <<assemblyVars, voters, voted, box, entries, notices, req, sweep,
                         clock, failures>>
      BY <1>2 DEF CreateBallot
    <2>3. \A t \in Sessions : Writes(req[t]) => req[t].ballot # b
      BY <2>2 DEF BallotsInv, ReadsFounded, Founded
    <2> HIDE DEF row
    <2>4. QED
      BY <1>1, <2>1, <2>2, <2>3, RowStep DEF assemblyVars
  <1>3. CASE DeleteDraft(b)
    <2>1. /\ ballot' = [ballot EXCEPT ![b] = Vacant] /\ Status(b) = "draft"
          /\ UNCHANGED <<assemblyVars, voters, voted, box, entries, notices, req, sweep,
                         clock, failures>>
      BY <1>3 DEF DeleteDraft
    <2>2. \A t \in Sessions : Writes(req[t]) => req[t].ballot # b
      BY <1>3 DEF DeleteDraft, ExclusiveFree, ManagingOn, Writes
    <2>3. Vacant \in Row /\ Vacant.status = "none"
      BY DEF Vacant, Row, Statuses
    <2> HIDE DEF Vacant
    <2>4. QED
      BY <1>1, <2>1, <2>2, <2>3, RowStep DEF assemblyVars
  <1>4. QED
    BY <1>2, <1>3 DEF DraftStep

\* The transaction that commits lets go of everything; readers follow.
LEMMA HolderRests ==
  ASSUME BallotsInv, NEW s \in Sessions, Writes(req[s]), req' = [req EXCEPT ![s] = Resting]
  PROVE  /\ req' \in [Sessions -> Request]
         /\ \A t \in Sessions : req'[t] \in {req[t], Resting}
         /\ \A t \in Sessions : ~((Writes(req'[t]) \/ Votes(req'[t]))
                                  /\ req'[t].ballot = req[s].ballot)
         /\ readers \ {s} = {t \in Sessions : req'[t].at = "opening" /\ req'[t].ballot \notin Circulars}
  <1>1. req \in [Sessions -> Request]
    BY DEF BallotsInv, TypeOK, Request
  <1>2. \A t \in Sessions : req'[t] = IF t = s THEN Resting ELSE req[t]
    BY <1>1
  <1>3. Resting \in Request /\ ~Writes(Resting) /\ ~Votes(Resting) /\ Resting.at # "opening"
    BY DEF Request, Resting, Writes, Votes, VotingStages
  <1>4. readers = {t \in Sessions : req[t].at = "opening" /\ req[t].ballot \notin Circulars}
    BY DEF BallotsInv, TypeOK
  <1> HIDE DEF Resting
  <1>5. \A t \in Sessions : ~((Writes(req'[t]) \/ Votes(req'[t])) /\ req'[t].ballot = req[s].ballot)
    BY <1>2, <1>3, HolderAlone
  <1>6. QED
    BY <1>1, <1>2, <1>3, <1>4, <1>5

\* Updating, closing, counting, finalizing, cancelling: the one holder of the row
\* moves a draft nowhere but off, and nothing back to a draft, nor to open.
LEMMA CommitsKeeps ==
  ASSUME BallotsInv, NEW s \in Sessions, Commits(s)
  PROVE  BallotsInv'
  <1> DEFINE b == req[s].ballot
             op == req[s].op
  <1>1. /\ Writes(req[s]) /\ req[s] \in Managing /\ req[s].at # "opening"
        /\ b \in BallotIds /\ op \in Ops \ {"open"}
    <2>1. Writes(req[s]) /\ req[s].at # "opening" /\ op # "open"
      BY DEF Commits, Writes
    <2>2. req[s] \in Managing
      BY <2>1, HolderAlone
    <2>3. QED
      BY <2>1, <2>2 DEF Managing
  <1>2. /\ ballot \in [BallotIds -> Row] /\ ballot[b] \in Row /\ voters[b] \in SUBSET Members
        /\ voters = [voters EXCEPT ![b] = voters[b]]
        /\ box[b] \in [Members -> Seq(Choices)] /\ clock \in Nat
        /\ entries \in [BallotIds -> Nat]
        /\ notices \subseteq {"opened", "reminder"} \X BallotIds
    BY <1>1, BallotsAssumption DEF BallotsInv, TypeOK
  <1>3. Status(b) # "none" /\ (op = "update" => Status(b) = "draft")
    BY <1>1 DEF BallotsInv, ReadsFounded, Founded
  <1>4. PICK row \in Row :
          /\ Written(op, b) = [ballot EXCEPT ![b] = row]
          /\ row.status # "open"
          /\ row.status \in {"none", "draft"} => Status(b) = "draft"
    <2>1. CASE op = "update"
      <3> DEFINE row == [ballot[b] EXCEPT !.secret = ~ballot[b].secret]
      <3>1. ballot[b].secret \in BOOLEAN
        BY <1>2 DEF Row
      <3>2. row \in Row
        BY <1>2, <3>1, RowTyped DEF Statuses
      <3>3. row.status = Status(b)
        BY <1>2 DEF Status, Row
      <3>4. Written(op, b) = [ballot EXCEPT ![b] = row]
        BY <1>2, <2>1 DEF Written
      <3>5. QED
        BY <1>3, <2>1, <3>2, <3>3, <3>4
    <2>2. CASE op \in {"settle", "close"}
      <3> DEFINE row == Closed(ballot[b])
                 to == IF ballot[b].closesAt \in 1..clock THEN ballot[b].closesAt ELSE clock
      <3>1. to \in Nat /\ "closed" \in Statuses
        <4>1. ballot[b].closesAt \in Nat
          BY <1>2 DEF Row
        <4>2. QED
          BY <1>2, <4>1 DEF Statuses
      <3>2. row = [ballot[b] EXCEPT !.status = "closed", !.closesAt = to]
        BY DEF Closed
      <3> HIDE DEF to
      <3>3. row \in Row
        <4>1. \A t \in Nat : [ballot[b] EXCEPT !.status = "closed", !.closesAt = t] \in Row
          BY <1>2, <3>1, RowTyped
        <4>2. QED
          BY <3>1, <3>2, <4>1
      <3>4. row.status = "closed"
        BY <1>2, <3>2 DEF Row
      <3>5. Written(op, b) = [ballot EXCEPT ![b] = row]
        BY <2>2 DEF Written
      <3>6. QED
        BY <3>3, <3>4, <3>5
    <2>3. CASE op = "count"
      <3> DEFINE row == [ballot[b] EXCEPT !.status = "counted", !.result = box[b]]
      <3>1. row \in Row
        BY <1>2, RowTyped DEF Statuses
      <3>2. row.status = "counted"
        BY <1>2 DEF Row
      <3>3. Written(op, b) = [ballot EXCEPT ![b] = row]
        BY <2>3 DEF Written
      <3>4. QED
        BY <3>1, <3>2, <3>3
    <2>4. ASSUME NEW st \in {"finalized", "cancelled"}, Written(op, b) = Moved(b, st)
          PROVE  /\ [ballot[b] EXCEPT !.status = st] \in Row
                 /\ [ballot[b] EXCEPT !.status = st].status = st
                 /\ Written(op, b) = [ballot EXCEPT ![b] = [ballot[b] EXCEPT !.status = st]]
      <3>1. [ballot[b] EXCEPT !.status = st] \in Row
        BY <1>2, RowTyped DEF Statuses
      <3>2. QED
        BY <1>2, <2>4, <3>1 DEF Moved, Row
    <2>5. CASE op \in {"finalize", "cancel"}
      <3>1. PICK st \in {"finalized", "cancelled"} : Written(op, b) = Moved(b, st)
        BY <2>5 DEF Written
      <3>2. QED
        BY <2>4, <3>1
    <2>6. QED
      BY <1>1, <2>1, <2>2, <2>3, <2>5 DEF Ops
  <1>5. /\ ballot' = [ballot EXCEPT ![b] = row]
        /\ req' = [req EXCEPT ![s] = Resting]
        /\ UNCHANGED <<assemblyVars, voters, voted, box, notices, sweep, clock, failures>>
    BY <1>4 DEF Commits
  <1>6. entries' \in [BallotIds -> Nat]
    BY <1>1, <1>2 DEF Commits
  <1>7. s \notin readers
    BY <1>1 DEF BallotsInv, TypeOK
  <1>8. /\ req' \in [Sessions -> Request]
        /\ \A t \in Sessions : req'[t] \in {req[t], Resting}
        /\ \A t \in Sessions : ~(Writes(req'[t]) /\ req'[t].ballot = b)
        /\ readers' = {t \in Sessions : req'[t].at = "opening" /\ req'[t].ballot \notin Circulars}
    BY <1>1, <1>5, <1>7, HolderRests DEF assemblyVars
  <1>9. QED
    BY <1>1, <1>2, <1>4, <1>5, <1>6, <1>8, RowStep DEF assemblyVars

\* Opening: the ballot is a draft without voters and votes, and if it belongs to the
\* meeting, no desk is at work.
LEMMA OpensKeeps ==
  ASSUME BallotsInv, NEW s \in Sessions, NEW from \in 1..MaxClock, NEW to \in 0..MaxClock,
         Opens(s, from, to)
  PROVE  BallotsInv'
  <1> DEFINE b == req[s].ballot
             row == [ballot[b] EXCEPT !.status = "open", !.opensAt = from, !.closesAt = to]
  <1>1. /\ Writes(req[s]) /\ req[s].at = "opening" /\ req[s] \in Managing
        /\ b \in BallotIds /\ req[s].roll \in SUBSET Members
    <2>1. Writes(req[s]) /\ req[s].at = "opening"
      BY DEF Opens, Writes
    <2>2. req[s] \in Managing
      BY <2>1, HolderAlone
    <2>3. QED
      BY <2>1, <2>2 DEF Managing
  <1>2. /\ ballot[b] \in Row /\ entries \in [BallotIds -> Nat]
        /\ notices \subseteq {"opened", "reminder"} \X BallotIds
    BY <1>1 DEF BallotsInv, TypeOK
  <1>3. voted[b] = {}
    <2>1. Status(b) = "draft"
      BY <1>1 DEF BallotsInv, ReadsFounded, Founded
    <2>2. QED
      BY <1>1, <2>1 DEF BallotsInv, DraftsEmpty
  <1>4. row \in Row /\ row.status = "open"
    <2>1. from \in Nat /\ to \in Nat /\ "open" \in Statuses
      BY BallotsAssumption DEF Statuses
    <2>2. row \in Row
      BY <1>2, <2>1, RowTyped
    <2>3. QED
      BY <1>2, <2>2 DEF Row
  <1>5. /\ ballot' = [ballot EXCEPT ![b] = row]
        /\ voters' = [voters EXCEPT ![b] = req[s].roll]
        /\ req' = [req EXCEPT ![s] = Resting] /\ readers' = readers \ {s}
        /\ UNCHANGED <<entitled, changes, standing, frozen, roll, present, proxy, proven, desk,
                       voted, box, entries, sweep, clock, failures>>
    BY DEF Opens, Released
  <1>6. notices' \subseteq {"opened", "reminder"} \X BallotIds
    BY <1>1, <1>2 DEF Opens
  <1>7. b \notin Circulars => \A d \in Desks : desk[d] = Resting
    <2>1. b \notin Circulars => s \in readers
      BY <1>1 DEF BallotsInv, TypeOK
    <2>2. QED
      BY <2>1 DEF BallotsInv, MeetingLocked
  <1>8. /\ req' \in [Sessions -> Request]
        /\ \A t \in Sessions : req'[t] \in {req[t], Resting}
        /\ \A t \in Sessions : ~((Writes(req'[t]) \/ Votes(req'[t])) /\ req'[t].ballot = b)
        /\ readers' = {t \in Sessions : req'[t].at = "opening" /\ req'[t].ballot \notin Circulars}
    BY <1>1, <1>5, HolderRests
  <1> HIDE DEF row
  <1>9. QED
    BY <1>1, <1>2, <1>3, <1>4, <1>5, <1>6, <1>7, <1>8, RowStep

-----------------------------------------------------------------------------
\* The sweep: it selects what is due, and does with it what a managing call does.
LEMMA SweepKeeps ==
  ASSUME BallotsInv, NEW w \in Sweepers, SweepStep(w)
  PROVE  BallotsInv'
  <1>1. /\ sweep \in [Sweepers -> Sweep] /\ sweep[w] \in Sweep
        /\ sweep[w].todo \in SUBSET BallotIds /\ Asleep \in Sweep
        /\ clock \in 1..MaxClock /\ failures \in 0..MaxFailures /\ MaxFailures \in Nat
        /\ notices \subseteq {"opened", "reminder"} \X BallotIds
    BY BallotsAssumption DEF BallotsInv, TypeOK, Sweep, Asleep
  <1>2. ASSUME NEW stage \in {"settle", "count", "finalize"}, NEW from,
               SweepTurnsTo(w, stage, from)
        PROVE  BallotsInv'
    <2>1. [stage |-> stage, todo |-> Due(stage)] \in Sweep
      BY DEF Sweep, Due
    <2>2. sweep' \in [Sweepers -> Sweep]
      BY <1>1, <1>2, <2>1 DEF SweepTurnsTo
    <2>3. QED
      BY <1>1, <1>2, <2>2, QuietStep DEF SweepTurnsTo, ballotVars
  <1>3. ASSUME NEW b \in BallotIds, TakenOff(w, b)
        PROVE  sweep' \in [Sweepers -> Sweep]
    <2>1. sweep' = [sweep EXCEPT ![w] = [sweep[w] EXCEPT !.todo = sweep[w].todo \ {b}]]
      BY <1>1, <1>3 DEF TakenOff
    <2>2. [sweep[w] EXCEPT !.todo = sweep[w].todo \ {b}] \in Sweep
      BY <1>1 DEF Sweep
    <2>3. QED
      BY <1>1, <2>1, <2>2
  <1>4. ASSUME NEW b \in BallotIds, SweepActs(w, b)
        PROVE  BallotsInv'
    BY <1>3, <1>4, LocksKeeps DEF SweepActs, Sessions
  <1>5. ASSUME NEW b \in BallotIds, SweepPasses(w, b)
        PROVE  BallotsInv'
    BY <1>1, <1>3, <1>5, QuietStep DEF SweepPasses, ballotVars
  <1>6. CASE SweepReminds(w)
    <2>1. sweep' \in [Sweepers -> Sweep]
      BY <1>1, <1>6 DEF SweepReminds
    <2>2. notices' \subseteq {"opened", "reminder"} \X BallotIds
      BY <1>1, <1>6, BallotsAssumption DEF SweepReminds
    <2>3. UNCHANGED <<assemblyVars, ballot, voters, voted, box, entries, req, clock, failures>>
      BY <1>6 DEF SweepReminds
    <2>4. QED
      BY <1>1, <2>1, <2>2, <2>3, QuietStep
  <1>7. CASE SweepDies(w)
    <2>1. sweep' \in [Sweepers -> Sweep] /\ failures' \in 0..MaxFailures /\ clock' \in 1..MaxClock
      BY <1>1, <1>7 DEF SweepDies
    <2>2. QED
      BY <1>7, <2>1, ReleaseKeeps DEF SweepDies, Sessions
  <1>8. QED
    BY <1>2, <1>4, <1>5, <1>6, <1>7 DEF SweepStep

\* What a step of the assembly does to the locks of its desks and to the proofs:
\* a desk begins only while nobody opens a ballot, and reads that no secret ballot
\* is open before it grants a proxy for the board; only such a grant is proven.
LEMMA DeskSteps ==
  ASSUME AssemblyTypeOK, NEW x \in BOOLEAN, AssemblyStep(x)
  PROVE  /\ UNCHANGED readers
         /\ \A d \in Desks : \/ desk'[d] \in {desk[d], Resting}
                             \/ /\ readers = {}
                                /\ desk'[d].at = "grant" /\ desk'[d].board => ~x
         /\ \/ proven' \subseteq proven
            \/ \E d \in Desks : desk[d].at = "grant" /\ desk[d].board
  <1> USE DEF AssemblyTypeOK
  <1>1. CASE \/ FreezeRoll \/ \E s \in {"geplant"} \cup Over : ChangesStanding(s)
             \/ \E m \in Members :
                  \/ MemberChanges(m) \/ Leaves(m) \/ ClearProxies(m) \/ Revoke(m)
                  \/ \E e \in BOOLEAN : OverrideRight(m, e)
    <2>1. UNCHANGED <<readers, desk>> /\ proven' \subseteq proven
      BY <1>1 DEF FreezeRoll, ChangesStanding, MemberChanges, Leaves, ClearProxies, Revoke,
                  OverrideRight, Withdrawn
    <2>2. QED
      BY <2>1
  <1>2. ASSUME NEW d \in Desks, CheckInWrites(d) \/ DeskRollsBack(d)
        PROVE  /\ UNCHANGED <<readers, proven>>
               /\ \A c \in Desks : desk'[c] \in {desk[c], Resting}
    BY <1>2 DEF CheckInWrites, DeskRollsBack
  <1>3. ASSUME NEW d \in Desks, GrantWrites(d)
        PROVE  /\ UNCHANGED readers
               /\ \A c \in Desks : desk'[c] \in {desk[c], Resting}
               /\ \/ proven' \subseteq proven
                  \/ desk[d].at = "grant" /\ desk[d].board
    BY <1>3 DEF GrantWrites
  <1>4. ASSUME NEW d \in Desks, NEW m \in Members, CheckInReads(d, m)
        PROVE  /\ UNCHANGED <<readers, proven>> /\ readers = {}
               /\ \A c \in Desks : desk'[c] = desk[c] \/ desk'[c].at = "checkIn"
    BY <1>4 DEF CheckInReads, MeetingFree
  <1>5. ASSUME NEW d \in Desks, NEW g \in Members, NEW h \in Members, NEW board \in BOOLEAN,
               GrantReads(d, g, h, board, x)
        PROVE  /\ UNCHANGED <<readers, proven>> /\ readers = {}
               /\ \A c \in Desks : desk'[c] = desk[c] \/ (desk'[c].board => ~x)
    BY <1>5 DEF GrantReads, MeetingFree
  <1>6. CASE \E d \in Desks : CheckInWrites(d) \/ DeskRollsBack(d)
    BY <1>2, <1>6
  <1>7. CASE \E d \in Desks : GrantWrites(d)
    BY <1>3, <1>7
  <1>8. CASE \E d \in Desks, m \in Members : CheckInReads(d, m)
    BY <1>4, <1>8
  <1>9. CASE \E d \in Desks, g, h \in Members, board \in BOOLEAN : GrantReads(d, g, h, board, x)
    BY <1>5, <1>9
  <1>10. QED
    BY <1>1, <1>6, <1>7, <1>8, <1>9 DEF AssemblyStep

\* The assembly goes on while its ballots are voted on.
LEMMA MeetingKeeps ==
  ASSUME BallotsInv, MeetingStep
  PROVE  BallotsInv'
  <1>1. /\ SecretOpen \in BOOLEAN /\ AssemblyStep(SecretOpen)
        /\ UNCHANGED <<ballotVars, req, sweep, clock, failures>>
    BY DEF MeetingStep, SecretOpen
  <1>2. AssemblyInv'
    BY <1>1, StepKeeps DEF BallotsInv
  <1>3. /\ UNCHANGED readers
        /\ \A d \in Desks : \/ desk'[d] \in {desk[d], Resting}
                            \/ /\ readers = {}
                               /\ desk'[d].at = "grant" /\ desk'[d].board => ~SecretOpen
    BY <1>1, DeskSteps DEF BallotsInv, TypeOK
  <1>4. TypeOK'
    BY <1>1, <1>2, <1>3 DEF BallotsInv, AssemblyInv, TypeOK, ballotVars
  <1>5. LocksExclude' /\ ReadsFounded'
    BY <1>1 DEF BallotsInv, LocksExclude, ReadsFounded, Collide, Founded, Writes, Votes,
                Status, ballotVars
  <1>6. DraftsEmpty' /\ OneVoteEach'
    BY <1>1 DEF BallotsInv, DraftsEmpty, OneVoteEach, Status, ballotVars
  <1>7. MeetingLocked'
    BY <1>3 DEF BallotsInv, MeetingLocked
  <1>8. GrantUnseen'
    <2>1. SecretOpen' <=> SecretOpen
      BY <1>1 DEF SecretOpen, Status, ballotVars
    <2>2. Resting.at # "grant"
      BY DEF Resting
    <2>3. QED
      BY <1>3, <2>1, <2>2 DEF BallotsInv, GrantUnseen
  <1>9. QED
    BY <1>2, <1>4, <1>5, <1>6, <1>7, <1>8 DEF BallotsInv

\* A step of a vote, at whatever stage it is.
LEMMA VoteKeeps ==
  ASSUME BallotsInv, NEW s \in Requests, VoteStep(s)
  PROVE  BallotsInv'
  <1>1. s \in Sessions
    BY DEF Sessions
  <1>2. CASE \E b \in BallotIds, voter, by \in Members, c \in Choices :
               VoteBegins(s, b, voter, by, c)
    BY <1>2, VoteBeginsKeeps
  <1>3. CASE ReadsProxy(s) \/ ReadsCaller(s) \/ ReadsVoter(s)
    <2>1. PICK stage \in {"mandated", "seated", "admitted"} : Advances(s, stage)
      BY <1>3 DEF ReadsProxy, ReadsCaller, ReadsVoter
    <2>2. Votes(req[s])
      BY <1>3 DEF ReadsProxy, ReadsCaller, ReadsVoter, Votes, VotingStages
    <2>3. QED
      BY <1>1, <2>1, <2>2, AdvanceKeeps DEF VotingStages
  <1>4. CASE Marks(s)
    <2>1. /\ Advances(s, "marked") /\ VoterRowFree(req[s].ballot, req[s].voter)
          /\ req[s].voter \notin voted[req[s].ballot] /\ Votes(req[s])
      BY <1>4 DEF Marks, Votes, VotingStages
    <2>2. QED
      BY <1>1, <2>1, AdvanceKeeps DEF VotingStages
  <1>5. CASE Records(s)
    BY <1>1, <1>5, RecordsKeeps
  <1>6. QED
    BY <1>2, <1>3, <1>4, <1>5 DEF VoteStep

\* Every step of the ballots keeps the invariant.
LEMMA NextKeeps ==
  ASSUME BallotsInv, [Next]_vars
  PROVE  BallotsInv'
  <1>1. /\ clock \in 1..MaxClock /\ failures \in 0..MaxFailures /\ MaxFailures \in Nat
        /\ MaxClock \in Nat /\ sweep \in [Sweepers -> Sweep]
        /\ notices \subseteq {"opened", "reminder"} \X BallotIds
    BY BallotsAssumption DEF BallotsInv, TypeOK
  <1>2. CASE MeetingStep
    BY <1>2, MeetingKeeps
  <1>3. CASE Tick
    <2>1. clock' \in 1..MaxClock
      BY <1>1, <1>3 DEF Tick
    <2>2. QED
      BY <1>1, <1>3, <2>1, QuietStep DEF Tick, ballotVars
  <1>4. ASSUME NEW w \in Sweepers, SweepStep(w) PROVE BallotsInv'
    BY <1>4, SweepKeeps
  <1>5. ASSUME NEW b \in BallotIds, DraftStep(b) PROVE BallotsInv'
    BY <1>5, DraftKeeps
  <1>6. ASSUME NEW s \in Requests, VoteStep(s) PROVE BallotsInv'
    BY <1>6, VoteKeeps
  <1>7. ASSUME NEW s \in Requests, NEW op \in Ops, NEW b \in BallotIds, Manages(s, op, b)
        PROVE  BallotsInv'
    BY <1>1, <1>7, LocksKeeps DEF Manages, Sessions
  <1>8. ASSUME NEW s \in Sessions, ManageStep(s) PROVE BallotsInv'
    BY <1>8, OpeningKeeps, CommitsKeeps, OpensKeeps DEF ManageStep
  <1>9. ASSUME NEW s \in Sessions, RollBack(s) PROVE BallotsInv'
    <2>1. failures' \in 0..MaxFailures /\ clock' \in 1..MaxClock /\ sweep' \in [Sweepers -> Sweep]
      BY <1>1, <1>9 DEF RollBack
    <2>2. QED
      BY <1>9, <2>1, ReleaseKeeps DEF RollBack
  <1>10. CASE UNCHANGED vars
    BY <1>1, <1>10, QuietStep DEF vars, ballotVars
  <1>11. QED
    BY <1>2, <1>3, <1>4, <1>5, <1>6, <1>7, <1>8, <1>9, <1>10 DEF Next

\* Only the assembly's own steps touch the proofs of proxies.
LEMMA OnlyMeetingProves ==
  ASSUME [Next]_vars
  PROVE  MeetingStep \/ UNCHANGED proven
  <1> USE DEF assemblyVars
  <1>1. ASSUME NEW w \in Sweepers, SweepStep(w) PROVE UNCHANGED proven
    BY <1>1 DEF SweepStep, SweepTurnsTo, SweepReminds, SweepDies, SweepActs, SweepPasses
  <1>2. ASSUME NEW b \in BallotIds, DraftStep(b) PROVE UNCHANGED proven
    BY <1>2 DEF DraftStep, CreateBallot, DeleteDraft
  <1>3. ASSUME NEW s \in Requests, VoteStep(s) PROVE UNCHANGED proven
    BY <1>3 DEF VoteStep, VoteBegins, ReadsProxy, ReadsCaller, ReadsVoter, Marks, Records,
                Advances
  <1>4. ASSUME NEW s \in Requests, NEW op \in Ops, NEW b \in BallotIds, Manages(s, op, b)
        PROVE  UNCHANGED proven
    BY <1>4 DEF Manages
  <1>5. ASSUME NEW s \in Sessions, ManageStep(s) \/ RollBack(s) PROVE UNCHANGED proven
    BY <1>5 DEF ManageStep, OpeningReads, Commits, Opens, RollBack
  <1>6. CASE Tick \/ UNCHANGED vars
    BY <1>6 DEF Tick, vars
  <1>7. QED
    BY <1>1, <1>2, <1>3, <1>4, <1>5, <1>6 DEF Next

-----------------------------------------------------------------------------
\* The invariant holds from the start and in every state the ballots reach.
THEOREM BallotsIsInvariant == Spec => []BallotsInv
  <1>1. Init => BallotsInv
    <2> SUFFICES ASSUME Init PROVE BallotsInv
      OBVIOUS
    <2>1. AssemblyInv
      BY AssemblyInitInv DEF Init
    <2>2. TypeOK
      <3>1. Vacant \in Row /\ Asleep \in Sweep /\ Empty \in [Members -> Seq(Choices)]
        BY DEF Vacant, Row, Statuses, Asleep, Sweep, Empty
      <3>2. clock \in 1..MaxClock /\ failures \in 0..MaxFailures
        BY BallotsAssumption DEF Init
      <3>3. readers = {s \in Sessions : req[s].at = "opening" /\ req[s].ballot \notin Circulars}
        BY DEF Init, AssemblyInit, Resting
      <3>4. QED
        BY <2>1, <3>1, <3>2, <3>3 DEF Init, TypeOK, AssemblyInv
    <2>3. LocksExclude /\ ReadsFounded
      BY DEF Init, LocksExclude, ReadsFounded, Collide, Founded, Resting, Writes, Votes,
             VotingStages
    <2>4. DraftsEmpty /\ OneVoteEach
      BY DEF Init, DraftsEmpty, OneVoteEach, Empty
    <2>5. MeetingLocked /\ GrantUnseen
      BY DEF Init, AssemblyInit, MeetingLocked, GrantUnseen, Resting
    <2>6. QED
      BY <2>1, <2>2, <2>3, <2>4, <2>5 DEF BallotsInv
  <1>2. BallotsInv /\ [Next]_vars => BallotsInv'
    BY NextKeeps
  <1>3. QED
    BY <1>1, <1>2, PTL DEF Spec

\* The type invariant of the ballots; with it the lock FOR SHARE on the meeting is
\* held by exactly the openings that have read its roll.
THEOREM BallotsTypeCorrect == Spec => []TypeOK
  <1>1. BallotsInv => TypeOK
    BY DEF BallotsInv
  <1>2. QED
    BY <1>1, BallotsIsInvariant, PTL

\* Participation and votes agree, voter by voter (castVote's conditional UPDATE and
\* its INSERT, under the SHARE lock that managing calls wait for).
THEOREM OneVotePerVoter == Spec => []OneVoteEach
  <1>1. BallotsInv => OneVoteEach
    BY DEF BallotsInv
  <1>2. QED
    BY <1>1, BallotsIsInvariant, PTL

\* The board proves no proxy while a secret ballot of the assembly is open
\* (grantProxy's plain read, openBallot's lock on the meeting).
THEOREM ProofsWaitForSecrecy == Spec => NotRepresentedUnseen
  <1>1. BallotsInv /\ [Next]_vars => [SecretOpen => proven' \subseteq proven]_vars
    <2> SUFFICES ASSUME BallotsInv, [Next]_vars, SecretOpen
                 PROVE  proven' \subseteq proven
      OBVIOUS
    <2>1. CASE MeetingStep
      <3>1. SecretOpen \in BOOLEAN /\ AssemblyStep(SecretOpen) /\ AssemblyTypeOK
        BY <2>1 DEF MeetingStep, SecretOpen, BallotsInv, TypeOK
      <3>2. \A d \in Desks : ~(desk[d].at = "grant" /\ desk[d].board)
        BY DEF BallotsInv, GrantUnseen
      <3>3. QED
        BY <3>1, <3>2, DeskSteps
    <2>2. CASE UNCHANGED proven
      BY <2>2
    <2>3. QED
      BY <2>1, <2>2, OnlyMeetingProves
  <1>2. QED
    BY <1>1, BallotsIsInvariant, PTL DEF Spec, NotRepresentedUnseen

-----------------------------------------------------------------------------
(***************************************************************************)
(* The ballots implement BallotPromise.  SoundInv adds to BallotsInv what    *)
(* the promise needs of the locks: what a transaction read of the status of   *)
(* the ballot it holds is still so when it writes, a marked vote falls into    *)
(* an open ballot, and a draft has no result.                                *)
(***************************************************************************)

\* What the status of a ballot was found to be, and is until the call ends.
StillAllowed(op, b) ==
  \/ op \in {"update", "open"} /\ Status(b) = "draft"
  \/ op \in {"settle", "close"} /\ Status(b) = "open"
  \/ op = "count" /\ Status(b) = "closed"
  \/ op = "finalize" /\ Status(b) = "counted"
  \/ op = "cancel" /\ Status(b) \in {"draft", "open"}

Sound(r) ==
  /\ r.at = "marked" => Status(r.ballot) = "open"
  /\ Writes(r) => StillAllowed(r.op, r.ballot)

SoundInv ==
  /\ \A s \in Sessions : Sound(req[s])
  /\ \A b \in BallotIds : Status(b) \in {"none", "draft"} => ballot[b].result = <<>>

\* The refinement mapping, ballot by ballot.
PhaseOf(b) == Phase[Status(b)]
ChoiceOf(b) == Chosen(box[b])
OutcomeOf(b) == Chosen(ballot[b].result)
PromiseStep == Promise!Next \/ UNCHANGED Promise!vars

\* The steps of the promise in terms of the rows: one that leaves them alone,
LEMMA PromiseStutters ==
  ASSUME \A a \in BallotIds : /\ PhaseOf(a)' = PhaseOf(a) /\ ChoiceOf(a)' = ChoiceOf(a)
                              /\ OutcomeOf(a)' = OutcomeOf(a),
         entries' = entries
  PROVE  PromiseStep
  BY DEF PromiseStep, Promise!vars, PhaseOf, ChoiceOf, OutcomeOf

\* one that begins, ends or calls off the voting on a ballot,
LEMMA PromiseMoves ==
  ASSUME NEW b \in BallotIds,
         \/ PhaseOf(b) = "planned" /\ PhaseOf(b)' = "voting"
         \/ PhaseOf(b) = "voting" /\ PhaseOf(b)' = "over"
         \/ PhaseOf(b) \in {"planned", "voting"} /\ PhaseOf(b)' = "calledOff",
         \A a \in BallotIds \ {b} : PhaseOf(a)' = PhaseOf(a),
         \A a \in BallotIds : ChoiceOf(a)' = ChoiceOf(a) /\ OutcomeOf(a)' = OutcomeOf(a),
         entries' = entries
  PROVE  PromiseStep
  <1>1. \/ Promise!Begin(b) \/ Promise!End(b) \/ Promise!CallOff(b)
    BY DEF Promise!Begin, Promise!End, Promise!CallOff, Promise!Moves, PhaseOf, ChoiceOf,
           OutcomeOf
  <1>2. QED
    BY <1>1 DEF PromiseStep, Promise!Next

\* one that decides a ballot on the choices that are recorded,
LEMMA PromiseDecides ==
  ASSUME NEW b \in BallotIds, PhaseOf(b) = "over", PhaseOf(b)' = "decided",
         OutcomeOf(b)' = ChoiceOf(b),
         \A a \in BallotIds \ {b} : PhaseOf(a)' = PhaseOf(a) /\ OutcomeOf(a)' = OutcomeOf(a),
         \A a \in BallotIds : ChoiceOf(a)' = ChoiceOf(a),
         entries' = entries
  PROVE  PromiseStep
  <1>1. Promise!Decide(b)
    BY DEF Promise!Decide, Promise!Moves, PhaseOf, ChoiceOf, OutcomeOf
  <1>2. QED
    BY <1>1 DEF PromiseStep, Promise!Next

\* one that enters a decided ballot into the minutes,
LEMMA PromiseEnters ==
  ASSUME NEW b \in BallotIds, PhaseOf(b) = "decided", PhaseOf(b)' = "entered",
         \A a \in BallotIds \ {b} : PhaseOf(a)' = PhaseOf(a),
         \A a \in BallotIds : ChoiceOf(a)' = ChoiceOf(a) /\ OutcomeOf(a)' = OutcomeOf(a),
         entries' = [entries EXCEPT ![b] = @ + 1]
  PROVE  PromiseStep
  <1>1. Promise!Enter(b)
    BY DEF Promise!Enter, Promise!Moves, PhaseOf, ChoiceOf, OutcomeOf
  <1>2. QED
    BY <1>1 DEF PromiseStep, Promise!Next

\* and one that records a first choice while the vote is on.
LEMMA PromiseVotes ==
  ASSUME NEW b \in BallotIds, NEW m \in Members, NEW c \in Choices,
         PhaseOf(b) = "voting", ChoiceOf(b)[m] = NoChoice,
         ChoiceOf(b)' = [ChoiceOf(b) EXCEPT ![m] = c],
         \A a \in BallotIds \ {b} : ChoiceOf(a)' = ChoiceOf(a),
         \A a \in BallotIds : PhaseOf(a)' = PhaseOf(a) /\ OutcomeOf(a)' = OutcomeOf(a),
         entries' = entries
  PROVE  PromiseStep
  <1>1. Promise!Vote(b, m, c)
    BY DEF Promise!Vote, PhaseOf, ChoiceOf, OutcomeOf
  <1>2. QED
    BY <1>1 DEF PromiseStep, Promise!Next

-----------------------------------------------------------------------------
\* A step that writes no ballot and no vote, and at most moves one transaction on
\* to where what it relies on is so.
LEMMA SoundRequest ==
  ASSUME BallotsInv, SoundInv, NEW s \in Sessions, NEW r,
         req' = [req EXCEPT ![s] = r], Sound(r),
         ballot' = ballot, box' = box, entries' = entries
  PROVE  SoundInv' /\ PromiseStep
  <1>1. \A t \in Sessions : req'[t] = IF t = s THEN r ELSE req[t]
    BY DEF BallotsInv, TypeOK
  <1>2. \A t \in Sessions : Sound(req[t])'
    BY <1>1 DEF SoundInv, Sound, StillAllowed, Writes, Status
  <1>3. SoundInv'
    BY <1>2 DEF SoundInv, Status
  <1>4. QED
    BY <1>3, PromiseStutters DEF PhaseOf, ChoiceOf, OutcomeOf, Status

\* A step that leaves transactions, ballots and votes alone.
LEMMA SoundQuiet ==
  ASSUME SoundInv, req' = req, ballot' = ballot, box' = box, entries' = entries
  PROVE  SoundInv' /\ PromiseStep
  <1>1. SoundInv'
    BY DEF SoundInv, Sound, StillAllowed, Writes, Status
  <1>2. QED
    BY <1>1, PromiseStutters DEF PhaseOf, ChoiceOf, OutcomeOf, Status

\* A step that writes the row of one ballot, which no other transaction relies on.
LEMMA SoundRow ==
  ASSUME BallotsInv, SoundInv, NEW b \in BallotIds,
         \A a \in BallotIds \ {b} : ballot'[a] = ballot[a],
         \A t \in Sessions : req'[t] \in {req[t], Resting},
         \A t \in Sessions : Writes(req'[t]) \/ req'[t].at = "marked" => req'[t].ballot # b,
         ballot'[b].status \in {"none", "draft"} => ballot'[b].result = <<>>
  PROVE  SoundInv'
  <1>1. ASSUME NEW t \in Sessions PROVE Sound(req[t])'
    <2>1. CASE req'[t] = Resting
      BY <2>1 DEF Sound, Resting, Writes
    <2>2. CASE req'[t] = req[t] /\ (Writes(req[t]) \/ req[t].at = "marked")
      <3>1. req[t].ballot \in BallotIds \ {b}
        <4>1. req[t] \in Request
          BY DEF BallotsInv, TypeOK, Request
        <4>2. QED
          BY <2>2, <4>1 DEF Request, Voting, Managing, Resting, Writes
      <3>2. Sound(req[t]) /\ Status(req[t].ballot)' = Status(req[t].ballot)
        BY <2>2, <3>1 DEF SoundInv, Status
      <3>3. QED
        BY <2>2, <3>2 DEF Sound, StillAllowed, Writes, Status
    <2>3. CASE req'[t] = req[t] /\ ~Writes(req[t]) /\ req[t].at # "marked"
      BY <2>3 DEF Sound, Writes
    <2>4. QED
      BY <2>1, <2>2, <2>3
  <1>2. QED
    BY <1>1 DEF SoundInv, Status

\* The commit of a vote records its voter's first choice in an open ballot.
LEMMA SoundRecords ==
  ASSUME BallotsInv, SoundInv, NEW s \in Sessions, Records(s)
  PROVE  SoundInv' /\ PromiseStep
  <1> DEFINE m == req[s].voter
             c == req[s].choice
  <1>0. PICK b : b = req[s].ballot
    OBVIOUS
  <1>1. /\ req[s].at = "marked" /\ b \in BallotIds /\ m \in Members /\ c \in Choices
    <2>1. req[s] \in Request /\ req[s].at = "marked"
      BY DEF BallotsInv, TypeOK, Request, Records
    <2>2. QED
      BY <1>0, <2>1 DEF Request, Voting, Managing, Resting
  <1>2. /\ Status(b) = "open" /\ m \notin voted[b]
    BY <1>0, <1>1 DEF SoundInv, Sound, BallotsInv, ReadsFounded, Founded
  <1>3. /\ box[b][m] = <<>> /\ box \in [BallotIds -> [Members -> Seq(Choices)]]
    <2>1. box \in [BallotIds -> [Members -> Seq(Choices)]]
      BY DEF BallotsInv, TypeOK
    <2>2. Len(box[b][m]) = 0 /\ box[b][m] \in Seq(Choices)
      BY <1>1, <1>2, <2>1 DEF BallotsInv, OneVoteEach
    <2>3. QED
      BY <2>1, <2>2
  <1>4. /\ box' = [box EXCEPT ![b] = [box[b] EXCEPT ![m] = Append(box[b][m], c)]]
        /\ req' = [req EXCEPT ![s] = Resting]
        /\ ballot' = ballot /\ entries' = entries
    BY <1>0, <1>1, <1>3 DEF Records
  <1>5. SoundInv'
    <2>1. \A t \in Sessions : req'[t] = IF t = s THEN Resting ELSE req[t]
      BY <1>4 DEF BallotsInv, TypeOK
    <2>2. \A t \in Sessions : Sound(req[t])'
      BY <1>4, <2>1 DEF SoundInv, Sound, StillAllowed, Writes, Status, Resting
    <2>3. QED
      BY <1>4, <2>2 DEF SoundInv, Status
  <1>6. Append(box[b][m], c) = <<c>> /\ Head(<<c>>) = c /\ <<c>> # <<>>
    BY <1>1, <1>3
  <1>7. \A x \in Members : box'[b][x] = IF x = m THEN <<c>> ELSE box[b][x]
    BY <1>1, <1>3, <1>4, <1>6
  <1>8. box[b] # <<>> /\ box'[b] # <<>>
    <2>1. DOMAIN box[b] = Members /\ DOMAIN box'[b] = Members /\ Members # {}
      BY <1>1, <1>3, <1>4
    <2>2. DOMAIN <<>> = {}
      OBVIOUS
    <2>3. QED
      BY <2>1, <2>2
  <1>9. /\ ChoiceOf(b)[m] = NoChoice
        /\ ChoiceOf(b)' = [ChoiceOf(b) EXCEPT ![m] = c]
    BY <1>1, <1>3, <1>6, <1>7, <1>8 DEF ChoiceOf, Chosen
  <1>10. \A a \in BallotIds \ {b} : ChoiceOf(a)' = ChoiceOf(a)
    BY <1>1, <1>3, <1>4 DEF ChoiceOf
  <1>11. PhaseOf(b) = "voting"
    BY <1>2 DEF PhaseOf, Phase
  <1>12. \A a \in BallotIds : PhaseOf(a)' = PhaseOf(a) /\ OutcomeOf(a)' = OutcomeOf(a)
    BY <1>4 DEF PhaseOf, OutcomeOf, Status
  <1>13. QED
    BY <1>1, <1>4, <1>5, <1>9, <1>10, <1>11, <1>12, PromiseVotes

\* A draft comes and goes without a trace in the promise.
LEMMA SoundDraft ==
  ASSUME BallotsInv, SoundInv, NEW b \in BallotIds, DraftStep(b)
  PROVE  SoundInv' /\ PromiseStep
  <1>1. /\ ballot \in [BallotIds -> Row] /\ ballot[b] \in Row
        /\ Status(b) \in {"none", "draft"} => ballot[b].result = <<>>
    BY DEF BallotsInv, TypeOK, SoundInv
  <1>2. /\ UNCHANGED <<voters, voted, box, entries, req>>
        /\ Status(b) \in {"none", "draft"} /\ ballot[b].result = <<>>
        /\ \A a \in BallotIds \ {b} : ballot'[a] = ballot[a]
        /\ ballot'[b].status \in {"none", "draft"} /\ ballot'[b].result = <<>>
    <2>1. ASSUME NEW secret \in BOOLEAN, CreateBallot(b, secret)
          PROVE  /\ UNCHANGED <<voters, voted, box, entries, req>> /\ Status(b) = "none"
                 /\ \A a \in BallotIds \ {b} : ballot'[a] = ballot[a]
                 /\ ballot'[b].status = "draft" /\ ballot'[b].result = ballot[b].result
      BY <1>1, <2>1 DEF CreateBallot, Row
    <2>2. ASSUME DeleteDraft(b)
          PROVE  /\ UNCHANGED <<voters, voted, box, entries, req>> /\ Status(b) = "draft"
                 /\ \A a \in BallotIds \ {b} : ballot'[a] = ballot[a]
                 /\ ballot'[b].status = "none" /\ ballot'[b].result = <<>>
      BY <1>1, <2>2 DEF DeleteDraft, Vacant
    <2>3. QED
      BY <1>1, <2>1, <2>2 DEF DraftStep
  <1>3. \A t \in Sessions : Writes(req[t]) \/ req[t].at = "marked" => req[t].ballot # b
    <2>1. \A t \in Sessions : Writes(req[t]) => req[t].ballot # b
      <3>1. ASSUME Status(b) = "none", NEW t \in Sessions, Writes(req[t]) PROVE req[t].ballot # b
        BY <3>1 DEF BallotsInv, ReadsFounded, Founded
      <3>2. ASSUME DeleteDraft(b), NEW t \in Sessions, Writes(req[t]) PROVE req[t].ballot # b
        BY <3>2 DEF DeleteDraft, ExclusiveFree, ManagingOn, Writes
      <3>3. QED
        BY <3>1, <3>2 DEF DraftStep, CreateBallot
    <2>2. QED
      BY <1>2, <2>1 DEF SoundInv, Sound
  <1>4. SoundInv'
    BY <1>2, <1>3, SoundRow
  <1>5. PhaseOf(b)' = PhaseOf(b) /\ OutcomeOf(b)' = OutcomeOf(b)
    BY <1>2 DEF PhaseOf, Phase, Status, OutcomeOf
  <1>6. \A a \in BallotIds : /\ PhaseOf(a)' = PhaseOf(a) /\ ChoiceOf(a)' = ChoiceOf(a)
                             /\ OutcomeOf(a)' = OutcomeOf(a)
    BY <1>2, <1>5 DEF PhaseOf, Status, ChoiceOf, OutcomeOf
  <1>7. QED
    BY <1>2, <1>4, <1>6, PromiseStutters

\* Opening begins the voting on a draft.
LEMMA SoundOpens ==
  ASSUME BallotsInv, SoundInv, NEW s \in Sessions, NEW from \in 1..MaxClock,
         NEW to \in 0..MaxClock, Opens(s, from, to)
  PROVE  SoundInv' /\ PromiseStep
  <1>0. PICK b : b = req[s].ballot
    OBVIOUS
  <1>1. Writes(req[s]) /\ req[s].at = "opening" /\ b \in BallotIds
    <2>1. Writes(req[s]) /\ req[s].at = "opening"
      BY DEF Opens, Writes
    <2>2. QED
      BY <1>0, <2>1, HolderAlone DEF Managing
  <1>2. Status(b) = "draft" /\ ballot \in [BallotIds -> Row] /\ ballot[b] \in Row
    BY <1>0, <1>1 DEF BallotsInv, ReadsFounded, Founded, TypeOK
  <1>3. /\ req' = [req EXCEPT ![s] = Resting]
        /\ box' = box /\ entries' = entries
        /\ \A a \in BallotIds \ {b} : ballot'[a] = ballot[a]
        /\ ballot'[b].status = "open" /\ ballot'[b].result = ballot[b].result
    BY <1>0, <1>1, <1>2 DEF Opens, Released, Row
  <1>4. SoundInv'
    <2>1. /\ \A t \in Sessions : req'[t] \in {req[t], Resting}
          /\ \A t \in Sessions : Writes(req'[t]) \/ req'[t].at = "marked" => req'[t].ballot # b
      BY <1>0, <1>1, <1>3, HolderRests DEF Votes, VotingStages
    <2>2. QED
      BY <1>1, <1>3, <2>1, SoundRow
  <1>5. /\ PhaseOf(b) = "planned" /\ PhaseOf(b)' = "voting" /\ OutcomeOf(b)' = OutcomeOf(b)
    BY <1>2, <1>3 DEF PhaseOf, Phase, Status, OutcomeOf
  <1>6. /\ \A a \in BallotIds \ {b} : PhaseOf(a)' = PhaseOf(a)
        /\ \A a \in BallotIds : ChoiceOf(a)' = ChoiceOf(a) /\ OutcomeOf(a)' = OutcomeOf(a)
    BY <1>3, <1>5 DEF PhaseOf, Status, ChoiceOf, OutcomeOf
  <1>7. QED
    BY <1>1, <1>3, <1>4, <1>5, <1>6, PromiseMoves

\* The other managing calls end the voting, decide on the votes there are, enter the
\* resolution or call the ballot off, as the status under the lock allows.
LEMMA SoundCommits ==
  ASSUME BallotsInv, SoundInv, NEW s \in Sessions, Commits(s)
  PROVE  SoundInv' /\ PromiseStep
  <1> DEFINE op == req[s].op
  <1>0. PICK b : b = req[s].ballot
    OBVIOUS
  <1>1. Writes(req[s]) /\ req[s].at = "holds" /\ b \in BallotIds /\ op \in Ops \ {"open"}
    <2>1. Writes(req[s]) /\ req[s].at = "holds" /\ op # "open"
      BY DEF Commits, Writes
    <2>2. QED
      BY <1>0, <2>1, HolderAlone DEF Managing
  <1>2. /\ StillAllowed(op, b) /\ ballot \in [BallotIds -> Row] /\ ballot[b] \in Row
    BY <1>0, <1>1 DEF SoundInv, Sound, BallotsInv, TypeOK
  <1>3. /\ req' = [req EXCEPT ![s] = Resting] /\ ballot' = Written(op, b) /\ box' = box
        /\ entries' = IF op = "finalize" THEN [entries EXCEPT ![b] = @ + 1] ELSE entries
    BY <1>0 DEF Commits
  <1>4. /\ \A a \in BallotIds \ {b} : ballot'[a] = ballot[a]
        /\ op = "update" => ballot'[b].status = "draft" /\ ballot'[b].result = ballot[b].result
        /\ op \in {"settle", "close"} =>
             ballot'[b].status = "closed" /\ ballot'[b].result = ballot[b].result
        /\ op = "count" => ballot'[b].status = "counted" /\ ballot'[b].result = box[b]
        /\ op = "finalize" => ballot'[b].status = "finalized" /\ ballot'[b].result = ballot[b].result
        /\ op = "cancel" => ballot'[b].status = "cancelled" /\ ballot'[b].result = ballot[b].result
    <2>1. CASE op = "update"
      BY <1>1, <1>2, <1>3, <2>1 DEF Written, StillAllowed, Status, Row
    <2>2. CASE op \in {"settle", "close"}
      BY <1>1, <1>2, <1>3, <2>2 DEF Written, Closed, Row
    <2>3. CASE op = "count"
      BY <1>1, <1>2, <1>3, <2>3 DEF Written, Row
    <2>4. CASE op \in {"finalize", "cancel"}
      BY <1>1, <1>2, <1>3, <2>4 DEF Written, Moved, Row
    <2>5. QED
      BY <1>1, <2>1, <2>2, <2>3, <2>4 DEF Ops
  <1>5. SoundInv'
    <2>1. /\ \A t \in Sessions : req'[t] \in {req[t], Resting}
          /\ \A t \in Sessions : Writes(req'[t]) \/ req'[t].at = "marked" => req'[t].ballot # b
      BY <1>0, <1>1, <1>3, HolderRests DEF Votes, VotingStages
    <2>2. ballot'[b].status \in {"none", "draft"} => ballot'[b].result = <<>>
      BY <1>1, <1>2, <1>4 DEF SoundInv, StillAllowed, Ops
    <2>3. QED
      BY <1>1, <1>4, <2>1, <2>2, SoundRow
  <1>6. /\ \A a \in BallotIds \ {b} : PhaseOf(a)' = PhaseOf(a) /\ OutcomeOf(a)' = OutcomeOf(a)
        /\ \A a \in BallotIds : ChoiceOf(a)' = ChoiceOf(a)
        /\ op # "count" => OutcomeOf(b)' = OutcomeOf(b)
    BY <1>1, <1>3, <1>4 DEF PhaseOf, Status, ChoiceOf, OutcomeOf, Ops
  <1>7. CASE op = "update"
    <2>1. PhaseOf(b)' = PhaseOf(b)
      BY <1>2, <1>4, <1>7 DEF PhaseOf, StillAllowed, Status
    <2>2. QED
      BY <1>3, <1>5, <1>6, <1>7, <2>1, PromiseStutters
  <1>8. CASE op \in {"settle", "close", "cancel"}
    <2>1. /\ op # "cancel" => PhaseOf(b) = "voting" /\ PhaseOf(b)' = "over"
          /\ op = "cancel" => PhaseOf(b) \in {"planned", "voting"} /\ PhaseOf(b)' = "calledOff"
      BY <1>2, <1>4, <1>8 DEF PhaseOf, Phase, StillAllowed, Status
    <2>2. QED
      BY <1>1, <1>3, <1>5, <1>6, <1>8, <2>1, PromiseMoves
  <1>9. CASE op = "count"
    <2>1. /\ PhaseOf(b) = "over" /\ PhaseOf(b)' = "decided" /\ OutcomeOf(b)' = ChoiceOf(b)
      BY <1>2, <1>4, <1>9 DEF PhaseOf, Phase, StillAllowed, Status, OutcomeOf, ChoiceOf
    <2>2. QED
      BY <1>1, <1>3, <1>5, <1>6, <1>9, <2>1, PromiseDecides
  <1>10. CASE op = "finalize"
    <2>1. PhaseOf(b) = "decided" /\ PhaseOf(b)' = "entered"
      BY <1>2, <1>4, <1>10 DEF PhaseOf, Phase, StillAllowed, Status
    <2>2. QED
      BY <1>1, <1>3, <1>5, <1>6, <1>10, <2>1, PromiseEnters
  <1>11. QED
    BY <1>1, <1>7, <1>8, <1>9, <1>10 DEF Ops

\* The steps of castVote before its commit.
LEMMA SoundVote ==
  ASSUME BallotsInv, SoundInv, NEW s \in Requests, VoteStep(s)
  PROVE  SoundInv' /\ PromiseStep
  <1>1. s \in Sessions /\ req[s] \in Request
    BY DEF Sessions, BallotsInv, TypeOK, Request
  <1>2. ASSUME NEW b \in BallotIds, NEW voter \in Members, NEW by \in Members, NEW c \in Choices,
               VoteBegins(s, b, voter, by, c)
        PROVE  SoundInv' /\ PromiseStep
    <2>1. PICK stage \in {"begun", "mandated", "admitted"} :
            req' = [req EXCEPT ![s] = [at |-> stage, ballot |-> b, voter |-> voter,
                                       by |-> by, choice |-> c]]
      BY <1>2 DEF VoteBegins
    <2>2. Sound([at |-> stage, ballot |-> b, voter |-> voter, by |-> by, choice |-> c])
      BY DEF Sound, Writes
    <2>3. ballot' = ballot /\ box' = box /\ entries' = entries
      BY <1>2 DEF VoteBegins, ballotVars
    <2>4. QED
      BY <1>1, <2>1, <2>2, <2>3, SoundRequest
  <1>3. ASSUME NEW stage \in VotingStages, Votes(req[s]), Advances(s, stage),
               stage = "marked" => Status(req[s].ballot) = "open"
        PROVE  SoundInv' /\ PromiseStep
    <2>1. req[s] \in Voting
      BY <1>1, <1>3, RequestKinds
    <2>2. Sound([req[s] EXCEPT !.at = stage])
      BY <1>3, <2>1 DEF Sound, Writes, Voting, VotingStages
    <2>3. /\ req' = [req EXCEPT ![s] = [req[s] EXCEPT !.at = stage]]
          /\ ballot' = ballot /\ box' = box /\ entries' = entries
      BY <1>3 DEF Advances, ballotVars
    <2>4. QED
      BY <1>1, <2>2, <2>3, SoundRequest
  <1>4. CASE ReadsProxy(s) \/ ReadsCaller(s) \/ ReadsVoter(s)
    <2>1. PICK stage \in {"mandated", "seated", "admitted"} : Advances(s, stage)
      BY <1>4 DEF ReadsProxy, ReadsCaller, ReadsVoter
    <2>2. Votes(req[s])
      BY <1>4 DEF ReadsProxy, ReadsCaller, ReadsVoter, Votes, VotingStages
    <2>3. QED
      BY <1>3, <2>1, <2>2 DEF VotingStages
  <1>5. CASE Marks(s)
    BY <1>3, <1>5 DEF Marks, Votes, VotingStages
  <1>6. CASE Records(s)
    BY <1>1, <1>6, SoundRecords
  <1>7. QED
    BY <1>2, <1>4, <1>5, <1>6 DEF VoteStep

\* Taking the row FOR UPDATE: its status is what Allowed asked for.
LEMMA SoundLocks ==
  ASSUME BallotsInv, SoundInv, NEW s \in Sessions, NEW op, NEW b \in BallotIds,
         Locks(s, op, b), ballot' = ballot, box' = box, entries' = entries
  PROVE  SoundInv' /\ PromiseStep
  <1>1. req' = [req EXCEPT ![s] = [at |-> "holds", op |-> op, ballot |-> b, roll |-> {}]]
        /\ Allowed(op, b)
    BY DEF Locks
  <1>2. StillAllowed(op, b)
    BY <1>1 DEF Allowed, StillAllowed
  <1>3. Sound([at |-> "holds", op |-> op, ballot |-> b, roll |-> {}])
    BY <1>2 DEF Sound
  <1>4. QED
    BY <1>1, <1>3, SoundRequest

\* The end of a transaction that wrote nothing.
LEMMA SoundReleased ==
  ASSUME BallotsInv, SoundInv, NEW s \in Sessions, Released(s),
         ballot' = ballot, box' = box, entries' = entries
  PROVE  SoundInv' /\ PromiseStep
  <1>1. Sound(Resting)
    BY DEF Sound, Resting, Writes
  <1>2. req' = [req EXCEPT ![s] = Resting]
    BY DEF Released
  <1> HIDE DEF Resting
  <1>3. QED
    BY <1>1, <1>2, SoundRequest

\* The sweep locks, or writes no row.
LEMMA SoundSweep ==
  ASSUME BallotsInv, SoundInv, NEW w \in Sweepers, SweepStep(w)
  PROVE  SoundInv' /\ PromiseStep
  <1> USE DEF ballotVars
  <1>1. ballot' = ballot /\ box' = box /\ entries' = entries /\ w \in Sessions
    BY DEF SweepStep, SweepTurnsTo, SweepReminds, SweepDies, SweepActs, SweepPasses, Sessions
  <1>2. ASSUME NEW b \in BallotIds, SweepActs(w, b) PROVE SoundInv' /\ PromiseStep
    BY <1>1, <1>2, SoundLocks DEF SweepActs
  <1>3. CASE SweepDies(w)
    BY <1>1, <1>3, SoundReleased DEF SweepDies
  <1>4. CASE req' = req
    BY <1>1, <1>4, SoundQuiet
  <1>5. QED
    BY <1>2, <1>3, <1>4 DEF SweepStep, SweepTurnsTo, SweepReminds, SweepPasses

\* An opening that has read the meeting's roll still finds a draft.
LEMMA SoundOpening ==
  ASSUME BallotsInv, SoundInv, NEW s \in Sessions, OpeningReads(s)
  PROVE  SoundInv' /\ PromiseStep
  <1>1. Writes(req[s]) /\ req[s] \in Managing
    <2>1. Writes(req[s])
      BY DEF OpeningReads, Writes
    <2>2. QED
      BY <2>1, HolderAlone
  <1>2. PICK r : req' = [req EXCEPT ![s] = [req[s] EXCEPT !.at = "opening", !.roll = r]]
    BY DEF OpeningReads
  <1>3. Sound([req[s] EXCEPT !.at = "opening", !.roll = r])
    <2>1. Sound(req[s])
      BY DEF SoundInv
    <2>2. QED
      BY <1>1, <2>1 DEF Sound, Writes, StillAllowed, Managing
  <1>4. ballot' = ballot /\ box' = box /\ entries' = entries
    BY DEF OpeningReads, ballotVars
  <1>5. QED
    BY <1>2, <1>3, <1>4, SoundRequest

\* Every step of the ballots keeps SoundInv, and is one of the promise.
LEMMA SoundNext ==
  ASSUME BallotsInv, SoundInv, [Next]_vars
  PROVE  SoundInv' /\ PromiseStep
  <1>1. CASE MeetingStep \/ Tick \/ UNCHANGED vars
    BY <1>1, SoundQuiet DEF MeetingStep, Tick, vars, ballotVars
  <1>2. ASSUME NEW w \in Sweepers, SweepStep(w) PROVE SoundInv' /\ PromiseStep
    BY <1>2, SoundSweep
  <1>3. ASSUME NEW b \in BallotIds, DraftStep(b) PROVE SoundInv' /\ PromiseStep
    BY <1>3, SoundDraft
  <1>4. ASSUME NEW s \in Requests, VoteStep(s) PROVE SoundInv' /\ PromiseStep
    BY <1>4, SoundVote
  <1>5. ASSUME NEW s \in Requests, NEW op \in Ops, NEW b \in BallotIds, Manages(s, op, b)
        PROVE  SoundInv' /\ PromiseStep
    BY <1>5, SoundLocks DEF Manages, ballotVars, Sessions
  <1>6. ASSUME NEW s \in Sessions, ManageStep(s) PROVE SoundInv' /\ PromiseStep
    BY <1>6, SoundOpening, SoundOpens, SoundCommits DEF ManageStep
  <1>7. ASSUME NEW s \in Sessions, RollBack(s) PROVE SoundInv' /\ PromiseStep
    BY <1>7, SoundReleased DEF RollBack, ballotVars
  <1>8. QED
    BY <1>1, <1>2, <1>3, <1>4, <1>5, <1>6, <1>7 DEF Next

\* The ballots keep their promise: they refine BallotPromise.  A choice is recorded
\* at most once, only while the vote is on; a ballot is decided on all of them; what
\* is over is not called off, and the minutes get one entry.
THEOREM BallotsKeepPromise == Spec => PromiseKept
  <1>1. Init => SoundInv /\ Promise!Init
    <2> SUFFICES ASSUME Init PROVE SoundInv /\ Promise!Init
      OBVIOUS
    <2>1. SoundInv
      BY DEF Init, SoundInv, Sound, Writes, Resting, Status, Vacant
    <2>2. \A m \in Members : Chosen(Empty)[m] = NoChoice /\ Chosen(<<>>)[m] = NoChoice
      BY DEF Chosen, Empty
    <2>3. Chosen(Empty) = Promise!Blank /\ Chosen(<<>>) = Promise!Blank
      BY <2>2 DEF Chosen, Promise!Blank
    <2>4. \A b \in BallotIds : /\ Phase[Status(b)] = "planned"
                               /\ box[b] = Empty /\ ballot[b].result = <<>>
      BY DEF Init, Phase, Status, Vacant
    <2>5. Promise!Init
      BY <2>3, <2>4 DEF Init, Promise!Init
    <2>6. QED
      BY <2>1, <2>5
  <1>2. BallotsInv /\ SoundInv /\ [Next]_vars => SoundInv' /\ PromiseStep
    BY SoundNext
  <1>3. PromiseStep => [Promise!Next]_(Promise!vars)
    BY DEF PromiseStep
  <1>4. QED
    BY <1>1, <1>2, <1>3, BallotsIsInvariant, PTL DEF Spec, PromiseKept, Promise!Spec

-----------------------------------------------------------------------------
(***************************************************************************)
(* The invitation.  The proof of what reached whom is written row by row    *)
(* from what was read of the mails; InvitationInv says that what was read   *)
(* is final, that the one transaction that sends the first version is the   *)
(* only one to hand mails over, and that nothing moves before it.           *)
(***************************************************************************)
\* Members who share a mailbox have an owner of it.
LEMMA OwnerExists ==
  ASSUME NEW m \in Addressees
  PROVE  OwnerOf(m) \in Owners
  <1>1. PICK S : S = SharesMail(m)
    OBVIOUS
  <1>2. S \subseteq Nat /\ m \in S /\ S \subseteq Addressees
    BY <1>1, InvitationAssumption DEF SharesMail, Addressees, Invitees
  <1>3. PICK R : R = OpToRel(<, Nat)
    OBVIOUS
  <1>4. IsWellFoundedOn(R, Nat)
    BY <1>3, NatLessThanWellFounded, Zenon
  <1>5. PICK j \in S : \A k \in S : ~(<<k, j>> \in R)
    BY <1>2, <1>4, WFMin, Zenon
  <1>6. \A k \in S : j <= k
    <2>1. SUFFICES ASSUME NEW k \in S, ~(j <= k)
                   PROVE  FALSE
      OBVIOUS
    <2>2. k \in Nat /\ j \in Nat /\ k < j
      BY <1>2, <1>5, <2>1
    <2>3. <<k, j>> \in R
      BY <1>3, <2>2 DEF OpToRel
    <2>4. QED
      BY <1>5, <2>3
  <1>7. PICK o : o = OwnerOf(m)
    OBVIOUS
  <1>8. o \in S
    BY <1>1, <1>5, <1>6, <1>7 DEF OwnerOf
  <1>9. SharesMail(o) = S
    BY <1>1, <1>8 DEF SharesMail
  <1>10. OwnerOf(o) = OwnerOf(m)
    BY <1>1, <1>9, Zenon DEF OwnerOf
  <1>11. QED
    BY <1>2, <1>7, <1>8, <1>10 DEF Owners

MailStatuses == {"none", "queued", "sent", "failed"}
Findings == UNION {[S -> MailStatuses] : S \in SUBSET Addressees}

\* What a call has read, or is about to write.
InviteRecord ==
  [op: {"none", "dispatch"}] \cup [op: {"move"}, excused: BOOLEAN] \cup [op: {"invite"}, short: BOOLEAN]
    \cup [op: {"sync"}, open: SUBSET Addressees]
    \cup [op: {"write"}, open: SUBSET Addressees, found: Findings, needsPost: SUBSET Addressees]

Version == [agenda: [Items -> Wordings \cup {Unwritten}], short: BOOLEAN]
AgendaRow == [wording: Wordings \cup {Unwritten}, by: 0..MaxInvitations]

AgendaInv ==
  /\ invitations \in Seq(Version) /\ Len(invitations) \in 0..MaxInvitations
  /\ agenda \in [Items -> AgendaRow] /\ \A i \in Items : agenda[i].by \in 0..Len(invitations)
  /\ rewordings \in 0..MaxRewordings
  /\ dateShort \in BOOLEAN /\ dateExcused \in BOOLEAN
  /\ AnnouncedStands

\* Nothing is written before the first version is sent.
NothingBefore ==
  invitations = <<>> =>
    /\ \A m \in Addressees : proof[m] = "none"
    /\ \A m \in Invitees : letters[m] = "none"
    /\ \A o \in Owners : invitationMail[o] = "none"
    /\ \A c \in InviteCalls : inviteCalls[c].op \notin {"dispatch", "sync", "write"}

\* Everybody has a row of the proof or a letter from then on.
EverybodyAfter ==
  invitations # <<>> =>
    /\ \A m \in Addressees : proof[m] # "none"
    /\ \A m \in ByPost : letters[m] # "none"

\* One call hands the mails over, once.
OneDispatch ==
  \A c \in InviteCalls : inviteCalls[c].op = "dispatch" =>
    /\ \A o \in Owners : invitationMail[o] = "none"
    /\ \A d \in InviteCalls : inviteCalls[d].op = "dispatch" => d = c

\* What a call found of a mail is what became of it.
FoundIsFinal ==
  \A c \in InviteCalls : inviteCalls[c].op = "write" =>
    \A m \in inviteCalls[c].open :
      /\ inviteCalls[c].found[m] = invitationMail[OwnerOf(m)]
      /\ inviteCalls[c].found[m] \in {"sent", "failed"}

ProofInv ==
  /\ inviteCalls \in [InviteCalls -> InviteRecord]
  /\ proof \in [Addressees -> MailStatuses]
  /\ letters \in [Invitees -> {"none", "queued", "manual_posted"}]
  /\ invitationMail \in [Owners -> MailStatuses]
  /\ letDown \in BOOLEAN
  /\ NothingBefore /\ EverybodyAfter /\ OneDispatch /\ FoundIsFinal
  /\ ProofIsTrue /\ UnreachedGetLetters

InvitationInv == AgendaInv /\ ProofInv

\* The fields of a call by what it does.
LEMMA InviteRecordFields ==
  ASSUME NEW call \in InviteRecord
  PROVE  /\ call.op \in {"none", "dispatch", "move", "invite", "sync", "write"}
         /\ call.op = "move" => call.excused \in BOOLEAN
         /\ call.op = "invite" => call.short \in BOOLEAN
         /\ call.op \in {"sync", "write"} => call.open \subseteq Addressees
         /\ call.op = "write" =>
              /\ call.needsPost \subseteq Addressees
              /\ call \in [op: {"write"}, open: SUBSET Addressees, found: Findings, needsPost: SUBSET Addressees]
  BY DEF InviteRecord

LEMMA InviteRecordIs ==
  /\ NoInviteCall \in InviteRecord /\ NoInviteCall.op = "none"
  /\ [op |-> "dispatch"] \in InviteRecord
  /\ \A b \in BOOLEAN : [op |-> "move", excused |-> b] \in InviteRecord /\ [op |-> "invite", short |-> b] \in InviteRecord
  /\ \A S \in SUBSET Addressees : [op |-> "sync", open |-> S] \in InviteRecord
  /\ \A S, T \in SUBSET Addressees, f \in Findings :
       [op |-> "write", open |-> S, found |-> f, needsPost |-> T] \in InviteRecord
  BY DEF InviteRecord, NoInviteCall

LEMMA InviteesAre == Addressees \subseteq Invitees /\ Owners \subseteq Addressees /\ ByPost \subseteq Invitees
  BY DEF Addressees, Owners, ByPost

\* Once a call has taken its next step, the others are as they were.
LEMMA InviteCallIs ==
  ASSUME inviteCalls \in [InviteCalls -> InviteRecord], NEW c \in InviteCalls, NEW call \in InviteRecord,
         InviteCall(c, call)
  PROVE  /\ inviteCalls' \in [InviteCalls -> InviteRecord] /\ inviteCalls'[c] = call
         /\ \A d \in InviteCalls : d # c => inviteCalls'[d] = inviteCalls[d]
  BY DEF InviteCall

LEMMA InvitationNumbers == MaxInvitations \in Nat \ {0} /\ MaxRewordings \in Nat
  BY InvitationAssumption

\* The agenda, where no version is sent.
LEMMA AgendaKept ==
  ASSUME AgendaInv, invitations' = invitations, agenda' \in [Items -> AgendaRow],
         \A i \in Items : /\ agenda'[i].by = agenda[i].by
                          /\ \/ agenda'[i].wording = agenda[i].wording
                             \/ agenda[i].by = 0 \/ agenda[i].wording = Unwritten,
         rewordings' \in 0..MaxRewordings, dateShort' \in BOOLEAN, dateExcused' \in BOOLEAN
  PROVE  AgendaInv'
  <1>1. \A i \in Items : agenda'[i].by \in 0..Len(invitations')
    BY DEF AgendaInv
  <1>2. ASSUME NEW v \in DOMAIN invitations, NEW i \in Items, invitations[v].agenda[i] # Unwritten
        PROVE  agenda'[i].wording = invitations[v].agenda[i] /\ agenda'[i].by \in 1..v
    <2>1. agenda[i].wording = invitations[v].agenda[i] /\ agenda[i].by \in 1..v
      BY <1>2 DEF AgendaInv, AnnouncedStands
    <2>2. agenda[i].by # 0 /\ agenda[i].wording # Unwritten
      BY <1>2, <2>1 DEF AgendaInv
    <2>3. QED
      BY <2>1, <2>2
  <1>3. \A v \in DOMAIN invitations : v > 1 => \E i \in Items : agenda'[i].by = v
    BY DEF AgendaInv, AnnouncedStands
  <1>4. AnnouncedStands'
    BY <1>2, <1>3 DEF AnnouncedStands
  <1>5. QED
    BY <1>1, <1>4 DEF AgendaInv

LEMMA AgendaAtRest ==
  ASSUME AgendaInv, invitations' = invitations, AgendaRests, dateShort' \in BOOLEAN, dateExcused' \in BOOLEAN
  PROVE  AgendaInv'
  <1>1. agenda' = agenda /\ rewordings' = rewordings
    BY DEF AgendaRests
  <1>2. agenda' \in [Items -> AgendaRow] /\ rewordings' \in 0..MaxRewordings
    BY <1>1 DEF AgendaInv
  <1>3. \A i \in Items : agenda'[i].by = agenda[i].by /\ agenda'[i].wording = agenda[i].wording
    BY <1>1
  <1>4. QED
    BY <1>2, <1>3, AgendaKept

LEMMA AgendaStepsKeep ==
  ASSUME AgendaInv, NEW i \in Items,
         DeletesItem(i) \/ \E w \in Wordings : WritesItem(i, w)
  PROVE  AgendaInv'
  <1>1. agenda \in [Items -> AgendaRow] /\ agenda[i] \in AgendaRow /\ rewordings \in 0..MaxRewordings
    BY DEF AgendaInv
  <1>2. /\ \E x \in Wordings \cup {Unwritten} : agenda' = [agenda EXCEPT ![i].wording = x]
        /\ agenda[i].by = 0 \/ agenda[i].wording = Unwritten
        /\ invitations' = invitations /\ dateShort' = dateShort /\ dateExcused' = dateExcused
        /\ rewordings' = rewordings \/ (rewordings < MaxRewordings /\ rewordings' = rewordings + 1)
    <2>1. CASE DeletesItem(i)
      BY <2>1 DEF DeletesItem, DateRests, NotYetAnnounced, NotAnnounced
    <2>2. CASE \E w \in Wordings : WritesItem(i, w)
      BY <2>2 DEF WritesItem, DateRests, NotYetAnnounced, NotAnnounced, WrittenItem
    <2>3. QED
      BY <2>1, <2>2
  <1>3. PICK x \in Wordings \cup {Unwritten} : agenda' = [agenda EXCEPT ![i].wording = x]
    BY <1>2
  <1>4. PICK row : row = [agenda[i] EXCEPT !.wording = x]
    OBVIOUS
  <1>5. row \in AgendaRow /\ row.by = agenda[i].by
    BY <1>1, <1>4 DEF AgendaRow
  <1>6. agenda' = [agenda EXCEPT ![i] = row]
    BY <1>3, <1>4
  <1>7. /\ agenda' \in [Items -> AgendaRow] /\ agenda'[i] = row
        /\ \A j \in Items : j # i => agenda'[j] = agenda[j]
    BY <1>1, <1>5, <1>6
  <1>8. \A j \in Items : /\ agenda'[j].by = agenda[j].by
                         /\ \/ agenda'[j].wording = agenda[j].wording
                            \/ agenda[j].by = 0 \/ agenda[j].wording = Unwritten
    BY <1>2, <1>5, <1>7
  <1>9. rewordings' \in 0..MaxRewordings
    BY <1>1, <1>2, InvitationNumbers
  <1>10. dateShort' \in BOOLEAN /\ dateExcused' \in BOOLEAN
    BY <1>2 DEF AgendaInv
  <1>11. QED
    BY <1>2, <1>7, <1>8, <1>9, <1>10, AgendaKept

\* A version announces what is new, and nothing else changes.
LEMMA InvitesKeepsAgenda ==
  ASSUME AgendaInv, inviteCalls \in [InviteCalls -> InviteRecord], NEW c \in InviteCalls, Invites(c)
  PROVE  AgendaInv' /\ Len(invitations') = Len(invitations) + 1 /\ invitations' # <<>>
  <1>1. PICK v : v = Len(invitations) + 1
    OBVIOUS
  <1>2. PICK new : new = [agenda |-> [i \in Items |-> agenda[i].wording], short |-> inviteCalls[c].short]
    OBVIOUS
  <1>3. /\ inviteCalls[c].op = "invite" /\ v <= MaxInvitations /\ (v > 1 => Fresh # {})
        /\ invitations' = Append(invitations, new)
        /\ agenda' = [i \in Items |-> IF i \in Fresh THEN [agenda[i] EXCEPT !.by = v] ELSE agenda[i]]
        /\ dateShort' = dateShort /\ dateExcused' = dateExcused /\ rewordings' = rewordings
    BY <1>1, <1>2 DEF Invites, DateRests
  <1>4. /\ invitations \in Seq(Version) /\ Len(invitations) \in 0..MaxInvitations
        /\ agenda \in [Items -> AgendaRow] /\ \A i \in Items : agenda[i].by \in 0..Len(invitations)
        /\ rewordings \in 0..MaxRewordings
    BY DEF AgendaInv
  <1>5. Len(invitations) \in Nat /\ v \in Nat \ {0} /\ v \in 0..MaxInvitations
    BY <1>1, <1>3, <1>4, InvitationNumbers
  <1>6. new \in Version
    <2>1. inviteCalls[c].short \in BOOLEAN
      BY <1>3, InviteRecordFields
    <2>2. \A i \in Items : agenda[i].wording \in Wordings \cup {Unwritten}
      BY <1>4 DEF AgendaRow
    <2>3. [i \in Items |-> agenda[i].wording] \in [Items -> Wordings \cup {Unwritten}]
      BY <2>2
    <2>4. QED
      BY <1>2, <2>1, <2>3 DEF Version
  <1>7. /\ invitations' \in Seq(Version) /\ Len(invitations') = v
        /\ DOMAIN invitations' = 1..v /\ DOMAIN invitations = 1..(v - 1)
        /\ invitations'[v] = new /\ \A u \in 1..(v - 1) : invitations'[u] = invitations[u]
    BY <1>1, <1>3, <1>4, <1>5, <1>6
  <1>8. ASSUME NEW i \in Items
        PROVE  /\ agenda'[i] \in AgendaRow /\ agenda'[i].wording = agenda[i].wording
               /\ i \in Fresh => agenda'[i].by = v /\ agenda[i].by = 0
               /\ i \notin Fresh => agenda'[i].by = agenda[i].by
    <2>1. CASE i \in Fresh
      <3>1. PICK row : row = [agenda[i] EXCEPT !.by = v]
        OBVIOUS
      <3>2. agenda'[i] = row
        BY <1>3, <2>1, <3>1
      <3>3. agenda[i] \in AgendaRow
        BY <1>4
      <3>4. row \in AgendaRow /\ row.wording = agenda[i].wording /\ row.by = v
        BY <1>5, <3>1, <3>3 DEF AgendaRow
      <3>5. agenda[i].by = 0
        BY <2>1 DEF Fresh, NotYetAnnounced, NotAnnounced
      <3>6. QED
        BY <2>1, <3>2, <3>4, <3>5
    <2>2. CASE i \notin Fresh
      BY <1>3, <1>4, <2>2
    <2>3. QED
      BY <2>1, <2>2
  <1>9. agenda' \in [Items -> AgendaRow]
    BY <1>3, <1>8
  <1>10. \A i \in Items : agenda'[i].by \in 0..Len(invitations')
    <2>1. SUFFICES ASSUME NEW i \in Items
                   PROVE  agenda'[i].by \in 0..v
      BY <1>7
    <2>2. agenda[i].by \in 0..(v - 1)
      BY <1>1, <1>4, <1>5
    <2>3. agenda'[i].by = v \/ agenda'[i].by = agenda[i].by
      BY <1>8
    <2>4. QED
      BY <1>5, <2>2, <2>3
  <1>11. ASSUME NEW u \in 1..v, NEW i \in Items, invitations'[u].agenda[i] # Unwritten
         PROVE  agenda'[i].wording = invitations'[u].agenda[i] /\ agenda'[i].by \in 1..u
    <2>1. CASE u = v
      <3>1. new.agenda[i] = agenda[i].wording
        BY <1>2
      <3>2. agenda'[i].wording = invitations'[u].agenda[i] /\ agenda[i].wording # Unwritten
        BY <1>7, <1>8, <1>11, <2>1, <3>1
      <3>3. agenda[i].by # 0 => agenda[i].by \in 1..v
        BY <1>1, <1>4, <1>5
      <3>4. agenda[i].by = 0 => i \in Fresh
        BY <3>2 DEF Fresh, NotYetAnnounced, WrittenItem, NotAnnounced
      <3>5. i \in Fresh => agenda'[i].by \in 1..v
        BY <1>5, <1>8
      <3>6. QED
        BY <1>8, <2>1, <3>2, <3>3, <3>4, <3>5
    <2>2. CASE u # v
      <3>1. u \in DOMAIN invitations /\ invitations'[u] = invitations[u]
        BY <1>5, <1>7, <2>2
      <3>2. agenda[i].wording = invitations[u].agenda[i] /\ agenda[i].by \in 1..u
        BY <1>11, <3>1 DEF AgendaInv, AnnouncedStands
      <3>3. agenda[i].by # 0
        BY <1>5, <3>2
      <3>4. i \notin Fresh
        BY <3>3 DEF Fresh, NotYetAnnounced, NotAnnounced
      <3>5. QED
        BY <1>8, <3>1, <3>2, <3>4
    <2>3. QED
      BY <2>1, <2>2
  <1>12. ASSUME NEW u \in 1..v, u > 1
         PROVE  \E i \in Items : agenda'[i].by = u
    <2>1. CASE u = v
      <3>1. PICK i \in Fresh : TRUE
        BY <1>3, <1>12, <2>1
      <3>2. i \in Items
        BY DEF Fresh
      <3>3. QED
        BY <1>8, <2>1, <3>1, <3>2
    <2>2. CASE u # v
      <3>1. u \in DOMAIN invitations
        BY <1>5, <1>7, <2>2
      <3>2. PICK i \in Items : agenda[i].by = u
        BY <1>12, <3>1 DEF AgendaInv, AnnouncedStands
      <3>3. i \notin Fresh
        BY <1>5, <1>12, <3>2 DEF Fresh, NotYetAnnounced, NotAnnounced
      <3>4. QED
        BY <1>8, <3>2, <3>3
    <2>3. QED
      BY <2>1, <2>2
  <1>13. AnnouncedStands'
    BY <1>7, <1>11, <1>12 DEF AnnouncedStands
  <1>14. AgendaInv'
    <2>1. dateShort' \in BOOLEAN /\ dateExcused' \in BOOLEAN /\ rewordings' \in 0..MaxRewordings
      BY <1>3 DEF AgendaInv
    <2>2. QED
      BY <1>5, <1>7, <1>9, <1>10, <1>13, <2>1 DEF AgendaInv
  <1>15. invitations' # <<>>
    BY <1>5, <1>7
  <1>16. QED
    BY <1>1, <1>7, <1>14, <1>15

LEMMA ProofMeans ==
  ASSUME ProofInv
  PROVE  /\ inviteCalls \in [InviteCalls -> InviteRecord] /\ \A c \in InviteCalls : inviteCalls[c] \in InviteRecord
         /\ \A m \in Addressees : proof[m] \in MailStatuses /\ OwnerOf(m) \in Owners
         /\ \A o \in Owners : invitationMail[o] \in MailStatuses
         /\ \A m \in Addressees : proof[m] = "sent" => invitationMail[OwnerOf(m)] = "sent"
  BY OwnerExists DEF ProofInv, ProofIsTrue

\* What of the sending is to be shown to keep what it promises.
LEMMA UnreachedStay ==
  ASSUME UnreachedGetLetters,
         \A m \in Addressees : proof'[m] = "failed" /\ ~letDown' =>
           \/ proof[m] = "failed" /\ ~letDown
           \/ \E c \in InviteCalls : inviteCalls'[c].op = "write" /\ m \in inviteCalls'[c].needsPost,
         \A m \in Addressees : letters[m] # "none" => letters'[m] # "none",
         \A c \in InviteCalls : inviteCalls[c].op = "write" /\ ~letDown' =>
           \A m \in Addressees : m \in inviteCalls[c].needsPost =>
             \/ letters'[m] # "none"
             \/ inviteCalls'[c].op = "write" /\ m \in inviteCalls'[c].needsPost
  PROVE  UnreachedGetLetters'
  <1>1. SUFFICES ASSUME NEW m \in Addressees, proof'[m] = "failed", ~letDown'
                 PROVE  \/ letters'[m] # "none"
                        \/ \E c \in InviteCalls : inviteCalls'[c].op = "write" /\ m \in inviteCalls'[c].needsPost
    BY DEF UnreachedGetLetters
  <1>2. CASE proof[m] = "failed" /\ ~letDown
    <2>1. \/ letters[m] # "none"
          \/ \E c \in InviteCalls : inviteCalls[c].op = "write" /\ m \in inviteCalls[c].needsPost
      BY <1>2 DEF UnreachedGetLetters
    <2>2. QED
      BY <1>1, <2>1
  <1>3. QED
    BY <1>1, <1>2

\* A call takes a step that touches neither mails nor proof.
LEMMA CallMoves ==
  ASSUME ProofInv, NEW c \in InviteCalls, NEW call \in InviteRecord, InviteCall(c, call),
         call.op # "dispatch", call.op \in {"sync", "write"} => invitations # <<>>,
         call.op = "write" => \A m \in call.open : /\ call.found[m] = invitationMail[OwnerOf(m)]
                                                   /\ call.found[m] \in {"sent", "failed"},
         invitations' = invitations, proof' = proof, invitationMail' = invitationMail,
         letters' \in [Invitees -> {"none", "queued", "manual_posted"}],
         \A m \in Invitees : letters[m] # "none" => letters'[m] # "none",
         invitations = <<>> => letters' = letters,
         letDown' \in BOOLEAN, letDown => letDown',
         inviteCalls[c].op = "write" /\ ~letDown' =>
           \A m \in Addressees : m \in inviteCalls[c].needsPost =>
             letters'[m] # "none" \/ (call.op = "write" /\ m \in call.needsPost)
  PROVE  ProofInv'
  <1>1. /\ inviteCalls' \in [InviteCalls -> InviteRecord] /\ inviteCalls'[c] = call
        /\ \A d \in InviteCalls : d # c => inviteCalls'[d] = inviteCalls[d]
    BY InviteCallIs, ProofMeans
  <1>2. NothingBefore'
    BY <1>1 DEF ProofInv, NothingBefore
  <1>3. EverybodyAfter'
    BY InviteesAre DEF ProofInv, EverybodyAfter
  <1>4. OneDispatch'
    BY <1>1 DEF ProofInv, OneDispatch
  <1>5. FoundIsFinal'
    BY <1>1 DEF ProofInv, FoundIsFinal
  <1>6. ProofIsTrue'
    BY DEF ProofInv, ProofIsTrue
  <1>7. UnreachedGetLetters'
    <2>1. UnreachedGetLetters
      BY DEF ProofInv
    <2>2. \A m \in Addressees : proof'[m] = "failed" /\ ~letDown' => proof[m] = "failed" /\ ~letDown
      OBVIOUS
    <2>3. \A m \in Addressees : letters[m] # "none" => letters'[m] # "none"
      BY InviteesAre
    <2>4. \A d \in InviteCalls : inviteCalls[d].op = "write" /\ ~letDown' =>
            \A m \in Addressees : m \in inviteCalls[d].needsPost =>
              \/ letters'[m] # "none"
              \/ inviteCalls'[d].op = "write" /\ m \in inviteCalls'[d].needsPost
      BY <1>1
    <2>5. QED
      BY <2>1, <2>2, <2>3, <2>4, UnreachedStay
  <1>8. proof' \in [Addressees -> MailStatuses] /\ invitationMail' \in [Owners -> MailStatuses]
    BY DEF ProofInv
  <1>9. QED
    BY <1>1, <1>2, <1>3, <1>4, <1>5, <1>6, <1>7, <1>8 DEF ProofInv

\* ...or the letters either.
LEMMA CallGoesOn ==
  ASSUME ProofInv, NEW c \in InviteCalls, NEW call \in InviteRecord, InviteCall(c, call),
         call.op \in {"none", "move", "invite", "sync"}, call.op = "sync" => invitations # <<>>,
         invitations' = invitations, ProofRests, inviteCalls[c].op # "write"
  PROVE  ProofInv'
  <1>1. /\ proof' = proof /\ letters' = letters /\ invitationMail' = invitationMail
        /\ letDown' = letDown
    BY DEF ProofRests
  <1>2. letters' \in [Invitees -> {"none", "queued", "manual_posted"}] /\ letDown' \in BOOLEAN
    BY <1>1 DEF ProofInv
  <1>3. QED
    BY <1>1, <1>2, CallMoves

\* Steps that leave the sending alone.
LEMMA ProofKept ==
  ASSUME ProofInv, ProofRests, UNCHANGED <<invitations, inviteCalls>>
  PROVE  ProofInv'
  BY DEF ProofInv, ProofRests, NothingBefore, EverybodyAfter, OneDispatch, FoundIsFinal,
         ProofIsTrue, UnreachedGetLetters

LEMMA ReadingKeeps ==
  ASSUME ProofInv, NEW c \in InviteCalls, dateShort \in BOOLEAN,
         \/ \E excused \in BOOLEAN : ReadsToMove(c, excused)
         \/ MovesMeeting(c) \/ ReadsToInvite(c) \/ InviteRefused(c) \/ ReadsProof(c)
  PROVE  ProofInv'
  <1>1. inviteCalls[c] \in InviteRecord
    BY ProofMeans
  <1>2. CASE \E excused \in BOOLEAN : ReadsToMove(c, excused)
    <2>1. PICK excused \in BOOLEAN : ReadsToMove(c, excused)
      BY <1>2
    <2>2. PICK call : call = [op |-> "move", excused |-> excused]
      OBVIOUS
    <2>3. /\ InviteCall(c, call) /\ inviteCalls[c] = NoInviteCall
          /\ invitations' = invitations /\ ProofRests
      BY <2>1, <2>2 DEF ReadsToMove
    <2>4. call \in InviteRecord /\ call.op = "move"
      BY <2>2, InviteRecordIs
    <2>5. QED
      BY <2>3, <2>4, InviteRecordIs, CallGoesOn
  <1>3. CASE MovesMeeting(c) \/ InviteRefused(c)
    <2>1. /\ InviteCall(c, NoInviteCall) /\ inviteCalls[c].op # "write"
          /\ invitations' = invitations /\ ProofRests
      BY <1>3 DEF MovesMeeting, InviteRefused
    <2>2. QED
      BY <2>1, InviteRecordIs, CallGoesOn
  <1>4. CASE ReadsToInvite(c)
    <2>1. PICK call : call = [op |-> "invite", short |-> dateShort]
      OBVIOUS
    <2>2. /\ InviteCall(c, call) /\ inviteCalls[c] = NoInviteCall
          /\ invitations' = invitations /\ ProofRests
      BY <1>4, <2>1 DEF ReadsToInvite
    <2>3. call \in InviteRecord /\ call.op = "invite"
      BY <2>1, InviteRecordIs
    <2>4. QED
      BY <2>2, <2>3, InviteRecordIs, CallGoesOn
  <1>5. CASE ReadsProof(c)
    <2>1. PICK open : open = {m \in Addressees : proof[m] = "queued"}
      OBVIOUS
    <2>2. PICK call : call = [op |-> "sync", open |-> open]
      OBVIOUS
    <2>3. /\ InviteCall(c, call) /\ inviteCalls[c] = NoInviteCall /\ open # {}
          /\ invitations' = invitations /\ ProofRests
      BY <1>5, <2>1, <2>2 DEF ReadsProof
    <2>4. call \in InviteRecord /\ call.op = "sync"
      <3>1. open \in SUBSET Addressees
        BY <2>1
      <3>2. QED
        BY <2>2, <3>1, InviteRecordIs
    <2>5. invitations # <<>>
      BY <2>1, <2>3 DEF ProofInv, NothingBefore
    <2>6. QED
      BY <2>3, <2>4, <2>5, InviteRecordIs, CallGoesOn
  <1>6. QED
    BY <1>2, <1>3, <1>4, <1>5

LEMMA ReadsMailsKeeps ==
  ASSUME ProofInv, NEW c \in InviteCalls, ReadsMails(c)
  PROVE  ProofInv'
  <1>1. PICK open : open = inviteCalls[c].open
    OBVIOUS
  <1>2. PICK found : found = [m \in open |-> invitationMail[OwnerOf(m)]]
    OBVIOUS
  <1>3. PICK settled : settled = {m \in open : found[m] \in {"sent", "failed"}}
    OBVIOUS
  <1>4. /\ inviteCalls[c].op = "sync" /\ invitations' = invitations /\ ProofRests
        /\ InviteCall(c, IF settled = {} THEN NoInviteCall
                         ELSE [op |-> "write", open |-> settled, found |-> found, needsPost |-> {}])
    BY <1>1, <1>2, <1>3 DEF ReadsMails
  <1>5. open \subseteq Addressees
    BY <1>1, <1>4, ProofMeans, InviteRecordFields
  <1>6. invitations # <<>>
    BY <1>4 DEF ProofInv, NothingBefore
  <1>7. CASE settled = {}
    BY <1>4, <1>7, InviteRecordIs, CallGoesOn
  <1>8. CASE settled # {}
    <2>1. PICK call : call = [op |-> "write", open |-> settled, found |-> found, needsPost |-> {}]
      OBVIOUS
    <2>2. InviteCall(c, call)
      BY <1>4, <1>8, <2>1
    <2>3. found \in Findings
      <3>1. \A m \in open : invitationMail[OwnerOf(m)] \in MailStatuses
        BY <1>5, ProofMeans
      <3>2. found \in [open -> MailStatuses]
        BY <1>2, <3>1
      <3>3. QED
        BY <1>5, <3>2 DEF Findings
    <2>4. call \in InviteRecord /\ call.op = "write" /\ call.open = settled /\ call.found = found
      <3>1. settled \in SUBSET Addressees /\ {} \in SUBSET Addressees
        BY <1>3, <1>5
      <3>2. call \in InviteRecord
        BY <2>1, <2>3, <3>1, InviteRecordIs
      <3>3. QED
        BY <2>1, <3>2
    <2>5. \A m \in call.open : /\ call.found[m] = invitationMail[OwnerOf(m)]
                               /\ call.found[m] \in {"sent", "failed"}
      BY <1>2, <1>3, <2>4
    <2>6. /\ proof' = proof /\ letters' = letters /\ invitationMail' = invitationMail /\ letDown' = letDown
      BY <1>4 DEF ProofRests
    <2>7. letters' \in [Invitees -> {"none", "queued", "manual_posted"}] /\ letDown' \in BOOLEAN
      BY <2>6 DEF ProofInv
    <2>8. QED
      BY <1>4, <1>6, <2>2, <2>4, <2>5, <2>6, <2>7, CallMoves
  <1>9. QED
    BY <1>7, <1>8

LEMMA FillsPostListKeeps ==
  ASSUME ProofInv, NEW c \in InviteCalls, FillsPostList(c)
  PROVE  ProofInv'
  <1>1. /\ inviteCalls[c].op = "write" /\ InviteCall(c, NoInviteCall) /\ invitations' = invitations
        /\ letters' = [m \in Invitees |-> IF m \in inviteCalls[c].needsPost /\ letters[m] = "none"
                                           THEN "queued" ELSE letters[m]]
        /\ proof' = proof /\ invitationMail' = invitationMail /\ letDown' = letDown
    BY DEF FillsPostList
  <1>2. letters \in [Invitees -> {"none", "queued", "manual_posted"}] /\ letDown' \in BOOLEAN
    BY <1>1 DEF ProofInv
  <1>3. invitations # <<>>
    BY <1>1 DEF ProofInv, NothingBefore
  <1>4. letters' \in [Invitees -> {"none", "queued", "manual_posted"}]
    BY <1>1, <1>2
  <1>5. \A m \in Invitees : letters[m] # "none" => letters'[m] # "none"
    BY <1>1
  <1>6. \A m \in Addressees : m \in inviteCalls[c].needsPost => letters'[m] # "none"
    BY <1>1, InviteesAre
  <1>7. QED
    BY <1>1, <1>2, <1>3, <1>4, <1>5, <1>6, InviteRecordIs, CallMoves

LEMMA InviteCallDiesKeeps ==
  ASSUME ProofInv, NEW c \in InviteCalls, InviteCallDies(c)
  PROVE  ProofInv'
  <1>1. /\ InviteCall(c, NoInviteCall) /\ invitations' = invitations
        /\ letDown' = (letDown \/ inviteCalls[c].op \in {"dispatch", "write"})
        /\ proof' = proof /\ letters' = letters /\ invitationMail' = invitationMail
    BY DEF InviteCallDies
  <1>2. letters' \in [Invitees -> {"none", "queued", "manual_posted"}]
    BY <1>1 DEF ProofInv
  <1>3. /\ letDown' \in BOOLEAN /\ (letDown => letDown')
        /\ inviteCalls[c].op = "write" => letDown'
    <2>1. letDown \in BOOLEAN
      BY DEF ProofInv
    <2>2. PICK b \in BOOLEAN : b = (letDown \/ inviteCalls[c].op \in {"dispatch", "write"})
      OBVIOUS
    <2>3. QED
      BY <1>1, <2>1, <2>2
  <1>4. QED
    BY <1>1, <1>2, <1>3, InviteRecordIs, CallMoves

\* Handing over: no mail is settled yet, so none was found settled.
LEMMA DispatchMeans ==
  ASSUME ProofInv, NEW c \in InviteCalls, inviteCalls[c].op = "dispatch"
  PROVE  /\ invitations # <<>> /\ \A o \in Owners : invitationMail[o] = "none"
         /\ \A d \in InviteCalls : d # c => inviteCalls[d].op # "dispatch"
         /\ \A d \in InviteCalls : inviteCalls[d].op = "write" => inviteCalls[d].open = {}
         /\ \A m \in Addressees : proof[m] # "sent"
  <1>1. \A o \in Owners : invitationMail[o] = "none"
    BY DEF ProofInv, OneDispatch
  <1>2. \A m \in Addressees : invitationMail[OwnerOf(m)] = "none"
    BY <1>1, OwnerExists
  <1>3. ASSUME NEW d \in InviteCalls, inviteCalls[d].op = "write"
        PROVE  inviteCalls[d].open = {}
    <2>1. inviteCalls[d].open \subseteq Addressees
      BY <1>3, ProofMeans, InviteRecordFields
    <2>2. \A m \in inviteCalls[d].open : invitationMail[OwnerOf(m)] \in {"sent", "failed"}
      BY <1>3 DEF ProofInv, FoundIsFinal
    <2>3. QED
      BY <1>2, <2>1, <2>2
  <1>4. \A m \in Addressees : proof[m] # "sent"
    BY <1>2, ProofMeans
  <1>5. invitations # <<>> /\ \A d \in InviteCalls : d # c => inviteCalls[d].op # "dispatch"
    BY DEF ProofInv, NothingBefore, OneDispatch
  <1>6. QED
    BY <1>1, <1>3, <1>4, <1>5

LEMMA HandsOverKeeps ==
  ASSUME ProofInv, NEW c \in InviteCalls, HandsOver(c) \/ HandingOverFails(c)
  PROVE  ProofInv'
  <1>1. inviteCalls[c].op = "dispatch" /\ InviteCall(c, NoInviteCall) /\ invitations' = invitations
        /\ letters' = letters
    BY DEF HandsOver, HandingOverFails
  <1>2. \/ /\ invitationMail' = [m \in Owners |-> "queued"] /\ proof' = proof /\ letDown' = letDown
        \/ /\ invitationMail' = invitationMail /\ proof' = [m \in Addressees |-> "failed"] /\ letDown' = TRUE
    BY DEF HandsOver, HandingOverFails, Everybody, EveryOwner
  <1>3. /\ invitations # <<>> /\ \A o \in Owners : invitationMail[o] = "none"
        /\ \A d \in InviteCalls : d # c => inviteCalls[d].op # "dispatch"
        /\ \A d \in InviteCalls : inviteCalls[d].op = "write" => inviteCalls[d].open = {}
        /\ \A m \in Addressees : proof[m] # "sent"
    BY <1>1, DispatchMeans
  <1>4. /\ inviteCalls' \in [InviteCalls -> InviteRecord] /\ inviteCalls'[c] = NoInviteCall
        /\ \A d \in InviteCalls : d # c => inviteCalls'[d] = inviteCalls[d]
    BY <1>1, InviteCallIs, InviteRecordIs, ProofMeans
  <1>5. /\ proof' \in [Addressees -> MailStatuses] /\ invitationMail' \in [Owners -> MailStatuses]
        /\ letters' \in [Invitees -> {"none", "queued", "manual_posted"}] /\ letDown' \in BOOLEAN
    BY <1>1, <1>2 DEF ProofInv, MailStatuses
  <1>6. NothingBefore'
    BY <1>1, <1>3 DEF NothingBefore
  <1>7. EverybodyAfter'
    BY <1>1, <1>2, <1>3 DEF ProofInv, EverybodyAfter
  <1>8. OneDispatch'
    BY <1>3, <1>4, InviteRecordIs DEF OneDispatch
  <1>9. FoundIsFinal'
    <2>1. \A d \in InviteCalls : inviteCalls'[d].op = "write" => inviteCalls'[d].open = {}
      BY <1>3, <1>4, InviteRecordIs
    <2>2. QED
      BY <2>1 DEF FoundIsFinal
  <1>10. ProofIsTrue'
    BY <1>2, <1>3 DEF ProofIsTrue
  <1>11. UnreachedGetLetters'
    <2>1. UnreachedGetLetters
      BY DEF ProofInv
    <2>2. \A m \in Addressees : proof'[m] = "failed" /\ ~letDown' => proof[m] = "failed" /\ ~letDown
      BY <1>2
    <2>3. \A d \in InviteCalls : inviteCalls[d].op = "write" => inviteCalls'[d] = inviteCalls[d]
      BY <1>1, <1>4
    <2>4. \A d \in InviteCalls : inviteCalls[d].op = "write" /\ ~letDown' =>
            \A m \in Addressees : m \in inviteCalls[d].needsPost =>
              \/ letters'[m] # "none"
              \/ inviteCalls'[d].op = "write" /\ m \in inviteCalls'[d].needsPost
      BY <2>3
    <2>5. QED
      BY <1>1, <2>1, <2>2, <2>4, UnreachedStay
  <1>12. QED
    BY <1>4, <1>5, <1>6, <1>7, <1>8, <1>9, <1>10, <1>11 DEF ProofInv

LEMMA MailSettlesKeeps ==
  ASSUME ProofInv, NEW o \in Owners, NEW status \in {"sent", "failed"}, MailSettlesAs(o, status)
  PROVE  ProofInv'
  <1>1. /\ invitationMail[o] = "queued" /\ invitationMail' = [invitationMail EXCEPT ![o] = status]
        /\ invitations' = invitations /\ proof' = proof /\ letters' = letters /\ letDown' = letDown
        /\ inviteCalls' = inviteCalls
    BY DEF MailSettlesAs
  <1>2. invitationMail \in [Owners -> MailStatuses]
    BY DEF ProofInv
  <1>3. /\ invitationMail' \in [Owners -> MailStatuses] /\ invitationMail'[o] = status
        /\ \A p \in Owners : p # o => invitationMail'[p] = invitationMail[p]
    BY <1>1, <1>2 DEF MailStatuses
  <1>4. invitations # <<>>
    BY <1>1 DEF ProofInv, NothingBefore
  <1>5. \A c \in InviteCalls : inviteCalls[c].op # "dispatch"
    BY <1>1 DEF ProofInv, OneDispatch
  <1>6. \A p \in Owners : invitationMail[p] \in {"sent", "failed"} => invitationMail'[p] = invitationMail[p]
    BY <1>1, <1>3
  <1>7. NothingBefore' /\ EverybodyAfter' /\ OneDispatch'
    BY <1>1, <1>4, <1>5 DEF ProofInv, NothingBefore, EverybodyAfter, OneDispatch
  <1>8. FoundIsFinal'
    <2>1. SUFFICES ASSUME NEW c \in InviteCalls, inviteCalls[c].op = "write", NEW m \in inviteCalls[c].open
                   PROVE  /\ inviteCalls[c].found[m] = invitationMail'[OwnerOf(m)]
                          /\ inviteCalls[c].found[m] \in {"sent", "failed"}
      BY <1>1 DEF FoundIsFinal
    <2>2. m \in Addressees
      BY <2>1, ProofMeans, InviteRecordFields
    <2>3. OwnerOf(m) \in Owners
      BY <2>2, OwnerExists
    <2>4. /\ inviteCalls[c].found[m] = invitationMail[OwnerOf(m)]
          /\ inviteCalls[c].found[m] \in {"sent", "failed"}
      BY <2>1 DEF ProofInv, FoundIsFinal
    <2>5. QED
      BY <1>6, <2>3, <2>4
  <1>9. ProofIsTrue'
    <2>1. \A m \in Addressees : proof[m] = "sent" => invitationMail'[OwnerOf(m)] = "sent"
      BY <1>6, ProofMeans
    <2>2. QED
      BY <1>1, <2>1 DEF ProofIsTrue
  <1>10. UnreachedGetLetters'
    BY <1>1 DEF ProofInv, UnreachedGetLetters
  <1>11. QED
    BY <1>1, <1>3, <1>7, <1>8, <1>9, <1>10 DEF ProofInv

LEMMA WritesProofKeeps ==
  ASSUME ProofInv, NEW c \in InviteCalls, NEW m \in Addressees, WritesProof(c, m)
  PROVE  ProofInv'
  <1>1. PICK call : call = inviteCalls[c]
    OBVIOUS
  <1>2. PICK next : next = [call EXCEPT !.open = @ \ {m}, !.needsPost = @ \cup Fallback(m, call.found[m])]
    OBVIOUS
  <1>3. /\ call.op = "write" /\ m \in call.open
        /\ proof' = [proof EXCEPT ![m] = call.found[m]] /\ InviteCall(c, next)
        /\ invitations' = invitations /\ letters' = letters /\ invitationMail' = invitationMail
        /\ letDown' = letDown
    BY <1>1, <1>2 DEF WritesProof
  <1>4. /\ call \in [op: {"write"}, open: SUBSET Addressees, found: Findings, needsPost: SUBSET Addressees]
        /\ call.open \subseteq Addressees /\ call.needsPost \subseteq Addressees
    BY <1>1, <1>3, ProofMeans, InviteRecordFields
  <1>5. Fallback(m, call.found[m]) \subseteq Addressees /\ (call.found[m] = "failed" => m \in Fallback(m, call.found[m]))
    BY DEF Fallback
  <1>6. /\ next \in [op: {"write"}, open: SUBSET Addressees, found: Findings, needsPost: SUBSET Addressees]
        /\ next.op = "write" /\ next.found = call.found /\ next.open = call.open \ {m}
        /\ next.needsPost = call.needsPost \cup Fallback(m, call.found[m])
    BY <1>2, <1>4, <1>5
  <1>7. next \in InviteRecord
    BY <1>6 DEF InviteRecord
  <1>8. /\ inviteCalls' \in [InviteCalls -> InviteRecord] /\ inviteCalls'[c] = next
        /\ \A d \in InviteCalls : d # c => inviteCalls'[d] = inviteCalls[d]
    BY <1>3, <1>7, InviteCallIs, ProofMeans
  <1>9. call.found[m] = invitationMail[OwnerOf(m)] /\ call.found[m] \in {"sent", "failed"}
    BY <1>1, <1>3 DEF ProofInv, FoundIsFinal
  <1>10. proof \in [Addressees -> MailStatuses]
    BY DEF ProofInv
  <1>11. /\ proof' \in [Addressees -> MailStatuses] /\ proof'[m] = call.found[m]
         /\ \A n \in Addressees : n # m => proof'[n] = proof[n]
    BY <1>3, <1>9, <1>10 DEF MailStatuses
  <1>12. invitations # <<>>
    BY <1>1, <1>3 DEF ProofInv, NothingBefore
  <1>13. NothingBefore' /\ EverybodyAfter'
    BY <1>3, <1>9, <1>11, <1>12 DEF ProofInv, NothingBefore, EverybodyAfter
  <1>14. OneDispatch'
    BY <1>3, <1>6, <1>8 DEF ProofInv, OneDispatch
  <1>15. FoundIsFinal'
    <2>1. \A n \in next.open : /\ next.found[n] = invitationMail[OwnerOf(n)]
                               /\ next.found[n] \in {"sent", "failed"}
      BY <1>1, <1>3, <1>6 DEF ProofInv, FoundIsFinal
    <2>2. \A d \in InviteCalls : d # c /\ inviteCalls[d].op = "write" =>
            \A n \in inviteCalls[d].open : /\ inviteCalls[d].found[n] = invitationMail[OwnerOf(n)]
                                           /\ inviteCalls[d].found[n] \in {"sent", "failed"}
      BY DEF ProofInv, FoundIsFinal
    <2>3. QED
      BY <1>3, <1>8, <2>1, <2>2 DEF FoundIsFinal
  <1>16. ProofIsTrue'
    BY <1>3, <1>9, <1>11, ProofMeans DEF ProofIsTrue
  <1>17. UnreachedGetLetters'
    <2>1. UnreachedGetLetters
      BY DEF ProofInv
    <2>2. \A n \in Addressees : proof'[n] = "failed" /\ ~letDown' =>
            \/ proof[n] = "failed" /\ ~letDown
            \/ \E d \in InviteCalls : inviteCalls'[d].op = "write" /\ n \in inviteCalls'[d].needsPost
      <3>1. call.found[m] = "failed" => inviteCalls'[c].op = "write" /\ m \in inviteCalls'[c].needsPost
        BY <1>5, <1>6, <1>8
      <3>2. QED
        BY <1>3, <1>11, <3>1
    <2>3. \A d \in InviteCalls : inviteCalls[d].op = "write" =>
            \A n \in Addressees : n \in inviteCalls[d].needsPost =>
              inviteCalls'[d].op = "write" /\ n \in inviteCalls'[d].needsPost
      BY <1>1, <1>6, <1>8
    <2>4. \A n \in Addressees : letters[n] # "none" => letters'[n] # "none"
      BY <1>3
    <2>5. \A d \in InviteCalls : inviteCalls[d].op = "write" /\ ~letDown' =>
            \A n \in Addressees : n \in inviteCalls[d].needsPost =>
              \/ letters'[n] # "none"
              \/ inviteCalls'[d].op = "write" /\ n \in inviteCalls'[d].needsPost
      BY <2>3
    <2>6. QED
      BY <2>1, <2>2, <2>4, <2>5, UnreachedStay
  <1>18. letters' \in [Invitees -> {"none", "queued", "manual_posted"}] /\ letDown' \in BOOLEAN
         /\ invitationMail' \in [Owners -> MailStatuses]
    BY <1>3 DEF ProofInv
  <1>19. QED
    BY <1>8, <1>11, <1>13, <1>14, <1>15, <1>16, <1>17, <1>18 DEF ProofInv


\* The letters' ways: to the post list, and from there to the post.
LEMMA MarksPostedKeeps ==
  ASSUME ProofInv, MarksPosted
  PROVE  ProofInv' /\ LettersStand
  <1>1. /\ invitations' = invitations /\ proof' = proof /\ invitationMail' = invitationMail
        /\ letDown' = letDown /\ inviteCalls' = inviteCalls /\ PostList # {}
        /\ letters' = [m \in Invitees |-> IF m \in PostList THEN "manual_posted" ELSE letters[m]]
    BY DEF MarksPosted
  <1>2. letters \in [Invitees -> {"none", "queued", "manual_posted"}]
    BY DEF ProofInv
  <1>3. letters' \in [Invitees -> {"none", "queued", "manual_posted"}]
    BY <1>1, <1>2
  <1>4. invitations # <<>>
    BY <1>1 DEF ProofInv, NothingBefore, PostList
  <1>5. \A m \in Invitees : letters[m] # "none" => letters'[m] # "none"
    BY <1>1
  <1>6. NothingBefore' /\ EverybodyAfter' /\ OneDispatch' /\ FoundIsFinal' /\ ProofIsTrue'
    BY <1>1, <1>4, <1>5, InviteesAre
       DEF ProofInv, NothingBefore, EverybodyAfter, OneDispatch, FoundIsFinal, ProofIsTrue
  <1>7. UnreachedGetLetters'
    BY <1>1, <1>5, InviteesAre DEF ProofInv, UnreachedGetLetters
  <1>8. LettersStand
    BY <1>1, <1>5 DEF LettersStand
  <1>9. QED
    BY <1>1, <1>3, <1>6, <1>7, <1>8 DEF ProofInv

\* The first version opens the proof, later ones leave it as it is.
LEMMA InvitesKeepsProof ==
  ASSUME AgendaInv, ProofInv, NEW c \in InviteCalls, Invites(c)
  PROVE  ProofInv' /\ LettersStand
  <1>1. invitations' # <<>>
    BY InvitesKeepsAgenda, ProofMeans
  <1>2. inviteCalls[c].op = "invite" /\ invitationMail' = invitationMail /\ letDown' = letDown
    BY DEF Invites
  <1>3. invitations \in Seq(Version)
    BY DEF AgendaInv
  <1>4. /\ letters \in [Invitees -> {"none", "queued", "manual_posted"}]
        /\ proof \in [Addressees -> MailStatuses]
        /\ invitationMail' \in [Owners -> MailStatuses] /\ letDown' \in BOOLEAN
    BY <1>2 DEF ProofInv
  <1>5. NothingBefore'
    BY <1>1 DEF NothingBefore
  <1>6. CASE Len(invitations) + 1 = Followed
    <2>1. invitations = <<>>
      BY <1>3, <1>6 DEF Followed
    <2>2. /\ \A m \in Addressees : proof[m] = "none"
          /\ \A m \in Invitees : letters[m] = "none"
          /\ \A o \in Owners : invitationMail[o] = "none"
          /\ \A d \in InviteCalls : inviteCalls[d].op \notin {"dispatch", "sync", "write"}
      BY <2>1 DEF ProofInv, NothingBefore
    <2>3. PICK call : call = [op |-> "dispatch"]
      OBVIOUS
    <2>4. /\ proof' = [m \in Addressees |-> "queued"] /\ InviteCall(c, call)
          /\ letters' = [m \in Invitees |-> IF m \in ByPost THEN "queued" ELSE "none"]
      BY <1>6, <2>3 DEF Invites, Everybody, Posted
    <2>5. call \in InviteRecord /\ call.op = "dispatch"
      BY <2>3, InviteRecordIs
    <2>6. /\ inviteCalls' \in [InviteCalls -> InviteRecord] /\ inviteCalls'[c] = call
          /\ \A d \in InviteCalls : d # c => inviteCalls'[d] = inviteCalls[d]
      BY <2>4, <2>5, InviteCallIs, ProofMeans
    <2>7. /\ proof' \in [Addressees -> MailStatuses]
          /\ letters' \in [Invitees -> {"none", "queued", "manual_posted"}]
      BY <2>4 DEF MailStatuses
    <2>8. EverybodyAfter'
      BY <2>4, InviteesAre DEF EverybodyAfter
    <2>9. OneDispatch'
      BY <1>2, <2>2, <2>6 DEF OneDispatch
    <2>10. \A d \in InviteCalls : inviteCalls'[d].op # "write"
      BY <2>2, <2>5, <2>6
    <2>11. FoundIsFinal' /\ ProofIsTrue' /\ UnreachedGetLetters'
      BY <2>4, <2>10 DEF FoundIsFinal, ProofIsTrue, UnreachedGetLetters
    <2>12. LettersStand
      BY <2>2 DEF LettersStand
    <2>13. QED
      BY <1>4, <1>5, <2>6, <2>7, <2>8, <2>9, <2>11, <2>12 DEF ProofInv
  <1>7. CASE Len(invitations) + 1 # Followed
    <2>1. proof' = proof /\ letters' = letters /\ InviteCall(c, NoInviteCall)
      BY <1>7 DEF Invites
    <2>2. invitations # <<>>
      BY <1>7 DEF Followed
    <2>3. /\ inviteCalls' \in [InviteCalls -> InviteRecord] /\ inviteCalls'[c] = NoInviteCall
          /\ \A d \in InviteCalls : d # c => inviteCalls'[d] = inviteCalls[d]
      BY <2>1, InviteRecordIs, InviteCallIs, ProofMeans
    <2>4. EverybodyAfter'
      BY <2>1, <2>2 DEF ProofInv, EverybodyAfter
    <2>5. OneDispatch' /\ FoundIsFinal'
      BY <1>2, <2>3, InviteRecordIs DEF ProofInv, OneDispatch, FoundIsFinal
    <2>6. ProofIsTrue'
      BY <1>2, <2>1 DEF ProofInv, ProofIsTrue
    <2>7. UnreachedGetLetters'
      <3>1. UnreachedGetLetters
        BY DEF ProofInv
      <3>2. \A d \in InviteCalls : inviteCalls[d].op = "write" =>
              inviteCalls'[d].op = "write" /\ inviteCalls'[d].needsPost = inviteCalls[d].needsPost
        BY <1>2, <2>3
      <3>3. QED
        BY <1>2, <2>1, <3>1, <3>2 DEF UnreachedGetLetters
    <2>8. LettersStand
      BY <2>1 DEF LettersStand
    <2>9. QED
      BY <1>4, <1>5, <2>1, <2>3, <2>4, <2>5, <2>6, <2>7, <2>8 DEF ProofInv
  <1>8. QED
    BY <1>6, <1>7

LEMMA InvitationStarts == InvitationInit => InvitationInv
  <1>1. SUFFICES ASSUME InvitationInit
                 PROVE  InvitationInv
    OBVIOUS
  <1>2. /\ agenda = [i \in Items |-> [wording |-> Unwritten, by |-> 0]]
        /\ rewordings = 0 /\ invitations = <<>> /\ dateShort = FALSE /\ dateExcused = FALSE
        /\ proof = [m \in Addressees |-> "none"] /\ letters = [m \in Invitees |-> "none"]
        /\ invitationMail = [m \in Owners |-> "none"]
        /\ inviteCalls = [c \in InviteCalls |-> NoInviteCall] /\ letDown = FALSE
    BY <1>1 DEF InvitationInit, Everybody, EveryOwner, Posted, NotAnnounced
  <1>3. AgendaInv
    <2>1. invitations \in Seq(Version) /\ Len(invitations) = 0 /\ DOMAIN invitations = {}
      BY <1>2
    <2>2. [wording |-> Unwritten, by |-> 0] \in AgendaRow
      BY InvitationNumbers DEF AgendaRow
    <2>3. agenda \in [Items -> AgendaRow] /\ \A i \in Items : agenda[i].by = 0
      BY <1>2, <2>2
    <2>4. AnnouncedStands
      BY <2>1 DEF AnnouncedStands
    <2>5. Len(invitations) \in 0..MaxInvitations /\ rewordings \in 0..MaxRewordings
      BY <1>2, <2>1, InvitationNumbers
    <2>6. \A i \in Items : agenda[i].by \in 0..Len(invitations)
      BY <2>1, <2>3
    <2>7. dateShort \in BOOLEAN /\ dateExcused \in BOOLEAN
      BY <1>2
    <2>8. QED
      BY <2>1, <2>3, <2>4, <2>5, <2>6, <2>7 DEF AgendaInv
  <1>4. ProofInv
    <2>1. inviteCalls \in [InviteCalls -> InviteRecord] /\ \A c \in InviteCalls : inviteCalls[c].op = "none"
      BY <1>2, InviteRecordIs
    <2>2. /\ proof \in [Addressees -> MailStatuses] /\ invitationMail \in [Owners -> MailStatuses]
          /\ letters \in [Invitees -> {"none", "queued", "manual_posted"}] /\ letDown \in BOOLEAN
      BY <1>2 DEF MailStatuses
    <2>3. /\ \A m \in Addressees : proof[m] = "none"
          /\ \A m \in Invitees : letters[m] = "none"
          /\ \A o \in Owners : invitationMail[o] = "none"
      BY <1>2
    <2>4. NothingBefore /\ EverybodyAfter /\ OneDispatch /\ FoundIsFinal
      BY <1>2, <2>1, <2>3 DEF NothingBefore, EverybodyAfter, OneDispatch, FoundIsFinal
    <2>5. ProofIsTrue /\ UnreachedGetLetters
      BY <2>3 DEF ProofIsTrue, UnreachedGetLetters
    <2>6. QED
      BY <2>1, <2>2, <2>4, <2>5 DEF ProofInv
  <1>5. QED
    BY <1>3, <1>4 DEF InvitationInv

LEMMA InvitationSteps ==
  ASSUME InvitationInv, [InvitationNext]_invitationVars
  PROVE  InvitationInv' /\ LettersStand
  <1>1. AgendaInv /\ ProofInv /\ inviteCalls \in [InviteCalls -> InviteRecord]
    BY ProofMeans DEF InvitationInv
  <1>2. dateShort \in BOOLEAN /\ dateExcused \in BOOLEAN
    BY <1>1 DEF AgendaInv
  <1>3. letters' = letters => LettersStand
    BY DEF LettersStand
  <1>4. ASSUME invitations' = invitations, AgendaRests, DateRests
        PROVE  AgendaInv'
    BY <1>1, <1>2, <1>4, AgendaAtRest DEF DateRests
  <1>5. ASSUME NEW i \in Items, DeletesItem(i) \/ \E w \in Wordings : WritesItem(i, w)
        PROVE  InvitationInv' /\ LettersStand
    <2>1. AgendaInv'
      BY <1>1, <1>5, AgendaStepsKeep
    <2>2. ProofRests /\ invitations' = invitations /\ inviteCalls' = inviteCalls
      BY <1>5 DEF DeletesItem, WritesItem
    <2>3. ProofInv'
      BY <1>1, <2>2, ProofKept
    <2>4. letters' = letters
      BY <2>2 DEF ProofRests
    <2>5. QED
      BY <1>3, <2>1, <2>3, <2>4 DEF InvitationInv
  <1>6. ASSUME NEW c \in InviteCalls,
               \/ \E excused \in BOOLEAN : ReadsToMove(c, excused)
               \/ MovesMeeting(c) \/ ReadsToInvite(c) \/ InviteRefused(c) \/ ReadsProof(c)
        PROVE  InvitationInv' /\ LettersStand
    <2>1. ProofInv'
      BY <1>1, <1>2, <1>6, ReadingKeeps
    <2>2. invitations' = invitations /\ AgendaRests /\ ProofRests
      BY <1>6 DEF ReadsToMove, MovesMeeting, ReadsToInvite, InviteRefused, ReadsProof
    <2>3. dateShort' \in BOOLEAN /\ dateExcused' \in BOOLEAN
      <3>1. CASE MovesMeeting(c)
        <4>1. inviteCalls[c].excused \in BOOLEAN
          BY <1>1, <3>1, InviteRecordFields DEF MovesMeeting
        <4>2. PICK b \in BOOLEAN : b = (dateExcused \/ inviteCalls[c].excused)
          OBVIOUS
        <4>3. QED
          BY <3>1, <4>2 DEF MovesMeeting
      <3>2. CASE ~MovesMeeting(c)
        BY <1>2, <1>6, <3>2 DEF ReadsToMove, ReadsToInvite, InviteRefused, ReadsProof, DateRests
      <3>3. QED
        BY <3>1, <3>2
    <2>4. AgendaInv'
      BY <1>1, <2>2, <2>3, AgendaAtRest
    <2>5. QED
      BY <1>3, <2>1, <2>2, <2>4 DEF InvitationInv, ProofRests
  <1>7. ASSUME NEW c \in InviteCalls, Invites(c)
        PROVE  InvitationInv' /\ LettersStand
    BY <1>1, <1>7, InvitesKeepsAgenda, InvitesKeepsProof DEF InvitationInv
  <1>8. ASSUME NEW c \in InviteCalls,
               \/ HandsOver(c) \/ HandingOverFails(c) \/ ReadsMails(c) \/ InviteCallDies(c)
               \/ \E m \in Addressees : WritesProof(c, m)
        PROVE  InvitationInv' /\ LettersStand
    <2>1. ProofInv'
      BY <1>1, <1>8, HandsOverKeeps, ReadsMailsKeeps, InviteCallDiesKeeps, WritesProofKeeps
    <2>2. invitations' = invitations /\ AgendaRests /\ DateRests /\ letters' = letters
      BY <1>8 DEF HandsOver, HandingOverFails, ReadsMails, InviteCallDies, WritesProof, ProofRests
    <2>3. QED
      BY <1>3, <1>4, <2>1, <2>2 DEF InvitationInv
  <1>9. ASSUME NEW c \in InviteCalls, FillsPostList(c)
        PROVE  InvitationInv' /\ LettersStand
    <2>1. ProofInv'
      BY <1>1, <1>9, FillsPostListKeeps
    <2>2. /\ invitations' = invitations /\ AgendaRests /\ DateRests
          /\ letters' = [m \in Invitees |-> IF m \in inviteCalls[c].needsPost /\ letters[m] = "none"
                                             THEN "queued" ELSE letters[m]]
      BY <1>9 DEF FillsPostList
    <2>3. LettersStand
      BY <2>2 DEF LettersStand
    <2>4. QED
      BY <1>4, <2>1, <2>2, <2>3 DEF InvitationInv
  <1>10. ASSUME MarksPosted
         PROVE  InvitationInv' /\ LettersStand
    <2>1. ProofInv' /\ LettersStand
      BY <1>1, <1>10, MarksPostedKeeps
    <2>2. invitations' = invitations /\ AgendaRests /\ DateRests
      BY <1>10 DEF MarksPosted
    <2>3. QED
      BY <1>4, <2>1, <2>2 DEF InvitationInv
  <1>11. ASSUME NEW o \in Owners, NEW s \in {"sent", "failed"}, MailSettlesAs(o, s)
         PROVE  InvitationInv' /\ LettersStand
    <2>1. ProofInv'
      BY <1>1, <1>11, MailSettlesKeeps
    <2>2. invitations' = invitations /\ AgendaRests /\ DateRests /\ letters' = letters
      BY <1>11 DEF MailSettlesAs
    <2>3. QED
      BY <1>3, <1>4, <2>1, <2>2 DEF InvitationInv
  <1>12. CASE UNCHANGED invitationVars
    <2>1. /\ invitations' = invitations /\ AgendaRests /\ DateRests /\ ProofRests
          /\ inviteCalls' = inviteCalls /\ letters' = letters
      BY <1>12 DEF invitationVars, AgendaRests, DateRests, ProofRests
    <2>2. ProofInv'
      BY <1>1, <2>1, ProofKept
    <2>3. QED
      BY <1>3, <1>4, <2>1, <2>2 DEF InvitationInv
  <1>13. QED
    BY <1>5, <1>6, <1>7, <1>8, <1>9, <1>10, <1>11, <1>12 DEF InvitationNext

LEMMA InvitationMeans ==
  ASSUME InvitationInv
  PROVE  /\ InvitationTypeOK /\ AnnouncedStands /\ ProofIsTrue /\ UnreachedGetLetters
         /\ NobodyForgotten
  <1>1. AnnouncedStands /\ ProofIsTrue /\ UnreachedGetLetters
    BY DEF InvitationInv, AgendaInv, ProofInv
  <1>2. InvitationTypeOK
    <2>1. /\ agenda \in [Items -> AgendaRow] /\ \A i \in Items : agenda[i].by \in 0..Len(invitations)
          /\ Len(invitations) \in 0..MaxInvitations /\ rewordings \in 0..MaxRewordings
          /\ dateShort \in BOOLEAN /\ dateExcused \in BOOLEAN
      BY DEF InvitationInv, AgendaInv
    <2>2. agenda \in [Items -> [wording: Wordings \cup {Unwritten}, by: 0..Len(invitations)]]
      BY <2>1 DEF AgendaRow
    <2>3. /\ proof \in [Addressees -> {"none", "queued", "sent", "failed"}]
          /\ letters \in [Invitees -> {"none", "queued", "manual_posted"}]
          /\ invitationMail \in [Owners -> {"none", "queued", "sent", "failed"}] /\ letDown \in BOOLEAN
      BY DEF InvitationInv, ProofInv, MailStatuses
    <2>4. QED
      BY <2>1, <2>2, <2>3 DEF InvitationTypeOK
  <1>3. NobodyForgotten
    <2>1. SUFFICES ASSUME invitations # <<>>, NEW i \in DOMAIN Register
                   PROVE  IF Register[i].member
                          THEN \/ i \in Addressees /\ proof[i] # "none"
                               \/ Register[i].account \/ letters[i] # "none"
                          ELSE i \notin DOMAIN proof \cup DOMAIN letters
      BY DEF NobodyForgotten
    <2>2. /\ \A m \in Addressees : proof[m] # "none"
          /\ \A m \in ByPost : letters[m] # "none"
          /\ DOMAIN proof = Addressees /\ DOMAIN letters = Invitees
      BY <2>1 DEF InvitationInv, ProofInv, EverybodyAfter
    <2>3. CASE Register[i].member
      <3>1. i \in Addressees \/ Register[i].account \/ i \in ByPost
        BY <2>3 DEF ByPost, Invitees
      <3>2. QED
        BY <2>2, <2>3, <3>1
    <2>4. CASE ~Register[i].member
      BY <2>2, <2>4, InviteesAre DEF Invitees
    <2>5. QED
      BY <2>3, <2>4
  <1>4. QED
    BY <1>1, <1>2, <1>3

(***************************************************************************)
(* The whole promise of the invitation (meeting-assembly.ts,               *)
(* lib/assembly-invitation.ts): what was announced stands as announced,     *)
(* the proof claims a mail only where one was sent, whom a mail did not     *)
(* reach comes onto the post list whichever of several syncs saw the        *)
(* failure, no member is forgotten, and no letter is taken off the list.    *)
(***************************************************************************)
THEOREM InvitationIsSound == InvitationSpec => InvitationPromise
  <1>1. InvitationInit => InvitationInv
    BY InvitationStarts
  <1>2. InvitationInv /\ [InvitationNext]_invitationVars => InvitationInv'
    BY InvitationSteps
  <1>3. InvitationInv /\ [InvitationNext]_invitationVars => [LettersStand]_invitationVars
    BY InvitationSteps
  <1>4. InvitationInv => /\ InvitationTypeOK /\ AnnouncedStands /\ ProofIsTrue /\ UnreachedGetLetters
                         /\ NobodyForgotten
    BY InvitationMeans
  <1>5. QED
    BY <1>1, <1>2, <1>3, <1>4, PTL DEF InvitationSpec, InvitationPromise
=============================================================================
