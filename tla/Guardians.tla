----------------------------- MODULE Guardians -----------------------------
(* Guardian links (src/src/routes/club-members.ts, lib/form-children.ts, the   *)
(* erasure of a ward in lib/privacy/contributors.ts) and the sweep that ends   *)
(* them with the ward's majority (lib/majority.ts; its notice ahead of the     *)
(* birthday changes no link and is left out). Carers are accounts of           *)
(* external guests: their role follows their links, which every call decides   *)
(* on what it reads, without a lock. Days are counted from a fixed one.        *)
EXTENDS Integers, FiniteSets

CONSTANTS
  Carers,
  Wards,
  GuardianCalls,
  Unlinked,
  Open,            \* a link without an end
  LastAge,         \* the last day
  CatchUpDays,     \* days after the majority in which the sweep still ends links
  MaxCorrections,
  MaxLinkings

ASSUME GuardiansAssumption ==
  /\ LastAge \in Nat \ {0} /\ {MaxCorrections, MaxLinkings} \subseteq Nat
  /\ Open # Unlinked /\ {Open, Unlinked} \cap (0..LastAge) = {}

VARIABLES
  guardianDay,
  majority,        \* the day each ward comes of age, by the birth date on record
  wardGone,        \* wards that left the club
  links,           \* each carer and ward: Unlinked, Open or the last day
  carerRole,       \* carers with the role of a guardian
  guardianCalls,
  sweepDue,        \* what the sweep read: wards and their majority
  adultJobs,       \* majority_notify jobs that tell a ward of its majority
  adultTold,       \* what was announced
  corrections,
  linkings,
  linkEnded,       \* history: wards and majorities a link was ended for
  crossed          \* history: carers with two calls at a time

guardianVars == <<guardianDay, majority, wardGone, links, carerRole, guardianCalls, sweepDue, adultJobs,
                  adultTold, corrections, linkings, linkEnded, crossed>>
unswept == <<sweepDue, adultJobs, adultTold, linkEnded>>

Pairs == Carers \X Wards
GuardianDays == 1..LastAge
NoGuardianCall == [op |-> "none"]

GuardiansTypeOK ==
  /\ guardianDay \in GuardianDays /\ majority \in [Wards -> GuardianDays] /\ wardGone \subseteq Wards
  /\ links \in [Pairs -> GuardianDays \cup {0, Open, Unlinked}] /\ carerRole \subseteq Carers
  /\ sweepDue \subseteq Wards \X GuardianDays /\ adultJobs \subseteq Wards \X GuardianDays /\ adultTold \subseteq Wards \X GuardianDays
  /\ corrections \in 0..MaxCorrections /\ linkings \in 0..MaxLinkings
  /\ linkEnded \subseteq Wards \X GuardianDays /\ crossed \subseteq Carers

GuardiansInit ==
  /\ guardianDay = 1 /\ majority \in [Wards -> GuardianDays] /\ wardGone = {}
  /\ links = [p \in Pairs |-> Unlinked] /\ carerRole = {}
  /\ guardianCalls = [c \in GuardianCalls |-> NoGuardianCall]
  /\ sweepDue = {} /\ adultJobs = {} /\ adultTold = {} /\ corrections = 0 /\ linkings = 0
  /\ linkEnded = {} /\ crossed = {}

LinksOf(carer) == {w \in Wards : links[<<carer, w>>] # Unlinked}
OpenAt(day, end) == end = Open \/ (end # Unlinked /\ end >= day)

\* A call begins: from here on it has read what it decides on.
GuardianCall(c, call) ==
  /\ guardianCalls[c] = NoGuardianCall /\ guardianCalls' = [guardianCalls EXCEPT ![c] = call]
  /\ crossed' = crossed \cup
       {k \in call.carers : \E d \in GuardianCalls : guardianCalls[d] # NoGuardianCall /\ k \in guardianCalls[d].carers}
GuardianCallEnds(c) == guardianCalls' = [guardianCalls EXCEPT ![c] = NoGuardianCall]

-----------------------------------------------------------------------------
\* Calls

\* POST of a link and the approval of a child's application: the role is inserted
\* unless it is there, then the call commits.
AsksToLink(c, carer, w) ==
  /\ linkings < MaxLinkings /\ linkings' = linkings + 1
  /\ GuardianCall(c, [op |-> "link", carers |-> {carer}, ward |-> w, had |-> carer \in carerRole])
  /\ UNCHANGED <<guardianDay, majority, wardGone, links, carerRole, corrections, unswept>>

Links(c) ==
  LET call == guardianCalls[c]
      carer == CHOOSE k \in call.carers : TRUE
  IN /\ call.op = "link" /\ GuardianCallEnds(c)
     /\ IF links[<<carer, call.ward>>] # Unlinked
        THEN UNCHANGED <<links, carerRole>>
        ELSE /\ links' = [links EXCEPT ![<<carer, call.ward>>] = Open]
             /\ carerRole' = IF call.had THEN carerRole ELSE carerRole \cup {carer}
     /\ UNCHANGED <<guardianDay, majority, wardGone, corrections, linkings, crossed, unswept>>

\* Faulty variant: the role goes with any link.
LastLinkOfAny(carer, w) == TRUE

\* "The last link of an external guest ends the guardian role with it."
LastLink(carer, w) == LinksOf(carer) \subseteq {w}

\* DELETE of a link, with one carer, and the erasure of a ward, with all of its
\* carers: the links are deleted, and what remains is read.
AsksToUnlink(c, carers, w) ==
  /\ carers # {} /\ \A k \in carers : links[<<k, w>>] # Unlinked
  /\ Cardinality(carers) = 1 \/ carers = {k \in Carers : links[<<k, w>>] # Unlinked}
  /\ GuardianCall(c, [op |-> "unlink", carers |-> carers, ward |-> w, last |-> {k \in carers : LastLink(k, w)}])
  /\ UNCHANGED <<guardianDay, majority, wardGone, links, carerRole, corrections, linkings, unswept>>

Unlinks(c) ==
  LET call == guardianCalls[c]
      gone == {k \in call.carers : links[<<k, call.ward>>] # Unlinked}
  IN /\ call.op = "unlink" /\ GuardianCallEnds(c)
     /\ links' = [p \in Pairs |-> IF p[1] \in gone /\ p[2] = call.ward THEN Unlinked ELSE links[p]]
     /\ carerRole' = carerRole \ (call.last \cap gone)
     /\ UNCHANGED <<guardianDay, majority, wardGone, corrections, linkings, crossed, unswept>>

GuardianCallFails(c) ==
  /\ guardianCalls[c] # NoGuardianCall /\ GuardianCallEnds(c)
  /\ UNCHANGED <<guardianDay, majority, wardGone, links, carerRole, corrections, linkings, crossed, unswept>>

\* PATCH of a link, under the lock of its row: another last day, or none.
PatchesLink(carer, w, end) ==
  /\ corrections < MaxCorrections /\ corrections' = corrections + 1
  /\ links[<<carer, w>>] # Unlinked /\ links' = [links EXCEPT ![<<carer, w>>] = end]
  /\ UNCHANGED <<guardianDay, majority, wardGone, carerRole, guardianCalls, linkings, crossed, unswept>>

\* The birth date is corrected; the ward leaves the club.
CorrectsBirthDate(w, day) ==
  /\ corrections < MaxCorrections /\ corrections' = corrections + 1
  /\ majority[w] # day /\ majority' = [majority EXCEPT ![w] = day]
  /\ UNCHANGED <<guardianDay, wardGone, links, carerRole, guardianCalls, linkings, crossed, unswept>>

WardLeaves(w) ==
  /\ corrections < MaxCorrections /\ corrections' = corrections + 1 /\ wardGone' = wardGone \cup {w}
  /\ UNCHANGED <<guardianDay, majority, links, carerRole, guardianCalls, linkings, crossed, unswept>>

GuardianDayPasses ==
  /\ guardianDay < LastAge /\ guardianDay' = guardianDay + 1
  /\ UNCHANGED <<majority, wardGone, links, carerRole, guardianCalls, corrections, linkings, crossed, unswept>>

-----------------------------------------------------------------------------
\* The sweep

\* Wards who came of age lately and have a link beyond it.
ReadsAdults ==
  /\ sweepDue = {}
  /\ sweepDue' = {<<w, majority[w]>> : w \in
       {v \in Wards : /\ majority[v] <= guardianDay /\ majority[v] >= guardianDay - CatchUpDays
                      /\ \E k \in Carers : OpenAt(majority[v], links[<<k, v>>])}}
  /\ UNCHANGED <<guardianDay, majority, wardGone, links, carerRole, guardianCalls, adultJobs, adultTold,
                 corrections, linkings, linkEnded, crossed>>

\* Faulty variant: the person is told whether or not a link was there to end.
SomeLinkEndsAnyway(ended) == TRUE

SomeLinkEnds(ended) == ended # {}

\* One transaction for each: the links still beyond it end the day before, and if
\* there were any, the person is to be told.
EndsLinks(w, m) ==
  LET ended == {k \in Carers : OpenAt(m, links[<<k, w>>])}
  IN /\ <<w, m>> \in sweepDue /\ sweepDue' = sweepDue \ {<<w, m>>}
     /\ links' = [p \in Pairs |-> IF p[1] \in ended /\ p[2] = w THEN m - 1 ELSE links[p]]
     /\ adultJobs' = IF SomeLinkEnds(ended) THEN adultJobs \cup {<<w, m>>} ELSE adultJobs
     /\ linkEnded' = IF ended # {} THEN linkEnded \cup {<<w, m>>} ELSE linkEnded
     /\ UNCHANGED <<guardianDay, majority, wardGone, carerRole, guardianCalls, adultTold, corrections, linkings, crossed>>

SweepDies ==
  /\ sweepDue # {} /\ sweepDue' = {}
  /\ UNCHANGED <<guardianDay, majority, wardGone, links, carerRole, guardianCalls, adultJobs, adultTold,
                 corrections, linkings, linkEnded, crossed>>

\* majority_notify: nothing is announced when the person left or the birth date was
\* corrected meanwhile.
Announces(w, m) ==
  /\ <<w, m>> \in adultJobs \ adultTold /\ majority[w] = m /\ w \notin wardGone
  /\ adultTold' = adultTold \cup {<<w, m>>}
  /\ UNCHANGED <<guardianDay, majority, wardGone, links, carerRole, guardianCalls, sweepDue, adultJobs,
                 corrections, linkings, linkEnded, crossed>>

GuardiansNext ==
  \/ \E c \in GuardianCalls :
       \/ Links(c) \/ Unlinks(c) \/ GuardianCallFails(c)
       \/ \E w \in Wards : \/ \E k \in Carers : AsksToLink(c, k, w)
                           \/ \E S \in SUBSET Carers : AsksToUnlink(c, S, w)
  \/ \E w \in Wards :
       \/ \E k \in Carers, end \in GuardianDays \cup {Open} : PatchesLink(k, w, end)
       \/ \E day \in GuardianDays : CorrectsBirthDate(w, day) \/ EndsLinks(w, day) \/ Announces(w, day)
       \/ WardLeaves(w)
  \/ GuardianDayPasses \/ ReadsAdults \/ SweepDies

GuardiansSpec == GuardiansInit /\ [][GuardiansNext]_guardianVars

-----------------------------------------------------------------------------
\* Properties

\* Of carers who had one call at a time, exactly those with a link hold the role,
\* however links and erasures follow each other.
RoleFollowsLinks == \A k \in Carers \ crossed : k \in carerRole <=> LinksOf(k) # {}

\* A person is told of being an adult when a link ended with that majority, and on
\* or after its day: not when the link was gone, or ended earlier, before the sweep
\* came to it.
ToldWhenEnded == adultTold \subseteq linkEnded /\ \A t \in adultTold : t[2] <= guardianDay

\* The sweep shortens links, it never opens one; and it leaves those alone that end
\* before the majority.
SweepOnlyShortens ==
  sweepDue' # sweepDue => \A p \in Pairs :
    links'[p] # links[p] => OpenAt(links'[p] + 1, links[p])

GuardiansPromise == [](GuardiansTypeOK /\ RoleFollowsLinks /\ ToldWhenEnded) /\ [][SweepOnlyShortens]_guardianVars

\* club-members.ts:1944, on the role of a guest: "no stale role without a ward".
NoStaleRole == \A k \in carerRole : LinksOf(k) # {}
=============================================================================
