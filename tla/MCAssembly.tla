----------------------------- MODULE MCAssembly -----------------------------
\* Instances of what the board prepares, holds and announces. Components that
\* share no rows, each explored in behaviours of its own: the others rest in
\* one initial state.
EXTENDS Assembly, Election, Minutes, Announcements, TLC

VARIABLE part    \* the component whose rows move in this behaviour

CONSTANTS x1, x2, y1, y2

partVars == <<part, assemblyVars, electionVars, minutesVars, announcementVars>>

Init ==
  /\ part \in {"hall", "election", "minutes", "announcements"}
  /\ AssemblyInit
  /\ ElectionInit
  /\ IF part = "election" THEN seats = 2 /\ Cardinality(accounts) = 1
     ELSE seats = 2 /\ accounts = {}
  /\ MinutesInit
  /\ AnnouncementsInit

Next ==
  \/ /\ part = "hall" /\ AssemblyNext
     /\ UNCHANGED <<part, electionVars, minutesVars, announcementVars>>
  \/ /\ part = "election" /\ ElectionNext
     /\ UNCHANGED <<part, assemblyVars, minutesVars, announcementVars>>
  \/ /\ part = "minutes" /\ MinutesNext
     /\ UNCHANGED <<part, assemblyVars, electionVars, announcementVars>>
  \/ /\ part = "announcements" /\ AnnouncementsNext
     /\ UNCHANGED <<part, assemblyVars, electionVars, minutesVars>>

Spec == Init /\ [][Next]_partVars
Symmetry == Permutations({x1, x2}) \cup Permutations({y1, y2})
=============================================================================
