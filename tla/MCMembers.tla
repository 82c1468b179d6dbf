------------------------------ MODULE MCMembers -----------------------------
\* Instances of what happens to members and their papers. Components that
\* share no rows, each explored in behaviours of its own: the others rest in
\* one initial state.
EXTENDS Admission, Submissions, Archive, Media, TLC

VARIABLE part    \* the component whose rows move in this behaviour

CONSTANTS x1, x2

partVars == <<part, admissionVars, submissionsVars, archiveVars, mediaVars>>

Init ==
  /\ part \in {"admission", "submissions", "archive", "media"}
  /\ AdmissionInit
  /\ SubmissionsInit
  /\ ArchiveInit
  /\ MediaInit

Next ==
  \/ /\ part = "admission" /\ AdmissionNext
     /\ UNCHANGED <<part, submissionsVars, archiveVars, mediaVars>>
  \/ /\ part = "submissions" /\ SubmissionsNext
     /\ UNCHANGED <<part, admissionVars, archiveVars, mediaVars>>
  \/ /\ part = "archive" /\ ArchiveNext
     /\ UNCHANGED <<part, admissionVars, submissionsVars, mediaVars>>
  \/ /\ part = "media" /\ MediaNext
     /\ UNCHANGED <<part, admissionVars, submissionsVars, archiveVars>>

Spec == Init /\ [][Next]_partVars
Symmetry == Permutations({x1, x2})
=============================================================================
