------------------------------ MODULE MCRights ------------------------------
\* Instances of what protects the people of a club and their data. Components
\* that share no rows, each explored in behaviours of its own: the others
\* rest in one initial state.
EXTENDS Privacy, Guardians, MemberImport, Preferences,
        Registrations, TLC

VARIABLE part    \* the component whose rows move in this behaviour

CONSTANTS x1, x2, y1, y2

partVars == <<part, consentVars, erasureVars, retentionVars, guardianVars,
                    rollVars, fieldVars, prefVars, deviceVars,
                    registrationVars>>

\* Two files; the rows without a number come first, otto has no birth date.
FileRow(who, number) == [who |-> who, number |-> number, group |-> "adults", via |-> "import"]
MCFiles == {<<FileRow("otto", 0)>>, <<FileRow("otto", 0), FileRow("anna", 1)>>}

Init ==
  /\ part \in {"consent", "erasure", "retention", "guardians", "roll",
                "fields", "preferences", "devices", "founding"}
  /\ ConsentInit
  /\ (part # "consent" => grownUp)
  /\ ErasureInit
  /\ (part # "erasure" => ~onePerson)
  /\ RetentionInit
  /\ (part # "retention" => erasing /\ retainDays = 2)
  /\ GuardiansInit
  /\ (part # "guardians" => majority = [w \in Wards |-> 2])
  /\ RollInit
  /\ FieldsInit
  /\ PreferencesInit
  /\ DevicesInit
  /\ RegistrationsInit

Next ==
  \/ /\ part = "consent" /\ ConsentNext
     /\ UNCHANGED <<part, erasureVars, retentionVars, guardianVars, rollVars,
                    fieldVars, prefVars, deviceVars, registrationVars>>
  \/ /\ part = "erasure" /\ ErasureNext
     /\ UNCHANGED <<part, consentVars, retentionVars, guardianVars, rollVars,
                    fieldVars, prefVars, deviceVars, registrationVars>>
  \/ /\ part = "retention" /\ RetentionNext
     /\ UNCHANGED <<part, consentVars, erasureVars, guardianVars, rollVars,
                    fieldVars, prefVars, deviceVars, registrationVars>>
  \/ /\ part = "guardians" /\ GuardiansNext
     /\ UNCHANGED <<part, consentVars, erasureVars, retentionVars, rollVars,
                    fieldVars, prefVars, deviceVars, registrationVars>>
  \/ /\ part = "roll" /\ RollNext
     /\ UNCHANGED <<part, consentVars, erasureVars, retentionVars,
                    guardianVars, fieldVars, prefVars, deviceVars,
                    registrationVars>>
  \/ /\ part = "fields" /\ FieldsNext
     /\ UNCHANGED <<part, consentVars, erasureVars, retentionVars,
                    guardianVars, rollVars, prefVars, deviceVars,
                    registrationVars>>
  \/ /\ part = "preferences" /\ PreferencesNext
     /\ UNCHANGED <<part, consentVars, erasureVars, retentionVars,
                    guardianVars, rollVars, fieldVars, deviceVars,
                    registrationVars>>
  \/ /\ part = "devices" /\ DevicesNext
     /\ UNCHANGED <<part, consentVars, erasureVars, retentionVars,
                    guardianVars, rollVars, fieldVars, prefVars,
                    registrationVars>>
  \/ /\ part = "founding" /\ RegistrationsNext
     /\ UNCHANGED <<part, consentVars, erasureVars, retentionVars,
                    guardianVars, rollVars, fieldVars, prefVars, deviceVars>>

Spec == Init /\ [][Next]_partVars

\* What the components about the records of the members, their choices and
\* their devices promise, and those about the founding of a club, together.
RecordsPromise ==
  /\ GuardiansPromise
  /\ FieldsPromise
  /\ PreferencesPromise
  /\ DevicesPromise
  /\ RegistrationsPromise

Symmetry == Permutations({x1, x2}) \cup Permutations({y1, y2})
=============================================================================
