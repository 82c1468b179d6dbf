----------------------------- MODULE MCClubLife -----------------------------
\* Instances of what a club does together. Components that share no rows,
\* each explored in behaviours of its own: the others rest in one initial
\* state.
EXTENDS EventSeats, EventSeries, Helpers, TLC

VARIABLE part    \* the component whose rows move in this behaviour

CONSTANTS x1, x2

partVars == <<part, seatVars, seriesVars, helperVars>>

\* A series on every day: what it skips are the holidays.
MCPatterns == {1..LastDate}
\* Two shifts that follow each other.
MCSlots == {<<1, 2>>, <<2, 3>>}

Init ==
  /\ part \in {"seats", "series", "helpers"}
  /\ EventSeatsInit
  /\ (part # "seats" => capacity = NoLimit)
  /\ EventSeriesInit
  /\ (part # "series" => series[1].hour = 0 /\ ~series[1].skip)
  /\ HelpersInit

Next ==
  \/ /\ part = "seats" /\ EventSeatsNext
     /\ UNCHANGED <<part, seriesVars, helperVars>>
  \/ /\ part = "series" /\ EventSeriesNext
     /\ UNCHANGED <<part, seatVars, helperVars>>
  \/ /\ part = "helpers" /\ HelpersNext
     /\ UNCHANGED <<part, seatVars, seriesVars>>

Spec == Init /\ [][Next]_partVars
Symmetry == Permutations({x1, x2})
=============================================================================
