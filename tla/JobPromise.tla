----------------------------- MODULE JobPromise -----------------------------
(***************************************************************************)
(* What the queue promises the code that enqueues a job: the handler of an  *)
(* accepted job is performed at least once before the job counts as done;   *)
(* a job ends done or dead, and stays so until an administrator revives a   *)
(* dead one or retention forgets a done one.  How often a handler runs, and *)
(* where, is not part of the promise.                                       *)
(***************************************************************************)
CONSTANT Keys
VARIABLES life, performed   \* performed: keys whose handler has returned

vars == <<life, performed>>

Init == life = [k \in Keys |-> "none"] /\ performed = {}

Accept(S) ==
  /\ S # {}
  /\ \A k \in S : life[k] = "none"
  /\ life' = [k \in Keys |-> IF k \in S THEN "open" ELSE life[k]]
  /\ UNCHANGED performed

\* A handler that lost its lease may still return after the job was buried.
Perform(k) ==
  /\ life[k] \in {"open", "dead"}
  /\ performed' = performed \cup {k}
  /\ UNCHANGED life

Succeed(k) ==
  /\ life[k] = "open"
  /\ k \in performed
  /\ life' = [life EXCEPT ![k] = "done"]
  /\ UNCHANGED performed

GiveUp(S) ==
  /\ S # {}
  /\ \A k \in S : life[k] = "open"
  /\ life' = [k \in Keys |-> IF k \in S THEN "dead" ELSE life[k]]
  /\ UNCHANGED performed

Revive(k) ==
  /\ life[k] = "dead"
  /\ life' = [life EXCEPT ![k] = "open"]
  /\ UNCHANGED performed

Forget(k) ==
  /\ life[k] = "done"
  /\ life' = [life EXCEPT ![k] = "none"]
  /\ performed' = performed \ {k}

Next == \/ \E S \in SUBSET Keys : Accept(S) \/ GiveUp(S)
        \/ \E k \in Keys : Perform(k) \/ Succeed(k) \/ Revive(k) \/ Forget(k)

Spec == Init /\ [][Next]_vars

\* Every accepted job is brought to its end.
EverySettles == \A k \in Keys : life[k] = "open" ~> life[k] \in {"done", "dead"}
=============================================================================
