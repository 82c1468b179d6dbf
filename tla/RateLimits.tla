----------------------------- MODULE RateLimits -----------------------------
(* The limit on how often one subject may do one thing (src/src/lib/           *)
(* rate-limits.ts): a hit is counted and recorded in a transaction under an    *)
(* advisory lock, a refusal is audited once per window by a limit of one of    *)
(* its own. The row carries the time its transaction began (defaultNow), the   *)
(* window is measured from the time after the lock was got.                    *)
EXTENDS Integers, FiniteSetsExt

CONSTANTS
  LimitCalls,    \* requests in flight, of one subject
  MaxHits,       \* spec.max
  Window,        \* spec.windowMs
  KeepHits,      \* age at which the retention removes a hit
  LongestWait,   \* bound: how long a transaction is open
  LastTick       \* bound on the clock

ASSUME RateLimitsAssumption ==
  /\ MaxHits \in Nat \ {0} /\ Window \in Nat \ {0} /\ KeepHits >= Window
  /\ LongestWait \in 0..Window /\ LastTick \in Nat

VARIABLES
  hits,        \* rate_limit_events: rows of each rule by the time they carry
  limitCalls,
  tick,
  hitsMade,    \* history: the rows there ever were
  audits       \* history: entries rate_limit.exceeded

limitVars == <<hits, limitCalls, tick, hitsMade, audits>>

\* The rule, and the rule that lets its violation be audited.
Rules == {"rule", "violation"}
MostHits(r) == IF r = "rule" THEN MaxHits ELSE 1
NoLimitCall == [at |-> "none", rule |-> "rule", began |-> 0, now |-> 0]

RateLimitsTypeOK ==
  /\ hits \in [Rules -> [0..LastTick -> Nat]] /\ hitsMade \in [Rules -> [0..LastTick -> Nat]]
  /\ limitCalls \in [LimitCalls -> [at : {"none", "begun", "locked", "allowed", "refused", "audit"}, rule : Rules,
                                    began : 0..LastTick, now : 0..LastTick]]
  /\ tick \in 0..LastTick /\ audits \in Nat

RateLimitsInit ==
  /\ hits = [r \in Rules |-> [t \in 0..LastTick |-> 0]] /\ hitsMade = hits
  /\ limitCalls = [c \in LimitCalls |-> NoLimitCall]
  /\ tick = 0 /\ audits = 0

LimitCall(c, call) == limitCalls' = [limitCalls EXCEPT ![c] = call]

-----------------------------------------------------------------------------
\* tryConsume: the transaction begins, for the request or for the audit entry.
BeginsConsume(c) ==
  /\ limitCalls[c] = NoLimitCall
  /\ LimitCall(c, [at |-> "begun", rule |-> "rule", began |-> tick, now |-> 0])
  /\ UNCHANGED <<hits, tick, hitsMade, audits>>

\* Faulty variant: everybody counts at the same time.
NoLock(r) == TRUE

Holding == {"locked", "allowed", "refused"}
LockFree(r) == \A c \in LimitCalls : limitCalls[c].at \in Holding => limitCalls[c].rule # r

\* The advisory lock of the rule and the subject, then the time.
LocksSubject(c) ==
  /\ limitCalls[c].at = "begun" /\ LockFree(limitCalls[c].rule)
  /\ LimitCall(c, [limitCalls[c] EXCEPT !.at = "locked", !.now = tick])
  /\ UNCHANGED <<hits, tick, hitsMade, audits>>

\* The rows of a table that carry one of the times.
RowsAt(table, times) == FoldSet(LAMBDA t, n : n + table[t], 0, times)
Counted(c) ==
  RowsAt(hits[limitCalls[c].rule], {t \in 0..LastTick : t > limitCalls[c].now - Window})

CountsHits(c) ==
  /\ limitCalls[c].at = "locked"
  /\ LimitCall(c, [limitCalls[c] EXCEPT
       !.at = IF Counted(c) < MostHits(limitCalls[c].rule) THEN "allowed" ELSE "refused"])
  /\ UNCHANGED <<hits, tick, hitsMade, audits>>

\* The hit is recorded, or the refusal goes on to its audit entry, which is
\* subject to the second rule.
Consumes(c) ==
  LET r == limitCalls[c].rule
  IN /\ limitCalls[c].at \in {"allowed", "refused"}
     /\ IF limitCalls[c].at = "allowed"
        THEN /\ hits' = [hits EXCEPT ![r][limitCalls[c].began] = @ + 1]
             /\ hitsMade' = [hitsMade EXCEPT ![r][limitCalls[c].began] = @ + 1]
             /\ LimitCall(c, IF r = "rule" THEN NoLimitCall
                             ELSE [limitCalls[c] EXCEPT !.at = "audit"])
        ELSE /\ LimitCall(c, IF r = "rule"
                             THEN [at |-> "begun", rule |-> "violation", began |-> tick, now |-> 0]
                             ELSE NoLimitCall)
             /\ UNCHANGED <<hits, hitsMade>>
     /\ UNCHANGED <<tick, audits>>

\* auditViolation: the entry itself, after the commit.
WritesViolation(c) ==
  /\ limitCalls[c].at = "audit"
  /\ audits' = audits + 1 /\ LimitCall(c, NoLimitCall)
  /\ UNCHANGED <<hits, tick, hitsMade>>

\* The process ends: what is not committed is gone, and the lock with it.
LimitCallDies(c) ==
  /\ limitCalls[c] # NoLimitCall /\ LimitCall(c, NoLimitCall)
  /\ UNCHANGED <<hits, tick, hitsMade, audits>>

\* Faulty variant: what is older than half of the window is removed.
OutdatedSoon(t) == 2 * (tick - t) >= Window

Outdated(t) == t < tick - KeepHits

\* purgeRateLimitEvents
PurgesHits ==
  /\ hits' = [r \in Rules |-> [t \in 0..LastTick |-> IF Outdated(t) THEN 0 ELSE hits[r][t]]] /\ hits' # hits
  /\ UNCHANGED <<limitCalls, tick, hitsMade, audits>>

Passes ==
  /\ tick < LastTick /\ tick' = tick + 1
  /\ \A c \in LimitCalls :
       limitCalls[c].at \in Holding \cup {"begun"} => tick' - limitCalls[c].began <= LongestWait
  /\ UNCHANGED <<hits, limitCalls, hitsMade, audits>>

RateLimitsNext ==
  \/ \E c \in LimitCalls : \/ BeginsConsume(c) \/ LocksSubject(c) \/ CountsHits(c) \/ Consumes(c)
                           \/ WritesViolation(c) \/ LimitCallDies(c)
  \/ PurgesHits \/ Passes

RateLimitsSpec == RateLimitsInit /\ [][RateLimitsNext]_limitVars

-----------------------------------------------------------------------------
\* Properties

Within(r, from, length) ==
  RowsAt(hitsMade[r], {t \in 0..LastTick : t > from /\ t <= from + length})

\* No window holds more hits than the rule allows, nor more than one audited
\* violation, but for what a wait at the lock takes from its length: a hit is
\* dated by the begin of its transaction and checked later.
LimitHolds ==
  \A r \in Rules, from \in (0 - Window)..LastTick :
    Within(r, from, Window - LongestWait) <= MostHits(r)

\* "Once per key and window, so a flood cannot fill the audit log": every entry
\* has its own row, whatever dies in between.
AuditedOnce == audits <= RowsAt(hitsMade["violation"], 0..LastTick)

\* The limits of one subject.
LimitsPromise == /\ [](RateLimitsTypeOK /\ LimitHolds)
                 /\ []AuditedOnce

\* "A per-key transaction lock makes check-and-record atomic": with the whole
\* window this is not kept, as no run checks, when transactions wait.
LimitInEveryWindow ==
  \A from \in (0 - Window)..LastTick : Within("rule", from, Window) <= MaxHits
=============================================================================
