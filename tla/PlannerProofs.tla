----------------------------- MODULE PlannerProofs -----------------------------
(***************************************************************************)
(* Proofs about the plans people share: the keys, loans and bookings of      *)
(* Lending, the helpers of an event and the rows of recurring events, for    *)
(* any people, keys, days, shifts, locations, patterns, callers and numbers  *)
(* of changes.  A call reads in one step and writes in a later one; each    *)
(* invariant says what is still true, when it writes, of what it has read.   *)
(***************************************************************************)
EXTENDS Lending, Helpers, EventSeries, FiniteSetTheorems, TLAPS

-----------------------------------------------------------------------------
(***************************************************************************)
(* The keys.  KeysInv adds to the property what a call knows of the row it   *)
(* has read: rows are numbered in the order in which they are created, and    *)
(* the row a return is about to delete is its keeper's or nobody's, however   *)
(* often the key was handed out since.                                       *)
(***************************************************************************)
KeyCallType ==
  {NoKeyCall}
  \cup [op: {"returning"}, keeper: Keepers, row: KeyRows]
  \cup [op: {"removing"}, keeper: Keepers, found: BOOLEAN]

\* The rows that calls in flight have read were created, and change hands never.
RowsRead(asked) ==
  \A c \in KeyCalls :
    asked[c].op = "returning" => /\ asked[c].row <= handouts
                                 /\ \A k \in Keepers : held[k] = asked[c].row => k = asked[c].keeper

KeysInv ==
  /\ KeysTypeOK /\ keyCalls \in [KeyCalls -> KeyCallType]
  /\ \A k \in Keepers : held[k] # NoRow => held[k] <= handouts
  /\ RowsRead(keyCalls)
  /\ LogMatchesHolders

\* What the type of a call says of each kind of call.
LEMMA KeyCallTyped ==
  ASSUME NEW call \in KeyCallType
  PROVE  /\ call.op = "returning" => call \in [op: {"returning"}, keeper: Keepers, row: KeyRows]
         /\ call.op = "removing" => call \in [op: {"removing"}, keeper: Keepers, found: BOOLEAN]
  BY DEF KeyCallType, NoKeyCall

LEMMA KeysInvInit ==
  ASSUME KeysInit
  PROVE  KeysInv
  <1>1. /\ MaxHandouts \in Nat
        /\ [k \in Keepers |-> NoRow] \in [Keepers -> KeyRows \cup {NoRow}]
        /\ [k \in Keepers |-> [op \in KeyOps |-> 0]] \in [Keepers -> KeyHistory]
    BY LendingAssumption DEF KeyHistory
  <1>2. KeysTypeOK
    BY <1>1 DEF KeysInit, KeysTypeOK
  <1>3. keyCalls \in [KeyCalls -> KeyCallType]
    BY DEF KeysInit, KeyCallType
  <1>4. RowsRead(keyCalls)
    BY DEF KeysInit, RowsRead, NoKeyCall
  <1>5. LogMatchesHolders
    BY DEF KeysInit, LogMatchesHolders, KeyOps
  <1>6. QED
    BY <1>2, <1>3, <1>4, <1>5 DEF KeysInv, KeysInit

\* A new call in flight, or none any more, while nothing else changes.
LEMMA KeyCallsChange ==
  ASSUME KeysInv, NEW c \in KeyCalls, NEW call \in KeyCallType, KeyCall(c, call),
         call.op = "returning" => held[call.keeper] = call.row,
         UNCHANGED <<living, held, handouts, keyLog, hooked>>
  PROVE  KeysInv'
  <1>1. keyCalls' \in [KeyCalls -> KeyCallType]
    BY DEF KeysInv, KeyCall
  <1>2. RowsRead(keyCalls')
    <2> SUFFICES ASSUME NEW d \in KeyCalls, keyCalls'[d].op = "returning"
                 PROVE  /\ keyCalls'[d].row <= handouts
                        /\ \A k \in Keepers : held[k] = keyCalls'[d].row => k = keyCalls'[d].keeper
      BY DEF RowsRead
    <2>1. CASE d = c
      <3>1. keyCalls'[d] = call
        BY <2>1 DEF KeysInv, KeyCall
      <3>2. call.keeper \in Keepers /\ call.row \in KeyRows /\ held[call.keeper] = call.row
        BY <3>1, KeyCallTyped
      <3>3. call.row # NoRow
        BY <3>2, LendingAssumption DEF KeyRows
      <3>4. QED
        BY <3>1, <3>2, <3>3 DEF KeysInv, KeysTypeOK
    <2>2. CASE d # c
      BY <2>2 DEF KeysInv, KeyCall, RowsRead
    <2>3. QED
      BY <2>1, <2>2
  <1>3. QED
    BY <1>1, <1>2 DEF KeysInv, KeysTypeOK, RowsRead, LogMatchesHolders

\* The log of one keeper grows by one entry.
LEMMA KeyLogged ==
  ASSUME KeysTypeOK, NEW k \in Keepers, NEW op \in KeyOps, LogsKey(k, op)
  PROVE  /\ keyLog' \in [Keepers -> KeyHistory]
         /\ \A l \in Keepers, o \in KeyOps :
              keyLog'[l][o] = IF l = k /\ o = op THEN keyLog[l][o] + 1 ELSE keyLog[l][o]
  <1>1. keyLog \in [Keepers -> [KeyOps -> Nat]]
    BY DEF KeysTypeOK, KeyHistory
  <1>2. keyLog' = [keyLog EXCEPT ![k] = [keyLog[k] EXCEPT ![op] = keyLog[k][op] + 1]]
    BY DEF LogsKey
  <1>3. [keyLog[k] EXCEPT ![op] = keyLog[k][op] + 1] \in [KeyOps -> Nat]
    BY <1>1
  <1>4. keyLog' \in [Keepers -> [KeyOps -> Nat]]
    BY <1>1, <1>2, <1>3
  <1>5. QED
    BY <1>1, <1>2, <1>4 DEF KeyHistory

LEMMA KeysStep ==
  ASSUME KeysInv, [KeysNext]_keyVars
  PROVE  KeysInv'
  <1>0. /\ MaxHandouts \in Nat /\ handouts \in 0..MaxHandouts /\ KeyRows = 1..MaxHandouts
        /\ NoRow \notin KeyRows /\ held \in [Keepers -> KeyRows \cup {NoRow}]
        /\ keyLog \in [Keepers -> KeyHistory] /\ KeyOps = {"issued", "returned"}
        /\ living \subseteq Keepers /\ hooked \subseteq Keepers
        /\ keyCalls \in [KeyCalls -> KeyCallType]
    BY LendingAssumption DEF KeysInv, KeysTypeOK, KeyRows, KeyOps
  <1>1. ASSUME NEW k \in Keepers, IssuesKey(k)
        PROVE  KeysInv'
    <2>1. /\ handouts' = handouts + 1 /\ held' = [held EXCEPT ![k] = handouts + 1]
          /\ held[k] = NoRow /\ handouts < MaxHandouts /\ LogsKey(k, "issued")
          /\ living' = living /\ keyCalls' = keyCalls /\ hooked' = hooked
      BY <1>1 DEF IssuesKey
    <2>2. /\ keyLog' \in [Keepers -> KeyHistory]
          /\ \A l \in Keepers, o \in KeyOps :
               keyLog'[l][o] = IF l = k /\ o = "issued" THEN keyLog[l][o] + 1 ELSE keyLog[l][o]
      BY <1>0, <2>1, KeyLogged DEF KeysInv
    <2>3. /\ handouts + 1 \in KeyRows /\ held' \in [Keepers -> KeyRows \cup {NoRow}]
          /\ \A l \in Keepers : held'[l] = IF l = k THEN handouts + 1 ELSE held[l]
      BY <1>0, <2>1
    <2>4. \A l \in Keepers : held[l] # NoRow => held[l] \in 1..handouts
      BY <1>0 DEF KeysInv
    <2>5. KeysTypeOK'
      BY <1>0, <2>1, <2>2, <2>3, <2>4 DEF KeysTypeOK, KeysInv
    <2>6. \A l \in Keepers : held'[l] # NoRow => held'[l] <= handouts'
      BY <1>0, <2>1, <2>3, <2>4
    <2>7. RowsRead(keyCalls)'
      <3> SUFFICES ASSUME NEW d \in KeyCalls, keyCalls[d].op = "returning"
                   PROVE  /\ keyCalls[d].row <= handouts'
                          /\ \A l \in Keepers : held'[l] = keyCalls[d].row => l = keyCalls[d].keeper
        BY <2>1 DEF RowsRead
      <3>1. keyCalls[d].row \in KeyRows /\ keyCalls[d].row <= handouts
        BY <1>0, KeyCallTyped DEF KeysInv, RowsRead
      <3>2. QED
        BY <1>0, <2>1, <2>3, <3>1 DEF KeysInv, RowsRead
    <2>8. LogMatchesHolders'
      <3> SUFFICES ASSUME NEW l \in living \ hooked
                   PROVE  keyLog'[l]["issued"] = keyLog'[l]["returned"]
                                                 + (IF held'[l] = NoRow THEN 0 ELSE 1)
        BY <2>1 DEF LogMatchesHolders
      <3>1. /\ keyLog[l]["issued"] = keyLog[l]["returned"] + (IF held[l] = NoRow THEN 0 ELSE 1)
            /\ keyLog[l]["issued"] \in Nat /\ keyLog[l]["returned"] \in Nat /\ l \in Keepers
        BY <1>0 DEF KeysInv, LogMatchesHolders, KeyHistory
      <3>2. /\ keyLog'[l]["returned"] = keyLog[l]["returned"]
            /\ keyLog'[l]["issued"] = IF l = k THEN keyLog[l]["issued"] + 1 ELSE keyLog[l]["issued"]
        BY <1>0, <2>2
      <3>3. handouts + 1 # NoRow
        BY <1>0, <2>3
      <3>4. QED
        BY <1>0, <2>1, <2>3, <3>1, <3>2, <3>3
    <2>9. QED
      BY <1>0, <2>1, <2>5, <2>6, <2>7, <2>8 DEF KeysInv
  <1>2. ASSUME NEW c \in KeyCalls, NEW k \in Keepers, ReadsKey(c, k)
        PROVE  KeysInv'
    <2> DEFINE call == [op |-> "returning", keeper |-> k, row |-> held[k]]
    <2>1. call \in KeyCallType
      BY <1>0, <1>2 DEF ReadsKey, KeyCallType
    <2>2. QED
      BY <1>2, <2>1, KeyCallsChange DEF ReadsKey
  <1>3. ASSUME NEW c \in KeyCalls, NEW k \in Keepers, ReadsForRemoval(c, k)
        PROVE  KeysInv'
    <2> DEFINE call == [op |-> "removing", keeper |-> k, found |-> held[k] # NoRow]
    <2>1. call \in KeyCallType /\ call.op # "returning"
      BY DEF KeyCallType
    <2>2. QED
      BY <1>3, <2>1, KeyCallsChange DEF ReadsForRemoval
  <1>4. ASSUME NEW c \in KeyCalls, ReturnsKey(c)
        PROVE  KeysInv'
    <2> DEFINE call == keyCalls[c]
               keeper == call.keeper
    <2>1. /\ call.op = "returning" /\ KeyCall(c, NoKeyCall)
          /\ held' = [k \in Keepers |-> IF held[k] = call.row THEN NoRow ELSE held[k]]
          /\ IF held[keeper] = call.row THEN LogsKey(keeper, "returned") ELSE keyLog' = keyLog
          /\ living' = living /\ handouts' = handouts /\ hooked' = hooked
      BY <1>4 DEF ReturnsKey, RowWasDeleted
    <2>2. /\ call \in [op: {"returning"}, keeper: Keepers, row: KeyRows]
          /\ keeper \in Keepers /\ call.row \in KeyRows /\ call.row # NoRow
          /\ \A k \in Keepers : held[k] = call.row => k = keeper
      <3>1. call \in KeyCallType
        BY <1>0
      <3>2. call \in [op: {"returning"}, keeper: Keepers, row: KeyRows]
        BY <2>1, <3>1, KeyCallTyped
      <3>3. \A k \in Keepers : held[k] = call.row => k = keeper
        BY <2>1 DEF KeysInv, RowsRead
      <3>4. QED
        BY <1>0, <3>2, <3>3
    <2>3. /\ held' \in [Keepers -> KeyRows \cup {NoRow}]
          /\ \A k \in Keepers : held'[k] = IF held[k] = call.row THEN NoRow ELSE held[k]
      BY <1>0, <2>1
    <2>4. /\ keyLog' \in [Keepers -> KeyHistory]
          /\ \A l \in Keepers, o \in KeyOps :
               keyLog'[l][o] = IF held[keeper] = call.row /\ l = keeper /\ o = "returned"
                               THEN keyLog[l][o] + 1 ELSE keyLog[l][o]
      <3>1. CASE held[keeper] = call.row
        <4>1. LogsKey(keeper, "returned") /\ "returned" \in KeyOps
          BY <1>0, <2>1, <3>1
        <4>2. QED
          BY <2>2, <3>1, <4>1, KeyLogged DEF KeysInv
      <3>2. CASE held[keeper] # call.row
        BY <1>0, <2>1, <3>2
      <3>3. QED
        BY <3>1, <3>2
    <2>5. KeysTypeOK'
      BY <1>0, <2>1, <2>3, <2>4 DEF KeysTypeOK, KeysInv
    <2>6. keyCalls' \in [KeyCalls -> KeyCallType] /\ keyCalls'[c] = NoKeyCall
          /\ \A d \in KeyCalls : d # c => keyCalls'[d] = keyCalls[d]
      BY <1>0, <2>1 DEF KeyCall, KeyCallType
    <2>7. RowsRead(keyCalls)'
      <3> SUFFICES ASSUME NEW d \in KeyCalls, keyCalls'[d].op = "returning"
                   PROVE  /\ keyCalls'[d].row <= handouts'
                          /\ \A k \in Keepers : held'[k] = keyCalls'[d].row => k = keyCalls'[d].keeper
        BY DEF RowsRead
      <3>1. d # c /\ keyCalls'[d] = keyCalls[d]
        BY <2>6 DEF NoKeyCall
      <3>2. keyCalls[d].row # NoRow
        BY <1>0, <3>1, KeyCallTyped
      <3>3. QED
        BY <2>1, <2>3, <3>1, <3>2 DEF KeysInv, RowsRead
    <2>8. LogMatchesHolders'
      <3> SUFFICES ASSUME NEW l \in living \ hooked
                   PROVE  keyLog'[l]["issued"] = keyLog'[l]["returned"]
                                                 + (IF held'[l] = NoRow THEN 0 ELSE 1)
        BY <2>1 DEF LogMatchesHolders
      <3>1. /\ keyLog[l]["issued"] = keyLog[l]["returned"] + (IF held[l] = NoRow THEN 0 ELSE 1)
            /\ keyLog[l]["issued"] \in Nat /\ keyLog[l]["returned"] \in Nat /\ l \in Keepers
        BY <1>0 DEF KeysInv, LogMatchesHolders, KeyHistory
      <3>2. /\ keyLog'[l]["issued"] = keyLog[l]["issued"]
            /\ keyLog'[l]["returned"] = IF held[l] = call.row THEN keyLog[l]["returned"] + 1
                                        ELSE keyLog[l]["returned"]
        BY <1>0, <2>2, <2>4, <3>1
      <3>3. QED
        BY <2>2, <2>3, <3>1, <3>2
    <2>9. QED
      BY <2>1, <2>3, <2>5, <2>6, <2>7, <2>8 DEF KeysInv
  <1>5. ASSUME NEW c \in KeyCalls, HookLogsReturn(c)
        PROVE  KeysInv'
    <2> DEFINE call == keyCalls[c]
               logged == [call EXCEPT !.found = FALSE]
    <2>1. /\ call.op = "removing" /\ call.keeper \in living \ hooked
          /\ LogsKey(call.keeper, "returned") /\ hooked' = hooked \cup {call.keeper}
          /\ KeyCall(c, logged) /\ living' = living /\ held' = held /\ handouts' = handouts
      BY <1>5 DEF HookLogsReturn
    <2>2. /\ call \in [op: {"removing"}, keeper: Keepers, found: BOOLEAN]
          /\ logged \in KeyCallType /\ logged.op = "removing"
      <3>1. call \in [op: {"removing"}, keeper: Keepers, found: BOOLEAN]
        BY <1>0, <2>1, KeyCallTyped
      <3>2. logged \in [op: {"removing"}, keeper: Keepers, found: BOOLEAN]
        BY <3>1
      <3>3. QED
        BY <3>1, <3>2 DEF KeyCallType
    <2>3. /\ keyLog' \in [Keepers -> KeyHistory]
          /\ \A l \in Keepers, o \in KeyOps : l # call.keeper => keyLog'[l][o] = keyLog[l][o]
      <3>1. "returned" \in KeyOps /\ call.keeper \in Keepers
        BY <1>0, <2>1
      <3>2. QED
        BY <2>1, <3>1, KeyLogged DEF KeysInv
    <2>4. /\ keyCalls' \in [KeyCalls -> KeyCallType]
          /\ \A d \in KeyCalls : keyCalls'[d] = IF d = c THEN logged ELSE keyCalls[d]
      BY <1>0, <2>1, <2>2 DEF KeyCall
    <2>5. RowsRead(keyCalls)'
      <3>1. \A d \in KeyCalls : keyCalls'[d].op = "returning" => keyCalls'[d] = keyCalls[d]
        BY <2>2, <2>4
      <3>2. QED
        BY <2>1, <3>1 DEF KeysInv, RowsRead
    <2>6. LogMatchesHolders'
      <3>1. \A l \in living' \ hooked' : /\ l \in living \ hooked /\ l # call.keeper
                                         /\ l \in Keepers /\ held'[l] = held[l]
        BY <1>0, <2>1
      <3>2. \A l \in living' \ hooked' : /\ keyLog'[l]["issued"] = keyLog[l]["issued"]
                                         /\ keyLog'[l]["returned"] = keyLog[l]["returned"]
        BY <1>0, <2>3, <3>1
      <3>3. QED
        BY <3>1, <3>2 DEF KeysInv, LogMatchesHolders
    <2>7. hooked' \subseteq Keepers
      BY <1>0, <2>1
    <2>8. KeysTypeOK'
      BY <2>1, <2>3, <2>7 DEF KeysInv, KeysTypeOK
    <2>9. QED
      BY <2>1, <2>4, <2>5, <2>6, <2>8 DEF KeysInv
  <1>6. ASSUME NEW c \in KeyCalls, RemovesKeeper(c)
        PROVE  KeysInv'
    <2> DEFINE call == keyCalls[c]
               keeper == call.keeper
    <2>1. /\ call.op = "removing" /\ KeyCall(c, NoKeyCall)
          /\ handouts' = handouts /\ hooked' = hooked
          /\ keeper \in living =>
               /\ living' = living \ {keeper} /\ held' = [held EXCEPT ![keeper] = NoRow]
               /\ IF call.found THEN LogsKey(keeper, "returned") ELSE keyLog' = keyLog
          /\ keeper \notin living => living' = living /\ held' = held /\ keyLog' = keyLog
      BY <1>6 DEF RemovesKeeper
    <2>2. NoKeyCall \in KeyCallType /\ NoKeyCall.op # "returning"
      BY DEF KeyCallType, NoKeyCall
    <2>3. CASE keeper \notin living
      BY <2>1, <2>2, <2>3, KeyCallsChange
    <2>4. CASE keeper \in living
      <3>1. keeper \in Keepers /\ "returned" \in KeyOps
        BY <1>0, <2>4
      <3>2. /\ keyLog' \in [Keepers -> KeyHistory]
            /\ \A l \in Keepers, o \in KeyOps : l # keeper => keyLog'[l][o] = keyLog[l][o]
        <4>1. CASE call.found
          <5>1. LogsKey(keeper, "returned")
            BY <2>1, <2>4, <4>1
          <5>2. QED
            BY <3>1, <5>1, KeyLogged DEF KeysInv
        <4>2. CASE ~call.found
          BY <1>0, <2>1, <2>4, <4>2
        <4>3. QED
          BY <4>1, <4>2
      <3>3. /\ held' \in [Keepers -> KeyRows \cup {NoRow}]
            /\ \A l \in Keepers : held'[l] = IF l = keeper THEN NoRow ELSE held[l]
        BY <1>0, <2>1, <2>4
      <3>4. KeysTypeOK'
        BY <1>0, <2>1, <2>4, <3>2, <3>3 DEF KeysTypeOK, KeysInv
      <3>5. /\ keyCalls' \in [KeyCalls -> KeyCallType]
            /\ \A d \in KeyCalls : keyCalls'[d].op = "returning" => keyCalls'[d] = keyCalls[d]
        BY <1>0, <2>1, <2>2 DEF KeyCall
      <3>6. RowsRead(keyCalls)'
        <4> SUFFICES ASSUME NEW d \in KeyCalls, keyCalls'[d].op = "returning"
                     PROVE  /\ keyCalls'[d].row <= handouts'
                            /\ \A k \in Keepers : held'[k] = keyCalls'[d].row => k = keyCalls'[d].keeper
          BY DEF RowsRead
        <4>1. keyCalls'[d] = keyCalls[d] /\ keyCalls[d].row # NoRow
          <5>1. keyCalls'[d] = keyCalls[d] /\ keyCalls[d] \in KeyCallType
            BY <1>0, <3>5
          <5>2. QED
            BY <1>0, <5>1, KeyCallTyped
        <4>2. QED
          BY <2>1, <3>3, <4>1 DEF KeysInv, RowsRead
      <3>7. LogMatchesHolders'
        <4>1. \A l \in living' \ hooked' : /\ l \in living \ hooked /\ l # keeper /\ l \in Keepers
                                           /\ held'[l] = held[l]
          BY <1>0, <2>1, <2>4, <3>3
        <4>2. \A l \in living' \ hooked' : /\ keyLog'[l]["issued"] = keyLog[l]["issued"]
                                           /\ keyLog'[l]["returned"] = keyLog[l]["returned"]
          BY <1>0, <3>2, <4>1
        <4>3. QED
          BY <4>1, <4>2 DEF KeysInv, LogMatchesHolders
      <3>8. QED
        BY <2>1, <3>3, <3>4, <3>5, <3>6, <3>7 DEF KeysInv
    <2>5. QED
      BY <2>3, <2>4
  <1>7. ASSUME NEW c \in KeyCalls, KeyCallDies(c)
        PROVE  KeysInv'
    <2>1. NoKeyCall \in KeyCallType /\ NoKeyCall.op # "returning"
      BY DEF KeyCallType, NoKeyCall
    <2>2. QED
      BY <1>7, <2>1, KeyCallsChange DEF KeyCallDies
  <1>8. CASE UNCHANGED keyVars
    BY <1>8 DEF keyVars, KeysInv, KeysTypeOK, RowsRead, LogMatchesHolders
  <1>9. QED
    BY <1>1, <1>2, <1>3, <1>4, <1>5, <1>6, <1>7, <1>8 DEF KeysNext

-----------------------------------------------------------------------------
(***************************************************************************)
(* One loan.  LoansInv: the day of a return is never ahead of the calendar,  *)
(* so that a second return, decided on the loan as it was out, is no earlier  *)
(* than the first.                                                           *)
(***************************************************************************)
LoanCallType == {NoLoanCall} \cup [op: {"return"}] \cup [op: {"extend"}, due: LoanDays]

LoansInv ==
  /\ LoansTypeOK /\ loanCalls \in [LoanCalls -> LoanCallType]
  /\ loan.returned <= loanDay

LEMMA LoansStep ==
  ASSUME LoansInv, [LoansNext]_loanVars
  PROVE  LoansInv' /\ ReturnedLoansRest
  <1>0. /\ LastLoanDay \in Nat \ {0} /\ LoanDays = 1..LastLoanDay /\ loanDay \in LoanDays
        /\ loan \in [due: 0..LastLoanDay, returned: 0..LastLoanDay] /\ confirmed \subseteq LoanDays
        /\ loanCalls \in [LoanCalls -> LoanCallType] /\ loan.returned <= loanDay
    BY LendingAssumption DEF LoansInv, LoansTypeOK, LoanDays, Loan
  <1>1. CASE LoanDayPasses
    BY <1>0, <1>1 DEF LoanDayPasses, LoansInv, LoansTypeOK, LoanDays, Loan, ReturnedLoansRest
  <1>2. ASSUME NEW c \in LoanCalls, AsksToReturn(c)
        PROVE  LoansInv' /\ ReturnedLoansRest
    <2>1. loanCalls' \in [LoanCalls -> LoanCallType]
      BY <1>0, <1>2 DEF AsksToReturn, LoanCall, LoanCallType
    <2>2. QED
      BY <1>0, <1>2, <2>1 DEF AsksToReturn, LoansInv, LoansTypeOK, LoanDays, Loan, ReturnedLoansRest
  <1>3. ASSUME NEW c \in LoanCalls, ReturnsLoan(c)
        PROVE  LoansInv' /\ ReturnedLoansRest
    <2>1. loanCalls' \in [LoanCalls -> LoanCallType]
      BY <1>0, <1>3 DEF ReturnsLoan, LoanCall, LoanCallType
    <2>2. /\ loan' \in Loan /\ loan'.returned = loanDay /\ loan'.due = loan.due
          /\ confirmed' \subseteq LoanDays /\ loanDay' = loanDay
      BY <1>0, <1>3 DEF ReturnsLoan, Loan
    <2>3. QED
      BY <1>0, <2>1, <2>2 DEF LoansInv, LoansTypeOK, ReturnedLoansRest
  <1>4. ASSUME NEW c \in LoanCalls, ExtendsLoan(c)
        PROVE  LoansInv' /\ ReturnedLoansRest
    <2>1. loanCalls' \in [LoanCalls -> LoanCallType]
      BY <1>0, <1>4 DEF ExtendsLoan, LoanCall, LoanCallType
    <2>2. loanCalls[c].due \in LoanDays
      <3>1. loanCalls[c] \in LoanCallType /\ loanCalls[c].op = "extend"
        BY <1>0, <1>4 DEF ExtendsLoan
      <3>2. QED
        BY <3>1 DEF LoanCallType, NoLoanCall
    <2>3. /\ loan' \in Loan /\ loan'.returned = loan.returned
          /\ loan.returned # NotYet => loan' = loan
      BY <1>0, <1>4, <2>2 DEF ExtendsLoan, StillOut, Loan, NotYet
    <2>4. loanDay' = loanDay /\ confirmed' = confirmed
      BY <1>4 DEF ExtendsLoan
    <2>5. QED
      BY <1>0, <2>1, <2>3, <2>4 DEF LoansInv, LoansTypeOK, Loan, ReturnedLoansRest
  <1>5. ASSUME NEW c \in LoanCalls, NEW day \in LoanDays, AsksToExtend(c, day)
        PROVE  LoansInv' /\ ReturnedLoansRest
    <2>1. loanCalls' \in [LoanCalls -> LoanCallType]
      BY <1>0, <1>5 DEF AsksToExtend, LoanCall, LoanCallType
    <2>2. QED
      BY <1>0, <1>5, <2>1 DEF AsksToExtend, LoansInv, LoansTypeOK, LoanDays, Loan, ReturnedLoansRest
  <1>6. CASE UNCHANGED loanVars
    BY <1>0, <1>6 DEF loanVars, LoansInv, LoansTypeOK, ReturnedLoansRest, Loan
  <1>7. QED
    BY <1>1, <1>2, <1>3, <1>4, <1>5, <1>6 DEF LoansNext

-----------------------------------------------------------------------------
(***************************************************************************)
(* The bookings.  BookingsInv: the row of the location is locked by the one   *)
(* call that has found its time free, and while it is, no booking is saved    *)
(* that takes it, so that the check still holds when the booking is written.  *)
(***************************************************************************)
Want == [slots: Windows, ofEvent: BOOLEAN]
BookingCallType ==
  {NoBookingCall} \cup [op: {"book", "move", "inserts", "updates"}, id: BookingIds, want: Want]

\* The calls that have passed the check.
Cleared(c) == bookingCalls[c].op \in {"inserts", "updates"}

BookingsInv ==
  /\ BookingsTypeOK /\ bookingCalls \in [BookingCalls -> BookingCallType]
  /\ \A c \in BookingCalls :
       Cleared(c) =>
         /\ placeLock = c
         /\ \A b \in BookingIds \ {bookingCalls[c].id} :
              bookings[b].slots \cap bookingCalls[c].want.slots = {}
  /\ BookingsApart

\* A call goes on, is refused or is given up; no booking changes.
LEMMA BookingCallsChange ==
  ASSUME BookingsInv, NEW c \in BookingCalls, NEW call \in BookingCallType,
         BookingCall(c, call), UNCHANGED <<bookable, bookings, occasion, placeEdits>>,
         call.op \notin {"inserts", "updates"},
         placeLock' = IF placeLock = c THEN NoHolder ELSE placeLock
  PROVE  BookingsInv'
  <1>1. /\ bookingCalls' \in [BookingCalls -> BookingCallType]
        /\ \A d \in BookingCalls : bookingCalls'[d] = IF d = c THEN call ELSE bookingCalls[d]
    BY DEF BookingsInv, BookingCall
  <1>2. BookingsTypeOK'
    BY DEF BookingsInv, BookingsTypeOK
  <1>3. \A d \in BookingCalls :
          Cleared(d)' =>
            /\ placeLock' = d
            /\ \A b \in BookingIds \ {bookingCalls'[d].id} :
                 bookings'[b].slots \cap bookingCalls'[d].want.slots = {}
    BY <1>1 DEF BookingsInv, Cleared
  <1>4. BookingsApart'
    BY DEF BookingsInv, BookingsApart
  <1>5. QED
    BY <1>1, <1>2, <1>3, <1>4 DEF BookingsInv

\* Bookings are only given up.
LEMMA BookingsGo ==
  ASSUME BookingsInv, NEW gone, bookings' = [b \in BookingIds |-> IF b \in gone THEN AbsentBooking ELSE bookings[b]],
         UNCHANGED <<bookable, placeLock, bookingCalls>>,
         occasion' \in Windows \cup {{}}, placeEdits' \in 0..MaxPlaceEdits
  PROVE  BookingsInv'
  <1>1. /\ bookings' \in [BookingIds -> [slots: Windows \cup {{}}, ofEvent: BOOLEAN]]
        /\ \A b \in BookingIds : bookings'[b].slots \subseteq bookings[b].slots
    BY DEF BookingsInv, BookingsTypeOK, AbsentBooking
  <1>2. BookingsTypeOK'
    BY <1>1 DEF BookingsInv, BookingsTypeOK
  <1>3. BookingsApart'
    BY <1>1 DEF BookingsInv, BookingsApart
  <1>4. \A c \in BookingCalls :
          Cleared(c)' =>
            /\ placeLock' = c
            /\ \A b \in BookingIds \ {bookingCalls'[c].id} :
                 bookings'[b].slots \cap bookingCalls'[c].want.slots = {}
    BY <1>1 DEF BookingsInv, Cleared
  <1>5. QED
    BY <1>2, <1>3, <1>4 DEF BookingsInv

LEMMA BookingsStep ==
  ASSUME BookingsInv, [BookingsNext]_bookingVars
  PROVE  BookingsInv'
  <1>0. /\ bookable \in BOOLEAN /\ placeEdits \in 0..MaxPlaceEdits /\ MaxPlaceEdits \in Nat
        /\ bookings \in [BookingIds -> [slots: Windows \cup {{}}, ofEvent: BOOLEAN]]
        /\ occasion \in Windows \cup {{}} /\ placeLock \in BookingCalls \cup {NoHolder}
        /\ bookingCalls \in [BookingCalls -> BookingCallType] /\ NoHolder \notin BookingCalls
        /\ NoBookingCall \in BookingCallType /\ NoBookingCall.op = "none"
    BY LendingAssumption DEF BookingsInv, BookingsTypeOK, BookingCallType, NoBookingCall
  <1>h. ASSUME NEW c \in BookingCalls, ~Cleared(c), placeLock = c
        PROVE  \A d \in BookingCalls : ~Cleared(d)
    BY <1>h DEF BookingsInv
  <1>1. ASSUME NEW c \in BookingCalls, NEW b \in BookingIds, NEW want \in Want, AsksToBook(c, b, want)
        PROVE  BookingsInv'
    <2> DEFINE call == [op |-> "book", id |-> b, want |-> want]
    <2>1. call \in BookingCallType /\ call.op = "book"
      BY DEF BookingCallType
    <2>2. /\ BookingCall(c, call) /\ bookingCalls[c] = NoBookingCall
          /\ bookable' = bookable /\ bookings' = bookings /\ occasion' = occasion
          /\ placeLock' = placeLock /\ placeEdits' = placeEdits
      BY <1>1 DEF AsksToBook
    <2>3. /\ bookingCalls' \in [BookingCalls -> BookingCallType]
          /\ \A d \in BookingCalls : Cleared(d)' => Cleared(d) /\ bookingCalls'[d] = bookingCalls[d]
      BY <1>0, <2>1, <2>2 DEF BookingCall, Cleared
    <2>4. QED
      BY <2>2, <2>3 DEF BookingsInv, BookingsTypeOK, BookingsApart
  <1>2. ASSUME NEW c \in BookingCalls, NEW b \in BookingIds, NEW slots \in Windows,
               NEW ofEvent \in BOOLEAN, AsksToMove(c, b, slots, ofEvent)
        PROVE  BookingsInv'
    <2> DEFINE call == [op |-> "move", id |-> b, want |-> [slots |-> slots, ofEvent |-> ofEvent]]
    <2>1. call \in BookingCallType /\ call.op = "move"
      BY DEF BookingCallType, Want
    <2>2. /\ BookingCall(c, call) /\ bookingCalls[c] = NoBookingCall
          /\ bookable' = bookable /\ bookings' = bookings /\ occasion' = occasion
          /\ placeLock' = placeLock /\ placeEdits' = placeEdits
      BY <1>2 DEF AsksToMove
    <2>3. /\ bookingCalls' \in [BookingCalls -> BookingCallType]
          /\ \A d \in BookingCalls : Cleared(d)' => Cleared(d) /\ bookingCalls'[d] = bookingCalls[d]
      BY <1>0, <2>1, <2>2 DEF BookingCall, Cleared
    <2>4. QED
      BY <2>2, <2>3 DEF BookingsInv, BookingsTypeOK, BookingsApart
  <1>3. ASSUME NEW c \in BookingCalls, ChecksPlace(c)
        PROVE  BookingsInv'
    <2> DEFINE call == bookingCalls[c]
               saves == [call EXCEPT !.op = IF call.op = "book" THEN "inserts" ELSE "updates"]
    <2>1. /\ call.op \in {"book", "move"} /\ placeLock = NoHolder
          /\ bookable' = bookable /\ bookings' = bookings /\ occasion' = occasion
          /\ placeEdits' = placeEdits
      BY <1>3 DEF ChecksPlace, PlaceFree
    <2>2. CASE (call.op = "book" /\ ~bookable) \/ Busy(call.id, call.want)
      <3>1. BookingCall(c, NoBookingCall) /\ placeLock' = placeLock
        BY <1>3, <2>2 DEF ChecksPlace
      <3>2. QED
        BY <1>0, <2>1, <3>1, BookingCallsChange
    <2>3. CASE ~((call.op = "book" /\ ~bookable) \/ Busy(call.id, call.want))
      <3>1. placeLock' = c /\ BookingCall(c, saves)
        BY <1>3, <2>3 DEF ChecksPlace
      <3>2. /\ call \in [op: {"book", "move", "inserts", "updates"}, id: BookingIds, want: Want]
            /\ saves \in BookingCallType /\ saves.id = call.id /\ saves.want = call.want
        <4>1. call \in [op: {"book", "move", "inserts", "updates"}, id: BookingIds, want: Want]
          BY <1>0, <2>1 DEF BookingCallType
        <4>2. saves \in [op: {"book", "move", "inserts", "updates"}, id: BookingIds, want: Want]
          BY <4>1
        <4>3. QED
          BY <4>1, <4>2 DEF BookingCallType
      <3>3. \A b \in BookingIds \ {call.id} : bookings[b].slots \cap call.want.slots = {}
        BY <2>3 DEF Busy
      <3>4. \A d \in BookingCalls : ~Cleared(d)
        BY <1>0, <2>1 DEF BookingsInv
      <3>5. /\ bookingCalls' \in [BookingCalls -> BookingCallType]
            /\ \A d \in BookingCalls : bookingCalls'[d] = IF d = c THEN saves ELSE bookingCalls[d]
        BY <1>0, <3>1, <3>2 DEF BookingCall
      <3>6. \A d \in BookingCalls :
              Cleared(d)' =>
                /\ placeLock' = d
                /\ \A b \in BookingIds \ {bookingCalls'[d].id} :
                     bookings'[b].slots \cap bookingCalls'[d].want.slots = {}
        <4> SUFFICES ASSUME NEW d \in BookingCalls, Cleared(d)'
                     PROVE  /\ placeLock' = d
                            /\ \A b \in BookingIds \ {bookingCalls'[d].id} :
                                 bookings'[b].slots \cap bookingCalls'[d].want.slots = {}
          OBVIOUS
        <4>1. d = c /\ bookingCalls'[d] = saves
          BY <3>4, <3>5 DEF Cleared
        <4>2. QED
          BY <2>1, <3>1, <3>2, <3>3, <4>1
      <3>7. QED
        BY <1>0, <2>1, <3>1, <3>5, <3>6 DEF BookingsInv, BookingsTypeOK, BookingsApart
    <2>4. QED
      BY <2>2, <2>3
  <1>4. ASSUME NEW c \in BookingCalls, SavesBooking(c)
        PROVE  BookingsInv'
    <2> DEFINE call == bookingCalls[c]
    <2>1. /\ call.op \in {"inserts", "updates"} /\ Cleared(c)
          /\ bookings' = bookings \/ bookings' = [bookings EXCEPT ![call.id] = call.want]
          /\ placeLock' = NoHolder /\ BookingCall(c, NoBookingCall)
          /\ bookable' = bookable /\ occasion' = occasion /\ placeEdits' = placeEdits
      BY <1>4 DEF SavesBooking, Cleared
    <2>2. /\ placeLock = c
          /\ \A b \in BookingIds \ {call.id} : bookings[b].slots \cap call.want.slots = {}
      BY <2>1 DEF BookingsInv
    <2>3. call.id \in BookingIds /\ call.want \in [slots: Windows, ofEvent: BOOLEAN]
      BY <1>0, <2>1 DEF BookingCallType, Want
    <2>4. /\ bookingCalls' \in [BookingCalls -> BookingCallType]
          /\ \A d \in BookingCalls : bookingCalls'[d] = IF d = c THEN NoBookingCall ELSE bookingCalls[d]
      BY <1>0, <2>1 DEF BookingCall
    <2>5. \A d \in BookingCalls : ~Cleared(d)'
      BY <1>0, <2>2, <2>4 DEF BookingsInv, Cleared
    <2>6. bookings' \in [BookingIds -> [slots: Windows \cup {{}}, ofEvent: BOOLEAN]]
      <3>1. call.want \in [slots: Windows \cup {{}}, ofEvent: BOOLEAN]
        BY <2>3
      <3>2. QED
        BY <1>0, <2>1, <2>3, <3>1
    <2>7. BookingsApart'
      <3>1. CASE bookings' = bookings
        BY <3>1 DEF BookingsInv, BookingsApart
      <3>2. CASE bookings' = [bookings EXCEPT ![call.id] = call.want]
        <4>1. \A b \in BookingIds : bookings'[b] = IF b = call.id THEN call.want ELSE bookings[b]
          BY <1>0, <3>2
        <4>2. QED
          BY <2>2, <4>1 DEF BookingsInv, BookingsApart
      <3>3. QED
        BY <2>1, <3>1, <3>2
    <2>8. QED
      BY <1>0, <2>1, <2>4, <2>5, <2>6, <2>7 DEF BookingsInv, BookingsTypeOK
  <1>5. ASSUME NEW c \in BookingCalls, BookingFails(c)
        PROVE  BookingsInv'
    BY <1>0, <1>5, BookingCallsChange DEF BookingFails
  <1>6. ASSUME NEW b \in BookingIds, DeletesBooking(b)
        PROVE  BookingsInv'
    <2>1. bookings' = [d \in BookingIds |-> IF d \in {b} THEN AbsentBooking ELSE bookings[d]]
      BY <1>0, <1>6 DEF DeletesBooking
    <2>2. QED
      BY <1>0, <1>6, <2>1, BookingsGo DEF DeletesBooking
  <1>7. ASSUME NEW slots \in Windows \cup {{}}, SavesOccasion(slots)
        PROVE  BookingsInv'
    <2>1. bookings' = [d \in BookingIds |-> IF d \in {} THEN AbsentBooking ELSE bookings[d]]
      BY <1>0, <1>7 DEF SavesOccasion
    <2>2. placeEdits' \in 0..MaxPlaceEdits /\ occasion' \in Windows \cup {{}}
      BY <1>0, <1>7 DEF SavesOccasion
    <2>3. QED
      BY <1>7, <2>1, <2>2, BookingsGo DEF SavesOccasion
  <1>8. CASE DeletesOccasion
    <2> DEFINE gone == {b \in BookingIds : bookings[b].ofEvent}
    <2>1. bookings' = [d \in BookingIds |-> IF d \in gone THEN AbsentBooking ELSE bookings[d]]
      BY <1>8 DEF DeletesOccasion
    <2>2. placeEdits' \in 0..MaxPlaceEdits /\ occasion' \in Windows \cup {{}}
      BY <1>0, <1>8 DEF DeletesOccasion
    <2>3. QED
      BY <1>8, <2>1, <2>2, BookingsGo DEF DeletesOccasion
  <1>9. CASE TogglesBookable
    <2>1. /\ bookable' \in BOOLEAN /\ placeEdits' \in 0..MaxPlaceEdits /\ bookings' = bookings
          /\ occasion' = occasion /\ placeLock' = placeLock /\ bookingCalls' = bookingCalls
      BY <1>0, <1>9 DEF TogglesBookable
    <2>2. QED
      BY <2>1 DEF BookingsInv, BookingsTypeOK, BookingsApart, Cleared
  <1>10. CASE UNCHANGED bookingVars
    BY <1>10 DEF bookingVars, BookingsInv, BookingsTypeOK, BookingsApart, Cleared
  <1>11. QED
    BY <1>1, <1>2, <1>3, <1>4, <1>5, <1>6, <1>7, <1>8, <1>9, <1>10 DEF BookingsNext, Want

\* LendingPromise, for any keepers, calls and days: the log of the keys matches
\* who holds them, a loan that came back is not out again, and no two bookings of
\* the location overlap.
THEOREM LendingIsSound == KeysSpec /\ LoansSpec /\ BookingsSpec => LendingPromise
  <1>1. KeysSpec => [](KeysTypeOK /\ LogMatchesHolders)
    <2>1. KeysInv => KeysTypeOK /\ LogMatchesHolders
      BY DEF KeysInv
    <2>2. QED
      BY <2>1, KeysInvInit, KeysStep, PTL DEF KeysSpec
  <1>2. LoansSpec => LoansPromise
    <2>1. LoansInit => LoansInv
      <3> SUFFICES ASSUME LoansInit PROVE LoansInv
        OBVIOUS
      <3>1. /\ LastLoanDay \in Nat \ {0} /\ loan \in [due: {0, 1}, returned: {0}] /\ loanDay = 1
            /\ confirmed = {} /\ loanCalls \in [LoanCalls -> LoanCallType]
        BY LendingAssumption DEF LoansInit, LoanCallType, NotYet
      <3>2. QED
        BY <3>1 DEF LoansInv, LoansTypeOK, LoanDays, Loan
    <2>2. LoansInv => LoansTypeOK
      BY DEF LoansInv
    <2>3. LoansInv /\ [LoansNext]_loanVars => LoansInv' /\ [ReturnedLoansRest]_loanVars
      BY LoansStep
    <2>4. QED
      BY <2>1, <2>2, <2>3, PTL DEF LoansSpec, LoansPromise
  <1>3. BookingsSpec => [](BookingsTypeOK /\ BookingsApart)
    <2>1. BookingsInit => BookingsInv
      BY LendingAssumption
      DEF BookingsInit, BookingsInv, BookingsTypeOK, BookingsApart, BookingCallType, Cleared,
          AbsentBooking, NoBookingCall
    <2>2. BookingsInv => BookingsTypeOK /\ BookingsApart
      BY DEF BookingsInv
    <2>3. QED
      BY <2>1, <2>2, BookingsStep, PTL DEF BookingsSpec
  <1>4. QED
    BY <1>1, <1>2, <1>3, PTL DEF LendingPromise

-----------------------------------------------------------------------------
(***************************************************************************)
(* The helper plan.  HelpersInv adds to the properties what the locks keep:   *)
(* no two calls hold the same person or the same shift, and what a call has   *)
(* checked under its locks is still true when it writes.                     *)
(***************************************************************************)
PersonOps == {"signup", "withdraw", "accept"}

\* The people and the shift whose locks a call holds.
HoldsPeople(call) ==
  {p \in People : (call.op \in PersonOps /\ call.who = p) \/ (call.op = "move" /\ p \in call.mine)}
HoldsRow(call) ==
  call.op = "move" \/ (call.op \in {"signup", "accept"} /\ call.step = "checked")

LocksApart ==
  \A c, d \in Callers :
    c # d => /\ HoldsPeople(calls[c]) \cap HoldsPeople(calls[d]) = {}
             /\ HoldsRow(calls[c]) /\ HoldsRow(calls[d]) => calls[c].shift # calls[d].shift

\* What each kind of call has checked.
SignupIsFine(call) ==
  /\ plan[call.shift] # NoShift /\ <<call.shift, call.who>> \notin signups
  /\ Cardinality(HelpersOf(call.shift)) < plan[call.shift].room
  /\ ~Overlapping(call.who, plan[call.shift].slot, call.shift)

TakeoverIsFine(call) ==
  /\ call.from # call.who /\ offers[<<call.shift, call.from>>] \in {call.who, Anybody}
  /\ <<call.shift, call.who>> \notin signups
  /\ ~Overlapping(call.who, plan[call.shift].slot, call.shift)

MoveIsFine(call) ==
  /\ plan[call.shift] # NoShift
  /\ Cardinality(HelpersOf(call.shift)) <= call.to.room
  /\ call.to.slot = plan[call.shift].slot \/ HelpersOf(call.shift) \subseteq call.left \cup call.mine
  /\ \A p \in call.mine : ~Overlapping(p, call.to.slot, call.shift)

StillFine(call) ==
  /\ call.op = "signup" /\ call.step = "checked" => SignupIsFine(call)
  /\ call.op = "accept" /\ call.step = "checked" => TakeoverIsFine(call)
  /\ call.op = "move" => MoveIsFine(call)

HelpersInv ==
  /\ HelpersTypeOK /\ IsFiniteSet(signups)
  /\ NoDoubleShift /\ ShiftsHaveRoom
  /\ LocksApart
  /\ \A c \in Callers : StillFine(calls[c])

CallType == {NoCall} \cup PersonCall \cup MoveCall \cup RemoveCall

\* What the type of a call says of each kind of call.
LEMMA CallTyped ==
  ASSUME NEW call \in CallType
  PROVE  /\ call.op \in PersonOps => call \in PersonCall
         /\ call.op = "move" => call \in MoveCall
         /\ call.op = "remove" => call \in RemoveCall
         /\ HoldsRow(call) => call.shift \in Shifts
  BY DEF CallType, NoCall, PersonCall, MoveCall, RemoveCall, PersonOps, HoldsRow

LEMMA OverlapSymmetric == \A a, b : Overlap(a, b) => Overlap(b, a)
  BY DEF Overlap

\* Whoever is held by nobody else is in no other call's hands.
LEMMA HeldByNobodyElse ==
  ASSUME NEW c \in Callers, NEW p \in People, p \notin PeopleHeld(c)
  PROVE  \A d \in Callers \ {c} : p \notin HoldsPeople(calls[d])
  <1> SUFFICES ASSUME NEW d \in Callers \ {c}, p \in HoldsPeople(calls[d])
               PROVE  p \in PeopleHeld(c)
    OBVIOUS
  <1>1. CASE calls[d].op \in PersonOps
    BY <1>1 DEF HoldsPeople, PeopleHeld, PersonOps
  <1>2. CASE calls[d].op = "move"
    <2>1. p \in calls[d].mine /\ calls[d].op \notin PersonOps
      BY <1>2 DEF HoldsPeople, PersonOps
    <2>2. QED
      BY <1>2, <2>1 DEF PeopleHeld, PersonOps
  <1>3. QED
    BY <1>1, <1>2 DEF HoldsPeople

\* The row of a shift that no other call holds.
LEMMA RowHeldByNobodyElse ==
  ASSUME NEW c \in Callers, NEW s \in Shifts, s \notin ShiftsHeld(c)
  PROVE  \A d \in Callers \ {c} : HoldsRow(calls[d]) => calls[d].shift # s
  BY DEF ShiftsHeld, HoldsShift, HoldsRow

\* A step that writes no shift and no sign-up keeps the invariant, if the call it
\* changes took only free locks and has checked what it goes by.
LEMMA CallsOnly ==
  ASSUME HelpersInv, NEW c \in Callers, NEW call \in CallType,
         calls' = [calls EXCEPT ![c] = call],
         plan' = plan, signups' = signups, offers' = offers, helping' = helping,
         \A d \in Callers \ {c} :
           /\ HoldsPeople(call) \cap HoldsPeople(calls[d]) = {}
           /\ HoldsRow(call) /\ HoldsRow(calls[d]) => call.shift # calls[d].shift,
         StillFine(call)
  PROVE  HelpersInv'
  <1>1. /\ calls' \in [Callers -> CallType]
        /\ \A d \in Callers : calls'[d] = IF d = c THEN call ELSE calls[d]
    BY DEF HelpersInv, HelpersTypeOK, CallType
  <1>2. HelpersTypeOK'
    BY <1>1 DEF HelpersInv, HelpersTypeOK, CallType
  <1>3. NoDoubleShift' /\ ShiftsHaveRoom' /\ IsFiniteSet(signups)'
    BY DEF HelpersInv, NoDoubleShift, ShiftsHaveRoom, HelpersOf
  <1>4. LocksApart'
    <2> SUFFICES ASSUME NEW a \in Callers, NEW b \in Callers, a # b
                 PROVE  /\ HoldsPeople(calls'[a]) \cap HoldsPeople(calls'[b]) = {}
                        /\ HoldsRow(calls'[a]) /\ HoldsRow(calls'[b])
                             => calls'[a].shift # calls'[b].shift
      BY DEF LocksApart, HoldsPeople, HoldsRow
    <2>1. CASE a = c
      BY <1>1, <2>1
    <2>2. CASE b = c
      BY <1>1, <2>2
    <2>3. CASE a # c /\ b # c
      BY <1>1, <2>3 DEF HelpersInv, LocksApart
    <2>4. QED
      BY <2>1, <2>2, <2>3
  <1>5. ASSUME NEW d \in Callers PROVE StillFine(calls[d])'
    <2>1. StillFine(calls'[d])
      BY <1>1 DEF HelpersInv
    <2>2. QED
      BY <2>1 DEF StillFine, SignupIsFine, TakeoverIsFine, MoveIsFine, HelpersOf, Overlapping
  <1>6. QED
    BY <1>2, <1>3, <1>4, <1>5 DEF HelpersInv

\* A call that ends, or is only begun, holds and has checked less than before.
LEMMA EndedCallHoldsNothing ==
  /\ NoCall \in CallType /\ HoldsPeople(NoCall) = {} /\ ~HoldsRow(NoCall) /\ StillFine(NoCall)
  BY DEF CallType, NoCall, HoldsPeople, HoldsRow, StillFine, PersonOps

\* What a call has checked of its shift and its people holds on, if the shift, who
\* is on it and the requests on it stay, and its people sign up for nothing.
Undisturbed(call) ==
  LET s == call.shift IN
    /\ plan'[s] = plan[s]
    /\ \A q \in People : /\ offers'[<<s, q>>] = offers[<<s, q>>]
                         /\ <<s, q>> \in signups' <=> <<s, q>> \in signups
    /\ \A p \in HoldsPeople(call), t \in Shifts \ {s} :
         <<t, p>> \in signups' => <<t, p>> \in signups /\ plan'[t].slot = plan[t].slot

LEMMA StaysFine ==
  ASSUME HelpersInv, NEW d \in Callers, calls'[d] = calls[d],
         HoldsRow(calls[d]) => Undisturbed(calls[d])
  PROVE  StillFine(calls[d])'
  <1> DEFINE call == calls[d]
  <1>0. call \in CallType /\ StillFine(call)
    BY DEF HelpersInv, HelpersTypeOK, CallType
  <1>1. CASE ~HoldsRow(call)
    BY <1>1 DEF StillFine, HoldsRow
  <1>2. CASE HoldsRow(call)
    <2>1. call.shift \in Shifts /\ Undisturbed(call)
      BY <1>0, <1>2, CallTyped
    <2>0. HelpersOf(call.shift)' = HelpersOf(call.shift)
      BY <2>1 DEF Undisturbed, HelpersOf
    <2>2. ASSUME NEW p \in HoldsPeople(call), NEW slot, ~Overlapping(p, slot, call.shift)
          PROVE  ~Overlapping(p, slot, call.shift)'
      BY <2>1, <2>2 DEF Overlapping, Undisturbed
    <2>3. ASSUME call.op = "signup" \/ call.op = "accept"
          PROVE  /\ call.who \in HoldsPeople(call) /\ call.who \in People
                 /\ call.op = "accept" => call.from \in People
      <3>1. call \in PersonCall
        BY <1>0, <2>3, CallTyped DEF PersonOps
      <3>2. QED
        BY <2>3, <3>1 DEF PersonCall, HoldsPeople, PersonOps
    <2>4. ASSUME call.op = "signup", call.step = "checked" PROVE SignupIsFine(call)'
      <3>1. SignupIsFine(call)
        BY <1>0, <2>4 DEF StillFine
      <3>2. ~Overlapping(call.who, plan[call.shift].slot, call.shift)'
        BY <2>1, <2>2, <2>3, <2>4, <3>1 DEF SignupIsFine, Undisturbed
      <3>3. QED
        BY <2>0, <2>1, <2>3, <2>4, <3>1, <3>2 DEF SignupIsFine, Undisturbed
    <2>5. ASSUME call.op = "accept", call.step = "checked" PROVE TakeoverIsFine(call)'
      <3>1. TakeoverIsFine(call)
        BY <1>0, <2>5 DEF StillFine
      <3>2. ~Overlapping(call.who, plan[call.shift].slot, call.shift)'
        BY <2>1, <2>2, <2>3, <2>5, <3>1 DEF TakeoverIsFine, Undisturbed
      <3>3. QED
        BY <2>1, <2>3, <2>5, <3>1, <3>2 DEF TakeoverIsFine, Undisturbed
    <2>6. ASSUME call.op = "move" PROVE MoveIsFine(call)'
      <3>1. MoveIsFine(call) /\ call \in MoveCall
        BY <1>0, <2>6, CallTyped DEF StillFine
      <3>2. \A p \in call.mine : p \in HoldsPeople(call)
        BY <2>6, <3>1 DEF MoveCall, HoldsPeople
      <3>3. \A p \in call.mine : ~Overlapping(p, call.to.slot, call.shift)'
        BY <2>2, <3>1, <3>2 DEF MoveIsFine
      <3>4. QED
        BY <2>0, <2>1, <3>1, <3>3 DEF MoveIsFine, Undisturbed
    <2>7. QED
      BY <2>4, <2>5, <2>6 DEF StillFine
  <1>3. QED
    BY <1>1, <1>2

\* The sign-ups of a shift are as many as the people on it, finitely many.
SignupsOf(s, all) == {e \in all : e[1] = s}

LEMMA HelpersCounted ==
  ASSUME signups \in SUBSET Signup, IsFiniteSet(signups), NEW s \in Shifts
  PROVE  /\ IsFiniteSet(HelpersOf(s))
         /\ Cardinality(HelpersOf(s)) \in Nat
         /\ Cardinality(SignupsOf(s, signups)) = Cardinality(HelpersOf(s))
  <1> DEFINE S == HelpersOf(s)
             T == SignupsOf(s, signups)
             f == [p \in S |-> <<s, p>>]
  <1>1. f \in [S -> T] /\ \A p, q \in S : f[p] = f[q] => p = q
    BY DEF HelpersOf, SignupsOf
  <1>2. \A e \in T : e[2] \in S /\ f[e[2]] = e
    BY DEF HelpersOf, SignupsOf, Signup
  <1>3. f \in Bijection(S, T) /\ f \in Injection(S, T)
    BY <1>1, <1>2 DEF Bijection, Injection, Surjection, IsInjective
  <1>4. T \in SUBSET signups
    BY DEF SignupsOf
  <1>5. IsFiniteSet(T)
    BY <1>4, FS_Subset
  <1>6. IsFiniteSet(S)
    BY <1>3, <1>5, FS_Injection
  <1>7. ExistsBijection(S, T)
    BY <1>3 DEF ExistsBijection
  <1>8. Cardinality(T) = Cardinality(S)
    BY <1>6, <1>7, FS_Bijection
  <1>9. Cardinality(S) \in Nat
    BY <1>6, FS_CardinalityType
  <1>10. QED
    BY <1>6, <1>8, <1>9

\* What a writing step has to show: a call ends or none does, and the calls that go on
\* are undisturbed.
LEMMA CallWrites ==
  ASSUME HelpersInv, NEW ended \in SUBSET Callers,
         calls' = [d \in Callers |-> IF d \in ended THEN NoCall ELSE calls[d]],
         plan' \in [Shifts -> Shift \cup {NoShift}],
         signups' \subseteq {e \in Signup : plan'[e[1]] # NoShift},
         offers' \in [Signup -> People \cup {Anybody, NoOffer}],
         \A e \in Signup : offers'[e] # NoOffer => e \in signups',
         helping' \in BOOLEAN, IsFiniteSet(signups'),
         NoDoubleShift', ShiftsHaveRoom',
         \A d \in Callers \ ended : HoldsRow(calls[d]) => Undisturbed(calls[d])
  PROVE  HelpersInv'
  <1>1. /\ calls \in [Callers -> CallType] /\ calls' \in [Callers -> CallType]
        /\ \A d \in Callers : calls'[d] = IF d \in ended THEN NoCall ELSE calls[d]
    BY EndedCallHoldsNothing DEF HelpersInv, HelpersTypeOK, CallType
  <1>2. HelpersTypeOK'
    BY <1>1 DEF HelpersTypeOK, CallType
  <1>3. LocksApart'
    <2> SUFFICES ASSUME NEW a \in Callers, NEW b \in Callers, a # b
                 PROVE  /\ HoldsPeople(calls'[a]) \cap HoldsPeople(calls'[b]) = {}
                        /\ HoldsRow(calls'[a]) /\ HoldsRow(calls'[b])
                             => calls'[a].shift # calls'[b].shift
      BY DEF LocksApart, HoldsPeople, HoldsRow
    <2>1. CASE a \in ended \/ b \in ended
      BY <1>1, <2>1, EndedCallHoldsNothing
    <2>2. CASE a \notin ended /\ b \notin ended
      BY <1>1, <2>2 DEF HelpersInv, LocksApart
    <2>3. QED
      BY <2>1, <2>2
  <1>4. ASSUME NEW d \in Callers PROVE StillFine(calls[d])'
    <2>1. CASE d \in ended
      BY <1>1, <2>1 DEF StillFine, NoCall
    <2>2. CASE d \notin ended
      BY <1>1, <2>2, StaysFine
    <2>3. QED
      BY <2>1, <2>2
  <1>5. QED
    BY <1>2, <1>3, <1>4 DEF HelpersInv

\* Calls that hold other locks than the one that writes: their shift is another, and
\* none of their people is the one it writes for.
LEMMA OthersAreElsewhere ==
  ASSUME HelpersInv, NEW c \in Callers, NEW d \in Callers \ {c}
  PROVE  /\ HoldsRow(calls[c]) /\ HoldsRow(calls[d]) => calls[d].shift # calls[c].shift
         /\ calls[c].op \in PersonOps => calls[c].who \notin HoldsPeople(calls[d])
         /\ calls[c].op = "move" => \A p \in calls[c].mine : p \notin HoldsPeople(calls[d])
  <1>1. /\ HoldsPeople(calls[c]) \cap HoldsPeople(calls[d]) = {}
        /\ HoldsRow(calls[c]) /\ HoldsRow(calls[d]) => calls[c].shift # calls[d].shift
    BY DEF HelpersInv, LocksApart
  <1>2. calls[c] \in CallType
    BY DEF HelpersInv, HelpersTypeOK, CallType
  <1>3. calls[c].op \in PersonOps => calls[c].who \in HoldsPeople(calls[c])
    BY <1>2, CallTyped DEF PersonCall, HoldsPeople, PersonOps
  <1>4. calls[c].op = "move" => \A p \in calls[c].mine : p \in HoldsPeople(calls[c])
    BY <1>2, CallTyped DEF MoveCall, HoldsPeople
  <1>5. QED
    BY <1>1, <1>3, <1>4

\* One person takes a place on a shift, a place that is free or that another gives up.
PlaceTaken(s, p, given) ==
  /\ given \subseteq signups /\ (\A e \in given : e[1] = s)
  /\ <<s, p>> \notin signups /\ plan[s] # NoShift /\ ~Overlapping(p, plan[s].slot, s)
  /\ signups' = (signups \ given) \cup {<<s, p>>} /\ plan' = plan

LEMMA TakesAPlace ==
  ASSUME HelpersInv, NEW s \in Shifts, NEW p \in People, NEW given, PlaceTaken(s, p, given)
  PROVE  /\ NoDoubleShift' /\ IsFiniteSet(signups')
         /\ signups' \subseteq {e \in Signup : plan'[e[1]] # NoShift}
         /\ \A t \in Shifts \ {s} : HelpersOf(t)' = HelpersOf(t)
         /\ \A q \in People :
              <<s, q>> \in signups' <=> q = p \/ (<<s, q>> \in signups /\ <<s, q>> \notin given)
         /\ \A t \in Shifts, q \in People \ {p} : <<t, q>> \in signups' => <<t, q>> \in signups
  <1> USE DEF PlaceTaken
  <1>1. signups \subseteq {e \in Signup : plan[e[1]] # NoShift} /\ IsFiniteSet(signups)
    BY DEF HelpersInv, HelpersTypeOK
  <1>2. IsFiniteSet(signups')
    <2>1. signups \ given \in SUBSET signups
      OBVIOUS
    <2>2. IsFiniteSet(signups \ given)
      BY <1>1, <2>1, FS_Subset
    <2>3. QED
      BY <2>2, FS_AddElement
  <1>3. signups' \subseteq {e \in Signup : plan'[e[1]] # NoShift}
    BY <1>1 DEF Signup
  <1>4. \A t \in Shifts, q \in People :
          <<t, q>> \in signups' <=> \/ t = s /\ q = p
                                    \/ <<t, q>> \in signups /\ <<t, q>> \notin given
    OBVIOUS
  <1>5. \A t \in Shifts \ {s}, q \in People : <<t, q>> \notin given
    OBVIOUS
  <1>6. \A t \in Shifts \ {s} : HelpersOf(t)' = HelpersOf(t)
    BY <1>4, <1>5 DEF HelpersOf
  <1>8. NoDoubleShift'
    <2> SUFFICES ASSUME NEW q \in People, NEW a \in Shifts, NEW b \in Shifts, a # b,
                        <<a, q>> \in signups', <<b, q>> \in signups'
                 PROVE  ~Overlap(plan[a].slot, plan[b].slot)
      BY DEF NoDoubleShift
    <2>1. CASE q = p /\ a = s
      <3>1. <<b, p>> \in signups /\ b \in Shifts \ {s}
        BY <1>4, <2>1
      <3>2. QED
        BY <2>1, <3>1, OverlapSymmetric DEF Overlapping
    <2>2. CASE q = p /\ b = s
      <3>1. <<a, p>> \in signups /\ a \in Shifts \ {s}
        BY <1>4, <2>2
      <3>2. QED
        BY <2>2, <3>1 DEF Overlapping
    <2>3. CASE ~(q = p /\ (a = s \/ b = s))
      <3>1. <<a, q>> \in signups /\ <<b, q>> \in signups
        BY <1>4, <2>3
      <3>2. QED
        BY <3>1 DEF HelpersInv, NoDoubleShift
    <2>4. QED
      BY <2>1, <2>2, <2>3
  <1>9. QED
    BY <1>2, <1>3, <1>4, <1>6, <1>8

LEMMA SignsUpStep ==
  ASSUME HelpersInv, NEW c \in Callers, SignsUp(c)
  PROVE  HelpersInv' /\ signups \subseteq signups'
  <1> DEFINE call == calls[c]
  <1>0. call \in CallType /\ StillFine(call)
    BY DEF HelpersInv, HelpersTypeOK, CallType
  <1>1. /\ call.op = "signup" /\ call.step = "checked"
        /\ signups' = signups \cup {<<call.shift, call.who>>}
        /\ calls' = [calls EXCEPT ![c] = NoCall]
        /\ plan' = plan /\ offers' = offers /\ helping' = helping
    BY DEF SignsUp, EndsCall
  <1>2. /\ call \in PersonCall /\ HoldsRow(call) /\ SignupIsFine(call)
        /\ call.op \in PersonOps
    BY <1>0, <1>1, CallTyped DEF PersonOps, StillFine, HoldsRow
  <1>3. PICK s \in Shifts, p \in People : s = call.shift /\ p = call.who
    BY <1>2 DEF PersonCall
  <1>4. /\ plan[s] # NoShift /\ <<s, p>> \notin signups /\ ~Overlapping(p, plan[s].slot, s)
        /\ Cardinality(HelpersOf(s)) < plan[s].room /\ signups' = signups \cup {<<s, p>>}
    BY <1>1, <1>2, <1>3 DEF SignupIsFine
  <1>5. /\ NoDoubleShift' /\ IsFiniteSet(signups')
        /\ signups' \subseteq {e \in Signup : plan'[e[1]] # NoShift}
        /\ \A t \in Shifts \ {s} : HelpersOf(t)' = HelpersOf(t)
        /\ HelpersOf(s)' = HelpersOf(s) \cup {p}
        /\ \A t \in Shifts, q \in People \ {p} : <<t, q>> \in signups' => <<t, q>> \in signups
    <2>1. PlaceTaken(s, p, {})
      BY <1>1, <1>4 DEF PlaceTaken
    <2>2. HelpersOf(s)' = HelpersOf(s) \cup {p}
      BY <1>4 DEF HelpersOf
    <2>3. QED
      BY <2>1, <2>2, TakesAPlace
  <1>6. ShiftsHaveRoom'
    <2> SUFFICES ASSUME NEW t \in Shifts, plan[t] # NoShift
                 PROVE  Cardinality(HelpersOf(t)') <= plan[t].room
      BY <1>1 DEF ShiftsHaveRoom
    <2>1. CASE t = s
      <3>1. plan[s].room \in Nat
        BY <1>4, HelpersAssumption DEF HelpersInv, HelpersTypeOK, Shift
      <3>2. IsFiniteSet(HelpersOf(s)) /\ Cardinality(HelpersOf(s)) \in Nat
        BY HelpersCounted DEF HelpersInv, HelpersTypeOK
      <3>3. p \notin HelpersOf(s)
        BY <1>4 DEF HelpersOf
      <3>4. Cardinality(HelpersOf(s) \cup {p}) = Cardinality(HelpersOf(s)) + 1
        BY <3>2, <3>3, FS_AddElement
      <3>5. Cardinality(HelpersOf(s)') <= plan[s].room
        BY <1>4, <1>5, <3>1, <3>2, <3>4
      <3>6. QED
        BY <2>1, <3>5
    <2>2. CASE t # s
      BY <1>5, <2>2 DEF HelpersInv, ShiftsHaveRoom
    <2>3. QED
      BY <2>1, <2>2
  <1>7. ASSUME NEW d \in Callers \ {c}, HoldsRow(calls[d])
        PROVE  Undisturbed(calls[d])
    <2>1. calls[d].shift \in Shifts \ {s} /\ p \notin HoldsPeople(calls[d])
      <3>1. calls[d] \in CallType
        BY DEF HelpersInv, HelpersTypeOK, CallType
      <3>2. QED
        BY <1>2, <1>3, <1>7, <3>1, CallTyped, OthersAreElsewhere
    <2>2. \A q \in People : <<calls[d].shift, q>> \in signups' <=> <<calls[d].shift, q>> \in signups
      BY <1>4, <2>1
    <2>3. HoldsPeople(calls[d]) \subseteq People
      BY DEF HoldsPeople
    <2>4. QED
      BY <1>1, <1>5, <2>1, <2>2, <2>3 DEF Undisturbed
  <1>8. HelpersInv'
    <2>1. {c} \in SUBSET Callers
          /\ calls' = [d \in Callers |-> IF d \in {c} THEN NoCall ELSE calls[d]]
      BY <1>1 DEF HelpersInv, HelpersTypeOK
    <2>2. /\ plan' \in [Shifts -> Shift \cup {NoShift}] /\ helping' \in BOOLEAN
          /\ offers' \in [Signup -> People \cup {Anybody, NoOffer}]
          /\ \A e \in Signup : offers'[e] # NoOffer => e \in signups'
      BY <1>1 DEF HelpersInv, HelpersTypeOK
    <2>3. QED
      BY <1>5, <1>6, <1>7, <2>1, <2>2, CallWrites
  <1>9. QED
    BY <1>4, <1>8

\* The condition of TakeoverHasOneWinner on one step.
HasOneWinner ==
  \A e \in signups : offers[e] # NoOffer /\ e \notin signups' /\ plan'[e[1]] # NoShift
       => \/ \E c \in Callers : WithdrawsFrom(c)
          \/ Cardinality({f \in signups' : f[1] = e[1]}) = Cardinality(HelpersOf(e[1]))

\* A takeover removes one helper and adds another.
LEMMA TakesOverStep ==
  ASSUME HelpersInv, NEW c \in Callers, TakesOver(c)
  PROVE  HelpersInv' /\ HasOneWinner
  <1> DEFINE call == calls[c]
  <1>0. call \in CallType /\ StillFine(call)
    BY DEF HelpersInv, HelpersTypeOK, CallType
  <1>1. /\ call.op = "accept" /\ call.step = "checked"
        /\ signups' = (signups \ {<<call.shift, call.from>>}) \cup {<<call.shift, call.who>>}
        /\ offers' = [offers EXCEPT ![<<call.shift, call.from>>] = NoOffer]
        /\ calls' = [calls EXCEPT ![c] = NoCall] /\ plan' = plan /\ helping' = helping
    BY DEF TakesOver, EndsCall
  <1>2. /\ call \in PersonCall /\ HoldsRow(call) /\ TakeoverIsFine(call)
        /\ call.op \in PersonOps
    BY <1>0, <1>1, CallTyped DEF PersonOps, StillFine, HoldsRow
  <1>3. PICK s \in Shifts, p \in People, giver \in People :
          s = call.shift /\ p = call.who /\ giver = call.from
    BY <1>2 DEF PersonCall
  <1>4. /\ giver # p /\ offers[<<s, giver>>] \in {p, Anybody} /\ <<s, p>> \notin signups
        /\ ~Overlapping(p, plan[s].slot, s)
        /\ signups' = (signups \ {<<s, giver>>}) \cup {<<s, p>>}
        /\ offers' = [offers EXCEPT ![<<s, giver>>] = NoOffer]
    BY <1>1, <1>2, <1>3 DEF TakeoverIsFine
  <1>5. <<s, giver>> \in signups /\ plan[s] # NoShift
    <2>1. offers[<<s, giver>>] # NoOffer \/ <<s, giver>> \in signups
      BY <1>4, HelpersAssumption DEF NoOffer
    <2>2. <<s, giver>> \in Signup
      BY DEF Signup
    <2>3. <<s, giver>> \in signups
      BY <2>1, <2>2 DEF HelpersInv, HelpersTypeOK
    <2>4. QED
      BY <2>3 DEF HelpersInv, HelpersTypeOK
  <1>6. PlaceTaken(s, p, {<<s, giver>>})
    BY <1>1, <1>4, <1>5 DEF PlaceTaken
  <1>7. /\ NoDoubleShift' /\ IsFiniteSet(signups')
        /\ signups' \subseteq {e \in Signup : plan'[e[1]] # NoShift}
        /\ \A t \in Shifts \ {s} : HelpersOf(t)' = HelpersOf(t)
        /\ \A t \in Shifts, q \in People \ {p} : <<t, q>> \in signups' => <<t, q>> \in signups
    BY <1>6, TakesAPlace
  <1>8. HelpersOf(s)' = (HelpersOf(s) \ {giver}) \cup {p}
    BY <1>4 DEF HelpersOf
  <1>9. Cardinality(HelpersOf(s)') = Cardinality(HelpersOf(s))
    <2>1. IsFiniteSet(HelpersOf(s)) /\ Cardinality(HelpersOf(s)) \in Nat
      BY HelpersCounted DEF HelpersInv, HelpersTypeOK
    <2>2. giver \in HelpersOf(s) /\ p \notin HelpersOf(s)
      BY <1>4, <1>5 DEF HelpersOf
    <2>3. /\ IsFiniteSet(HelpersOf(s) \ {giver})
          /\ Cardinality(HelpersOf(s) \ {giver}) = Cardinality(HelpersOf(s)) - 1
      BY <2>1, <2>2, FS_RemoveElement
    <2>4. Cardinality((HelpersOf(s) \ {giver}) \cup {p}) = Cardinality(HelpersOf(s) \ {giver}) + 1
      BY <2>2, <2>3, FS_AddElement
    <2>5. QED
      BY <1>8, <2>1, <2>3, <2>4
  <1>10. ShiftsHaveRoom'
    <2> SUFFICES ASSUME NEW t \in Shifts, plan[t] # NoShift
                 PROVE  Cardinality(HelpersOf(t)') <= plan[t].room
      BY <1>1 DEF ShiftsHaveRoom
    <2>1. Cardinality(HelpersOf(t)') = Cardinality(HelpersOf(t))
      BY <1>7, <1>9
    <2>2. QED
      BY <2>1 DEF HelpersInv, ShiftsHaveRoom
  <1>11. ASSUME NEW d \in Callers \ {c}, HoldsRow(calls[d])
         PROVE  Undisturbed(calls[d])
    <2>1. calls[d].shift \in Shifts \ {s} /\ p \notin HoldsPeople(calls[d])
      <3>1. calls[d] \in CallType
        BY DEF HelpersInv, HelpersTypeOK, CallType
      <3>2. QED
        BY <1>2, <1>3, <1>11, <3>1, CallTyped, OthersAreElsewhere
    <2>2. \A q \in People : /\ <<calls[d].shift, q>> \in signups' <=> <<calls[d].shift, q>> \in signups
                            /\ offers'[<<calls[d].shift, q>>] = offers[<<calls[d].shift, q>>]
      <3>1. offers \in [Signup -> People \cup {Anybody, NoOffer}]
        BY DEF HelpersInv, HelpersTypeOK
      <3>2. QED
        BY <1>4, <2>1, <3>1 DEF Signup
    <2>3. HoldsPeople(calls[d]) \subseteq People
      BY DEF HoldsPeople
    <2>4. QED
      BY <1>1, <1>7, <2>1, <2>2, <2>3 DEF Undisturbed
  <1>12. HelpersInv'
    <2>1. {c} \in SUBSET Callers
          /\ calls' = [d \in Callers |-> IF d \in {c} THEN NoCall ELSE calls[d]]
      BY <1>1 DEF HelpersInv, HelpersTypeOK
    <2>2. /\ plan' \in [Shifts -> Shift \cup {NoShift}] /\ helping' \in BOOLEAN
          /\ offers' \in [Signup -> People \cup {Anybody, NoOffer}]
      BY <1>1, <1>4 DEF HelpersInv, HelpersTypeOK
    <2>3. \A e \in Signup : offers'[e] # NoOffer => e \in signups'
      BY <1>4, <1>5 DEF HelpersInv, HelpersTypeOK, Signup
    <2>4. QED
      BY <1>7, <1>10, <1>11, <2>1, <2>2, <2>3, CallWrites
  <1>13. HasOneWinner
    <2> SUFFICES ASSUME NEW e \in signups, e \notin signups'
                 PROVE  Cardinality({f \in signups' : f[1] = e[1]}) = Cardinality(HelpersOf(e[1]))
      BY DEF HasOneWinner
    <2>1. e[1] = s
      BY <1>4
    <2>2. signups' \in SUBSET Signup
      BY <1>7
    <2>3. (Cardinality(SignupsOf(s, signups)) = Cardinality(HelpersOf(s)))'
      <3>1. (signups \in SUBSET Signup /\ IsFiniteSet(signups) =>
               Cardinality(SignupsOf(s, signups)) = Cardinality(HelpersOf(s)))'
        BY HelpersCounted, PTL
      <3>2. QED
        BY <1>7, <2>2, <3>1
    <2>4. QED
      BY <1>9, <2>1, <2>3 DEF SignupsOf
  <1>14. QED
    BY <1>12, <1>13

\* People leave shifts that nobody else has locked, and shifts go: what the others
\* have checked is not touched.
Leaves(gone, ended) ==
  /\ gone \subseteq signups /\ ended \subseteq Callers
  /\ signups' = signups \ gone
  /\ offers' = [e \in Signup |-> IF e \in gone THEN NoOffer ELSE offers[e]]
  /\ calls' = [d \in Callers |-> IF d \in ended THEN NoCall ELSE calls[d]]
  /\ plan' \in [Shifts -> Shift \cup {NoShift}] /\ helping' \in BOOLEAN
  /\ \A s \in Shifts :
       plan'[s] # plan[s] => plan'[s] = NoShift /\ \A p \in People : <<s, p>> \notin signups'
  /\ \A d \in Callers \ ended :
       HoldsRow(calls[d]) => /\ plan'[calls[d].shift] = plan[calls[d].shift]
                             /\ \A e \in gone : e[1] # calls[d].shift

LEMMA PeopleLeave ==
  ASSUME HelpersInv, NEW gone, NEW ended, Leaves(gone, ended)
  PROVE  HelpersInv'
  <1> USE DEF Leaves
  <1>0. /\ signups \subseteq {e \in Signup : plan[e[1]] # NoShift} /\ IsFiniteSet(signups)
        /\ offers \in [Signup -> People \cup {Anybody, NoOffer}]
        /\ \A e \in Signup : offers[e] # NoOffer => e \in signups
        /\ calls \in [Callers -> CallType]
    BY DEF HelpersInv, HelpersTypeOK, CallType
  <1>1. \A e \in signups' : e \in signups /\ e \in Signup /\ plan'[e[1]] = plan[e[1]]
    BY <1>0 DEF Signup
  <1>2. /\ signups' \subseteq {e \in Signup : plan'[e[1]] # NoShift}
        /\ offers' \in [Signup -> People \cup {Anybody, NoOffer}]
        /\ \A e \in Signup : offers'[e] # NoOffer => e \in signups'
    BY <1>0, <1>1
  <1>3. IsFiniteSet(signups')
    BY <1>0, <1>1, FS_Subset
  <1>4. NoDoubleShift'
    BY <1>1 DEF HelpersInv, NoDoubleShift
  <1>5. ShiftsHaveRoom'
    <2> SUFFICES ASSUME NEW s \in Shifts, plan'[s] # NoShift
                 PROVE  Cardinality(HelpersOf(s)') <= plan'[s].room
      BY DEF ShiftsHaveRoom
    <2>1. plan'[s] = plan[s] /\ HelpersOf(s)' \in SUBSET HelpersOf(s)
      BY <1>1 DEF HelpersOf
    <2>2. IsFiniteSet(HelpersOf(s)) /\ Cardinality(HelpersOf(s)) \in Nat
      BY <1>0, HelpersCounted
    <2>3. IsFiniteSet(HelpersOf(s)') /\ Cardinality(HelpersOf(s)') <= Cardinality(HelpersOf(s))
      BY <2>1, <2>2, FS_Subset
    <2>4. Cardinality(HelpersOf(s)') \in Nat
      BY <2>3, FS_CardinalityType
    <2>5. plan[s].room \in Nat /\ Cardinality(HelpersOf(s)) <= plan[s].room
      BY <2>1, HelpersAssumption DEF HelpersInv, HelpersTypeOK, Shift, ShiftsHaveRoom
    <2>6. QED
      BY <2>1, <2>2, <2>3, <2>4, <2>5
  <1>6. ASSUME NEW d \in Callers \ ended, HoldsRow(calls[d])
        PROVE  Undisturbed(calls[d])
    <2>1. calls[d].shift \in Shifts
      BY <1>0, <1>6, CallTyped
    <2>2. \A q \in People : /\ <<calls[d].shift, q>> \notin gone
                            /\ offers'[<<calls[d].shift, q>>] = offers[<<calls[d].shift, q>>]
      BY <1>6, <2>1 DEF Signup
    <2>3. HoldsPeople(calls[d]) \subseteq People
      BY DEF HoldsPeople
    <2>4. \A t \in Shifts, p \in People :
            <<t, p>> \in signups' => <<t, p>> \in signups /\ plan'[t] = plan[t]
      BY <1>1
    <2>5. QED
      BY <1>6, <2>1, <2>2, <2>3, <2>4 DEF Undisturbed
  <1>7. QED
    BY <1>2, <1>3, <1>4, <1>5, <1>6, CallWrites

LEMMA WithdrawsStep ==
  ASSUME HelpersInv, NEW c \in Callers, WithdrawsFrom(c)
  PROVE  HelpersInv' /\ HasOneWinner
  <1> DEFINE call == calls[c]
             e == <<call.shift, call.who>>
  <1>1. /\ call.op = "withdraw" /\ call.shift \notin ShiftsHeld(c) /\ e \in signups
        /\ signups' = signups \ {e} /\ offers' = [offers EXCEPT ![e] = NoOffer]
        /\ calls' = [calls EXCEPT ![c] = NoCall] /\ plan' = plan /\ helping' = helping
    BY DEF WithdrawsFrom, HasShift, EndsCall
  <1>2. call.shift \in Shifts
    <2>1. call \in CallType
      BY DEF HelpersInv, HelpersTypeOK, CallType
    <2>2. QED
      BY <1>1, <2>1, CallTyped DEF PersonCall, PersonOps
  <1>3. Leaves({e}, {c})
    <2>1. \A d \in Callers \ {c} : HoldsRow(calls[d]) => calls[d].shift # call.shift
      BY <1>1, <1>2, RowHeldByNobodyElse
    <2>2. calls' = [d \in Callers |-> IF d \in {c} THEN NoCall ELSE calls[d]]
      BY <1>1 DEF HelpersInv, HelpersTypeOK
    <2>3. offers' = [x \in Signup |-> IF x \in {e} THEN NoOffer ELSE offers[x]]
      BY <1>1 DEF HelpersInv, HelpersTypeOK
    <2>4. /\ plan' \in [Shifts -> Shift \cup {NoShift}] /\ helping' \in BOOLEAN
      BY <1>1 DEF HelpersInv, HelpersTypeOK
    <2>5. \A d \in Callers \ {c} : HoldsRow(calls[d]) => \A x \in {e} : x[1] # calls[d].shift
      BY <2>1
    <2> HIDE DEF e
    <2>6. QED
      BY <1>1, <2>2, <2>3, <2>4, <2>5 DEF Leaves
  <1>4. QED
    BY <1>3, PeopleLeave DEF HasOneWinner

LEMMA RemovesStep ==
  ASSUME HelpersInv, NEW c \in Callers, RemovesShifts(c)
  PROVE  HelpersInv' /\ HasOneWinner
  <1> DEFINE some == calls[c].shifts
             gone == {e \in signups : e[1] \in some}
  <1>0. /\ plan \in [Shifts -> Shift \cup {NoShift}] /\ calls \in [Callers -> CallType]
        /\ signups \subseteq Signup /\ helping \in BOOLEAN
        /\ \A e \in Signup : offers[e] # NoOffer => e \in signups
    BY DEF HelpersInv, HelpersTypeOK, CallType
  <1>1. /\ some \cap ShiftsHeld(c) = {}
        /\ plan' = [s \in Shifts |-> IF s \in some THEN NoShift ELSE plan[s]]
        /\ signups' = {e \in signups : e[1] \notin some}
        /\ offers' = [e \in Signup |-> IF e[1] \in some THEN NoOffer ELSE offers[e]]
        /\ calls' = [calls EXCEPT ![c] = NoCall] /\ helping' = helping
    BY DEF RemovesShifts, EndsCall
  <1>2. \A d \in Callers \ {c} : HoldsRow(calls[d]) => calls[d].shift \in Shifts \ some
    <2> SUFFICES ASSUME NEW d \in Callers \ {c}, HoldsRow(calls[d])
                 PROVE  calls[d].shift \in Shifts \ some
      OBVIOUS
    <2>1. calls[d].shift \in Shifts
      BY <1>0, CallTyped
    <2>2. calls[d].shift \in ShiftsHeld(c)
      BY <2>1, RowHeldByNobodyElse
    <2>3. QED
      BY <1>1, <2>1, <2>2
  <1>3. Leaves(gone, {c})
    <2>1. offers' = [e \in Signup |-> IF e \in gone THEN NoOffer ELSE offers[e]]
      <3>1. \A e \in Signup : (e[1] \in some /\ e \notin gone) => offers[e] = NoOffer
        BY <1>0
      <3>2. QED
        BY <1>1, <3>1
    <2>2. calls' = [d \in Callers |-> IF d \in {c} THEN NoCall ELSE calls[d]]
      BY <1>0, <1>1
    <2>3. plan' \in [Shifts -> Shift \cup {NoShift}] /\ signups' = signups \ gone
      BY <1>0, <1>1
    <2>4. \A s \in Shifts :
            plan'[s] # plan[s] => plan'[s] = NoShift /\ \A p \in People : <<s, p>> \notin signups'
      BY <1>0, <1>1
    <2>5. \A d \in Callers \ {c} :
            HoldsRow(calls[d]) => /\ plan'[calls[d].shift] = plan[calls[d].shift]
                                  /\ \A e \in gone : e[1] # calls[d].shift
      BY <1>0, <1>1, <1>2
    <2> HIDE DEF gone
    <2>6. gone \subseteq signups
      BY DEF gone
    <2>7. QED
      BY <1>0, <1>1, <2>1, <2>2, <2>3, <2>4, <2>5, <2>6 DEF Leaves
  <1>4. HasOneWinner
    <2>1. \A e \in signups : e \notin signups' => e[1] \in Shifts /\ plan'[e[1]] = NoShift
      BY <1>0, <1>1 DEF Signup
    <2>2. QED
      BY <2>1 DEF HasOneWinner
  <1>5. QED
    BY <1>3, <1>4, PeopleLeave

\* A request to take a shift over is opened or closed; no call is about to use it.
OfferWritten(s, p, to) ==
  /\ offers' = [offers EXCEPT ![<<s, p>>] = to]
  /\ to \in People \cup {Anybody, NoOffer} /\ (to # NoOffer => <<s, p>> \in signups)
  /\ \A d \in Callers : calls[d].op = "accept" /\ calls[d].step = "checked"
                        => <<calls[d].shift, calls[d].from>> # <<s, p>>
  /\ plan' = plan /\ signups' = signups /\ helping' = helping /\ calls' = calls

LEMMA OffersStep ==
  ASSUME HelpersInv, NEW s \in Shifts, NEW p \in People, NEW to, OfferWritten(s, p, to)
  PROVE  HelpersInv'
  <1> USE DEF OfferWritten
  <1>0. /\ offers \in [Signup -> People \cup {Anybody, NoOffer}] /\ <<s, p>> \in Signup
        /\ \A e \in Signup : offers[e] # NoOffer => e \in signups
        /\ plan \in [Shifts -> Shift \cup {NoShift}] /\ helping \in BOOLEAN
        /\ calls \in [Callers -> CallType] /\ signups \in SUBSET Signup
    BY DEF HelpersInv, HelpersTypeOK, Signup, CallType
  <1>1. /\ offers' \in [Signup -> People \cup {Anybody, NoOffer}]
        /\ \A e \in Signup : offers'[e] = IF e = <<s, p>> THEN to ELSE offers[e]
        /\ \A e \in Signup : offers'[e] # NoOffer => e \in signups'
    BY <1>0
  <1>2. HelpersTypeOK'
    BY <1>1 DEF HelpersInv, HelpersTypeOK
  <1>3. IsFiniteSet(signups)' /\ NoDoubleShift' /\ ShiftsHaveRoom' /\ LocksApart'
    BY DEF HelpersInv, NoDoubleShift, ShiftsHaveRoom, LocksApart, HelpersOf, HoldsPeople, HoldsRow
  <1>4. ASSUME NEW d \in Callers PROVE StillFine(calls[d])'
    <2>1. StillFine(calls[d]) /\ calls[d] \in CallType
      BY <1>0 DEF HelpersInv
    <2>2. ASSUME calls[d].op = "accept", calls[d].step = "checked" PROVE TakeoverIsFine(calls[d])'
      <3>1. TakeoverIsFine(calls[d]) /\ calls[d] \in PersonCall
        BY <2>1, <2>2, CallTyped DEF StillFine, PersonOps
      <3>2. offers'[<<calls[d].shift, calls[d].from>>] = offers[<<calls[d].shift, calls[d].from>>]
        BY <1>1, <2>2, <3>1 DEF PersonCall, Signup
      <3>3. QED
        BY <3>1, <3>2 DEF TakeoverIsFine, Overlapping
    <2>3. calls[d].op = "signup" /\ calls[d].step = "checked" => SignupIsFine(calls[d])'
      BY <2>1 DEF StillFine, SignupIsFine, HelpersOf, Overlapping
    <2>4. calls[d].op = "move" => MoveIsFine(calls[d])'
      BY <2>1 DEF StillFine, MoveIsFine, HelpersOf, Overlapping
    <2>5. QED
      BY <2>2, <2>3, <2>4 DEF StillFine
  <1>5. QED
    BY <1>2, <1>3, <1>4 DEF HelpersInv

\* A shift that a call holds is in the plan.
LEMMA HeldShiftsExist ==
  ASSUME HelpersInv, NEW d \in Callers, HoldsRow(calls[d])
  PROVE  calls[d].shift \in Shifts /\ plan[calls[d].shift] # NoShift
  <1>1. calls[d] \in CallType /\ StillFine(calls[d])
    BY DEF HelpersInv, HelpersTypeOK, CallType
  <1>2. CASE calls[d].op = "accept"
    <2>1. TakeoverIsFine(calls[d]) /\ calls[d] \in PersonCall
      BY <1>1, <1>2, CallTyped DEF StillFine, HoldsRow, PersonOps
    <2>2. <<calls[d].shift, calls[d].from>> \in Signup
      BY <2>1 DEF PersonCall, Signup
    <2>3. offers[<<calls[d].shift, calls[d].from>>] # NoOffer
      BY <2>1, HelpersAssumption DEF TakeoverIsFine, PersonCall, NoOffer
    <2>4. <<calls[d].shift, calls[d].from>> \in signups
      BY <2>2, <2>3 DEF HelpersInv, HelpersTypeOK
    <2>5. QED
      BY <2>1, <2>4 DEF HelpersInv, HelpersTypeOK, PersonCall
  <1>3. CASE calls[d].op # "accept"
    BY <1>1, <1>3, CallTyped DEF HoldsRow, StillFine, SignupIsFine, MoveIsFine
  <1>4. QED
    BY <1>2, <1>3

LEMMA CreatesStep ==
  ASSUME HelpersInv, NEW s \in Shifts, NEW to \in Shift, CreatesShift(s, to)
  PROVE  HelpersInv'
  <1>0. /\ signups \subseteq {e \in Signup : plan[e[1]] # NoShift} /\ IsFiniteSet(signups)
        /\ offers \in [Signup -> People \cup {Anybody, NoOffer}]
        /\ \A e \in Signup : offers[e] # NoOffer => e \in signups
        /\ plan \in [Shifts -> Shift \cup {NoShift}] /\ helping \in BOOLEAN
        /\ calls \in [Callers -> CallType]
    BY DEF HelpersInv, HelpersTypeOK, CallType
  <1>1. /\ plan[s] = NoShift /\ plan' = [plan EXCEPT ![s] = to]
        /\ signups' = signups /\ offers' = offers /\ helping' = helping /\ calls' = calls
    BY DEF CreatesShift
  <1>2. /\ plan' \in [Shifts -> Shift \cup {NoShift}]
        /\ \A t \in Shifts : plan'[t] = IF t = s THEN to ELSE plan[t]
        /\ \A p \in People : <<s, p>> \notin signups
    BY <1>0, <1>1
  <1>3. signups \subseteq {e \in Signup : plan'[e[1]] # NoShift}
    BY <1>0, <1>1, <1>2 DEF Signup
  <1>4. NoDoubleShift'
    BY <1>1, <1>2 DEF HelpersInv, NoDoubleShift
  <1>5. ShiftsHaveRoom'
    <2> SUFFICES ASSUME NEW t \in Shifts, plan'[t] # NoShift
                 PROVE  Cardinality(HelpersOf(t)) <= plan'[t].room
      BY <1>1 DEF ShiftsHaveRoom, HelpersOf
    <2>1. CASE t = s
      <3>1. HelpersOf(s) = {} /\ to.room \in Nat
        BY <1>2, HelpersAssumption DEF HelpersOf, Shift
      <3>2. QED
        BY <1>2, <2>1, <3>1, FS_EmptySet
    <2>2. CASE t # s
      BY <1>2, <2>2 DEF HelpersInv, ShiftsHaveRoom
    <2>3. QED
      BY <2>1, <2>2
  <1>6. ASSUME NEW d \in Callers, HoldsRow(calls[d]) PROVE Undisturbed(calls[d])
    <2>1. calls[d].shift \in Shifts \ {s}
      BY <1>1, <1>6, HeldShiftsExist
    <2>2. \A t \in Shifts, p \in People : <<t, p>> \in signups => plan'[t] = plan[t]
      BY <1>2
    <2>3. HoldsPeople(calls[d]) \subseteq People
      BY DEF HoldsPeople
    <2>4. QED
      BY <1>1, <1>2, <2>1, <2>2, <2>3 DEF Undisturbed
  <1>7. {} \in SUBSET Callers /\ calls' = [d \in Callers |-> IF d \in {} THEN NoCall ELSE calls[d]]
    BY <1>0, <1>1
  <1>8. /\ HelpersInv /\ plan' \in [Shifts -> Shift \cup {NoShift}]
        /\ signups' \subseteq {e \in Signup : plan'[e[1]] # NoShift}
        /\ offers' \in [Signup -> People \cup {Anybody, NoOffer}]
        /\ \A e \in Signup : offers'[e] # NoOffer => e \in signups'
        /\ helping' \in BOOLEAN /\ IsFiniteSet(signups')
    BY <1>0, <1>1, <1>2, <1>3
  <1>9. \A d \in Callers \ {} : HoldsRow(calls[d]) => Undisturbed(calls[d])
    BY <1>6
  <1>10. QED
    BY <1>4, <1>5, <1>7, <1>8, <1>9, CallWrites

\* A shift moves with everybody on it, each of whom is free at the new time.
LEMMA MovesStep ==
  ASSUME HelpersInv, NEW c \in Callers, MovesShift(c)
  PROVE  HelpersInv'
  <1> DEFINE call == calls[c]
  <1>0. /\ signups \subseteq {e \in Signup : plan[e[1]] # NoShift} /\ IsFiniteSet(signups)
        /\ offers \in [Signup -> People \cup {Anybody, NoOffer}]
        /\ \A e \in Signup : offers[e] # NoOffer => e \in signups
        /\ plan \in [Shifts -> Shift \cup {NoShift}] /\ helping \in BOOLEAN
        /\ calls \in [Callers -> CallType] /\ call \in CallType /\ StillFine(call)
    BY DEF HelpersInv, HelpersTypeOK, CallType
  <1>1. /\ call.op = "move" /\ call.left = {} /\ plan' = [plan EXCEPT ![call.shift] = call.to]
        /\ calls' = [calls EXCEPT ![c] = NoCall]
        /\ signups' = signups /\ offers' = offers /\ helping' = helping
    BY DEF MovesShift, EndsCall
  <1>2. call \in MoveCall /\ MoveIsFine(call) /\ HoldsRow(call)
    BY <1>0, <1>1, CallTyped DEF StillFine, HoldsRow
  <1>3. PICK s \in Shifts, to \in Shift : s = call.shift /\ to = call.to
    BY <1>2 DEF MoveCall
  <1>4. /\ plan[s] # NoShift /\ Cardinality(HelpersOf(s)) <= to.room
        /\ to.slot = plan[s].slot \/ HelpersOf(s) \subseteq call.mine
        /\ \A p \in call.mine : ~Overlapping(p, to.slot, s)
    BY <1>1, <1>2, <1>3 DEF MoveIsFine
  <1>5. /\ plan' \in [Shifts -> Shift \cup {NoShift}]
        /\ \A t \in Shifts : plan'[t] = IF t = s THEN to ELSE plan[t]
    BY <1>0, <1>1, <1>3
  <1>6. signups' \subseteq {e \in Signup : plan'[e[1]] # NoShift}
    <2>1. to # NoShift
      BY HelpersAssumption DEF Shift
    <2>2. QED
      BY <1>0, <1>1, <1>5, <2>1 DEF Signup
  <1>7. ASSUME NEW p \in People, NEW t \in Shifts \ {s}, <<s, p>> \in signups, <<t, p>> \in signups
        PROVE  ~Overlap(to.slot, plan[t].slot) /\ ~Overlap(plan[t].slot, to.slot)
    <2>1. CASE to.slot = plan[s].slot
      BY <1>7, <2>1 DEF HelpersInv, NoDoubleShift
    <2>2. CASE HelpersOf(s) \subseteq call.mine
      <3>1. p \in call.mine
        BY <1>7, <2>2 DEF HelpersOf
      <3>2. ~Overlap(plan[t].slot, to.slot)
        BY <1>4, <1>7, <3>1 DEF Overlapping
      <3>3. QED
        BY <3>2, OverlapSymmetric
    <2>3. QED
      BY <1>4, <2>1, <2>2
  <1>8. NoDoubleShift'
    <2> SUFFICES ASSUME NEW p \in People, NEW a \in Shifts, NEW b \in Shifts, a # b,
                        <<a, p>> \in signups, <<b, p>> \in signups
                 PROVE  ~Overlap(plan'[a].slot, plan'[b].slot)
      BY <1>1 DEF NoDoubleShift
    <2>1. CASE a = s
      BY <1>5, <1>7, <2>1
    <2>2. CASE b = s
      BY <1>5, <1>7, <2>2
    <2>3. CASE a # s /\ b # s
      BY <1>5, <2>3 DEF HelpersInv, NoDoubleShift
    <2>4. QED
      BY <2>1, <2>2, <2>3
  <1>9. ShiftsHaveRoom'
    <2> SUFFICES ASSUME NEW t \in Shifts, plan'[t] # NoShift
                 PROVE  Cardinality(HelpersOf(t)) <= plan'[t].room
      BY <1>1 DEF ShiftsHaveRoom, HelpersOf
    <2>1. QED
      BY <1>4, <1>5 DEF HelpersInv, ShiftsHaveRoom
  <1>10. ASSUME NEW d \in Callers \ {c}, HoldsRow(calls[d])
         PROVE  Undisturbed(calls[d])
    <2>1. /\ calls[d].shift \in Shifts \ {s}
          /\ \A p \in call.mine : p \notin HoldsPeople(calls[d])
      <3>1. calls[d].shift \in Shifts
        BY <1>0, <1>10, CallTyped
      <3>2. QED
        BY <1>1, <1>2, <1>3, <1>10, <3>1, OthersAreElsewhere
    <2>2. \A p \in HoldsPeople(calls[d]) : <<s, p>> \in signups => plan'[s].slot = plan[s].slot
      <3> SUFFICES ASSUME NEW p \in HoldsPeople(calls[d]), <<s, p>> \in signups
                   PROVE  to.slot = plan[s].slot
        BY <1>5
      <3>1. p \in HelpersOf(s) /\ p \notin call.mine
        BY <2>1 DEF HoldsPeople, HelpersOf
      <3>2. QED
        BY <1>4, <3>1
    <2>3. HoldsPeople(calls[d]) \subseteq People
      BY DEF HoldsPeople
    <2>4. \A t \in Shifts, p \in HoldsPeople(calls[d]) :
            <<t, p>> \in signups => plan'[t].slot = plan[t].slot
      BY <1>5, <2>2
    <2>5. QED
      BY <1>1, <1>5, <2>1, <2>3, <2>4 DEF Undisturbed
  <1>11. {c} \in SUBSET Callers /\ calls' = [d \in Callers |-> IF d \in {c} THEN NoCall ELSE calls[d]]
    BY <1>0, <1>1
  <1>12. /\ offers' \in [Signup -> People \cup {Anybody, NoOffer}]
         /\ \A e \in Signup : offers'[e] # NoOffer => e \in signups'
         /\ helping' \in BOOLEAN /\ IsFiniteSet(signups')
    BY <1>0, <1>1
  <1>13. QED
    BY <1>5, <1>6, <1>8, <1>9, <1>10, <1>11, <1>12, CallWrites

-----------------------------------------------------------------------------
\* Steps that begin a call, take a lock, check, or give up.
LEMMA CallSteps ==
  ASSUME HelpersInv, NEW c \in Callers,
         \/ \E op \in PersonOps, p \in People, s \in Shifts : LocksPerson(c, op, p, s)
         \/ ChecksSignup(c) \/ (\E p \in People : ChecksTakeover(c, p)) \/ GivesUp(c)
         \/ (\E s \in Shifts, to \in Shift : LocksShift(c, s, to))
         \/ (\E p \in People : LocksHelper(c, p))
         \/ (\E some \in SUBSET Shifts : ReadsHelpers(c, some))
  PROVE  HelpersInv' /\ signups' = signups
  <1> DEFINE call == calls[c]
  <1>0. call \in CallType /\ StillFine(call) /\ calls \in [Callers -> CallType]
    BY DEF HelpersInv, HelpersTypeOK, CallType
  <1>h. \A d \in Callers \ {c} :
          /\ HoldsPeople(call) \cap HoldsPeople(calls[d]) = {}
          /\ HoldsRow(call) /\ HoldsRow(calls[d]) => call.shift # calls[d].shift
    BY DEF HelpersInv, LocksApart
  <1>1. ASSUME NEW op \in PersonOps, NEW p \in People, NEW s \in Shifts, LocksPerson(c, op, p, s)
        PROVE  HelpersInv' /\ signups' = signups
    <2> DEFINE new == [op |-> op, who |-> p, shift |-> s, step |-> "person", from |-> p]
    <2>1. new \in CallType /\ StillFine(new) /\ HoldsPeople(new) = {p} /\ ~HoldsRow(new)
      BY DEF CallType, PersonCall, PersonOps, StillFine, HoldsPeople, HoldsRow
    <2>2. /\ calls' = [calls EXCEPT ![c] = new] /\ p \notin PeopleHeld(c)
          /\ plan' = plan /\ signups' = signups /\ offers' = offers /\ helping' = helping
      BY <1>1 DEF LocksPerson
    <2>3. \A d \in Callers \ {c} : p \notin HoldsPeople(calls[d])
      BY <2>2, HeldByNobodyElse
    <2> HIDE DEF new
    <2>4. \A d \in Callers \ {c} :
            /\ HoldsPeople(new) \cap HoldsPeople(calls[d]) = {}
            /\ HoldsRow(new) /\ HoldsRow(calls[d]) => new.shift # calls[d].shift
      BY <2>1, <2>3
    <2>5. QED
      BY <2>1, <2>2, <2>4, CallsOnly
  <1>2. ASSUME ChecksSignup(c)
        PROVE  HelpersInv' /\ signups' = signups
    <2> DEFINE new == [call EXCEPT !.step = "checked"]
    <2>1. /\ HasShift(c, "signup") /\ <<call.shift, call.who>> \notin signups
          /\ Cardinality(HelpersOf(call.shift)) < plan[call.shift].room
          /\ ~Overlapping(call.who, plan[call.shift].slot, call.shift)
          /\ calls' = [calls EXCEPT ![c] = new]
          /\ plan' = plan /\ signups' = signups /\ offers' = offers /\ helping' = helping
      BY <1>2 DEF ChecksSignup
    <2>2. /\ call \in PersonCall /\ call.op = "signup" /\ plan[call.shift] # NoShift
          /\ call.shift \notin ShiftsHeld(c) /\ call.shift \in Shifts
      <3>1. call.op = "signup" /\ plan[call.shift] # NoShift /\ call.shift \notin ShiftsHeld(c)
        BY <2>1 DEF HasShift
      <3>2. call \in PersonCall
        BY <1>0, <3>1, CallTyped DEF PersonOps
      <3>3. QED
        BY <3>1, <3>2 DEF PersonCall
    <2>3. /\ new \in PersonCall /\ new.op = "signup" /\ new.step = "checked"
          /\ new.shift = call.shift /\ new.who = call.who
      BY <2>2 DEF PersonCall
    <2>4. new \in CallType /\ HoldsPeople(new) = HoldsPeople(call) /\ StillFine(new)
      BY <2>1, <2>2, <2>3 DEF CallType, HoldsPeople, StillFine, SignupIsFine, PersonOps
    <2>5. \A d \in Callers \ {c} : HoldsRow(calls[d]) => calls[d].shift # call.shift
      BY <2>2, RowHeldByNobodyElse
    <2> HIDE DEF new
    <2>6. \A d \in Callers \ {c} :
            /\ HoldsPeople(new) \cap HoldsPeople(calls[d]) = {}
            /\ HoldsRow(new) /\ HoldsRow(calls[d]) => new.shift # calls[d].shift
      BY <1>h, <2>3, <2>4, <2>5
    <2>7. QED
      BY <2>1, <2>4, <2>6, CallsOnly
  <1>3. ASSUME NEW giver \in People, ChecksTakeover(c, giver)
        PROVE  HelpersInv' /\ signups' = signups
    <2> DEFINE new == [call EXCEPT !.step = "checked", !.from = giver]
    <2>1. /\ HasShift(c, "accept") /\ giver # call.who
          /\ offers[<<call.shift, giver>>] \in {call.who, Anybody}
          /\ <<call.shift, call.who>> \notin signups
          /\ ~Overlapping(call.who, plan[call.shift].slot, call.shift)
          /\ calls' = [calls EXCEPT ![c].step = "checked", ![c].from = giver]
          /\ plan' = plan /\ signups' = signups /\ offers' = offers /\ helping' = helping
      BY <1>3 DEF ChecksTakeover
    <2>2. /\ call \in PersonCall /\ call.op = "accept"
          /\ call.shift \notin ShiftsHeld(c) /\ call.shift \in Shifts
      <3>1. call.op = "accept" /\ call.shift \notin ShiftsHeld(c)
        BY <2>1 DEF HasShift
      <3>2. call \in PersonCall
        BY <1>0, <3>1, CallTyped DEF PersonOps
      <3>3. QED
        BY <3>1, <3>2 DEF PersonCall
    <2>3. /\ new \in PersonCall /\ new.op = "accept" /\ new.step = "checked"
          /\ new.shift = call.shift /\ new.who = call.who /\ new.from = giver
      BY <2>2 DEF PersonCall
    <2>4. new \in CallType /\ HoldsPeople(new) = HoldsPeople(call) /\ StillFine(new)
      BY <2>1, <2>2, <2>3 DEF CallType, HoldsPeople, StillFine, TakeoverIsFine, PersonOps
    <2>5. \A d \in Callers \ {c} : HoldsRow(calls[d]) => calls[d].shift # call.shift
      BY <2>2, RowHeldByNobodyElse
    <2>6. calls' = [calls EXCEPT ![c] = new]
      BY <1>0, <2>1, <2>2 DEF PersonCall
    <2> HIDE DEF new
    <2>7. \A d \in Callers \ {c} :
            /\ HoldsPeople(new) \cap HoldsPeople(calls[d]) = {}
            /\ HoldsRow(new) /\ HoldsRow(calls[d]) => new.shift # calls[d].shift
      BY <1>h, <2>3, <2>4, <2>5
    <2>8. QED
      BY <2>1, <2>4, <2>6, <2>7, CallsOnly
  <1>4. ASSUME GivesUp(c)
        PROVE  HelpersInv' /\ signups' = signups
    BY <1>4, EndedCallHoldsNothing, CallsOnly DEF GivesUp, EndsCall
  <1>5. ASSUME NEW s \in Shifts, NEW to \in Shift, LocksShift(c, s, to)
        PROVE  HelpersInv' /\ signups' = signups
    <2> DEFINE left == IF to.slot = plan[s].slot THEN {} ELSE HelpersOf(s)
               new == [op |-> "move", shift |-> s, to |-> to, mine |-> {}, left |-> left]
    <2>1. /\ plan[s] # NoShift /\ s \notin ShiftsHeld(c) /\ Cardinality(HelpersOf(s)) <= to.room
          /\ calls' = [calls EXCEPT ![c] = new]
          /\ plan' = plan /\ signups' = signups /\ offers' = offers /\ helping' = helping
      BY <1>5 DEF LocksShift
    <2>2. left \in SUBSET People /\ (to.slot = plan[s].slot \/ HelpersOf(s) \subseteq left)
      BY DEF HelpersOf
    <2> HIDE DEF left
    <2>3. new \in CallType /\ HoldsPeople(new) = {} /\ StillFine(new) /\ new.shift = s
      BY <2>1, <2>2 DEF CallType, MoveCall, HoldsPeople, StillFine, MoveIsFine, PersonOps
    <2>4. \A d \in Callers \ {c} : HoldsRow(calls[d]) => calls[d].shift # s
      BY <2>1, RowHeldByNobodyElse
    <2> HIDE DEF new
    <2>5. QED
      BY <2>1, <2>3, <2>4, CallsOnly
  <1>6. ASSUME NEW p \in People, LocksHelper(c, p)
        PROVE  HelpersInv' /\ signups' = signups
    <2> DEFINE new == [call EXCEPT !.left = call.left \ {p}, !.mine = call.mine \cup {p}]
    <2>1. /\ call.op = "move" /\ p \in call.left /\ p \notin PeopleHeld(c)
          /\ ~Overlapping(p, call.to.slot, call.shift)
          /\ calls' = [calls EXCEPT ![c].left = @ \ {p}, ![c].mine = @ \cup {p}]
          /\ plan' = plan /\ signups' = signups /\ offers' = offers /\ helping' = helping
      BY <1>6 DEF LocksHelper
    <2>2. call \in MoveCall /\ MoveIsFine(call)
      BY <1>0, <2>1, CallTyped DEF StillFine
    <2>3. /\ new \in MoveCall /\ new.op = "move" /\ new.shift = call.shift /\ new.to = call.to
          /\ new.left = call.left \ {p} /\ new.mine = call.mine \cup {p}
      BY <2>2 DEF MoveCall
    <2>4. new \in CallType /\ HoldsPeople(new) \subseteq HoldsPeople(call) \cup {p}
      BY <2>1, <2>3 DEF CallType, HoldsPeople, PersonOps
    <2>5. StillFine(new)
      <3>1. MoveIsFine(new)
        BY <2>1, <2>2, <2>3 DEF MoveIsFine
      <3>2. QED
        BY <2>3, <3>1 DEF StillFine
    <2>6. \A d \in Callers \ {c} : p \notin HoldsPeople(calls[d])
      BY <2>1, HeldByNobodyElse
    <2>7. HoldsRow(call)
      BY <2>1 DEF HoldsRow
    <2>8. calls' = [calls EXCEPT ![c] = new]
      BY <1>0, <2>1, <2>2 DEF MoveCall
    <2> HIDE DEF new
    <2>9. \A d \in Callers \ {c} :
            /\ HoldsPeople(new) \cap HoldsPeople(calls[d]) = {}
            /\ HoldsRow(new) /\ HoldsRow(calls[d]) => new.shift # calls[d].shift
      BY <1>h, <2>3, <2>4, <2>6, <2>7
    <2>10. QED
      BY <2>1, <2>4, <2>5, <2>8, <2>9, CallsOnly
  <1>7. ASSUME NEW some \in SUBSET Shifts, ReadsHelpers(c, some)
        PROVE  HelpersInv' /\ signups' = signups
    <2> DEFINE people == UNION {HelpersOf(s) : s \in some}
               new == [op |-> "remove", shifts |-> some, people |-> people]
    <2>1. /\ calls' = [calls EXCEPT ![c] = new]
          /\ plan' = plan /\ signups' = signups /\ offers' = offers /\ helping' = helping
      BY <1>7 DEF ReadsHelpers
    <2>2. people \in SUBSET People
      BY DEF HelpersOf
    <2> HIDE DEF people
    <2>3. new \in CallType /\ HoldsPeople(new) = {} /\ ~HoldsRow(new) /\ StillFine(new)
      BY <2>2 DEF CallType, RemoveCall, HoldsPeople, HoldsRow, StillFine, PersonOps
    <2> HIDE DEF new
    <2>4. QED
      BY <2>1, <2>3, CallsOnly
  <1>8. QED
    BY <1>1, <1>2, <1>3, <1>4, <1>5, <1>6, <1>7

LEMMA HelpersStep ==
  ASSUME HelpersInv, [HelpersNext]_helperVars
  PROVE  HelpersInv' /\ HasOneWinner
  <1>h. signups \subseteq signups' => HasOneWinner
    BY DEF HasOneWinner
  <1>1. ASSUME NEW c \in Callers, SignsUp(c) PROVE HelpersInv' /\ HasOneWinner
    BY <1>1, <1>h, SignsUpStep
  <1>2. ASSUME NEW c \in Callers, TakesOver(c) PROVE HelpersInv' /\ HasOneWinner
    BY <1>2, TakesOverStep
  <1>3. ASSUME NEW c \in Callers, WithdrawsFrom(c) PROVE HelpersInv' /\ HasOneWinner
    BY <1>3, WithdrawsStep
  <1>4. ASSUME NEW c \in Callers, RemovesShifts(c) PROVE HelpersInv' /\ HasOneWinner
    BY <1>4, RemovesStep
  <1>5. ASSUME NEW c \in Callers, MovesShift(c) PROVE HelpersInv' /\ HasOneWinner
    BY <1>5, <1>h, MovesStep DEF MovesShift
  <1>6. ASSUME NEW c \in Callers,
               \/ \E op \in PersonOps, p \in People, s \in Shifts : LocksPerson(c, op, p, s)
               \/ ChecksSignup(c) \/ (\E p \in People : ChecksTakeover(c, p)) \/ GivesUp(c)
               \/ (\E s \in Shifts, to \in Shift : LocksShift(c, s, to))
               \/ (\E p \in People : LocksHelper(c, p))
               \/ (\E some \in SUBSET Shifts : ReadsHelpers(c, some))
        PROVE  HelpersInv' /\ HasOneWinner
    BY <1>6, <1>h, CallSteps
  <1>7. ASSUME NEW s \in Shifts, NEW p \in People, ClosesOffer(s, p)
        PROVE  HelpersInv' /\ HasOneWinner
    <2>1. OfferWritten(s, p, NoOffer)
      BY <1>7 DEF ClosesOffer, OfferWritten
    <2>2. HelpersInv'
      BY <2>1, OffersStep
    <2>3. QED
      BY <1>7, <1>h, <2>2 DEF ClosesOffer
  <1>8. ASSUME NEW s \in Shifts, NEW p \in People, NEW to \in People \cup {Anybody}, Offers(s, p, to)
        PROVE  HelpersInv' /\ HasOneWinner
    <2>1. \A d \in Callers : calls[d].op = "accept" /\ calls[d].step = "checked"
                               => <<calls[d].shift, calls[d].from>> # <<s, p>>
      BY <1>8 DEF Offers, HoldsShift
    <2>2. OfferWritten(s, p, to)
      BY <1>8, <2>1 DEF Offers, OfferWritten
    <2>3. HelpersInv'
      BY <2>2, OffersStep
    <2>4. QED
      BY <1>8, <1>h, <2>3 DEF Offers
  <1>9. ASSUME NEW s \in Shifts, NEW to \in Shift, CreatesShift(s, to)
        PROVE  HelpersInv' /\ HasOneWinner
    BY <1>9, <1>h, CreatesStep DEF CreatesShift
  <1>10. ASSUME \/ CancelsPlan
                \/ UNCHANGED helperVars
         PROVE  HelpersInv' /\ HasOneWinner
    <2>1. /\ plan' = plan /\ signups' = signups /\ offers' = offers /\ calls' = calls
          /\ helping' \in BOOLEAN
      BY <1>10 DEF CancelsPlan, helperVars, HelpersInv, HelpersTypeOK
    <2>2. HelpersTypeOK' /\ IsFiniteSet(signups)'
      BY <2>1 DEF HelpersInv, HelpersTypeOK
    <2>3. NoDoubleShift' /\ ShiftsHaveRoom' /\ LocksApart'
      BY <2>1 DEF HelpersInv, NoDoubleShift, ShiftsHaveRoom, HelpersOf, LocksApart, HoldsPeople, HoldsRow
    <2>4. ASSUME NEW d \in Callers PROVE StillFine(calls[d])'
      BY <2>1 DEF HelpersInv, StillFine, SignupIsFine, TakeoverIsFine, MoveIsFine, Overlapping, HelpersOf
    <2>5. HelpersInv'
      BY <2>2, <2>3, <2>4 DEF HelpersInv
    <2>6. QED
      BY <1>h, <2>1, <2>5
  <1>11. \A some \in {{s} : s \in Shifts} \cup {Shifts} : some \in SUBSET Shifts
    OBVIOUS
  <1>12. ASSUME HelperStep PROVE HelpersInv' /\ HasOneWinner
    BY <1>1, <1>2, <1>3, <1>6, <1>12 DEF HelperStep, PersonOps
  <1>13. ASSUME OfferStep PROVE HelpersInv' /\ HasOneWinner
    BY <1>7, <1>8, <1>13 DEF OfferStep
  <1>14. ASSUME PlannerStep PROVE HelpersInv' /\ HasOneWinner
    BY <1>4, <1>5, <1>6, <1>9, <1>10, <1>11, <1>14 DEF PlannerStep
  <1>15. QED
    BY <1>10, <1>12, <1>13, <1>14 DEF HelpersNext

\* HelpersPromise, for any people, shifts, capacities and calls in flight: nobody has
\* two shifts at one time, no shift has more helpers than it has room for, and a
\* takeover has one winner.
THEOREM HelpersAreSound == HelpersSpec => HelpersPromise
  <1>1. HelpersInit => HelpersInv
    <2> SUFFICES ASSUME HelpersInit PROVE HelpersInv
      OBVIOUS
    <2>1. HelpersTypeOK
      BY DEF HelpersInit, HelpersTypeOK, Signup
    <2>2. IsFiniteSet(signups) /\ NoDoubleShift /\ ShiftsHaveRoom
      BY FS_EmptySet DEF HelpersInit, NoDoubleShift, ShiftsHaveRoom
    <2>3. LocksApart /\ \A c \in Callers : StillFine(calls[c])
      BY EndedCallHoldsNothing DEF HelpersInit, LocksApart
    <2>4. QED
      BY <2>1, <2>2, <2>3 DEF HelpersInv
  <1>2. HelpersInv => HelpersTypeOK /\ NoDoubleShift /\ ShiftsHaveRoom
    BY DEF HelpersInv
  <1>3. HelpersInv /\ [HelpersNext]_helperVars => HelpersInv' /\ [HasOneWinner]_helperVars
    BY HelpersStep
  <1>4. QED
    <2>1. HelpersSpec => [](HelpersTypeOK /\ NoDoubleShift /\ ShiftsHaveRoom) /\ [][HasOneWinner]_helperVars
      BY <1>1, <1>2, <1>3, PTL DEF HelpersSpec
    <2>2. QED
      BY <2>1, PTL DEF HelpersPromise, TakeoverHasOneWinner, HasOneWinner

-----------------------------------------------------------------------------
(***************************************************************************)
(* Series.  Edits of a series move rows, delete them and insert new ones;  *)
(* what is proved of each of the three is that rows stay distinct and that *)
(* a row only ever comes to a day that no dropped occurrence blocks.       *)
(***************************************************************************)
LEMMA SeriesConstants ==
  /\ LastDate \in Nat \ {0} /\ MaxSeries \in Nat \ {0} /\ MaxRows \in Nat \ {0}
  /\ LastHour \in Nat /\ Reach \in Nat /\ MaxEdits \in Nat
  /\ \A p \in Patterns : p \subseteq 1..LastDate
  BY EventSeriesAssumption

LEMMA MulMono == \A a, b, k \in Nat : a <= b => a * k <= b * k
  OBVIOUS

LEMMA DivIs ==
  ASSUME NEW a \in Nat, NEW k \in Nat \ {0}
  PROVE  /\ a \div k \in Int /\ k * (a \div k) <= a /\ a < k * (a \div k) + k
  OBVIOUS

\* The day of the moment of a day is that day.
LEMMA DayIs ==
  ASSUME NEW d \in Nat, NEW h \in 0..LastHour
  PROVE  DayOf(MomentOf(d, h)) = d
  <1>1. PICK k \in Nat \ {0} : k = LastHour + 1
    BY SeriesConstants
  <1>2. PICK a \in Nat : a = d * k + h
    BY <1>1, SeriesConstants
  <1>3. PICK q \in Int : q = a \div k
    BY <1>1, <1>2, DivIs
  <1>4. k * q <= a /\ a < k * q + k
    BY <1>1, <1>2, <1>3, DivIs
  <1>5. h \in 0..k - 1 /\ q \in Nat
    <2>1. q >= 0
      <3>1. ASSUME q < 0
            PROVE  FALSE
        <4>1. PICK m \in Nat : m = -(q + 1)
          BY <3>1
        <4>2. k * q = -(k * m) - k /\ k * m >= 0
          BY <4>1
        <4>3. QED
          BY <1>4, <4>2
      <3>2. QED
        BY <3>1
    <2>2. QED
      BY <1>1, <2>1, SeriesConstants
  <1>6. ~(q > d)
    <2>1. ASSUME q >= d + 1
          PROVE  FALSE
      <3>1. (d + 1) * k <= q * k
        BY <1>5, <2>1, MulMono
      <3>2. (d + 1) * k = d * k + k /\ q * k = k * q
        BY <1>5
      <3>3. d * k \in Int /\ k * q \in Int
        BY <1>5
      <3>4. QED
        BY <1>2, <1>4, <1>5, <3>1, <3>2, <3>3
    <2>2. QED
      BY <1>5, <2>1
  <1>8. ~(q < d)
    <2>1. ASSUME q + 1 <= d
          PROVE  FALSE
      <3>1. (q + 1) * k <= d * k
        BY <1>5, <2>1, MulMono
      <3>2. (q + 1) * k = q * k + k /\ q * k = k * q
        BY <1>5
      <3>3. d * k \in Int /\ k * q \in Int
        BY <1>5
      <3>4. QED
        BY <1>2, <1>4, <1>5, <3>1, <3>2, <3>3
    <2>2. QED
      BY <1>5, <2>1
  <1>7. QED
    BY <1>1, <1>2, <1>3, <1>5, <1>6, <1>8, SeriesConstants DEF DayOf, MomentOf

LEMMA MomentIs ==
  /\ \A d, h \in Nat : MomentOf(d, h) \in Nat
  /\ \A d \in 1..LastDate, h \in 0..LastHour : MomentOf(d, h) \in Instants
  /\ Instants \subseteq Nat /\ IsFiniteSet(Instants)
  <1>1. PICK k \in Nat \ {0} : k = LastHour + 1
    BY SeriesConstants
  <1>2. \A a, b \in Nat : a * k + b \in Nat
    BY <1>1
  <1>3. \A d, h \in Nat : MomentOf(d, h) \in Nat
    BY <1>1, <1>2 DEF MomentOf
  <1>4. PICK a \in Nat, b \in Nat : a = MomentOf(1, 0) /\ b = MomentOf(LastDate, LastHour)
    BY <1>3, SeriesConstants
  <1>5. ASSUME NEW d \in 1..LastDate, NEW h \in 0..LastHour
        PROVE  MomentOf(d, h) \in Instants
    <2>1. 1 * k <= d * k /\ d * k <= LastDate * k
      BY <1>1, SeriesConstants, MulMono
    <2>2. 1 * k \in Int /\ d * k \in Int /\ LastDate * k \in Int
      BY <1>1, SeriesConstants
    <2>3. 1 * k + 0 <= d * k + h /\ d * k + h <= LastDate * k + LastHour
      BY <2>1, <2>2, SeriesConstants
    <2>4. QED
      BY <1>1, <1>3, <2>3, SeriesConstants DEF MomentOf, Instants
  <1>6. IsFiniteSet(a..b)
    BY <1>4, FS_Interval
  <1>7. QED
    BY <1>3, <1>4, <1>5, <1>6 DEF Instants

LEMMA DayIn ==
  ASSUME NEW t \in Instants
  PROVE  DayOf(t) \in 1..LastDate
  <1>1. PICK k \in Nat \ {0} : k = LastHour + 1
    BY SeriesConstants
  <1>2. t \in Nat /\ 1 * k <= t /\ t <= LastDate * k + LastHour
    BY <1>1, MomentIs, SeriesConstants DEF Instants, MomentOf
  <1>3. PICK q \in Int : q = t \div k
    BY <1>1, <1>2, DivIs
  <1>4. k * q <= t /\ t < k * q + k
    BY <1>1, <1>2, <1>3, DivIs
  <1>5. ~(q <= 0)
    <2>1. ASSUME q <= 0
          PROVE  FALSE
      <3>1. PICK m \in Nat : m = -q
        BY <2>1
      <3>2. k * q = -(k * m) /\ k * m >= 0
        BY <3>1
      <3>3. QED
        BY <1>2, <1>4, <3>2
    <2>2. QED
      BY <2>1
  <1>6. ~(q > LastDate)
    <2>1. ASSUME q > LastDate
          PROVE  FALSE
      <3>1. q \in Nat /\ LastDate + 1 \in Nat /\ LastDate + 1 <= q
        BY <2>1, SeriesConstants
      <3>2. (LastDate + 1) * k <= q * k
        BY <3>1, MulMono
      <3>3. (LastDate + 1) * k = LastDate * k + k /\ q * k = k * q
        BY <3>1, SeriesConstants
      <3>4. LastDate * k \in Int /\ k * q \in Int
        BY <3>1, SeriesConstants
      <3>5. QED
        BY <1>1, <1>2, <1>4, <3>2, <3>3, <3>4, SeriesConstants
    <2>2. QED
      BY <2>1
  <1>7. q \in 1..LastDate
    BY <1>5, <1>6, SeriesConstants
  <1>8. QED
    BY <1>1, <1>3, <1>7 DEF DayOf

\* Elements of a finite set that have the same rank are the same.
LEMMA RankInjective ==
  ASSUME NEW S, S \subseteq Int, IsFiniteSet(S), NEW x \in S, NEW y \in S, Rank(S, x) = Rank(S, y)
  PROVE  x = y
  <1>1. ASSUME NEW a \in S, NEW b \in S, a < b
        PROVE  Rank(S, a) < Rank(S, b)
    <2>1. PICK A : A = {u \in S : u < a}
      OBVIOUS
    <2>2. PICK B : B = {u \in S : u < b}
      OBVIOUS
    <2>3. A \subseteq B /\ a \in B /\ a \notin A /\ B \subseteq S
      <3>1. a \in Int /\ b \in Int /\ \A u \in S : u \in Int
        OBVIOUS
      <3>2. \A u \in S : u < a => u < b
        BY <1>1, <3>1
      <3>3. a \in B /\ B \subseteq S
        BY <1>1, <2>2
      <3>4. a \notin A
        BY <2>1, <3>1
      <3>5. A \subseteq B
        BY <2>1, <2>2, <3>2
      <3>6. QED
        BY <3>3, <3>4, <3>5
    <2>4. IsFiniteSet(B)
      BY <2>3, FS_Subset
    <2>5. IsFiniteSet(A) /\ Cardinality(A) <= Cardinality(B) /\ (Cardinality(A) = Cardinality(B) => A = B)
      BY <2>3, <2>4, FS_Subset
    <2>6. Cardinality(A) \in Nat /\ Cardinality(B) \in Nat
      BY <2>4, <2>5, FS_CardinalityType
    <2>7. Cardinality(A) < Cardinality(B)
      BY <2>3, <2>5, <2>6
    <2>8. QED
      BY <2>1, <2>2, <2>7 DEF Rank
  <1>2. ASSUME NEW a \in S
        PROVE  Rank(S, a) \in Nat
    <2>1. IsFiniteSet({u \in S : u < a})
      BY FS_Subset
    <2>2. QED
      BY <2>1, FS_CardinalityType DEF Rank
  <1>3. Rank(S, x) \in Nat /\ Rank(S, y) \in Nat
    BY <1>2
  <1>4. ~(x < y) /\ ~(y < x)
    BY <1>1, <1>3
  <1>5. QED
    BY <1>4

LEMMA AtRankHolds ==
  ASSUME NEW S, NEW n, AtRank(S, n) # {}, NEW t, t = (CHOOSE u \in AtRank(S, n) : TRUE)
  PROVE  t \in S /\ Rank(S, t) = n
  <1>1. t \in AtRank(S, n)
    OBVIOUS
  <1>2. QED
    BY <1>1 DEF AtRank

Rows == [RowIds -> {NoOcc} \cup Occurrence]

Distinct(rows) ==
  \A e, f \in RowIds : rows[e] # NoOcc /\ rows[e].series = rows[f].series
                       /\ rows[e].orig = rows[f].orig => e = f

Single(table) ==
  /\ table \subseteq Exception
  /\ \A x, y \in table : x.series = y.series /\ x.orig = y.orig => x = y

Rule == [days: Patterns \cup {{}}, hour: 0..LastHour, skip: BOOLEAN,
         start: 0..LastDate, until: 0..LastDate, horizon: Nat]

LEMMA SeriesIdsAre == SeriesIds \subseteq Nat \ {0} /\ 0 \notin SeriesIds /\ 1 \in SeriesIds
  BY SeriesConstants DEF SeriesIds

LEMMA SeriesRowsFinite == IsFiniteSet(RowIds) /\ RowIds \subseteq Nat
  BY SeriesConstants, FS_Interval DEF RowIds

LEMMA NoOccIs ==
  /\ NoOcc.series = 0 /\ NoOcc.orig = 0 /\ NoOcc.used = FALSE
  /\ \A o \in Occurrence : o # NoOcc /\ o.series \in SeriesIds /\ o.orig \in Instants
                           /\ o.used \in BOOLEAN
  <1>1. NoOcc.series = 0 /\ NoOcc.orig = 0 /\ NoOcc.used = FALSE
    BY DEF NoOcc
  <1>2. ASSUME NEW o \in Occurrence
        PROVE  o.series \in SeriesIds /\ o.orig \in Instants /\ o.used \in BOOLEAN
    BY DEF Occurrence
  <1>3. QED
    BY <1>1, <1>2, SeriesIdsAre

\* A row is an occurrence or free.
LEMMA RowIs ==
  ASSUME NEW rows \in Rows, NEW e \in RowIds
  PROVE  /\ rows[e] = NoOcc \/ rows[e] \in Occurrence
         /\ rows[e] # NoOcc => rows[e].series \in SeriesIds /\ rows[e].orig \in Instants
         /\ rows[e].series \in SeriesIds => rows[e] # NoOcc
         /\ rows[e].used \in BOOLEAN /\ (rows[e].used => rows[e] # NoOcc)
  <1>1. rows[e] = NoOcc \/ rows[e] \in Occurrence
    BY DEF Rows
  <1>2. CASE rows[e] = NoOcc
    BY <1>2, NoOccIs, SeriesIdsAre
  <1>3. CASE rows[e] \in Occurrence
    BY <1>3, NoOccIs
  <1>4. QED
    BY <1>1, <1>2, <1>3

\* Rows whose originals and series are those of distinct rows are distinct.
LEMMA DistinctKept ==
  ASSUME NEW rows \in Rows, Distinct(rows), NEW out \in Rows,
         \A e \in RowIds : out[e] # NoOcc => /\ rows[e] # NoOcc /\ out[e].series = rows[e].series
                                             /\ out[e].orig = rows[e].orig
  PROVE  Distinct(out)
  <1>1. SUFFICES ASSUME NEW e \in RowIds, NEW f \in RowIds, out[e] # NoOcc,
                        out[e].series = out[f].series, out[e].orig = out[f].orig
                 PROVE  e = f
    BY DEF Distinct
  <1>2. out[e].series \in SeriesIds
    BY <1>1, RowIs
  <1>3. out[f] # NoOcc
    BY <1>1, <1>2, NoOccIs, SeriesIdsAre
  <1>4. QED
    BY <1>1, <1>3 DEF Distinct

\* What is inserted goes to free rows, on distinct instants no row of the series has.
LEMMA InsertedIs ==
  ASSUME NEW rows \in Rows, Distinct(rows), NEW s \in SeriesIds, NEW instants, instants \subseteq Instants,
         NEW out, out = Inserted(rows, s, instants)
  PROVE  /\ out \in Rows /\ Distinct(out)
         /\ \A e \in RowIds : rows[e] # NoOcc => out[e] = rows[e]
         /\ \A e \in RowIds : out[e] # rows[e] =>
              out[e] # NoOcc /\ out[e].series = s /\ out[e].orig \in instants
  <1>1. PICK new : new = instants \ {rows[e].orig : e \in RowsOf(rows, s)}
    OBVIOUS
  <1>2. PICK free : free = {e \in RowIds : rows[e] = NoOcc}
    OBVIOUS
  <1>3. out = [e \in RowIds |->
                 IF e \in free /\ AtRank(new, Rank(free, e)) # {}
                 THEN [NoOcc EXCEPT !.series = s, !.orig = CHOOSE t \in AtRank(new, Rank(free, e)) : TRUE]
                 ELSE rows[e]]
    BY <1>1, <1>2 DEF Inserted
  <1>4. ASSUME NEW e \in RowIds
        PROVE  \/ out[e] = rows[e]
               \/ /\ e \in free /\ out[e] \in Occurrence /\ out[e].series = s
                  /\ out[e].orig \in new /\ Rank(new, out[e].orig) = Rank(free, e)
    <2>1. CASE e \in free /\ AtRank(new, Rank(free, e)) # {}
      <3>1. PICK t : t = CHOOSE u \in AtRank(new, Rank(free, e)) : TRUE
        OBVIOUS
      <3>2. t \in new /\ Rank(new, t) = Rank(free, e)
        BY <2>1, <3>1, AtRankHolds
      <3>3. out[e] = [NoOcc EXCEPT !.series = s, !.orig = t]
        BY <1>3, <2>1, <3>1
      <3>4. t \in Instants
        BY <1>1, <3>2
      <3>5. out[e] \in Occurrence /\ out[e].series = s /\ out[e].orig = t
        BY <3>3, <3>4 DEF NoOcc, Occurrence
      <3>6. QED
        BY <2>1, <3>2, <3>5
    <2>2. CASE ~(e \in free /\ AtRank(new, Rank(free, e)) # {})
      BY <1>3, <2>2
    <2>3. QED
      BY <2>1, <2>2
  <1>5. out \in Rows
    <2>1. \A e \in RowIds : out[e] \in {NoOcc} \cup Occurrence
      BY <1>4 DEF Rows
    <2>2. QED
      BY <1>3, <2>1 DEF Rows
  <1>6. Distinct(out)
    <2>1. SUFFICES ASSUME NEW e \in RowIds, NEW f \in RowIds, out[e] # NoOcc,
                          out[e].series = out[f].series, out[e].orig = out[f].orig
                   PROVE  e = f
      BY DEF Distinct
    <2>2. out[f] # NoOcc /\ out[e].series \in SeriesIds
      BY <1>5, <2>1, RowIs, NoOccIs, SeriesIdsAre
    <2>3. ASSUME NEW a \in RowIds, NEW b \in RowIds, out[a] = rows[a], out[b] # rows[b],
                 out[a].series = out[b].series, out[a].orig = out[b].orig
          PROVE  FALSE
      <3>1. out[b].series = s /\ out[b].orig \in new
        BY <1>4, <2>3
      <3>2. a \in RowsOf(rows, s) /\ rows[a].orig = out[b].orig
        BY <2>3, <3>1 DEF RowsOf
      <3>3. QED
        BY <1>1, <3>1, <3>2
    <2>4. CASE out[e] = rows[e] /\ out[f] = rows[f]
      BY <2>1, <2>4 DEF Distinct
    <2>5. CASE out[e] # rows[e] /\ out[f] # rows[f]
      <3>1. e \in free /\ f \in free /\ Rank(free, e) = Rank(free, f)
        BY <1>4, <2>1, <2>5
      <3>2. free \subseteq RowIds /\ IsFiniteSet(free)
        <4>1. free \subseteq RowIds
          BY <1>2
        <4>2. QED
          BY <4>1, SeriesRowsFinite, FS_Subset
      <3>4. free \subseteq Int
        BY <3>2, SeriesRowsFinite
      <3>3. QED
        BY <3>1, <3>2, <3>4, RankInjective
    <2>6. QED
      BY <2>1, <2>3, <2>4, <2>5
  <1>7. QED
    BY <1>1, <1>2, <1>4, <1>5, <1>6, NoOccIs

\* What is deleted keeps its instant when somebody signed up for it.
LEMMA DeletedIs ==
  ASSUME NEW rows \in Rows, Distinct(rows), NEW gone, NEW out, out = Deleted(rows, gone)
  PROVE  /\ out \in Rows /\ Distinct(out)
         /\ \A e \in RowIds : out[e] # NoOcc => /\ rows[e] # NoOcc /\ out[e].series = rows[e].series
                                                /\ out[e].orig = rows[e].orig
         /\ \A e \in RowIds : e \notin gone \/ rows[e].used \/ rows[e] = NoOcc
                              => /\ out[e].used = rows[e].used
                                 /\ out[e].series = rows[e].series /\ out[e].orig = rows[e].orig
         /\ \A e \in RowIds : e \in gone /\ ~rows[e].used => out[e] = NoOcc
  <1>1. ASSUME NEW e \in RowIds
        PROVE  /\ out[e] \in {NoOcc} \cup Occurrence
               /\ out[e] # NoOcc => /\ rows[e] # NoOcc /\ out[e].series = rows[e].series
                                    /\ out[e].orig = rows[e].orig
               /\ e \notin gone \/ rows[e].used \/ rows[e] = NoOcc
                    => /\ out[e].used = rows[e].used
                       /\ out[e].series = rows[e].series /\ out[e].orig = rows[e].orig
               /\ e \in gone /\ ~rows[e].used => out[e] = NoOcc
    <2>1. rows[e] = NoOcc \/ rows[e] \in Occurrence
      BY RowIs
    <2>2. CASE e \notin gone
      <3>1. out[e] = rows[e]
        BY <2>2 DEF Deleted
      <3>2. QED
        BY <2>1, <2>2, <3>1
    <2>3. CASE e \in gone /\ rows[e].used
      <3>1. rows[e] \in Occurrence
        BY <2>1, <2>3, NoOccIs
      <3>2. PICK row : row = [rows[e] EXCEPT !.cancelled = TRUE]
        OBVIOUS
      <3>3. out[e] = row
        BY <2>3, <3>2 DEF Deleted
      <3>4. /\ row \in Occurrence /\ row.series = rows[e].series /\ row.orig = rows[e].orig
            /\ row.used = rows[e].used
        BY <3>1, <3>2 DEF Occurrence
      <3>5. QED
        BY <2>3, <3>1, <3>3, <3>4, NoOccIs
    <2>4. CASE e \in gone /\ ~rows[e].used
      <3>1. out[e] = NoOcc
        BY <2>4 DEF Deleted
      <3>2. QED
        BY <2>1, <2>4, <3>1
    <2>5. QED
      BY <2>2, <2>3, <2>4
  <1>2. out \in Rows
    BY <1>1 DEF Rows, Deleted
  <1>3. Distinct(out)
    <2>1. \A e \in RowIds : out[e] # NoOcc => /\ rows[e] # NoOcc /\ out[e].series = rows[e].series
                                              /\ out[e].orig = rows[e].orig
      BY <1>1
    <2>2. QED
      BY <1>2, <2>1, DistinctKept
  <1>4. QED
    BY <1>1, <1>2, <1>3

\* The rows of the series that may move, to instants where none of it is.
Movable(rows, s, old, new) ==
  /\ old \subseteq RowIds /\ \A e \in old : rows[e].series = s
  /\ new \subseteq Instants /\ \A e \in RowIds : rows[e].series = s => rows[e].orig \notin new

\* Shifted rows come to distinct instants, on which no row of the series was.
LEMMA ShiftedIs ==
  ASSUME NEW rows \in Rows, Distinct(rows), NEW s \in SeriesIds,
         NEW old, NEW new, Movable(rows, s, old, new),
         NEW out, out = Shifted(rows, old, new)
  PROVE  /\ out \in Rows /\ Distinct(out)
         /\ \A e \in RowIds : out[e].series = rows[e].series /\ out[e].used = rows[e].used
         /\ \A e \in RowIds : out[e] = rows[e] \/ (e \in old /\ out[e].orig \in new)
  <1>0. /\ old \subseteq RowIds /\ \A e \in old : rows[e].series = s
        /\ new \subseteq Instants /\ \A e \in RowIds : rows[e].series = s => rows[e].orig \notin new
    BY DEF Movable
  <1>1. ASSUME NEW e \in RowIds
        PROVE  \/ out[e] = rows[e]
               \/ /\ e \in old /\ out[e] \in Occurrence /\ out[e].series = s
                  /\ out[e].used = rows[e].used /\ out[e].orig \in new
                  /\ Rank(new, out[e].orig) = Place(rows, old, e)
    <2>1. CASE e \in old /\ AtRank(new, Place(rows, old, e)) # {}
      <3>1. PICK t : t = CHOOSE u \in AtRank(new, Place(rows, old, e)) : TRUE
        OBVIOUS
      <3>2. t \in new /\ Rank(new, t) = Place(rows, old, e)
        BY <2>1, <3>1, AtRankHolds
      <3>3. PICK row : row = [rows[e] EXCEPT !.orig = t]
        OBVIOUS
      <3>4. out[e] = row
        BY <2>1, <3>1, <3>3 DEF Shifted
      <3>5. t \in Instants /\ rows[e].series = s
        BY <1>0, <2>1, <3>2
      <3>6. rows[e] \in Occurrence
        BY <3>5, RowIs
      <3>7. row \in Occurrence /\ row.series = s /\ row.used = rows[e].used /\ row.orig = t
        BY <3>3, <3>5, <3>6 DEF Occurrence
      <3>8. QED
        BY <2>1, <3>2, <3>4, <3>7
    <2>2. CASE ~(e \in old /\ AtRank(new, Place(rows, old, e)) # {})
      BY <2>2 DEF Shifted
    <2>3. QED
      BY <2>1, <2>2
  <1>2. out \in Rows
    <2>1. \A e \in RowIds : out[e] \in {NoOcc} \cup Occurrence
      BY <1>1 DEF Rows
    <2>2. QED
      BY <2>1 DEF Rows, Shifted
  <1>3. \A e \in RowIds : out[e].series = rows[e].series /\ out[e].used = rows[e].used
    BY <1>0, <1>1
  <1>4. Distinct(out)
    <2>1. SUFFICES ASSUME NEW e \in RowIds, NEW f \in RowIds, out[e] # NoOcc,
                          out[e].series = out[f].series, out[e].orig = out[f].orig
                   PROVE  e = f
      BY DEF Distinct
    <2>2. ASSUME NEW a \in RowIds, NEW b \in RowIds, out[a] = rows[a], out[b] # rows[b],
                 out[a].series = out[b].series, out[a].orig = out[b].orig
          PROVE  FALSE
      <3>1. out[b].series = s /\ out[b].orig \in new
        BY <1>1, <2>2
      <3>2. rows[a].series = s /\ rows[a].orig \in new
        BY <2>2, <3>1
      <3>3. QED
        BY <1>0, <3>2
    <2>3. CASE out[e] = rows[e] /\ out[f] = rows[f]
      BY <2>1, <2>3 DEF Distinct
    <2>4. CASE out[e] # rows[e] /\ out[f] # rows[f]
      <3>1. e \in old /\ f \in old /\ Place(rows, old, e) = Place(rows, old, f)
        BY <1>1, <2>1, <2>4
      <3>2. PICK S : S = {rows[x].orig : x \in old}
        OBVIOUS
      <3>3. S \subseteq Instants
        <4>1. \A x \in old : rows[x].orig \in Instants
          BY <1>0, RowIs, SeriesIdsAre
        <4>2. QED
          BY <3>2, <4>1
      <3>4. S \subseteq Int /\ IsFiniteSet(S)
        <4>1. IsFiniteSet(S)
          BY <3>3, MomentIs, FS_Subset
        <4>2. S \subseteq Int
          BY <3>3, MomentIs
        <4>3. QED
          BY <4>1, <4>2
      <3>5. rows[e].orig \in S /\ rows[f].orig \in S
        BY <3>1, <3>2
      <3>6. Rank(S, rows[e].orig) = Rank(S, rows[f].orig)
        BY <3>1, <3>2 DEF Place
      <3>7. rows[e].orig = rows[f].orig
        BY <3>4, <3>5, <3>6, RankInjective
      <3>8. rows[e].series = s /\ rows[f].series = s /\ rows[e] # NoOcc
        BY <1>0, <3>1, RowIs
      <3>9. QED
        BY <3>7, <3>8 DEF Distinct
    <2>5. QED
      BY <2>1, <2>2, <2>3, <2>4
  <1>5. QED
    BY <1>1, <1>2, <1>3, <1>4

\* What a rule produces are instants of days that are not blocked.
LEMMA ProducedIs ==
  ASSUME NEW r \in Rule, NEW from, NEW to, NEW blocked,
         NEW all, all = Produced(r, from, to, blocked)
  PROVE  /\ all \subseteq Instants
         /\ \A t \in all : from <= t /\ DayOf(t) \notin blocked
         /\ HolidaysOf(r, all) \subseteq all
  <1>1. r.hour \in 0..LastHour /\ r.days \subseteq 1..LastDate
    BY SeriesConstants DEF Rule
  <1>2. ASSUME NEW t \in all
        PROVE  t \in Instants /\ from <= t /\ DayOf(t) \notin blocked
    <2>1. PICK d \in r.days : from <= MomentOf(d, r.hour) /\ d \notin blocked /\ t = MomentOf(d, r.hour)
      BY DEF Produced
    <2>2. d \in 1..LastDate
      BY <1>1, <2>1
    <2>3. t \in Instants
      BY <1>1, <2>1, <2>2, MomentIs
    <2>4. d \in Nat
      BY <2>2, SeriesConstants
    <2>5. DayOf(t) = d
      BY <1>1, <2>1, <2>4, DayIs
    <2>6. QED
      BY <2>1, <2>3, <2>5
  <1>3. HolidaysOf(r, all) \subseteq all
    BY DEF HolidaysOf
  <1>4. QED
    BY <1>2, <1>3

LEMMA RecordedIs ==
  ASSUME NEW table, Single(table), NEW s \in SeriesIds, NEW instants, instants \subseteq Instants,
         NEW out, out = Recorded(table, s, instants)
  PROVE  /\ Single(out) /\ table \subseteq out
         /\ \A x \in out : x \in table \/ (x.series = s /\ x.kind = "feiertag")
  <1>1. ASSUME NEW x \in out
        PROVE  \/ x \in table
               \/ /\ x \in Exception /\ x.series = s /\ x.kind = "feiertag"
                  /\ ~\E y \in table : y.series = s /\ y.orig = x.orig
    <2>1. CASE x \notin table
      <3>1. PICK t \in instants : /\ ~\E y \in table : y.series = s /\ y.orig = t
                                  /\ x = [series |-> s, orig |-> t, kind |-> "feiertag"]
        BY <2>1 DEF Recorded
      <3>2. t \in Instants
        BY <3>1
      <3>3. x \in Exception /\ x.series = s /\ x.orig = t /\ x.kind = "feiertag"
        BY <3>1, <3>2 DEF Exception
      <3>4. QED
        BY <3>1, <3>3
    <2>2. QED
      BY <2>1
  <1>2. table \subseteq out
    BY DEF Recorded
  <1>3. out \subseteq Exception
    BY <1>1 DEF Single
  <1>4. ASSUME NEW x \in out, NEW y \in out, x.series = y.series, x.orig = y.orig
        PROVE  x = y
    <2>1. CASE x \in table /\ y \in table
      BY <1>4, <2>1 DEF Single
    <2>2. ~(x \in table /\ y \notin table) /\ ~(y \in table /\ x \notin table)
      BY <1>1, <1>4
    <2>3. CASE x \notin table /\ y \notin table
      <3>1. x \in Exception /\ y \in Exception /\ x.kind = y.kind
        BY <1>1, <2>3
      <3>2. QED
        BY <1>4, <3>1 DEF Exception
    <2>4. QED
      BY <2>1, <2>2, <2>3
  <1>5. QED
    BY <1>1, <1>2, <1>3, <1>4 DEF Single

LEMMA ExceptedIs ==
  ASSUME NEW table, Single(table), NEW s \in SeriesIds, NEW t \in Instants,
         NEW kind \in {"entfaellt", "verschoben", "feiertag"},
         NEW out, out = Excepted(table, s, t, kind)
  PROVE  /\ Single(out)
         /\ \A x \in out : x \in table \/ (x.series = s /\ x.orig = t /\ x.kind = kind)
  <1>1. PICK z : z = [series |-> s, orig |-> t, kind |-> kind]
    OBVIOUS
  <1>2. z \in Exception /\ z.series = s /\ z.orig = t /\ z.kind = kind
    BY <1>1 DEF Exception
  <1>3. \A x \in out : x = z \/ (x \in table /\ ~(x.series = s /\ x.orig = t))
    BY <1>1 DEF Excepted
  <1>4. QED
    BY <1>2, <1>3 DEF Single

\* What reconciling rows with a rule does to them and to the exceptions.
LEMMA ReconcileIs ==
  ASSUME NEW rows \in Rows, Distinct(rows), NEW table, Single(table), NEW s \in SeriesIds,
         NEW r \in Rule, NEW from \in Instants, NEW done, done = Reconcile(rows, table, s, r, from)
  PROVE  /\ done.rows \in Rows /\ Distinct(done.rows)
         /\ \A e \in RowIds : rows[e].used => done.rows[e] # NoOcc
         /\ \A e \in RowIds :
              \/ done.rows[e] = NoOcc
              \/ done.rows[e].series = rows[e].series /\ done.rows[e].orig = rows[e].orig
              \/ /\ done.rows[e].series = s
                 /\ \A x \in table : x.series = s /\ x.kind = "entfaellt"
                                     => DayOf(done.rows[e].orig) # DayOf(x.orig)
         /\ \A e \in RowIds : done.rows[e].series = rows[e].series \/ done.rows[e].series = s
                              \/ done.rows[e] = NoOcc
         /\ Single(done.table)
         /\ \A x \in done.table : x \in table \/ (x.series = s /\ x.kind = "feiertag")
  <1> DEFINE live == {x \in table : ~(x.series = s /\ x.kind = "feiertag" /\ x.orig >= from)}
             existing == {e \in RowsOf(rows, s) : rows[e].orig >= from}
             fixed == {e \in existing : rows[e].override \/ rows[e].cancelled}
             blocked == Blocked(live, s, rows, fixed)
             all == Produced(r, from, r.horizon, blocked)
             target == all \ HolidaysOf(r, all)
             kept == {e \in existing \ fixed : rows[e].orig \in target}
             old == (existing \ fixed) \ kept
             new == target \ {rows[e].orig : e \in kept}
             shifted == Shifted(rows, old, new)
             gone == old \ {e \in old : shifted[e] # rows[e]}
             left == Deleted(shifted, gone)
             fresh == new \ {shifted[e].orig : e \in {e \in old : shifted[e] # rows[e]}}
  <1>0. done = [rows  |-> Inserted(left, s, fresh),
                fits  |-> RoomFor(left, s, fresh),
                table |-> Recorded(live, s, HolidaysOf(r, all))]
    BY DEF Reconcile, Expand
  <1>1. live = {x \in table : ~(x.series = s /\ x.kind = "feiertag" /\ x.orig >= from)}
    OBVIOUS
  <1>2. existing = {e \in RowsOf(rows, s) : rows[e].orig >= from}
    OBVIOUS
  <1>3. fixed = {e \in existing : rows[e].override \/ rows[e].cancelled}
    OBVIOUS
  <1>4. blocked = Blocked(live, s, rows, fixed)
    OBVIOUS
  <1>5. all = Produced(r, from, r.horizon, blocked)
    OBVIOUS
  <1>6. target = all \ HolidaysOf(r, all)
    OBVIOUS
  <1>7. kept = {e \in existing \ fixed : rows[e].orig \in target}
    OBVIOUS
  <1>8. old = (existing \ fixed) \ kept
    OBVIOUS
  <1>9. new = target \ {rows[e].orig : e \in kept}
    OBVIOUS
  <1>10. shifted = Shifted(rows, old, new)
    OBVIOUS
  <1>11. gone = old \ {e \in old : shifted[e] # rows[e]}
    OBVIOUS
  <1>12. left = Deleted(shifted, gone)
    OBVIOUS
  <1>13. fresh = new \ {shifted[e].orig : e \in {e \in old : shifted[e] # rows[e]}}
    OBVIOUS
  <1> HIDE DEF live, existing, fixed, blocked, all, target, kept, old, new, shifted, gone, left, fresh
  <1>15. /\ done.rows = Inserted(left, s, fresh)
         /\ done.table = Recorded(live, s, HolidaysOf(r, all))
    BY <1>0
  <1>16. /\ all \subseteq Instants /\ \A t \in all : from <= t /\ DayOf(t) \notin blocked
         /\ HolidaysOf(r, all) \subseteq all
    BY <1>5, ProducedIs
  <1>17. target \subseteq Instants /\ \A t \in target : from <= t /\ DayOf(t) \notin blocked
    BY <1>6, <1>16
  <1>18. new \subseteq target /\ fresh \subseteq target /\ new \subseteq Instants /\ fresh \subseteq Instants
    BY <1>9, <1>13, <1>17
  <1>19. ASSUME NEW e \in RowIds, rows[e].series = s
         PROVE  rows[e].orig \notin new
    <2>1. e \in RowsOf(rows, s)
      BY <1>19 DEF RowsOf
    <2>2. CASE e \notin existing
      <3>1. ~(rows[e].orig >= from)
        BY <1>2, <2>1, <2>2
      <3>2. QED
        BY <1>17, <1>18, <3>1
    <2>3. CASE e \in fixed
      <3>1. DayOf(rows[e].orig) \in blocked
        BY <1>4, <2>3 DEF Blocked
      <3>2. QED
        BY <1>17, <1>18, <3>1
    <2>4. CASE e \in existing \ fixed
      BY <1>7, <1>9, <2>4
    <2>5. QED
      BY <1>3, <2>2, <2>3, <2>4
  <1>20. old \subseteq RowIds /\ \A e \in old : rows[e].series = s
    BY <1>2, <1>8 DEF RowsOf
  <1>21. /\ shifted \in Rows /\ Distinct(shifted)
         /\ \A e \in RowIds : shifted[e].series = rows[e].series /\ shifted[e].used = rows[e].used
         /\ \A e \in RowIds : shifted[e] = rows[e] \/ (e \in old /\ shifted[e].orig \in new)
    <2>1. Movable(rows, s, old, new)
      BY <1>18, <1>19, <1>20 DEF Movable
    <2>2. QED
      BY <1>10, <2>1, ShiftedIs
  <1>22. /\ left \in Rows /\ Distinct(left)
         /\ \A e \in RowIds : left[e] # NoOcc => /\ shifted[e] # NoOcc /\ left[e].series = shifted[e].series
                                                 /\ left[e].orig = shifted[e].orig
         /\ \A e \in RowIds : shifted[e].used => left[e].used
    <2>1. /\ left \in Rows /\ Distinct(left)
          /\ \A e \in RowIds : left[e] # NoOcc => /\ shifted[e] # NoOcc /\ left[e].series = shifted[e].series
                                                  /\ left[e].orig = shifted[e].orig
          /\ \A e \in RowIds : shifted[e].used => left[e].used = shifted[e].used
      BY <1>12, <1>21, DeletedIs
    <2>2. QED
      BY <2>1
  <1>23. /\ done.rows \in Rows /\ Distinct(done.rows)
         /\ \A e \in RowIds : left[e] # NoOcc => done.rows[e] = left[e]
         /\ \A e \in RowIds : done.rows[e] # left[e] =>
              done.rows[e] # NoOcc /\ done.rows[e].series = s /\ done.rows[e].orig \in fresh
    BY <1>15, <1>18, <1>22, InsertedIs
  <1>24. \A e \in RowIds : rows[e].used => done.rows[e] # NoOcc
    <2>1. \A e \in RowIds : left[e].used => left[e] # NoOcc
      BY <1>22, RowIs
    <2>2. QED
      BY <1>21, <1>22, <1>23, <2>1
  <1>25. \A x \in table : x.series = s /\ x.kind = "entfaellt" => DayOf(x.orig) \in blocked
    <2>1. \A x \in table : x.series = s /\ x.kind = "entfaellt" => x \in live
      BY <1>1
    <2>2. QED
      BY <1>4, <2>1 DEF Blocked, ExceptionDays
  <1>26. ASSUME NEW e \in RowIds, done.rows[e] # NoOcc
         PROVE  \/ done.rows[e].series = rows[e].series /\ done.rows[e].orig = rows[e].orig
                \/ done.rows[e].series = s /\ done.rows[e].orig \in target
    <2>1. CASE done.rows[e] # left[e]
      BY <1>18, <1>23, <2>1
    <2>2. CASE done.rows[e] = left[e]
      <3>1. done.rows[e].series = rows[e].series /\ done.rows[e].orig = shifted[e].orig
        BY <1>21, <1>22, <1>26, <2>2
      <3>2. shifted[e] = rows[e] \/ (rows[e].series = s /\ shifted[e].orig \in target)
        BY <1>18, <1>20, <1>21
      <3>3. QED
        BY <3>1, <3>2
    <2>3. QED
      BY <2>1, <2>2
  <1>27. \A e \in RowIds :
           \/ done.rows[e] = NoOcc
           \/ done.rows[e].series = rows[e].series /\ done.rows[e].orig = rows[e].orig
           \/ /\ done.rows[e].series = s
              /\ \A x \in table : x.series = s /\ x.kind = "entfaellt"
                                  => DayOf(done.rows[e].orig) # DayOf(x.orig)
    <2>1. SUFFICES ASSUME NEW e \in RowIds, done.rows[e] # NoOcc
                   PROVE  \/ done.rows[e].series = rows[e].series /\ done.rows[e].orig = rows[e].orig
                          \/ /\ done.rows[e].series = s
                             /\ \A x \in table : x.series = s /\ x.kind = "entfaellt"
                                                 => DayOf(done.rows[e].orig) # DayOf(x.orig)
      OBVIOUS
    <2>2. CASE done.rows[e].series = s /\ done.rows[e].orig \in target
      <3>1. DayOf(done.rows[e].orig) \notin blocked
        BY <1>17, <2>2
      <3>2. \A x \in table : x.series = s /\ x.kind = "entfaellt"
                             => DayOf(done.rows[e].orig) # DayOf(x.orig)
        BY <1>25, <3>1, Zenon
      <3>3. QED
        BY <2>2, <3>2
    <2>3. QED
      BY <1>26, <2>1, <2>2
  <1>28. \A e \in RowIds : done.rows[e].series = rows[e].series \/ done.rows[e].series = s
                           \/ done.rows[e] = NoOcc
    BY <1>26
  <1>29. Single(live)
    BY <1>1 DEF Single
  <1>30. HolidaysOf(r, all) \subseteq Instants
    BY <1>16
  <1>31. Single(done.table) /\ \A x \in done.table : x \in live \/ (x.series = s /\ x.kind = "feiertag")
    BY <1>15, <1>29, <1>30, RecordedIs
  <1>32. \A x \in done.table : x \in table \/ (x.series = s /\ x.kind = "feiertag")
    BY <1>1, <1>31
  <1>33. QED
    BY <1>23, <1>24, <1>27, <1>28, <1>31, <1>32

\* The invariant: rows and exceptions are those of existing series, which have
\* started.
Sound(sers, rows, table) ==
  /\ sers \in [SeriesIds -> Rule] /\ \A s \in SeriesIds : sers[s] # NoSeries => sers[s].start >= 1
  /\ rows \in Rows /\ Distinct(rows)
  /\ \A e \in RowIds : rows[e] # NoOcc => sers[rows[e].series] # NoSeries
  /\ Single(table)
  /\ \A x \in table : sers[x.series] # NoSeries

SeriesInv == Sound(series, occs, exceptions) /\ now \in Instants /\ seriesEdits \in 0..MaxEdits

\* Nobody who signed up loses the occurrence.
UsedStay == \A e \in RowIds : occs[e].used => occs'[e] # NoOcc

LEMMA SeriesMeans ==
  ASSUME SeriesInv
  PROVE  /\ occs \in Rows /\ Distinct(occs) /\ Single(exceptions)
         /\ \A s \in SeriesIds : series[s] \in Rule
         /\ \A s \in SeriesIds : series[s] # NoSeries => series[s].start \in 1..LastDate
         /\ \A e \in RowIds : occs[e] # NoOcc => series[occs[e].series] # NoSeries
         /\ \A x \in exceptions : series[x.series] # NoSeries /\ x.series \in SeriesIds /\ x.orig \in Instants
  <1>1. /\ occs \in Rows /\ Distinct(occs) /\ Single(exceptions)
        /\ \A s \in SeriesIds : series[s] \in Rule
        /\ \A s \in SeriesIds : series[s] # NoSeries => series[s].start >= 1
        /\ \A e \in RowIds : occs[e] # NoOcc => series[occs[e].series] # NoSeries
        /\ \A x \in exceptions : series[x.series] # NoSeries
    BY DEF SeriesInv, Sound
  <1>2. \A s \in SeriesIds : series[s].start \in 0..LastDate
    BY <1>1 DEF Rule
  <1>3. \A s \in SeriesIds : series[s] # NoSeries => series[s].start \in 1..LastDate
    BY <1>1, <1>2, SeriesConstants
  <1>4. \A x \in exceptions : x.series \in SeriesIds /\ x.orig \in Instants
    BY <1>1 DEF Single, Exception
  <1>5. QED
    BY <1>1, <1>3, <1>4

\* A rule that has started is one.
LEMMA StartedIs == \A r : r.start \in 1..LastDate => r # NoSeries
  BY SeriesConstants DEF NoSeries

LEMMA EditedIs ==
  ASSUME NEW r \in Rule, NEW next \in SeriesEdits(r)
  PROVE  next \in Rule /\ next.start = r.start
  <1>2. PICK p \in Patterns, h \in 0..LastHour, skip \in BOOLEAN, u \in {r.until, LastDate} :
          next = Edited(r, p, h, skip, u)
    BY DEF SeriesEdits
  <1>3. u \in 0..LastDate
    BY SeriesConstants DEF Rule
  <1>4. QED
    BY <1>2, <1>3 DEF Rule, Edited

\* No row comes to a day that is blocked: what is dropped stays dropped.
LEMMA NothingComesBack ==
  ASSUME occs' \in Rows, Single(exceptions'),
         NEW s, NEW table,
         \A e \in RowIds :
           \/ occs'[e] = NoOcc
           \/ occs'[e].orig = occs[e].orig
           \/ /\ occs'[e].series = s
              /\ \A x \in table : x.series = s /\ x.kind = "entfaellt"
                                  => DayOf(occs'[e].orig) # DayOf(x.orig),
         \A x \in exceptions' : \/ x \in table \/ x.kind = "feiertag"
                                \/ \A e \in RowIds : occs'[e] = NoOcc \/ occs'[e].orig = occs[e].orig
  PROVE  DroppedStaysDropped
  <1>1. SUFFICES ASSUME NEW x \in exceptions', x.kind = "entfaellt", NEW e \in RowIds,
                        occs'[e].series = x.series, DayOf(occs'[e].orig) = DayOf(x.orig)
                 PROVE  DayOf(occs[e].orig) = DayOf(x.orig)
    BY DEF DroppedStaysDropped
  <1>2. x.series \in SeriesIds
    BY DEF Single, Exception
  <1>3. occs'[e] # NoOcc
    BY <1>1, <1>2, NoOccIs, SeriesIdsAre
  <1>4. CASE occs'[e].orig = occs[e].orig
    BY <1>1, <1>4
  <1>5. CASE occs'[e].orig # occs[e].orig
    <2>1. /\ occs'[e].series = s
          /\ \A y \in table : y.series = s /\ y.kind = "entfaellt" => DayOf(occs'[e].orig) # DayOf(y.orig)
      BY <1>3, <1>5
    <2>2. x \in table
      BY <1>1, <1>3, <1>5
    <2>3. QED
      BY <1>1, <2>1, <2>2
  <1>6. QED
    BY <1>4, <1>5

\* Editing from an instant on.
LEMMA EditAllFromKeeps ==
  ASSUME SeriesInv, NEW s \in SeriesIds, series[s] # NoSeries, NEW next \in SeriesEdits(series[s]),
         NEW from \in Instants, EditAllFrom(s, next, from)
  PROVE  Sound(series', occs', exceptions') /\ DroppedStaysDropped /\ UsedStay
  <1>1. PICK done : done = Reconcile(occs, exceptions, s, next, from)
    OBVIOUS
  <1>2. series' = [series EXCEPT ![s] = next] /\ occs' = done.rows /\ exceptions' = done.table
    BY <1>1 DEF EditAllFrom
  <1>3. next \in Rule /\ next.start \in 1..LastDate /\ next # NoSeries
    BY SeriesMeans, EditedIs, StartedIs
  <1>4. occs \in Rows /\ Distinct(occs) /\ Single(exceptions)
    BY SeriesMeans
  <1>5. /\ occs' \in Rows /\ Distinct(occs')
        /\ \A e \in RowIds : occs[e].used => occs'[e] # NoOcc
        /\ \A e \in RowIds :
             \/ occs'[e] = NoOcc
             \/ occs'[e].series = occs[e].series /\ occs'[e].orig = occs[e].orig
             \/ /\ occs'[e].series = s
                /\ \A x \in exceptions : x.series = s /\ x.kind = "entfaellt"
                                         => DayOf(occs'[e].orig) # DayOf(x.orig)
        /\ \A e \in RowIds : occs'[e].series = occs[e].series \/ occs'[e].series = s \/ occs'[e] = NoOcc
        /\ Single(exceptions')
        /\ \A x \in exceptions' : x \in exceptions \/ (x.series = s /\ x.kind = "feiertag")
    BY <1>1, <1>2, <1>3, <1>4, ReconcileIs
  <1>6. /\ \A t \in SeriesIds : series[t] # NoSeries => series'[t] # NoSeries
        /\ series'[s] # NoSeries /\ series' \in [SeriesIds -> Rule]
        /\ \A t \in SeriesIds : series'[t] # NoSeries => series'[t].start >= 1
    <2>1. series \in [SeriesIds -> Rule]
      BY DEF SeriesInv, Sound
    <2>2. series' \in [SeriesIds -> Rule] /\ series'[s] = next
      BY <1>2, <1>3, <2>1
    <2>3. \A t \in SeriesIds : t # s => series'[t] = series[t]
      BY <1>2, <2>1
    <2>4. \A t \in SeriesIds : series[t] # NoSeries => series[t].start >= 1
      BY DEF SeriesInv, Sound
    <2>5. next.start >= 1
      BY <1>3, SeriesConstants
    <2>6. QED
      BY <1>3, <2>2, <2>3, <2>4, <2>5
  <1>7. \A e \in RowIds : occs'[e] # NoOcc => series'[occs'[e].series] # NoSeries
    <2>1. SUFFICES ASSUME NEW e \in RowIds, occs'[e] # NoOcc
                   PROVE  series'[occs'[e].series] # NoSeries
      OBVIOUS
    <2>2. occs'[e].series \in SeriesIds
      BY <1>5, <2>1, RowIs
    <2>3. CASE occs'[e].series = occs[e].series
      <3>1. occs[e] # NoOcc
        BY <2>2, <2>3, NoOccIs, SeriesIdsAre
      <3>2. series[occs[e].series] # NoSeries
        BY <3>1, SeriesMeans
      <3>3. QED
        BY <1>6, <2>2, <2>3, <3>2
    <2>4. QED
      BY <1>5, <1>6, <2>1, <2>3
  <1>8. \A x \in exceptions' : series'[x.series] # NoSeries
    BY <1>5, <1>6, SeriesMeans
  <1>9. Sound(series', occs', exceptions')
    BY <1>5, <1>6, <1>7, <1>8 DEF Sound
  <1>10. DroppedStaysDropped
    <2>1. \A e \in RowIds :
            \/ occs'[e] = NoOcc
            \/ occs'[e].orig = occs[e].orig
            \/ /\ occs'[e].series = s
               /\ \A x \in exceptions : x.series = s /\ x.kind = "entfaellt"
                                        => DayOf(occs'[e].orig) # DayOf(x.orig)
      BY <1>5
    <2>2. \A x \in exceptions' : x \in exceptions \/ x.kind = "feiertag"
      BY <1>5
    <2>3. QED
      BY <1>5, <2>1, <2>2, NothingComesBack
  <1>11. QED
    BY <1>5, <1>9, <1>10 DEF UsedStay

\* Splitting: what follows is relabelled before it is reconciled.
Relabelled(row, s, at, new) == IF row.series = s /\ row.orig >= at THEN [row EXCEPT !.series = new] ELSE row

LEMMA RelabelledIs ==
  ASSUME SeriesInv, NEW s \in SeriesIds, NEW at \in Instants,
         NEW new \in SeriesIds, series[new] = NoSeries,
         NEW rows, rows = [x \in RowIds |-> Relabelled(occs[x], s, at, new)],
         NEW table, table = {Relabelled(x, s, at, new) : x \in exceptions}
  PROVE  /\ rows \in Rows /\ Distinct(rows) /\ Single(table)
         /\ \A e \in RowIds : /\ rows[e].orig = occs[e].orig /\ rows[e].used = occs[e].used
                              /\ rows[e] = NoOcc \/ rows[e].series = new \/ rows[e] = occs[e]
         /\ \A x \in table : x.series = new \/ x \in exceptions
  <1>1. ASSUME NEW e \in RowIds
        PROVE  /\ rows[e] \in {NoOcc} \cup Occurrence
               /\ rows[e].orig = occs[e].orig /\ rows[e].used = occs[e].used
               /\ \/ rows[e] = occs[e] /\ (occs[e] # NoOcc => occs[e].series # new)
                  \/ rows[e].series = new /\ occs[e].series = s /\ occs[e] # NoOcc
    <2>1. occs[e] = NoOcc \/ occs[e] \in Occurrence
      BY SeriesMeans, RowIs
    <2>2. CASE occs[e].series = s /\ occs[e].orig >= at
      <3>1. occs[e] \in Occurrence
        BY <2>1, <2>2, NoOccIs, SeriesIdsAre
      <3>2. PICK row : row = [occs[e] EXCEPT !.series = new]
        OBVIOUS
      <3>3. rows[e] = row
        BY <2>2, <3>2 DEF Relabelled
      <3>4. row \in Occurrence /\ row.orig = occs[e].orig /\ row.used = occs[e].used /\ row.series = new
        BY <3>1, <3>2 DEF Occurrence
      <3>5. QED
        BY <2>2, <3>1, <3>3, <3>4, NoOccIs
    <2>3. CASE ~(occs[e].series = s /\ occs[e].orig >= at)
      <3>1. rows[e] = occs[e]
        BY <2>3 DEF Relabelled
      <3>2. occs[e] # NoOcc => occs[e].series # new
        BY SeriesMeans
      <3>3. QED
        BY <2>1, <3>1, <3>2
    <2>4. QED
      BY <2>2, <2>3
  <1>2. rows \in Rows
    BY <1>1 DEF Rows
  <1>3. Distinct(rows)
    <2>1. SUFFICES ASSUME NEW e \in RowIds, NEW f \in RowIds, rows[e] # NoOcc,
                          rows[e].series = rows[f].series, rows[e].orig = rows[f].orig
                   PROVE  e = f
      BY DEF Distinct
    <2>2. rows[f] # NoOcc
      BY <1>2, <2>1, RowIs, NoOccIs, SeriesIdsAre
    <2>3. occs[e] # NoOcc /\ occs[f] # NoOcc
      BY <1>1, <2>1, <2>2
    <2>4. occs[e].series = occs[f].series /\ occs[e].orig = occs[f].orig
      BY <1>1, <2>1, <2>3
    <2>5. QED
      BY <2>3, <2>4, SeriesMeans DEF Distinct
  <1>4. ASSUME NEW x \in exceptions, NEW y, y = Relabelled(x, s, at, new)
        PROVE  /\ y \in Exception /\ y.orig = x.orig /\ y.kind = x.kind
               /\ \/ y = x /\ x.series # new
                  \/ y.series = new /\ x.series = s
    <2>1. x \in Exception /\ x.series # new
      BY SeriesMeans DEF Single
    <2>2. CASE x.series = s /\ x.orig >= at
      <3>1. y = [x EXCEPT !.series = new]
        BY <1>4, <2>2 DEF Relabelled
      <3>2. y \in Exception /\ y.orig = x.orig /\ y.kind = x.kind /\ y.series = new
        BY <2>1, <3>1 DEF Exception
      <3>3. QED
        BY <2>2, <3>2
    <2>3. CASE ~(x.series = s /\ x.orig >= at)
      <3>1. y = x
        BY <1>4, <2>3 DEF Relabelled
      <3>2. QED
        BY <2>1, <3>1
    <2>4. QED
      BY <2>2, <2>3
  <1>5. Single(table)
    <2>1. table \subseteq Exception
      BY <1>4
    <2>2. ASSUME NEW y \in table, NEW z \in table, y.series = z.series, y.orig = z.orig
          PROVE  y = z
      <3>1. PICK x \in exceptions : y = Relabelled(x, s, at, new)
        OBVIOUS
      <3>2. PICK w \in exceptions : z = Relabelled(w, s, at, new)
        OBVIOUS
      <3>3. x.series = w.series /\ x.orig = w.orig
        BY <1>4, <2>2, <3>1, <3>2
      <3>4. x = w
        BY <3>3, SeriesMeans DEF Single
      <3>5. QED
        BY <3>1, <3>2, <3>4
    <2>3. QED
      BY <2>1, <2>2 DEF Single
  <1>6. \A y \in table : y.series = new \/ y \in exceptions
    BY <1>4
  <1>7. QED
    BY <1>1, <1>2, <1>3, <1>5, <1>6

LEMMA SplitKeeps ==
  ASSUME SeriesInv, NEW s \in SeriesIds, NEW e \in RowIds, series[s] # NoSeries, occs[e].series = s,
         NEW next \in SeriesEdits(series[s]), Split(s, e, next)
  PROVE  Sound(series', occs', exceptions') /\ DroppedStaysDropped /\ UsedStay
  <1>1. PICK at : at = occs[e].orig
    OBVIOUS
  <1>2. PICK new : new = CHOOSE n \in SeriesIds : series[n] = NoSeries
    OBVIOUS
  <1>3. PICK base : base = [next EXCEPT !.start = DayOf(at)]
    OBVIOUS
  <1>4. PICK rows : rows = [x \in RowIds |-> Relabelled(occs[x], s, at, new)]
    OBVIOUS
  <1>5. PICK table : table = {Relabelled(x, s, at, new) : x \in exceptions}
    OBVIOUS
  <1>6. PICK done : done = Reconcile(rows, table, new, base, at)
    OBVIOUS
  <1>7. /\ DayOf(at) > series[s].start
        /\ series' = [series EXCEPT ![s].until = DayOf(at) - 1, ![new] = base]
        /\ occs' = done.rows /\ exceptions' = done.table
        /\ \E n \in SeriesIds : series[n] = NoSeries
    BY <1>1, <1>2, <1>3, <1>4, <1>5, <1>6 DEF Split, Relabelled
  <1>8. new \in SeriesIds /\ series[new] = NoSeries /\ new # s
    BY <1>2, <1>7
  <1>9. at \in Instants /\ DayOf(at) \in 1..LastDate
    BY <1>1, SeriesMeans, RowIs, DayIn
  <1>10. base \in Rule /\ base.start \in 1..LastDate /\ base # NoSeries
    <2>1. next \in Rule
      BY SeriesMeans, EditedIs
    <2>2. DayOf(at) \in 0..LastDate
      BY <1>9, SeriesConstants
    <2>3. base \in Rule /\ base.start = DayOf(at)
      BY <1>3, <2>1, <2>2 DEF Rule
    <2>4. QED
      BY <1>9, <2>3, StartedIs
  <1>11. /\ rows \in Rows /\ Distinct(rows) /\ Single(table)
         /\ \A x \in RowIds : /\ rows[x].orig = occs[x].orig /\ rows[x].used = occs[x].used
                              /\ rows[x] = NoOcc \/ rows[x].series = new \/ rows[x] = occs[x]
         /\ \A x \in table : x.series = new \/ x \in exceptions
    BY <1>4, <1>5, <1>8, <1>9, RelabelledIs
  <1>12. /\ occs' \in Rows /\ Distinct(occs')
         /\ \A x \in RowIds : rows[x].used => occs'[x] # NoOcc
         /\ \A x \in RowIds :
              \/ occs'[x] = NoOcc
              \/ occs'[x].series = rows[x].series /\ occs'[x].orig = rows[x].orig
              \/ /\ occs'[x].series = new
                 /\ \A y \in table : y.series = new /\ y.kind = "entfaellt"
                                     => DayOf(occs'[x].orig) # DayOf(y.orig)
         /\ \A x \in RowIds : occs'[x].series = rows[x].series \/ occs'[x].series = new \/ occs'[x] = NoOcc
         /\ Single(exceptions')
         /\ \A x \in exceptions' : x \in table \/ (x.series = new /\ x.kind = "feiertag")
    BY <1>6, <1>7, <1>8, <1>9, <1>10, <1>11, ReconcileIs
  <1>13. /\ series' \in [SeriesIds -> Rule]
         /\ \A t \in SeriesIds : t = new \/ series[t] # NoSeries => series'[t] # NoSeries
         /\ \A t \in SeriesIds : series'[t] # NoSeries => series'[t].start >= 1
    <2>1. series \in [SeriesIds -> Rule] /\ \A t \in SeriesIds : series[t] # NoSeries => series[t].start >= 1
      BY DEF SeriesInv, Sound
    <2>2. PICK cut : cut = [series[s] EXCEPT !.until = DayOf(at) - 1]
      OBVIOUS
    <2>3. DayOf(at) - 1 \in 0..LastDate
      BY <1>9, SeriesConstants
    <2>4. cut \in Rule /\ cut.start = series[s].start
      BY <2>1, <2>2, <2>3 DEF Rule
    <2>5. cut.start \in 1..LastDate /\ cut # NoSeries
      BY <2>4, SeriesMeans, StartedIs
    <2>6. series' = [series EXCEPT ![s] = cut, ![new] = base]
      BY <1>7, <1>8, <2>1, <2>2
    <2>7. /\ series'[s] = cut /\ series'[new] = base
          /\ \A t \in SeriesIds : t # s /\ t # new => series'[t] = series[t]
          /\ series' \in [SeriesIds -> Rule]
      BY <1>8, <1>10, <2>1, <2>4, <2>6
    <2>8. cut.start >= 1 /\ base.start >= 1
      BY <1>10, <2>5, SeriesConstants
    <2>9. QED
      BY <1>10, <2>1, <2>5, <2>7, <2>8
  <1>14. \A x \in RowIds : occs'[x] # NoOcc => series'[occs'[x].series] # NoSeries
    <2>1. SUFFICES ASSUME NEW x \in RowIds, occs'[x] # NoOcc
                   PROVE  series'[occs'[x].series] # NoSeries
      OBVIOUS
    <2>2. occs'[x].series \in SeriesIds
      BY <1>12, <2>1, RowIs
    <2>3. CASE occs'[x].series # new
      <3>1. occs'[x].series = rows[x].series
        BY <1>12, <2>1, <2>3
      <3>2. rows[x] # NoOcc /\ rows[x] = occs[x]
        BY <1>11, <2>2, <2>3, <3>1, NoOccIs, SeriesIdsAre
      <3>3. series[occs[x].series] # NoSeries
        BY <3>2, SeriesMeans
      <3>4. QED
        BY <1>13, <2>2, <3>1, <3>2, <3>3
    <2>4. QED
      BY <1>8, <1>13, <2>3
  <1>15. \A x \in exceptions' : series'[x.series] # NoSeries
    BY <1>8, <1>11, <1>12, <1>13, SeriesMeans
  <1>16. Sound(series', occs', exceptions')
    BY <1>12, <1>13, <1>14, <1>15 DEF Sound
  <1>17. UsedStay
    BY <1>11, <1>12 DEF UsedStay
  <1>18. DroppedStaysDropped
    <2>1. \A x \in RowIds :
            \/ occs'[x] = NoOcc
            \/ occs'[x].orig = occs[x].orig
            \/ /\ occs'[x].series = new
               /\ \A y \in table : y.series = new /\ y.kind = "entfaellt"
                                   => DayOf(occs'[x].orig) # DayOf(y.orig)
      BY <1>11, <1>12
    <2>2. \A x \in exceptions' : x \in table \/ x.kind = "feiertag"
      BY <1>12
    <2>3. QED
      BY <1>12, <2>1, <2>2, NothingComesBack
  <1>19. QED
    BY <1>16, <1>17, <1>18

LEMMA RefillKeeps ==
  ASSUME SeriesInv, NEW s \in SeriesIds, Refill(s)
  PROVE  Sound(series', occs', exceptions') /\ DroppedStaysDropped /\ UsedStay
  <1>1. PICK target : target = now + MomentOf(Reach, 0)
    OBVIOUS
  <1>2. PICK all : all = Produced(series[s], series[s].horizon, target, ExceptionDays(exceptions, s))
    OBVIOUS
  <1>3. PICK wanted : wanted = all \ HolidaysOf(series[s], all)
    OBVIOUS
  <1>4. /\ series[s] # NoSeries
        /\ occs' = Inserted(occs, s, wanted)
        /\ exceptions' = Recorded(exceptions, s, HolidaysOf(series[s], all))
        /\ series' = [series EXCEPT ![s].horizon = target]
    BY <1>1, <1>2, <1>3 DEF Refill
  <1>5. series[s] \in Rule /\ series[s].start \in 1..LastDate
    BY <1>4, SeriesMeans
  <1>6. target \in Nat
    <2>1. now \in Nat
      BY MomentIs DEF SeriesInv
    <2>2. MomentOf(Reach, 0) \in Nat
      BY MomentIs, SeriesConstants
    <2>3. QED
      BY <1>1, <2>1, <2>2
  <1>7. /\ all \subseteq Instants /\ HolidaysOf(series[s], all) \subseteq all
        /\ \A t \in all : DayOf(t) \notin ExceptionDays(exceptions, s)
    BY <1>2, <1>5, ProducedIs
  <1>8. occs \in Rows /\ Distinct(occs) /\ Single(exceptions)
    BY SeriesMeans
  <1>9. wanted \subseteq Instants /\ HolidaysOf(series[s], all) \subseteq Instants
    BY <1>3, <1>7
  <1>10. /\ occs' \in Rows /\ Distinct(occs')
         /\ \A e \in RowIds : occs[e] # NoOcc => occs'[e] = occs[e]
         /\ \A e \in RowIds : occs'[e] # occs[e] =>
              occs'[e] # NoOcc /\ occs'[e].series = s /\ occs'[e].orig \in wanted
    BY <1>4, <1>8, <1>9, InsertedIs
  <1>11. /\ Single(exceptions')
         /\ \A x \in exceptions' : x \in exceptions \/ (x.series = s /\ x.kind = "feiertag")
    BY <1>4, <1>8, <1>9, RecordedIs
  <1>12. /\ series' \in [SeriesIds -> Rule]
         /\ \A t \in SeriesIds : series[t] # NoSeries => series'[t] # NoSeries
         /\ \A t \in SeriesIds : series'[t] # NoSeries => series'[t].start >= 1
    <2>1. series \in [SeriesIds -> Rule] /\ \A t \in SeriesIds : series[t] # NoSeries => series[t].start >= 1
      BY DEF SeriesInv, Sound
    <2>2. PICK r : r = [series[s] EXCEPT !.horizon = target]
      OBVIOUS
    <2>3. r \in Rule /\ r.start = series[s].start
      BY <1>5, <1>6, <2>2 DEF Rule
    <2>4. r.start \in 1..LastDate /\ r # NoSeries
      BY <1>5, <2>3, StartedIs
    <2>5. series' = [series EXCEPT ![s] = r]
      BY <1>4, <2>1, <2>2
    <2>6. r.start >= 1
      BY <2>4, SeriesConstants
    <2>7. series'[s] = r /\ \A t \in SeriesIds : t # s => series'[t] = series[t]
      BY <2>1, <2>5
    <2>8. series' \in [SeriesIds -> Rule]
      BY <2>1, <2>3, <2>5
    <2>9. QED
      BY <2>1, <2>4, <2>6, <2>7, <2>8
  <1>13. \A e \in RowIds : occs'[e] # NoOcc => series'[occs'[e].series] # NoSeries
    <2>1. SUFFICES ASSUME NEW e \in RowIds, occs'[e] # NoOcc
                   PROVE  series'[occs'[e].series] # NoSeries
      OBVIOUS
    <2>2. occs'[e].series \in SeriesIds
      BY <1>10, <2>1, RowIs
    <2>3. CASE occs'[e] = occs[e]
      <3>1. series[occs[e].series] # NoSeries
        BY <2>1, <2>3, SeriesMeans
      <3>2. QED
        BY <1>12, <2>2, <2>3, <3>1
    <2>4. CASE occs'[e] # occs[e]
      BY <1>4, <1>10, <1>12, <2>4
    <2>5. QED
      BY <2>3, <2>4
  <1>14. \A x \in exceptions' : series'[x.series] # NoSeries
    BY <1>4, <1>11, <1>12, SeriesMeans
  <1>15. Sound(series', occs', exceptions')
    BY <1>10, <1>11, <1>12, <1>13, <1>14 DEF Sound
  <1>16. UsedStay
    <2>1. \A e \in RowIds : occs[e].used => occs[e] # NoOcc
      BY <1>8, RowIs
    <2>2. QED
      BY <1>10, <2>1 DEF UsedStay
  <1>17. DroppedStaysDropped
    <2>1. \A x \in exceptions : x.series = s => DayOf(x.orig) \in ExceptionDays(exceptions, s)
      BY DEF ExceptionDays
    <2>2. \A e \in RowIds :
            \/ occs'[e] = NoOcc
            \/ occs'[e].orig = occs[e].orig
            \/ /\ occs'[e].series = s
               /\ \A x \in exceptions : x.series = s /\ x.kind = "entfaellt"
                                        => DayOf(occs'[e].orig) # DayOf(x.orig)
      <3>1. SUFFICES ASSUME NEW e \in RowIds, occs'[e] # occs[e]
                     PROVE  /\ occs'[e].series = s
                            /\ \A x \in exceptions : x.series = s
                                 => DayOf(occs'[e].orig) # DayOf(x.orig)
        OBVIOUS
      <3>2. occs'[e].series = s /\ occs'[e].orig \in all
        BY <1>3, <1>10, <3>1
      <3>3. DayOf(occs'[e].orig) \notin ExceptionDays(exceptions, s)
        BY <1>7, <3>2
      <3>4. \A x \in exceptions : x.series = s => DayOf(occs'[e].orig) # DayOf(x.orig)
        BY <2>1, <3>3, Zenon
      <3>5. QED
        BY <3>2, <3>4
    <2>3. \A x \in exceptions' : x \in exceptions \/ x.kind = "feiertag"
      BY <1>11
    <2>4. QED
      BY <1>10, <1>11, <2>2, <2>3, NothingComesBack
  <1>18. QED
    BY <1>15, <1>16, <1>17

\* Rows that stay where they are, or go, while the series stay as they are.
LEMMA RowsInPlace ==
  ASSUME SeriesInv, series' = series, occs' \in Rows,
         \A e \in RowIds : occs'[e] # NoOcc => /\ occs[e] # NoOcc /\ occs'[e].series = occs[e].series
                                               /\ occs'[e].orig = occs[e].orig,
         \/ exceptions' = exceptions
         \/ \E e \in RowIds, kind \in {"entfaellt", "verschoben", "feiertag"} :
              occs[e] # NoOcc /\ exceptions' = Excepted(exceptions, occs[e].series, occs[e].orig, kind)
  PROVE  Sound(series', occs', exceptions') /\ DroppedStaysDropped
  <1>1. /\ occs \in Rows /\ Distinct(occs) /\ Single(exceptions)
        /\ \A e \in RowIds : occs[e] # NoOcc => series[occs[e].series] # NoSeries
        /\ \A x \in exceptions : series[x.series] # NoSeries
    BY SeriesMeans
  <1>2. Distinct(occs')
    BY <1>1, DistinctKept
  <1>3. Single(exceptions') /\ \A x \in exceptions' : series[x.series] # NoSeries
    <2>1. ASSUME NEW e \in RowIds, NEW kind \in {"entfaellt", "verschoben", "feiertag"}, occs[e] # NoOcc,
                 exceptions' = Excepted(exceptions, occs[e].series, occs[e].orig, kind)
          PROVE  Single(exceptions') /\ \A x \in exceptions' : series[x.series] # NoSeries
      <3>1. occs[e].series \in SeriesIds /\ occs[e].orig \in Instants
        BY <1>1, <2>1, RowIs
      <3>2. /\ Single(exceptions')
            /\ \A x \in exceptions' : x \in exceptions \/ x.series = occs[e].series
        BY <1>1, <2>1, <3>1, ExceptedIs
      <3>3. QED
        BY <1>1, <2>1, <3>2
    <2>2. CASE exceptions' = exceptions
      BY <1>1, <2>2
    <2>3. QED
      BY <2>1, <2>2
  <1>4. \A e \in RowIds : occs'[e] # NoOcc => series'[occs'[e].series] # NoSeries
    BY <1>1
  <1>5. series' \in [SeriesIds -> Rule] /\ \A s \in SeriesIds : series'[s] # NoSeries => series'[s].start >= 1
    BY DEF SeriesInv, Sound
  <1>6. \A x \in exceptions' : series'[x.series] # NoSeries
    BY <1>3
  <1>7. Sound(series', occs', exceptions')
    BY <1>2, <1>3, <1>4, <1>5, <1>6 DEF Sound
  <1>8. DroppedStaysDropped
    <2>1. \A e \in RowIds : occs'[e] = NoOcc \/ occs'[e].orig = occs[e].orig
      OBVIOUS
    <2>2. SUFFICES ASSUME NEW x \in exceptions', NEW e \in RowIds,
                          occs'[e].series = x.series, DayOf(occs'[e].orig) = DayOf(x.orig)
                   PROVE  DayOf(occs[e].orig) = DayOf(x.orig)
      BY DEF DroppedStaysDropped
    <2>3. occs'[e] # NoOcc
      <3>1. x.series \in SeriesIds
        BY <1>3 DEF Single, Exception
      <3>2. QED
        BY <2>2, <3>1, NoOccIs, SeriesIdsAre
    <2>4. QED
      BY <2>1, <2>2, <2>3
  <1>9. QED
    BY <1>7, <1>8

\* A row that is overridden, cancelled, signed up for or signed off.
LEMMA MarksRow ==
  ASSUME SeriesInv, NEW e \in RowIds, occs[e] # NoOcc,
         \/ occs' = [occs EXCEPT ![e].override = TRUE]
         \/ occs' = [occs EXCEPT ![e].cancelled = TRUE]
         \/ \E u \in BOOLEAN : occs' = [occs EXCEPT ![e].used = u]
  PROVE  /\ occs' \in Rows /\ UsedStay
         /\ \A f \in RowIds : occs'[f] # NoOcc => /\ occs[f] # NoOcc /\ occs'[f].series = occs[f].series
                                                  /\ occs'[f].orig = occs[f].orig
  <1>1. occs \in Rows /\ occs[e] \in Occurrence
    BY SeriesMeans, RowIs
  <1>2. ASSUME NEW u \in BOOLEAN, NEW row,
               \/ row = [occs[e] EXCEPT !.override = TRUE]
               \/ row = [occs[e] EXCEPT !.cancelled = TRUE]
               \/ row = [occs[e] EXCEPT !.used = u]
        PROVE  row \in Occurrence /\ row.series = occs[e].series /\ row.orig = occs[e].orig
    BY <1>1, <1>2 DEF Occurrence
  <1>3. PICK row : /\ row \in Occurrence /\ row.series = occs[e].series /\ row.orig = occs[e].orig
                   /\ occs' = [occs EXCEPT ![e] = row]
    <2>1. CASE occs' = [occs EXCEPT ![e].override = TRUE]
      <3>1. PICK row : row = [occs[e] EXCEPT !.override = TRUE]
        OBVIOUS
      <3>2. occs' = [occs EXCEPT ![e] = row]
        BY <2>1, <3>1
      <3>3. QED
        BY <1>2, <3>1, <3>2
    <2>2. CASE occs' = [occs EXCEPT ![e].cancelled = TRUE]
      <3>1. PICK row : row = [occs[e] EXCEPT !.cancelled = TRUE]
        OBVIOUS
      <3>2. occs' = [occs EXCEPT ![e] = row]
        BY <2>2, <3>1
      <3>3. QED
        BY <1>2, <3>1, <3>2
    <2>3. CASE \E u \in BOOLEAN : occs' = [occs EXCEPT ![e].used = u]
      <3>1. PICK u \in BOOLEAN : occs' = [occs EXCEPT ![e].used = u]
        BY <2>3
      <3>2. PICK row : row = [occs[e] EXCEPT !.used = u]
        OBVIOUS
      <3>3. occs' = [occs EXCEPT ![e] = row]
        BY <3>1, <3>2
      <3>4. QED
        BY <1>2, <3>2, <3>3
    <2>4. QED
      BY <2>1, <2>2, <2>3
  <1>4. occs'[e] = row /\ \A f \in RowIds : f # e => occs'[f] = occs[f]
    BY <1>1, <1>3 DEF Rows
  <1>5. occs' \in Rows
    BY <1>1, <1>3 DEF Rows
  <1>6. \A f \in RowIds : occs[f].used => occs'[f] # NoOcc
    BY <1>1, <1>3, <1>4, RowIs, NoOccIs
  <1>7. QED
    BY <1>3, <1>4, <1>5, <1>6 DEF UsedStay

LEMMA MarksKeep ==
  ASSUME SeriesInv, NEW e \in RowIds,
         CancelEvent(e) \/ SignUp(e) \/ SignOff(e) \/ \E moves \in BOOLEAN : EditThis(e, moves)
  PROVE  Sound(series', occs', exceptions') /\ DroppedStaysDropped /\ UsedStay /\ now' = now
  <1>1. /\ occs[e] # NoOcc /\ series' = series /\ now' = now
        /\ \/ occs' = [occs EXCEPT ![e].override = TRUE]
           \/ occs' = [occs EXCEPT ![e].cancelled = TRUE]
           \/ \E u \in BOOLEAN : occs' = [occs EXCEPT ![e].used = u]
        /\ \/ exceptions' = exceptions
           \/ exceptions' = Excepted(exceptions, occs[e].series, occs[e].orig, "verschoben")
    <2>1. CASE CancelEvent(e)
      BY <2>1 DEF CancelEvent
    <2>2. CASE SignUp(e)
      BY <2>2 DEF SignUp
    <2>3. CASE SignOff(e)
      BY <2>3 DEF SignOff
    <2>4. CASE \E moves \in BOOLEAN : EditThis(e, moves)
      BY <2>4 DEF EditThis
    <2>5. QED
      BY <2>1, <2>2, <2>3, <2>4
  <1>2. /\ occs' \in Rows /\ UsedStay
        /\ \A f \in RowIds : occs'[f] # NoOcc => /\ occs[f] # NoOcc /\ occs'[f].series = occs[f].series
                                                 /\ occs'[f].orig = occs[f].orig
    BY <1>1, MarksRow
  <1>3. \/ exceptions' = exceptions
        \/ \E f \in RowIds, kind \in {"entfaellt", "verschoben", "feiertag"} :
             occs[f] # NoOcc /\ exceptions' = Excepted(exceptions, occs[f].series, occs[f].orig, kind)
    BY <1>1
  <1>4. QED
    BY <1>1, <1>2, <1>3, RowsInPlace

LEMMA RemoveThisKeeps ==
  ASSUME SeriesInv, NEW e \in RowIds, RemoveThis(e)
  PROVE  Sound(series', occs', exceptions') /\ DroppedStaysDropped /\ UsedStay /\ now' = now
  <1>1. /\ occs[e] # NoOcc /\ series' = series /\ now' = now /\ occs' = Deleted(occs, {e})
        /\ \/ exceptions' = exceptions
           \/ exceptions' = Excepted(exceptions, occs[e].series, occs[e].orig, "entfaellt")
    BY DEF RemoveThis
  <1>2. occs \in Rows /\ Distinct(occs)
    BY SeriesMeans
  <1>3. /\ occs' \in Rows
        /\ \A f \in RowIds : occs'[f] # NoOcc => /\ occs[f] # NoOcc /\ occs'[f].series = occs[f].series
                                                 /\ occs'[f].orig = occs[f].orig
        /\ \A f \in RowIds : occs[f].used => occs'[f].used
    <2>1. /\ occs' \in Rows
          /\ \A f \in RowIds : occs'[f] # NoOcc => /\ occs[f] # NoOcc /\ occs'[f].series = occs[f].series
                                                   /\ occs'[f].orig = occs[f].orig
          /\ \A f \in RowIds : occs[f].used => occs'[f].used = occs[f].used
      BY <1>1, <1>2, DeletedIs
    <2>2. QED
      BY <2>1
  <1>4. \/ exceptions' = exceptions
        \/ \E f \in RowIds, kind \in {"entfaellt", "verschoben", "feiertag"} :
             occs[f] # NoOcc /\ exceptions' = Excepted(exceptions, occs[f].series, occs[f].orig, kind)
    BY <1>1
  <1>5. UsedStay
    BY <1>3, RowIs DEF UsedStay
  <1>6. QED
    BY <1>1, <1>3, <1>4, <1>5, RowsInPlace

LEMMA DeleteEventKeeps ==
  ASSUME SeriesInv, NEW e \in RowIds, DeleteEvent(e)
  PROVE  Sound(series', occs', exceptions') /\ DroppedStaysDropped /\ SignedUpStays /\ now' = now
  <1>1. /\ occs[e] # NoOcc /\ series' = series /\ now' = now /\ occs' = [occs EXCEPT ![e] = NoOcc]
        /\ exceptions' = Excepted(exceptions, occs[e].series, occs[e].orig, "entfaellt")
    BY DEF DeleteEvent
  <1>2. occs \in Rows
    BY SeriesMeans
  <1>3. /\ occs' \in Rows /\ occs'[e] = NoOcc
        /\ \A f \in RowIds : f # e => occs'[f] = occs[f]
    BY <1>1, <1>2 DEF Rows
  <1>4. \A f \in RowIds : occs'[f] # NoOcc => /\ occs[f] # NoOcc /\ occs'[f].series = occs[f].series
                                              /\ occs'[f].orig = occs[f].orig
    BY <1>3
  <1>5. \E f \in RowIds, kind \in {"entfaellt", "verschoben", "feiertag"} :
          occs[f] # NoOcc /\ exceptions' = Excepted(exceptions, occs[f].series, occs[f].orig, kind)
    BY <1>1
  <1>6. SignedUpStays
    <2>1. \A f \in RowIds : occs[f].used => occs[f] # NoOcc
      BY <1>2, RowIs
    <2>2. \A f \in RowIds : occs[f].used /\ occs'[f] = NoOcc => f = e
      BY <1>3, <2>1
    <2>3. QED
      BY <2>2 DEF SignedUpStays
  <1>7. QED
    BY <1>1, <1>3, <1>4, <1>5, <1>6, RowsInPlace

LEMMA RemoveFromKeeps ==
  ASSUME SeriesInv, NEW s \in SeriesIds, NEW from \in Instants, RemoveFrom(s, from)
  PROVE  Sound(series', occs', exceptions') /\ DroppedStaysDropped /\ UsedStay /\ now' = now
  <1>1. PICK stays \in BOOLEAN : stays = (RowsOf(occs', s) # {})
    OBVIOUS
  <1>2. PICK cut : cut = [series[s] EXCEPT !.until = Later(DayOf(from) - 1, series[s].start)]
    OBVIOUS
  <1>3. /\ series[s] # NoSeries /\ now' = now
        /\ occs' = Deleted(occs, {e \in RowsOf(occs, s) : occs[e].orig >= from})
        /\ series' = [series EXCEPT ![s] = IF stays THEN cut ELSE NoSeries]
        /\ exceptions' = {x \in exceptions : x.series = s => stays /\ x.orig < from}
    BY <1>1, <1>2 DEF RemoveFrom
  <1>4. occs \in Rows /\ Distinct(occs) /\ Single(exceptions)
    BY SeriesMeans
  <1>5. /\ occs' \in Rows /\ Distinct(occs')
        /\ \A f \in RowIds : occs'[f] # NoOcc => /\ occs[f] # NoOcc /\ occs'[f].series = occs[f].series
                                                 /\ occs'[f].orig = occs[f].orig
        /\ \A f \in RowIds : occs[f].used => occs'[f].used
    <2>1. /\ occs' \in Rows /\ Distinct(occs')
          /\ \A f \in RowIds : occs'[f] # NoOcc => /\ occs[f] # NoOcc /\ occs'[f].series = occs[f].series
                                                   /\ occs'[f].orig = occs[f].orig
          /\ \A f \in RowIds : occs[f].used => occs'[f].used = occs[f].used
      BY <1>3, <1>4, DeletedIs
    <2>2. QED
      BY <2>1
  <1>6. /\ exceptions' \subseteq exceptions /\ Single(exceptions')
        /\ \A x \in exceptions' : x.series = s => stays
    BY <1>3, <1>4 DEF Single
  <1>7. /\ series' \in [SeriesIds -> Rule] /\ (stays => series'[s] # NoSeries)
        /\ \A t \in SeriesIds : t # s => series'[t] = series[t]
        /\ \A t \in SeriesIds : series'[t] # NoSeries => series'[t].start >= 1
    <2>1. series \in [SeriesIds -> Rule] /\ \A t \in SeriesIds : series[t] # NoSeries => series[t].start >= 1
      BY DEF SeriesInv, Sound
    <2>2. DayOf(from) - 1 \in 0..LastDate /\ series[s].start \in 0..LastDate
      BY <2>1, DayIn, SeriesConstants DEF Rule
    <2>3. Later(DayOf(from) - 1, series[s].start) \in 0..LastDate
      BY <2>2 DEF Later
    <2>4. cut \in Rule /\ cut.start = series[s].start
      BY <1>2, <2>1, <2>3 DEF Rule
    <2>5. cut.start \in 1..LastDate /\ cut # NoSeries /\ cut.start >= 1
      <3>1. cut.start \in 1..LastDate
        BY <1>3, <2>4, SeriesMeans
      <3>2. QED
        BY <3>1, StartedIs, SeriesConstants
    <2>6. CASE stays
      <3>1. series' = [series EXCEPT ![s] = cut]
        BY <1>3, <2>6
      <3>2. QED
        BY <2>1, <2>4, <2>5, <3>1
    <2>7. CASE ~stays
      <3>1. series' = [series EXCEPT ![s] = NoSeries]
        BY <1>3, <2>7
      <3>2. PICK none : none = NoSeries
        OBVIOUS
      <3>3. none \in Rule
        BY <3>2, SeriesConstants DEF NoSeries, Rule
      <3>4. QED
        BY <2>1, <2>7, <3>1, <3>2, <3>3
    <2>8. QED
      BY <2>6, <2>7
  <1>8. \A e \in RowIds : occs'[e] # NoOcc => series'[occs'[e].series] # NoSeries
    <2>1. SUFFICES ASSUME NEW e \in RowIds, occs'[e] # NoOcc
                   PROVE  series'[occs'[e].series] # NoSeries
      OBVIOUS
    <2>2. occs'[e].series \in SeriesIds /\ occs'[e].series = occs[e].series /\ occs[e] # NoOcc
      BY <1>5, <2>1, RowIs
    <2>3. series[occs[e].series] # NoSeries
      BY <2>2, SeriesMeans
    <2>4. CASE occs'[e].series = s
      <3>1. e \in RowsOf(occs', s)
        BY <2>4 DEF RowsOf
      <3>2. stays
        BY <1>1, <3>1
      <3>3. QED
        BY <1>7, <2>4, <3>2
    <2>5. CASE occs'[e].series # s
      BY <1>7, <2>2, <2>3, <2>5
    <2>6. QED
      BY <2>4, <2>5
  <1>9. \A x \in exceptions' : series'[x.series] # NoSeries
    BY <1>6, <1>7, SeriesMeans
  <1>10. Sound(series', occs', exceptions')
    BY <1>5, <1>6, <1>7, <1>8, <1>9 DEF Sound
  <1>11. UsedStay
    BY <1>5, RowIs DEF UsedStay
  <1>12. DroppedStaysDropped
    <2>1. \A e \in RowIds : occs'[e] = NoOcc \/ occs'[e].orig = occs[e].orig
      BY <1>5
    <2>2. \A x \in exceptions' : x \in exceptions
      BY <1>6
    <2>3. PICK table : table = exceptions
      OBVIOUS
    <2>4. /\ \A e \in RowIds :
               \/ occs'[e] = NoOcc
               \/ occs'[e].orig = occs[e].orig
               \/ /\ occs'[e].series = s
                  /\ \A x \in table : x.series = s /\ x.kind = "entfaellt"
                                      => DayOf(occs'[e].orig) # DayOf(x.orig)
          /\ \A x \in exceptions' : x \in table \/ x.kind = "feiertag"
      BY <2>1, <2>2, <2>3
    <2>5. QED
      BY <1>5, <1>6, <2>4, NothingComesBack
  <1>13. QED
    BY <1>3, <1>10, <1>11, <1>12

\* A created series has the occurrences of its first months.
LEMMA SeriesStarts == EventSeriesInit => SeriesInv
  <1>1. SUFFICES ASSUME EventSeriesInit
                 PROVE  SeriesInv
    OBVIOUS
  <1>2. PICK p, h, skip, r, all :
          /\ p \in Patterns /\ h \in 0..LastHour /\ skip \in BOOLEAN
          /\ r = [days |-> p, hour |-> h, skip |-> skip, start |-> 1, until |-> LastDate,
                  horizon |-> MomentOf(1 + Reach, 0)]
          /\ all = Produced(r, 0, r.horizon, {})
          /\ series = [s \in SeriesIds |-> IF s = 1 THEN r ELSE NoSeries]
          /\ occs = Inserted([e \in RowIds |-> NoOcc], 1, all \ HolidaysOf(r, all))
          /\ exceptions = Recorded({}, 1, HolidaysOf(r, all))
          /\ now = MomentOf(1, 0) /\ seriesEdits = 0
    <2>1. PICK p \in Patterns, h \in 0..LastHour, skip \in BOOLEAN :
            LET r == [days |-> p, hour |-> h, skip |-> skip, start |-> 1, until |-> LastDate,
                      horizon |-> MomentOf(1 + Reach, 0)]
                all == Produced(r, 0, r.horizon, {})
            IN /\ 1 \in p
               /\ series = [s \in SeriesIds |-> IF s = 1 THEN r ELSE NoSeries]
               /\ occs = Inserted([e \in RowIds |-> NoOcc], 1, all \ HolidaysOf(r, all))
               /\ exceptions = Recorded({}, 1, HolidaysOf(r, all))
               /\ now = MomentOf(1, 0) /\ seriesEdits = 0
      BY <1>1, Zenon DEF EventSeriesInit
    <2> DEFINE r == [days |-> p, hour |-> h, skip |-> skip, start |-> 1, until |-> LastDate,
                     horizon |-> MomentOf(1 + Reach, 0)]
               all == Produced(r, 0, r.horizon, {})
    <2>2. /\ series = [s \in SeriesIds |-> IF s = 1 THEN r ELSE NoSeries]
          /\ occs = Inserted([e \in RowIds |-> NoOcc], 1, all \ HolidaysOf(r, all))
          /\ exceptions = Recorded({}, 1, HolidaysOf(r, all))
          /\ now = MomentOf(1, 0) /\ seriesEdits = 0
      BY <2>1
    <2>3. /\ r = [days |-> p, hour |-> h, skip |-> skip, start |-> 1, until |-> LastDate,
                  horizon |-> MomentOf(1 + Reach, 0)]
          /\ all = Produced(r, 0, r.horizon, {})
      OBVIOUS
    <2> HIDE DEF all, r
    <2>4. QED
      BY <2>2, <2>3
  <1>3. MomentOf(1 + Reach, 0) \in Nat /\ MomentOf(1, 0) \in Instants
    <2>1. 1 + Reach \in Nat /\ 0 \in Nat /\ 0 \in 0..LastHour /\ 1 \in 1..LastDate
      BY SeriesConstants
    <2>2. QED
      BY <2>1, MomentIs
  <1>4. 1 \in 0..LastDate /\ LastDate \in 0..LastDate /\ 1 \in 1..LastDate
    BY SeriesConstants
  <1>5. r \in Rule /\ r.start = 1 /\ r # NoSeries
    <2>1. r \in Rule /\ r.start = 1
      BY <1>2, <1>3, <1>4 DEF Rule
    <2>2. QED
      BY <1>4, <2>1, StartedIs
  <1>6. all \subseteq Instants /\ HolidaysOf(r, all) \subseteq all
    BY <1>2, <1>5, ProducedIs
  <1>7. PICK rows : rows = [e \in RowIds |-> NoOcc]
    OBVIOUS
  <1>8. rows \in Rows /\ \A e \in RowIds : rows[e] = NoOcc
    BY <1>7 DEF Rows
  <1>9. Distinct(rows)
    BY <1>8 DEF Distinct
  <1>10. PICK wanted : wanted = all \ HolidaysOf(r, all)
    OBVIOUS
  <1>11. wanted \subseteq Instants /\ occs = Inserted(rows, 1, wanted)
    BY <1>2, <1>6, <1>7, <1>10
  <1>12. /\ occs \in Rows /\ Distinct(occs)
         /\ \A e \in RowIds : occs[e] # rows[e] => occs[e].series = 1
    BY <1>8, <1>9, <1>11, SeriesIdsAre, InsertedIs
  <1>13. PICK none : none = {}
    OBVIOUS
  <1>14. Single(none)
    BY <1>13 DEF Single
  <1>15. Single(exceptions) /\ \A x \in exceptions : x.series = 1
    <2>1. HolidaysOf(r, all) \subseteq Instants
      BY <1>6
    <2>2. exceptions = Recorded(none, 1, HolidaysOf(r, all))
      BY <1>2, <1>13
    <2>3. Single(exceptions) /\ \A x \in exceptions : x \in none \/ x.series = 1
      BY <1>14, <2>1, <2>2, SeriesIdsAre, RecordedIs
    <2>4. QED
      BY <1>13, <2>3
  <1>16. /\ series \in [SeriesIds -> Rule] /\ series[1] = r
         /\ \A s \in SeriesIds : series[s] # NoSeries => series[s].start >= 1
    <2>1. PICK free : free = NoSeries
      OBVIOUS
    <2>2. free \in Rule
      BY <2>1, SeriesConstants DEF NoSeries, Rule
    <2>3. series = [s \in SeriesIds |-> IF s = 1 THEN r ELSE free]
      BY <1>2, <2>1
    <2>4. series \in [SeriesIds -> Rule] /\ series[1] = r
      BY <1>5, <2>2, <2>3, SeriesIdsAre
    <2>5. \A s \in SeriesIds : series[s] = r \/ series[s] = NoSeries
      BY <2>1, <2>3
    <2>6. QED
      BY <1>5, <2>4, <2>5
  <1>17. \A e \in RowIds : occs[e] # NoOcc => series[occs[e].series] # NoSeries
    BY <1>5, <1>8, <1>12, <1>16
  <1>18. \A x \in exceptions : series[x.series] # NoSeries
    BY <1>5, <1>15, <1>16
  <1>19. seriesEdits \in 0..MaxEdits /\ now \in Instants
    BY <1>2, <1>3, SeriesConstants
  <1>20. QED
    BY <1>12, <1>15, <1>16, <1>17, <1>18, <1>19 DEF SeriesInv, Sound

LEMMA SeriesStepKeeps ==
  ASSUME SeriesInv, SeriesStep
  PROVE  Sound(series', occs', exceptions') /\ DroppedStaysDropped /\ UsedStay /\ now' = now
  <1>1. PICK s \in SeriesIds :
          \/ \E next \in SeriesEdits(series[s]) :
               EditAll(s, next) \/ \E e \in RowIds : EditFollowing(s, e, next)
          \/ RemoveFrom(s, now)
          \/ \E e \in RowIds : occs[e].series = s /\ RemoveFrom(s, occs[e].orig)
    BY DEF SeriesStep
  <1>2. now \in Instants
    BY DEF SeriesInv
  <1>3. ASSUME NEW e \in RowIds, occs[e].series = s
        PROVE  occs[e].orig \in Instants
    BY <1>3, SeriesMeans, RowIs
  <1>4. CASE RemoveFrom(s, now)
    BY <1>2, <1>4, RemoveFromKeeps
  <1>5. CASE \E e \in RowIds : occs[e].series = s /\ RemoveFrom(s, occs[e].orig)
    <2>1. PICK e \in RowIds : occs[e].series = s /\ RemoveFrom(s, occs[e].orig)
      BY <1>5
    <2>2. PICK from \in Instants : from = occs[e].orig
      BY <1>3, <2>1
    <2>3. RemoveFrom(s, from)
      BY <2>1, <2>2
    <2>4. QED
      BY <2>3, RemoveFromKeeps
  <1>6. CASE \E next \in SeriesEdits(series[s]) : EditAll(s, next)
    <2>1. PICK next \in SeriesEdits(series[s]) : EditAll(s, next)
      BY <1>6
    <2>2. series[s] # NoSeries /\ EditAllFrom(s, next, now)
      BY <2>1 DEF EditAll
    <2>3. now' = now
      BY <2>2 DEF EditAllFrom
    <2>4. QED
      BY <1>2, <2>2, <2>3, EditAllFromKeeps
  <1>7. CASE \E next \in SeriesEdits(series[s]), e \in RowIds : EditFollowing(s, e, next)
    <2>1. PICK next \in SeriesEdits(series[s]), e \in RowIds : EditFollowing(s, e, next)
      BY <1>7
    <2>2. /\ series[s] # NoSeries /\ occs[e].series = s
          /\ Split(s, e, next) \/ EditAllFrom(s, next, occs[e].orig)
      BY <2>1 DEF EditFollowing
    <2>3. CASE Split(s, e, next)
      <3>1. now' = now
        BY <2>3 DEF Split
      <3>2. QED
        BY <2>2, <2>3, <3>1, SplitKeeps
    <2>4. CASE EditAllFrom(s, next, occs[e].orig)
      <3>1. now' = now
        BY <2>4 DEF EditAllFrom
      <3>2. PICK from \in Instants : from = occs[e].orig
        BY <1>3, <2>2
      <3>3. EditAllFrom(s, next, from)
        BY <2>4, <3>2
      <3>4. QED
        BY <2>2, <3>1, <3>3, EditAllFromKeeps
    <2>5. QED
      BY <2>2, <2>3, <2>4
  <1>8. QED
    BY <1>1, <1>4, <1>5, <1>6, <1>7

LEMMA UsedStayIs == UsedStay => SignedUpStays
  BY DEF UsedStay, SignedUpStays

LEMMA OccurrenceStepKeeps ==
  ASSUME SeriesInv, OccurrenceStep
  PROVE  Sound(series', occs', exceptions') /\ DroppedStaysDropped /\ SignedUpStays /\ now' = now
  <1>1. PICK e \in RowIds : \/ RemoveThis(e) \/ DeleteEvent(e) \/ CancelEvent(e)
                            \/ SignUp(e) \/ SignOff(e)
                            \/ \E moves \in BOOLEAN : EditThis(e, moves)
    BY DEF OccurrenceStep
  <1>2. CASE RemoveThis(e)
    BY <1>2, RemoveThisKeeps, UsedStayIs
  <1>3. CASE DeleteEvent(e)
    BY <1>3, DeleteEventKeeps
  <1>4. CASE CancelEvent(e) \/ SignUp(e) \/ SignOff(e) \/ \E moves \in BOOLEAN : EditThis(e, moves)
    BY <1>4, MarksKeep, UsedStayIs
  <1>5. QED
    BY <1>1, <1>2, <1>3, <1>4

LEMMA TickKeeps ==
  ASSUME SeriesInv, Tick
  PROVE  Sound(series', occs', exceptions') /\ DroppedStaysDropped /\ UsedStay /\ now' \in Instants
  <1>1. now < MomentOf(LastDate, LastHour) /\ now' = now + 1
        /\ series' = series /\ occs' = occs /\ exceptions' = exceptions
    BY DEF Tick
  <1>2. PICK a \in Nat, b \in Nat : a = MomentOf(1, 0) /\ b = MomentOf(LastDate, LastHour)
    BY MomentIs, SeriesConstants
  <1>3. now \in a..b
    BY <1>2 DEF SeriesInv, Instants
  <1>4. now + 1 \in a..b
    BY <1>1, <1>2, <1>3
  <1>5. now' \in Instants
    BY <1>1, <1>2, <1>4 DEF Instants
  <1>6. Sound(series', occs', exceptions')
    BY <1>1 DEF SeriesInv
  <1>7. \A e \in RowIds : occs[e].used => occs[e] # NoOcc
    BY SeriesMeans, RowIs
  <1>8. QED
    BY <1>1, <1>5, <1>6, <1>7 DEF UsedStay, DroppedStaysDropped

\* Every step keeps the invariant and does what the promise says of steps.
LEMMA SeriesNext ==
  SeriesInv /\ [EventSeriesNext]_seriesVars
    => SeriesInv' /\ [DroppedStaysDropped /\ SignedUpStays]_seriesVars
  <1>1. SUFFICES ASSUME SeriesInv, [EventSeriesNext]_seriesVars
                 PROVE  SeriesInv' /\ [DroppedStaysDropped /\ SignedUpStays]_seriesVars
    OBVIOUS
  <1>2. CASE UNCHANGED seriesVars
    BY <1>1, <1>2 DEF seriesVars, SeriesInv
  <1>3. CASE Tick /\ UNCHANGED seriesEdits
    <2>1. Sound(series', occs', exceptions') /\ DroppedStaysDropped /\ SignedUpStays /\ now' \in Instants
      BY <1>1, <1>3, TickKeeps, UsedStayIs
    <2>2. seriesEdits' \in 0..MaxEdits
      BY <1>1, <1>3 DEF SeriesInv
    <2>3. QED
      BY <2>1, <2>2 DEF SeriesInv
  <1>4. CASE Refills /\ UNCHANGED seriesEdits
    <2>1. PICK s \in SeriesIds : Refill(s)
      BY <1>4 DEF Refills
    <2>2. Sound(series', occs', exceptions') /\ DroppedStaysDropped /\ SignedUpStays
      BY <1>1, <2>1, RefillKeeps, UsedStayIs
    <2>3. now' = now
      BY <2>1 DEF Refill
    <2>4. now' \in Instants /\ seriesEdits' \in 0..MaxEdits
      BY <1>1, <1>4, <2>3 DEF SeriesInv
    <2>5. QED
      BY <2>2, <2>4 DEF SeriesInv
  <1>5. CASE seriesEdits < MaxEdits /\ seriesEdits' = seriesEdits + 1 /\ (SeriesStep \/ OccurrenceStep)
    <2>1. Sound(series', occs', exceptions') /\ DroppedStaysDropped /\ SignedUpStays /\ now' = now
      BY <1>1, <1>5, SeriesStepKeeps, OccurrenceStepKeeps, UsedStayIs
    <2>2. seriesEdits' \in 0..MaxEdits
      BY <1>1, <1>5, SeriesConstants DEF SeriesInv
    <2>3. now' \in Instants
      BY <1>1, <2>1 DEF SeriesInv
    <2>4. QED
      BY <2>1, <2>2, <2>3 DEF SeriesInv
  <1>6. QED
    BY <1>1, <1>2, <1>3, <1>4, <1>5 DEF EventSeriesNext

LEMMA SeriesInvIs == SeriesInv => EventSeriesTypeOK /\ OriginalsDistinct
  <1>1. SUFFICES ASSUME SeriesInv
                 PROVE  EventSeriesTypeOK /\ OriginalsDistinct
    OBVIOUS
  <1>2. occs \in [RowIds -> {NoOcc} \cup Occurrence] /\ Distinct(occs) /\ Single(exceptions)
    BY <1>1, SeriesMeans DEF Rows
  <1>3. series \in [SeriesIds -> [days: Patterns \cup {{}}, hour: 0..LastHour, skip: BOOLEAN,
                                  start: 0..LastDate, until: 0..LastDate, horizon: Nat]]
    BY <1>1 DEF SeriesInv, Sound, Rule
  <1>4. \A e \in RowIds : occs[e] # NoOcc => series[occs[e].series] # NoSeries
    BY <1>1, SeriesMeans
  <1>5. EventSeriesTypeOK
    BY <1>1, <1>2, <1>3, <1>4 DEF EventSeriesTypeOK, SeriesInv, Single
  <1>6. OriginalsDistinct
    BY <1>2 DEF OriginalsDistinct, Distinct
  <1>7. QED
    BY <1>5, <1>6

\* Recurring events: whatever refills, edits, splits and removals do, the rows of
\* a series keep distinct original instants, a dropped day does not come back, and
\* an occurrence somebody signed up for stays (reconcileOccurrences, splitSeries,
\* extendHorizon and removeScoped of event-series.ts).
THEOREM SeriesIsSound == EventSeriesSpec => SeriesPromise
  <1>1. EventSeriesInit => SeriesInv
    BY SeriesStarts
  <1>2. SeriesInv /\ [EventSeriesNext]_seriesVars => SeriesInv'
    BY SeriesNext
  <1>3. SeriesInv /\ [EventSeriesNext]_seriesVars => [DroppedStaysDropped /\ SignedUpStays]_seriesVars
    BY SeriesNext
  <1>4. SeriesInv => EventSeriesTypeOK /\ OriginalsDistinct
    BY SeriesInvIs
  <1>5. QED
    BY <1>1, <1>2, <1>3, <1>4, PTL DEF EventSeriesSpec, SeriesPromise
================================================================================
