------------------------- MODULE TransactionsProof -------------------------
(***************************************************************************)
(* No transaction is lost, leaked or mistaken for another, and a belief     *)
(* changes only on evidence, whatever the number of slaves and the order of *)
(* faults, commands and stalls.                                            *)
(*                                                                         *)
(* The argument: in one pass each of the 3 * SLAVE_COUNT calls of           *)
(* ServiceForeignBus starts at most one transaction, and a transaction      *)
(* lives for fewer than RESPONSE_TIMEOUT passes, so the id counter cannot    *)
(* come round to an id that is still in use.                               *)
(*                                                                         *)
(* And no slave a client sees online has been silent for longer than        *)
(* SilenceBound, for any periods, timeout and stalls.                       *)
(***************************************************************************)
EXTENDS GatewaySystemProof
----------------------------------------------------------------------------
(* The transactions of a pass. *)

\* Enough ids for the starts of every pass a transaction can live through.
IdsSuffice == MAX_TRANSACTION_ID >= 3 * SLAVE_COUNT * (RESPONSE_TIMEOUT + 1)

\* A connected slave answers before the driver gives up on it.
AnswersInTime == \A slave \in Slaves : LATENCY[slave] <= RESPONSE_TIMEOUT

CallsPerPass == 3 * SLAVE_COUNT

\* Where in the pass a transaction is checked: the calls made before that one.
CallsBefore(slave, table) ==
  3 * (slave - 1) + (IF table = "input" THEN 0 ELSE IF table = "holding" THEN 1 ELSE 2)

InPass == pc \in {"Poll", "setpoint", "enable"}

\* The calls of ServiceForeignBus made since the last Service.
CallsDone ==
  IF InPass
    THEN 3 * (unit - 1) + (IF pc = "Poll" THEN 0 ELSE IF pc = "setpoint" THEN 1 ELSE 2)
    ELSE CallsPerPass

\* How many ids were given out since id was, itself included.
GivenOutSince(id) ==
  IF id < nextTransactionId THEN nextTransactionId - id
                            ELSE nextTransactionId - id + MAX_TRANSACTION_ID

\* A pending transaction is as old as the passes it has seen, in each of which
\* every user starts at most one.
PendingOK(id) ==
  /\ transactions[id].age < RESPONSE_TIMEOUT
  /\ GivenOutSince(id) <= CallsPerPass * transactions[id].age + CallsDone

\* A finished one was finished by this pass's Service, over the wire as it still
\* is, and its owner has yet to check it.
FinishedOK(id) ==
  /\ CallsDone <= CallsBefore(transactions[id].unit, transactions[id].table)
  /\ GivenOutSince(id) <= CallsPerPass * RESPONSE_TIMEOUT + CallsDone
  /\ (transactions[id].outcome = "Done") = connected[transactions[id].unit]

LiveOK(id) == IF transactions[id].outcome = "Pending" THEN PendingOK(id) ELSE FinishedOK(id)

LiveInv ==
  /\ OwnedTransactions
  /\ ~InPass => unit = 1
  /\ \A id \in DOMAIN transactions : LiveOK(id)

----------------------------------------------------------------------------
(* Arithmetic of ids and calls. *)

\* The calls of a pass are numbered without gaps or repeats (main.cpp:466).
LEMMA CallsNumbered ==
  ASSUME NEW slave \in Slaves, NEW table \in Tables
  PROVE  /\ CallsBefore(slave, table) \in 0 .. CallsPerPass - 1
         /\ \A other \in Slaves, otherTable \in Tables :
              CallsBefore(other, otherTable) = CallsBefore(slave, table)
                => other = slave /\ otherTable = table
<1>1. SLAVE_COUNT \in Nat /\ slave \in 1 .. SLAVE_COUNT
  BY SlaveCountAssumption DEF Slaves
<1>2. CallsBefore(slave, table) \in 0 .. CallsPerPass - 1
  BY <1>1 DEF CallsBefore, CallsPerPass
<1>3. ASSUME NEW other \in Slaves, NEW otherTable \in Tables,
             CallsBefore(other, otherTable) = CallsBefore(slave, table)
      PROVE  other = slave /\ otherTable = table
  <2>1. other \in Nat /\ slave \in Nat
    BY SlaveCountAssumption DEF Slaves
  <2> QED
    BY <1>3, <2>1 DEF CallsBefore, Tables
<1> QED
  BY <1>2, <1>3

\* Giving out an id makes every other one an id older, and itself one id old,
\* across the wrap too (SimulatedForeignBus.cpp:105).
LEMMA IdGivenOut ==
  ASSUME NEW id \in TransactionIds, nextTransactionId \in TransactionIds,
         nextTransactionId' = NextTransactionId(nextTransactionId)
  PROVE  GivenOutSince(id)' = IF id = nextTransactionId THEN 1 ELSE GivenOutSince(id) + 1
<1>1. MAX_TRANSACTION_ID \in Nat /\ id \in Nat /\ nextTransactionId \in Nat
      /\ 1 <= id /\ id <= MAX_TRANSACTION_ID
      /\ 1 <= nextTransactionId /\ nextTransactionId <= MAX_TRANSACTION_ID
  BY TransactionIdAssumption DEF TransactionIds
<1> QED
  BY <1>1 DEF GivenOutSince, NextTransactionId

\* The next id is not in use (SimulatedForeignBus.cpp:105).
LEMMA NextIdIsFree ==
  ASSUME IdsSuffice, TypeOK, LiveInv, InPass, CallsDone < CallsPerPass
  PROVE  nextTransactionId \notin DOMAIN transactions
<1> SUFFICES ASSUME nextTransactionId \in DOMAIN transactions PROVE FALSE
  OBVIOUS
<1> DEFINE transaction == transactions[nextTransactionId]
<1>1. CallsPerPass \in Nat /\ CallsPerPass > 0 /\ RESPONSE_TIMEOUT \in Nat
      /\ MAX_TRANSACTION_ID \in Nat
  BY SlaveCountAssumption, TimeoutAssumption, TransactionIdAssumption DEF CallsPerPass
<1>2. MAX_TRANSACTION_ID >= CallsPerPass * RESPONSE_TIMEOUT + CallsPerPass
  BY <1>1, SlaveCountAssumption DEF IdsSuffice, CallsPerPass
<1>3. nextTransactionId \in Nat /\ GivenOutSince(nextTransactionId) = MAX_TRANSACTION_ID
  BY <1>1 DEF GivenOutSince, TypeOK, BusTypeOK, TransactionIds
<1>4. CallsDone \in Nat
  BY SlaveCountAssumption DEF CallsDone, TypeOK, Slaves
<1>5. transaction \in Transactions /\ LiveOK(nextTransactionId)
  BY DEF TypeOK, BusTypeOK, LiveInv
<1>6. CASE transaction.outcome = "Pending"
  <2>1. transaction.age \in Nat /\ transaction.age < RESPONSE_TIMEOUT
        /\ MAX_TRANSACTION_ID <= CallsPerPass * transaction.age + CallsDone
    BY <1>3, <1>5, <1>6 DEF LiveOK, PendingOK, Transactions
  <2>2. CallsPerPass * transaction.age <= CallsPerPass * RESPONSE_TIMEOUT
    BY <1>1, <2>1
  <2> QED
    BY <1>1, <1>2, <1>4, <2>1, <2>2
<1>7. CASE transaction.outcome # "Pending"
  <2>1. MAX_TRANSACTION_ID <= CallsPerPass * RESPONSE_TIMEOUT + CallsDone
    BY <1>3, <1>5, <1>7 DEF LiveOK, FinishedOK
  <2> QED
    BY <1>1, <1>2, <1>4, <2>1
<1> QED
  BY <1>6, <1>7

----------------------------------------------------------------------------
(* One call of ServiceForeignBus for one user of the bus. *)

TableFor(user) == IF user = "poll" THEN "input" ELSE TableOf(user)

\* The value a user has in flight, if it writes one.
InFlight(slave, user) == IF user = "poll" THEN 0 ELSE link[slave][user].inFlightValue

\* Users and tables of a slave correspond (main.cpp:466).
LEMMA UserTables ==
  /\ \A user \in Users : TableFor(user) \in Tables
  /\ \A user, other \in Users : TableFor(user) = TableFor(other) => user = other
  BY DEF TableFor, TableOf, Users, Outputs, Tables

\* What a request tells of its user, and what it takes to be one.
LEMMA RequestTells ==
  ASSUME NEW slave, NEW user \in Users, NEW transaction
  PROVE  /\ RequestedBy(slave, user, transaction) =>
              transaction.unit = slave /\ transaction.table = TableFor(user)
         /\ RequestedBy(slave, user, transaction) /\ InFlight(slave, user)' = InFlight(slave, user)
              => RequestedBy(slave, user, transaction)'
<1>1. RequestedBy(slave, user, transaction) =>
        transaction.unit = slave /\ transaction.table = TableFor(user)
  BY DEF RequestedBy, TableFor
<1>2. CASE user = "poll"
  BY <1>1, <1>2 DEF RequestedBy
<1>3. CASE user # "poll"
  <2>1. InFlight(slave, user)' = InFlight(slave, user)
          => link'[slave][user].inFlightValue = link[slave][user].inFlightValue
    BY <1>3 DEF InFlight
  <2> QED
    BY <1>1, <1>3, <2>1 DEF RequestedBy
<1> QED
  BY <1>2, <1>3

\* No two users of the bus hold the same transaction.
LEMMA OneOwner ==
  ASSUME OwnedTransactions,
         NEW slave \in Slaves, NEW user \in Users, NEW other \in Slaves, NEW otherUser \in Users,
         TransactionOf(slave, user) # 0,
         TransactionOf(slave, user) = TransactionOf(other, otherUser)
  PROVE  slave = other /\ user = otherUser
<1> DEFINE transaction == transactions[TransactionOf(slave, user)]
<1>1. RequestedBy(slave, user, transaction) /\ RequestedBy(other, otherUser, transaction)
  BY DEF OwnedTransactions
<1> HIDE DEF transaction
<1>2. /\ transaction.unit = slave /\ transaction.table = TableFor(user)
      /\ transaction.unit = other /\ transaction.table = TableFor(otherUser)
  BY <1>1, RequestTells
<1> QED
  BY <1>2, UserTables

\* What one call may do for a user of `slave`: check the transaction in flight,
\* which erases it if it is finished, and start a new one if none is left.
UserCall(slave, user) ==
  LET mine == TransactionOf(slave, user)
      erased == IF mine # 0 /\ CheckedOutcome(mine) # "Pending" THEN {mine} ELSE {}
      kept == [id \in DOMAIN transactions \ erased |-> transactions[id]]
  IN /\ \/ /\ DOMAIN transactions' = DOMAIN kept
           /\ \A id \in DOMAIN kept : transactions'[id] = kept[id]
           /\ nextTransactionId' = nextTransactionId
           /\ TransactionOf(slave, user)' = IF erased = {} THEN mine ELSE 0
           /\ InFlight(slave, user)' = InFlight(slave, user)
        \/ \E request \in Transactions :
             /\ mine = 0 \/ erased # {}
             /\ transactions' = Started(kept, nextTransactionId, request)
             /\ nextTransactionId' = NextTransactionId(nextTransactionId)
             /\ TransactionOf(slave, user)' = nextTransactionId
             /\ request.outcome = "Pending" /\ request.age = 0
             /\ RequestedBy(slave, user, request)'
     /\ \A other \in Slaves, otherUser \in Users : other # slave \/ otherUser # user =>
          /\ TransactionOf(other, otherUser)' = TransactionOf(other, otherUser)
          /\ InFlight(other, otherUser)' = InFlight(other, otherUser)
     /\ connected' = connected

\* Such a call keeps every transaction owned, and leaves no finished one
\* behind it.
LEMMA UserCallKeeps ==
  ASSUME IdsSuffice, TypeOK, LiveInv, InPass, NEW slave \in Slaves, NEW user \in Users,
         CallsDone = CallsBefore(slave, TableFor(user)),
         CallsDone' = CallsDone + 1,
         ~InPass' => unit' = 1,
         UserCall(slave, user)
  PROVE  LiveInv'
<1> DEFINE next == nextTransactionId
           mine == TransactionOf(slave, user)
           erased == IF mine # 0 /\ CheckedOutcome(mine) # "Pending" THEN {mine} ELSE {}
           kept == [id \in DOMAIN transactions \ erased |-> transactions[id]]
           Finishes == /\ DOMAIN transactions' = DOMAIN kept
                       /\ \A id \in DOMAIN kept : transactions'[id] = kept[id]
                       /\ nextTransactionId' = next
                       /\ TransactionOf(slave, user)' = IF erased = {} THEN mine ELSE 0
                       /\ InFlight(slave, user)' = InFlight(slave, user)
           Starts(request) == /\ mine = 0 \/ erased # {}
                              /\ transactions' = Started(kept, next, request)
                              /\ nextTransactionId' = NextTransactionId(next)
                              /\ TransactionOf(slave, user)' = next
                              /\ request.outcome = "Pending" /\ request.age = 0
                              /\ RequestedBy(slave, user, request)'
<1>1. DOMAIN transactions \subseteq TransactionIds /\ next \in TransactionIds
      /\ 0 \notin TransactionIds
  BY DEF TypeOK, BusTypeOK, TransactionIds
<1>2. CallsDone \in Nat /\ CallsDone < CallsPerPass
  <2>1. CallsDone \in 0 .. CallsPerPass - 1
    BY UserTables, CallsNumbered
  <2>2. CallsPerPass \in Nat
    BY SlaveCountAssumption DEF CallsPerPass
  <2> QED
    BY <2>1, <2>2
<1>3. next \notin DOMAIN transactions
  BY <1>2, NextIdIsFree
<1>4. /\ OwnedTransactions
      /\ \A id \in DOMAIN transactions : LiveOK(id)
      /\ mine # 0 => mine \in DOMAIN transactions
  BY DEF LiveInv, OwnedTransactions
<1>5. \A id \in erased, other \in Slaves, otherUser \in Users :
        TransactionOf(other, otherUser) = id => other = slave /\ otherUser = user
  BY <1>4, OneOwner
<1>6. Finishes \/ \E request \in Transactions : Starts(request)
  BY DEF UserCall
<1>7. \A other \in Slaves, otherUser \in Users : other # slave \/ otherUser # user =>
        /\ TransactionOf(other, otherUser)' = TransactionOf(other, otherUser)
        /\ InFlight(other, otherUser)' = InFlight(other, otherUser)
  BY DEF UserCall
<1>8. connected' = connected
  BY DEF UserCall
<1>9. erased \subseteq DOMAIN transactions
  BY <1>4
<1>10. /\ DOMAIN kept = DOMAIN transactions \ erased
       /\ \A id \in DOMAIN kept : kept[id] = transactions[id] /\ id # next
  BY <1>3
<1>11. /\ DOMAIN kept \subseteq DOMAIN transactions'
       /\ \A id \in DOMAIN kept : transactions'[id] = transactions[id]
  <2>1. CASE Finishes
    BY <1>10, <2>1
  <2>2. CASE \E request \in Transactions : Starts(request)
    BY <1>10, <2>2 DEF Started
  <2> QED
    BY <1>6, <2>1, <2>2
<1>12. ASSUME NEW id \in DOMAIN transactions'
       PROVE  \/ id \in DOMAIN kept
              \/ /\ id = next /\ TransactionOf(slave, user)' = next
                 /\ nextTransactionId' = NextTransactionId(next)
                 /\ transactions'[id].outcome = "Pending" /\ transactions'[id].age = 0
                 /\ RequestedBy(slave, user, transactions[id])'
  <2>1. CASE Finishes
    BY <2>1
  <2>2. CASE \E request \in Transactions : Starts(request)
    <3>1. PICK request \in Transactions : Starts(request)
      BY <2>2
    <3> HIDE DEF kept
    <3>2. id \in DOMAIN kept \/ (id = next /\ transactions'[id] = request)
      BY <3>1 DEF Started
    <3> QED
      BY <3>1, <3>2
  <2> QED
    BY <1>6, <2>1, <2>2
<1> HIDE DEF kept, erased
<1>13. ASSUME NEW other \in Slaves, NEW otherUser \in Users, TransactionOf(other, otherUser)' # 0
       PROVE  /\ TransactionOf(other, otherUser)' \in DOMAIN transactions'
              /\ RequestedBy(other, otherUser, transactions[TransactionOf(other, otherUser)])'
  <2>1. CASE other # slave \/ otherUser # user
    <3> DEFINE id == TransactionOf(other, otherUser)
    <3>1. id # 0 /\ TransactionOf(other, otherUser)' = id
          /\ InFlight(other, otherUser)' = InFlight(other, otherUser)
      BY <1>7, <1>13, <2>1
    <3>2. id \in DOMAIN transactions /\ RequestedBy(other, otherUser, transactions[id])
      BY <1>4, <3>1 DEF OwnedTransactions
    <3>3. id \in DOMAIN kept
      BY <1>5, <1>10, <2>1, <3>2
    <3>4. id \in DOMAIN transactions' /\ transactions'[id] = transactions[id]
      BY <1>10, <1>11, <3>3
    <3> HIDE DEF id
    <3>5. \A transaction : RequestedBy(other, otherUser, transaction)
                             => RequestedBy(other, otherUser, transaction)'
      BY <3>1, RequestTells
    <3> QED
      BY <3>1, <3>2, <3>4, <3>5
  <2>2. CASE other = slave /\ otherUser = user /\ Finishes
    <3>1. erased = {} /\ mine # 0 /\ TransactionOf(slave, user)' = mine
      BY <1>13, <2>2
    <3>2. mine \in DOMAIN transactions' /\ transactions'[mine] = transactions[mine]
          /\ RequestedBy(slave, user, transactions[mine])
      BY <1>4, <1>10, <1>11, <3>1 DEF OwnedTransactions
    <3> HIDE DEF mine
    <3>3. \A transaction : RequestedBy(slave, user, transaction)
                             => RequestedBy(slave, user, transaction)'
      BY <2>2, RequestTells
    <3> QED
      BY <2>2, <3>1, <3>2, <3>3
  <2>3. CASE other = slave /\ otherUser = user /\ \E request \in Transactions : Starts(request)
    <3>1. PICK request \in Transactions : Starts(request)
      BY <2>3
    <3>2. next \in DOMAIN transactions' /\ transactions'[next] = request
      BY <3>1 DEF Started
    <3>3. TransactionOf(slave, user)' = next /\ RequestedBy(slave, user, request)'
      BY <3>1
    <3> QED
      BY <2>3, <3>2, <3>3
  <2> QED
    BY <1>6, <2>1, <2>2, <2>3
<1>14. ASSUME NEW id \in DOMAIN transactions'
       PROVE  \E other \in Slaves, otherUser \in Users : TransactionOf(other, otherUser)' = id
  <2>1. CASE id \in DOMAIN kept
    <3>1. id \in DOMAIN transactions /\ id \notin erased /\ id # 0 /\ id # next
      BY <1>1, <1>10, <2>1
    <3>2. PICK other \in Slaves, otherUser \in Users : TransactionOf(other, otherUser) = id
      BY <1>4, <3>1 DEF OwnedTransactions
    <3>3. CASE other # slave \/ otherUser # user
      BY <1>7, <3>2, <3>3
    <3>4. CASE other = slave /\ otherUser = user
      <4>1. mine = id /\ erased = {}
        BY <3>1, <3>2, <3>4 DEF erased
      <4>2. Finishes
        BY <1>6, <3>1, <4>1
      <4> QED
        BY <4>1, <4>2
    <3> QED
      BY <3>3, <3>4
  <2>2. CASE id \notin DOMAIN kept
    BY <1>12, <2>2
  <2> QED
    BY <2>1, <2>2
<1>15. OwnedTransactions'
  BY <1>13, <1>14 DEF OwnedTransactions
<1>16. ASSUME NEW id \in DOMAIN transactions' PROVE LiveOK(id)'
  <2>1. CASE id \in DOMAIN kept
    <3> DEFINE transaction == transactions[id]
    <3>1. id \in DOMAIN transactions /\ id \notin erased /\ id \in TransactionIds /\ id # next
          /\ transactions'[id] = transaction /\ transaction \in Transactions
      BY <1>1, <1>10, <1>11, <2>1 DEF TypeOK, BusTypeOK
    <3>2. GivenOutSince(id) \in Int /\ GivenOutSince(id)' \in Int
          /\ GivenOutSince(id)' <= GivenOutSince(id) + 1
      <4>1. GivenOutSince(id) \in Int
        BY <1>1, <3>1, TransactionIdAssumption DEF GivenOutSince, TransactionIds
      <4>2. CASE nextTransactionId' = next
        <5>1. GivenOutSince(id)' = GivenOutSince(id)
          BY <4>2 DEF GivenOutSince
        <5> QED
          BY <4>1, <5>1
      <4>3. CASE nextTransactionId' = NextTransactionId(next)
        <5>1. GivenOutSince(id)' = GivenOutSince(id) + 1
          BY <1>1, <3>1, <4>3, IdGivenOut
        <5> QED
          BY <4>1, <5>1
      <4> QED
        BY <1>6, <4>2, <4>3
    <3>3. CASE transaction.outcome = "Pending"
      <4>1. transaction.age < RESPONSE_TIMEOUT
            /\ GivenOutSince(id) <= CallsPerPass * transaction.age + CallsDone
        BY <1>4, <3>1, <3>3 DEF LiveOK, PendingOK
      <4>2. CallsPerPass * transaction.age \in Int
        BY <3>1, SlaveCountAssumption DEF CallsPerPass, Transactions
      <4>3. GivenOutSince(id)' <= CallsPerPass * transaction.age + CallsDone'
        BY <1>2, <3>2, <4>1, <4>2
      <4> HIDE DEF transaction
      <4> QED
        BY <3>1, <3>3, <4>1, <4>3 DEF LiveOK, PendingOK, CallsPerPass
    <3>4. CASE transaction.outcome # "Pending"
      <4>1. /\ CallsDone <= CallsBefore(transaction.unit, transaction.table)
            /\ GivenOutSince(id) <= CallsPerPass * RESPONSE_TIMEOUT + CallsDone
            /\ (transaction.outcome = "Done") = connected[transaction.unit]
        BY <1>4, <3>1, <3>4 DEF LiveOK, FinishedOK
      <4>2. transaction.unit \in Slaves /\ transaction.table \in Tables
        BY <3>1 DEF Transactions
      <4>3. CallsDone # CallsBefore(transaction.unit, transaction.table)
        <5> SUFFICES ASSUME CallsDone = CallsBefore(transaction.unit, transaction.table)
                     PROVE  FALSE
          OBVIOUS
        <5>1. transaction.unit = slave /\ transaction.table = TableFor(user)
          <6>1. CallsBefore(transaction.unit, transaction.table)
                  = CallsBefore(slave, TableFor(user)) /\ TableFor(user) \in Tables
            BY UserTables
          <6>2. \A other \in Slaves, table \in Tables :
                  CallsBefore(other, table) = CallsBefore(slave, TableFor(user))
                    => other = slave /\ table = TableFor(user)
            BY <6>1, CallsNumbered
          <6> HIDE DEF transaction
          <6> QED
            BY <4>2, <6>1, <6>2
        <5>2. PICK other \in Slaves, otherUser \in Users : TransactionOf(other, otherUser) = id
          BY <1>4, <3>1 DEF OwnedTransactions
        <5>3. id # 0
          BY <1>1, <3>1
        <5>4. RequestedBy(other, otherUser, transaction)
          BY <1>4, <5>2, <5>3 DEF OwnedTransactions
        <5> HIDE DEF transaction
        <5>5. transaction.unit = other /\ transaction.table = TableFor(otherUser)
          BY <5>4, RequestTells
        <5>6. other = slave /\ otherUser = user
          BY <5>1, <5>5, UserTables
        <5>7. mine = id
          BY <5>2, <5>6
        <5> QED
          BY <3>1, <3>4, <5>3, <5>7 DEF erased, CheckedOutcome, transaction
      <4>4. CallsBefore(transaction.unit, transaction.table) \in Int
        BY <4>2, CallsNumbered
      <4>5. CallsDone' <= CallsBefore(transaction.unit, transaction.table)
        BY <1>2, <4>1, <4>3, <4>4
      <4>6. CallsPerPass * RESPONSE_TIMEOUT \in Int
        BY SlaveCountAssumption, TimeoutAssumption DEF CallsPerPass
      <4>7. GivenOutSince(id)' <= CallsPerPass * RESPONSE_TIMEOUT + CallsDone'
        BY <1>2, <3>2, <4>1, <4>6
      <4> HIDE DEF transaction
      <4> QED
        BY <1>8, <3>1, <3>4, <4>1, <4>5, <4>7
        DEF LiveOK, FinishedOK, CallsPerPass, CallsBefore
    <3> QED
      BY <3>3, <3>4
  <2>2. CASE id \notin DOMAIN kept
    <3>1. /\ id = next /\ nextTransactionId' = NextTransactionId(next)
          /\ transactions'[id].outcome = "Pending" /\ transactions'[id].age = 0
      BY <1>12, <2>2
    <3>2. GivenOutSince(id)' = 1
      BY <1>1, <3>1, IdGivenOut
    <3>3. CallsPerPass * 0 = 0 /\ 0 < RESPONSE_TIMEOUT
      BY SlaveCountAssumption, TimeoutAssumption DEF CallsPerPass
    <3>4. 1 <= CallsPerPass * 0 + CallsDone'
      BY <1>2, <3>3
    <3> QED
      BY <3>1, <3>2, <3>3, <3>4 DEF LiveOK, PendingOK, CallsPerPass
  <2> QED
    BY <2>1, <2>2
<1> QED
  BY <1>15, <1>16 DEF LiveInv

----------------------------------------------------------------------------
(* The other calls of the loop. *)

\* Outside ServiceForeignBus nothing finished is left to check.
LEMMA AllPending ==
  ASSUME TypeOK, LiveInv, ~InPass, NEW id \in DOMAIN transactions
  PROVE  transactions[id].outcome = "Pending" /\ PendingOK(id) /\ CallsDone = CallsPerPass
<1> DEFINE transaction == transactions[id]
<1>1. CallsDone = CallsPerPass /\ CallsPerPass \in Nat
  BY SlaveCountAssumption DEF CallsDone, CallsPerPass
<1>2. transaction \in Transactions
  BY DEF TypeOK, BusTypeOK
<1>3. CallsBefore(transaction.unit, transaction.table) \in 0 .. CallsPerPass - 1
  BY <1>2, CallsNumbered DEF Transactions
<1>4. transaction.outcome = "Pending"
  BY <1>1, <1>3 DEF LiveInv, LiveOK, FinishedOK
<1> QED
  BY <1>1, <1>4 DEF LiveInv, LiveOK

\* A transaction after Service is still the one its user started.
LEMMA ServicedTells ==
  ASSUME NEW transaction \in Transactions, NEW elapsed, NEW answers
  PROVE  LET after == Serviced(transaction, elapsed, answers)
         IN /\ after.unit = transaction.unit
            /\ after.table = transaction.table
            /\ after.isWrite = transaction.isWrite
            /\ transaction.isWrite => after.value = transaction.value
<1>1. CASE transaction.outcome # "Pending"
  BY <1>1 DEF Serviced
<1>2. CASE transaction.outcome = "Pending" /\ Answered(transaction, elapsed)
  BY <1>2 DEF Serviced, Transactions
<1>3. CASE transaction.outcome = "Pending" /\ ~Answered(transaction, elapsed)
  BY <1>3 DEF Serviced, Transactions
<1> QED
  BY <1>1, <1>2, <1>3

\* Service finishes transactions on the evidence of the wire, and makes the
\* others older by as much as the pass took (SimulatedForeignBus.cpp:150).
LEMMA ServicedOutcome ==
  ASSUME AnswersInTime, BusTypeOK, NEW transaction \in Transactions,
         transaction.outcome = "Pending", NEW elapsed \in 1 .. MAX_STEP, NEW answers
  PROVE  LET after == Serviced(transaction, elapsed, answers)
         IN \/ after.outcome = "Done" /\ connected[transaction.unit]
            \/ after.outcome = "Timeout" /\ ~connected[transaction.unit]
            \/ /\ after.outcome = "Pending"
               /\ after.age = transaction.age + elapsed
               /\ after.age < RESPONSE_TIMEOUT
<1>1. /\ transaction.unit \in Slaves /\ transaction.age \in Nat /\ elapsed \in Nat
      /\ RESPONSE_TIMEOUT \in Nat /\ LATENCY[transaction.unit] \in Nat
      /\ LATENCY[transaction.unit] <= RESPONSE_TIMEOUT
  BY LatencyAssumption, TimeoutAssumption, StepAssumption DEF Transactions, AnswersInTime
<1>2. CASE Answered(transaction, elapsed)
  BY <1>2 DEF Serviced, Answered, Transactions
<1>3. CASE ~Answered(transaction, elapsed) /\ GivenUp(transaction, elapsed)
  <2>1. ~connected[transaction.unit]
    BY <1>1, <1>3 DEF Answered, GivenUp
  <2> QED
    BY <1>3, <2>1 DEF Serviced, Transactions
<1>4. CASE ~Answered(transaction, elapsed) /\ ~GivenUp(transaction, elapsed)
  <2>1. transaction.age + elapsed < RESPONSE_TIMEOUT
    BY <1>1, <1>4 DEF GivenUp
  <2> QED
    BY <1>4, <2>1 DEF Serviced, Transactions
<1> QED
  BY <1>2, <1>3, <1>4

\* A Service starts a pass with every transaction owned and accounted for.
LEMMA BusKeeps ==
  ASSUME AnswersInTime, TypeOK, LiveInv, NEW elapsed \in 1 .. MAX_STEP, ServiceBus(elapsed)
  PROVE  LiveInv'
<1>1. /\ ~InPass /\ InPass' /\ unit' = unit /\ unit = 1
      /\ nextTransactionId' = nextTransactionId
      /\ pollTransactionId' = pollTransactionId
      /\ connected' = connected
  BY DEF ServiceBus, BusService, GatewayTimePasses, LiveInv, InPass
<1>2. CallsDone' = 0 /\ CallsPerPass \in Nat
  BY <1>1, SlaveCountAssumption DEF CallsDone, InPass, CallsPerPass, ServiceBus
<1>3. PICK answers : /\ DOMAIN transactions' = DOMAIN transactions
                     /\ \A id \in DOMAIN transactions :
                          transactions'[id] = Serviced(transactions[id], elapsed, answers)
  BY DEF ServiceBus, BusService
<1>4. \A id \in DOMAIN transactions : transactions[id] \in Transactions /\ id \in TransactionIds
  BY DEF TypeOK, BusTypeOK
<1>5. ASSUME NEW slave \in Slaves, NEW user \in Users
      PROVE  /\ TransactionOf(slave, user)' = TransactionOf(slave, user)
             /\ InFlight(slave, user)' = InFlight(slave, user)
  <2>1. CASE user = "poll"
    BY <1>1, <2>1 DEF TransactionOf, InFlight
  <2>2. CASE user \in Outputs
    <3>1. link[slave][user] \in Links(TransactionIds)
      BY <2>2 DEF TypeOK, GatewayTypeOK
    <3>2. link'[slave][user] =
            [link[slave][user] EXCEPT !.retryIn = TimeLeft(link[slave][user].retryIn, elapsed)]
      BY <2>2 DEF ServiceBus, GatewayTimePasses
    <3>3. link'[slave][user].transactionId = link[slave][user].transactionId
          /\ link'[slave][user].inFlightValue = link[slave][user].inFlightValue
      BY <3>1, <3>2 DEF Links
    <3> QED
      BY <2>2, <3>3 DEF TransactionOf, InFlight, Outputs
  <2> QED
    BY <2>1, <2>2 DEF Users
<1>6. OwnedTransactions'
  <2>1. ASSUME NEW slave \in Slaves, NEW user \in Users, TransactionOf(slave, user)' # 0
        PROVE  /\ TransactionOf(slave, user)' \in DOMAIN transactions'
               /\ RequestedBy(slave, user, transactions[TransactionOf(slave, user)])'
    <3> DEFINE id == TransactionOf(slave, user)
    <3>1. TransactionOf(slave, user)' = id /\ id \in DOMAIN transactions
          /\ RequestedBy(slave, user, transactions[id])
      BY <1>5, <2>1 DEF LiveInv, OwnedTransactions
    <3>2. LET before == transactions[id]
              after == transactions'[id]
          IN /\ after.unit = before.unit /\ after.table = before.table
             /\ after.isWrite = before.isWrite
             /\ before.isWrite => after.value = before.value
      BY <1>3, <1>4, <3>1, ServicedTells
    <3>3. user # "poll" => link'[slave][user].inFlightValue = link[slave][user].inFlightValue
      BY <1>5 DEF InFlight
    <3> HIDE DEF id
    <3>4. RequestedBy(slave, user, transactions[TransactionOf(slave, user)])'
      BY <3>1, <3>2, <3>3 DEF RequestedBy
    <3> QED
      BY <1>3, <3>1, <3>4
  <2>2. ASSUME NEW id \in DOMAIN transactions'
        PROVE  \E slave \in Slaves, user \in Users : TransactionOf(slave, user)' = id
    BY <1>3, <1>5 DEF LiveInv, OwnedTransactions
  <2> QED
    BY <2>1, <2>2 DEF OwnedTransactions
<1>7. ASSUME NEW id \in DOMAIN transactions' PROVE LiveOK(id)'
  <2> DEFINE before == transactions[id]
             after == transactions'[id]
  <2>1. before \in Transactions /\ after = Serviced(before, elapsed, answers)
        /\ id \in TransactionIds /\ id \in DOMAIN transactions
    BY <1>3, <1>4
  <2>2. before.outcome = "Pending" /\ before.age < RESPONSE_TIMEOUT
        /\ GivenOutSince(id) <= CallsPerPass * before.age + CallsPerPass
    BY <1>1, <2>1, AllPending DEF PendingOK
  <2>3. after.unit = before.unit /\ after.table = before.table
    BY <2>1, ServicedTells
  <2>4. \/ after.outcome = "Done" /\ connected[before.unit]
        \/ after.outcome = "Timeout" /\ ~connected[before.unit]
        \/ /\ after.outcome = "Pending"
           /\ after.age = before.age + elapsed
           /\ after.age < RESPONSE_TIMEOUT
    BY <2>1, <2>2, ServicedOutcome DEF TypeOK
  <2>5. GivenOutSince(id)' = GivenOutSince(id) /\ GivenOutSince(id) \in Int
    BY <1>1, <2>1, TransactionIdAssumption
    DEF GivenOutSince, TransactionIds, TypeOK, BusTypeOK
  <2>6. before.age \in Nat /\ before.unit \in Slaves /\ before.table \in Tables
        /\ elapsed \in Nat /\ 1 <= elapsed /\ RESPONSE_TIMEOUT \in Nat
    BY <2>1, StepAssumption, TimeoutAssumption DEF Transactions
  <2>7. CallsBefore(before.unit, before.table) \in Nat
    BY <2>6, CallsNumbered
  <2>8. connected[before.unit] \in BOOLEAN
    BY <2>6 DEF TypeOK, BusTypeOK
  <2> HIDE DEF before
  <2>9. \A passes \in Nat : before.age + 1 <= passes =>
          GivenOutSince(id) <= CallsPerPass * passes
    <3> SUFFICES ASSUME NEW passes \in Nat, before.age + 1 <= passes
                 PROVE  GivenOutSince(id) <= CallsPerPass * passes
      OBVIOUS
    <3>1. CallsPerPass * (before.age + 1) <= CallsPerPass * passes
      BY <1>2, <2>6
    <3>2. CallsPerPass * (before.age + 1) = CallsPerPass * before.age + CallsPerPass
      BY <1>2, <2>6
    <3> QED
      BY <1>2, <2>2, <2>5, <2>6, <3>1, <3>2
  <2>10. CASE after.outcome = "Pending"
    <3>1. before.age + 1 <= after.age /\ after.age \in Nat
      BY <2>4, <2>6, <2>10
    <3>2. GivenOutSince(id)' <= CallsPerPass * after.age
      BY <2>5, <2>9, <3>1
    <3>3. GivenOutSince(id)' <= CallsPerPass * after.age + CallsDone'
      BY <1>2, <2>5, <3>1, <3>2
    <3> QED
      BY <2>4, <2>10, <3>3 DEF LiveOK, PendingOK, CallsPerPass
  <2>11. CASE after.outcome # "Pending"
    <3>1. GivenOutSince(id)' <= CallsPerPass * RESPONSE_TIMEOUT + CallsDone'
      <4>1. GivenOutSince(id) <= CallsPerPass * RESPONSE_TIMEOUT
        BY <2>2, <2>6, <2>9
      <4>2. CallsPerPass * RESPONSE_TIMEOUT \in Int
        BY <1>2, <2>6
      <4> QED
        BY <1>2, <2>5, <4>1, <4>2
    <3>2. (after.outcome = "Done") = connected'[after.unit]
      BY <1>1, <2>3, <2>4, <2>8, <2>11
    <3>3. CallsDone' <= CallsBefore(after.unit, after.table)
      BY <1>2, <2>3, <2>7
    <3> QED
      BY <2>11, <3>1, <3>2, <3>3 DEF LiveOK, FinishedOK, CallsPerPass, CallsBefore
  <2> QED
    BY <2>10, <2>11
<1> QED
  BY <1>1, <1>6, <1>7 DEF LiveInv

----------------------------------------------------------------------------
(* What the live transactions of a point can be. *)

\* A user of the bus has at most one live transaction (main.cpp:400, 431).
LEMMA OneLivePerUser ==
  ASSUME TypeOK, OwnedTransactions, NEW slave \in Slaves, NEW user \in Users,
         NEW id \in DOMAIN transactions,
         transactions[id].unit = slave, transactions[id].table = TableFor(user)
  PROVE  id = TransactionOf(slave, user)
<1> DEFINE transaction == transactions[id]
<1>1. id # 0
  BY DEF TypeOK, BusTypeOK, TransactionIds
<1>2. PICK owner \in Slaves, owned \in Users : TransactionOf(owner, owned) = id
  BY DEF OwnedTransactions
<1>3. RequestedBy(owner, owned, transaction)
  BY <1>1, <1>2 DEF OwnedTransactions
<1>4. transaction.unit = slave /\ transaction.table = TableFor(user)
  OBVIOUS
<1> HIDE DEF transaction
<1>5. transaction.unit = owner /\ transaction.table = TableFor(owned)
  BY <1>3, RequestTells
<1>6. owner = slave /\ owned = user
  BY <1>4, <1>5, UserTables
<1> QED
  BY <1>2, <1>6

\* Every table has a user of its own at each slave (main.cpp:466).
LEMMA TableUsers ==
  \A table \in Tables : \E user \in Users : TableFor(user) = table
<1>1. TableFor("poll") = "input" /\ TableFor("setpoint") = "holding" /\ TableFor("enable") = "coil"
  BY DEF TableFor, TableOf
<1> QED
  BY <1>1 DEF Tables, Users, Outputs

\* A Service answers at most one write of a point, and none of a sensor
\* (main.cpp:431; SimulatedForeignBus.cpp:139).
LEMMA OneWriteAnswered ==
  ASSUME TypeOK, LiveInv, NEW slave \in Slaves, NEW elapsed
  PROVE  /\ WritesAnswered(slave, "input", elapsed) = {}
         /\ \A table \in Tables : \A id, other \in WritesAnswered(slave, table, elapsed) :
              id = other
<1>1. ASSUME NEW user \in Users, NEW id \in WritesAnswered(slave, TableFor(user), elapsed)
      PROVE  id = TransactionOf(slave, user) /\ id # 0 /\ id \in DOMAIN transactions
             /\ transactions[id].isWrite
  <2>1. /\ id \in DOMAIN transactions /\ transactions[id].isWrite
        /\ transactions[id].unit = slave /\ transactions[id].table = TableFor(user)
    BY DEF WritesAnswered
  <2>2. id # 0
    BY <2>1 DEF TypeOK, BusTypeOK, TransactionIds
  <2> QED
    BY <2>1, <2>2, OneLivePerUser DEF LiveInv
<1>2. WritesAnswered(slave, "input", elapsed) = {}
  <2> SUFFICES ASSUME NEW id \in WritesAnswered(slave, "input", elapsed) PROVE FALSE
    OBVIOUS
  <2>1. "poll" \in Users /\ TableFor("poll") = "input"
    BY DEF Users, TableFor
  <2>2. id = TransactionOf(slave, "poll") /\ id # 0 /\ transactions[id].isWrite
    BY <1>1, <2>1
  <2>3. RequestedBy(slave, "poll", transactions[id])
    BY <2>1, <2>2 DEF LiveInv, OwnedTransactions
  <2> QED
    BY <2>2, <2>3 DEF RequestedBy
<1> QED
  BY <1>1, <1>2, TableUsers

\* A read is of a sensor (main.cpp:406).
LEMMA ReadsAreOfSensors ==
  ASSUME TypeOK, LiveInv, NEW id \in DOMAIN transactions, ~transactions[id].isWrite
  PROVE  transactions[id].table = "input"
<1>1. id # 0
  BY DEF TypeOK, BusTypeOK, TransactionIds
<1>2. PICK slave \in Slaves, user \in Users : TransactionOf(slave, user) = id
  BY DEF LiveInv, OwnedTransactions
<1>3. RequestedBy(slave, user, transactions[id])
  BY <1>1, <1>2 DEF LiveInv, OwnedTransactions
<1> QED
  BY <1>3 DEF RequestedBy

----------------------------------------------------------------------------
(* The calls for the three users of a slave are such calls. *)

\* ServicePoll is the call for the poll (main.cpp:400).
LEMMA PollIsUserCall ==
  ASSUME TypeOK, ServicePoll, NEW slave \in Slaves, slave = unit
  PROVE  UserCall(slave, "poll")
<1> DEFINE id == pollTransactionId[slave]
           erased == IF id # 0 /\ CheckedOutcome(id) # "Pending" THEN {id} ELSE {}
           kept == [other \in DOMAIN transactions \ erased |-> transactions[other]]
<1>1. GatewayTypeOK(TransactionIds) /\ BusTypeOK /\ nextTransactionId \in TransactionIds
      /\ pollTransactionId \in [Slaves -> TransactionIds \cup {0}]
  BY DEF TypeOK, GatewayTypeOK, BusTypeOK
<1>2. connected' = connected /\ TransactionOf(slave, "poll") = id
      /\ TransactionOf(slave, "poll")' = pollTransactionId'[slave]
      /\ InFlight(slave, "poll")' = InFlight(slave, "poll")
  BY DEF ServicePoll, StartPoll, WaitForPoll, FinishPoll, deviceVars, busVars, TransactionOf,
         InFlight
<1>3. \A other \in Slaves, output \in Outputs :
        /\ link'[other][output].transactionId = link[other][output].transactionId
        /\ link'[other][output].inFlightValue = link[other][output].inFlightValue
  <2>1. SlaveWentOffline(slave) \/ SlaveCameBack(slave) \/ UNCHANGED link
    BY DEF ServicePoll, StartPoll, WaitForPoll, FinishPoll, PollStarts, PollWaits, PollFinishes,
           PollAnswered, PollFailed, gatewayVars
  <2> QED
    BY <1>1, <2>1, BeliefKeepsLinks
<1>4. \A other \in Slaves : other # slave => pollTransactionId'[other] = pollTransactionId[other]
  BY <1>1 DEF ServicePoll, StartPoll, WaitForPoll, FinishPoll, PollStarts, PollWaits,
              PollFinishes, PollAnswered, PollFailed, gatewayVars
<1>5. ASSUME NEW other \in Slaves, NEW user \in Users, other # slave \/ user # "poll"
      PROVE  /\ TransactionOf(other, user)' = TransactionOf(other, user)
             /\ InFlight(other, user)' = InFlight(other, user)
  BY <1>3, <1>4, <1>5 DEF TransactionOf, InFlight, Users
<1>6. CASE StartPoll(slave)
  <2> DEFINE request == Request(slave, "input", FALSE, 0)
  <2>1. id = 0 /\ erased = {}
    BY <1>6 DEF StartPoll, PollStarts, PollDue
  <2>2. transactions' = Started(kept, nextTransactionId, request)
    BY <1>6, <2>1 DEF StartPoll, Started
  <2>3. nextTransactionId' = NextTransactionId(nextTransactionId)
        /\ pollTransactionId'[slave] = nextTransactionId
    BY <1>1, <1>6 DEF StartPoll, PollStarts
  <2>4. request \in Transactions /\ request.outcome = "Pending" /\ request.age = 0
    <3>1. 0 \in RegisterValues /\ "input" \in Tables
      BY SMT DEF RegisterValues, REGISTER_VALUES, Tables
    <3>2. request \in Transactions
      BY <3>1, RequestType
    <3> QED
      BY <3>2 DEF Request
  <2>5. RequestedBy(slave, "poll", request)'
    BY DEF RequestedBy, Request
  <2> QED
    BY <1>2, <1>5, <2>1, <2>2, <2>3, <2>4, <2>5 DEF UserCall
<1>7. CASE WaitForPoll(slave)
  <2>1. erased = {}
    BY <1>7 DEF WaitForPoll, PollWaits
  <2>2. transactions' = transactions /\ nextTransactionId' = nextTransactionId
        /\ pollTransactionId' = pollTransactionId
    BY <1>7 DEF WaitForPoll, PollWaits, busVars, gatewayVars
  <2> QED
    BY <1>2, <1>5, <2>1, <2>2 DEF UserCall
<1>8. CASE FinishPoll(slave)
  <2>1. id # 0 /\ CheckedOutcome(id) # "Pending" /\ erased = {id}
        /\ transactions' = Checked(id) /\ nextTransactionId' = nextTransactionId
        /\ pollTransactionId'[slave] = 0
    BY <1>1, <1>8 DEF FinishPoll, PollFinishes, PollAnswered, PollFailed
  <2>2. transactions' = kept
    BY <2>1 DEF Checked
  <2> QED
    BY <1>2, <1>5, <2>1, <2>2 DEF UserCall
<1> QED
  BY <1>6, <1>7, <1>8 DEF ServicePoll

\* ServiceWriteThrough is the call for its output (main.cpp:430).
LEMMA WriteIsUserCall ==
  ASSUME TypeOK, NEW slave \in Slaves, NEW output \in Outputs, WriteOut(slave, output)
  PROVE  UserCall(slave, output)
<1> DEFINE before == link[slave][output]
           id == before.transactionId
           outcome == CheckedOutcome(id)
           live == IF id = 0 THEN transactions ELSE Checked(id)
           checked == Rechecked(slave, output, outcome)
           waits == WriteWaits(slave, output, outcome)
           starts == ~waits /\ MustWrite(slave, output, checked)
           winning == Winning(slave, output)
           request == Request(slave, TableOf(output), TRUE, ToRegister(output, winning))
           erased == IF id # 0 /\ outcome # "Pending" THEN {id} ELSE {}
           kept == [other \in DOMAIN transactions \ erased |-> transactions[other]]
           after == IF waits THEN before
                    ELSE IF MustWrite(slave, output, checked)
                      THEN [checked EXCEPT !.transactionId = nextTransactionId,
                                           !.inFlightValue = winning]
                    ELSE checked
<1>1. /\ link \in [Slaves -> [Outputs -> Links(TransactionIds)]]
      /\ before \in Links(TransactionIds)
      /\ winning \in Int
  BY WinningType DEF TypeOK, GatewayTypeOK
<1>2. /\ link' = [link EXCEPT ![slave][output] = after]
      /\ pollTransactionId' = pollTransactionId
      /\ transactions' = IF starts THEN Started(live, nextTransactionId, request) ELSE live
      /\ nextTransactionId' = IF starts THEN NextTransactionId(nextTransactionId)
                                        ELSE nextTransactionId
      /\ connected' = connected
  BY DEF WriteOut, WriteThrough, deviceVars
<1>3. link'[slave][output] = after
  BY <1>1, <1>2
<1>4. ASSUME NEW other \in Slaves, NEW user \in Users, other # slave \/ user # output
      PROVE  /\ TransactionOf(other, user)' = TransactionOf(other, user)
             /\ InFlight(other, user)' = InFlight(other, user)
  <2>1. CASE user = "poll"
    BY <1>2, <2>1 DEF TransactionOf, InFlight
  <2>2. CASE user \in Outputs
    <3>1. link'[other][user] = link[other][user]
      BY <1>1, <1>2, <1>4, <2>2
    <3> QED
      BY <2>2, <3>1 DEF TransactionOf, InFlight, Outputs
  <2> QED
    BY <2>1, <2>2 DEF Users
<1>5. waits = (id # 0 /\ outcome = "Pending")
  BY DEF WriteWaits
<1>6. /\ checked.transactionId = 0
      /\ checked.inFlightValue = before.inFlightValue
      /\ checked \in Links(TransactionIds)
  <2>1. CASE id = 0
    BY <1>1, <2>1 DEF Rechecked
  <2>2. CASE id # 0
    <3>1. checked = Finished(slave, before, outcome)
      BY <2>2 DEF Rechecked
    <3>2. /\ Finished(slave, before, outcome).transactionId = 0
          /\ Finished(slave, before, outcome).inFlightValue = before.inFlightValue
      BY <1>1 DEF Finished, Links
    <3>3. Finished(slave, before, outcome) \in Links(TransactionIds)
      <4>1. POLL_PERIOD[slave] \in Nat
        BY PeriodAssumption
      <4>2. CASE outcome = "Done"
        BY <1>1, <4>2 DEF Finished, Links
      <4>3. CASE outcome # "Done"
        BY <1>1, <4>1, <4>3 DEF Finished, Links
      <4> QED
        BY <4>2, <4>3
    <3> QED
      BY <2>2, <3>1, <3>2, <3>3
  <2> QED
    BY <2>1, <2>2
<1>7. DOMAIN live = DOMAIN kept /\ \A other \in DOMAIN kept : live[other] = kept[other]
  BY DEF Checked
<1>8. TransactionOf(slave, output) = id /\ TransactionOf(slave, output)' = after.transactionId
      /\ InFlight(slave, output) = before.inFlightValue
      /\ InFlight(slave, output)' = after.inFlightValue
  BY <1>3 DEF TransactionOf, InFlight, Outputs
<1>9. CASE starts
  <2>1. id = 0 \/ erased # {}
    BY <1>5, <1>9
  <2>2. transactions' = Started(kept, nextTransactionId, request)
    <3>1. Started(live, nextTransactionId, request) = Started(kept, nextTransactionId, request)
      <4> HIDE DEF live, kept, request
      <4> QED
        BY <1>7 DEF Started
    <3> QED
      BY <1>2, <1>9, <3>1
  <2>3. after.transactionId = nextTransactionId /\ after.inFlightValue = winning
    <3> HIDE DEF checked, winning, waits
    <3> QED
      BY <1>6, <1>9 DEF Links
  <2>4. request \in Transactions
    <3>1. TableOf(output) \in Tables
      BY DEF TableOf, Tables
    <3> QED
      BY <1>1, <3>1, ToRegisterType, RequestType
  <2>5. request.outcome = "Pending" /\ request.age = 0
        /\ request.unit = slave /\ request.table = TableOf(output) /\ request.isWrite
        /\ request.value = ToRegister(output, winning)
    BY DEF Request
  <2>6. link'[slave][output].inFlightValue = winning
    BY <1>3, <2>3
  <2>7. PICK made \in Transactions, value \in Int : made = request /\ value = winning
    BY <1>1, <2>4
  <2> HIDE DEF request, winning
  <2>8. link'[slave][output].inFlightValue = value
        /\ made.unit = slave /\ made.table = TableOf(output) /\ made.isWrite
        /\ made.value = ToRegister(output, value)
    BY <2>5, <2>6, <2>7
  <2>9. RequestedBy(slave, output, made)'
    BY <2>8 DEF RequestedBy, Outputs
  <2>10. transactions' = Started(kept, nextTransactionId, made)
         /\ made.outcome = "Pending" /\ made.age = 0
    BY <2>2, <2>5, <2>7
  <2> HIDE DEF after
  <2> QED
    BY <1>2, <1>4, <1>8, <1>9, <2>1, <2>3, <2>9, <2>10 DEF UserCall
<1>10. CASE ~starts
  <2>1. after.transactionId = (IF erased = {} THEN id ELSE 0)
        /\ after.inFlightValue = before.inFlightValue
    <3> HIDE DEF checked
    <3> QED
      BY <1>5, <1>6, <1>10
  <2>2. DOMAIN transactions' = DOMAIN kept
        /\ \A other \in DOMAIN kept : transactions'[other] = kept[other]
    BY <1>2, <1>7, <1>10
  <2> HIDE DEF after, checked
  <2> QED
    BY <1>2, <1>4, <1>8, <1>10, <2>1, <2>2 DEF UserCall
<1> QED
  BY <1>9, <1>10

----------------------------------------------------------------------------
(* The invariant. *)

\* The program starts with no transaction.
LEMMA InitLive == Init => LiveInv
<1> SUFFICES ASSUME Init PROVE LiveInv
  OBVIOUS
<1>1. DOMAIN transactions = {} /\ unit = 1
  BY DEF Init, BusInit
<1>2. \A slave \in Slaves, user \in Users : TransactionOf(slave, user) = 0
  BY DEF Init, GatewayInit, UnwrittenLink, TransactionOf, Users
<1> QED
  BY <1>1, <1>2 DEF LiveInv, OwnedTransactions

\* The calls outside ServiceForeignBus leave the transactions alone.
LEMMA OutsideKeeps ==
  ASSUME TypeOK, LiveInv, ~InPass, ~InPass', unit' = unit,
         UNCHANGED <<link, pollTransactionId, transactions, nextTransactionId>>
  PROVE  LiveInv'
<1>1. OwnedTransactions'
  BY DEF LiveInv, OwnedTransactions, TransactionOf, RequestedBy
<1>2. CallsDone' = CallsDone
  BY DEF CallsDone, CallsPerPass
<1>3. ASSUME NEW id \in DOMAIN transactions' PROVE LiveOK(id)'
  <2>1. transactions[id].outcome = "Pending" /\ PendingOK(id) /\ CallsDone = CallsPerPass
    BY <1>3, AllPending
  <2>2. GivenOutSince(id)' = GivenOutSince(id)
    BY DEF GivenOutSince
  <2>3. PendingOK(id)'
    BY <1>2, <2>1, <2>2 DEF PendingOK, CallsPerPass
  <2> QED
    BY <2>1, <2>3 DEF LiveOK
<1> QED
  BY <1>1, <1>3 DEF LiveInv

\* The call for the poll of a slave is the first of its three, the ones for its
\* outputs the second and the third (main.cpp:466).
LEMMA CallsInOrder ==
  ASSUME TypeOK, ServicePoll \/ ServiceSetpoint \/ ServiceEnable,
         NEW slave \in Slaves, slave = unit
  PROVE  /\ InPass
         /\ CallsDone = CallsBefore(slave, IF pc = "Poll" THEN "input"
                                           ELSE IF pc = "setpoint" THEN "holding" ELSE "coil")
         /\ CallsDone' = CallsDone + 1
         /\ ~InPass' => unit' = 1
<1>1. SLAVE_COUNT \in Nat /\ slave \in Nat
  BY SlaveCountAssumption DEF Slaves
<1>2. CASE ServicePoll
  BY <1>1, <1>2 DEF ServicePoll, InPass, CallsDone, CallsBefore
<1>3. CASE ServiceSetpoint
  BY <1>1, <1>3 DEF ServiceSetpoint, InPass, CallsDone, CallsBefore
<1>4. CASE ServiceEnable
  BY <1>1, <1>4 DEF ServiceEnable, InPass, CallsDone, CallsBefore, CallsPerPass
<1> QED
  BY <1>2, <1>3, <1>4

\* Each step within ServiceForeignBus is the call for one user of the slave it is at
\* (main.cpp:466).
LEMMA LoopCall ==
  ASSUME TypeOK, ServicePoll \/ ServiceSetpoint \/ ServiceEnable,
         NEW slave \in Slaves, slave = unit
  PROVE  \E user \in Users :
           CallsDone = CallsBefore(slave, TableFor(user)) /\ UserCall(slave, user)
<1>1. CASE ServicePoll
  <2>1. "poll" \in Users /\ TableFor("poll") = "input"
    BY DEF Users, TableFor
  <2>2. UserCall(slave, "poll")
    BY <1>1, PollIsUserCall
  <2>3. CallsDone = CallsBefore(slave, "input")
    BY <1>1, CallsInOrder DEF ServicePoll
  <2> QED
    BY <2>1, <2>2, <2>3
<1>2. CASE ServiceSetpoint
  <2>1. "setpoint" \in Outputs /\ "setpoint" \in Users /\ TableFor("setpoint") = "holding"
    BY DEF Outputs, Users, TableFor, TableOf
  <2>2. UserCall(slave, "setpoint")
    BY <1>2, <2>1, WriteIsUserCall DEF ServiceSetpoint
  <2>3. CallsDone = CallsBefore(slave, "holding")
    BY <1>2, CallsInOrder DEF ServiceSetpoint
  <2> QED
    BY <2>1, <2>2, <2>3
<1>3. CASE ServiceEnable
  <2>1. "enable" \in Outputs /\ "enable" \in Users /\ TableFor("enable") = "coil"
    BY DEF Outputs, Users, TableFor, TableOf
  <2>2. UserCall(slave, "enable")
    BY <1>3, <2>1, WriteIsUserCall DEF ServiceEnable
  <2>3. CallsDone = CallsBefore(slave, "coil")
    BY <1>3, CallsInOrder DEF ServiceEnable
  <2> QED
    BY <2>1, <2>2, <2>3
<1> QED
  BY <1>1, <1>2, <1>3

\* Each step of the loop keeps every transaction owned and accounted for.
LEMMA LiveStep ==
  ASSUME IdsSuffice, AnswersInTime, TypeOK, LiveInv, [Next]_vars
  PROVE  LiveInv'
<1>1. CASE Pass
  BY <1>1, BusKeeps DEF Pass
<1>2. CASE ServicePoll \/ ServiceSetpoint \/ ServiceEnable
  <2>1. PICK slave \in Slaves : slave = unit
    BY DEF TypeOK
  <2>2. PICK user \in Users : CallsDone = CallsBefore(slave, TableFor(user)) /\ UserCall(slave, user)
    BY <1>2, <2>1, LoopCall
  <2>3. InPass /\ CallsDone' = CallsDone + 1 /\ (~InPass' => unit' = 1)
    BY <1>2, <2>1, CallsInOrder
  <2> QED
    BY <2>2, <2>3, UserCallKeeps
<1>3. CASE ClientWrites \/ ClientRelinquishes
  <2>1. /\ ~InPass /\ ~InPass' /\ unit' = unit
        /\ UNCHANGED <<link, pollTransactionId, transactions, nextTransactionId>>
    BY <1>3 DEF ClientWrites, ClientRelinquishes, WritePresentValue, RelinquishPresentValue,
                busVars, loopVars, InPass
  <2> QED
    BY <2>1, OutsideKeeps
<1>4. CASE ControlIdle \/ ControlConnection \/ ControlSet
             \/ KeyIdle \/ KeyNudge \/ KeyToggle \/ KeyQuit
  <2>1. /\ ~InPass /\ ~InPass' /\ unit' = unit
        /\ UNCHANGED <<link, pollTransactionId, transactions, nextTransactionId>>
    BY <1>4 DEF ControlIdle, ControlConnection, ControlSet, KeyIdle, KeyNudge, KeyToggle,
                KeyQuit, SetSlaveOnline, SetPoint, busVars, gatewayVars, InPass
  <2> QED
    BY <2>1, OutsideKeeps
<1>5. CASE UNCHANGED vars
  BY <1>5 DEF vars, LiveInv, OwnedTransactions, TransactionOf, RequestedBy, InPass, LiveOK,
              PendingOK, FinishedOK, GivenOutSince, CallsDone, CallsPerPass, CallsBefore
<1> QED
  BY <1>1, <1>2, <1>3, <1>4, <1>5 DEF Next, Loop, Environment

\* With ids enough for the passes a transaction lives through, every id the
\* gateway holds is the live transaction it started, and the driver holds no
\* other: none is lost, leaked, or mistaken for another when the counter wraps
\* (main.cpp:400, 431; SimulatedForeignBus.cpp:105).
THEOREM EveryTransactionOwned ==
  ASSUME IdsSuffice, AnswersInTime
  PROVE  Spec => []OwnedTransactions
<1>1. Init => LiveInv
  BY InitLive
<1>2. TypeOK /\ LiveInv /\ [Next]_vars => LiveInv'
  BY LiveStep
<1>3. LiveInv => OwnedTransactions
  BY DEF LiveInv
<1> QED
  BY <1>1, <1>2, <1>3, TypeCorrect, PTL DEF Spec

\* The gateway declares a slave offline only in a pass that finds it
\* disconnected, and back only in one that finds it connected, however long the
\* pass was stalled (main.cpp:415, 424; SimulatedForeignBus.cpp:155).
THEOREM BeliefOnEvidence ==
  ASSUME IdsSuffice, AnswersInTime
  PROVE  Spec => BeliefFollowsTheWire
<1> DEFINE Evidence == \A slave \in Slaves : online'[slave] # online[slave] =>
                         connected[slave] = online'[slave]
<1>1. Init => LiveInv
  BY InitLive
<1>2. TypeOK /\ LiveInv /\ [Next]_vars => LiveInv'
  BY LiveStep
<1>3. TypeOK /\ LiveInv /\ [Next]_vars => [Evidence]_vars
  <2> SUFFICES ASSUME TypeOK, LiveInv, Next, NEW slave \in Slaves,
                      online'[slave] # online[slave]
               PROVE  connected[slave] = online'[slave]
    OBVIOUS
  <2>1. CASE FinishPoll(unit) /\ ServicePoll
    <3> DEFINE id == pollTransactionId[unit]
               outcome == CheckedOutcome(id)
    <3>1. unit \in Slaves /\ online \in [Slaves -> BOOLEAN] /\ connected \in [Slaves -> BOOLEAN]
      BY DEF TypeOK, GatewayTypeOK, BusTypeOK
    <3>2. id # 0 /\ outcome # "Pending"
          /\ (outcome = "Done" => online' = online \/ online' = [online EXCEPT ![unit] = TRUE])
          /\ (outcome # "Done" => online' = online \/ online' = [online EXCEPT ![unit] = FALSE])
      BY <2>1 DEF FinishPoll, PollFinishes, PollAnswered, PollFailed, SlaveCameBack,
                  SlaveWentOffline
    <3>3. slave = unit /\ online'[slave] = (outcome = "Done")
      BY <3>1, <3>2
    <3>4. id \in DOMAIN transactions /\ transactions[id].unit = unit
      BY <3>1, <3>2 DEF LiveInv, OwnedTransactions, TransactionOf, Users, RequestedBy
    <3>5. outcome = transactions[id].outcome
      BY <3>4 DEF CheckedOutcome
    <3>6. (transactions[id].outcome = "Done") = connected[unit]
      BY <3>2, <3>4, <3>5 DEF LiveInv, LiveOK, FinishedOK
    <3> QED
      BY <3>3, <3>5, <3>6
  <2>2. CASE ~(FinishPoll(unit) /\ ServicePoll)
    <3>1. online' = online
      BY <2>2 DEF Next, Loop, Environment, Pass, ServiceBus, GatewayTimePasses, ServicePoll,
                  StartPoll, PollStarts, WaitForPoll, PollWaits, ServiceSetpoint,
                  ServiceEnable, WriteOut, WriteThrough, ClientWrites, WritePresentValue,
                  ClientRelinquishes, RelinquishPresentValue, ControlIdle, ControlConnection,
                  ControlSet, KeyIdle, KeyNudge, KeyToggle, KeyQuit, gatewayVars
    <3> QED
      BY <3>1
  <2> QED
    BY <2>1, <2>2
<1> QED
  BY <1>1, <1>2, <1>3, TypeCorrect, PTL DEF Spec, BeliefFollowsTheWire

----------------------------------------------------------------------------
(* Silence.  With f failed polls behind it a slave's next poll starts by     *)
(* DuePoll(f), f being below OFFLINE_AFTER_FAILED_POLLS; a poll in flight is   *)
(* no older than the answer timeout; and one that failed leaves enough of    *)
(* the period for the next to start by DuePoll(f + 1).                       *)

AtLeastOne(n) == IF n >= 1 THEN n ELSE 1

\* The latest a slave's next poll can start: a pass stalls past the moment.
LatestStart(slave) == AtLeastOne(nextPollIn[slave]) + MAX_STEP - 1

\* How silent a slave can be when the poll after `failed` failed ones starts.
DuePoll(slave, failed) == ToFirstPoll(slave) + failed * ToNextPoll(slave)

\* This pass's call for the slave's poll has been made.
Polled(slave) == ~InPass \/ unit > slave \/ (unit = slave /\ pc # "Poll")

NoPollInFlightOK(slave) ==
  online[slave] =>
    IF Polled(slave) \/ nextPollIn[slave] > 0
      THEN silence[slave] + LatestStart(slave) <= DuePoll(slave, consecutiveFailedPolls[slave])
      ELSE silence[slave] <= DuePoll(slave, consecutiveFailedPolls[slave])

PollInFlightOK(slave, transaction) ==
  /\ transaction.outcome = "Pending" =>
       /\ nextPollIn[slave] = TimeLeft(POLL_PERIOD[slave], transaction.age)
       /\ online[slave] => silence[slave] <=
            DuePoll(slave, consecutiveFailedPolls[slave]) + transaction.age
  /\ transaction.outcome = "Done" => LatestStart(slave) <= ToFirstPoll(slave)
  /\ transaction.outcome = "Timeout" /\ online[slave] =>
       silence[slave] + LatestStart(slave) <=
         DuePoll(slave, consecutiveFailedPolls[slave]) + ToNextPoll(slave)

SilenceOK(slave) ==
  /\ online[slave] => consecutiveFailedPolls[slave] < OFFLINE_AFTER_FAILED_POLLS
  /\ IF pollTransactionId[slave] = 0
       THEN NoPollInFlightOK(slave)
       ELSE PollInFlightOK(slave, transactions[pollTransactionId[slave]])

SilenceInv == \A slave \in Slaves : SilenceOK(slave)

----------------------------------------------------------------------------
(* Arithmetic of the bound. *)

\* What the bounds are made of.
LEMMA BoundTypes ==
  ASSUME NEW slave \in Slaves
  PROVE  /\ POLL_PERIOD[slave] \in Nat /\ RESPONSE_TIMEOUT \in Nat /\ RESPONSE_TIMEOUT >= 1
         /\ MAX_STEP \in Nat /\ MAX_STEP >= 1 /\ SLAVE_COUNT \in Nat /\ slave \in 1 .. SLAVE_COUNT
         /\ ToFirstPoll(slave) \in Nat /\ MAX_STEP <= ToFirstPoll(slave)
         /\ ToNextPoll(slave) \in Nat
<1>1. /\ POLL_PERIOD[slave] \in Nat /\ RESPONSE_TIMEOUT \in Nat /\ RESPONSE_TIMEOUT >= 1
      /\ MAX_STEP \in Nat /\ MAX_STEP >= 1 /\ SLAVE_COUNT \in Nat /\ slave \in 1 .. SLAVE_COUNT
  BY PeriodAssumption, TimeoutAssumption, StepAssumption, SlaveCountAssumption DEF Slaves
<1> QED
  BY <1>1 DEF ToFirstPoll, ToNextPoll

\* One more failed poll is worth one more ToNextPoll, and the bound grows with them.
LEMMA DuePollGrows ==
  ASSUME NEW slave \in Slaves, NEW failed \in Nat
  PROVE  /\ DuePoll(slave, failed) \in Nat
         /\ DuePoll(slave, failed + 1) = DuePoll(slave, failed) + ToNextPoll(slave)
         /\ DuePoll(slave, 0) = ToFirstPoll(slave)
         /\ \A more \in Nat : failed <= more => DuePoll(slave, failed) <= DuePoll(slave, more)
<1> DEFINE first == ToFirstPoll(slave)
           step == ToNextPoll(slave)
<1>1. first \in Nat /\ step \in Nat
  BY BoundTypes
<1>2. \A count : DuePoll(slave, count) = first + count * step
  BY DEF DuePoll
<1> HIDE DEF first, step
<1>3. failed * step \in Nat /\ (failed + 1) * step = failed * step + step /\ 0 * step = 0
  BY <1>1
<1>4. ASSUME NEW more \in Nat, failed <= more
      PROVE  DuePoll(slave, failed) <= DuePoll(slave, more)
  <2>1. failed * step <= more * step /\ more * step \in Nat
    BY <1>1, <1>4
  <2> QED
    BY <1>1, <1>2, <1>3, <2>1
<1>5. DuePoll(slave, failed) \in Nat
  BY <1>1, <1>2, <1>3
<1>6. DuePoll(slave, failed + 1) = DuePoll(slave, failed) + step
  BY <1>1, <1>2, <1>3
<1>7. DuePoll(slave, 0) = first
  BY <1>1, <1>2, <1>3
<1> QED
  BY <1>4, <1>5, <1>6, <1>7 DEF first, step

\* Polls finish a period before the next is due, or leave it overdue: a poll that timed
\* out at the age `age` starts again in time (main.cpp:400, 424).
LEMMA AgeLeavesTime ==
  ASSUME NEW slave \in Slaves, NEW age \in Nat, 1 <= age, age < RESPONSE_TIMEOUT + MAX_STEP
  PROVE  LET start == AtLeastOne(TimeLeft(POLL_PERIOD[slave], age)) + MAX_STEP - 1
         IN age + start <= ToNextPoll(slave) /\ start <= ToFirstPoll(slave)
  BY BoundTypes DEF AtLeastOne, TimeLeft, ToNextPoll, ToFirstPoll

----------------------------------------------------------------------------
(* The steps. *)

\* The types a slave's part of the invariant speaks of.
LEMMA SilenceTypes ==
  ASSUME TypeOK, NEW slave \in Slaves
  PROVE  /\ online \in [Slaves -> BOOLEAN] /\ online[slave] \in BOOLEAN
         /\ consecutiveFailedPolls \in [Slaves -> Nat] /\ consecutiveFailedPolls[slave] \in Nat
         /\ nextPollIn \in [Slaves -> Nat] /\ nextPollIn[slave] \in Nat
         /\ silence \in [Slaves -> Nat] /\ silence[slave] \in Nat
         /\ LatestStart(slave) \in Nat
<1>1. /\ online \in [Slaves -> BOOLEAN]
      /\ consecutiveFailedPolls \in [Slaves -> Nat]
      /\ nextPollIn \in [Slaves -> Nat]
      /\ silence \in [Slaves -> Nat]
  BY FailedPollsAssumption, InputsAssumption DEF TypeOK, GatewayTypeOK
<1> QED
  BY <1>1, BoundTypes DEF LatestStart, AtLeastOne

\* A poll in flight is a live transaction of its slave (main.cpp:400).
LEMMA PollIsLive ==
  ASSUME TypeOK, LiveInv, NEW slave \in Slaves, pollTransactionId[slave] # 0
  PROVE  /\ pollTransactionId[slave] \in DOMAIN transactions
         /\ transactions[pollTransactionId[slave]] \in Transactions
         /\ transactions[pollTransactionId[slave]].unit = slave
         /\ CheckedOutcome(pollTransactionId[slave])
              = transactions[pollTransactionId[slave]].outcome
<1>1. "poll" \in Users /\ TransactionOf(slave, "poll") = pollTransactionId[slave]
  BY DEF Users, TransactionOf
<1>2. /\ pollTransactionId[slave] \in DOMAIN transactions
      /\ transactions[pollTransactionId[slave]].unit = slave
  BY <1>1 DEF LiveInv, OwnedTransactions, RequestedBy
<1> QED
  BY <1>2 DEF TypeOK, BusTypeOK, CheckedOutcome

\* A call for somebody else leaves a transaction as it is (main.cpp:466).
LEMMA CallLeavesOthers ==
  ASSUME IdsSuffice, TypeOK, LiveInv, InPass, CallsDone < CallsPerPass,
         NEW slave \in Slaves, NEW user \in Users, UserCall(slave, user),
         NEW other \in Slaves, NEW otherUser \in Users, other # slave \/ otherUser # user,
         NEW id, id = TransactionOf(other, otherUser), id # 0
  PROVE  id \in DOMAIN transactions /\ transactions'[id] = transactions[id]
<1> DEFINE mine == TransactionOf(slave, user)
           erased == IF mine # 0 /\ CheckedOutcome(mine) # "Pending" THEN {mine} ELSE {}
           kept == [live \in DOMAIN transactions \ erased |-> transactions[live]]
<1>1. nextTransactionId \notin DOMAIN transactions
  BY NextIdIsFree
<1>2. id \in DOMAIN transactions /\ id # nextTransactionId
  BY <1>1 DEF LiveInv, OwnedTransactions
<1>3. id # mine
  BY OneOwner DEF LiveInv
<1>4. id \in DOMAIN kept /\ kept[id] = transactions[id]
  BY <1>2, <1>3
<1>5. \/ DOMAIN transactions' = DOMAIN kept /\ transactions'[id] = kept[id]
      \/ \E request \in Transactions : transactions' = Started(kept, nextTransactionId, request)
  BY <1>4 DEF UserCall
<1> HIDE DEF kept
<1> QED
  BY <1>2, <1>4, <1>5 DEF Started

\* The slaves whose poll a step does not touch keep their part of the invariant.
LEMMA SilenceAlone ==
  ASSUME NEW slave, SilenceOK(slave),
         online'[slave] = online[slave],
         consecutiveFailedPolls'[slave] = consecutiveFailedPolls[slave],
         nextPollIn'[slave] = nextPollIn[slave],
         silence'[slave] = silence[slave],
         Polled(slave)' = Polled(slave),
         pollTransactionId'[slave] = pollTransactionId[slave],
         pollTransactionId[slave] # 0 =>
           transactions'[pollTransactionId[slave]] = transactions[pollTransactionId[slave]]
  PROVE  SilenceOK(slave)'
<1>1. LatestStart(slave)' = LatestStart(slave)
  BY DEF LatestStart
<1>2. CASE pollTransactionId[slave] = 0
  BY <1>1, <1>2 DEF SilenceOK, NoPollInFlightOK, DuePoll, ToFirstPoll, ToNextPoll
<1>3. CASE pollTransactionId[slave] # 0
  BY <1>1, <1>3 DEF SilenceOK, PollInFlightOK, DuePoll, ToFirstPoll, ToNextPoll
<1> QED
  BY <1>2, <1>3

\* A Service ages the poll in flight, or answers it or gives it up, and lets the time to
\* the next poll run by as much (SimulatedForeignBus.cpp:150; main.cpp:466).
LEMMA ServiceKeepsSilence ==
  ASSUME AnswersInTime, TypeOK, LiveInv, SilenceInv,
         NEW elapsed \in 1 .. MAX_STEP, ServiceBus(elapsed)
  PROVE  SilenceInv'
<1> SUFFICES ASSUME NEW slave \in Slaves PROVE SilenceOK(slave)'
  BY DEF SilenceInv
<1> DEFINE period == POLL_PERIOD[slave]
           failed == consecutiveFailedPolls[slave]
           due == DuePoll(slave, failed)
           left == nextPollIn[slave]
           quiet == silence[slave]
           id == pollTransactionId[slave]
<1>1. /\ ~InPass /\ InPass' /\ unit' = unit /\ unit = 1 /\ pc' = "Poll"
      /\ online' = online /\ consecutiveFailedPolls' = consecutiveFailedPolls
      /\ pollTransactionId' = pollTransactionId
  BY DEF ServiceBus, BusService, GatewayTimePasses, LiveInv, InPass
<1>2. Polled(slave) /\ ~Polled(slave)'
  BY <1>1, BoundTypes DEF Polled
<1>3. /\ elapsed \in Nat /\ 1 <= elapsed /\ elapsed <= MAX_STEP /\ MAX_STEP \in Nat
      /\ RESPONSE_TIMEOUT \in Nat /\ period \in Nat
      /\ ToFirstPoll(slave) \in Nat /\ ToNextPoll(slave) \in Nat
  BY BoundTypes
<1>4. failed \in Nat /\ left \in Nat /\ quiet \in Nat
  BY SilenceTypes
<1>5. due \in Nat
  BY <1>4, DuePollGrows
<1>6. /\ DuePoll(slave, consecutiveFailedPolls[slave])' = due
      /\ ToFirstPoll(slave)' = ToFirstPoll(slave) /\ ToNextPoll(slave)' = ToNextPoll(slave)
  BY <1>1 DEF DuePoll, ToFirstPoll, ToNextPoll
<1>7. nextPollIn'[slave] = TimeLeft(left, elapsed)
  BY DEF ServiceBus, GatewayTimePasses
<1>8. silence'[slave] \in Nat /\ silence'[slave] <= quiet + elapsed
  <2>1. silence'[slave] = IF quiet + elapsed > SILENCE_CAP THEN SILENCE_CAP ELSE quiet + elapsed
    BY DEF ServiceBus
  <2> QED
    BY <1>3, <1>4, <2>1, InputsAssumption
<1>9. LatestStart(slave)' = AtLeastOne(TimeLeft(left, elapsed)) + MAX_STEP - 1
  BY <1>7 DEF LatestStart
<1>10. SilenceOK(slave)
  BY DEF SilenceInv
<1>11. online'[slave] => consecutiveFailedPolls'[slave] < OFFLINE_AFTER_FAILED_POLLS
  BY <1>1, <1>10 DEF SilenceOK
<1>12. CASE id = 0
  <2> SUFFICES ASSUME online[slave] PROVE NoPollInFlightOK(slave)'
    BY <1>1, <1>11, <1>12 DEF SilenceOK, NoPollInFlightOK
  <2>1. quiet + AtLeastOne(left) + MAX_STEP - 1 <= due
    <3>1. quiet + LatestStart(slave) <= due
      BY <1>2, <1>10, <1>12 DEF SilenceOK, NoPollInFlightOK
    <3> QED
      BY <1>3, <1>4, <1>5, <3>1 DEF LatestStart, AtLeastOne
  <2> HIDE DEF due, left, quiet
  <2>2. CASE left > elapsed
    <3>1. silence'[slave] + LatestStart(slave)' <= due /\ nextPollIn'[slave] > 0
      BY <1>3, <1>4, <1>5, <1>7, <1>8, <1>9, <2>1, <2>2 DEF TimeLeft, AtLeastOne
    <3> QED
      BY <1>6, <3>1 DEF NoPollInFlightOK
  <2>3. CASE left <= elapsed
    <3>1. silence'[slave] <= due /\ nextPollIn'[slave] = 0
      BY <1>3, <1>4, <1>5, <1>7, <1>8, <2>1, <2>3 DEF TimeLeft, AtLeastOne
    <3> QED
      BY <1>2, <1>6, <3>1 DEF NoPollInFlightOK
  <2> QED
    BY <1>3, <1>4, <2>2, <2>3
<1>13. CASE id # 0
  <2> DEFINE before == transactions[id]
             after == transactions'[id]
             age == before.age
  <2>1. id \in DOMAIN transactions /\ before \in Transactions
    BY <1>13, PollIsLive
  <2>2. before.outcome = "Pending" /\ age \in Nat /\ age < RESPONSE_TIMEOUT
    BY <1>1, <2>1, AllPending DEF PendingOK, Transactions
  <2>3. PICK answers : after = Serviced(before, elapsed, answers)
    BY <2>1 DEF ServiceBus, BusService
  <2>4. left = TimeLeft(period, age) /\ (online[slave] => quiet <= due + age)
    BY <1>10, <1>13, <2>2 DEF SilenceOK, PollInFlightOK
  <2> HIDE DEF before, after
  <2>5. after.outcome \in {"Done", "Timeout"} \/ (after.outcome = "Pending" /\ after.age = age + elapsed)
    BY <2>1, <2>2, <2>3, ServicedOutcome DEF TypeOK
  <2> HIDE DEF age, left, due, quiet, period
  <2>6. TimeLeft(left, elapsed) = TimeLeft(period, age + elapsed)
    BY <1>3, <2>2, <2>4 DEF TimeLeft
  <2>7. online[slave] => silence'[slave] <= due + (age + elapsed)
    BY <1>3, <1>4, <1>5, <1>8, <2>2, <2>4
  <2>8. /\ age + elapsed + LatestStart(slave)' <= ToNextPoll(slave)
        /\ LatestStart(slave)' <= ToFirstPoll(slave)
        /\ LatestStart(slave)' \in Nat
    <3>1. /\ age + elapsed \in Nat /\ 1 <= age + elapsed
          /\ age + elapsed < RESPONSE_TIMEOUT + MAX_STEP
      BY <1>3, <2>2
    <3>2. LatestStart(slave)' = AtLeastOne(TimeLeft(period, age + elapsed)) + MAX_STEP - 1
      BY <1>9, <2>6
    <3>3. LatestStart(slave)' \in Nat
      BY <1>3, <3>1, <3>2 DEF TimeLeft, AtLeastOne
    <3> DEFINE total == age + elapsed
    <3> HIDE DEF total
    <3>4. LET start == AtLeastOne(TimeLeft(POLL_PERIOD[slave], total)) + MAX_STEP - 1
          IN total + start <= ToNextPoll(slave) /\ start <= ToFirstPoll(slave)
      BY <3>1, AgeLeavesTime DEF total
    <3> QED
      BY <3>2, <3>3, <3>4 DEF total, period
  <2>9. online[slave] => silence'[slave] + LatestStart(slave)' <= due + ToNextPoll(slave)
    BY <1>3, <1>5, <1>8, <2>2, <2>7, <2>8
  <2>10. PollInFlightOK(slave, transactions[pollTransactionId[slave]])'
    <3>1. transactions'[pollTransactionId'[slave]] = after
      BY <1>1 DEF after
    <3> QED
      BY <1>1, <1>6, <1>7, <2>5, <2>6, <2>7, <2>8, <2>9, <3>1 DEF PollInFlightOK, period
  <2> QED
    BY <1>1, <1>11, <1>13, <2>10 DEF SilenceOK
<1> QED
  BY <1>12, <1>13

\* Writes have nothing to do with polls: a call for an output leaves the silence of every
\* slave where it was (main.cpp:430).
LEMMA WriteKeepsSilence ==
  ASSUME IdsSuffice, TypeOK, LiveInv, SilenceInv, ServiceSetpoint \/ ServiceEnable
  PROVE  SilenceInv'
<1> SUFFICES ASSUME NEW slave \in Slaves PROVE SilenceOK(slave)'
  BY DEF SilenceInv
<1>1. unit \in Slaves /\ CallsPerPass \in Nat /\ SLAVE_COUNT \in Nat /\ slave \in 1 .. SLAVE_COUNT
  BY SlaveCountAssumption, BoundTypes DEF TypeOK, CallsPerPass
<1>2. InPass /\ CallsDone < CallsPerPass
  BY <1>1, CallsInOrder, CallsNumbered DEF ServiceSetpoint, ServiceEnable, Tables
<1>3. PICK output \in Outputs : WriteOut(unit, output)
  BY DEF ServiceSetpoint, ServiceEnable, Outputs
<1>4. UserCall(unit, output)
  BY <1>1, <1>3, WriteIsUserCall
<1>5. "poll" \in Users /\ output \in Users /\ output # "poll"
      /\ TransactionOf(slave, "poll") = pollTransactionId[slave]
  BY DEF Users, Outputs, TransactionOf
<1>6. pollTransactionId[slave] # 0 =>
        transactions'[pollTransactionId[slave]] = transactions[pollTransactionId[slave]]
  BY <1>1, <1>2, <1>4, <1>5, CallLeavesOthers
<1>7. UNCHANGED <<online, consecutiveFailedPolls, nextPollIn, pollTransactionId, silence>>
  BY DEF ServiceSetpoint, ServiceEnable, WriteOut, WriteThrough, historyVars
<1>8. Polled(slave)' = Polled(slave)
  BY <1>1 DEF ServiceSetpoint, ServiceEnable, Polled, InPass, Slaves
<1> QED
  BY <1>6, <1>7, <1>8, SilenceAlone DEF SilenceInv

\* The poll of a slave starts in time, is waited for, resets its silence or counts as one
\* more failed (main.cpp:399).
LEMMA PollKeepsSilence ==
  ASSUME IdsSuffice, TypeOK, LiveInv, SilenceInv, ServicePoll
  PROVE  SilenceInv'
<1> SUFFICES ASSUME NEW slave \in Slaves PROVE SilenceOK(slave)'
  BY DEF SilenceInv
<1> DEFINE id == pollTransactionId[slave]
           failed == consecutiveFailedPolls[slave]
           due == DuePoll(slave, failed)
<1>1. /\ unit \in Slaves /\ CallsPerPass \in Nat /\ SLAVE_COUNT \in Nat
      /\ slave \in 1 .. SLAVE_COUNT /\ unit \in 1 .. SLAVE_COUNT
      /\ pc = "Poll" /\ pc' = "setpoint" /\ unit' = unit
  BY SlaveCountAssumption DEF TypeOK, CallsPerPass, Slaves, ServicePoll
<1>2. InPass /\ CallsDone < CallsPerPass
  BY <1>1, CallsInOrder, CallsNumbered DEF ServicePoll, Tables
<1>3. UserCall(unit, "poll")
  BY <1>1, PollIsUserCall
<1>4. SilenceOK(slave)
  BY DEF SilenceInv
<1>5. /\ online \in [Slaves -> BOOLEAN]
      /\ consecutiveFailedPolls \in [Slaves -> Nat] /\ failed \in Nat
      /\ nextPollIn \in [Slaves -> Nat] /\ nextPollIn[slave] \in Nat
      /\ silence \in [Slaves -> Nat] /\ silence[slave] \in Nat
      /\ LatestStart(slave) \in Nat
      /\ nextTransactionId # 0
      /\ pollTransactionId \in [Slaves -> TransactionIds \cup {0}]
  <2>1. /\ online \in [Slaves -> BOOLEAN]
        /\ pollTransactionId \in [Slaves -> TransactionIds \cup {0}]
    BY DEF TypeOK, GatewayTypeOK
  <2>2. nextTransactionId # 0
    BY DEF TypeOK, BusTypeOK, TransactionIds
  <2>3. /\ consecutiveFailedPolls \in [Slaves -> Nat] /\ failed \in Nat
        /\ nextPollIn \in [Slaves -> Nat] /\ nextPollIn[slave] \in Nat
        /\ silence \in [Slaves -> Nat] /\ silence[slave] \in Nat
        /\ LatestStart(slave) \in Nat
    BY SilenceTypes
  <2> QED
    BY <2>1, <2>2, <2>3, Zenon
<1>6. due \in Nat /\ DuePoll(slave, 0) = ToFirstPoll(slave)
      /\ DuePoll(slave, failed + 1) = due + ToNextPoll(slave)
      /\ ToFirstPoll(slave) \in Nat /\ ToNextPoll(slave) \in Nat
      /\ POLL_PERIOD[slave] \in Nat /\ MAX_STEP \in Nat
  BY <1>5, DuePollGrows, BoundTypes
<1>7. CASE slave # unit
  <2>1. "poll" \in Users /\ TransactionOf(slave, "poll") = id
    BY DEF Users, TransactionOf
  <2>2. id # 0 => transactions'[id] = transactions[id]
    BY <1>1, <1>2, <1>3, <1>7, <2>1, CallLeavesOthers
  <2>3. /\ online'[slave] = online[slave]
        /\ consecutiveFailedPolls'[slave] = consecutiveFailedPolls[slave]
        /\ nextPollIn'[slave] = nextPollIn[slave] /\ silence'[slave] = silence[slave]
        /\ pollTransactionId'[slave] = id
    BY <1>1, <1>5, <1>7 DEF ServicePoll, StartPoll, PollStarts, WaitForPoll, PollWaits, FinishPoll,
        PollFinishes, PollAnswered, PollFailed, SlaveCameBack, SlaveWentOffline, gatewayVars
  <2>4. Polled(slave)' = Polled(slave)
    BY <1>1, <1>7 DEF Polled, InPass
  <2> QED
    BY <1>4, <2>2, <2>3, <2>4, SilenceAlone
<1>8. CASE slave = unit /\ StartPoll(slave)
  <2>1. /\ id = 0 /\ nextPollIn[slave] = 0 /\ ~Polled(slave)
        /\ nextPollIn'[slave] = POLL_PERIOD[slave]
        /\ pollTransactionId'[slave] = nextTransactionId
        /\ UNCHANGED <<online, consecutiveFailedPolls, silence>>
    BY <1>1, <1>2, <1>5, <1>8 DEF StartPoll, PollStarts, PollDue, Polled
  <2>2. transactions'[nextTransactionId] = Request(slave, "input", FALSE, 0)
    BY <1>8 DEF StartPoll, Started
  <2>3. /\ transactions'[nextTransactionId].outcome = "Pending"
        /\ transactions'[nextTransactionId].age = 0
    BY <2>2 DEF Request
  <2>4. online[slave] => silence[slave] <= due
    BY <1>4, <2>1 DEF SilenceOK, NoPollInFlightOK
  <2>5. DuePoll(slave, consecutiveFailedPolls[slave])' = due
    BY <2>1 DEF DuePoll, ToFirstPoll, ToNextPoll
  <2>6. POLL_PERIOD[slave] = TimeLeft(POLL_PERIOD[slave], 0)
    BY <1>6 DEF TimeLeft
  <2> HIDE DEF due
  <2>7. PollInFlightOK(slave, transactions[pollTransactionId[slave]])'
    <3>1. /\ transactions'[pollTransactionId'[slave]].outcome = "Pending"
          /\ transactions'[pollTransactionId'[slave]].age = 0
      BY <2>1, <2>3
    <3> QED
      BY <1>5, <1>6, <2>1, <2>4, <2>5, <2>6, <3>1 DEF PollInFlightOK
  <2> QED
    BY <1>4, <1>5, <2>1, <2>7 DEF SilenceOK
<1>9. CASE slave = unit /\ WaitForPoll(slave)
  <2>1. /\ id = 0 => nextPollIn[slave] > 0
        /\ UNCHANGED <<online, consecutiveFailedPolls, nextPollIn, pollTransactionId, silence,
                       transactions>>
    BY <1>9 DEF WaitForPoll, PollWaits, gatewayVars, busVars
  <2>2. Polled(slave)' /\ LatestStart(slave)' = LatestStart(slave)
    BY <1>1, <1>9, <2>1 DEF Polled, LatestStart
  <2>3. CASE id = 0
    BY <1>4, <2>1, <2>2, <2>3
    DEF SilenceOK, NoPollInFlightOK, DuePoll, ToFirstPoll, ToNextPoll
  <2>4. CASE id # 0
    BY <1>4, <2>1, <2>2, <2>4
    DEF SilenceOK, PollInFlightOK, DuePoll, ToFirstPoll, ToNextPoll
  <2> QED
    BY <2>3, <2>4
<1>10. CASE slave = unit /\ FinishPoll(slave)
  <2> DEFINE outcome == CheckedOutcome(id)
  <2>1. /\ id # 0 /\ outcome # "Pending" /\ pollTransactionId'[slave] = 0
        /\ nextPollIn' = nextPollIn
    BY <1>5, <1>10 DEF FinishPoll, PollFinishes, PollAnswered, PollFailed
  <2>2. /\ outcome = transactions[id].outcome
        /\ PollInFlightOK(slave, transactions[id])
        /\ outcome \in {"Done", "Timeout"}
    <3>1. transactions[id] \in Transactions /\ outcome = transactions[id].outcome
      BY <2>1, PollIsLive
    <3> QED
      BY <1>4, <2>1, <3>1 DEF SilenceOK, Transactions, Outcomes
  <2>3. Polled(slave)' /\ LatestStart(slave)' = LatestStart(slave)
    BY <1>1, <1>10, <2>1 DEF Polled, LatestStart
  <2>4. CASE outcome = "Done"
    <3>1. silence'[slave] = 0 /\ consecutiveFailedPolls'[slave] = 0
      BY <1>5, <1>10, <2>4 DEF FinishPoll, PollFinishes, PollAnswered
    <3>2. LatestStart(slave) <= ToFirstPoll(slave)
      BY <2>2, <2>4 DEF PollInFlightOK
    <3>3. DuePoll(slave, consecutiveFailedPolls[slave])' = ToFirstPoll(slave)
      BY <1>6, <3>1 DEF DuePoll, ToFirstPoll, ToNextPoll
    <3>4. NoPollInFlightOK(slave)'
      BY <1>5, <1>6, <2>3, <3>1, <3>2, <3>3 DEF NoPollInFlightOK
    <3> QED
      BY <2>1, <3>1, <3>4, FailedPollsAssumption DEF SilenceOK
  <2>5. CASE outcome = "Timeout"
    <3>1. /\ silence' = silence
          /\ consecutiveFailedPolls'[slave] = OneMoreFailedPoll(slave)
          /\ online'[slave] => online[slave] /\ ~DeclareOffline(slave)
      BY <1>5, <1>10, <2>5 DEF FinishPoll, PollFinishes, PollFailed, SlaveWentOffline, DeclareOffline
    <3> SUFFICES ASSUME online'[slave]
                 PROVE  /\ consecutiveFailedPolls'[slave] < OFFLINE_AFTER_FAILED_POLLS
                        /\ NoPollInFlightOK(slave)'
      BY <2>1 DEF SilenceOK, NoPollInFlightOK
    <3>2. online[slave] /\ OneMoreFailedPoll(slave) < OFFLINE_AFTER_FAILED_POLLS
          /\ OneMoreFailedPoll(slave) = failed + 1
      BY <1>4, <1>5, <3>1, FailedPollsAssumption DEF SilenceOK, DeclareOffline, OneMoreFailedPoll
    <3>3. silence[slave] + LatestStart(slave) <= due + ToNextPoll(slave)
      BY <2>2, <2>5, <3>2 DEF PollInFlightOK
    <3>4. DuePoll(slave, consecutiveFailedPolls[slave])' = DuePoll(slave, failed + 1)
      BY <3>1, <3>2 DEF DuePoll, ToFirstPoll, ToNextPoll
    <3>5. NoPollInFlightOK(slave)'
      BY <1>6, <2>3, <3>1, <3>3, <3>4 DEF NoPollInFlightOK
    <3> QED
      BY <3>1, <3>2, <3>5
  <2> QED
    BY <2>2, <2>4, <2>5
<1> QED
  BY <1>7, <1>8, <1>9, <1>10 DEF ServicePoll

\* Each step of the program keeps every slave's silence within what its polls allow.
LEMMA SilenceStep ==
  ASSUME IdsSuffice, AnswersInTime, TypeOK, LiveInv, SilenceInv, [Next]_vars
  PROVE  SilenceInv'
<1>1. CASE Pass
  BY <1>1, ServiceKeepsSilence DEF Pass
<1>2. CASE ServicePoll
  BY <1>2, PollKeepsSilence
<1>3. CASE ServiceSetpoint \/ ServiceEnable
  BY <1>3, WriteKeepsSilence
<1>4. CASE ~(Pass \/ ServicePoll \/ ServiceSetpoint \/ ServiceEnable)
  <2>1. UNCHANGED <<online, consecutiveFailedPolls, nextPollIn, pollTransactionId, silence,
                    transactions>>
    BY <1>4 DEF Next, Loop, Environment, ClientWrites, WritePresentValue, ClientRelinquishes,
                RelinquishPresentValue, ControlIdle, ControlConnection, ControlSet, KeyIdle,
                KeyNudge, KeyToggle, KeyQuit, SetSlaveOnline, SetPoint, gatewayVars, busVars,
                historyVars, vars
  <2>2. (~InPass /\ ~InPass') \/ UNCHANGED <<pc, unit>>
    BY <1>4 DEF Next, Loop, Environment, ClientWrites, ClientRelinquishes, ControlIdle,
                ControlConnection, ControlSet, KeyIdle, KeyNudge, KeyToggle, KeyQuit, loopVars,
                vars, InPass
  <2>3. \A slave \in Slaves : Polled(slave)' = Polled(slave)
    BY <2>2 DEF Polled, InPass
  <2> QED
    BY <2>1, <2>3, SilenceAlone DEF SilenceInv
<1> QED
  BY <1>1, <1>2, <1>3, <1>4

\* Every poll is due at the start, and no time has passed.
LEMMA InitSilence == Init => SilenceInv
<1> SUFFICES ASSUME Init, NEW slave \in Slaves PROVE SilenceOK(slave)
  BY DEF SilenceInv
<1>1. /\ consecutiveFailedPolls[slave] = 0 /\ nextPollIn[slave] = 0
      /\ pollTransactionId[slave] = 0 /\ silence[slave] = 0
  BY DEF Init, GatewayInit
<1>2. DuePoll(slave, 0) = ToFirstPoll(slave)
  BY DuePollGrows
<1> QED
  BY <1>1, <1>2, BoundTypes, FailedPollsAssumption
  DEF SilenceOK, NoPollInFlightOK, LatestStart, AtLeastOne

\* A slave a client sees with no fault has answered a poll within SilenceBound, for any
\* periods, timeout, latencies, stalls and number of slaves (main.cpp:249, 400, 424).
THEOREM SilenceIsBounded ==
  ASSUME IdsSuffice, AnswersInTime
  PROVE  Spec => []BoundedSilence
<1>1. Init => LiveInv /\ SilenceInv
  BY InitLive, InitSilence
<1>2. TypeOK /\ LiveInv /\ SilenceInv /\ [Next]_vars => LiveInv' /\ SilenceInv'
  BY LiveStep, SilenceStep
<1>3. TypeOK /\ LiveInv /\ SilenceInv => BoundedSilence
  <2> SUFFICES ASSUME TypeOK, LiveInv, SilenceInv, pc = "Tick",
                      NEW slave \in Slaves, online[slave]
               PROVE  silence[slave] <= SilenceBound(slave)
    BY DEF BoundedSilence
  <2> DEFINE failed == consecutiveFailedPolls[slave]
             last == DuePoll(slave, OFFLINE_AFTER_FAILED_POLLS - 1)
             id == pollTransactionId[slave]
  <2>1. SilenceOK(slave) /\ ~InPass /\ Polled(slave)
    BY DEF SilenceInv, InPass, Polled
  <2>2. failed \in Nat /\ silence[slave] \in Nat /\ LatestStart(slave) \in Nat
    BY SilenceTypes
  <2>3. OFFLINE_AFTER_FAILED_POLLS - 1 \in Nat /\ failed <= OFFLINE_AFTER_FAILED_POLLS - 1
    BY <2>1, <2>2, FailedPollsAssumption DEF SilenceOK
  <2>4. DuePoll(slave, failed) \in Nat /\ last \in Nat /\ DuePoll(slave, failed) <= last
    BY <2>2, <2>3, DuePollGrows
  <2>5. SilenceBound(slave) = last + RESPONSE_TIMEOUT - 1 /\ RESPONSE_TIMEOUT \in Nat
        /\ RESPONSE_TIMEOUT >= 1
    <3>1. last \in Nat /\ RESPONSE_TIMEOUT \in Nat /\ RESPONSE_TIMEOUT >= 1
      BY <2>4, BoundTypes
    <3> QED
      BY <3>1 DEF SilenceBound, DuePoll
  <2>6. CASE id = 0
    <3>1. silence[slave] + LatestStart(slave) <= DuePoll(slave, failed)
      BY <2>1, <2>6 DEF SilenceOK, NoPollInFlightOK
    <3> HIDE DEF last, failed
    <3> QED
      BY <2>2, <2>4, <2>5, <3>1
  <2>7. CASE id # 0
    <3>1. id \in DOMAIN transactions /\ transactions[id] \in Transactions
      BY <2>7, PollIsLive
    <3>2. transactions[id].outcome = "Pending" /\ transactions[id].age < RESPONSE_TIMEOUT
          /\ transactions[id].age \in Nat
      BY <2>1, <3>1, AllPending DEF PendingOK, Transactions
    <3>3. silence[slave] <= DuePoll(slave, failed) + transactions[id].age
      BY <2>1, <2>7, <3>2 DEF SilenceOK, PollInFlightOK
    <3> HIDE DEF last, failed, id
    <3> QED
      BY <2>2, <2>4, <2>5, <3>2, <3>3
  <2> QED
    BY <2>6, <2>7
<1> QED
  BY <1>1, <1>2, <1>3, TypeCorrect, PTL DEF Spec
=============================================================================
