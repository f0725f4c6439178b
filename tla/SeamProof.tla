------------------------------ MODULE SeamProof ------------------------------
(***************************************************************************)
(* The program implements the seam: each call of the gateway and each        *)
(* Service of the simulated driver is a step of ForeignBus, for any number   *)
(* of slaves and any order of commands, faults and stalls.                  *)
(*                                                                         *)
(* A call of the gateway fetches what it holds and starts under an id that    *)
(* nobody holds (NextIdIsFree); since every live write is its output's own,   *)
(* no point is written twice at a time, and a Service answers at most one     *)
(* write of a point.                                                       *)
(***************************************************************************)
EXTENDS SeamRefinement, TransactionsProof

\* The seam's slaves, tables, registers and outcomes are the program's.
LEMMA SameData ==
  /\ Seam!Slaves = Slaves /\ Seam!Tables = Tables
  /\ Seam!RegisterValues = RegisterValues /\ Seam!Outcomes = Outcomes
  /\ \A table \in Tables, value \in RegisterValues :
       Seam!Stored(table, value) = Stored(table, value)
<1>1. Seam!REGISTER_VALUES = REGISTER_VALUES
  BY DEF Seam!REGISTER_VALUES, REGISTER_VALUES
<1> QED
  BY <1>1 DEF Seam!Slaves, Slaves, Seam!Tables, Tables, Seam!RegisterValues, RegisterValues,
         Seam!Outcomes, Outcomes, Seam!Stored, Stored

\* A live transaction keeps its fields when it is seen without its age.
LEMMA SeenWithoutAge ==
  ASSUME TypeOK
  PROVE  /\ Seam!PendingIds =
              {id \in DOMAIN transactions : transactions[id].outcome = "Pending"}
         /\ Seam!FinishedIds =
              {id \in DOMAIN transactions : transactions[id].outcome # "Pending"}
<1>1. Seam!PendingIds = {id \in DOMAIN transactions : transactions[id].outcome = "Pending"}
  BY DEF Seam!PendingIds, Shown
<1> QED
  BY <1>1 DEF Seam!FinishedIds

\* The program starts as the seam does.
LEMMA StartsOnSeam == Init => Seam!SeamInit
<1> SUFFICES ASSUME Init PROVE Seam!SeamInit
  OBVIOUS
<1>1. DOMAIN transactions = {}
  BY DEF Init, BusInit
<1>2. [id \in DOMAIN transactions |-> Shown(transactions[id])] = [id \in {} |-> {}]
  BY <1>1
<1>3. registers \in [Slaves -> [Tables -> RegisterValues]]
  BY RegistersAssumption DEF Init, BusInit
<1> QED
  BY <1>2, <1>3, SameData DEF Seam!SeamInit

----------------------------------------------------------------------------
(* One call of the gateway. *)

\* A call fetches nothing or the finished request of its user, and then starts nothing or
\* one request, under a free id (main.cpp:399, 430).
LEMMA CallOnSeam ==
  ASSUME IdsSuffice, TypeOK, LiveInv, InPass, CallsDone < CallsPerPass,
         NEW slave \in Slaves, NEW user \in Users, UserCall(slave, user),
         registers' = registers
  PROVE  Seam!SeamNext
<1> DEFINE next == nextTransactionId
           mine == TransactionOf(slave, user)
           erased == IF mine # 0 /\ CheckedOutcome(mine) # "Pending" THEN {mine} ELSE {}
           kept == [id \in DOMAIN transactions \ erased |-> transactions[id]]
           fetched == IF erased = {} THEN 0 ELSE mine
           shown == [id \in DOMAIN transactions |-> Shown(transactions[id])]
           left == [id \in DOMAIN kept |-> Shown(kept[id])]
<1>1. /\ next \in TransactionIds /\ next \notin DOMAIN transactions
      /\ 0 \notin DOMAIN transactions
  BY NextIdIsFree DEF TypeOK, BusTypeOK, TransactionIds
<1>2. mine # 0 => mine \in DOMAIN transactions /\ CheckedOutcome(mine) = transactions[mine].outcome
  BY DEF LiveInv, OwnedTransactions, CheckedOutcome
<1>3. fetched \in Seam!FinishedIds \cup {0}
  BY <1>2, SeenWithoutAge
<1>4. Seam!NoId = 0
  BY DEF Seam!NoId
<1>5. DOMAIN kept = DOMAIN transactions \ {fetched}
  BY <1>1, <1>2
<1>6. Seam!Fetched(fetched) = left
  BY <1>5 DEF Seam!Fetched
<1>7. \/ /\ DOMAIN transactions' = DOMAIN kept
         /\ \A id \in DOMAIN kept : transactions'[id] = kept[id]
      \/ \E request \in Transactions :
           /\ transactions' = Started(kept, next, request)
           /\ request.outcome = "Pending"
           /\ RequestedBy(slave, user, request)'
           /\ mine = 0 \/ erased # {}
  BY DEF UserCall
<1>8. CASE /\ DOMAIN transactions' = DOMAIN kept
           /\ \A id \in DOMAIN kept : transactions'[id] = kept[id]
  <2> HIDE DEF kept
  <2>1. shown' = left
    BY <1>8
  <2>2. CASE fetched = 0
    <3>1. left = shown
      BY <1>1, <1>5, <2>2 DEF kept
    <3> QED
      BY <2>1, <3>1 DEF Seam!SeamNext, Seam!DevicesChange
  <2>3. CASE fetched # 0
    <3>1. fetched \in Seam!FinishedIds
      BY <1>3, <2>3
    <3>2. Seam!Fetch(fetched)
      BY <1>6, <2>1, <3>1 DEF Seam!Fetch
    <3> QED
      BY <3>1, <3>2 DEF Seam!SeamNext
  <2> QED
    BY <2>2, <2>3
<1>9. ASSUME NEW request \in Transactions,
             transactions' = Started(kept, next, request),
             request.outcome = "Pending",
             RequestedBy(slave, user, request)',
             mine = 0 \/ erased # {}
      PROVE  Seam!SeamNext
  <2>1. DOMAIN left = DOMAIN kept /\ next \notin DOMAIN left
    BY <1>1
  <2>2. ~Seam!BeingWritten(left, request.unit, request.table)
    <3> SUFFICES ASSUME NEW id \in DOMAIN kept, left[id].unit = request.unit,
                        left[id].table = request.table
                 PROVE  FALSE
      BY <2>1 DEF Seam!BeingWritten
    <3>1. id \in DOMAIN transactions /\ id \notin erased /\ kept[id] = transactions[id]
      OBVIOUS
    <3>2. transactions[id].unit = request.unit /\ transactions[id].table = request.table
      BY <3>1 DEF Shown
    <3>3. request.unit = slave /\ request.table = TableFor(user)
      BY <1>9 DEF RequestedBy, TableFor
    <3>4. id = TransactionOf(slave, user)
      <4> HIDE DEF mine, erased
      <4> QED
        BY <3>1, <3>2, <3>3, OneLivePerUser DEF LiveInv
    <3>5. id = mine
      BY <3>4
    <3> QED
      BY <1>1, <1>9, <3>1, <3>5
  <2>3. Seam!MayStart(left, next, Shown(request))
    BY <1>1, <1>9, <2>1, <2>2 DEF Seam!MayStart, Shown
  <2> HIDE DEF kept
  <2>4. shown' = Seam!Asked(left, next, Shown(request))
    BY <1>9, <2>1 DEF Started, Seam!Asked
  <2>5. next \in DOMAIN shown' /\ shown'[next] = Shown(request)
    BY <1>9 DEF Started
  <2>6. Seam!FetchAndStart(fetched, next, shown'[next])
    BY <1>3, <1>4, <1>6, <2>3, <2>4, <2>5 DEF Seam!FetchAndStart
  <2> QED
    BY <1>3, <1>4, <2>5, <2>6 DEF Seam!SeamNext
<1> QED
  BY <1>7, <1>8, <1>9

----------------------------------------------------------------------------
(* Service. *)

\* One transaction of a Service, seen without its age (SimulatedForeignBus.cpp:150).
LEMMA ServicedOnSeam ==
  ASSUME NEW transaction \in Transactions, transaction.outcome = "Pending",
         NEW elapsed, NEW answers, NEW held,
         ~transaction.isWrite => held[transaction.unit][transaction.table]
                                   = answers[transaction.unit][transaction.table]
  PROVE  Shown(Serviced(transaction, elapsed, answers)) =
           Seam!Answered(Shown(transaction),
                         Serviced(transaction, elapsed, answers).outcome, held)
<1>1. CASE Answered(transaction, elapsed)
  <2>1. CASE transaction.isWrite
    BY <1>1, <2>1 DEF Serviced, Shown, Seam!Answered, Transactions
  <2>2. CASE ~transaction.isWrite
    BY <1>1, <2>2 DEF Serviced, Shown, Seam!Answered, Transactions
  <2> QED
    BY <2>1, <2>2
<1>2. CASE ~Answered(transaction, elapsed) /\ GivenUp(transaction, elapsed)
  BY <1>2 DEF Serviced, Shown, Seam!Answered, Transactions
<1>3. CASE ~Answered(transaction, elapsed) /\ ~GivenUp(transaction, elapsed)
  BY <1>3 DEF Serviced, Shown, Seam!Answered, Transactions
<1> QED
  BY <1>1, <1>2, <1>3

\* A Service finishes pending requests: a read with what its sensor measures by then, a
\* write in its device exactly if it is Done (SimulatedForeignBus.cpp:139).
LEMMA ServiceOnSeam ==
  ASSUME TypeOK, TypeOK', LiveInv, NEW elapsed \in 1 .. MAX_STEP, ServiceBus(elapsed)
  PROVE  Seam!SeamNext
<1> DEFINE driftElapsed == IF driftAge = Unset THEN 0 ELSE driftAge + elapsed
           drifts == driftElapsed >= DRIFT_STEP
           answers == DriftedRegisters(drifts)
           outcomes == [id \in DOMAIN transactions |-> transactions'[id].outcome]
           shown == [id \in DOMAIN transactions |-> Shown(transactions[id])]
           effective == Seam!Effective(outcomes, {})
<1>1. /\ registers' = WrittenRegisters(answers, elapsed)
      /\ transactions' = [id \in DOMAIN transactions |->
                            Serviced(transactions[id], elapsed, answers)]
  BY DEF ServiceBus, BusService
<1>2. \A slave \in Slaves, table \in Tables : table # "input" =>
        answers[slave][table] = registers[slave][table]
  BY DEF DriftedRegisters, TypeOK, BusTypeOK
<1> HIDE DEF answers
<1>3. \A id \in DOMAIN transactions :
        /\ transactions[id] \in Transactions /\ transactions[id].outcome = "Pending"
        /\ transactions'[id] = Serviced(transactions[id], elapsed, answers)
        /\ transactions'[id].outcome \in Outcomes
  <2> SUFFICES ASSUME NEW id \in DOMAIN transactions
               PROVE  /\ transactions[id] \in Transactions
                      /\ transactions[id].outcome = "Pending"
                      /\ transactions'[id] = Serviced(transactions[id], elapsed, answers)
                      /\ transactions'[id].outcome \in Outcomes
    OBVIOUS
  <2>1. ~InPass
    BY DEF ServiceBus, InPass
  <2>2. transactions[id].outcome = "Pending"
    BY <2>1, AllPending
  <2>3. transactions[id] \in Transactions /\ transactions'[id] \in Transactions
    BY <1>1 DEF TypeOK, BusTypeOK
  <2> QED
    BY <1>1, <2>2, <2>3 DEF Transactions
<1>4. Seam!PendingIds = DOMAIN transactions
  BY <1>3, SeenWithoutAge
<1>5. outcomes \in Seam!Answers /\ {} \in SUBSET Seam!MayBeLost(outcomes)
  <2>1. outcomes \in [DOMAIN transactions -> Outcomes]
    BY <1>3
  <2> QED
    BY <1>4, <2>1, SameData DEF Seam!Answers
<1>6. \A slave \in Slaves, table \in Tables :
        {id \in effective : shown[id].unit = slave /\ shown[id].table = table}
          = WritesAnswered(slave, table, elapsed)
  <2>1. \A id \in DOMAIN transactions :
          transactions'[id].outcome = "Done" <=> Answered(transactions[id], elapsed)
    <3> SUFFICES ASSUME NEW id \in DOMAIN transactions
                 PROVE  transactions'[id].outcome = "Done" <=> Answered(transactions[id], elapsed)
      OBVIOUS
    <3> DEFINE transaction == transactions[id]
    <3>1. transaction \in Transactions /\ transaction.outcome = "Pending"
          /\ transactions'[id] = Serviced(transaction, elapsed, answers)
      BY <1>3
    <3> HIDE DEF transaction
    <3>2. Answered(transaction, elapsed) =>
            Serviced(transaction, elapsed, answers).outcome = "Done"
      BY <3>1 DEF Serviced, Transactions
    <3>3. ~Answered(transaction, elapsed) =>
            Serviced(transaction, elapsed, answers).outcome # "Done"
      BY <3>1 DEF Serviced, Transactions
    <3> QED
      BY <3>1, <3>2, <3>3 DEF transaction, Answered
  <2>2. effective = {id \in DOMAIN transactions :
                       transactions[id].isWrite /\ Answered(transactions[id], elapsed)}
    BY <1>4, <2>1 DEF Seam!Effective, Shown
  <2> HIDE DEF effective
  <2>3. \A id \in DOMAIN transactions : shown[id].unit = transactions[id].unit
                                         /\ shown[id].table = transactions[id].table
    BY DEF Shown
  <2> QED
    BY <1>3, <2>2, <2>3 DEF WritesAnswered
<1>7. ASSUME NEW slave \in Slaves, NEW table \in Tables
      PROVE  registers'[slave][table] = Seam!Held(slave, table, effective, Seam!Readings)
  <2> DEFINE writes == WritesAnswered(slave, table, elapsed)
             seamWrites == {id \in effective : shown[id].unit = slave /\ shown[id].table = table}
             last == CHOOSE latest \in writes : \A id \in writes : id <= latest
             written == CHOOSE id \in seamWrites : TRUE
  <2>1. seamWrites = writes
    BY <1>6
  <2>2. registers'[slave][table] =
          IF writes = {} THEN answers[slave][table]
          ELSE Stored(table, transactions[last].value)
    BY <1>1 DEF WrittenRegisters
  <2> HIDE DEF effective
  <2>3. Seam!Held(slave, table, effective, Seam!Readings) =
          IF table = "input" THEN registers'[slave]["input"]
          ELSE IF seamWrites = {} THEN registers[slave][table]
          ELSE Seam!Stored(table, shown[written].value)
    BY SameData DEF Seam!Held, Seam!Readings
  <2> HIDE DEF seamWrites, writes, shown, last, written
  <2>4. CASE table = "input"
    BY <2>3, <2>4
  <2>5. CASE table # "input" /\ writes = {}
    BY <1>2, <2>1, <2>2, <2>3, <2>5
  <2>6. CASE table # "input" /\ writes # {}
    <3>1. PICK id \in writes : TRUE
      BY <2>6
    <3>2. id \in DOMAIN transactions /\ id <= id
      BY <3>1 DEF writes, WritesAnswered, TypeOK, BusTypeOK, TransactionIds
    <3>3. \A other \in writes : other = id
      BY <3>1, OneWriteAnswered DEF writes
    <3>4. last = id
      BY <3>1, <3>2, <3>3 DEF last
    <3>5. written = id
      BY <2>1, <3>1, <3>3 DEF written
    <3>6. shown[id].value = transactions[id].value /\ transactions[id].value \in RegisterValues
      BY <1>3, <3>2 DEF shown, Shown, Transactions
    <3>7. Seam!Stored(table, transactions[id].value) = Stored(table, transactions[id].value)
      BY <3>6, SameData
    <3>8. registers'[slave][table] = Stored(table, transactions[id].value)
      BY <2>2, <2>6, <3>4
    <3>9. Seam!Held(slave, table, effective, Seam!Readings)
            = Seam!Stored(table, transactions[id].value)
      BY <2>1, <2>3, <2>6, <3>5, <3>6
    <3> QED
      BY <3>7, <3>8, <3>9
  <2> QED
    BY <2>4, <2>5, <2>6
<1>8. registers' = [slave \in Seam!Slaves |-> [table \in Seam!Tables |->
                      Seam!Held(slave, table, effective, Seam!Readings)]]
  <2>1. registers' \in [Slaves -> [Tables -> RegisterValues]]
    BY DEF TypeOK, BusTypeOK
  <2> HIDE DEF effective
  <2> QED
    BY <1>7, <2>1, SameData
<1>9. shown' = [id \in DOMAIN shown |->
                  IF id \in Seam!PendingIds
                    THEN Seam!Answered(shown[id], outcomes[id], registers')
                    ELSE shown[id]]
  <2>1. ASSUME NEW id \in DOMAIN transactions
        PROVE  Shown(transactions'[id])
                 = Seam!Answered(Shown(transactions[id]), outcomes[id], registers')
    <3>1. ~transactions[id].isWrite =>
            registers'[transactions[id].unit][transactions[id].table]
              = answers[transactions[id].unit][transactions[id].table]
      BY <1>1, <1>3, OneWriteAnswered, ReadsAreOfSensors
      DEF WrittenRegisters, Tables, Transactions
    <3>2. outcomes[id] = Serviced(transactions[id], elapsed, answers).outcome
      BY <1>3
    <3>3. Shown(Serviced(transactions[id], elapsed, answers))
            = Seam!Answered(Shown(transactions[id]),
                            Serviced(transactions[id], elapsed, answers).outcome, registers')
      <4> DEFINE transaction == transactions[id]
                 held == registers'
      <4>1. transaction \in Transactions /\ transaction.outcome = "Pending"
            /\ (~transaction.isWrite => held[transaction.unit][transaction.table]
                                        = answers[transaction.unit][transaction.table])
        BY <1>3, <3>1
      <4> HIDE DEF transaction, held
      <4>2. Shown(Serviced(transaction, elapsed, answers))
              = Seam!Answered(Shown(transaction),
                              Serviced(transaction, elapsed, answers).outcome, held)
        BY <4>1, ServicedOnSeam
      <4> QED
        BY <4>2 DEF transaction, held
    <3>4. transactions'[id] = Serviced(transactions[id], elapsed, answers)
      BY <1>3
    <3> HIDE DEF outcomes
    <3> QED
      BY <3>2, <3>3, <3>4
  <2>2. DOMAIN transactions' = DOMAIN transactions
    BY <1>1
  <2> QED
    BY <1>4, <2>1, <2>2
<1>10. Seam!Service(outcomes, {}, Seam!Readings)
  <2> HIDE DEF outcomes
  <2>1. {} \subseteq Seam!MayBeLost(outcomes)
    OBVIOUS
  <2> QED
    BY <1>5, <1>8, <1>9, <2>1 DEF Seam!Service
<1> HIDE DEF outcomes
<1> QED
  BY <1>5, <1>10 DEF Seam!SeamNext

----------------------------------------------------------------------------
(* The refinement. *)

\* Every step of the program is a step of the seam or leaves it alone.
LEMMA StepOnSeam ==
  ASSUME IdsSuffice, TypeOK, TypeOK', LiveInv, [Next]_vars
  PROVE  Seam!SeamNext
<1>1. CASE Pass
  BY <1>1, ServiceOnSeam DEF Pass
<1>2. CASE ServicePoll \/ ServiceSetpoint \/ ServiceEnable
  <2>1. PICK slave \in Slaves : slave = unit
    BY DEF TypeOK
  <2>2. PICK user \in Users : CallsDone = CallsBefore(slave, TableFor(user)) /\ UserCall(slave, user)
    BY <1>2, <2>1, LoopCall
  <2>3. InPass
    BY <1>2, <2>1, CallsInOrder
  <2>4. CallsDone < CallsPerPass
    <3>1. TableFor(user) \in Tables
      BY UserTables
    <3>2. CallsBefore(slave, TableFor(user)) \in 0 .. CallsPerPass - 1
      BY <3>1, CallsNumbered
    <3>3. CallsPerPass \in Nat
      BY SlaveCountAssumption DEF CallsPerPass
    <3> QED
      BY <2>2, <3>2, <3>3
  <2>5. registers' = registers
    BY <1>2 DEF ServicePoll, StartPoll, WaitForPoll, FinishPoll, ServiceSetpoint, ServiceEnable,
                WriteOut, deviceVars, busVars
  <2> QED
    BY <2>2, <2>3, <2>4, <2>5, CallOnSeam
<1>3. CASE UNCHANGED transactions
  BY <1>3 DEF Seam!SeamNext, Seam!DevicesChange
<1>4. CASE ClientWrites \/ ClientRelinquishes \/ ControlIdle \/ ControlConnection \/ ControlSet
             \/ KeyIdle \/ KeyNudge \/ KeyToggle \/ KeyQuit \/ UNCHANGED vars
  <2>1. UNCHANGED transactions
    BY <1>4 DEF ClientWrites, ClientRelinquishes, ControlIdle, ControlConnection, ControlSet,
                KeyIdle, KeyNudge, KeyToggle, KeyQuit, SetSlaveOnline, SetPoint, busVars, vars
  <2> QED
    BY <1>3, <2>1
<1> QED
  BY <1>1, <1>2, <1>4 DEF Next, Loop, Environment

\* The program implements the seam: it starts every request under an id nobody holds,
\* fetches only live ones, and never has two writes of a point in flight; the driver
\* finishes each once, a read with what the sensor measures then, a write in the device
\* if it is Done (ForeignBus.h:53-76; main.cpp:400, 431; SimulatedForeignBus.cpp:139).
THEOREM ProgramImplementsSeam ==
  ASSUME IdsSuffice, AnswersInTime
  PROVE  Spec => ImplementsSeam
<1>1. Init => Seam!SeamInit
  BY StartsOnSeam
<1>2. Init => LiveInv
  BY InitLive
<1>3. TypeOK /\ LiveInv /\ [Next]_vars => LiveInv'
  BY LiveStep
<1>4. TypeOK /\ TypeOK' /\ LiveInv /\ [Next]_vars => [Seam!SeamNext]_(Seam!seamVars)
  BY StepOnSeam
<1> QED
  BY <1>1, <1>2, <1>3, <1>4, TypeCorrect, PTL DEF Spec, ImplementsSeam, Seam!SeamSpec

=============================================================================
