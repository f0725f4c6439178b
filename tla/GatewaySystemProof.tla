------------------------- MODULE GatewaySystemProof -------------------------
(***************************************************************************)
(* What is proved of the whole program, for any number of slaves, any       *)
(* latencies, periods, commands and stalls.                                *)
(***************************************************************************)
EXTENDS GatewaySystem, GatewayProof

----------------------------------------------------------------------------
(* What the helpers return. *)

\* A non-empty set of transaction ids has a highest one: the map's last.
LEMMA HighestExists ==
  ASSUME NEW ids, ids \subseteq TransactionIds, ids # {}
  PROVE  \E last \in ids : \A id \in ids : id <= last
<1> DEFINE gaps == {MAX_TRANSACTION_ID - id : id \in ids}
<1>1. MAX_TRANSACTION_ID \in Nat /\ \A id \in ids : id \in Nat /\ id <= MAX_TRANSACTION_ID
  BY TransactionIdAssumption DEF TransactionIds
<1>2. gaps \subseteq Nat /\ gaps # {}
  BY <1>1
<1>3. PICK gap \in gaps : \A other \in gaps : gap <= other
  <2> HIDE DEF gaps
  <2> QED
    BY <1>2, LowestExists
<1>4. PICK last \in ids : gap = MAX_TRANSACTION_ID - last
  OBVIOUS
<1>5. \A id \in ids : MAX_TRANSACTION_ID - last <= MAX_TRANSACTION_ID - id
  BY <1>3, <1>4
<1> QED
  BY <1>1, <1>5

\* The next transaction id is one (SimulatedForeignBus.cpp:105).
LEMMA NextIdType ==
  ASSUME NEW id \in TransactionIds
  PROVE  NextTransactionId(id) \in TransactionIds
  BY TransactionIdAssumption DEF TransactionIds, NextTransactionId

----------------------------------------------------------------------------
(* Type correctness, one lemma per handler. *)

\* The program starts well typed (main.cpp:237, SimulatedForeignBus.cpp:38).
LEMMA InitType == Init => TypeOK
<1> SUFFICES ASSUME Init PROVE TypeOK
  OBVIOUS
<1>1. GatewayTypeOK(TransactionIds)
  BY GatewayInitType DEF Init
<1>2. BusTypeOK
  BY TransactionIdAssumption, DriftAssumption, RegistersAssumption
  DEF BusTypeOK, Init, BusInit, Unset, TransactionIds
<1> QED
  BY <1>1, <1>2, SlaveCountAssumption, InputsAssumption
  DEF TypeOK, Init, Calls, Slaves

\* What clients do between two passes (main.cpp:758, 816).
LEMMA ClientsType == TypeOK /\ (ClientWrites \/ ClientRelinquishes) => TypeOK'
<1> SUFFICES ASSUME TypeOK, ClientWrites \/ ClientRelinquishes PROVE TypeOK'
  OBVIOUS
<1>1. PICK slave \in Slaves, output \in Outputs, priority \in Nat, value \in Int :
        \/ WritePresentValue(slave, output, priority, value)
        \/ RelinquishPresentValue(slave, output, priority)
  <2>1. CASE ClientWrites
    BY <2>1, InputsAssumption DEF ClientWrites
  <2>2. CASE ClientRelinquishes
    <3>1. 0 \in Int
      OBVIOUS
    <3> QED
      BY <2>2, <3>1, InputsAssumption DEF ClientRelinquishes
  <2> QED
    BY <2>1, <2>2
<1>2. GatewayTypeOK(TransactionIds)'
  BY <1>1, ClientType DEF TypeOK
<1>3. UNCHANGED <<busVars, loopVars, historyVars>>
  BY DEF ClientWrites, ClientRelinquishes
<1> QED
  BY <1>2, <1>3 DEF TypeOK, BusTypeOK, busVars, loopVars, historyVars

\* A drifting sensor turns round before it leaves its range
\* (SimulatedForeignBus.cpp:119).
LEMMA DriftType ==
  ASSUME BusTypeOK, NEW slave \in Slaves
  PROVE  /\ DriftDirection(slave) \in {-1, 1}
         /\ driftOffset[slave] + DriftDirection(slave)
              \in -DRIFT_MAXIMUM_STEPS .. DRIFT_MAXIMUM_STEPS
<1>1. /\ driftOffset[slave] \in -DRIFT_MAXIMUM_STEPS .. DRIFT_MAXIMUM_STEPS
      /\ driftDirection[slave] \in {-1, 1}
      /\ DRIFT_MAXIMUM_STEPS \in Nat \ {0}
  BY DriftAssumption DEF BusTypeOK
<1> QED
  BY <1>1 DEF DriftDirection

\* The registers a pass answers from are registers (SimulatedForeignBus.cpp:124).
LEMMA DriftedType ==
  ASSUME BusTypeOK, NEW drifts
  PROVE  DriftedRegisters(drifts) \in [Slaves -> [Tables -> RegisterValues]]
<1>1. ASSUME NEW slave \in Slaves
      PROVE  DriftedRegister(slave, driftOffset[slave] + DriftDirection(slave)) \in RegisterValues
  <2>1. INITIAL_REGISTERS[slave]["input"] \in Int
    BY RegistersAssumption DEF Tables, RegisterValues
  <2>2. driftOffset[slave] + DriftDirection(slave) \in Int
    BY DriftType, DriftAssumption
  <2> QED
    BY <2>1, <2>2, CastToRegister DEF DriftedRegister
<1> QED
  BY <1>1 DEF DriftedRegisters, BusTypeOK

\* One transaction after a Service (SimulatedForeignBus.cpp:150).
LEMMA ServicedType ==
  ASSUME NEW transaction \in Transactions, NEW elapsed \in 1 .. MAX_STEP,
         NEW answers \in [Slaves -> [Tables -> RegisterValues]]
  PROVE  Serviced(transaction, elapsed, answers) \in Transactions
<1>1. elapsed \in Nat /\ RESPONSE_TIMEOUT \in Nat \ {0} /\ transaction.age \in Nat
  BY StepAssumption, TimeoutAssumption DEF Transactions
<1>2. answers[transaction.unit][transaction.table] \in RegisterValues
  BY DEF Transactions
<1>3. CASE transaction.outcome # "Pending"
  BY <1>3 DEF Serviced
<1>4. CASE transaction.outcome = "Pending" /\ Answered(transaction, elapsed)
  <2> DEFINE value == IF transaction.isWrite
                        THEN transaction.value
                        ELSE answers[transaction.unit][transaction.table]
  <2>1. value \in RegisterValues
    BY <1>2 DEF Transactions
  <2>2. Serviced(transaction, elapsed, answers) =
          [transaction EXCEPT !.outcome = "Done", !.age = 0, !.value = value]
    BY <1>4 DEF Serviced
  <2>3. 0 \in 0 .. RESPONSE_TIMEOUT /\ "Done" \in Outcomes
    BY <1>1 DEF Outcomes
  <2> HIDE DEF value
  <2> QED
    BY <2>1, <2>2, <2>3 DEF Transactions
<1>5. CASE transaction.outcome = "Pending" /\ ~Answered(transaction, elapsed)
  <2>1. CASE GivenUp(transaction, elapsed)
    <3>1. Serviced(transaction, elapsed, answers) =
            [transaction EXCEPT !.outcome = "Timeout", !.age = 0]
      BY <1>5, <2>1 DEF Serviced
    <3>2. 0 \in 0 .. RESPONSE_TIMEOUT /\ "Timeout" \in Outcomes
      BY <1>1 DEF Outcomes
    <3> QED
      BY <3>1, <3>2 DEF Transactions
  <2>2. CASE ~GivenUp(transaction, elapsed)
    <3>1. transaction.age + elapsed \in 0 .. RESPONSE_TIMEOUT
      BY <1>1, <2>2 DEF GivenUp
    <3> QED
      BY <1>5, <2>2, <3>1 DEF Serviced, Transactions
  <2> QED
    BY <2>1, <2>2
<1> QED
  BY <1>3, <1>4, <1>5

\* The registers after the writes of a pass (SimulatedForeignBus.cpp:157).
LEMMA WrittenType ==
  ASSUME BusTypeOK, NEW elapsed,
         NEW before \in [Slaves -> [Tables -> RegisterValues]]
  PROVE  WrittenRegisters(before, elapsed) \in [Slaves -> [Tables -> RegisterValues]]
<1> SUFFICES ASSUME NEW slave \in Slaves, NEW table \in Tables
             PROVE  WrittenRegisters(before, elapsed)[slave][table] \in RegisterValues
  BY DEF WrittenRegisters
<1> DEFINE writes == WritesAnswered(slave, table, elapsed)
<1>1. CASE writes = {}
  BY <1>1 DEF WrittenRegisters
<1>2. CASE writes # {}
  <2> DEFINE last == CHOOSE last \in writes : \A id \in writes : id <= last
  <2>1. writes \subseteq DOMAIN transactions /\ writes \subseteq TransactionIds
    BY DEF WritesAnswered, BusTypeOK
  <2>2. \E highest \in writes : \A id \in writes : id <= highest
    <3> HIDE DEF writes
    <3> QED
      BY <1>2, <2>1, HighestExists
  <2>3. last \in writes
    BY <2>2
  <2>4. transactions[last].value \in RegisterValues
    BY <2>1, <2>3 DEF BusTypeOK, Transactions
  <2>5. WrittenRegisters(before, elapsed)[slave][table] = Stored(table, transactions[last].value)
    BY <1>2 DEF WrittenRegisters
  <2> QED
    BY <2>4, <2>5, StoredType
<1> QED
  BY <1>1, <1>2

\* A Service leaves the driver well typed (SimulatedForeignBus.cpp:139).
LEMMA BusServiceType ==
  ASSUME BusTypeOK, NEW elapsed \in 1 .. MAX_STEP, BusService(elapsed)
  PROVE  BusTypeOK'
<1> DEFINE driftElapsed == IF driftAge = Unset THEN 0 ELSE driftAge + elapsed
           drifts == driftElapsed >= DRIFT_STEP
           answers == DriftedRegisters(drifts)
<1>1. answers \in [Slaves -> [Tables -> RegisterValues]]
  BY DriftedType
<1>2. driftAge' \in Unset .. DRIFT_STEP
  BY StepAssumption, DriftAssumption DEF BusService, BusTypeOK, Unset
<1>3. driftDirection' \in [Slaves -> {-1, 1}]
  BY DriftType DEF BusService, BusTypeOK
<1>4. driftOffset' \in [Slaves -> -DRIFT_MAXIMUM_STEPS .. DRIFT_MAXIMUM_STEPS]
  BY DriftType DEF BusService, BusTypeOK
<1>5. registers' \in [Slaves -> [Tables -> RegisterValues]]
  BY <1>1, WrittenType DEF BusService
<1>6. /\ DOMAIN transactions' = DOMAIN transactions
      /\ \A id \in DOMAIN transactions :
           transactions'[id] = Serviced(transactions[id], elapsed, answers)
  BY DEF BusService
<1>7. \A id \in DOMAIN transactions' : transactions'[id] \in Transactions
  <2> HIDE DEF answers
  <2> QED
    BY <1>1, <1>6, ServicedType DEF BusTypeOK
<1> QED
  BY <1>2, <1>3, <1>4, <1>5, <1>6, <1>7 DEF BusTypeOK, BusService

\* The pass's Service (main.cpp:463).
LEMMA ServiceBusType ==
  ASSUME TypeOK, NEW elapsed \in 1 .. MAX_STEP, ServiceBus(elapsed)
  PROVE  TypeOK'
<1>1. GatewayTypeOK(TransactionIds)' /\ BusTypeOK'
  <2>1. elapsed \in Nat
    BY StepAssumption
  <2> QED
    BY <2>1, TimePassesType, BusServiceType DEF TypeOK, ServiceBus
<1>2. silence' \in [Slaves -> 0 .. SILENCE_CAP]
  <2>1. ASSUME NEW slave \in Slaves
        PROVE  (IF silence[slave] + elapsed > SILENCE_CAP THEN SILENCE_CAP
                ELSE silence[slave] + elapsed) \in 0 .. SILENCE_CAP
    BY InputsAssumption, StepAssumption DEF TypeOK
  <2> QED
    BY <2>1 DEF ServiceBus
<1>3. overridden' \in [Slaves -> [Outputs -> BOOLEAN]]
  BY DEF ServiceBus
<1> QED
  BY <1>1, <1>2, <1>3 DEF TypeOK, ServiceBus, Calls

\* A request that is started, and a check that erases one, keep the live
\* transactions well typed (SimulatedForeignBus.cpp:97, 179).
LEMMA LiveType ==
  ASSUME NEW live, DOMAIN live \subseteq TransactionIds,
         \A id \in DOMAIN live : live[id] \in Transactions,
         NEW id \in TransactionIds, NEW request \in Transactions
  PROVE  /\ DOMAIN Started(live, id, request) = DOMAIN live \cup {id}
         /\ \A other \in DOMAIN live \cup {id} :
              /\ Started(live, id, request)[other] = IF other = id THEN request ELSE live[other]
              /\ Started(live, id, request)[other] \in Transactions
  BY DEF Started

\* A check erases at most the transaction it asks for (SimulatedForeignBus.cpp:184).
LEMMA CheckedType ==
  ASSUME BusTypeOK, NEW id
  PROVE  /\ DOMAIN Checked(id) \subseteq DOMAIN transactions
         /\ \A other \in DOMAIN Checked(id) :
              /\ Checked(id)[other] = transactions[other]
              /\ Checked(id)[other] \in Transactions
  BY DEF Checked, BusTypeOK

\* A new request (SimulatedForeignBus.cpp:97).
LEMMA RequestType ==
  ASSUME NEW slave \in Slaves, NEW table \in Tables, NEW isWrite \in BOOLEAN,
         NEW value \in RegisterValues
  PROVE  Request(slave, table, isWrite, value) \in Transactions
<1>1. 0 \in 0 .. RESPONSE_TIMEOUT
  BY TimeoutAssumption
<1> QED
  BY <1>1 DEF Request, Transactions, Outcomes

\* ServicePoll over the driver (main.cpp:400).
LEMMA ServicePollType == TypeOK /\ ServicePoll => TypeOK'
<1> SUFFICES ASSUME TypeOK, ServicePoll PROVE TypeOK'
  OBVIOUS
<1>1. unit \in Slaves /\ GatewayTypeOK(TransactionIds) /\ BusTypeOK
      /\ nextTransactionId \in TransactionIds
      /\ silence \in [Slaves -> 0 .. SILENCE_CAP]
  BY DEF TypeOK, BusTypeOK
<1>2. CASE StartPoll(unit)
  <2> DEFINE request == Request(unit, "input", FALSE, 0)
  <2>1. GatewayTypeOK(TransactionIds)'
    <3>1. nextTransactionId \in TransactionIds \cup {0}
      BY <1>1
    <3>2. PollStarts(unit, nextTransactionId)
      BY <1>2 DEF StartPoll
    <3>3. "Pending" = "Done" => 0 \in RegisterValues
      OBVIOUS
    <3> QED
      BY <1>1, <3>1, <3>2, <3>3, PollType
  <2>2. request \in Transactions
    <3>1. 0 \in RegisterValues /\ "input" \in Tables
      BY SMT DEF RegisterValues, REGISTER_VALUES, Tables
    <3> QED
      BY <1>1, <3>1, RequestType
  <2>3. transactions' = Started(transactions, nextTransactionId, request)
    BY <1>2 DEF StartPoll
  <2> HIDE DEF request
  <2>4. DOMAIN transactions' \subseteq TransactionIds
        /\ \A id \in DOMAIN transactions' : transactions'[id] \in Transactions
    <3>1. DOMAIN transactions \subseteq TransactionIds
          /\ \A id \in DOMAIN transactions : transactions[id] \in Transactions
      BY <1>1 DEF BusTypeOK
    <3>2. /\ DOMAIN transactions' = DOMAIN transactions \cup {nextTransactionId}
          /\ \A id \in DOMAIN transactions \cup {nextTransactionId} :
               transactions'[id] \in Transactions
      BY <1>1, <2>2, <2>3, <3>1, LiveType
    <3> QED
      BY <1>1, <3>1, <3>2
  <2>5. BusTypeOK'
    BY <1>1, <1>2, <2>4, NextIdType DEF BusTypeOK, StartPoll, deviceVars
  <2> QED
    BY <1>1, <1>2, <2>1, <2>5 DEF TypeOK, ServicePoll, StartPoll, Calls
<1>3. CASE WaitForPoll(unit)
  BY <1>1, <1>3 DEF TypeOK, BusTypeOK, GatewayTypeOK, ServicePoll, WaitForPoll, PollWaits,
                    Calls, busVars, gatewayVars
<1>4. CASE FinishPoll(unit)
  <2> DEFINE id == pollTransactionId[unit]
             outcome == CheckedOutcome(id)
             register == transactions[id].value
  <2>1. PollFinishes(unit, outcome, register) /\ transactions' = Checked(id)
        /\ UNCHANGED <<deviceVars, nextTransactionId>>
    BY <1>4 DEF FinishPoll
  <2>2. outcome = "Done" => register \in RegisterValues
    BY <1>1 DEF CheckedOutcome, BusTypeOK, Transactions
  <2>3. silence' \in [Slaves -> 0 .. SILENCE_CAP]
    <3>1. 0 \in 0 .. SILENCE_CAP
      BY InputsAssumption
    <3>2. silence' = [silence EXCEPT ![unit] = 0] \/ silence' = silence
      BY <1>4 DEF FinishPoll
    <3> QED
      BY <1>1, <3>1, <3>2
  <2> HIDE DEF id, outcome, register
  <2>4. GatewayTypeOK(TransactionIds)'
    <3>1. nextTransactionId \in TransactionIds \cup {0}
      BY <1>1
    <3> QED
      BY <1>1, <2>1, <2>2, <3>1, PollType
  <2>5. BusTypeOK'
    BY <1>1, <2>1, CheckedType DEF BusTypeOK, deviceVars
  <2> QED
    BY <1>1, <2>3, <2>4, <2>5 DEF TypeOK, ServicePoll, Calls
<1> QED
  BY <1>2, <1>3, <1>4 DEF ServicePoll

\* ServiceWriteThrough over the driver (main.cpp:430).
LEMMA WriteOutType ==
  ASSUME TypeOK, NEW slave \in Slaves, NEW output \in Outputs, WriteOut(slave, output)
  PROVE  GatewayTypeOK(TransactionIds)' /\ BusTypeOK'
<1> DEFINE id == link[slave][output].transactionId
           outcome == CheckedOutcome(id)
           live == IF id = 0 THEN transactions ELSE Checked(id)
           starts == /\ ~WriteWaits(slave, output, outcome)
                     /\ MustWrite(slave, output, Rechecked(slave, output, outcome))
           request == Request(slave, TableOf(output), TRUE,
                              ToRegister(output, Winning(slave, output)))
<1>1. GatewayTypeOK(TransactionIds) /\ BusTypeOK /\ nextTransactionId \in TransactionIds
  BY DEF TypeOK, BusTypeOK
<1>2. /\ WriteThrough(slave, output, outcome, nextTransactionId)
      /\ transactions' = IF starts THEN Started(live, nextTransactionId, request) ELSE live
      /\ nextTransactionId' = IF starts THEN NextTransactionId(nextTransactionId)
                                        ELSE nextTransactionId
      /\ UNCHANGED deviceVars
  BY DEF WriteOut
<1>3. request \in Transactions
  <2>1. TableOf(output) \in Tables
    BY DEF TableOf, Tables
  <2>2. ToRegister(output, Winning(slave, output)) \in RegisterValues
    BY <1>1, WinningType, ToRegisterType
  <2> QED
    BY <2>1, <2>2, RequestType
<1>4. DOMAIN live \subseteq TransactionIds
      /\ \A other \in DOMAIN live : live[other] \in Transactions
  <2>1. DOMAIN transactions \subseteq TransactionIds
        /\ \A other \in DOMAIN transactions : transactions[other] \in Transactions
    BY <1>1 DEF BusTypeOK
  <2>2. DOMAIN Checked(id) \subseteq DOMAIN transactions
        /\ \A other \in DOMAIN Checked(id) : Checked(id)[other] \in Transactions
    BY <1>1, CheckedType
  <2> QED
    BY <2>1, <2>2
<1> HIDE DEF id, outcome, live, starts, request
<1>5. GatewayTypeOK(TransactionIds)'
  BY <1>1, <1>2, WriteThroughType
<1>6. DOMAIN transactions' \subseteq TransactionIds
      /\ \A other \in DOMAIN transactions' : transactions'[other] \in Transactions
  <2>1. CASE starts
    <3>1. /\ DOMAIN transactions' = DOMAIN live \cup {nextTransactionId}
          /\ \A other \in DOMAIN live \cup {nextTransactionId} :
               transactions'[other] \in Transactions
      BY <1>1, <1>2, <1>3, <1>4, <2>1, LiveType
    <3> QED
      BY <1>1, <1>4, <3>1
  <2>2. CASE ~starts
    BY <1>2, <1>4, <2>2
  <2> QED
    BY <2>1, <2>2
<1>7. nextTransactionId' \in TransactionIds
  BY <1>1, <1>2, NextIdType
<1>8. BusTypeOK'
  BY <1>1, <1>2, <1>6, <1>7 DEF BusTypeOK, deviceVars
<1> QED
  BY <1>5, <1>8

\* What the test control and the operator do to the devices
\* (SimulationControl.cpp:61, main.cpp:1013).
LEMMA DeviceType ==
  ASSUME BusTypeOK, NEW slave \in Slaves,
         \/ \E flag \in BOOLEAN : SetSlaveOnline(slave, flag)
         \/ \E table \in Tables, value \in RegisterValues : SetPoint(slave, table, value)
  PROVE  BusTypeOK'
<1>1. CASE \E flag \in BOOLEAN : SetSlaveOnline(slave, flag)
  BY <1>1 DEF BusTypeOK, SetSlaveOnline
<1>2. CASE \E table \in Tables, value \in RegisterValues : SetPoint(slave, table, value)
  <2>1. PICK table \in Tables, value \in RegisterValues : SetPoint(slave, table, value)
    BY <1>2
  <2>2. Stored(table, value) \in RegisterValues
    BY StoredType
  <2>3. registers' \in [Slaves -> [Tables -> RegisterValues]]
    BY <2>1, <2>2 DEF BusTypeOK, SetPoint
  <2>4. drifting' \in [Slaves -> BOOLEAN]
    BY <2>1 DEF BusTypeOK, SetPoint
  <2> QED
    BY <2>1, <2>3, <2>4 DEF BusTypeOK, SetPoint
<1> QED
  BY <1>1, <1>2

\* The rest of the pass.
LEMMA EnvironmentType ==
  TypeOK /\ (ControlIdle \/ ControlConnection \/ ControlSet
              \/ KeyIdle \/ KeyNudge \/ KeyToggle \/ KeyQuit) => TypeOK'
<1> SUFFICES ASSUME TypeOK,
                    ControlIdle \/ ControlConnection \/ ControlSet
                      \/ KeyIdle \/ KeyNudge \/ KeyToggle \/ KeyQuit
             PROVE  TypeOK'
  OBVIOUS
<1>1. UNCHANGED gatewayVars /\ unit' = unit /\ silence' = silence /\ pc' \in Calls
  BY DEF ControlIdle, ControlConnection, ControlSet, KeyIdle, KeyNudge, KeyToggle, KeyQuit,
         historyVars, Calls
<1>2. GatewayTypeOK(TransactionIds)'
  BY <1>1 DEF TypeOK, GatewayTypeOK, gatewayVars
<1>3. BOILER \in Slaves
  BY SlaveCountAssumption DEF BOILER, Slaves
<1>4. BusTypeOK' /\ overridden' \in [Slaves -> [Outputs -> BOOLEAN]]
  <2>1. CASE ControlIdle \/ KeyIdle \/ KeyQuit
    BY <2>1 DEF ControlIdle, KeyIdle, KeyQuit, TypeOK, BusTypeOK, busVars, historyVars
  <2>2. CASE ControlConnection
    <3>1. PICK slave \in Slaves : \E flag \in BOOLEAN : SetSlaveOnline(slave, flag)
      BY <2>2, InputsAssumption DEF ControlConnection
    <3> QED
      BY <2>2, <3>1, DeviceType DEF ControlConnection, TypeOK, historyVars
  <2>3. CASE ControlSet
    <3>1. PICK slave \in Slaves, setting \in ControlSettings :
            /\ SetPoint(slave, setting.table, setting.value)
            /\ overridden' = Overrides(slave, setting.table)
      BY <2>3, InputsAssumption DEF ControlSet
    <3>2. setting.table \in Tables /\ setting.value \in RegisterValues
      BY InputsAssumption
    <3>3. BusTypeOK'
      BY <3>1, <3>2, DeviceType DEF TypeOK
    <3>4. overridden' \in [Slaves -> [Outputs -> BOOLEAN]]
      BY <3>1 DEF TypeOK, Overrides
    <3> QED
      BY <3>3, <3>4
  <2>4. CASE KeyNudge
    <3>1. PICK value \in SensorRange : SetPoint(BOILER, "input", value)
      BY <2>4 DEF KeyNudge
    <3>2. value \in RegisterValues /\ "input" \in Tables
      BY InputsAssumption DEF Tables
    <3> QED
      BY <1>3, <2>4, <3>1, <3>2, DeviceType DEF KeyNudge, TypeOK, historyVars
  <2>5. CASE KeyToggle
    <3>1. SetSlaveOnline(BOILER, ~connected[BOILER]) /\ (~connected[BOILER]) \in BOOLEAN
      BY <1>3, <2>5 DEF KeyToggle, TypeOK, BusTypeOK
    <3> QED
      BY <1>3, <2>5, <3>1, DeviceType DEF KeyToggle, TypeOK, historyVars
  <2> QED
    BY <2>1, <2>2, <2>3, <2>4, <2>5
<1> QED
  BY <1>1, <1>2, <1>4 DEF TypeOK

\* Every value stays in its C++ type's range, and every id the gateway holds is
\* one the driver could have given out.
THEOREM TypeCorrect == Spec => []TypeOK
<1>1. Init => TypeOK
  BY InitType
<1>2. TypeOK /\ [Next]_vars => TypeOK'
  <2> SUFFICES ASSUME TypeOK, [Next]_vars PROVE TypeOK'
    OBVIOUS
  <2>1. CASE Pass
    BY <2>1, ServiceBusType DEF Pass
  <2>2. CASE ServicePoll
    BY <2>2, ServicePollType
  <2>3. CASE ServiceSetpoint
    <3>1. GatewayTypeOK(TransactionIds)' /\ BusTypeOK'
      BY <2>3, WriteOutType DEF ServiceSetpoint, TypeOK, Outputs
    <3> QED
      BY <2>3, <3>1 DEF TypeOK, ServiceSetpoint, historyVars, Calls
  <2>4. CASE ServiceEnable
    <3>1. GatewayTypeOK(TransactionIds)' /\ BusTypeOK'
      BY <2>4, WriteOutType DEF ServiceEnable, TypeOK, Outputs
    <3>2. unit' \in Slaves /\ pc' \in Calls
      BY <2>4, SlaveCountAssumption DEF ServiceEnable, TypeOK, Slaves, Calls
    <3> QED
      BY <2>4, <3>1, <3>2 DEF TypeOK, ServiceEnable, historyVars
  <2>5. CASE ClientWrites \/ ClientRelinquishes
    BY <2>5, ClientsType
  <2>6. CASE ControlIdle \/ ControlConnection \/ ControlSet
               \/ KeyIdle \/ KeyNudge \/ KeyToggle \/ KeyQuit
    BY <2>6, EnvironmentType
  <2>7. CASE UNCHANGED vars
    BY <2>7 DEF vars, TypeOK, GatewayTypeOK, BusTypeOK
  <2> QED
    BY <2>1, <2>2, <2>3, <2>4, <2>5, <2>6, <2>7 DEF Next, Loop, Environment
<1> QED
  BY <1>1, <1>2, PTL DEF Spec
=============================================================================
