------------------------ MODULE SimulatedForeignBus ------------------------
(***************************************************************************)
(* The simulated foreign bus (simulation/SimulatedForeignBus.cpp): three    *)
(* slave devices behind the seam ForeignBus.h.  Requests are transactions;  *)
(* Service(now) answers the ones whose moment has come, and the requester   *)
(* polls CheckTransaction, which forgets a finished transaction.           *)
(*                                                                         *)
(* The code compares monotonic instants only with each other, so time is    *)
(* kept as ages: a transaction's age is now - startedAt, driftAge is        *)
(* now - g_lastDriftAt.                                                    *)
(***************************************************************************)
EXTENDS RegisterMap

CONSTANTS
  LATENCY,                \* per slave, how long it takes to answer
  RESPONSE_TIMEOUT,       \* when the driver gives up
  MAX_TRANSACTION_ID,     \* 2^32 - 1 in the code
  DRIFT_STEP,             \* how often the sensors drift
  DRIFT_MAXIMUM_STEPS,    \* how far they drift
  INITIAL_REGISTERS       \* per slave, its registers at start-up

ASSUME LatencyAssumption == LATENCY \in [Slaves -> Nat]
ASSUME TimeoutAssumption == RESPONSE_TIMEOUT \in Nat \ {0}
ASSUME TransactionIdAssumption == MAX_TRANSACTION_ID \in Nat \ {0}
ASSUME DriftAssumption == /\ DRIFT_STEP \in Nat \ {0}
                          /\ DRIFT_MAXIMUM_STEPS \in Nat \ {0}
ASSUME RegistersAssumption == INITIAL_REGISTERS \in [Slaves -> [Tables -> RegisterValues]]

VARIABLES
  connected,          \* SimulatedSlave.online: what is true of the device
  registers,          \* each slave's three points
  drifting,           \* false once something sets the sensor explicitly
  driftOffset,
  driftDirection,
  driftAge,           \* now - g_lastDriftAt, Unset before the first Service
  transactions,       \* g_transactions: a function from live ids
  nextTransactionId

deviceVars == <<connected, registers, drifting, driftOffset, driftDirection, driftAge>>
busVars == <<connected, registers, drifting, driftOffset, driftDirection, driftAge,
             transactions, nextTransactionId>>

Unset == -1
TransactionIds == 1 .. MAX_TRANSACTION_ID

Transactions ==
  [unit : Slaves, table : Tables, isWrite : BOOLEAN, value : RegisterValues,
   age : 0 .. RESPONSE_TIMEOUT, outcome : Outcomes]

BusTypeOK ==
  /\ connected \in [Slaves -> BOOLEAN]
  /\ registers \in [Slaves -> [Tables -> RegisterValues]]
  /\ drifting \in [Slaves -> BOOLEAN]
  /\ driftOffset \in [Slaves -> -DRIFT_MAXIMUM_STEPS .. DRIFT_MAXIMUM_STEPS]
  /\ driftDirection \in [Slaves -> {-1, 1}]
  /\ driftAge \in Unset .. DRIFT_STEP
  /\ DOMAIN transactions \subseteq TransactionIds
  /\ \A id \in DOMAIN transactions : transactions[id] \in Transactions
  /\ nextTransactionId \in TransactionIds

BusInit ==
  /\ connected = [slave \in Slaves |-> TRUE]
  /\ registers = INITIAL_REGISTERS
  /\ drifting = [slave \in Slaves |-> TRUE]
  /\ driftOffset = [slave \in Slaves |-> 0]
  /\ driftDirection = [slave \in Slaves |-> 1]
  /\ driftAge = Unset
  /\ transactions = [id \in {} |-> {}]
  /\ nextTransactionId = 1

----------------------------------------------------------------------------
(* Starting and finishing transactions: StartTransaction, CheckTransaction. *)

NextTransactionId_NoWrap(id) == id + 1

NextTransactionId_Narrow(id) == IF id >= 3 THEN 1 ELSE id + 1

\* ++g_nextTransactionId as a uint32_t, never 0.
NextTransactionId(id) == IF id = MAX_TRANSACTION_ID THEN 1 ELSE id + 1

Request(unit, table, isWrite, value) ==
  [unit |-> unit, table |-> table, isWrite |-> isWrite, value |-> value,
   age |-> 0, outcome |-> "Pending"]

\* The live transactions `live` once `request` has the id `id`: an entry that
\* still has that id is overwritten.
Started(live, id, request) ==
  [other \in DOMAIN live \cup {id} |-> IF other = id THEN request ELSE live[other]]

\* What CheckTransaction(id) answers; an id it does not know has timed out.
CheckedOutcome(id) ==
  IF id \in DOMAIN transactions THEN transactions[id].outcome ELSE "Timeout"

Checked_KeepTimeouts(id) ==
  IF CheckedOutcome(id) # "Done"
    THEN transactions
    ELSE [other \in DOMAIN transactions \ {id} |-> transactions[other]]

\* The transactions left after CheckTransaction(id): a finished one is erased.
Checked(id) ==
  IF CheckedOutcome(id) = "Pending"
    THEN transactions
    ELSE [other \in DOMAIN transactions \ {id} |-> transactions[other]]

----------------------------------------------------------------------------
(* Service(now), a time `elapsed` after the previous one. *)

DriftDirection(slave) ==
  IF driftOffset[slave] + driftDirection[slave]
       \in -DRIFT_MAXIMUM_STEPS .. DRIFT_MAXIMUM_STEPS
    THEN driftDirection[slave]
    ELSE -driftDirection[slave]

\* A drifting sensor follows its offset from driftCentre, its first reading.
DriftedRegister(slave, offset) ==
  (INITIAL_REGISTERS[slave]["input"] + offset) % REGISTER_VALUES

\* The registers the transactions are answered from: the sensors drift first.
DriftedRegisters(drifts) ==
  [slave \in Slaves |->
     IF drifts /\ drifting[slave]
       THEN [registers[slave] EXCEPT !["input"] =
               DriftedRegister(slave, driftOffset[slave] + DriftDirection(slave))]
       ELSE registers[slave]]

Answered_OnlyInTime(transaction, elapsed) ==
  /\ connected[transaction.unit]
  /\ transaction.age + elapsed >= LATENCY[transaction.unit]
  /\ transaction.age + elapsed < RESPONSE_TIMEOUT

\* A connected slave answers once its latency is over, however late it is.
Answered(transaction, elapsed) ==
  /\ connected[transaction.unit]
  /\ transaction.age + elapsed >= LATENCY[transaction.unit]

GivenUp(transaction, elapsed) ==
  transaction.age + elapsed >= RESPONSE_TIMEOUT

Serviced_BeforeTheDrift(transaction, elapsed, answers) ==
  IF transaction.outcome # "Pending"
    THEN transaction
  ELSE IF Answered(transaction, elapsed)
    THEN [transaction EXCEPT !.outcome = "Done", !.age = 0,
            !.value = IF transaction.isWrite
                        THEN transaction.value
                        ELSE registers[transaction.unit][transaction.table]]
  ELSE IF GivenUp(transaction, elapsed)
    THEN [transaction EXCEPT !.outcome = "Timeout", !.age = 0]
  ELSE [transaction EXCEPT !.age = transaction.age + elapsed]

\* One entry of g_transactions after Service.  Reads are of input registers
\* only, which no write reaches, so `answers`, the registers after the drift,
\* is what a read sees wherever the map holds it.  A finished entry's age is
\* never looked at again.
Serviced(transaction, elapsed, answers) ==
  IF transaction.outcome # "Pending"
    THEN transaction
  ELSE IF Answered(transaction, elapsed)
    THEN [transaction EXCEPT !.outcome = "Done", !.age = 0,
            !.value = IF transaction.isWrite
                        THEN transaction.value
                        ELSE answers[transaction.unit][transaction.table]]
  ELSE IF GivenUp(transaction, elapsed)
    THEN [transaction EXCEPT !.outcome = "Timeout", !.age = 0]
  ELSE [transaction EXCEPT !.age = transaction.age + elapsed]

WritesAnswered(slave, table, elapsed) ==
  {id \in DOMAIN transactions :
     /\ transactions[id].outcome = "Pending"
     /\ transactions[id].isWrite
     /\ transactions[id].unit = slave
     /\ transactions[id].table = table
     /\ Answered(transactions[id], elapsed)}

\* The map is walked in the order of the ids: the last write wins.
WrittenRegisters(before, elapsed) ==
  [slave \in Slaves |-> [table \in Tables |->
     LET writes == WritesAnswered(slave, table, elapsed)
     IN IF writes = {}
          THEN before[slave][table]
          ELSE Stored(table, transactions[CHOOSE last \in writes :
                               \A id \in writes : id <= last].value)]]

BusService(elapsed) ==
  LET driftElapsed == IF driftAge = Unset THEN 0 ELSE driftAge + elapsed
      drifts == driftElapsed >= DRIFT_STEP
      answers == DriftedRegisters(drifts)
  IN /\ driftAge' = IF drifts THEN 0 ELSE driftElapsed
     /\ driftDirection' = [slave \in Slaves |->
          IF drifts /\ drifting[slave] THEN DriftDirection(slave)
                                       ELSE driftDirection[slave]]
     /\ driftOffset' = [slave \in Slaves |->
          IF drifts /\ drifting[slave] THEN driftOffset[slave] + DriftDirection(slave)
                                       ELSE driftOffset[slave]]
     /\ registers' = WrittenRegisters(answers, elapsed)
     /\ transactions' = [id \in DOMAIN transactions |->
                           Serviced(transactions[id], elapsed, answers)]
     /\ UNCHANGED <<connected, drifting, nextTransactionId>>

----------------------------------------------------------------------------
(* Reaching inside the simulation: SetSlaveOnline, SetPoint. *)

SetSlaveOnline(slave, online) ==
  /\ connected' = [connected EXCEPT ![slave] = online]
  /\ UNCHANGED <<registers, drifting, driftOffset, driftDirection, driftAge,
                 transactions, nextTransactionId>>

SetPoint(slave, table, value) ==
  /\ registers' = [registers EXCEPT ![slave][table] = Stored(table, value)]
  /\ drifting' = IF table = "input" THEN [drifting EXCEPT ![slave] = FALSE]
                                    ELSE drifting
  /\ UNCHANGED <<connected, driftOffset, driftDirection, driftAge,
                 transactions, nextTransactionId>>
=============================================================================
