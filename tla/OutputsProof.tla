----------------------------- MODULE OutputsProof -----------------------------
(***************************************************************************)
(* What the gateway believes of its outputs and shows of its slaves is so: a *)
(* written output is in the device, whatever the order of commands, faults,  *)
(* timeouts, retries and stalls; a cached reading is what its sensor measured *)
(* in the pass that cached it; and a virtual device can be discovered exactly  *)
(* while its slave is believed online.                                     *)
(*                                                                         *)
(* WrittenMeansLanded says nothing of an output whose write is in flight.     *)
(* The invariant does: until that write is Done the device holds what was     *)
(* written before it, from then on what is in flight.                       *)
(***************************************************************************)
EXTENDS TransactionsProof

----------------------------------------------------------------------------
(* Written outputs. *)

Holds(slave, output, value) ==
  registers[slave][TableOf(output)] = Stored(TableOf(output), ToRegister(output, value))

IsDone(slave, output) ==
  /\ link[slave][output].transactionId # 0
  /\ CheckedOutcome(link[slave][output].transactionId) = "Done"

OutputOK(slave, output) ==
  ~overridden[slave][output] =>
    /\ IsDone(slave, output) => Holds(slave, output, link[slave][output].inFlightValue)
    /\ ~IsDone(slave, output) /\ link[slave][output].written =>
         Holds(slave, output, link[slave][output].lastWrittenValue)

OutputsInv == \A slave \in Slaves, output \in Outputs : OutputOK(slave, output)

\* An output that its step leaves alone stays as it is.
LEMMA OutputAlone ==
  ASSUME NEW slave \in Slaves, NEW output \in Outputs, OutputOK(slave, output),
         link'[slave][output].transactionId = link[slave][output].transactionId,
         link'[slave][output].inFlightValue = link[slave][output].inFlightValue,
         link'[slave][output].lastWrittenValue = link[slave][output].lastWrittenValue,
         link'[slave][output].written => link[slave][output].written,
         link[slave][output].transactionId # 0 =>
           CheckedOutcome(link[slave][output].transactionId)'
             = CheckedOutcome(link[slave][output].transactionId),
         \/ /\ registers'[slave][TableOf(output)] = registers[slave][TableOf(output)]
            /\ overridden[slave][output] => overridden'[slave][output]
         \/ overridden'[slave][output]
  PROVE  OutputOK(slave, output)'
<1>1. IsDone(slave, output)' <=> IsDone(slave, output)
  BY DEF IsDone, CheckedOutcome
<1>2. CASE overridden'[slave][output]
  BY <1>2 DEF OutputOK
<1>3. CASE ~overridden'[slave][output]
  <2>1. ~overridden[slave][output]
        /\ registers'[slave][TableOf(output)] = registers[slave][TableOf(output)]
    BY <1>3
  <2> QED
    BY <1>1, <1>3, <2>1 DEF OutputOK, Holds
<1> QED
  BY <1>2, <1>3

\* The program starts with nothing written.
LEMMA NothingWritten == Init => OutputsInv
  BY DEF Init, GatewayInit, UnwrittenLink, OutputsInv, OutputOK, IsDone

\* A write that a Service answers is the only one of its output, and the device holds
\* its value from then on (SimulatedForeignBus.cpp:155).
LEMMA ServiceKeepsOutputs ==
  ASSUME TypeOK, LiveInv, OutputsInv, NEW elapsed \in 1 .. MAX_STEP, ServiceBus(elapsed)
  PROVE  OutputsInv'
<1> SUFFICES ASSUME NEW slave \in Slaves, NEW output \in Outputs
             PROVE  OutputOK(slave, output)'
  BY DEF OutputsInv
<1> DEFINE table == TableOf(output)
           id == link[slave][output].transactionId
           writes == WritesAnswered(slave, table, elapsed)
           driftElapsed == IF driftAge = Unset THEN 0 ELSE driftAge + elapsed
           drifts == driftElapsed >= DRIFT_STEP
<1>1. ~InPass
  BY DEF ServiceBus, InPass
<1>2. /\ registers' = WrittenRegisters(DriftedRegisters(drifts), elapsed)
      /\ transactions' = [other \in DOMAIN transactions |->
           Serviced(transactions[other], elapsed, DriftedRegisters(drifts))]
  BY DEF ServiceBus, BusService
<1>3. /\ table \in Tables /\ table # "input" /\ output \in Users /\ table = TableFor(output)
      /\ TransactionOf(slave, output) = id
  BY DEF TableOf, Outputs, Tables, Users, TableFor, TransactionOf
<1>4. link'[slave][output] =
        [link[slave][output] EXCEPT !.retryIn = TimeLeft(link[slave][output].retryIn, elapsed)]
  BY DEF ServiceBus, GatewayTimePasses
<1>5. link[slave][output] \in Links(TransactionIds)
  BY DEF TypeOK, GatewayTypeOK
<1>6. /\ link'[slave][output].transactionId = id
      /\ link'[slave][output].inFlightValue = link[slave][output].inFlightValue
      /\ link'[slave][output].lastWrittenValue = link[slave][output].lastWrittenValue
      /\ link'[slave][output].written = link[slave][output].written
  BY <1>4, <1>5 DEF Links
<1>7. overridden'[slave][output] <=> overridden[slave][output] /\ writes = {}
  BY DEF ServiceBus
<1>8. id # 0 =>
        /\ id \in DOMAIN transactions
        /\ transactions[id] \in Transactions
        /\ transactions[id].outcome = "Pending"
        /\ transactions[id].unit = slave
        /\ transactions[id].table = table
        /\ transactions[id].isWrite
        /\ transactions[id].value = ToRegister(output, link[slave][output].inFlightValue)
        /\ transactions'[id] = Serviced(transactions[id], elapsed, DriftedRegisters(drifts))
        /\ CheckedOutcome(id)' = transactions'[id].outcome
  <2> SUFFICES ASSUME id # 0 PROVE
        /\ id \in DOMAIN transactions
        /\ transactions[id] \in Transactions
        /\ transactions[id].outcome = "Pending"
        /\ transactions[id].unit = slave
        /\ transactions[id].table = table
        /\ transactions[id].isWrite
        /\ transactions[id].value = ToRegister(output, link[slave][output].inFlightValue)
        /\ transactions'[id] = Serviced(transactions[id], elapsed, DriftedRegisters(drifts))
        /\ CheckedOutcome(id)' = transactions'[id].outcome
    OBVIOUS
  <2>1. id \in DOMAIN transactions /\ RequestedBy(slave, output, transactions[id])
    BY <1>3 DEF LiveInv, OwnedTransactions
  <2>2. output # "poll"
    BY DEF Outputs
  <2>3. transactions[id].outcome = "Pending"
    BY <1>1, <2>1, AllPending
  <2>4. id' = id
    BY <1>6
  <2>5. CheckedOutcome(id)' = transactions'[id].outcome
    BY <1>2, <2>1, <2>4 DEF CheckedOutcome
  <2> HIDE DEF id
  <2> QED
    BY <1>2, <2>1, <2>2, <2>3, <2>5 DEF RequestedBy, TypeOK, BusTypeOK
<1> HIDE DEF id, table, writes, drifts
<1>9. writes \subseteq {id} \ {0}
  <2> SUFFICES ASSUME NEW write \in writes PROVE write = id /\ write # 0
    OBVIOUS
  <2>1. write \in DOMAIN transactions /\ write # 0
        /\ transactions[write].unit = slave /\ transactions[write].table = table
    BY DEF writes, WritesAnswered, TypeOK, BusTypeOK, TransactionIds
  <2>2. PICK owner \in Slaves, user \in Users : TransactionOf(owner, user) = write
    BY <2>1 DEF LiveInv, OwnedTransactions
  <2>3. RequestedBy(owner, user, transactions[write])
    BY <2>1, <2>2 DEF LiveInv, OwnedTransactions
  <2>4. owner = slave /\ TableFor(user) = TableFor(output)
    BY <2>1, <2>3, <1>3, RequestTells
  <2>5. user = output
    BY <2>4, <1>3, UserTables
  <2> QED
    BY <2>1, <2>2, <2>4, <2>5, <1>3
<1>10. CASE writes = {}
  <2>1. registers'[slave][table] = registers[slave][table]
    <3>1. registers'[slave][table] = DriftedRegisters(drifts)[slave][table]
      BY <1>2, <1>3, <1>10 DEF WrittenRegisters, writes
    <3>2. registers[slave] \in [Tables -> RegisterValues]
      BY DEF TypeOK, BusTypeOK
    <3>3. DriftedRegisters(drifts)[slave][table] = registers[slave][table]
      BY <3>2, <1>3 DEF DriftedRegisters
    <3> QED
      BY <3>1, <3>3
  <2>2. id # 0 => CheckedOutcome(id)' # "Done" /\ CheckedOutcome(id) # "Done"
    <3> SUFFICES ASSUME id # 0 PROVE CheckedOutcome(id)' # "Done" /\ CheckedOutcome(id) # "Done"
      OBVIOUS
    <3>1. ~Answered(transactions[id], elapsed)
      BY <1>8, <1>10 DEF writes, WritesAnswered
    <3>2. transactions'[id].outcome # "Done"
      BY <3>1, <1>8 DEF Serviced, Transactions
    <3> QED
      BY <3>2, <1>8 DEF CheckedOutcome
  <2>3. ~IsDone(slave, output) /\ ~IsDone(slave, output)'
    BY <2>2, <1>6 DEF IsDone, id, CheckedOutcome
  <2> QED
    BY <2>1, <2>3, <1>6, <1>7, <1>10 DEF OutputsInv, OutputOK, Holds, table
<1>11. CASE writes # {}
  <2>1. writes = {id} /\ id # 0
    BY <1>9, <1>11
  <2>2. (CHOOSE last \in writes : \A other \in writes : other <= last) = id
    <3>1. id \in Nat
      BY <2>1, <1>8 DEF TypeOK, BusTypeOK, TransactionIds
    <3> QED
      BY <2>1, <3>1
  <2>3. registers'[slave][table] = Stored(table, transactions[id].value)
    BY <2>2, <1>2, <1>3, <1>11 DEF WrittenRegisters, writes
  <2>4. Answered(transactions[id], elapsed)
    BY <2>1 DEF writes, WritesAnswered
  <2>5. transactions'[id].outcome = "Done"
    BY <2>1, <2>4, <1>8 DEF Serviced, Transactions
  <2>6. IsDone(slave, output)'
    BY <2>1, <2>5, <1>6, <1>8 DEF IsDone, CheckedOutcome, id
  <2> QED
    BY <2>1, <2>3, <2>6, <1>6, <1>8 DEF OutputOK, Holds, table
<1> QED
  BY <1>10, <1>11

\* A call for one user of the bus leaves alone what the driver knows of every other
\* user's transaction (SimulatedForeignBus.cpp:105, 197).
LEMMA CallLeavesOutcomes ==
  ASSUME IdsSuffice, TypeOK, LiveInv, InPass, CallsDone < CallsPerPass,
         NEW slave \in Slaves, NEW user \in Users, UserCall(slave, user),
         NEW other \in Slaves, NEW otherUser \in Users, other # slave \/ otherUser # user,
         NEW id, id = TransactionOf(other, otherUser), id # 0
  PROVE  CheckedOutcome(id)' = CheckedOutcome(id)
<1> DEFINE mine == TransactionOf(slave, user)
           erased == IF mine # 0 /\ CheckedOutcome(mine) # "Pending" THEN {mine} ELSE {}
           kept == [live \in DOMAIN transactions \ erased |-> transactions[live]]
<1>1. nextTransactionId \notin DOMAIN transactions
  BY NextIdIsFree
<1>2. id \in DOMAIN transactions /\ id # nextTransactionId
  BY <1>1 DEF LiveInv, OwnedTransactions
<1>3. id # mine
  BY OneOwner DEF LiveInv
<1>4. id \in DOMAIN kept /\ kept[id] = transactions[id]
  BY <1>2, <1>3
<1>5. \/ DOMAIN transactions' = DOMAIN kept /\ transactions'[id] = kept[id]
      \/ \E request \in Transactions : transactions' = Started(kept, nextTransactionId, request)
  BY <1>4 DEF UserCall
<1> HIDE DEF kept
<1>6. id \in DOMAIN transactions' /\ transactions'[id] = transactions[id]
  BY <1>2, <1>4, <1>5 DEF Started
<1>7. id' = id
  OBVIOUS
<1> QED
  BY <1>2, <1>6 DEF CheckedOutcome

\* A poll writes nothing; the one that declares the slave offline distrusts what was
\* written to it (main.cpp:399).
LEMMA PollKeepsOutputs ==
  ASSUME IdsSuffice, TypeOK, LiveInv, OutputsInv, ServicePoll
  PROVE  OutputsInv'
<1> SUFFICES ASSUME NEW slave \in Slaves, NEW output \in Outputs
             PROVE  OutputOK(slave, output)'
  BY DEF OutputsInv
<1>1. GatewayTypeOK(TransactionIds) /\ unit \in Slaves /\ CallsPerPass \in Nat
  BY SlaveCountAssumption DEF TypeOK, CallsPerPass
<1>2. UserCall(unit, "poll")
  BY <1>1, PollIsUserCall
<1>3. InPass /\ CallsDone < CallsPerPass
  BY <1>1, CallsInOrder, CallsNumbered DEF ServicePoll, Tables
<1>4. "poll" \in Users /\ output \in Users /\ output # "poll"
      /\ TransactionOf(slave, output) = link[slave][output].transactionId
  BY DEF Users, Outputs, TransactionOf
<1>5. link[slave][output].transactionId # 0 =>
        CheckedOutcome(link[slave][output].transactionId)'
          = CheckedOutcome(link[slave][output].transactionId)
  <2>1. link[slave][output].transactionId' = link[slave][output].transactionId
    BY <1>2, <1>4 DEF UserCall, TransactionOf
  <2>2. \A id : id = TransactionOf(slave, output) /\ id # 0
                  => CheckedOutcome(id)' = CheckedOutcome(id)
    BY <1>1, <1>2, <1>3, <1>4, CallLeavesOutcomes
  <2> QED
    BY <1>4, <2>1, <2>2 DEF CheckedOutcome
<1>6. /\ UNCHANGED link \/ SlaveWentOffline(unit)
      /\ registers' = registers /\ overridden' = overridden
  BY DEF ServicePoll, StartPoll, PollStarts, WaitForPoll, PollWaits, FinishPoll, PollFinishes,
         PollAnswered, PollFailed, SlaveCameBack, busVars, deviceVars, gatewayVars
<1>7. /\ link'[slave][output].transactionId = link[slave][output].transactionId
      /\ link'[slave][output].inFlightValue = link[slave][output].inFlightValue
      /\ link'[slave][output].lastWrittenValue = link[slave][output].lastWrittenValue
      /\ link'[slave][output].written => link[slave][output].written
  <2>1. CASE UNCHANGED link
    BY <2>1
  <2>2. CASE SlaveWentOffline(unit)
    <3>1. link \in [Slaves -> [Outputs -> Links(TransactionIds)]]
      BY <1>1 DEF GatewayTypeOK
    <3>2. link'[slave][output] = link[slave][output]
          \/ link'[slave][output] = [link[slave][output] EXCEPT !.written = FALSE]
      BY <1>1, <2>2, <3>1 DEF SlaveWentOffline, Forgotten
    <3>3. link[slave][output] \in Links(TransactionIds)
      BY <3>1
    <3> QED
      BY <3>2, <3>3 DEF Links
  <2> QED
    BY <1>6, <2>1, <2>2
<1>8. OutputOK(slave, output)
  BY DEF OutputsInv
<1> QED
  BY <1>5, <1>6, <1>7, <1>8, OutputAlone

\* The first half of the write-through: what it leaves in `written` is in the device
\* (main.cpp:437).
LEMMA CheckTellsTheTruth ==
  ASSUME TypeOK, NEW slave \in Slaves, NEW output \in Outputs, OutputOK(slave, output),
         NEW outcome, ~overridden[slave][output],
         link[slave][output].transactionId # 0 =>
           outcome = CheckedOutcome(link[slave][output].transactionId)
  PROVE  LET checked == Rechecked(slave, output, outcome)
         IN /\ checked \in Links(TransactionIds)
            /\ checked.transactionId = 0
            /\ checked.written => Holds(slave, output, checked.lastWrittenValue)
<1> DEFINE before == link[slave][output]
           checked == Rechecked(slave, output, outcome)
<1>1. before \in Links(TransactionIds)
  BY DEF TypeOK, GatewayTypeOK
<1>2. CASE before.transactionId = 0
  BY <1>1, <1>2 DEF Rechecked, Links, OutputOK, IsDone
<1>3. CASE before.transactionId # 0 /\ outcome = "Done"
  BY <1>1, <1>3 DEF Rechecked, Finished, Links, OutputOK, IsDone
<1>4. CASE before.transactionId # 0 /\ outcome # "Done"
  <2>1. POLL_PERIOD[slave] \in Nat
    BY PeriodAssumption
  <2> QED
    BY <1>1, <1>4, <2>1 DEF Rechecked, Finished, Links, OutputOK, IsDone
<1> QED
  BY <1>2, <1>3, <1>4

\* The write-through of an output: what it starts is not answered yet, and what it
\* finishes it keeps only if it was Done (main.cpp:430).
LEMMA WriteKeepsItsOutput ==
  ASSUME TypeOK, NEW slave \in Slaves, NEW output \in Outputs, OutputOK(slave, output),
         nextTransactionId \notin DOMAIN transactions,
         WriteOut(slave, output), overridden' = overridden
  PROVE  OutputOK(slave, output)'
<1> SUFFICES ASSUME ~overridden[slave][output] PROVE OutputOK(slave, output)'
  BY DEF OutputOK
<1> DEFINE before == link[slave][output]
           id == before.transactionId
           outcome == CheckedOutcome(id)
           live == IF id = 0 THEN transactions ELSE Checked(id)
           checked == Rechecked(slave, output, outcome)
           winning == Winning(slave, output)
           waits == WriteWaits(slave, output, outcome)
           starts == ~waits /\ MustWrite(slave, output, checked)
           request == Request(slave, TableOf(output), TRUE, ToRegister(output, winning))
<1>1. link \in [Slaves -> [Outputs -> Links(TransactionIds)]]
  BY DEF TypeOK, GatewayTypeOK
<1>2. /\ checked \in Links(TransactionIds)
      /\ checked.transactionId = 0
      /\ checked.written => Holds(slave, output, checked.lastWrittenValue)
  BY CheckTellsTheTruth
<1>3. /\ link'[slave][output] =
           IF waits THEN before
           ELSE IF MustWrite(slave, output, checked)
             THEN [checked EXCEPT !.transactionId = nextTransactionId, !.inFlightValue = winning]
           ELSE checked
      /\ transactions' = IF starts THEN Started(live, nextTransactionId, request) ELSE live
      /\ registers' = registers
  BY <1>1 DEF WriteOut, WriteThrough, deviceVars
<1>4. CASE waits
  <2>1. id # 0 /\ outcome = "Pending" /\ transactions' = transactions
    BY <1>3, <1>4 DEF WriteWaits, Checked
  <2>2. link'[slave][output] = before
    BY <1>3, <1>4
  <2>3. CheckedOutcome(id)' = outcome
    BY <2>1, <2>2 DEF CheckedOutcome
  <2> QED
    BY <1>3, <2>1, <2>2, <2>3 DEF OutputOK, IsDone, Holds
<1> HIDE DEF checked, waits, request, live
<1>5. CASE starts
  <2>1. /\ link'[slave][output].transactionId = nextTransactionId
        /\ link'[slave][output].written = checked.written
        /\ link'[slave][output].lastWrittenValue = checked.lastWrittenValue
    BY <1>2, <1>3, <1>5 DEF Links
  <2>2. nextTransactionId \in DOMAIN transactions'
        /\ transactions'[nextTransactionId] = request
    BY <1>3, <1>5 DEF Started
  <2>3. request.outcome = "Pending"
    BY DEF request, Request
  <2>4. ~IsDone(slave, output)'
    BY <2>1, <2>2, <2>3 DEF IsDone, CheckedOutcome
  <2> QED
    BY <1>2, <1>3, <2>1, <2>4 DEF OutputOK, Holds
<1>6. CASE ~waits /\ ~starts
  <2>1. link'[slave][output] = checked
    BY <1>3, <1>6
  <2> QED
    BY <1>2, <1>3, <2>1 DEF OutputOK, IsDone, Holds
<1> QED
  BY <1>4, <1>5, <1>6

\* The write-through of one output leaves every other output alone.
LEMMA WriteKeepsOutputs ==
  ASSUME IdsSuffice, TypeOK, LiveInv, OutputsInv, InPass, CallsDone < CallsPerPass,
         NEW slave \in Slaves, NEW output \in Outputs,
         WriteOut(slave, output), overridden' = overridden
  PROVE  OutputsInv'
<1> SUFFICES ASSUME NEW other \in Slaves, NEW otherOutput \in Outputs
             PROVE  OutputOK(other, otherOutput)'
  BY DEF OutputsInv
<1>1. OutputOK(other, otherOutput)
  BY DEF OutputsInv
<1>2. CASE other = slave /\ otherOutput = output
  BY <1>1, <1>2, NextIdIsFree, WriteKeepsItsOutput
<1>3. CASE other # slave \/ otherOutput # output
  <2>1. output \in Users /\ otherOutput \in Users
        /\ TransactionOf(other, otherOutput) = link[other][otherOutput].transactionId
    BY DEF Users, Outputs, TransactionOf
  <2>2. link \in [Slaves -> [Outputs -> Links(TransactionIds)]]
    BY DEF TypeOK, GatewayTypeOK
  <2>3. /\ link'[other][otherOutput] = link[other][otherOutput]
        /\ registers' = registers
    BY <1>3, <2>2 DEF WriteOut, WriteThrough, deviceVars
  <2>4. UserCall(slave, output)
    BY WriteIsUserCall
  <2>5. \A id : id = TransactionOf(other, otherOutput) /\ id # 0
                  => CheckedOutcome(id)' = CheckedOutcome(id)
    BY <1>3, <2>1, <2>4, CallLeavesOutcomes
  <2>6. link[other][otherOutput].transactionId # 0 =>
          CheckedOutcome(link[other][otherOutput].transactionId)'
            = CheckedOutcome(link[other][otherOutput].transactionId)
    BY <2>1, <2>3, <2>5 DEF CheckedOutcome
  <2> QED
    BY <1>1, <2>3, <2>6, OutputAlone
<1> QED
  BY <1>2, <1>3

\* What clients, the test control and the operator do: a point set at the device is
\* overridden, everything else leaves outputs and requests alone (main.cpp:755, 1018;
\* SimulationControl.cpp:115).
LEMMA OutsideKeepsOutputs ==
  ASSUME TypeOK, OutputsInv,
         ClientWrites \/ ClientRelinquishes \/ ControlIdle \/ ControlConnection \/ ControlSet
           \/ KeyIdle \/ KeyNudge \/ KeyToggle \/ KeyQuit \/ UNCHANGED vars
  PROVE  OutputsInv'
<1> SUFFICES ASSUME NEW slave \in Slaves, NEW output \in Outputs
             PROVE  OutputOK(slave, output)'
  BY DEF OutputsInv
<1>1. link' = link /\ transactions' = transactions
  BY DEF ClientWrites, WritePresentValue, ClientRelinquishes, RelinquishPresentValue,
         ControlIdle, ControlConnection, SetSlaveOnline, ControlSet, SetPoint, KeyIdle,
         KeyNudge, KeyToggle, KeyQuit, vars, gatewayVars, busVars
<1>2. registers \in [Slaves -> [Tables -> RegisterValues]]
      /\ overridden \in [Slaves -> [Outputs -> BOOLEAN]]
      /\ TableOf(output) \in Tables /\ TableOf(output) # "input"
  BY DEF TypeOK, BusTypeOK, TableOf, Tables
<1>3. \/ /\ registers'[slave][TableOf(output)] = registers[slave][TableOf(output)]
         /\ overridden[slave][output] => overridden'[slave][output]
      \/ overridden'[slave][output]
  <2>1. CASE ControlSet
    <3>1. PICK target \in ControlledSlaves, setting \in ControlSettings :
            /\ registers' = [registers EXCEPT ![target][setting.table] =
                               Stored(setting.table, setting.value)]
            /\ overridden' = Overrides(target, setting.table)
      BY <2>1 DEF ControlSet, SetPoint
    <3>2. target \in Slaves /\ setting.table \in Tables
      BY InputsAssumption
    <3>3. CASE slave = target /\ TableOf(output) = setting.table
      BY <1>2, <3>1, <3>2, <3>3 DEF Overrides
    <3>4. CASE ~(slave = target /\ TableOf(output) = setting.table)
      BY <1>2, <3>1, <3>2, <3>4 DEF Overrides
    <3> QED
      BY <3>3, <3>4
  <2>2. CASE KeyNudge
    <3>1. PICK value : registers' = [registers EXCEPT ![BOILER]["input"] = Stored("input", value)]
      BY <2>2 DEF KeyNudge, SetPoint
    <3>2. overridden' = overridden
      BY <2>2 DEF KeyNudge, historyVars
    <3> QED
      BY <1>2, <3>1, <3>2
  <2>3. CASE ~ControlSet /\ ~KeyNudge
    <3>1. registers' = registers /\ overridden' = overridden
      BY <2>3 DEF ClientWrites, ClientRelinquishes, ControlIdle, ControlConnection,
                  SetSlaveOnline, KeyIdle, KeyToggle, KeyQuit, vars, busVars, historyVars
    <3> QED
      BY <3>1
  <2> QED
    BY <2>1, <2>2, <2>3
<1>4. link[slave][output].transactionId # 0 =>
        CheckedOutcome(link[slave][output].transactionId)'
          = CheckedOutcome(link[slave][output].transactionId)
  BY <1>1 DEF CheckedOutcome
<1>5. OutputOK(slave, output)
  BY DEF OutputsInv
<1> QED
  BY <1>1, <1>3, <1>4, <1>5, OutputAlone

\* Each step of the loop keeps what the gateway believes of its outputs true.
LEMMA OutputsStep ==
  ASSUME IdsSuffice, AnswersInTime, TypeOK, LiveInv, OutputsInv, [Next]_vars
  PROVE  OutputsInv'
<1>1. CASE Pass
  BY <1>1, ServiceKeepsOutputs DEF Pass
<1>2. CASE ServicePoll
  BY <1>2, PollKeepsOutputs
<1>3. CASE ServiceSetpoint \/ ServiceEnable
  <2>1. unit \in Slaves /\ CallsPerPass \in Nat
    BY SlaveCountAssumption DEF TypeOK, CallsPerPass
  <2>2. InPass /\ CallsDone < CallsPerPass
    BY <1>3, <2>1, CallsInOrder, CallsNumbered DEF ServiceSetpoint, ServiceEnable, Tables
  <2>3. PICK output \in Outputs : WriteOut(unit, output)
    BY <1>3 DEF ServiceSetpoint, ServiceEnable, Outputs
  <2>4. overridden' = overridden
    BY <1>3 DEF ServiceSetpoint, ServiceEnable, historyVars
  <2> QED
    BY <2>1, <2>2, <2>3, <2>4, WriteKeepsOutputs
<1>4. CASE ~(Pass \/ ServicePoll \/ ServiceSetpoint \/ ServiceEnable)
  BY <1>4, OutsideKeepsOutputs DEF Next, Loop, Environment
<1> QED
  BY <1>1, <1>2, <1>3, <1>4

\* An output whose link is written and idle is in the device, unless it was changed
\* there since: for any number of slaves, any latencies and any order of commands,
\* cable faults, timeouts, retries and stalled passes (main.cpp:209, 437, 445).
THEOREM WrittenIsLanded ==
  ASSUME IdsSuffice, AnswersInTime
  PROVE  Spec => []WrittenMeansLanded
<1>1. Init => LiveInv /\ OutputsInv
  BY InitLive, NothingWritten
<1>2. TypeOK /\ LiveInv /\ OutputsInv /\ [Next]_vars => LiveInv' /\ OutputsInv'
  BY LiveStep, OutputsStep
<1>3. OutputsInv => WrittenMeansLanded
  BY DEF OutputsInv, OutputOK, IsDone, Holds, WrittenMeansLanded
<1> QED
  BY <1>1, <1>2, <1>3, TypeCorrect, PTL DEF Spec

----------------------------------------------------------------------------
(* Readings. *)

\* A read that is Done and not fetched yet holds what its sensor still measures.
ReadingsInv ==
  \A id \in DOMAIN transactions :
    LET transaction == transactions[id]
    IN transaction.outcome = "Done" /\ ~transaction.isWrite =>
         transaction.value = registers[transaction.unit]["input"]

\* A register is one number with a sign, and that number is congruent to it (main.cpp:417).
LEMMA SignedRoundTrip ==
  ASSUME NEW register \in RegisterValues
  PROVE  /\ Signed(register) % REGISTER_VALUES = register
         /\ -(REGISTER_VALUES \div 2) <= Signed(register)
         /\ Signed(register) < REGISTER_VALUES \div 2
<1>1. REGISTER_VALUES \div 2 = 32768
  BY SMT DEF REGISTER_VALUES
<1>2. register \in Int /\ 0 <= register /\ register < 65536 /\ REGISTER_VALUES = 65536
  <2>1. REGISTER_VALUES \in Nat
    BY DEF REGISTER_VALUES
  <2>2. register \in Int /\ 0 <= register /\ register < REGISTER_VALUES
    BY <2>1 DEF RegisterValues
  <2>3. REGISTER_VALUES = 65536
    BY DEF REGISTER_VALUES
  <2> QED
    BY <2>2, <2>3
<1>3. CASE register < 32768
  <2>1. Signed(register) = register
    BY <1>1, <1>2, <1>3, SMT DEF Signed
  <2> QED
    BY <1>1, <1>2, <1>3, <2>1, SMT
<1>4. CASE register >= 32768
  <2>1. Signed(register) = register - 65536
    BY <1>1, <1>2, <1>4, SMT DEF Signed
  <2>2. (register - 65536) % 65536 = register
    BY <1>2, SMT
  <2> QED
    BY <1>1, <1>2, <1>4, <2>1, <2>2, SMT
<1> QED
  BY <1>2, <1>3, <1>4, SMT

\* A Service answers reads with what the sensors measure once they have drifted
\* (SimulatedForeignBus.cpp:141, 166).
LEMMA ServiceReads ==
  ASSUME TypeOK, LiveInv, NEW elapsed \in 1 .. MAX_STEP, ServiceBus(elapsed)
  PROVE  ReadingsInv'
<1> DEFINE driftElapsed == IF driftAge = Unset THEN 0 ELSE driftAge + elapsed
           answers == DriftedRegisters(driftElapsed >= DRIFT_STEP)
<1>1. /\ registers' = WrittenRegisters(answers, elapsed)
      /\ transactions' = [id \in DOMAIN transactions |->
                            Serviced(transactions[id], elapsed, answers)]
  BY DEF ServiceBus, BusService
<1> HIDE DEF answers
<1>2. \A slave \in Slaves : registers'[slave]["input"] = answers[slave]["input"]
  BY <1>1, OneWriteAnswered DEF WrittenRegisters, Tables
<1> SUFFICES ASSUME NEW id \in DOMAIN transactions,
                    transactions'[id].outcome = "Done", ~transactions'[id].isWrite
             PROVE  transactions'[id].value = registers'[transactions'[id].unit]["input"]
  BY <1>1 DEF ReadingsInv
<1> DEFINE transaction == transactions[id]
<1>3. transaction \in Transactions /\ transaction.outcome = "Pending"
      /\ transactions'[id] = Serviced(transaction, elapsed, answers)
  BY <1>1, AllPending DEF TypeOK, BusTypeOK, ServiceBus, InPass
<1> HIDE DEF transaction
<1>4. transactions'[id].unit = transaction.unit /\ ~transaction.isWrite
      /\ transaction.unit \in Slaves
  BY <1>3, ServicedTells DEF Transactions
<1>5. transaction.table = "input"
  BY <1>4, ReadsAreOfSensors DEF transaction
<1>6. Answered(transaction, elapsed)
  BY <1>3 DEF Serviced, Transactions
<1>7. transactions'[id].value = answers[transaction.unit]["input"]
  BY <1>3, <1>4, <1>5, <1>6 DEF Serviced, Transactions
<1> QED
  BY <1>2, <1>4, <1>7

\* Within a pass no reading changes, nor any sensor; outside it nothing waits to be
\* fetched (main.cpp:400, 466).
LEMMA ReadingsStep ==
  ASSUME TypeOK, LiveInv, ReadingsInv, [Next]_vars
  PROVE  ReadingsInv'
<1>1. CASE Pass
  BY <1>1, ServiceReads DEF Pass
<1>2. CASE ServicePoll \/ ServiceSetpoint \/ ServiceEnable
  <2>1. PICK slave \in Slaves : slave = unit
    BY DEF TypeOK
  <2>2. PICK user \in Users : UserCall(slave, user)
    BY <1>2, <2>1, LoopCall
  <2>3. registers' = registers
    BY <1>2 DEF ServicePoll, StartPoll, WaitForPoll, FinishPoll, ServiceSetpoint, ServiceEnable,
                WriteOut, deviceVars, busVars
  <2>4. ASSUME NEW id \in DOMAIN transactions', transactions'[id].outcome = "Done"
        PROVE  id \in DOMAIN transactions /\ transactions'[id] = transactions[id]
    BY <2>2, <2>4 DEF UserCall, Started
  <2> QED
    BY <2>3, <2>4 DEF ReadingsInv
<1>3. CASE UNCHANGED vars
  BY <1>3 DEF vars, ReadingsInv
<1>4. CASE ClientWrites \/ ClientRelinquishes \/ ControlIdle \/ ControlConnection \/ ControlSet
             \/ KeyIdle \/ KeyNudge \/ KeyToggle \/ KeyQuit
  <2>1. ~InPass /\ transactions' = transactions
    BY <1>4 DEF ClientWrites, ClientRelinquishes, ControlIdle, ControlConnection, ControlSet,
                KeyIdle, KeyNudge, KeyToggle, KeyQuit, SetSlaveOnline, SetPoint, busVars, InPass
  <2>2. \A id \in DOMAIN transactions : transactions[id].outcome = "Pending"
    BY <2>1, AllPending
  <2> QED
    BY <2>1, <2>2 DEF ReadingsInv
<1> QED
  BY <1>1, <1>2, <1>3, <1>4 DEF Next, Loop, Environment

\* A reading that enters the cache is the 16-bit number with a sign that the slave's own
\* register stands for in that very pass, whatever the drift, the stalls and the order of
\* the other requests (main.cpp:417).
THEOREM CachedIsRead ==
  ASSUME IdsSuffice, AnswersInTime
  PROVE  Spec => CachedReading
<1> DEFINE Read == \A slave \in Slaves :
             measuredTemperature'[slave] # measuredTemperature[slave] =>
               /\ measuredTemperature'[slave] % REGISTER_VALUES = registers[slave]["input"]
               /\ -(REGISTER_VALUES \div 2) <= measuredTemperature'[slave]
               /\ measuredTemperature'[slave] < REGISTER_VALUES \div 2
<1>1. Init => LiveInv /\ ReadingsInv
  BY InitLive DEF Init, BusInit, ReadingsInv
<1>2. TypeOK /\ LiveInv /\ ReadingsInv /\ [Next]_vars => LiveInv' /\ ReadingsInv'
  BY LiveStep, ReadingsStep
<1>3. TypeOK /\ LiveInv /\ ReadingsInv /\ [Next]_vars => [Read]_vars
  <2> SUFFICES ASSUME TypeOK, LiveInv, ReadingsInv, Next, NEW slave \in Slaves,
                      measuredTemperature'[slave] # measuredTemperature[slave]
               PROVE  /\ measuredTemperature'[slave] % REGISTER_VALUES
                           = registers[slave]["input"]
                      /\ -(REGISTER_VALUES \div 2) <= measuredTemperature'[slave]
                      /\ measuredTemperature'[slave] < REGISTER_VALUES \div 2
    OBVIOUS
  <2>1. CASE FinishPoll(unit) /\ ServicePoll
    <3> DEFINE id == pollTransactionId[unit]
               outcome == CheckedOutcome(id)
               register == transactions[id].value
    <3>1. unit \in Slaves /\ measuredTemperature \in [Slaves -> Int]
      BY DEF TypeOK, GatewayTypeOK
    <3>2. /\ id # 0
          /\ outcome # "Done" => measuredTemperature' = measuredTemperature
          /\ outcome = "Done" =>
               measuredTemperature' = [measuredTemperature EXCEPT ![unit] = Signed(register)]
      BY <2>1 DEF FinishPoll, PollFinishes, PollAnswered, PollFailed
    <3>3. outcome = "Done" /\ slave = unit
          /\ measuredTemperature'[slave] = Signed(register)
      BY <3>1, <3>2
    <3>4. id \in DOMAIN transactions /\ transactions[id].unit = unit /\ ~transactions[id].isWrite
      BY <3>1, <3>2 DEF LiveInv, OwnedTransactions, TransactionOf, Users, RequestedBy
    <3>5. register = registers[slave]["input"]
      BY <3>3, <3>4 DEF ReadingsInv, CheckedOutcome
    <3>6. register \in RegisterValues
      BY <3>4 DEF TypeOK, BusTypeOK, Transactions
    <3> HIDE DEF register
    <3> QED
      BY <3>3, <3>5, <3>6, SignedRoundTrip
  <2>2. CASE ~(FinishPoll(unit) /\ ServicePoll)
    <3>1. measuredTemperature' = measuredTemperature
      BY <2>2 DEF Next, Loop, Environment, Pass, ServiceBus, GatewayTimePasses, ServicePoll,
                  StartPoll, PollStarts, WaitForPoll, PollWaits, ServiceSetpoint,
                  ServiceEnable, WriteOut, WriteThrough, ClientWrites, WritePresentValue,
                  ClientRelinquishes, RelinquishPresentValue, ControlIdle, ControlConnection,
                  ControlSet, KeyIdle, KeyNudge, KeyToggle, KeyQuit, gatewayVars
    <3> QED
      BY <3>1
  <2> QED
    BY <2>1, <2>2
<1> QED
  BY <1>1, <1>2, <1>3, TypeCorrect, PTL DEF Spec, CachedReading

----------------------------------------------------------------------------
(* Virtual devices. *)

\* Both switches of a virtual device follow one flag while the stack obeys
\* (main.cpp:919).
LEMMA SwitchesFollow ==
  ASSUME TypeOK, DiscoverableWhileOnline, MODE = "vn", SetServiceOutcomes = {TRUE},
         NEW slave \in Slaves, NEW flag \in BOOLEAN,
         online' = [online EXCEPT ![slave] = flag],
         SetVirtualDeviceDiscoverable(slave, flag)
  PROVE  DiscoverableWhileOnline'
<1>1. /\ online \in [Slaves -> BOOLEAN]
      /\ discoverable \in [Slaves -> [DiscoveryServices -> BOOLEAN]]
  BY DEF TypeOK, GatewayTypeOK
<1>2. discoverable' = [discoverable EXCEPT ![slave] =
                         Switched(discoverable[slave], TRUE, TRUE, flag)]
  BY DEF SetVirtualDeviceDiscoverable
<1>3. ASSUME NEW other \in Slaves, NEW service \in DiscoveryServices
      PROVE  discoverable'[other][service] = online'[other]
  <2>1. CASE other = slave
    BY <1>1, <1>2, <2>1 DEF Switched
  <2>2. CASE other # slave
    <3>1. discoverable'[other] = discoverable[other] /\ online'[other] = online[other]
      BY <1>1, <1>2, <2>2
    <3> QED
      BY <3>1 DEF DiscoverableWhileOnline
  <2> QED
    BY <2>1, <2>2
<1> QED
  BY <1>3 DEF DiscoverableWhileOnline

\* In --mode vn a virtual device is discoverable exactly while its slave is believed
\* online, as long as the stack obeys, whatever the order of faults (main.cpp:919).
THEOREM VirtualDevicesFollowTheirSlaves == Spec => []DiscoverableWhileOnline
<1>1. Init => DiscoverableWhileOnline
  BY DEF Init, GatewayInit, DiscoverableWhileOnline
<1>2. TypeOK /\ DiscoverableWhileOnline /\ [Next]_vars => DiscoverableWhileOnline'
  <2> SUFFICES ASSUME TypeOK, DiscoverableWhileOnline, [Next]_vars,
                      MODE = "vn", SetServiceOutcomes = {TRUE}
               PROVE  DiscoverableWhileOnline'
    BY DEF DiscoverableWhileOnline
  <2>1. CASE ServicePoll
    <3>1. unit \in Slaves
      BY DEF TypeOK
    <3>2. \/ UNCHANGED <<online, discoverable>>
          \/ SlaveCameBack(unit)
          \/ SlaveWentOffline(unit)
      BY <2>1 DEF ServicePoll, StartPoll, PollStarts, WaitForPoll, PollWaits, FinishPoll,
                  PollFinishes, PollAnswered, PollFailed, gatewayVars
    <3>3. CASE UNCHANGED <<online, discoverable>>
      BY <3>3 DEF DiscoverableWhileOnline
    <3> QED
      BY <3>1, <3>2, <3>3, SwitchesFollow DEF SlaveCameBack, SlaveWentOffline
  <2>2. CASE ~ServicePoll
    <3>1. UNCHANGED <<online, discoverable>>
      BY <2>2 DEF Next, Loop, Environment, Pass, ServiceBus, GatewayTimePasses,
                  ServiceSetpoint, ServiceEnable, WriteOut, WriteThrough, ClientWrites,
                  WritePresentValue, ClientRelinquishes, RelinquishPresentValue, ControlIdle,
                  ControlConnection, ControlSet, KeyIdle, KeyNudge, KeyToggle, KeyQuit,
                  gatewayVars, vars
    <3> QED
      BY <3>1 DEF DiscoverableWhileOnline
  <2> QED
    BY <2>1, <2>2
<1> QED
  BY <1>1, <1>2, TypeCorrect, PTL DEF Spec
=============================================================================
