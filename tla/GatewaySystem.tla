--------------------------- MODULE GatewaySystem ---------------------------
(***************************************************************************)
(* The program: main()'s loop over the gateway and the simulated bus.       *)
(*                                                                         *)
(* One pass of the loop is BACnetStack_Tick (any number of client writes),  *)
(* ServiceForeignBus (the bus, then for each slave its poll and its two     *)
(* write-throughs), at most one command of the test control and at most     *)
(* one key.  pc says which call is next, unit which slave it is for.        *)
(*                                                                         *)
(* A pass takes at least one tick (usleep) and at most MAX_STEP: the bound  *)
(* on how long a pass can stall.                                           *)
(***************************************************************************)
EXTENDS Gateway, SimulatedForeignBus

CONSTANTS
  MAX_STEP,           \* the longest time between two passes
  ClientCommands,     \* what clients write: [slave, output, priority, value]
  ClientReleases,     \* what they relinquish: [slave, output, priority]
  ControlSettings,    \* what the test control sets: [table, value] records
  ControlledSlaves,   \* the slaves the test control disconnects and reconnects
  Keys,               \* the keys the operator presses
  SensorRange,        \* bound: the readings the nudging keys stay within
  SILENCE_CAP         \* bound: where the history variable silence saturates

ASSUME StepAssumption == MAX_STEP \in Nat \ {0}
ASSUME InputsAssumption ==
  /\ ClientCommands \subseteq [slave : Slaves, output : Outputs, priority : Nat, value : Int]
  /\ ClientReleases \subseteq [slave : Slaves, output : Outputs, priority : Nat]
  /\ ControlSettings \subseteq [table : Tables, value : RegisterValues]
  /\ ControlledSlaves \subseteq Slaves
  /\ Keys \subseteq {"up", "down", "k", "r", "q"}
  /\ SensorRange \subseteq RegisterValues
  /\ SILENCE_CAP \in Nat

VARIABLES
  pc,           \* the call main() makes next
  unit,         \* the slave ServiceForeignBus is at
  silence,      \* history: time since a slave last answered a poll
  overridden    \* history: points set at the device, not by the gateway since

loopVars == <<pc, unit>>
historyVars == <<silence, overridden>>
vars == <<priorityArray, link, measuredTemperature, online, consecutiveFailedPolls,
          nextPollIn, pollTransactionId, discoverable, connected, registers, drifting,
          driftOffset, driftDirection, driftAge, transactions, nextTransactionId,
          pc, unit, silence, overridden>>

Calls == {"Tick", "Poll", "setpoint", "enable", "Control", "Key", "Stopped"}

TypeOK ==
  /\ GatewayTypeOK(TransactionIds)
  /\ BusTypeOK
  /\ pc \in Calls
  /\ unit \in Slaves
  /\ silence \in [Slaves -> 0 .. SILENCE_CAP]
  /\ overridden \in [Slaves -> [Outputs -> BOOLEAN]]

Init ==
  /\ GatewayInit
  /\ BusInit
  /\ pc = "Tick"
  /\ unit = 1
  /\ silence = [slave \in Slaves |-> 0]
  /\ overridden = [slave \in Slaves |-> [output \in Outputs |-> FALSE]]

----------------------------------------------------------------------------
(* BACnetStack_Tick: the clients' writes that arrived.                      *)

ClientWrites ==
  /\ pc = "Tick"
  /\ \E command \in ClientCommands :
       WritePresentValue(command.slave, command.output, command.priority, command.value)
  /\ UNCHANGED <<busVars, loopVars, historyVars>>

ClientRelinquishes ==
  /\ pc = "Tick"
  /\ \E release \in ClientReleases :
       RelinquishPresentValue(release.slave, release.output, release.priority)
  /\ UNCHANGED <<busVars, loopVars, historyVars>>

----------------------------------------------------------------------------
(* ServiceForeignBus. *)

\* now is read once for the pass, then ForeignBus::Service(now).
ServiceBus(elapsed) ==
  /\ pc = "Tick"
  /\ pc' = "Poll"
  /\ BusService(elapsed)
  /\ GatewayTimePasses(elapsed)
  /\ silence' = [slave \in Slaves |->
       IF silence[slave] + elapsed > SILENCE_CAP THEN SILENCE_CAP
                                                 ELSE silence[slave] + elapsed]
  /\ overridden' = [slave \in Slaves |-> [output \in Outputs |->
       /\ overridden[slave][output]
       /\ WritesAnswered(slave, TableOf(output), elapsed) = {}]]
  /\ UNCHANGED unit

\* StartRead of the sensor.
StartPoll(slave) ==
  /\ PollStarts(slave, nextTransactionId)
  /\ transactions' = Started(transactions, nextTransactionId,
                             Request(slave, "input", FALSE, 0))
  /\ nextTransactionId' = NextTransactionId(nextTransactionId)
  /\ UNCHANGED <<deviceVars, silence>>

WaitForPoll(slave) ==
  /\ PollWaits(slave, CheckedOutcome(pollTransactionId[slave]))
  /\ UNCHANGED <<busVars, silence>>

FinishPoll(slave) ==
  LET id == pollTransactionId[slave]
      outcome == CheckedOutcome(id)
  IN /\ PollFinishes(slave, outcome, transactions[id].value)
     /\ transactions' = Checked(id)
     /\ silence' = IF outcome = "Done" THEN [silence EXCEPT ![slave] = 0] ELSE silence
     /\ UNCHANGED <<deviceVars, nextTransactionId>>

ServicePoll ==
  /\ pc = "Poll"
  /\ pc' = "setpoint"
  /\ \/ StartPoll(unit)
     \/ WaitForPoll(unit)
     \/ FinishPoll(unit)
  /\ UNCHANGED <<unit, overridden>>

\* The whole of ServiceWriteThrough for one output: check, then maybe start.
WriteOut(slave, output) ==
  LET id == link[slave][output].transactionId
      outcome == CheckedOutcome(id)
      live == IF id = 0 THEN transactions ELSE Checked(id)
      starts == /\ ~WriteWaits(slave, output, outcome)
                /\ MustWrite(slave, output, Rechecked(slave, output, outcome))
      request == Request(slave, TableOf(output), TRUE,
                         ToRegister(output, Winning(slave, output)))
  IN /\ WriteThrough(slave, output, outcome, nextTransactionId)
     /\ transactions' = IF starts THEN Started(live, nextTransactionId, request) ELSE live
     /\ nextTransactionId' = IF starts THEN NextTransactionId(nextTransactionId)
                                       ELSE nextTransactionId
     /\ UNCHANGED deviceVars

ServiceSetpoint ==
  /\ pc = "setpoint"
  /\ pc' = "enable"
  /\ WriteOut(unit, "setpoint")
  /\ UNCHANGED <<unit, historyVars>>

\* The last call for a slave: on to the next one, or out of ServiceForeignBus.
ServiceEnable ==
  /\ pc = "enable"
  /\ WriteOut(unit, "enable")
  /\ IF unit = SLAVE_COUNT THEN pc' = "Control" /\ unit' = 1
                           ELSE pc' = "Poll" /\ unit' = unit + 1
  /\ UNCHANGED historyVars

----------------------------------------------------------------------------
(* SimulationControl::Service: no datagram, or one command. *)

ControlIdle ==
  /\ pc = "Control"
  /\ pc' = "Key"
  /\ UNCHANGED <<gatewayVars, busVars, unit, historyVars>>

\* offline <unit>, online <unit>
ControlConnection ==
  /\ pc = "Control"
  /\ pc' = "Key"
  /\ \E slave \in ControlledSlaves, flag \in BOOLEAN : SetSlaveOnline(slave, flag)
  /\ UNCHANGED <<gatewayVars, unit, historyVars>>

Overrides(slave, table) ==
  [overridden EXCEPT ![slave] =
     [output \in Outputs |-> overridden[slave][output] \/ TableOf(output) = table]]

\* set <unit> <table> <address> <value>
ControlSet ==
  /\ pc = "Control"
  /\ pc' = "Key"
  /\ \E slave \in ControlledSlaves, setting \in ControlSettings :
       /\ SetPoint(slave, setting.table, setting.value)
       /\ overridden' = Overrides(slave, setting.table)
  /\ UNCHANGED <<gatewayVars, unit, silence>>

----------------------------------------------------------------------------
(* PollKey and the switch on it. *)

BOILER == 1

\* No key, or one that changes none of this state: help, re-announce.
KeyIdle ==
  /\ pc = "Key"
  /\ pc' = "Tick"
  /\ UNCHANGED <<gatewayVars, busVars, unit, historyVars>>

\* NudgeSimulatedBoiler(+-1.1): eleven tenths of a degree.
KeyNudge ==
  /\ pc = "Key"
  /\ pc' = "Tick"
  /\ \E key \in Keys \cap {"up", "down"} :
       LET nudge == IF key = "up" THEN 11 ELSE -11
           value == (Signed(registers[BOILER]["input"]) + nudge) % REGISTER_VALUES
       IN value \in SensorRange /\ SetPoint(BOILER, "input", value)
  /\ UNCHANGED <<gatewayVars, unit, historyVars>>

\* The simulated peer toggle: the boiler's cable.
KeyToggle ==
  /\ pc = "Key"
  /\ "k" \in Keys
  /\ pc' = "Tick"
  /\ SetSlaveOnline(BOILER, ~connected[BOILER])
  /\ UNCHANGED <<gatewayVars, unit, historyVars>>

KeyQuit ==
  /\ pc = "Key"
  /\ "q" \in Keys
  /\ pc' = "Stopped"
  /\ UNCHANGED <<gatewayVars, busVars, unit, historyVars>>

----------------------------------------------------------------------------

Pass == \E elapsed \in 1 .. MAX_STEP : ServiceBus(elapsed)

Loop ==
  \/ Pass
  \/ ServicePoll
  \/ ServiceSetpoint
  \/ ServiceEnable
  \/ ControlIdle
  \/ KeyIdle

Environment ==
  \/ ClientWrites
  \/ ClientRelinquishes
  \/ ControlConnection
  \/ ControlSet
  \/ KeyNudge
  \/ KeyToggle
  \/ KeyQuit

Next == Loop \/ Environment

Spec == Init /\ [][Next]_vars

\* while (running): every call of the loop returns.  Clients, the test control
\* and the operator owe nothing.
FairSpec == Spec /\ WF_vars(Loop)

----------------------------------------------------------------------------
(* What the gateway promises of its two copies of the world.               *)

TransactionOf(slave, user) ==
  IF user = "poll" THEN pollTransactionId[slave] ELSE link[slave][user].transactionId

Users == {"poll"} \cup Outputs

\* The request a user of the bus has in flight, as it was started.
RequestedBy(slave, user, transaction) ==
  /\ transaction.unit = slave
  /\ IF user = "poll"
       THEN transaction.table = "input" /\ ~transaction.isWrite
       ELSE /\ transaction.table = TableOf(user)
            /\ transaction.isWrite
            /\ transaction.value = ToRegister(user, link[slave][user].inFlightValue)

\* Every id the gateway holds is the live transaction it started, no two
\* users hold the same one, and nothing is left in the driver that nobody
\* will check: ids survive the wrap of g_nextTransactionId, and neither a
\* finished nor a forgotten transaction stays behind (main.cpp:400, 431).
OwnedTransactions ==
  /\ \A slave \in Slaves, user \in Users : TransactionOf(slave, user) # 0 =>
       /\ TransactionOf(slave, user) \in DOMAIN transactions
       /\ RequestedBy(slave, user, transactions[TransactionOf(slave, user)])
  /\ \A id \in DOMAIN transactions : \E slave \in Slaves, user \in Users :
       TransactionOf(slave, user) = id

\* An output whose link is written and idle is in the device: the register
\* holds what the gateway last wrote, unless somebody changed it at the
\* device since (main.cpp:209, "written").
WrittenMeansLanded ==
  \A slave \in Slaves, output \in Outputs :
    LET lnk == link[slave][output]
    IN lnk.written /\ lnk.transactionId = 0 /\ ~overridden[slave][output] =>
         registers[slave][TableOf(output)] =
           Stored(TableOf(output), ToRegister(output, lnk.lastWrittenValue))

\* The longest a slave a client sees online can have been silent.  Its next
\* poll starts within a period of the last answer, each further one within a
\* period or once the one before has timed out, and the pass that finds the
\* last one timed out has not come yet; each wait can end a stalled pass late.
ToFirstPoll(slave) ==
  IF POLL_PERIOD[slave] >= 2 THEN POLL_PERIOD[slave] - 1 + MAX_STEP - 1 ELSE MAX_STEP

ToNextPoll(slave) ==
  IF POLL_PERIOD[slave] >= RESPONSE_TIMEOUT + MAX_STEP
    THEN POLL_PERIOD[slave] + MAX_STEP - 1
    ELSE RESPONSE_TIMEOUT + 2 * MAX_STEP - 1

SilenceBound(slave) ==
  ToFirstPoll(slave) + (OFFLINE_AFTER_FAILED_POLLS - 1) * ToNextPoll(slave)
    + RESPONSE_TIMEOUT - 1

\* No stale reading is served as healthy: whatever the order of cable faults,
\* polls and stalled passes, a slave a client sees with no fault has answered
\* a poll within SilenceBound (main.cpp:249, 424, 529; tests/gw_setup.py:42).
BoundedSilence ==
  pc = "Tick" => \A slave \in Slaves :
    online[slave] => silence[slave] <= SilenceBound(slave)

\* The gateway changes its mind only on evidence: it declares a slave offline
\* in a pass that finds it disconnected, and back in one that finds it
\* connected, however late the pass is (main.cpp:400, ServicePoll;
\* SimulatedForeignBus.cpp:157, the answer comes before the timeout).
BeliefFollowsTheWire ==
  [][\A slave \in Slaves : online'[slave] # online[slave] =>
       connected[slave] = online'[slave]]_vars

\* In --mode vn a virtual device is discoverable exactly while its slave is
\* believed online, as long as the stack obeys (main.cpp:919).
DiscoverableWhileOnline ==
  MODE = "vn" /\ SetServiceOutcomes = {TRUE} =>
    \A slave \in Slaves, service \in DiscoveryServices :
      discoverable[slave][service] = online[slave]

\* A reading enters the cache only from the slave's own register, in the pass
\* that read it: it is the number of 16 bits with a sign that the register
\* stands for (main.cpp:417).
CachedReading ==
  [][\A slave \in Slaves : measuredTemperature'[slave] # measuredTemperature[slave] =>
       /\ measuredTemperature'[slave] % REGISTER_VALUES = registers[slave]["input"]
       /\ -(REGISTER_VALUES \div 2) <= measuredTemperature'[slave]
       /\ measuredTemperature'[slave] < REGISTER_VALUES \div 2]_vars

\* "the current winning value is written again as soon as it is back"
\* (TUTORIAL.md:128): nothing holds an output's write back when its slave
\* answers again.
WrittenAgainAsSoonAsBack ==
  [][\A slave \in Slaves, output \in Outputs : ~online[slave] /\ online'[slave] =>
       LET lnk == link[slave][output]
       IN \/ lnk.retryIn = 0
          \/ lnk.transactionId # 0
          \/ lnk.written /\ lnk.lastWrittenValue = Winning(slave, output)]_vars

----------------------------------------------------------------------------
(* What must eventually happen. *)

CommandedValues(slave, output) ==
  {RELINQUISH_DEFAULT[slave][output]} \cup {command.value : command \in ClientCommands}

\* A write accepted at any time, offline slaves included, lands: once a slave
\* stays connected and an output's winning value stays the same, the device
\* ends up holding it, unless it was changed at the device (main.cpp:755,
\* README.md:64 "retried until they land").
WritesLand ==
  \A slave \in Slaves, output \in Outputs :
    \A value \in CommandedValues(slave, output) :
      <>[](/\ connected[slave]
           /\ Winning(slave, output) = value
           /\ ~overridden[slave][output]
           /\ pc # "Stopped")
        => <>[](registers[slave][TableOf(output)] =
                  Stored(TableOf(output), ToRegister(output, value)))

\* A slave that stays disconnected is reported, and one that stays connected
\* is shown healthy again (main.cpp:424, 419): the loop never wedges on a
\* transaction or a timer.
OutagesReported ==
  \A slave \in Slaves : <>[](~connected[slave] /\ pc # "Stopped") => <>[]~online[slave]

SlavesComeBack ==
  \A slave \in Slaves : <>[](connected[slave] /\ pc # "Stopped") => <>[]online[slave]
=============================================================================
