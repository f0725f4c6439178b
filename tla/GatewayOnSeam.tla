--------------------------- MODULE GatewayOnSeam ---------------------------
(***************************************************************************)
(* The gateway over any driver that keeps the seam: "main.cpp does not       *)
(* change" when simulation/SimulatedForeignBus.cpp is replaced              *)
(* (ForeignBus.h:24-28).  Such a driver may refuse to start a request, lose *)
(* frames of a slave that answers, and report a write as timed out although *)
(* it took effect.                                                         *)
(*                                                                         *)
(* The calls are those of ServiceForeignBus, in its order.  The devices'     *)
(* own changes are interleaved before a pass only: nothing but Service looks *)
(* at what they hold.                                                      *)
(***************************************************************************)
EXTENDS Gateway, ForeignBus

CONSTANTS
  REFUSES,         \* may the driver refuse to start a request?
  NOISY,           \* may a request to a slave that answers time out?
  LOSES_ANSWERS,   \* may a write take effect and time out?
  INITIAL_POINTS,  \* what the devices hold at start-up
  SensorReadings,  \* what the sensors may measure
  Commands,        \* what clients write: [slave, output, priority, value]
  Releases,        \* what they relinquish: [slave, output, priority]
  LocalChanges     \* what is set at a device: [slave, output, value]

ASSUME SwitchesAssumption == {REFUSES, NOISY, LOSES_ANSWERS} \subseteq BOOLEAN
ASSUME PointsAssumption ==
  /\ INITIAL_POINTS \in [Slaves -> [Tables -> RegisterValues]]
  /\ SensorReadings \subseteq RegisterValues
  /\ LocalChanges \subseteq [slave : Slaves, output : Outputs, value : RegisterValues]
ASSUME ClientsAssumption ==
  /\ Commands \subseteq [slave : Slaves, output : Outputs, priority : Nat, value : Int]
  /\ Releases \subseteq [slave : Slaves, output : Outputs, priority : Nat]

VARIABLES
  pc,         \* the call ServiceForeignBus makes next
  unit,       \* the slave it is at
  answering,  \* does the slave answer the driver?
  overridden  \* history: an output changed at the device, not written since

vars == <<priorityArray, link, measuredTemperature, online, consecutiveFailedPolls,
          nextPollIn, pollTransactionId, discoverable, requests, points,
          pc, unit, answering, overridden>>

TypeOK ==
  /\ GatewayTypeOK(Ids)
  /\ SeamTypeOK
  /\ pc \in {"Tick", "Poll", "setpoint", "enable"}
  /\ unit \in Slaves
  /\ answering \in [Slaves -> BOOLEAN]
  /\ overridden \in [Slaves -> [Outputs -> BOOLEAN]]

Init ==
  /\ GatewayInit
  /\ points = INITIAL_POINTS
  /\ SeamInit
  /\ pc = "Tick"
  /\ unit = 1
  /\ answering = [slave \in Slaves |-> TRUE]
  /\ overridden = [slave \in Slaves |-> [output \in Outputs |-> FALSE]]

----------------------------------------------------------------------------
(* Between two passes: clients, cables, people at the devices. *)

ClientWrites ==
  /\ pc = "Tick"
  /\ \E command \in Commands :
       WritePresentValue(command.slave, command.output, command.priority, command.value)
  /\ UNCHANGED <<requests, points, pc, unit, answering, overridden>>

ClientRelinquishes ==
  /\ pc = "Tick"
  /\ \E release \in Releases :
       RelinquishPresentValue(release.slave, release.output, release.priority)
  /\ UNCHANGED <<requests, points, pc, unit, answering, overridden>>

CableChanges ==
  /\ pc = "Tick"
  /\ \E slave \in Slaves : answering' = [answering EXCEPT ![slave] = ~@]
  /\ UNCHANGED <<gatewayVars, requests, points, pc, unit, overridden>>

\* During an outage with no write in flight the gateway will write over it anyway.
PointChanges ==
  /\ pc = "Tick"
  /\ DevicesChange
  /\ \E change \in LocalChanges :
       LET lnk == link[change.slave][change.output]
       IN /\ points' = [points EXCEPT ![change.slave][TableOf(change.output)] = change.value]
          /\ overridden' = [overridden EXCEPT ![change.slave][change.output] =
                              @ \/ online[change.slave] \/ lnk.written
                                \/ lnk.transactionId # NoId]
  /\ UNCHANGED <<gatewayVars, pc, unit, answering>>

----------------------------------------------------------------------------
(* ServiceForeignBus over the seam. *)

Possible(outcomes) ==
  \A id \in PendingIds :
    /\ outcomes[id] = "Done" => answering[requests[id].unit]
    /\ outcomes[id] = "Timeout" => NOISY \/ ~answering[requests[id].unit]

\* ForeignBus::Service(now), one tick after the previous pass.
ServiceBus ==
  /\ pc = "Tick"
  /\ pc' = "Poll"
  /\ \E outcomes \in Answers :
       /\ Possible(outcomes)
       /\ \E lost \in IF LOSES_ANSWERS THEN SUBSET MayBeLost(outcomes) ELSE {{}} :
            /\ \E readings \in [Slaves -> SensorReadings] : Service(outcomes, lost, readings)
            /\ overridden' = [slave \in Slaves |-> [output \in Outputs |->
                 /\ overridden[slave][output]
                 /\ \A id \in Effective(outcomes, lost) :
                      ~(requests[id].unit = slave /\ requests[id].table = TableOf(output))]]
  /\ GatewayTimePasses(1)
  /\ UNCHANGED <<unit, answering>>

\* What StartRead or StartWrite may answer.  Which free id it is matters to
\* nobody, the gateway only compares it with 0 and hands it back: the least one
\* stands for them all.
FreeIds(live) == Ids \ DOMAIN live
LeastFreeId(live) == {id \in FreeIds(live) : \A other \in FreeIds(live) : id <= other}
StartAnswers(live) == LeastFreeId(live) \cup (IF REFUSES THEN {NoId} ELSE {})

\* The requests once the driver has answered `id` to a start.
Begun(live, id, request) == IF id = NoId THEN live ELSE Asked(live, id, request)

StartPoll(slave, id) ==
  /\ PollStarts(slave, id)
  /\ requests' = Begun(requests, id, Asking(slave, "input", FALSE, 0))
  /\ UNCHANGED <<points, overridden>>

WaitForPoll(slave) ==
  /\ PollWaits(slave, OutcomeOf(pollTransactionId[slave]))
  /\ UNCHANGED <<requests, points, overridden>>

\* An outage declared with no write in flight makes the gateway write the output
\* again, whatever was changed at the device.
FinishPoll(slave) ==
  LET id == pollTransactionId[slave]
  IN /\ PollFinishes(slave, OutcomeOf(id), requests[id].value)
     /\ requests' = Fetched(id)
     /\ overridden' = [overridden EXCEPT ![slave] = [output \in Outputs |->
          /\ overridden[slave][output]
          /\ (online[slave] => online'[slave]) \/ link[slave][output].transactionId # NoId]]
     /\ UNCHANGED points

ServicePoll ==
  /\ pc = "Poll"
  /\ pc' = "setpoint"
  /\ \/ \E id \in StartAnswers(requests) : StartPoll(unit, id)
     \/ WaitForPoll(unit)
     \/ FinishPoll(unit)
  /\ UNCHANGED <<unit, answering>>

\* The id CheckTransaction is called with, if its request has finished.
FinishedWrite(slave, output) ==
  LET id == link[slave][output].transactionId
  IN IF id # NoId /\ OutcomeOf(id) # "Pending" THEN id ELSE NoId

WriteStarts(slave, output) ==
  LET outcome == OutcomeOf(link[slave][output].transactionId)
  IN /\ ~WriteWaits(slave, output, outcome)
     /\ MustWrite(slave, output, Rechecked(slave, output, outcome))

WriteOut(slave, output, id) ==
  LET live == Fetched(FinishedWrite(slave, output))
      request == Asking(slave, TableOf(output), TRUE,
                        ToRegister(output, Winning(slave, output)))
  IN /\ id \in IF WriteStarts(slave, output) THEN StartAnswers(live) ELSE {NoId}
     /\ WriteThrough(slave, output, OutcomeOf(link[slave][output].transactionId), id)
     /\ requests' = Begun(live, id, request)
     /\ UNCHANGED <<points, overridden>>

\* One output's write-through, then on to the next call.
ServiceWriteThrough(output, id) ==
  /\ pc = output
  /\ WriteOut(unit, output, id)
  /\ IF output = "setpoint" THEN pc' = "enable" /\ UNCHANGED unit
     ELSE IF unit = SLAVE_COUNT THEN pc' = "Tick" /\ unit' = 1
     ELSE pc' = "Poll" /\ unit' = unit + 1
  /\ UNCHANGED answering

Loop ==
  \/ ServiceBus
  \/ ServicePoll
  \/ \E output \in Outputs, id \in Ids \cup {NoId} : ServiceWriteThrough(output, id)

Environment == ClientWrites \/ ClientRelinquishes \/ CableChanges \/ PointChanges

Next == Loop \/ Environment

Spec == Init /\ [][Next]_vars

\* The program keeps calling; a driver finishes every request (ForeignBus.h:32,
\* "The answer either arrives ... or the transaction times out"), and does not
\* for ever refuse to start one.
Finishes(id) == ServiceBus /\ id \in PendingIds /\ requests'[id].outcome # "Pending"
PollBegins(slave) == ServicePoll /\ unit = slave /\ \E id \in Ids : StartPoll(slave, id)
WriteBegins(slave, output) ==
  unit = slave /\ \E id \in Ids : ServiceWriteThrough(output, id)

FairSpec ==
  /\ Spec
  /\ WF_vars(Loop)
  /\ \A id \in Ids : SF_vars(Finishes(id))
  /\ \A slave \in Slaves : SF_vars(PollBegins(slave))
  /\ \A slave \in Slaves, output \in Outputs : SF_vars(WriteBegins(slave, output))

----------------------------------------------------------------------------

\* Whatever the driver refuses or loses, the gateway keeps its side of the seam:
\* it fetches only live ids, each once, and has at most one write of a point in
\* flight (ForeignBus.h:74 "must not be checked again"; main.cpp:406, 445, 460).
KeepsTheSeam == SeamSpec

InFlight(slave) ==
  {pollTransactionId[slave]} \cup {link[slave][output].transactionId : output \in Outputs}

\* A refused start leaves nothing behind, and a started one is always somebody's:
\* the requests of the driver are exactly those the gateway waits for, with a
\* refusal (id 0) among them or not (ForeignBus.h:68).
NothingForgotten ==
  DOMAIN requests = (UNION {InFlight(slave) : slave \in Slaves}) \ {NoId}

\* "false = the slave may not hold the winning value yet" (main.cpp:207): an
\* output that is written and idle is in the device, unless somebody changed it
\* there since.
WrittenMeansHeld ==
  \A slave \in Slaves, output \in Outputs :
    LET lnk == link[slave][output]
    IN lnk.written /\ lnk.transactionId = NoId /\ ~overridden[slave][output] =>
         points[slave][TableOf(output)] =
           Stored(TableOf(output), ToRegister(output, lnk.lastWrittenValue))

\* A slave that has stopped answering is reported even if the driver keeps
\* refusing polls in between: a refused poll is not counted as failed, only put
\* off by a period (main.cpp:405, 424).
OutagesReported ==
  \A slave \in Slaves : <>[]~answering[slave] => <>[]~online[slave]

SlavesComeBack ==
  \A slave \in Slaves : <>[]answering[slave] => <>[]online[slave]

CommandedValues(slave, output) ==
  {RELINQUISH_DEFAULT[slave][output]}
    \cup {command.value : command \in {c \in Commands : c.slave = slave /\ c.output = output}}

\* The last command lands over any driver that does not lose the answers of
\* writes, also after a device lost its values in an outage the gateway noticed
\* (main.cpp:380 "write it again once the slave is back", 755).
WritesLand ==
  \A slave \in Slaves, output \in Outputs :
    \A value \in CommandedValues(slave, output) :
      <>[](/\ answering[slave]
           /\ Winning(slave, output) = value
           /\ ~overridden[slave][output])
        => <>[](points[slave][TableOf(output)] = Stored(TableOf(output), ToRegister(output, value)))
=============================================================================
