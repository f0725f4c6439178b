------------------------------ MODULE Gateway ------------------------------
(***************************************************************************)
(* What the gateway knows of each slave (main.cpp, struct GatewayedSlave)   *)
(* and the handlers that change it: the client's writes, the poll, the      *)
(* write-through of the two outputs and the switch between online and       *)
(* offline.                                                                *)
(*                                                                         *)
(* The handlers are stated over what the foreign bus driver answered (an    *)
(* id from StartRead or StartWrite, an outcome from CheckTransaction), so    *)
(* that they compose with any driver behind the seam ForeignBus.h.          *)
(*                                                                         *)
(* nextPollAt and retryAt are only compared with now: they are kept as the   *)
(* time left until they are reached.                                       *)
(***************************************************************************)
EXTENDS Commandable, RegisterMap

CONSTANTS
  MODE,                        \* "eo" or "vn": GatewayMode
  POLL_PERIOD,                 \* per slave
  OFFLINE_AFTER_FAILED_POLLS,  \* 2 in the code
  MAX_FAILED_POLLS,            \* the largest uint32_t
  RELINQUISH_DEFAULT,          \* per slave and output
  SetServiceOutcomes           \* what BACnetStack_SetServiceEnabled may return

DiscoveryServices == {"WHO_IS", "WHO_HAS"}

ASSUME ModeAssumption == MODE \in {"eo", "vn"}
ASSUME PeriodAssumption == POLL_PERIOD \in [Slaves -> Nat]
ASSUME FailedPollsAssumption ==
  /\ OFFLINE_AFTER_FAILED_POLLS \in Nat \ {0}
  /\ MAX_FAILED_POLLS \in Nat
  /\ OFFLINE_AFTER_FAILED_POLLS <= MAX_FAILED_POLLS
ASSUME DefaultsAssumption == RELINQUISH_DEFAULT \in [Slaves -> [Outputs -> Int]]
ASSUME SetServiceAssumption ==
  SetServiceOutcomes \subseteq BOOLEAN /\ SetServiceOutcomes # {}

VARIABLES
  priorityArray,          \* [slave][output]
  link,                   \* [slave][output]: struct WriteThrough
  measuredTemperature,    \* the cached reading, in register counts
  online,                 \* what the gateway BELIEVES
  consecutiveFailedPolls,
  nextPollIn,
  pollTransactionId,      \* 0 = no poll in flight
  discoverable            \* external: the stack's switches per virtual device

gatewayVars == <<priorityArray, link, measuredTemperature, online,
                 consecutiveFailedPolls, nextPollIn, pollTransactionId, discoverable>>

Links(ids) ==
  [written : BOOLEAN, lastWrittenValue : Int, transactionId : ids \cup {0},
   inFlightValue : Int, retryIn : Nat]

GatewayTypeOK(ids) ==
  /\ priorityArray \in [Slaves -> [Outputs -> PriorityArrays(Int)]]
  /\ link \in [Slaves -> [Outputs -> Links(ids)]]
  /\ \A slave \in Slaves, output \in Outputs :
       link[slave][output].retryIn <= POLL_PERIOD[slave]
  /\ measuredTemperature \in [Slaves -> Int]
  /\ online \in [Slaves -> BOOLEAN]
  /\ consecutiveFailedPolls \in [Slaves -> 0 .. MAX_FAILED_POLLS]
  /\ nextPollIn \in [Slaves -> Nat]
  /\ \A slave \in Slaves : nextPollIn[slave] <= POLL_PERIOD[slave]
  /\ pollTransactionId \in [Slaves -> ids \cup {0}]
  /\ discoverable \in [Slaves -> [DiscoveryServices -> BOOLEAN]]

UnwrittenLink ==
  [written |-> FALSE, lastWrittenValue |-> 0, transactionId |-> 0,
   inFlightValue |-> 0, retryIn |-> 0]

GatewayInit ==
  /\ priorityArray = [slave \in Slaves |-> [output \in Outputs |-> EmptyPriorityArray]]
  /\ link = [slave \in Slaves |-> [output \in Outputs |-> UnwrittenLink]]
  /\ measuredTemperature = [slave \in Slaves |-> 0]
  /\ online = [slave \in Slaves |-> TRUE]
  /\ consecutiveFailedPolls = [slave \in Slaves |-> 0]
  /\ nextPollIn = [slave \in Slaves |-> 0]
  /\ pollTransactionId = [slave \in Slaves |-> 0]
  /\ discoverable = [slave \in Slaves |-> [service \in DiscoveryServices |-> TRUE]]

Winning(slave, output) ==
  WinningValue(priorityArray[slave][output], RELINQUISH_DEFAULT[slave][output])

----------------------------------------------------------------------------
(* The client's writes: SetPropertyReal, SetPropertyEnumerated,             *)
(* SetPropertyNull.  A refused value changes nothing.                      *)

WritePresentValue(slave, output, priority, value) ==
  /\ Accepted(output, value)
  /\ priorityArray' = [priorityArray EXCEPT ![slave][output] =
                         CommandWrite(@, priority, value)]
  /\ UNCHANGED <<link, measuredTemperature, online, consecutiveFailedPolls,
                 nextPollIn, pollTransactionId, discoverable>>

RelinquishPresentValue(slave, output, priority) ==
  /\ priorityArray' = [priorityArray EXCEPT ![slave][output] = Relinquish(@, priority)]
  /\ UNCHANGED <<link, measuredTemperature, online, consecutiveFailedPolls,
                 nextPollIn, pollTransactionId, discoverable>>

----------------------------------------------------------------------------
(* Time passes between two calls of ServiceForeignBus. *)

TimeLeft(timeLeft, elapsed) ==
  IF timeLeft > elapsed THEN timeLeft - elapsed ELSE 0

GatewayTimePasses(elapsed) ==
  /\ nextPollIn' = [slave \in Slaves |-> TimeLeft(nextPollIn[slave], elapsed)]
  /\ link' = [slave \in Slaves |-> [output \in Outputs |->
       [link[slave][output] EXCEPT !.retryIn = TimeLeft(@, elapsed)]]]
  /\ UNCHANGED <<priorityArray, measuredTemperature, online,
                 consecutiveFailedPolls, pollTransactionId, discoverable>>

----------------------------------------------------------------------------
(* SetVirtualDeviceDiscoverable: Who-Has is left alone when switching Who-Is *)
(* fails, and a failure is only printed.                                   *)

Switched(services, whoIsOk, whoHasOk, flag) ==
  [service \in DiscoveryServices |->
     IF whoIsOk /\ (service = "WHO_IS" \/ whoHasOk) THEN flag ELSE services[service]]

SetVirtualDeviceDiscoverable(slave, flag) ==
  IF MODE = "vn"
    THEN \E whoIsOk, whoHasOk \in SetServiceOutcomes :
           discoverable' = [discoverable EXCEPT ![slave] =
                              Switched(@, whoIsOk, whoHasOk, flag)]
    ELSE UNCHANGED discoverable

Forgotten_Nothing(links) == links

\* Whatever was written may not have landed: write it again.
Forgotten(links) == [output \in Outputs |-> [links[output] EXCEPT !.written = FALSE]]

SlaveWentOffline(slave) ==
  /\ online' = [online EXCEPT ![slave] = FALSE]
  /\ link' = [link EXCEPT ![slave] = Forgotten(@)]
  /\ SetVirtualDeviceDiscoverable(slave, FALSE)

SlaveCameBack_StaysHidden(slave) ==
  /\ online' = [online EXCEPT ![slave] = TRUE]
  /\ UNCHANGED <<link, discoverable>>

SlaveCameBack(slave) ==
  /\ online' = [online EXCEPT ![slave] = TRUE]
  /\ SetVirtualDeviceDiscoverable(slave, TRUE)
  /\ UNCHANGED link

----------------------------------------------------------------------------
(* ServicePoll, by what it finds. *)

PollDue(slave) == pollTransactionId[slave] = 0 /\ nextPollIn[slave] = 0

\* No poll is in flight: start one if it is due; `id` is what StartRead returns.
PollStarts(slave, id) ==
  /\ PollDue(slave)
  /\ nextPollIn' = [nextPollIn EXCEPT ![slave] = POLL_PERIOD[slave]]
  /\ pollTransactionId' = [pollTransactionId EXCEPT ![slave] = id]
  /\ UNCHANGED <<priorityArray, link, measuredTemperature, online,
                 consecutiveFailedPolls, discoverable>>

\* Not due yet, or the driver has no answer yet.
PollWaits(slave, outcome) ==
  /\ IF pollTransactionId[slave] = 0 THEN nextPollIn[slave] > 0 ELSE outcome = "Pending"
  /\ UNCHANGED gatewayVars

PollAnswered_StaysOffline(slave, register) ==
  /\ pollTransactionId' = [pollTransactionId EXCEPT ![slave] = 0]
  /\ measuredTemperature' = [measuredTemperature EXCEPT ![slave] = Signed(register)]
  /\ consecutiveFailedPolls' = [consecutiveFailedPolls EXCEPT ![slave] = 0]
  /\ UNCHANGED <<priorityArray, link, online, nextPollIn, discoverable>>

PollAnswered(slave, register) ==
  /\ pollTransactionId' = [pollTransactionId EXCEPT ![slave] = 0]
  /\ measuredTemperature' = [measuredTemperature EXCEPT ![slave] = Signed(register)]
  /\ consecutiveFailedPolls' = [consecutiveFailedPolls EXCEPT ![slave] = 0]
  /\ IF online[slave] THEN UNCHANGED <<online, link, discoverable>>
                      ELSE SlaveCameBack(slave)
  /\ UNCHANGED <<priorityArray, nextPollIn>>

OneMoreFailedPoll_NoWrap(slave) == consecutiveFailedPolls[slave] + 1

OneMoreFailedPoll_NotCounted(slave) == consecutiveFailedPolls[slave]

\* ++consecutiveFailedPolls, as the uint32_t it is.
OneMoreFailedPoll(slave) ==
  IF consecutiveFailedPolls[slave] = MAX_FAILED_POLLS
    THEN 0
    ELSE consecutiveFailedPolls[slave] + 1

DeclareOffline_OneTooLate(slave) ==
  online[slave] /\ OneMoreFailedPoll(slave) > OFFLINE_AFTER_FAILED_POLLS

\* Two failed polls in a row, while it is believed online.
DeclareOffline(slave) ==
  online[slave] /\ OneMoreFailedPoll(slave) >= OFFLINE_AFTER_FAILED_POLLS

PollFailed_KeepsId(slave) ==
  /\ consecutiveFailedPolls' =
       [consecutiveFailedPolls EXCEPT ![slave] = OneMoreFailedPoll(slave)]
  /\ IF DeclareOffline(slave) THEN SlaveWentOffline(slave)
                              ELSE UNCHANGED <<online, link, discoverable>>
  /\ UNCHANGED <<priorityArray, measuredTemperature, nextPollIn, pollTransactionId>>

PollFailed(slave) ==
  /\ pollTransactionId' = [pollTransactionId EXCEPT ![slave] = 0]
  /\ consecutiveFailedPolls' =
       [consecutiveFailedPolls EXCEPT ![slave] = OneMoreFailedPoll(slave)]
  /\ IF DeclareOffline(slave) THEN SlaveWentOffline(slave)
                              ELSE UNCHANGED <<online, link, discoverable>>
  /\ UNCHANGED <<priorityArray, measuredTemperature, nextPollIn>>

\* A poll in flight that the driver has finished with `outcome`.
PollFinishes(slave, outcome, register) ==
  /\ pollTransactionId[slave] # 0
  /\ outcome # "Pending"
  /\ IF outcome = "Done" THEN PollAnswered(slave, register) ELSE PollFailed(slave)

----------------------------------------------------------------------------
(* ServiceWriteThrough: finish the write in flight, then start the next one  *)
(* if the winning value is not the one last written.                       *)

Finished_AnyOutcome(slave, lnk, outcome) ==
  [lnk EXCEPT !.transactionId = 0, !.written = TRUE, !.lastWrittenValue = lnk.inFlightValue]

\* The link `lnk` of `slave` once its write in flight has finished.
Finished(slave, lnk, outcome) ==
  IF outcome = "Done"
    THEN [lnk EXCEPT !.transactionId = 0, !.written = TRUE,
                     !.lastWrittenValue = lnk.inFlightValue]
    ELSE [lnk EXCEPT !.transactionId = 0, !.retryIn = POLL_PERIOD[slave]]

\* The link after the first half of the handler.
Rechecked(slave, output, outcome) ==
  IF link[slave][output].transactionId = 0
    THEN link[slave][output]
    ELSE Finished(slave, link[slave][output], outcome)

WriteWaits_Never(slave, output, outcome) == FALSE

\* The handler returns at once: the write in flight has no answer yet.
WriteWaits(slave, output, outcome) ==
  link[slave][output].transactionId # 0 /\ outcome = "Pending"

MustWrite_OncePerBoot(slave, output, lnk) ==
  online[slave] /\ lnk.retryIn = 0 /\ ~lnk.written

MustWrite(slave, output, lnk) ==
  /\ online[slave]
  /\ lnk.retryIn = 0
  /\ ~(lnk.written /\ lnk.lastWrittenValue = Winning(slave, output))

\* `outcome` is CheckTransaction's answer for the write in flight, if there is
\* one; `id` is StartWrite's answer, if the handler gets that far.
WriteThrough(slave, output, outcome, id) ==
  LET lnk == Rechecked(slave, output, outcome)
  IN /\ link' = [link EXCEPT ![slave][output] =
          IF WriteWaits(slave, output, outcome) THEN @
          ELSE IF MustWrite(slave, output, lnk)
            THEN [lnk EXCEPT !.transactionId = id, !.inFlightValue = Winning(slave, output)]
          ELSE lnk]
     /\ UNCHANGED <<priorityArray, measuredTemperature, online,
                    consecutiveFailedPolls, nextPollIn, pollTransactionId, discoverable>>
=============================================================================
