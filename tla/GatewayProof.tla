---------------------------- MODULE GatewayProof ----------------------------
(***************************************************************************)
(* What the gateway's handlers keep, over any driver and any transaction ids: *)
(* the lemmas the programs composed of the gateway share.                   *)
(***************************************************************************)
EXTENDS Gateway, TLAPS, WellFoundedInduction

\* A non-empty set of naturals has a lowest one.
LEMMA LowestExists ==
  ASSUME NEW numbers, numbers \subseteq Nat, numbers # {}
  PROVE  \E lowest \in numbers : \A other \in numbers : lowest <= other
<1>1. PICK lowest \in numbers : \A other \in numbers : ~ (<<other, lowest>> \in OpToRel(<, Nat))
  BY WFMin, NatLessThanWellFounded
<1>2. \A other \in numbers : ~(other < lowest)
  BY <1>1 DEF OpToRel
<1> QED
  BY <1>2

----------------------------------------------------------------------------
(* What the helpers return. *)

\* A cast to uint16_t is a register value (main.cpp:459).
LEMMA CastToRegister ==
  ASSUME NEW count \in Int
  PROVE  count % REGISTER_VALUES \in RegisterValues
<1>1. REGISTER_VALUES \in Nat /\ REGISTER_VALUES >= 2
  BY DEF REGISTER_VALUES
<1> QED
  BY <1>1 DEF RegisterValues

\* Any winning value fits a register once it is scaled and cast (main.cpp:458).
LEMMA ToRegisterType ==
  ASSUME NEW output \in Outputs, NEW value \in Int
  PROVE  ToRegister(output, value) \in RegisterValues
<1>1. RegisterUnit(output) \in Nat \ {0}
  BY SMT DEF RegisterUnit
<1>2. Scaled(output, value) \in Int
  <2> DEFINE unitOf == RegisterUnit(output)
  <2>1. unitOf \div 2 \in Int
    BY <1>1, SMT
  <2> HIDE DEF unitOf
  <2>2. \A dividend \in Int : dividend \div unitOf \in Int
    BY <1>1, SMT DEF unitOf
  <2>3. (unitOf \div 2 - value) \div unitOf \in Int /\ (value + unitOf \div 2) \div unitOf \in Int
    BY <2>1, <2>2
  <2>4. Scaled(output, value) = IF value < 0 THEN -((unitOf \div 2 - value) \div unitOf)
                                             ELSE (value + unitOf \div 2) \div unitOf
    BY DEF Scaled, unitOf
  <2> QED
    BY <2>3, <2>4
<1> QED
  BY <1>2, CastToRegister DEF ToRegister

\* A register read as an int16_t is an integer (main.cpp:417).
LEMMA SignedType ==
  ASSUME NEW register \in RegisterValues
  PROVE  Signed(register) \in Int
<1>1. register \in Int /\ REGISTER_VALUES \in Int
  BY SMT DEF RegisterValues, REGISTER_VALUES
<1> QED
  BY <1>1, SMT DEF Signed

\* What a point stores is a register value (SimulatedForeignBus.cpp:229).
LEMMA StoredType ==
  ASSUME NEW table, NEW value \in RegisterValues
  PROVE  Stored(table, value) \in RegisterValues
<1>1. 1 \in RegisterValues
  <2>1. REGISTER_VALUES \in Nat /\ REGISTER_VALUES >= 2
    BY DEF REGISTER_VALUES
  <2> QED
    BY <2>1 DEF RegisterValues
<1> QED
  BY <1>1 DEF Stored

\* The winner of a Priority_Array is a value (main.cpp:263).
LEMMA WinningType ==
  ASSUME NEW ids, GatewayTypeOK(ids), NEW slave \in Slaves, NEW output \in Outputs
  PROVE  Winning(slave, output) \in Int
<1> DEFINE array == priorityArray[slave][output]
           default == RELINQUISH_DEFAULT[slave][output]
<1>1. array \in [Slots -> Int \cup {Null}] /\ default \in Int
  BY DefaultsAssumption DEF GatewayTypeOK, PriorityArrays
<1> SUFFICES WinningValue(array, default) \in Int
  BY DEF Winning
<1> HIDE DEF array, default
<1>2. CASE SetSlots(array) = {}
  BY <1>1, <1>2 DEF WinningValue
<1>3. CASE SetSlots(array) # {}
  <2>1. SetSlots(array) \subseteq Nat
    BY PrioritiesAssumption DEF SetSlots, Slots
  <2>2. \E slot \in SetSlots(array) : \A other \in SetSlots(array) : slot <= other
    BY <1>3, <2>1, LowestExists
  <2>3. (CHOOSE slot \in SetSlots(array) : \A other \in SetSlots(array) : slot <= other)
           \in SetSlots(array)
    BY <2>2
  <2>4. \A slot \in SetSlots(array) : array[slot] \in Int
    BY <1>1 DEF SetSlots
  <2> QED
    BY <1>3, <2>3, <2>4 DEF WinningValue
<1> QED
  BY <1>2, <1>3

----------------------------------------------------------------------------
(* Type correctness, one lemma per handler. *)

\* The gateway starts well typed (main.cpp:237).
LEMMA GatewayInitType ==
  ASSUME NEW ids, GatewayInit
  PROVE  GatewayTypeOK(ids)
<1>1. priorityArray \in [Slaves -> [Outputs -> PriorityArrays(Int)]]
  BY DEF GatewayInit, EmptyPriorityArray, PriorityArrays
<1>2. link \in [Slaves -> [Outputs -> Links(ids)]]
  BY DEF GatewayInit, UnwrittenLink, Links
<1>3. \A slave \in Slaves, output \in Outputs :
        link[slave][output].retryIn <= POLL_PERIOD[slave]
  BY PeriodAssumption DEF GatewayInit, UnwrittenLink
<1> QED
  BY <1>1, <1>2, <1>3, PeriodAssumption, FailedPollsAssumption
  DEF GatewayTypeOK, GatewayInit, DiscoveryServices

\* A client's write or relinquish changes one slot of one Priority_Array
\* (main.cpp:758, 816).
LEMMA ClientType ==
  ASSUME NEW ids, GatewayTypeOK(ids), NEW slave \in Slaves, NEW output \in Outputs,
         NEW priority, NEW value \in Int,
         \/ WritePresentValue(slave, output, priority, value)
         \/ RelinquishPresentValue(slave, output, priority)
  PROVE  GatewayTypeOK(ids)'
<1> USE DEF GatewayTypeOK
<1> DEFINE array == priorityArray[slave][output]
           commanded == CommandWrite(array, priority, value)
           released == Relinquish(array, priority)
<1>1. commanded \in PriorityArrays(Int) /\ released \in PriorityArrays(Int)
  BY ZenonT(30) DEF CommandWrite, Relinquish, PriorityArrays
<1>2. priorityArray' \in [Slaves -> [Outputs -> PriorityArrays(Int)]]
  <2>1. CASE WritePresentValue(slave, output, priority, value)
    <3>1. priorityArray' = [priorityArray EXCEPT ![slave][output] = commanded]
      BY <2>1 DEF WritePresentValue
    <3> HIDE DEF commanded
    <3> QED
      BY <1>1, <3>1
  <2>2. CASE RelinquishPresentValue(slave, output, priority)
    <3>1. priorityArray' = [priorityArray EXCEPT ![slave][output] = released]
      BY <2>2 DEF RelinquishPresentValue
    <3> HIDE DEF released
    <3> QED
      BY <1>1, <3>1
  <2> QED
    BY <2>1, <2>2
<1>3. UNCHANGED <<link, measuredTemperature, online, consecutiveFailedPolls, nextPollIn,
                  pollTransactionId, discoverable>>
  BY DEF WritePresentValue, RelinquishPresentValue
<1> QED
  BY <1>2, <1>3

\* A timer that runs stays between zero and where it was (main.cpp:254).
LEMMA TimeLeftType ==
  ASSUME NEW timeLeft \in Nat, NEW elapsed \in Nat
  PROVE  TimeLeft(timeLeft, elapsed) \in Nat /\ TimeLeft(timeLeft, elapsed) <= timeLeft
  BY DEF TimeLeft

\* Only the timers of the gateway move when time passes (main.cpp:463).
LEMMA TimePassesType ==
  ASSUME NEW ids, GatewayTypeOK(ids), NEW elapsed \in Nat,
         GatewayTimePasses(elapsed)
  PROVE  GatewayTypeOK(ids)'
<1> USE DEF GatewayTypeOK
<1>1. nextPollIn' \in [Slaves -> Nat]
      /\ \A slave \in Slaves : nextPollIn'[slave] <= POLL_PERIOD[slave]
  <2>1. ASSUME NEW slave \in Slaves
        PROVE  /\ nextPollIn'[slave] \in Nat
               /\ nextPollIn'[slave] <= nextPollIn[slave]
               /\ nextPollIn[slave] \in Nat
               /\ nextPollIn[slave] <= POLL_PERIOD[slave]
               /\ POLL_PERIOD[slave] \in Nat
    BY TimeLeftType, PeriodAssumption DEF GatewayTimePasses
  <2> QED
    BY <2>1 DEF GatewayTimePasses
<1>2. ASSUME NEW slave \in Slaves, NEW output \in Outputs
      PROVE  /\ link'[slave][output] \in Links(ids)
             /\ link'[slave][output].retryIn <= POLL_PERIOD[slave]
  <2> DEFINE before == link[slave][output]
             left == TimeLeft(before.retryIn, elapsed)
  <2>1. before \in Links(ids) /\ before.retryIn <= POLL_PERIOD[slave]
    OBVIOUS
  <2>2. link'[slave][output] = [before EXCEPT !.retryIn = left]
    BY DEF GatewayTimePasses
  <2>3. before.retryIn \in Nat /\ POLL_PERIOD[slave] \in Nat
    BY <2>1, PeriodAssumption DEF Links
  <2>4. left \in Nat /\ left <= before.retryIn
    BY <2>3, TimeLeftType
  <2> HIDE DEF before, left
  <2>5. link'[slave][output].retryIn = left /\ link'[slave][output] \in Links(ids)
    BY <2>1, <2>2, <2>4 DEF Links
  <2> QED
    BY <2>1, <2>3, <2>4, <2>5
<1>3. link' \in [Slaves -> [Outputs -> Links(ids)]]
  BY <1>2 DEF GatewayTimePasses
<1> QED
  BY <1>1, <1>2, <1>3 DEF GatewayTimePasses

\* Switching discovery sets two Booleans (main.cpp:919).
LEMMA DiscoverableType ==
  ASSUME NEW ids, GatewayTypeOK(ids), NEW slave \in Slaves, NEW flag \in BOOLEAN,
         SetVirtualDeviceDiscoverable(slave, flag)
  PROVE  discoverable' \in [Slaves -> [DiscoveryServices -> BOOLEAN]]
<1>1. ASSUME NEW services \in [DiscoveryServices -> BOOLEAN], NEW whoIsOk, NEW whoHasOk
      PROVE  Switched(services, whoIsOk, whoHasOk, flag) \in [DiscoveryServices -> BOOLEAN]
  BY DEF Switched
<1>2. CASE MODE = "vn"
  <2>1. PICK whoIsOk \in SetServiceOutcomes, whoHasOk \in SetServiceOutcomes :
          discoverable' = [discoverable EXCEPT ![slave] =
                             Switched(discoverable[slave], whoIsOk, whoHasOk, flag)]
    BY <1>2 DEF SetVirtualDeviceDiscoverable
  <2> QED
    BY <1>1, <2>1 DEF GatewayTypeOK
<1>3. CASE MODE # "vn"
  BY <1>3 DEF SetVirtualDeviceDiscoverable, GatewayTypeOK
<1> QED
  BY <1>2, <1>3

\* A change of belief touches the beliefs, the discovery switches and whether
\* the outputs are written (main.cpp:378, 390).
LEMMA BeliefType ==
  ASSUME NEW ids, GatewayTypeOK(ids), NEW slave \in Slaves,
         \/ SlaveWentOffline(slave)
         \/ SlaveCameBack(slave)
         \/ UNCHANGED <<online, link, discoverable>>
  PROVE  /\ online' \in [Slaves -> BOOLEAN]
         /\ discoverable' \in [Slaves -> [DiscoveryServices -> BOOLEAN]]
         /\ link' \in [Slaves -> [Outputs -> Links(ids)]]
         /\ \A other \in Slaves, output \in Outputs :
              link'[other][output].retryIn <= POLL_PERIOD[other]
<1> USE DEF GatewayTypeOK
<1>1. CASE SlaveWentOffline(slave)
  <2>1. ASSUME NEW links \in [Outputs -> Links(ids)], NEW output \in Outputs
        PROVE  /\ Forgotten(links)[output] \in Links(ids)
               /\ Forgotten(links)[output].retryIn = links[output].retryIn
    BY DEF Forgotten, Links
  <2>2. \A links \in [Outputs -> Links(ids)] :
          Forgotten(links) \in [Outputs -> Links(ids)]
    BY <2>1 DEF Forgotten
  <2>3. link' = [link EXCEPT ![slave] = Forgotten(link[slave])]
    BY <1>1 DEF SlaveWentOffline
  <2>4. link' \in [Slaves -> [Outputs -> Links(ids)]]
    BY <2>2, <2>3
  <2>5. \A other \in Slaves, output \in Outputs :
          link'[other][output].retryIn = link[other][output].retryIn
    BY <2>1, <2>3
  <2> QED
    BY <1>1, <2>4, <2>5, DiscoverableType DEF SlaveWentOffline
<1>2. CASE SlaveCameBack(slave)
  BY <1>2, DiscoverableType DEF SlaveCameBack
<1>3. CASE UNCHANGED <<online, link, discoverable>>
  BY <1>3
<1> QED
  BY <1>1, <1>2, <1>3

\* A poll keeps the gateway well typed, whatever id StartRead returns and
\* whatever the driver answers (main.cpp:400).
LEMMA PollType ==
  ASSUME NEW ids, GatewayTypeOK(ids), NEW slave \in Slaves,
         NEW id \in ids \cup {0}, NEW outcome, NEW register,
         outcome = "Done" => register \in RegisterValues,
         PollStarts(slave, id) \/ PollWaits(slave, outcome)
           \/ PollFinishes(slave, outcome, register)
  PROVE  GatewayTypeOK(ids)'
<1> USE DEF GatewayTypeOK
<1>1. CASE PollStarts(slave, id)
  <2>1. nextPollIn' = [nextPollIn EXCEPT ![slave] = POLL_PERIOD[slave]]
        /\ POLL_PERIOD \in [Slaves -> Nat]
    BY <1>1, PeriodAssumption DEF PollStarts
  <2>2. nextPollIn' \in [Slaves -> Nat]
        /\ \A other \in Slaves : nextPollIn'[other] <= POLL_PERIOD[other]
    BY <2>1
  <2> QED
    BY <1>1, <2>2 DEF PollStarts
<1>2. CASE PollWaits(slave, outcome)
  BY <1>2 DEF PollWaits, gatewayVars
<1>3. CASE PollFinishes(slave, outcome, register) /\ outcome = "Done"
  <2>1. PollAnswered(slave, register)
    BY <1>3 DEF PollFinishes
  <2>2. \/ SlaveCameBack(slave)
        \/ UNCHANGED <<online, link, discoverable>>
    BY <2>1 DEF PollAnswered
  <2>3. measuredTemperature' \in [Slaves -> Int]
    BY <1>3, <2>1, SignedType DEF PollAnswered
  <2>4. consecutiveFailedPolls' \in [Slaves -> 0 .. MAX_FAILED_POLLS]
    BY <2>1, FailedPollsAssumption DEF PollAnswered
  <2>5. pollTransactionId' \in [Slaves -> ids \cup {0}]
    BY <2>1 DEF PollAnswered
  <2>6. UNCHANGED <<priorityArray, nextPollIn>>
    BY <2>1 DEF PollAnswered
  <2> QED
    BY <2>2, <2>3, <2>4, <2>5, <2>6, BeliefType
<1>4. CASE PollFinishes(slave, outcome, register) /\ outcome # "Done"
  <2>1. PollFailed(slave)
    BY <1>4 DEF PollFinishes
  <2>2. \/ SlaveWentOffline(slave)
        \/ UNCHANGED <<online, link, discoverable>>
    BY <2>1 DEF PollFailed
  <2>3. OneMoreFailedPoll(slave) \in 0 .. MAX_FAILED_POLLS
    <3> DEFINE count == consecutiveFailedPolls[slave]
    <3>1. count \in 0 .. MAX_FAILED_POLLS /\ MAX_FAILED_POLLS \in Nat
      BY FailedPollsAssumption
    <3>2. OneMoreFailedPoll(slave) = IF count = MAX_FAILED_POLLS THEN 0 ELSE count + 1
      BY DEF OneMoreFailedPoll
    <3> HIDE DEF count
    <3> QED
      BY <3>1, <3>2
  <2>4. consecutiveFailedPolls' \in [Slaves -> 0 .. MAX_FAILED_POLLS]
    BY <2>1, <2>3 DEF PollFailed
  <2>5. pollTransactionId' \in [Slaves -> ids \cup {0}]
    BY <2>1 DEF PollFailed
  <2>6. UNCHANGED <<priorityArray, measuredTemperature, nextPollIn>>
    BY <2>1 DEF PollFailed
  <2> QED
    BY <2>2, <2>4, <2>5, <2>6, BeliefType
<1> QED
  BY <1>1, <1>2, <1>3, <1>4

\* The link of an output after its handler ran (main.cpp:430).
LEMMA WriteThroughType ==
  ASSUME NEW ids, GatewayTypeOK(ids), NEW slave \in Slaves, NEW output \in Outputs,
         NEW outcome, NEW id \in ids \cup {0}, WriteThrough(slave, output, outcome, id)
  PROVE  GatewayTypeOK(ids)'
<1> DEFINE before == link[slave][output]
           checked == Rechecked(slave, output, outcome)
           period == POLL_PERIOD[slave]
<1>1. before \in Links(ids) /\ before.retryIn <= period /\ period \in Nat
  BY PeriodAssumption DEF GatewayTypeOK
<1>2. checked \in Links(ids) /\ checked.retryIn <= period
  <2> HIDE DEF before
  <2>1. Finished(slave, before, outcome) \in Links(ids)
        /\ Finished(slave, before, outcome).retryIn <= period
    <3>1. CASE outcome = "Done"
      <4>1. Finished(slave, before, outcome) =
              [before EXCEPT !.transactionId = 0, !.written = TRUE,
                             !.lastWrittenValue = before.inFlightValue]
        BY <3>1 DEF Finished
      <4> QED
        BY <1>1, <4>1 DEF Links
    <3>2. CASE outcome # "Done"
      <4>1. Finished(slave, before, outcome) =
              [before EXCEPT !.transactionId = 0, !.retryIn = period]
        BY <3>2 DEF Finished
      <4> HIDE DEF period
      <4>2. Finished(slave, before, outcome).retryIn = period
        BY <1>1, <4>1 DEF Links
      <4>3. Finished(slave, before, outcome) \in Links(ids)
        BY <1>1, <4>1 DEF Links
      <4> QED
        BY <1>1, <4>2, <4>3
    <3> QED
      BY <3>1, <3>2
  <2>2. checked = IF before.transactionId = 0 THEN before ELSE Finished(slave, before, outcome)
    BY DEF Rechecked, before
  <2> HIDE DEF checked
  <2> QED
    BY <1>1, <2>1, <2>2
<1> DEFINE started == [checked EXCEPT !.transactionId = id,
                                      !.inFlightValue = Winning(slave, output)]
           after == IF WriteWaits(slave, output, outcome) THEN before
                    ELSE IF MustWrite(slave, output, checked) THEN started
                    ELSE checked
<1>3. started \in Links(ids) /\ started.retryIn = checked.retryIn
  <2>1. Winning(slave, output) \in Int
    BY WinningType
  <2> HIDE DEF checked
  <2> QED
    BY <1>2, <2>1 DEF Links
<1>4. link' = [link EXCEPT ![slave][output] = after]
  BY DEF WriteThrough
<1>5. after \in Links(ids) /\ after.retryIn <= period
  <2> HIDE DEF before, checked, started
  <2> QED
    BY <1>1, <1>2, <1>3
<1>6. link' \in [Slaves -> [Outputs -> Links(ids)]]
      /\ \A other \in Slaves, otherOutput \in Outputs :
           link'[other][otherOutput].retryIn <= POLL_PERIOD[other]
  <2> HIDE DEF after
  <2> QED
    BY <1>4, <1>5 DEF GatewayTypeOK
<1> QED
  BY <1>6 DEF GatewayTypeOK, WriteThrough

----------------------------------------------------------------------------
(* What the handlers do to the links. *)

\* Time moves nothing of a link but its timer (main.cpp:463).
LEMMA TimeKeepsLinks ==
  ASSUME NEW ids, GatewayTypeOK(ids), NEW elapsed, GatewayTimePasses(elapsed),
         NEW slave \in Slaves, NEW output \in Outputs
  PROVE  LET before == link[slave][output]
             after == link'[slave][output]
         IN /\ after.transactionId = before.transactionId
            /\ after.inFlightValue = before.inFlightValue
            /\ after.written = before.written
            /\ after.lastWrittenValue = before.lastWrittenValue
<1> DEFINE before == link[slave][output]
           after == link'[slave][output]
<1>1. before \in Links(ids)
  BY DEF GatewayTypeOK
<1>2. after = [before EXCEPT !.retryIn = TimeLeft(before.retryIn, elapsed)]
  BY DEF GatewayTimePasses
<1> HIDE DEF before, after
<1>3. /\ after.transactionId = before.transactionId
      /\ after.inFlightValue = before.inFlightValue
      /\ after.written = before.written
      /\ after.lastWrittenValue = before.lastWrittenValue
  BY <1>1, <1>2 DEF Links
<1> QED
  BY <1>3 DEF before, after

\* A change of belief leaves the writes in flight alone (main.cpp:378, 390).
LEMMA BeliefKeepsLinks ==
  ASSUME NEW ids, GatewayTypeOK(ids), NEW slave \in Slaves,
         SlaveWentOffline(slave) \/ SlaveCameBack(slave) \/ UNCHANGED link,
         NEW other \in Slaves, NEW output \in Outputs
  PROVE  /\ link'[other][output].transactionId = link[other][output].transactionId
         /\ link'[other][output].inFlightValue = link[other][output].inFlightValue
<1>1. CASE SlaveWentOffline(slave)
  <2>1. link' = [link EXCEPT ![slave] = Forgotten(link[slave])]
    BY <1>1 DEF SlaveWentOffline
  <2>2. Forgotten(link[slave])[output] = [link[slave][output] EXCEPT !.written = FALSE]
    BY DEF Forgotten
  <2>3. link[slave][output] \in Links(ids) /\ link \in [Slaves -> [Outputs -> Links(ids)]]
    BY DEF GatewayTypeOK
  <2>4. CASE other = slave
    BY <2>1, <2>2, <2>3, <2>4 DEF Links
  <2>5. CASE other # slave
    BY <2>1, <2>3, <2>5
  <2> QED
    BY <2>4, <2>5
<1>2. CASE SlaveCameBack(slave) \/ UNCHANGED link
  BY <1>2 DEF SlaveCameBack
<1> QED
  BY <1>1, <1>2

\* What ServiceWriteThrough leaves behind: the write in flight is waited for, or it is
\* over and, if it is Done, written; then the next one may start (main.cpp:430).
LEMMA WriteThroughTells ==
  ASSUME NEW ids, GatewayTypeOK(ids), NEW slave \in Slaves, NEW output \in Outputs,
         NEW outcome, NEW id \in ids \cup {0}, WriteThrough(slave, output, outcome, id)
  PROVE  LET before == link[slave][output]
             after == link'[slave][output]
             waits == WriteWaits(slave, output, outcome)
             starts == ~waits /\ MustWrite(slave, output, Rechecked(slave, output, outcome))
             done == before.transactionId # 0 /\ outcome = "Done"
         IN /\ \A other \in Slaves, otherOutput \in Outputs :
                 other # slave \/ otherOutput # output =>
                   link'[other][otherOutput] = link[other][otherOutput]
            /\ waits => after = before
            /\ ~waits => after.transactionId = IF starts THEN id ELSE 0
            /\ starts => after.inFlightValue = Winning(slave, output)
            /\ ~waits => /\ after.written = (done \/ before.written)
                         /\ after.lastWrittenValue =
                              IF done THEN before.inFlightValue ELSE before.lastWrittenValue
<1> DEFINE before == link[slave][output]
           after == link'[slave][output]
           waits == WriteWaits(slave, output, outcome)
           checked == Rechecked(slave, output, outcome)
           must == MustWrite(slave, output, checked)
           winning == Winning(slave, output)
           done == before.transactionId # 0 /\ outcome = "Done"
           started == [checked EXCEPT !.transactionId = id, !.inFlightValue = winning]
           result == IF waits THEN before ELSE IF must THEN started ELSE checked
<1>1. /\ link \in [Slaves -> [Outputs -> Links(ids)]] /\ before \in Links(ids)
      /\ POLL_PERIOD[slave] \in Nat /\ winning \in Int
  BY PeriodAssumption, WinningType DEF GatewayTypeOK
<1>2. link' = [link EXCEPT ![slave][output] = result]
  BY DEF WriteThrough
<1>3. checked \in Links(ids) /\ checked.transactionId = 0
      /\ checked.written = (done \/ before.written)
      /\ checked.lastWrittenValue = IF done THEN before.inFlightValue ELSE before.lastWrittenValue
  <2> HIDE DEF before
  <2>1. CASE before.transactionId = 0
    BY <1>1, <2>1 DEF Rechecked, before, Links
  <2>2. CASE before.transactionId # 0 /\ outcome = "Done"
    <3>1. checked = [before EXCEPT !.transactionId = 0, !.written = TRUE,
                                   !.lastWrittenValue = before.inFlightValue]
      BY <2>2 DEF Rechecked, before, Finished
    <3> HIDE DEF checked
    <3> QED
      BY <1>1, <2>2, <3>1 DEF Links
  <2>3. CASE before.transactionId # 0 /\ outcome # "Done"
    <3>1. checked = [before EXCEPT !.transactionId = 0, !.retryIn = POLL_PERIOD[slave]]
      BY <2>3 DEF Rechecked, before, Finished
    <3> HIDE DEF checked
    <3> QED
      BY <1>1, <2>3, <3>1 DEF Links
  <2> QED
    BY <2>1, <2>2, <2>3
<1> HIDE DEF waits, checked, must, winning
<1>4. /\ started.transactionId = id /\ started.inFlightValue = winning
      /\ started.written = checked.written
      /\ started.lastWrittenValue = checked.lastWrittenValue
  BY <1>1, <1>3 DEF Links
<1>5. after = result
  <2> HIDE DEF result
  <2> QED
    BY <1>1, <1>2
<1>6. \A other \in Slaves, otherOutput \in Outputs :
        other # slave \/ otherOutput # output => link'[other][otherOutput] = link[other][otherOutput]
  <2> HIDE DEF result
  <2> QED
    BY <1>1, <1>2
<1>7. waits => after = before
  BY <1>5
<1>8. ~waits /\ must => after = started
  BY <1>5
<1>9. ~waits /\ ~must => after = checked
  BY <1>5
<1> HIDE DEF started, result, before, after, done
<1> QED
  BY <1>3, <1>4, <1>6, <1>7, <1>8, <1>9 DEF before, after, waits, checked, must, winning, done
=============================================================================
