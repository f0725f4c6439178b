---------------------------- MODULE ProgramProof ----------------------------
(***************************************************************************)
(* What is proved about main(): what it leaves behind when it ends, that its   *)
(* set-up never fails by its own order, that the callbacks and the set-up      *)
(* agree on the objects, and that what is announced can be reached; for any   *)
(* number of slaves and any command line.                                     *)
(***************************************************************************)
EXTENDS GatewayProgram, TLAPS, SequenceTheorems, WellFoundedInduction

----------------------------------------------------------------------------
(* The terminal and the sockets. *)

KeyboardOK ==
  /\ stdin \in [kind : StdinKinds, nonBlocking : BOOLEAN, raw : BOOLEAN]
  /\ stdinConfigured \in BOOLEAN
  /\ rawActive \in BOOLEAN
  /\ stdin.nonBlocking = stdinConfigured
  /\ stdin.raw = rawActive
  /\ pc \notin {"run", "stop"} => ~rawActive

SocketsOK ==
  /\ udpSocket \in BOOLEAN /\ controlSocket \in BOOLEAN
  /\ pc \in {"arguments", "udp"} => ~udpSocket /\ ~controlSocket
  /\ pc # "exited" => exitCode = NONE
  /\ exitCode = 0 => ~udpSocket /\ ~controlSocket

\* A key asked for sets up the terminal, once, and nothing else of it
\* (CASExampleHelper.cpp:449).
LEMMA PollKeyKeepsKeyboard ==
  ASSUME KeyboardOK, NEW key, PollKey(key), pc = "run"
  PROVE  /\ stdin' \in [kind : StdinKinds, nonBlocking : BOOLEAN, raw : BOOLEAN]
         /\ stdinConfigured' \in BOOLEAN /\ rawActive' \in BOOLEAN
         /\ stdin'.nonBlocking = stdinConfigured'
         /\ stdin'.raw = rawActive'
<1>1. CASE stdinConfigured
  BY <1>1 DEF KeyboardOK, PollKey, EnableRawInput
<1>2. CASE ~stdinConfigured
  <2> DEFINE isTerminal == stdin.kind = "terminal"
  <2>1. stdin' = [stdin EXCEPT !.nonBlocking = TRUE, !.raw = isTerminal]
        /\ stdinConfigured' = TRUE /\ rawActive' = isTerminal
    BY <1>2 DEF PollKey, EnableRawInput, Configured
  <2>2. isTerminal \in BOOLEAN
    OBVIOUS
  <2> HIDE DEF isTerminal
  <2> QED
    BY <2>1, <2>2 DEF KeyboardOK
<1> QED
  BY <1>1, <1>2 DEF KeyboardOK

\* Whatever happens, the keyboard and the sockets stay as the stage of main() has them
\* (main.cpp:1167-1219).
LEMMA EndsStep ==
  ASSUME KeyboardOK, SocketsOK, [Next]_vars
  PROVE  KeyboardOK' /\ SocketsOK'
<1> USE DEF NONE
<1>1. CASE ReadArguments
  <2>1. pc = "arguments" /\ pc' \in {"udp", "exited"} /\ (pc' = "udp" => exitCode' = exitCode)
        /\ UNCHANGED <<socketVars, keyboardVars>>
    BY <1>1 DEF ReadArguments, Exit, Goto
  <2> QED
    BY <2>1 DEF KeyboardOK, SocketsOK, socketVars, keyboardVars
<1>2. CASE SetupUDP
  <2>1. pc = "udp" /\ udpSocket' \in BOOLEAN
        /\ \/ pc' = "control" /\ exitCode' = exitCode
           \/ pc' = "exited" /\ exitCode' = 1
        /\ UNCHANGED <<controlSocket, keyboardVars>>
    BY <1>2 DEF SetupUDP, Exit, Goto
  <2>2. KeyboardOK'
    BY <2>1 DEF KeyboardOK, keyboardVars
  <2>3. SocketsOK'
    BY <2>1 DEF SocketsOK
  <2> QED
    BY <2>2, <2>3
<1>3. CASE StartControl
  <2>1. pc = "control" /\ controlSocket' \in BOOLEAN
        /\ \/ pc' = "setup" /\ exitCode' = exitCode
           \/ pc' = "exited" /\ exitCode' = 1
        /\ UNCHANGED <<udpSocket, keyboardVars>>
    BY <1>3 DEF StartControl, Exit, Goto
  <2>2. KeyboardOK'
    BY <2>1 DEF KeyboardOK, keyboardVars
  <2>3. SocketsOK'
    BY <2>1 DEF SocketsOK
  <2> QED
    BY <2>2, <2>3
<1>4. CASE SetUp \/ Announce
  <2>1. pc = "setup"
        /\ \/ pc' \in {"setup", "run"} /\ exitCode' = exitCode
           \/ pc' = "exited" /\ exitCode' = 1
        /\ UNCHANGED <<socketVars, keyboardVars>>
    BY <1>4 DEF SetUp, Announce, Exit, Goto
  <2>2. KeyboardOK'
    BY <2>1 DEF KeyboardOK, keyboardVars
  <2>3. SocketsOK'
    BY <2>1 DEF SocketsOK, socketVars
  <2> QED
    BY <2>2, <2>3
<1>5. CASE \/ ClientWrites \/ TimePasses
           \/ \E slave \in Slaves : StartPoll(slave) \/ FinishPoll(slave)
  <2>1. pc = "run" /\ UNCHANGED <<pc, exitCode, socketVars, keyboardVars>>
    BY <1>5 DEF ClientWrites, TimePasses, StartPoll, FinishPoll, NextTick, Goto
  <2>2. KeyboardOK'
    BY <2>1 DEF KeyboardOK, keyboardVars
  <2>3. SocketsOK'
    BY <2>1 DEF SocketsOK, socketVars
  <2> QED
    BY <2>2, <2>3
<1>6. CASE \E key \in TypedKeys : Type(key)
  BY <1>6 DEF Type, KeyboardOK, SocketsOK, socketVars
<1>7. CASE KeyQuit \/ KeyAnnounce \/ KeyOther
  <2>1. pc = "run" /\ pc' \in {"run", "stop"} /\ UNCHANGED <<exitCode, socketVars>>
    BY <1>7 DEF KeyQuit, KeyAnnounce, KeyOther, NextTick, Goto
  <2>2. PICK key : PollKey(key)
    BY <1>7 DEF KeyQuit, KeyAnnounce, KeyOther
  <2>3. KeyboardOK'
    BY <2>1, <2>2, PollKeyKeepsKeyboard DEF KeyboardOK
  <2> QED
    BY <2>1, <2>3 DEF SocketsOK, socketVars
<1>8. CASE Stop
  <2>1. pc' = "exited" /\ exitCode' = 0 /\ ~udpSocket' /\ ~controlSocket'
        /\ udpSocket' \in BOOLEAN /\ controlSocket' \in BOOLEAN /\ stdinConfigured' = stdinConfigured
        /\ rawActive' = FALSE
        /\ stdin' = IF rawActive THEN [stdin EXCEPT !.raw = FALSE] ELSE stdin
    BY <1>8 DEF Stop, Exit, RestoreInput
  <2> QED
    BY <2>1 DEF KeyboardOK, SocketsOK
<1>9. CASE UNCHANGED vars
  <2>1. UNCHANGED <<pc, exitCode, socketVars, keyboardVars>>
    BY <1>9 DEF vars
  <2>2. KeyboardOK'
    BY <2>1 DEF KeyboardOK, keyboardVars
  <2>3. SocketsOK'
    BY <2>1 DEF SocketsOK, socketVars
  <2> QED
    BY <2>2, <2>3
<1> QED
  BY <1>1, <1>2, <1>3, <1>4, <1>5, <1>6, <1>7, <1>8, <1>9 DEF Next

\* The program starts with a terminal as it found it and no socket (main.cpp:1040).
LEMMA EndsInit == Init => KeyboardOK /\ SocketsOK
<1> SUFFICES ASSUME Init PROVE KeyboardOK /\ SocketsOK
  OBVIOUS
<1>1. PICK launch \in Launches :
        stdin = [kind |-> launch.stdin, nonBlocking |-> FALSE, raw |-> FALSE]
  BY DEF Init
<1>2. launch.stdin \in StdinKinds
  BY LaunchesAssumption
<1>3. stdin \in [kind : StdinKinds, nonBlocking : BOOLEAN, raw : BOOLEAN] /\ ~stdin.raw
      /\ stdin.raw = FALSE
  BY <1>1, <1>2
<1>4. stdin.nonBlocking = FALSE
  BY <1>1
<1>5. KeyboardOK
  BY <1>3, <1>4 DEF Init, KeyboardInit, KeyboardOK
<1> QED
  BY <1>5 DEF Init, SocketsOK, NONE

\* Asking for a key again never blocks.  However main() returns, no terminal is left raw,
\* and O_NONBLOCK is left set exactly if a key was ever asked for; if it returns 0, both
\* sockets are closed (CASExampleHelper.cpp:449-474, 2130-2137, main.cpp:1216-1218).
THEOREM ProgramEndsClean == Spec => []EndsClean
<1>1. KeyboardOK /\ SocketsOK => EndsClean
  BY DEF KeyboardOK, SocketsOK, EndsClean, Blocks
<1> QED
  BY <1>1, EndsInit, EndsStep, PTL DEF Spec

----------------------------------------------------------------------------
(* The cache, as main() changes it. *)

\* The gateway's operators name the slaves and outputs that the objects name.
LEMMA SameCache ==
  /\ Embedded!Slaves = Slaves /\ Embedded!Outputs = Outputs
  /\ \A values : Embedded!PriorityArrays(values) = PriorityArrays(values)
  BY DEF Embedded!Slaves, Slaves, Embedded!Outputs, Outputs, Embedded!PriorityArrays,
         PriorityArrays, Embedded!Slots, Slots

DiscoveryServices == {"WHO_IS", "WHO_HAS"}

\* What SetVirtualDeviceDiscoverable does in either mode (main.cpp:910).
Switches(slave, flag) ==
  IF mode = "vn"
    THEN \E whoIsOk, whoHasOk \in SetServiceOutcomes :
           discoverable' = [discoverable EXCEPT ![slave] =
             [service \in DiscoveryServices |->
                IF whoIsOk /\ (service = "WHO_IS" \/ whoHasOk)
                  THEN flag ELSE discoverable[slave][service]]]
    ELSE UNCHANGED discoverable

WentOffline(slave) ==
  /\ online' = [online EXCEPT ![slave] = FALSE]
  /\ link' = [link EXCEPT ![slave] =
                [output \in Outputs |-> [link[slave][output] EXCEPT !.written = FALSE]]]
  /\ Switches(slave, FALSE)

CameBack(slave) ==
  /\ ~online[slave]
  /\ online' = [online EXCEPT ![slave] = TRUE]
  /\ UNCHANGED link
  /\ Switches(slave, TRUE)

\* SlaveWentOffline and SlaveCameBack in either mode (main.cpp:378, 390).
LEMMA BeliefIn ==
  ASSUME mode \in MODES, NEW slave
  PROVE  /\ mode = "eo" /\ Embedded!SlaveWentOffline(slave) => WentOffline(slave)
         /\ mode = "vn" /\ Virtual!SlaveWentOffline(slave) => WentOffline(slave)
         /\ mode = "eo" /\ Embedded!SlaveCameBack(slave) /\ ~online[slave] => CameBack(slave)
         /\ mode = "vn" /\ Virtual!SlaveCameBack(slave) /\ ~online[slave] => CameBack(slave)
<1>1. ASSUME mode = "eo", NEW flag, Embedded!SetVirtualDeviceDiscoverable(slave, flag)
      PROVE  Switches(slave, flag)
  BY <1>1 DEF Embedded!SetVirtualDeviceDiscoverable, Switches
<1>2. ASSUME mode = "vn", NEW flag, Virtual!SetVirtualDeviceDiscoverable(slave, flag)
      PROVE  Switches(slave, flag)
  BY <1>2, Zenon DEF Virtual!SetVirtualDeviceDiscoverable, Switches, Virtual!Switched,
                     Virtual!DiscoveryServices, DiscoveryServices
<1> QED
  BY <1>1, <1>2, Zenon DEF Embedded!SlaveWentOffline, Virtual!SlaveWentOffline,
       Embedded!SlaveCameBack, Virtual!SlaveCameBack, WentOffline, CameBack,
       Embedded!Forgotten, Virtual!Forgotten, Embedded!Outputs, Virtual!Outputs, Outputs

\* A poll that finishes clears its id and counts; it may change the reading, and what is
\* believed of its slave (main.cpp:400).
LEMMA FinishedPoll ==
  ASSUME mode \in MODES, Embedded!GatewayTypeOK({1}), NEW slave \in Slaves, FinishPoll(slave)
  PROVE  /\ UNCHANGED <<priorityArray, nextPollIn>>
         /\ pollTransactionId' = [pollTransactionId EXCEPT ![slave] = 0]
         /\ consecutiveFailedPolls' \in [Slaves -> 0 .. MAX_FAILED_POLLS]
         /\ measuredTemperature' \in [Slaves -> Int]
         /\ \/ WentOffline(slave)
            \/ CameBack(slave)
            \/ UNCHANGED <<online, link, discoverable>>
<1>1. PICK outcome \in {"Done", "Timeout"}, reading \in Readings :
        IF mode = "eo" THEN Embedded!PollFinishes(slave, outcome, reading)
                       ELSE Virtual!PollFinishes(slave, outcome, reading)
  BY Zenon DEF FinishPoll
<1>2. /\ measuredTemperature \in [Slaves -> Int]
      /\ consecutiveFailedPolls \in [Slaves -> 0 .. MAX_FAILED_POLLS]
      /\ MAX_FAILED_POLLS \in Nat
  BY SameCache, PollingAssumption DEF Embedded!GatewayTypeOK
<1>3. Embedded!Signed(reading) \in Int /\ Virtual!Signed(reading) \in Int
  <2>1. reading \in Int
    <3>1. REGISTER_VALUES \in Nat /\ reading \in RegisterValues
      BY ReadingsAssumption DEF REGISTER_VALUES
    <3> QED
      BY <3>1 DEF RegisterValues
  <2> QED
    BY <2>1, SMT DEF Embedded!Signed, Virtual!Signed, Embedded!REGISTER_VALUES,
                Virtual!REGISTER_VALUES
<1>4. Embedded!OneMoreFailedPoll(slave) \in 0 .. MAX_FAILED_POLLS
      /\ Virtual!OneMoreFailedPoll(slave) \in 0 .. MAX_FAILED_POLLS
  <2>1. consecutiveFailedPolls[slave] \in 0 .. MAX_FAILED_POLLS
    BY <1>2
  <2> QED
    BY <1>2, <2>1 DEF Embedded!OneMoreFailedPoll, Virtual!OneMoreFailedPoll
<1>5. CASE mode = "eo" /\ outcome = "Done"
  <2>1. Embedded!PollAnswered(slave, reading)
    BY <1>1, <1>5 DEF Embedded!PollFinishes
  <2> QED
    BY <1>2, <1>3, <1>5, <2>1, BeliefIn DEF Embedded!PollAnswered
<1>6. CASE mode = "eo" /\ outcome # "Done"
  <2>1. Embedded!PollFailed(slave)
    BY <1>1, <1>6 DEF Embedded!PollFinishes
  <2> QED
    BY <1>2, <1>4, <1>6, <2>1, BeliefIn DEF Embedded!PollFailed
<1>7. CASE mode = "vn" /\ outcome = "Done"
  <2>1. Virtual!PollAnswered(slave, reading)
    BY <1>1, <1>7 DEF Virtual!PollFinishes
  <2> QED
    BY <1>2, <1>3, <1>7, <2>1, BeliefIn DEF Virtual!PollAnswered
<1>8. CASE mode = "vn" /\ outcome # "Done"
  <2>1. Virtual!PollFailed(slave)
    BY <1>1, <1>8 DEF Virtual!PollFinishes
  <2> QED
    BY <1>2, <1>4, <1>8, <2>1, BeliefIn DEF Virtual!PollFailed
<1> QED
  BY <1>5, <1>6, <1>7, <1>8 DEF MODES

----------------------------------------------------------------------------
(* Type correctness. *)

\* A finished poll leaves the cache well typed (main.cpp:378-428).
LEMMA FinishedPollType ==
  ASSUME mode \in MODES, Embedded!GatewayTypeOK({1}), NEW slave \in Slaves, FinishPoll(slave)
  PROVE  Embedded!GatewayTypeOK({1})'
<1> USE SameCache DEF Embedded!GatewayTypeOK
<1>1. pollTransactionId' \in [Slaves -> {1} \cup {0}]
  BY FinishedPoll
<1>2. ASSUME NEW flag \in BOOLEAN, Switches(slave, flag)
      PROVE  discoverable' \in [Slaves -> [Embedded!DiscoveryServices -> BOOLEAN]]
  <2>1. Embedded!DiscoveryServices = DiscoveryServices
    BY DEF Embedded!DiscoveryServices, DiscoveryServices
  <2>2. CASE mode = "vn"
    <3>1. PICK whoIsOk \in SetServiceOutcomes, whoHasOk \in SetServiceOutcomes :
            discoverable' = [discoverable EXCEPT ![slave] =
              [service \in DiscoveryServices |->
                 IF whoIsOk /\ (service = "WHO_IS" \/ whoHasOk)
                   THEN flag ELSE discoverable[slave][service]]]
      BY <1>2, <2>2 DEF Switches
    <3> DEFINE switched == [service \in DiscoveryServices |->
                              IF whoIsOk /\ (service = "WHO_IS" \/ whoHasOk)
                                THEN flag ELSE discoverable[slave][service]]
    <3>2. switched \in [DiscoveryServices -> BOOLEAN]
      BY <2>1
    <3> HIDE DEF switched
    <3>3. discoverable' = [discoverable EXCEPT ![slave] = switched]
      BY <3>1 DEF switched
    <3> QED
      BY <2>1, <3>2, <3>3
  <2>3. CASE mode # "vn"
    BY <1>2, <2>3 DEF Switches
  <2> QED
    BY <2>2, <2>3
<1>3. CASE WentOffline(slave)
  <2>1. online' \in [Slaves -> BOOLEAN]
    BY <1>3 DEF WentOffline
  <2>2. discoverable' \in [Slaves -> [Embedded!DiscoveryServices -> BOOLEAN]]
    BY <1>2, <1>3 DEF WentOffline
  <2> DEFINE forgotten == [output \in Outputs |-> [link[slave][output] EXCEPT !.written = FALSE]]
  <2>3. ASSUME NEW output \in Outputs
        PROVE  /\ forgotten[output] \in Embedded!Links({1})
               /\ forgotten[output].retryIn = link[slave][output].retryIn
    <3> DEFINE before == link[slave][output]
    <3>1. before \in Embedded!Links({1}) /\ forgotten[output] = [before EXCEPT !.written = FALSE]
      OBVIOUS
    <3> HIDE DEF before, forgotten
    <3>2. forgotten[output] \in Embedded!Links({1}) /\ forgotten[output].retryIn = before.retryIn
      BY <3>1 DEF Embedded!Links
    <3> QED
      BY <3>2 DEF before
  <2>4. forgotten \in [Outputs -> Embedded!Links({1})]
    BY <2>3
  <2>5. link' = [link EXCEPT ![slave] = forgotten]
    BY <1>3 DEF WentOffline
  <2> HIDE DEF forgotten
  <2>6. link' \in [Slaves -> [Outputs -> Embedded!Links({1})]]
        /\ \A other \in Slaves, output \in Outputs :
             link'[other][output].retryIn <= POLL_PERIOD[other]
    BY <2>3, <2>4, <2>5
  <2> QED
    BY <1>1, <2>1, <2>2, <2>6, FinishedPoll
<1>4. CASE CameBack(slave)
  <2>1. online' \in [Slaves -> BOOLEAN] /\ link' = link
    BY <1>4 DEF CameBack
  <2>2. discoverable' \in [Slaves -> [Embedded!DiscoveryServices -> BOOLEAN]]
    BY <1>2, <1>4 DEF CameBack
  <2> QED
    BY <1>1, <2>1, <2>2, FinishedPoll
<1>5. CASE UNCHANGED <<online, link, discoverable>>
  BY <1>1, <1>5, FinishedPoll
<1> QED
  BY <1>3, <1>4, <1>5, FinishedPoll

\* The other steps of a pass keep the cache well typed: time, and a poll that starts
\* (main.cpp:408, 463).
LEMMA PassType ==
  ASSUME Embedded!GatewayTypeOK({1}),
         TimePasses \/ \E slave \in Slaves : StartPoll(slave)
  PROVE  Embedded!GatewayTypeOK({1})'
<1> USE SameCache, PollingAssumption DEF Embedded!GatewayTypeOK
<1>1. CASE TimePasses
  <2>1. Embedded!GatewayTimePasses(1)
    BY <1>1 DEF TimePasses
  <2>2. ASSUME NEW left \in Nat
        PROVE  Embedded!TimeLeft(left, 1) \in Nat /\ Embedded!TimeLeft(left, 1) <= left
    BY DEF Embedded!TimeLeft
  <2>3. nextPollIn' \in [Slaves -> Nat]
        /\ \A slave \in Slaves : nextPollIn'[slave] <= POLL_PERIOD[slave]
    <3>1. ASSUME NEW slave \in Slaves
          PROVE  /\ nextPollIn'[slave] \in Nat /\ nextPollIn'[slave] <= nextPollIn[slave]
                 /\ nextPollIn[slave] \in Nat /\ nextPollIn[slave] <= POLL_PERIOD[slave]
                 /\ POLL_PERIOD[slave] \in Nat
      BY <2>1, <2>2 DEF Embedded!GatewayTimePasses
    <3> QED
      BY <2>1, <3>1 DEF Embedded!GatewayTimePasses
  <2>4. ASSUME NEW slave \in Slaves, NEW output \in Outputs
        PROVE  /\ link'[slave][output] \in Embedded!Links({1})
               /\ link'[slave][output].retryIn <= POLL_PERIOD[slave]
    <3> DEFINE before == link[slave][output]
               left == Embedded!TimeLeft(before.retryIn, 1)
    <3>1. before \in Embedded!Links({1}) /\ before.retryIn <= POLL_PERIOD[slave]
          /\ POLL_PERIOD[slave] \in Nat
      OBVIOUS
    <3>2. link'[slave][output] = [before EXCEPT !.retryIn = left]
      BY <2>1 DEF Embedded!GatewayTimePasses
    <3>3. before.retryIn \in Nat
      BY <3>1 DEF Embedded!Links
    <3>4. left \in Nat /\ left <= before.retryIn
      BY <2>2, <3>3
    <3> HIDE DEF before, left
    <3>5. link'[slave][output].retryIn = left /\ link'[slave][output] \in Embedded!Links({1})
      BY <3>1, <3>2, <3>4 DEF Embedded!Links
    <3> QED
      BY <3>1, <3>3, <3>4, <3>5
  <2>5. link' \in [Slaves -> [Outputs -> Embedded!Links({1})]]
    BY <2>1, <2>4 DEF Embedded!GatewayTimePasses
  <2> QED
    BY <2>1, <2>3, <2>4, <2>5 DEF Embedded!GatewayTimePasses
<1>2. CASE \E slave \in Slaves : StartPoll(slave)
  <2>1. PICK slave \in Slaves : Embedded!PollStarts(slave, 1)
    BY <1>2 DEF StartPoll
  <2>2. nextPollIn' = [nextPollIn EXCEPT ![slave] = POLL_PERIOD[slave]]
        /\ POLL_PERIOD \in [Slaves -> Nat]
    BY <2>1 DEF Embedded!PollStarts
  <2>3. nextPollIn' \in [Slaves -> Nat]
        /\ \A other \in Slaves : nextPollIn'[other] <= POLL_PERIOD[other]
    BY <2>2
  <2>4. pollTransactionId' \in [Slaves -> {1} \cup {0}]
    BY <2>1 DEF Embedded!PollStarts
  <2> QED
    BY <2>1, <2>3, <2>4 DEF Embedded!PollStarts
<1> QED
  BY <1>1, <1>2

\* What a write or a release of a client changes: one Priority_Array, of the point its
\* address names (main.cpp:755-832).
Commands(address) ==
  \E slave \in FindMappedPoint(address), output \in Outputs :
    /\ <<slave, output>> \in FindCommandable(address)
    /\ \E commanded \in PriorityArrays(Int) :
         priorityArray' = [priorityArray EXCEPT ![slave][output] = commanded]

LEMMA WriteCommands ==
  ASSUME priorityArray \in [Slaves -> [Outputs -> PriorityArrays(Int)]],
         NEW address, NEW write \in Writes, ClientWrite(address, write)
  PROVE  Commands(address)
<1>1. ASSUME NEW array \in PriorityArrays(Int), NEW priority, NEW value \in Int
      PROVE  /\ CommandWrite(array, priority, value) \in PriorityArrays(Int)
             /\ Relinquish(array, priority) \in PriorityArrays(Int)
  BY DEF CommandWrite, Relinquish, PriorityArrays
<1>2. write.value \in Int \cup {Null}
  BY WritesAssumption
<1>3. ASSUME NEW property, NEW type, NEW point \in Commanded(address, property, type)
      PROVE  /\ point[1] \in FindMappedPoint(address) /\ point[2] \in Outputs
             /\ point = <<point[1], point[2]>> /\ point \in FindCommandable(address)
             /\ point[1] \in Slaves
             /\ priorityArray[point[1]][point[2]] \in PriorityArrays(Int)
  BY <1>3 DEF Commanded, FindCommandable, FindMappedPoint
<1>4. CASE write.value = Null
  <2>1. PICK point \in Commanded(address, "PRESENT_VALUE", address.type) :
          priorityArray' = [priorityArray EXCEPT ![point[1]][point[2]] =
                              Relinquish(priorityArray[point[1]][point[2]], write.priority)]
    BY <1>4 DEF ClientWrite, SetPropertyNull
  <2> DEFINE commanded == Relinquish(priorityArray[point[1]][point[2]], write.priority)
  <2>2. commanded \in PriorityArrays(Int)
    <3>1. priorityArray[point[1]][point[2]] \in PriorityArrays(Int) /\ 0 \in Int
      BY <1>3
    <3> QED
      BY <1>1, <3>1, Zenon
  <2> HIDE DEF commanded
  <2> QED
    BY <1>3, <2>1, <2>2 DEF Commands, commanded
<1>5. CASE write.value # Null
  <2>1. PICK point \in FindMappedPoint(address) \X Outputs :
          /\ \E property, type : point \in Commanded(address, property, type)
          /\ priorityArray' = [priorityArray EXCEPT ![point[1]][point[2]] =
               CommandWrite(priorityArray[point[1]][point[2]], write.priority, write.value)]
    BY <1>5 DEF ClientWrite, SetPropertyReal, SetPropertyEnumerated, Commanded, FindCommandable
  <2> DEFINE commanded ==
        CommandWrite(priorityArray[point[1]][point[2]], write.priority, write.value)
  <2>2. commanded \in PriorityArrays(Int)
    <3>1. priorityArray[point[1]][point[2]] \in PriorityArrays(Int)
      BY <1>3, <2>1
    <3>2. write.value \in Int
      BY <1>2, <1>5
    <3> QED
      BY <1>1, <3>1, <3>2, Zenon
  <2> HIDE DEF commanded
  <2> QED
    BY <1>3, <2>1, <2>2 DEF Commands, commanded
<1> QED
  BY <1>4, <1>5

----------------------------------------------------------------------------
(* The command line. *)

\* A set of naturals that is not empty has a lowest one, and, if it is bounded, a highest.
LEMMA LeastExists ==
  ASSUME NEW numbers, numbers \subseteq Nat, numbers # {}
  PROVE  Least(numbers) \in numbers /\ \A other \in numbers : Least(numbers) <= other
<1>1. PICK lowest \in numbers : \A other \in numbers : ~ (<<other, lowest>> \in OpToRel(<, Nat))
  BY WFMin, NatLessThanWellFounded
<1>2. \A other \in numbers : ~(other < lowest)
  BY <1>1 DEF OpToRel
<1>3. \A other \in numbers : lowest <= other
  BY <1>2
<1> QED
  BY <1>3, Zenon DEF Least

LEMMA GreatestExists ==
  ASSUME NEW bound \in Nat, NEW numbers, numbers \subseteq 1 .. bound, numbers # {}
  PROVE  Greatest(numbers) \in numbers
<1> DEFINE below == {bound - number : number \in numbers}
<1>1. below \subseteq Nat /\ below # {}
  <2>1. \A number \in numbers : bound - number \in Nat
    OBVIOUS
  <2> QED
    BY <2>1
<1>2. Least(below) \in below /\ \A other \in below : Least(below) <= other
  <2> HIDE DEF below
  <2> QED
    BY <1>1, LeastExists
<1>3. PICK highest \in numbers : Least(below) = bound - highest
  BY <1>2
<1>4. \A other \in numbers : other <= highest
  <2> SUFFICES ASSUME NEW other \in numbers PROVE other <= highest
    OBVIOUS
  <2>1. bound - other \in below
    OBVIOUS
  <2>2. bound - highest <= bound - other
    BY <1>2, <1>3, <2>1
  <2> QED
    BY <2>2
<1> QED
  BY <1>4, Zenon DEF Greatest

\* The mode is one of the two, and an accepted number is in its range, whatever is typed
\* (main.cpp:1047-1072).
LEMMA ParsedArguments ==
  ASSUME NEW tokens \in Seq(Tokens)
  PROVE  /\ ModeArgIsValid(tokens) => ParseModeArg(tokens) \in MODES
         /\ ParsePortArg(tokens) \in Ports
         /\ ParseDeviceIdArg(tokens) \in Nat
<1>1. DOMAIN tokens = 1 .. Len(tokens) /\ Len(tokens) \in Nat
  BY LenProperties
<1>2. ASSUME ModeArgIsValid(tokens)
      PROVE  ParseModeArg(tokens) \in MODES
  <2> DEFINE positions == Options(tokens, "--mode")
  <2>1. CASE positions = {}
    BY <2>1 DEF ParseModeArg, MODES
  <2>2. CASE positions # {}
    <3>1. positions \subseteq 1 .. Len(tokens)
      BY <1>1 DEF Options
    <3>2. Greatest(positions) \in positions
      <4> HIDE DEF positions
      <4> QED
        BY <1>1, <2>2, <3>1, GreatestExists
    <3> QED
      BY <1>2, <2>2, <3>2 DEF ParseModeArg, ModeArgIsValid
  <2> QED
    BY <2>1, <2>2
<1>3. ASSUME NEW option, NEW acceptable, NEW default
      PROVE  ParseNumberArg(tokens, option, acceptable, default) \in acceptable \cup {default}
  <2> DEFINE valid == {i \in Options(tokens, option) :
                         /\ TokenAfter(tokens, i) \in DOMAIN NumberOf
                         /\ NumberOf[TokenAfter(tokens, i)] \in acceptable}
  <2>1. valid # {} => Least(valid) \in valid
    <3>1. valid \subseteq Nat
      BY <1>1 DEF Options
    <3> HIDE DEF valid
    <3> QED
      BY <3>1, LeastExists
  <2> QED
    BY <2>1 DEF ParseNumberArg
<1>4. ParsePortArg(tokens) \in Ports
  <2>1. ParseNumberArg(tokens, "--port", Ports, DEFAULT_PORT) \in Ports \cup {DEFAULT_PORT}
    BY <1>3, Zenon
  <2> QED
    BY <2>1, DefaultAddressAssumption DEF ParsePortArg
<1>5. ParseDeviceIdArg(tokens) \in Nat
  <2>1. ParseNumberArg(tokens, "--deviceID", DeviceInstances, DEFAULT_DEVICE_INSTANCE)
          \in DeviceInstances \cup {DEFAULT_DEVICE_INSTANCE}
    BY <1>3, Zenon
  <2>2. \A instance \in DeviceInstances : instance \in Nat
    <3>1. MAX_DEVICE_INSTANCE \in Nat
      BY SMT DEF MAX_DEVICE_INSTANCE
    <3> QED
      BY <3>1 DEF DeviceInstances
  <2> QED
    BY <2>1, <2>2, DefaultAddressAssumption DEF ParseDeviceIdArg
<1> QED
  BY <1>2, <1>4, <1>5

ArgumentsOK == argv \in Seq(Tokens)

\* A step of main() touches the cache only in the loop (main.cpp:1167).
LEMMA CacheType ==
  ASSUME TypeOK, [Next]_vars
  PROVE  Embedded!GatewayTypeOK({1})'
<1>1. Embedded!GatewayTypeOK({1}) /\ mode \in MODES
  BY DEF TypeOK
<1>2. CASE ClientWrites
  <2>1. PICK address \in Addresses, write \in Writes : ClientWrite(address, write)
    BY <1>2, Zenon DEF ClientWrites
  <2>2. priorityArray \in [Slaves -> [Outputs -> PriorityArrays(Int)]]
    BY <1>1, SameCache DEF Embedded!GatewayTypeOK
  <2>3. Commands(address)
    BY <2>1, <2>2, WriteCommands
  <2>4. priorityArray' \in [Slaves -> [Outputs -> PriorityArrays(Int)]]
    BY <2>2, <2>3 DEF Commands, FindMappedPoint
  <2>5. UNCHANGED <<measuredTemperature, online, link, discoverable, pollVars>>
    BY <1>2 DEF ClientWrites
  <2> QED
    BY <1>1, <2>4, <2>5, SameCache DEF Embedded!GatewayTypeOK, pollVars
<1>3. CASE TimePasses \/ \E slave \in Slaves : StartPoll(slave)
  BY <1>1, <1>3, PassType
<1>4. CASE \E slave \in Slaves : FinishPoll(slave)
  BY <1>1, <1>4, FinishedPollType
<1>5. CASE UNCHANGED slaveVars
  BY <1>1, <1>5 DEF slaveVars, pollVars, Embedded!GatewayTypeOK
<1>6. CASE ReadArguments \/ SetupUDP \/ StartControl \/ SetUp \/ Announce
             \/ (\E key \in TypedKeys : Type(key)) \/ KeyQuit \/ KeyAnnounce \/ KeyOther \/ Stop
             \/ UNCHANGED vars
  <2>1. UNCHANGED slaveVars
    BY <1>6 DEF ReadArguments, SetupUDP, StartControl, SetUp, Announce, Type, KeyQuit,
                KeyAnnounce, KeyOther, Stop, vars
  <2> QED
    BY <1>5, <2>1
<1> QED
  BY <1>2, <1>3, <1>4, <1>6 DEF Next

\* The stage and the exit code go together; the arguments stay in their ranges
\* (main.cpp:1047-1220).
LEMMA TypeStep ==
  ASSUME TypeOK, ArgumentsOK, SocketsOK, SocketsOK', [Next]_vars
  PROVE  TypeOK' /\ ArgumentsOK'
<1>1. Embedded!GatewayTypeOK({1})'
  BY CacheType
<1>2. {udpSocket, controlSocket}' \subseteq BOOLEAN
  BY DEF SocketsOK
<1>3. mode' \in MODES /\ deviceInstance' \in Nat /\ port' \in Ports /\ ArgumentsOK'
  <2>1. CASE ReadArguments
    <3>1. argv' = <<>> /\ argv \in Seq(Tokens)
      BY <2>1 DEF ReadArguments, ArgumentsOK
    <3>2. ArgumentsOK'
      BY <3>1, EmptySeq DEF ArgumentsOK
    <3>3. CASE UNCHANGED <<mode, deviceInstance, port>>
      BY <3>2, <3>3 DEF TypeOK
    <3>4. CASE /\ ModeArgIsValid(argv) /\ mode' = ParseModeArg(argv)
               /\ deviceInstance' = ParseDeviceIdArg(argv) /\ port' = ParsePortArg(argv)
      BY <3>1, <3>2, <3>4, ParsedArguments
    <3> QED
      BY <2>1, <3>3, <3>4, Zenon DEF ReadArguments
  <2>2. CASE StartControl
    BY <2>2 DEF StartControl, TypeOK, ArgumentsOK
  <2>3. CASE ~ReadArguments /\ ~StartControl
    <3>1. UNCHANGED configVars
      BY <2>3 DEF Next, SetupUDP, SetUp, Announce, ClientWrites, TimePasses, StartPoll,
                  FinishPoll, Type, KeyQuit, KeyAnnounce, KeyOther, Stop, vars
    <3> QED
      BY <3>1 DEF configVars, TypeOK, ArgumentsOK
  <2> QED
    BY <2>1, <2>2, <2>3
<1>4. pc' \in Stages /\ exitCode' \in {NONE, 0, 1} /\ (exitCode' = NONE) = (pc' # "exited")
  <2>1. ASSUME NEW stage \in Stages \ {"exited"}, Goto(stage), pc # "exited"
        PROVE  pc' \in Stages /\ exitCode' \in {NONE, 0, 1}
               /\ (exitCode' = NONE) = (pc' # "exited")
    BY <2>1 DEF Goto, TypeOK
  <2>2. ASSUME NEW code \in {0, 1}, Exit(code)
        PROVE  pc' \in Stages /\ exitCode' \in {NONE, 0, 1}
               /\ (exitCode' = NONE) = (pc' # "exited")
    BY <2>2 DEF Exit, Stages, NONE
  <2>3. CASE UNCHANGED <<pc, exitCode>>
    BY <2>3 DEF TypeOK
  <2>4. CASE ReadArguments
    BY <2>1, <2>2, <2>4 DEF ReadArguments, Stages
  <2>5. CASE SetupUDP \/ StartControl
    BY <2>1, <2>2, <2>5 DEF SetupUDP, StartControl, Stages
  <2>6. CASE SetUp \/ Announce
    BY <2>1, <2>2, <2>6 DEF SetUp, Announce, Stages
  <2>7. CASE \/ ClientWrites \/ TimePasses \/ KeyAnnounce \/ KeyOther
             \/ \E slave \in Slaves : StartPoll(slave) \/ FinishPoll(slave)
    BY <2>1, <2>7 DEF ClientWrites, TimePasses, KeyAnnounce, KeyOther, StartPoll, FinishPoll,
                      NextTick, Stages
  <2>8. CASE KeyQuit \/ Stop
    BY <2>1, <2>2, <2>8 DEF KeyQuit, Stop, Stages
  <2>9. CASE (\E key \in TypedKeys : Type(key)) \/ UNCHANGED vars
    BY <2>3, <2>9 DEF Type, vars
  <2> QED
    BY <2>4, <2>5, <2>6, <2>7, <2>8, <2>9 DEF Next
<1>5. typed' \in Seq(TypedKeys)
  <2>1. CASE \E key \in TypedKeys : Type(key)
    BY <2>1, EmptySeq DEF Type
  <2>2. CASE KeyQuit \/ KeyAnnounce \/ KeyOther
    <3>1. PICK key : PollKey(key)
      BY <2>2 DEF KeyQuit, KeyAnnounce, KeyOther
    <3> DEFINE taken == Len(Taken)
    <3>2. typed' = SubSeq(typed, taken + 1, Len(typed))
      BY <3>1 DEF PollKey
    <3>3. typed \in Seq(TypedKeys) /\ Len(typed) \in Nat
          /\ \A i \in 1 .. Len(typed) : typed[i] \in TypedKeys
      BY LenProperties, ElementOfSeq DEF TypeOK
    <3>4. taken \in Nat
      <4> DEFINE last == IF Len(typed) < ReadSize THEN Len(typed) ELSE ReadSize
      <4>1. last \in Nat /\ last <= Len(typed)
        BY <3>3 DEF ReadSize
      <4> HIDE DEF last
      <4>2. Len(SubSeq(typed, 1, last)) = IF 1 <= last THEN last - 1 + 1 ELSE 0
        BY <3>3, <4>1, SubSeqProperties
      <4> QED
        BY <4>1, <4>2 DEF Taken, last
    <3> HIDE DEF taken
    <3> QED
      BY <3>2, <3>3, <3>4, SubSeqProperties
  <2>3. CASE ~(\E key \in TypedKeys : Type(key)) /\ ~(KeyQuit \/ KeyAnnounce \/ KeyOther)
    <3>1. UNCHANGED typed
      BY <2>3 DEF Next, ReadArguments, SetupUDP, StartControl, SetUp, Announce, ClientWrites,
                  TimePasses, StartPoll, FinishPoll, Stop, keyboardVars, vars
    <3> QED
      BY <3>1 DEF TypeOK
  <2> QED
    BY <2>1, <2>2, <2>3
<1> QED
  BY <1>1, <1>2, <1>3, <1>4, <1>5 DEF TypeOK

\* main() starts well typed, from whatever command line (main.cpp:1040).
LEMMA TypeInit == Init => TypeOK /\ ArgumentsOK
<1> SUFFICES ASSUME Init PROVE TypeOK /\ ArgumentsOK
  OBVIOUS
<1>1. argv \in Seq(Tokens)
  BY LaunchesAssumption DEF Init
<1>2. link \in [Slaves -> [Outputs -> Embedded!Links({1})]]
      /\ \A slave \in Slaves, output \in Outputs :
           link[slave][output].retryIn <= POLL_PERIOD[slave]
  BY SameCache, PollingAssumption DEF Init, Embedded!GatewayInit, Embedded!UnwrittenLink,
       Embedded!Links
<1>3. priorityArray \in [Slaves -> [Outputs -> PriorityArrays(Int)]]
  BY SameCache DEF Init, Embedded!GatewayInit, Embedded!EmptyPriorityArray, PriorityArrays,
       Embedded!Slots, Slots
<1>4. Embedded!GatewayTypeOK({1})
  BY <1>2, <1>3, SameCache, PollingAssumption DEF Init, Embedded!GatewayInit,
     Embedded!GatewayTypeOK, Embedded!DiscoveryServices
<1>5. typed \in Seq(TypedKeys)
  BY EmptySeq DEF Init, KeyboardInit
<1> QED
  BY <1>1, <1>4, <1>5, DefaultAddressAssumption
  DEF Init, TypeOK, ArgumentsOK, MODES, Stages, NONE

\* Whatever the command line, the clients, the slaves and the keys: the mode, the instance,
\* the port and the cache stay in their ranges, and main() has an exit code exactly when it
\* has returned (main.cpp:1040-1220).
THEOREM ProgramTypeCorrect == Spec => []TypeOK
<1>1. Init => TypeOK /\ ArgumentsOK /\ KeyboardOK /\ SocketsOK
  BY TypeInit, EndsInit
<1>2. TypeOK /\ ArgumentsOK /\ KeyboardOK /\ SocketsOK /\ [Next]_vars
        => (TypeOK /\ ArgumentsOK /\ KeyboardOK /\ SocketsOK)'
  BY EndsStep, TypeStep
<1> QED
  BY <1>1, <1>2, PTL DEF Spec

----------------------------------------------------------------------------
(* What the callbacks find. *)

\* A search finds one slave at most: the first that matches (main.cpp:275).
LEMMA FindsOne ==
  ASSUME NEW address, NEW slave \in FindMappedPoint(address)
  PROVE  /\ FindMappedPoint(address) = {slave}
         /\ slave \in Slaves /\ Matches(slave, address)
         /\ address.type \in {"ANALOG_INPUT", "ANALOG_OUTPUT", "BINARY_OUTPUT"}
<1>1. DOMAIN PointKind = {"ANALOG_INPUT", "ANALOG_OUTPUT", "BINARY_OUTPUT"}
  BY DEF PointKind
<1>2. slave \in Slaves /\ Matches(slave, address) /\ address.type \in DOMAIN PointKind
  BY DEF FindMappedPoint
<1>3. ASSUME NEW other \in FindMappedPoint(address)
      PROVE  other = slave
  <2>1. other \in Slaves /\ other <= slave /\ slave <= other
    BY DEF FindMappedPoint
  <2>2. \A one \in Slaves : one \in Int
    BY SlaveCountAssumption DEF Slaves
  <2> QED
    BY <1>2, <2>1, <2>2
<1> QED
  BY <1>1, <1>2, <1>3

\* A mapped object of an output type is that output of that slave (main.cpp:301).
LEMMA FindsOneCommandable ==
  ASSUME NEW address, NEW slave, NEW output, <<slave, output>> \in FindCommandable(address)
  PROVE  /\ FindCommandable(address) = {<<slave, output>>}
         /\ FindMappedPoint(address) = {slave} /\ slave \in Slaves /\ Matches(slave, address)
         /\ output = PointKind[address.type] /\ output \in Outputs
         /\ \/ address.type = "ANALOG_OUTPUT" /\ output = "setpoint"
            \/ address.type = "BINARY_OUTPUT" /\ output = "enable"
<1>1. slave \in FindMappedPoint(address) /\ output \in Outputs /\ output = PointKind[address.type]
  BY DEF FindCommandable
<1>2. /\ FindMappedPoint(address) = {slave} /\ slave \in Slaves /\ Matches(slave, address)
      /\ address.type \in {"ANALOG_INPUT", "ANALOG_OUTPUT", "BINARY_OUTPUT"}
  BY <1>1, FindsOne
<1>3. /\ PointKind["ANALOG_INPUT"] = "temperature" /\ PointKind["ANALOG_OUTPUT"] = "setpoint"
      /\ PointKind["BINARY_OUTPUT"] = "enable"
  BY DEF PointKind
<1>4. \/ address.type = "ANALOG_OUTPUT" /\ output = "setpoint"
      \/ address.type = "BINARY_OUTPUT" /\ output = "enable"
  BY <1>1, <1>2, <1>3 DEF Outputs
<1>5. FindCommandable(address) = {<<slave, output>>}
  <2>1. ASSUME NEW point \in FindCommandable(address)
        PROVE  point = <<slave, output>>
    <3>1. point \in {slave} \X Outputs /\ point[2] = PointKind[address.type]
      BY <1>2 DEF FindCommandable
    <3> QED
      BY <1>1, <3>1
  <2> QED
    BY <2>1
<1> QED
  BY <1>1, <1>2, <1>4, <1>5

\* A callback that finds one slave answers what it makes of that slave.
LEMMA OneAnswer ==
  ASSUME NEW answer
  PROVE  AnswerIn({answer}) = answer
  BY DEF AnswerIn

\* What is read of a commandable object comes from its own Priority_Array and default,
\* by either callback (main.cpp:484, 600).
LEMMA OutputIsServed ==
  ASSUME NEW address, NEW slave, NEW output, <<slave, output>> \in FindCommandable(address),
         NEW property \in {"PRIORITY_ARRAY", "RELINQUISH_DEFAULT"}, NEW index
  PROVE  ServedValue(address, property, index) = OutputValue(slave, output, property, index)
<1>1. /\ FindMappedPoint(address) = {slave} /\ output = PointKind[address.type]
      /\ \/ address.type = "ANALOG_OUTPUT" /\ output = "setpoint"
         \/ address.type = "BINARY_OUTPUT" /\ output = "enable"
  BY FindsOneCommandable
<1>2. CASE address.type = "ANALOG_OUTPUT" /\ output = "setpoint"
  <2>1. {RealOf(found, PointKind[address.type], property, index) :
           found \in FindMappedPoint(address)} = {RealOf(slave, "setpoint", property, index)}
    BY <1>1, <1>2
  <2>2. GetPropertyReal(address, property, index) = RealOf(slave, "setpoint", property, index)
    BY <2>1, OneAnswer DEF GetPropertyReal
  <2> QED
    BY <1>2, <2>2 DEF ServedValue, RealOf
<1>3. CASE address.type = "BINARY_OUTPUT" /\ output = "enable"
  <2>1. {EnumeratedOf(found, PointKind[address.type], property, index) :
           found \in FindMappedPoint(address)} = {EnumeratedOf(slave, "enable", property, index)}
    BY <1>1, <1>3
  <2>2. GetPropertyEnumerated(address, property, index)
          = EnumeratedOf(slave, "enable", property, index)
    BY <1>1, <2>1, OneAnswer DEF GetPropertyEnumerated
  <2>3. EnumeratedOf(slave, "enable", property, index)
          = OutputValue(slave, "enable", property, index)
    BY DEF EnumeratedOf
  <2> QED
    BY <1>3, <2>2, <2>3 DEF ServedValue
<1> QED
  BY <1>1, <1>2, <1>3

\* A slot is called NULL exactly while nothing is commanded in it (main.cpp:519).
LEMMA SlotIsNull ==
  ASSUME NEW address, NEW slave, NEW output, <<slave, output>> \in FindCommandable(address),
         NEW slot \in Slots
  PROVE  GetPropertyBool(address, "PRIORITY_ARRAY", slot) =
           (priorityArray[slave][output][slot] = Null)
<1>1. FindCommandable(address) = {<<slave, output>>}
  BY FindsOneCommandable
<1>2. ReadsSlot("PRIORITY_ARRAY", slot)
  BY DEF ReadsSlot
<1> DEFINE isNull == priorityArray[slave][output][slot] = Null
<1>3. {priorityArray[point[1]][point[2]][slot] = Null : point \in FindCommandable(address)}
        = {isNull}
  BY <1>1
<1> HIDE DEF isNull
<1>4. GetPropertyBool(address, "PRIORITY_ARRAY", slot) = isNull
  BY <1>1, <1>2, <1>3, OneAnswer DEF GetPropertyBool
<1> QED
  BY <1>4 DEF isNull

\* The Present_Value the callbacks make the stack show is the winner the gateway resolves
\* (main.cpp:197, 263).
LEMMA ServedIsWinning ==
  ASSUME Embedded!GatewayTypeOK({1}), NEW address, NEW slave, NEW output,
         <<slave, output>> \in FindCommandable(address)
  PROVE  /\ ServedPresentValue(address) = Embedded!Winning(slave, output)
         /\ ServedPresentValue(address) \in Int
<1> DEFINE array == priorityArray[slave][output]
           default == RELINQUISH_DEFAULT[slave][output]
           set == {slot \in Slots : GetPropertyBool(address, "PRIORITY_ARRAY", slot) = FALSE}
<1>1. slave \in Slaves /\ output \in Outputs
  BY FindsOneCommandable
<1>2. array \in PriorityArrays(Int) /\ default \in Int
  BY <1>1, SameCache, ObjectDefaultsAssumption DEF Embedded!GatewayTypeOK
<1>3. set = SetSlots(array)
  <2>1. ASSUME NEW slot \in Slots
        PROVE  (GetPropertyBool(address, "PRIORITY_ARRAY", slot) = FALSE) <=> array[slot] # Null
    <3>1. GetPropertyBool(address, "PRIORITY_ARRAY", slot) = (array[slot] = Null)
      BY SlotIsNull
    <3> QED
      BY <3>1, Zenon
  <2> QED
    BY <2>1, Zenon DEF SetSlots
<1>4. Embedded!SetSlots(array) = SetSlots(array)
  BY DEF Embedded!SetSlots, SetSlots, Embedded!Slots, Slots
<1> HIDE DEF set
<1>5. CASE set = {}
  <2>1. ServedPresentValue(address) = OutputValue(slave, output, "RELINQUISH_DEFAULT", 0)
    BY <1>5, OutputIsServed DEF ServedPresentValue, set
  <2>2. ServedPresentValue(address) = default
    BY <2>1 DEF OutputValue, ReadsSlot
  <2> QED
    BY <1>2, <1>3, <1>4, <1>5, <2>2 DEF Embedded!Winning, Embedded!WinningValue
<1>6. CASE set # {}
  <2>1. Least(set) \in set
    <3>1. set \subseteq Nat
      BY PrioritiesAssumption DEF set, Slots
    <3> QED
      BY <1>6, <3>1, LeastExists
  <2> DEFINE slot == Least(set)
  <2>2. slot \in Slots /\ array[slot] # Null /\ array[slot] \in Int
    BY <1>2, <1>3, <2>1 DEF SetSlots, PriorityArrays
  <2>3. ServedPresentValue(address) = OutputValue(slave, output, "PRIORITY_ARRAY", slot)
    BY <1>6, OutputIsServed DEF ServedPresentValue, set
  <2>4. ServedPresentValue(address) = array[slot]
    BY <2>2, <2>3 DEF OutputValue, ReadsSlot, SlotValue
  <2>5. Embedded!Winning(slave, output) = array[slot]
    BY <1>3, <1>4, <1>6 DEF Embedded!Winning, Embedded!WinningValue, Least
  <2> QED
    BY <2>2, <2>4, <2>5
<1> QED
  BY <1>5, <1>6

\* Whatever was commanded and released, in either mode: clients are shown the value that
\* the gateway writes to the slave (main.cpp:197, 263, 484, 519, 600).
THEOREM ServedIsWritten == Spec => []ServedMeansWritten
<1>1. TypeOK => ServedMeansWritten
  <2> SUFFICES ASSUME TypeOK, NEW address \in Addresses, NEW point \in FindCommandable(address)
               PROVE  ServedPresentValue(address) = Embedded!Winning(point[1], point[2])
    BY DEF ServedMeansWritten
  <2>1. point = <<point[1], point[2]>>
    BY DEF FindCommandable
  <2> QED
    BY <2>1, ServedIsWinning DEF TypeOK
<1> QED
  BY <1>1, ProgramTypeCorrect, PTL

----------------------------------------------------------------------------
(* The set-up calls in their order. *)

CallOps == {"AddDevice", "AddDeviceToVirtualNetwork", "AddObject", "AddVirtualNetwork",
            "SetServiceEnabled", "SetPropertyEnabled", "SetPropertyWritable"}
Features == {"object", "RELIABILITY", "DESCRIPTION", "PRIORITY_ARRAY", "RELINQUISH_DEFAULT",
             "PRESENT_VALUE", "READ_PROPERTY", "WRITE_PROPERTY", "WHO_IS", "I_AM", "WHO_HAS",
             "I_HAVE", "DEVICE_COMMUNICATION_CONTROL"}
Calls == [op : CallOps, device : Int, type : Types, instance : Int, what : Features,
          network : Int]

\* The stack accepts the calls `todo`, one after the other, once it has accepted `done`.
Runs(done, todo) ==
  \A i \in DOMAIN todo : IsPossible(done \cup {todo[j] : j \in 1 .. i - 1}, todo[i])

\* The objects that calls have made.
Objects(done) ==
  {<<call.device, call.type, call.instance>> : call \in {made \in done : made.what = "object"}}

\* The networks that calls have added.
Networks(done) == {call.network : call \in {made \in done : made.op = "AddVirtualNetwork"}}

LEMMA HasObject ==
  ASSUME NEW done, NEW device, NEW type, NEW instance
  PROVE  Has(done, device, type, instance) <=> <<device, type, instance>> \in Objects(done)
  BY Zenon DEF Has, Objects

LEMMA ObjectsOfBoth ==
  ASSUME NEW done, NEW more
  PROVE  Objects(done \cup more) = Objects(done) \cup Objects(more)
  BY Zenon DEF Objects

\* A single call.
LEMMA RunsOne ==
  ASSUME NEW done, NEW call \in Calls, IsPossible(done, call)
  PROVE  /\ <<call>> \in Seq(Calls) /\ Range(<<call>>) = {call} /\ Runs(done, <<call>>)
<1>1. <<call>> \in Seq(Calls) /\ DOMAIN <<call>> = {1} /\ <<call>>[1] = call
  OBVIOUS
<1>2. Range(<<call>>) = {call}
  BY <1>1 DEF Range
<1>3. Runs(done, <<call>>)
  <2>1. done \cup {<<call>>[j] : j \in 1 .. 1 - 1} = done
    OBVIOUS
  <2> QED
    BY <1>1, <2>1 DEF Runs
<1> QED
  BY <1>1, <1>2, <1>3

\* The members of a sequence, by position.
LEMMA RangeMembers ==
  ASSUME NEW S, NEW todo \in Seq(S)
  PROVE  /\ Range(todo) = {todo[j] : j \in 1 .. Len(todo)}
         /\ DOMAIN todo = 1 .. Len(todo) /\ Len(todo) \in Nat
  BY LenProperties DEF Range

\* Calls after calls.
LEMMA RunsBoth ==
  ASSUME NEW done, NEW first \in Seq(Calls), NEW second \in Seq(Calls),
         Runs(done, first), Runs(done \cup Range(first), second)
  PROVE  /\ first \o second \in Seq(Calls)
         /\ Range(first \o second) = Range(first) \cup Range(second)
         /\ Runs(done, first \o second)
<1> DEFINE both == first \o second
           m == Len(first)
           n == Len(second)
<1>1. /\ both \in Seq(Calls) /\ Len(both) = m + n
      /\ \A i \in 1 .. m + n : both[i] = IF i <= m THEN first[i] ELSE second[i - m]
  BY ConcatProperties
<1>2. /\ DOMAIN first = 1 .. m /\ m \in Nat /\ Range(first) = {first[j] : j \in 1 .. m}
      /\ DOMAIN second = 1 .. n /\ n \in Nat
      /\ DOMAIN both = 1 .. m + n
  BY <1>1, RangeMembers
<1>3. Range(both) = Range(first) \cup Range(second)
  BY RangeConcatenation
<1> HIDE DEF both, m, n
<1>4. ASSUME NEW i \in 1 .. m + n
      PROVE  IsPossible(done \cup {both[j] : j \in 1 .. i - 1}, both[i])
  <2>1. CASE i <= m
    <3>1. i \in 1 .. m /\ both[i] = first[i] /\ \A j \in 1 .. i - 1 : both[j] = first[j]
      BY <1>1, <1>2, <2>1
    <3>2. {both[j] : j \in 1 .. i - 1} = {first[j] : j \in 1 .. i - 1}
      BY <3>1
    <3> QED
      BY <1>2, <3>1, <3>2 DEF Runs
  <2>2. CASE i > m
    <3>1. i - m \in 1 .. n /\ both[i] = second[i - m]
      BY <1>1, <1>2, <2>2
    <3> DEFINE before == {both[j] : j \in 1 .. i - 1}
               later == {second[j] : j \in 1 .. i - m - 1}
    <3>2. before = Range(first) \cup later
      <4>1. ASSUME NEW j \in 1 .. i - 1
            PROVE  both[j] \in {first[k] : k \in 1 .. m} \cup later
        <5>1. CASE j <= m
          <6>1. j \in 1 .. m /\ both[j] = first[j]
            BY <1>1, <1>2, <5>1
          <6> QED
            BY <6>1
        <5>2. CASE j > m
          <6>1. j - m \in 1 .. i - m - 1 /\ both[j] = second[j - m]
            BY <1>1, <1>2, <5>2
          <6> QED
            BY <6>1
        <5> QED
          BY <1>2, <5>1, <5>2
      <4>2. ASSUME NEW k \in 1 .. m
            PROVE  first[k] \in before
        <5>1. k \in 1 .. i - 1 /\ both[k] = first[k]
          BY <1>1, <1>2, <2>2
        <5> QED
          BY <5>1
      <4>3. ASSUME NEW k \in 1 .. i - m - 1
            PROVE  second[k] \in before
        <5>1. k + m \in 1 .. i - 1 /\ k + m \in 1 .. m + n /\ ~(k + m <= m) /\ (k + m) - m = k
          BY <1>2
        <5>2. both[k + m] = second[k]
          BY <1>1, <5>1
        <5> QED
          BY <5>1, <5>2
      <4>4. before \subseteq {first[k] : k \in 1 .. m} \cup later
        BY <4>1
      <4>5. {first[k] : k \in 1 .. m} \cup later \subseteq before
        <5> HIDE DEF before
        <5> QED
          BY <4>2, <4>3
      <4> QED
        BY <1>2, <4>4, <4>5
    <3> HIDE DEF before, later
    <3>3. done \cup before = (done \cup Range(first)) \cup later
      BY <3>2
    <3>4. IsPossible((done \cup Range(first)) \cup later, second[i - m])
      <4>1. \A k \in 1 .. n :
              IsPossible((done \cup Range(first)) \cup {second[j] : j \in 1 .. k - 1}, second[k])
        BY <1>2 DEF Runs
      <4> QED
        BY <3>1, <4>1 DEF later
    <3> QED
      BY <3>1, <3>3, <3>4 DEF before
  <2> QED
    BY <1>2, <2>1, <2>2
<1>5. Runs(done, both)
  BY <1>2, <1>4 DEF Runs
<1> QED
  BY <1>1, <1>3, <1>5 DEF both

\* The first of the calls, and the rest of them.
LEMMA RunsOn ==
  ASSUME NEW done, NEW todo \in Seq(Calls), todo # <<>>, Runs(done, todo)
  PROVE  /\ Tail(todo) \in Seq(Calls)
         /\ IsPossible(done, Head(todo))
         /\ Runs(done \cup {Head(todo)}, Tail(todo))
         /\ Range(todo) = {Head(todo)} \cup Range(Tail(todo))
<1> DEFINE rest == Tail(todo)
           n == Len(rest)
           head == Head(todo)
<1>1. /\ rest \in Seq(Calls) /\ Len(todo) = n + 1 /\ n \in Nat
      /\ \A i \in 1 .. n : rest[i] = todo[i + 1]
      /\ head = todo[1]
  BY HeadTailProperties, EmptySeq, LenProperties
<1>2. /\ DOMAIN todo = 1 .. n + 1 /\ Range(todo) = {todo[j] : j \in 1 .. n + 1}
      /\ DOMAIN rest = 1 .. n /\ Range(rest) = {rest[j] : j \in 1 .. n}
  BY <1>1, RangeMembers, ZenonT(30)
<1> HIDE DEF rest, n, head
<1>3. IsPossible(done, head)
  <2>1. done \cup {todo[j] : j \in 1 .. 1 - 1} = done /\ 1 \in 1 .. n + 1
    BY <1>1
  <2> QED
    BY <1>1, <1>2, <2>1 DEF Runs
<1>4. ASSUME NEW i \in 1 .. n
      PROVE  IsPossible((done \cup {head}) \cup {rest[j] : j \in 1 .. i - 1}, rest[i])
  <2> DEFINE before == {todo[j] : j \in 1 .. i}
             later == {rest[j] : j \in 1 .. i - 1}
  <2>1. before = {head} \cup later
    <3>1. ASSUME NEW j \in 1 .. i
          PROVE  todo[j] \in {head} \cup later
      <4>1. CASE j = 1
        BY <1>1, <4>1
      <4>2. CASE j # 1
        <5>1. j - 1 \in 1 .. i - 1 /\ j - 1 \in 1 .. n /\ (j - 1) + 1 = j
          BY <1>1, <4>2
        <5>2. todo[j] = rest[j - 1]
          BY <1>1, <5>1
        <5> QED
          BY <5>1, <5>2
      <4> QED
        BY <4>1, <4>2
    <3>2. ASSUME NEW j \in 1 .. i - 1
          PROVE  rest[j] \in before
      <4>1. j \in 1 .. n /\ j + 1 \in 1 .. i
        BY <1>1
      <4>2. rest[j] = todo[j + 1]
        BY <1>1, <4>1
      <4> QED
        BY <4>1, <4>2
    <3>3. head \in before
      BY <1>1
    <3>4. before \subseteq {head} \cup later
      BY <3>1
    <3>5. later \subseteq before
      <4> HIDE DEF before
      <4> QED
        BY <3>2
    <3> HIDE DEF before, later
    <3> QED
      BY <3>3, <3>4, <3>5
  <2>2. IsPossible(done \cup before, todo[i + 1])
    <3>1. i + 1 \in 1 .. n + 1 /\ (i + 1) - 1 = i
      BY <1>1
    <3>2. \A k \in 1 .. n + 1 : IsPossible(done \cup {todo[j] : j \in 1 .. k - 1}, todo[k])
      BY <1>2 DEF Runs
    <3>3. IsPossible(done \cup {todo[j] : j \in 1 .. (i + 1) - 1}, todo[i + 1])
      BY <3>1, <3>2, Zenon
    <3> QED
      BY <3>1, <3>3
  <2> HIDE DEF before, later
  <2>3. done \cup before = (done \cup {head}) \cup later
    BY <2>1
  <2> QED
    BY <1>1, <2>2, <2>3 DEF later
<1>5. Runs(done \cup {head}, rest)
  BY <1>2, <1>4 DEF Runs
<1>6. Range(todo) = {head} \cup Range(rest)
  <2>1. ASSUME NEW j \in 1 .. n + 1
        PROVE  todo[j] \in {head} \cup {rest[i] : i \in 1 .. n}
    <3>1. CASE j = 1
      BY <1>1, <3>1
    <3>2. CASE j # 1
      <4>1. j - 1 \in 1 .. n /\ (j - 1) + 1 = j
        BY <1>1, <3>2
      <4>2. todo[j] = rest[j - 1]
        BY <1>1, <4>1
      <4> QED
        BY <4>1, <4>2
    <3> QED
      BY <3>1, <3>2
  <2>2. ASSUME NEW i \in 1 .. n
        PROVE  rest[i] \in {todo[j] : j \in 1 .. n + 1}
    <3>1. i + 1 \in 1 .. n + 1 /\ rest[i] = todo[i + 1]
      BY <1>1
    <3> QED
      BY <3>1
  <2>3. head \in {todo[j] : j \in 1 .. n + 1}
    BY <1>1
  <2> QED
    BY <1>2, <2>1, <2>2, <2>3
<1> QED
  BY <1>1, <1>3, <1>5, <1>6 DEF rest, head

\* When a call is possible, in terms of the objects and the networks there are.
LEMMA PossibleMeans ==
  ASSUME NEW done, NEW call
  PROVE  IsPossible(done, call) <=>
           /\ call.what = "object" =>
                <<call.device, call.type, call.instance>> \notin Objects(done)
           /\ call.op = "AddDeviceToVirtualNetwork" => call.network \in Networks(done)
           /\ call.op \notin {"AddDevice", "AddDeviceToVirtualNetwork"} =>
                <<call.device, "DEVICE", call.device>> \in Objects(done)
           /\ call.op \in {"SetPropertyEnabled", "SetPropertyWritable"} =>
                <<call.device, call.type, call.instance>> \in Objects(done)
<1>1. HasNetwork(done, call.network) <=> call.network \in Networks(done)
  BY Zenon DEF HasNetwork, Networks
<1> QED
  BY <1>1, HasObject, Zenon DEF IsPossible

\* A call makes an object if it is about one.
LEMMA ObjectOfCall ==
  ASSUME NEW call, call.what = "object"
  PROVE  Objects({call}) = {<<call.device, call.type, call.instance>>}
  BY DEF Objects

\* The calls `todo` are accepted after `done`, and add `made`.
Builds(done, todo, made) == todo \in Seq(Calls) /\ Range(todo) = made /\ Runs(done, todo)

LEMMA BuildsBoth ==
  ASSUME NEW done, NEW first, NEW second, NEW made, NEW more,
         Builds(done, first, made), Builds(done \cup made, second, more)
  PROVE  Builds(done, first \o second, made \cup more)
<1>1. /\ first \in Seq(Calls) /\ second \in Seq(Calls)
      /\ Runs(done, first) /\ Runs(done \cup Range(first), second)
  BY DEF Builds
<1>2. /\ first \o second \in Seq(Calls)
      /\ Range(first \o second) = Range(first) \cup Range(second)
      /\ Runs(done, first \o second)
  BY <1>1, RunsBoth
<1> QED
  BY <1>2 DEF Builds

LEMMA BuildsNone ==
  ASSUME NEW done
  PROVE  Builds(done, <<>>, {})
<1>1. <<>> \in Seq(Calls) /\ DOMAIN <<>> = {}
  BY EmptySeq
<1> QED
  BY <1>1 DEF Builds, Runs, Range

\* Calls that switch on `features`: none makes an object.
Switched(op, device, type, instance, features) ==
  {Call(op, device, type, instance, what) : what \in features}

LEMMA SwitchesMakeNone ==
  ASSUME NEW op, NEW device, NEW type, NEW instance, NEW features, "object" \notin features
  PROVE  Objects(Switched(op, device, type, instance, features)) = {}
<1>1. ASSUME NEW call \in Switched(op, device, type, instance, features)
      PROVE  call.what # "object"
  BY <1>1 DEF Switched, Call
<1> QED
  BY <1>1 DEF Objects

\* Switching on services or properties of a device or an object that is there
\* (main.cpp:933, 965).
LEMMA SwitchesRun ==
  ASSUME NEW done, NEW op \in {"SetServiceEnabled", "SetPropertyEnabled", "SetPropertyWritable"},
         NEW device \in Int, NEW type \in Types, NEW instance \in Int,
         NEW features \in Seq(Features \ {"object"}),
         <<device, "DEVICE", device>> \in Objects(done),
         <<device, type, instance>> \in Objects(done)
  PROVE  Builds(done, [i \in DOMAIN features |-> Call(op, device, type, instance, features[i])],
                Switched(op, device, type, instance, Range(features)))
<1> DEFINE todo == [i \in DOMAIN features |-> Call(op, device, type, instance, features[i])]
           n == Len(features)
<1>1. n \in Nat /\ DOMAIN features = 1 .. n /\ \A i \in 1 .. n : features[i] \in Features \ {"object"}
  BY LenProperties, ElementOfSeq
<1>2. op \in CallOps /\ NO_NETWORK \in Int
  BY DEF CallOps, NO_NETWORK
<1>3. ASSUME NEW i \in 1 .. n
      PROVE  /\ todo[i] \in Calls /\ todo[i].what # "object" /\ todo[i].op = op
             /\ todo[i].device = device /\ todo[i].type = type /\ todo[i].instance = instance
  <2>1. features[i] \in Features /\ features[i] # "object"
    BY <1>1
  <2>2. todo[i] = Call(op, device, type, instance, features[i])
    BY <1>1
  <2> QED
    BY <1>2, <2>1, <2>2 DEF Call, Calls
<1>4. todo \in Seq(Calls) /\ DOMAIN todo = 1 .. n
  <2>1. todo \in [1 .. n -> Calls]
    BY <1>1, <1>3
  <2>2. todo \in UNION {[1 .. m -> Calls] : m \in Nat}
    <3> HIDE DEF todo
    <3> QED
      BY <1>1, <2>1
  <2> QED
    BY <1>1, <2>2, SeqDef
<1>5. Range(todo) = Switched(op, device, type, instance, Range(features))
  BY Zenon DEF Range, Switched
<1> HIDE DEF todo
<1>6. ASSUME NEW i \in 1 .. n, NEW more
      PROVE  IsPossible(done \cup more, todo[i])
  <2>1. /\ <<device, "DEVICE", device>> \in Objects(done \cup more)
        /\ <<device, type, instance>> \in Objects(done \cup more)
    BY ObjectsOfBoth
  <2> QED
    BY <1>3, <2>1, PossibleMeans
<1>7. Runs(done, todo)
  BY <1>4, <1>6 DEF Runs
<1> QED
  BY <1>4, <1>5, <1>7 DEF todo, Builds

\* A call that adds an object which is not there, to a device that is.
LEMMA AddingCallRuns ==
  ASSUME NEW done, NEW device \in Int, NEW type \in Types, NEW instance \in Int,
         NEW call \in Calls, call.op \in {"AddObject", "AddVirtualNetwork"},
         call.device = device, call.type = type, call.instance = instance, call.what = "object",
         <<device, "DEVICE", device>> \in Objects(done),
         <<device, type, instance>> \notin Objects(done)
  PROVE  Builds(done, <<call>>, {call}) /\ Objects({call}) = {<<device, type, instance>>}
<1>1. Objects({call}) = {<<device, type, instance>>}
  BY ObjectOfCall
<1>2. IsPossible(done, call)
  BY PossibleMeans
<1> QED
  BY <1>1, <1>2, RunsOne DEF Builds

LEMMA AddingRuns ==
  ASSUME NEW done, NEW device \in Int, NEW type \in Types, NEW instance \in Int,
         <<device, "DEVICE", device>> \in Objects(done),
         <<device, type, instance>> \notin Objects(done)
  PROVE  LET call == Call("AddObject", device, type, instance, "object")
         IN /\ Builds(done, <<call>>, {call})
            /\ Objects({call}) = {<<device, type, instance>>}
<1> DEFINE call == Call("AddObject", device, type, instance, "object")
<1>1. /\ call \in Calls
      /\ call.op = "AddObject" /\ call.device = device /\ call.type = type
      /\ call.instance = instance /\ call.what = "object"
  <2>1. "AddObject" \in CallOps /\ "object" \in Features /\ NO_NETWORK \in Int
    BY DEF CallOps, Features, NO_NETWORK
  <2> QED
    BY <2>1 DEF Call, Calls
<1> HIDE DEF call
<1> QED
  BY <1>1, AddingCallRuns DEF call

\* A call that adds a device, where it has to its network is there.
AddsDevice(done, adding, device) ==
  /\ adding \in Calls
  /\ adding.op \in {"AddDevice", "AddDeviceToVirtualNetwork"}
  /\ adding.device = device /\ adding.type = "DEVICE" /\ adding.instance = device
  /\ adding.what = "object"
  /\ adding.op = "AddDeviceToVirtualNetwork" => adding.network \in Networks(done)

\* The gateway is added as it is, a virtual device to its network (main.cpp:1099, 1141).
LEMMA DevicesAreAdded ==
  ASSUME NEW done, NEW device \in Int
  PROVE  /\ AddsDevice(done, AddDevice(device), device)
         /\ VIRTUAL_NETWORK_NUMBER \in Networks(done) =>
              AddsDevice(done, AddDeviceToVirtualNetwork(device), device)
<1>1. /\ {"AddDevice", "AddDeviceToVirtualNetwork"} \subseteq CallOps /\ "object" \in Features
      /\ "DEVICE" \in Types /\ VIRTUAL_NETWORK_NUMBER \in Int /\ NO_NETWORK \in Int
  BY DEF CallOps, Features, Types, VIRTUAL_NETWORK_NUMBER, NO_NETWORK
<1>2. AddsDevice(done, AddDevice(device), device)
  BY <1>1 DEF AddDevice, Call, Calls, AddsDevice
<1>3. ASSUME VIRTUAL_NETWORK_NUMBER \in Networks(done)
      PROVE  AddsDevice(done, AddDeviceToVirtualNetwork(device), device)
  BY <1>1, <1>3 DEF AddDeviceToVirtualNetwork, OnVirtualNetwork, Call, Calls, AddsDevice
<1> QED
  BY <1>2, <1>3

\* A call that adds a device which is not there.
LEMMA AddingDeviceRuns ==
  ASSUME NEW done, NEW device \in Int, <<device, "DEVICE", device>> \notin Objects(done),
         NEW adding, AddsDevice(done, adding, device)
  PROVE  /\ Builds(done, <<adding>>, {adding})
         /\ Objects({adding}) = {<<device, "DEVICE", device>>}
<1>1. Objects({adding}) = {<<device, "DEVICE", device>>}
  BY ObjectOfCall DEF AddsDevice
<1>2. IsPossible(done, adding) /\ adding \in Calls
  BY PossibleMeans DEF AddsDevice
<1> QED
  BY <1>1, <1>2, RunsOne DEF Builds

\* What the blocks of set-up calls add.
MappedMade(device, type, instance) ==
  ({Call("AddObject", device, type, instance, "object")}
     \cup Switched("SetPropertyEnabled", device, type, instance, {"RELIABILITY", "DESCRIPTION"}))
    \cup (IF type = "ANALOG_INPUT" THEN {}
          ELSE Switched("SetPropertyEnabled", device, type, instance,
                        {"PRIORITY_ARRAY", "RELINQUISH_DEFAULT"})
                 \cup Switched("SetPropertyWritable", device, type, instance, {"PRESENT_VALUE"}))

\* A mapped object is added to a device which does not have it (main.cpp:965-1012).
LEMMA MappedObjectBuilds ==
  ASSUME NEW done, NEW device \in Int, NEW type \in DOMAIN PointKind, NEW instance \in Int,
         <<device, "DEVICE", device>> \in Objects(done),
         <<device, type, instance>> \notin Objects(done)
  PROVE  /\ Builds(done, AddMappedObject(device, type, instance),
                   MappedMade(device, type, instance))
         /\ Objects(MappedMade(device, type, instance)) = {<<device, type, instance>>}
<1> DEFINE call == Call("AddObject", device, type, instance, "object")
           always == Switched("SetPropertyEnabled", device, type, instance,
                              {"RELIABILITY", "DESCRIPTION"})
           array == Switched("SetPropertyEnabled", device, type, instance,
                             {"PRIORITY_ARRAY", "RELINQUISH_DEFAULT"})
           value == Switched("SetPropertyWritable", device, type, instance, {"PRESENT_VALUE"})
           alwaysCalls == EnableProperties(device, type, instance,
                                           <<"RELIABILITY", "DESCRIPTION">>)
           arrayCalls == EnableProperties(device, type, instance,
                                          <<"PRIORITY_ARRAY", "RELINQUISH_DEFAULT">>)
           valueCalls == <<Call("SetPropertyWritable", device, type, instance, "PRESENT_VALUE")>>
<1>1. type \in Types
  BY DEF Types
<1>2. Builds(done, <<call>>, {call}) /\ Objects({call}) = {<<device, type, instance>>}
  BY <1>1, AddingRuns
<1> DEFINE there == done \cup {call}
<1>3. <<device, "DEVICE", device>> \in Objects(there) /\ <<device, type, instance>> \in Objects(there)
  <2> HIDE DEF call
  <2> QED
    BY <1>2, ObjectsOfBoth
<1>4. ASSUME NEW more
      PROVE  /\ <<device, "DEVICE", device>> \in Objects(there \cup more)
             /\ <<device, type, instance>> \in Objects(there \cup more)
  <2> HIDE DEF there
  <2> QED
    BY <1>3, ObjectsOfBoth
<1> HIDE DEF there
<1>5. Builds(there, alwaysCalls, always)
  <2>1. <<"RELIABILITY", "DESCRIPTION">> \in Seq(Features \ {"object"})
    BY DEF Features
  <2>2. Range(<<"RELIABILITY", "DESCRIPTION">>) = {"RELIABILITY", "DESCRIPTION"}
    BY DEF Range
  <2> QED
    BY <1>1, <1>3, <2>1, <2>2, SwitchesRun DEF EnableProperties
<1>6. Builds(there \cup always, arrayCalls, array)
  <2>1. <<"PRIORITY_ARRAY", "RELINQUISH_DEFAULT">> \in Seq(Features \ {"object"})
    BY DEF Features
  <2>2. Range(<<"PRIORITY_ARRAY", "RELINQUISH_DEFAULT">>) = {"PRIORITY_ARRAY", "RELINQUISH_DEFAULT"}
    BY DEF Range
  <2>3. /\ <<device, "DEVICE", device>> \in Objects(there \cup always)
        /\ <<device, type, instance>> \in Objects(there \cup always)
    BY <1>4
  <2> HIDE DEF always
  <2> QED
    BY <1>1, <2>1, <2>2, <2>3, SwitchesRun DEF EnableProperties
<1>7. Builds((there \cup always) \cup array, valueCalls, value)
  <2> DEFINE one == Call("SetPropertyWritable", device, type, instance, "PRESENT_VALUE")
             before == (there \cup always) \cup array
  <2>1. /\ one \in Calls /\ one.op = "SetPropertyWritable" /\ one.what # "object"
        /\ one.device = device /\ one.type = type /\ one.instance = instance
    BY <1>1 DEF Call, Calls, CallOps, Features, NO_NETWORK
  <2>2. before = there \cup (always \cup array)
    OBVIOUS
  <2>3. /\ <<device, "DEVICE", device>> \in Objects(before)
        /\ <<device, type, instance>> \in Objects(before)
    BY <1>4, <2>2
  <2>4. value = {one}
    BY DEF Switched
  <2> HIDE DEF one, before, value
  <2>5. IsPossible(before, one)
    BY <2>1, <2>3, PossibleMeans
  <2>6. Builds(before, <<one>>, {one})
    BY <2>1, <2>5, RunsOne DEF Builds
  <2> QED
    BY <2>4, <2>6 DEF one, before
<1>8. Objects(always) = {} /\ Objects(array) = {} /\ Objects(value) = {}
  BY SwitchesMakeNone, Zenon
<1> DEFINE some == IF type = "ANALOG_INPUT" THEN <<>> ELSE arrayCalls \o valueCalls
           someMade == IF type = "ANALOG_INPUT" THEN {} ELSE array \cup value
<1>9. AddMappedObject(device, type, instance) = (<<call>> \o alwaysCalls) \o some
  BY Zenon DEF AddMappedObject
<1>10. MappedMade(device, type, instance) = ({call} \cup always) \cup someMade
  BY Zenon DEF MappedMade
<1>11. there = done \cup {call}
  BY DEF there
<1> HIDE DEF call, always, array, value, alwaysCalls, arrayCalls, valueCalls
<1>12. Builds(done, <<call>> \o alwaysCalls, {call} \cup always)
  BY <1>2, <1>5, <1>11, BuildsBoth
<1>13. Builds(done \cup ({call} \cup always), some, someMade)
  <2>1. done \cup ({call} \cup always) = there \cup always
    BY <1>11
  <2>2. Builds(there \cup always, arrayCalls \o valueCalls, array \cup value)
    BY <1>6, <1>7, BuildsBoth
  <2>3. Builds(there \cup always, <<>>, {})
    BY BuildsNone
  <2> QED
    BY <2>1, <2>2, <2>3
<1>14. Objects(someMade) = {}
  <2>1. Objects(array \cup value) = {}
    BY <1>8, ObjectsOfBoth
  <2>2. Objects({}) = {}
    BY DEF Objects
  <2> QED
    BY <2>1, <2>2
<1> HIDE DEF some, someMade
<1>15. Objects(({call} \cup always) \cup someMade) = {<<device, type, instance>>}
  <2>1. Objects({call} \cup always) = Objects({call}) \cup Objects(always)
    BY ObjectsOfBoth, Zenon
  <2>2. Objects(({call} \cup always) \cup someMade) = Objects({call} \cup always) \cup Objects(someMade)
    BY ObjectsOfBoth, Zenon
  <2>3. Objects({call}) = {<<device, type, instance>>}
    BY <1>2 DEF call
  <2> QED
    BY <1>8, <1>14, <2>1, <2>2, <2>3
<1>16. Builds(done, (<<call>> \o alwaysCalls) \o some, ({call} \cup always) \cup someMade)
  BY <1>12, <1>13, BuildsBoth, Zenon
<1> QED
  BY <1>9, <1>10, <1>15, <1>16

MappedObjectsMade(device, instance) ==
  (MappedMade(device, "ANALOG_INPUT", instance) \cup MappedMade(device, "ANALOG_OUTPUT", instance))
    \cup MappedMade(device, "BINARY_OUTPUT", instance)

\* The three objects of a slave (main.cpp:1012).
LEMMA MappedObjectsBuild ==
  ASSUME NEW done, NEW device \in Int, NEW instance \in Int,
         <<device, "DEVICE", device>> \in Objects(done),
         \A type \in DOMAIN PointKind : <<device, type, instance>> \notin Objects(done)
  PROVE  /\ Builds(done, AddMappedObjects(device, instance), MappedObjectsMade(device, instance))
         /\ Objects(MappedObjectsMade(device, instance)) =
              {<<device, type, instance>> : type \in DOMAIN PointKind}
<1> DEFINE made(type) == MappedMade(device, type, instance)
           todo(type) == AddMappedObject(device, type, instance)
           name(type) == <<device, type, instance>>
<1>1. DOMAIN PointKind = {"ANALOG_INPUT", "ANALOG_OUTPUT", "BINARY_OUTPUT"}
  BY DEF PointKind
<1>2. ASSUME NEW before, NEW type \in DOMAIN PointKind,
             <<device, "DEVICE", device>> \in Objects(before), name(type) \notin Objects(before)
      PROVE  Builds(before, todo(type), made(type)) /\ Objects(made(type)) = {name(type)}
  BY <1>2, MappedObjectBuilds DEF made, todo, name
<1> HIDE DEF made, todo
<1>3. /\ Builds(done, todo("ANALOG_INPUT"), made("ANALOG_INPUT"))
      /\ Objects(made("ANALOG_INPUT")) = {name("ANALOG_INPUT")}
  <2>1. "ANALOG_INPUT" \in DOMAIN PointKind
    BY <1>1
  <2>2. name("ANALOG_INPUT") \notin Objects(done)
    BY <2>1
  <2> QED
    BY <1>2, <2>1, <2>2, SMTT(30)
<1> DEFINE one == done \cup made("ANALOG_INPUT")
           two == one \cup made("ANALOG_OUTPUT")
<1>4. Objects(one) = Objects(done) \cup {name("ANALOG_INPUT")}
  <2>1. Objects(one) = Objects(done) \cup Objects(made("ANALOG_INPUT"))
    BY ObjectsOfBoth, Zenon
  <2> QED
    BY <1>3, <2>1
<1>5. /\ Builds(one, todo("ANALOG_OUTPUT"), made("ANALOG_OUTPUT"))
      /\ Objects(made("ANALOG_OUTPUT")) = {name("ANALOG_OUTPUT")}
  <2> HIDE DEF one
  <2>1. <<device, "DEVICE", device>> \in Objects(one) /\ name("ANALOG_OUTPUT") \notin Objects(one)
    BY <1>1, <1>4
  <2> QED
    BY <1>1, <1>2, <2>1
<1>6. Objects(two) = Objects(one) \cup {name("ANALOG_OUTPUT")}
  BY <1>5, ObjectsOfBoth, ZenonT(30)
<1>7. /\ Builds(two, todo("BINARY_OUTPUT"), made("BINARY_OUTPUT"))
      /\ Objects(made("BINARY_OUTPUT")) = {name("BINARY_OUTPUT")}
  <2> HIDE DEF one, two
  <2>1. <<device, "DEVICE", device>> \in Objects(two) /\ name("BINARY_OUTPUT") \notin Objects(two)
    BY <1>1, <1>4, <1>6
  <2> QED
    BY <1>1, <1>2, <2>1
<1>8. Builds(done, todo("ANALOG_INPUT") \o todo("ANALOG_OUTPUT"),
             made("ANALOG_INPUT") \cup made("ANALOG_OUTPUT"))
  BY <1>3, <1>5, BuildsBoth, Zenon
<1>9. two = done \cup (made("ANALOG_INPUT") \cup made("ANALOG_OUTPUT"))
  OBVIOUS
<1>10. Builds(done, (todo("ANALOG_INPUT") \o todo("ANALOG_OUTPUT")) \o todo("BINARY_OUTPUT"),
              (made("ANALOG_INPUT") \cup made("ANALOG_OUTPUT")) \cup made("BINARY_OUTPUT"))
  <2> HIDE DEF two
  <2> QED
    BY <1>7, <1>8, <1>9, BuildsBoth, Zenon
<1>11. Objects((made("ANALOG_INPUT") \cup made("ANALOG_OUTPUT")) \cup made("BINARY_OUTPUT")) =
         {name(type) : type \in DOMAIN PointKind}
  <2>1. Objects((made("ANALOG_INPUT") \cup made("ANALOG_OUTPUT")) \cup made("BINARY_OUTPUT")) =
          (Objects(made("ANALOG_INPUT")) \cup Objects(made("ANALOG_OUTPUT")))
            \cup Objects(made("BINARY_OUTPUT"))
    <3> DEFINE both == made("ANALOG_INPUT") \cup made("ANALOG_OUTPUT")
    <3>1. Objects(both) = Objects(made("ANALOG_INPUT")) \cup Objects(made("ANALOG_OUTPUT"))
      BY ObjectsOfBoth, Zenon
    <3> HIDE DEF both
    <3>2. Objects(both \cup made("BINARY_OUTPUT")) = Objects(both) \cup Objects(made("BINARY_OUTPUT"))
      BY ObjectsOfBoth, Zenon
    <3> QED
      BY <3>1, <3>2 DEF both
  <2> QED
    BY <1>1, <1>3, <1>5, <1>7, <2>1
<1> QED
  BY <1>10, <1>11, Zenon DEF AddMappedObjects, MappedObjectsMade, made, todo

ServiceNames(answersDeviceCommunicationControl) ==
  {"READ_PROPERTY", "WRITE_PROPERTY", "WHO_IS", "I_AM", "WHO_HAS", "I_HAVE"}
    \cup (IF answersDeviceCommunicationControl THEN {"DEVICE_COMMUNICATION_CONTROL"} ELSE {})

ServicesMade(device, answersDeviceCommunicationControl) ==
  Switched("SetServiceEnabled", device, "DEVICE", device,
           ServiceNames(answersDeviceCommunicationControl))

\* The services of a device that is there (main.cpp:910-937).
LEMMA ServicesBuild ==
  ASSUME NEW done, NEW device \in Int, NEW answers \in BOOLEAN,
         <<device, "DEVICE", device>> \in Objects(done)
  PROVE  /\ Builds(done, EnableDeviceServices(device, answers), ServicesMade(device, answers))
         /\ Objects(ServicesMade(device, answers)) = {}
<1> DEFINE last == IF answers THEN <<"DEVICE_COMMUNICATION_CONTROL">> ELSE <<>>
           services == DeviceServices \o last
<1>1. /\ DeviceServices \in Seq(Features \ {"object"})
      /\ Range(DeviceServices) =
           {"READ_PROPERTY", "WRITE_PROPERTY", "WHO_IS", "I_AM", "WHO_HAS", "I_HAVE"}
  BY DEF DeviceServices, Features, Range
<1>2. /\ last \in Seq(Features \ {"object"})
      /\ Range(last) = IF answers THEN {"DEVICE_COMMUNICATION_CONTROL"} ELSE {}
  <2>1. /\ <<"DEVICE_COMMUNICATION_CONTROL">> \in Seq(Features \ {"object"})
        /\ Range(<<"DEVICE_COMMUNICATION_CONTROL">>) = {"DEVICE_COMMUNICATION_CONTROL"}
    BY DEF Features, Range
  <2>2. <<>> \in Seq(Features \ {"object"}) /\ Range(<<>>) = {}
    BY EmptySeq DEF Range
  <2> QED
    BY <2>1, <2>2
<1> HIDE DEF last
<1>3. services \in Seq(Features \ {"object"})
  BY <1>1, <1>2, ConcatProperties
<1>4. Range(services) = ServiceNames(answers)
  BY <1>1, <1>2, RangeConcatenation DEF ServiceNames
<1>5. EnableDeviceServices(device, answers) =
        [i \in DOMAIN services |-> Call("SetServiceEnabled", device, "DEVICE", device, services[i])]
  BY DEF EnableDeviceServices, last
<1> HIDE DEF services
<1>6. Builds(done, [i \in DOMAIN services |->
                      Call("SetServiceEnabled", device, "DEVICE", device, services[i])],
             Switched("SetServiceEnabled", device, "DEVICE", device, Range(services)))
  <2>1. "DEVICE" \in Types
    BY DEF Types
  <2> QED
    BY <1>3, <2>1, SwitchesRun
<1>7. "object" \notin ServiceNames(answers)
  BY DEF ServiceNames
<1> QED
  BY <1>4, <1>5, <1>6, <1>7, SwitchesMakeNone, Zenon DEF ServicesMade

DeviceMade(adding, device, answersDeviceCommunicationControl) ==
  {adding} \cup ServicesMade(device, answersDeviceCommunicationControl)

\* A device which is not there, with its services.
LEMMA DeviceBuilds ==
  ASSUME NEW done, NEW device \in Int, NEW answers \in BOOLEAN,
         <<device, "DEVICE", device>> \notin Objects(done),
         NEW adding, AddsDevice(done, adding, device)
  PROVE  /\ Builds(done, <<adding>> \o EnableDeviceServices(device, answers),
                   DeviceMade(adding, device, answers))
         /\ Objects(DeviceMade(adding, device, answers)) = {<<device, "DEVICE", device>>}
<1> DEFINE there == done \cup {adding}
           services == ServicesMade(device, answers)
<1>1. Builds(done, <<adding>>, {adding}) /\ Objects({adding}) = {<<device, "DEVICE", device>>}
  BY AddingDeviceRuns
<1>2. DeviceMade(adding, device, answers) = {adding} \cup services
  BY DEF DeviceMade
<1>3. Objects(there) = Objects(done) \cup Objects({adding})
  BY ObjectsOfBoth, Zenon
<1> HIDE DEF there, services
<1>4. <<device, "DEVICE", device>> \in Objects(there)
  BY <1>1, <1>3
<1>5. Builds(there, EnableDeviceServices(device, answers), services) /\ Objects(services) = {}
  BY <1>4, ServicesBuild DEF services
<1>6. Builds(done, <<adding>> \o EnableDeviceServices(device, answers), {adding} \cup services)
  BY <1>1, <1>5, BuildsBoth, Zenon DEF there
<1>7. Objects({adding} \cup services) = Objects({adding}) \cup Objects(services)
  BY ObjectsOfBoth, Zenon
<1> QED
  BY <1>1, <1>2, <1>5, <1>6, <1>7

DescriptionMade(device) ==
  Switched("SetPropertyEnabled", device, "DEVICE", device, {"DESCRIPTION"})

\* The description of a device that is there.
LEMMA DescriptionBuilds ==
  ASSUME NEW done, NEW device \in Int, <<device, "DEVICE", device>> \in Objects(done)
  PROVE  /\ Builds(done, EnableProperties(device, "DEVICE", device, <<"DESCRIPTION">>),
                   DescriptionMade(device))
         /\ Objects(DescriptionMade(device)) = {}
<1>1. /\ <<"DESCRIPTION">> \in Seq(Features \ {"object"})
      /\ Range(<<"DESCRIPTION">>) = {"DESCRIPTION"} /\ "DEVICE" \in Types
  BY DEF Range, Features, Types
<1>2. Builds(done, EnableProperties(device, "DEVICE", device, <<"DESCRIPTION">>),
             DescriptionMade(device))
  BY <1>1, SwitchesRun DEF EnableProperties, DescriptionMade
<1>3. Objects(DescriptionMade(device)) = {}
  BY SwitchesMakeNone, Zenon DEF DescriptionMade
<1> QED
  BY <1>2, <1>3

GatewayMade ==
  (DeviceMade(AddDevice(deviceInstance), deviceInstance, TRUE)
     \cup {Call("AddObject", deviceInstance, "NETWORK_PORT", NETWORK_PORT_INSTANCE, "object")})
    \cup DescriptionMade(deviceInstance)

\* The gateway's own device and its port come first (main.cpp:1058-1079).
LEMMA GatewayBuilds ==
  ASSUME deviceInstance \in Int
  PROVE  /\ Builds({}, GatewayCalls, GatewayMade)
         /\ Objects(GatewayMade) =
              {<<deviceInstance, "DEVICE", deviceInstance>>,
               <<deviceInstance, "NETWORK_PORT", NETWORK_PORT_INSTANCE>>}
<1> DEFINE device == DeviceMade(AddDevice(deviceInstance), deviceInstance, TRUE)
           first == <<AddDevice(deviceInstance)>> \o EnableDeviceServices(deviceInstance, TRUE)
           call == Call("AddObject", deviceInstance, "NETWORK_PORT", NETWORK_PORT_INSTANCE, "object")
           last == EnableProperties(deviceInstance, "DEVICE", deviceInstance, <<"DESCRIPTION">>)
           description == DescriptionMade(deviceInstance)
<1>1. GatewayCalls = (first \o <<call>>) \o last
  BY Zenon DEF GatewayCalls
<1>2. GatewayMade = (device \cup {call}) \cup description
  BY Zenon DEF GatewayMade
<1>3. /\ Builds({}, first, device)
      /\ Objects(device) = {<<deviceInstance, "DEVICE", deviceInstance>>}
  <2>1. <<deviceInstance, "DEVICE", deviceInstance>> \notin Objects({}) /\ TRUE \in BOOLEAN
    BY DEF Objects
  <2>2. AddsDevice({}, AddDevice(deviceInstance), deviceInstance)
    BY DevicesAreAdded
  <2> QED
    BY <2>1, <2>2, DeviceBuilds, Zenon
<1>4. /\ Builds(device, <<call>>, {call})
      /\ Objects({call}) = {<<deviceInstance, "NETWORK_PORT", NETWORK_PORT_INSTANCE>>}
  <2>1. "NETWORK_PORT" \in Types /\ NETWORK_PORT_INSTANCE \in Int
    BY DEF Types, NETWORK_PORT_INSTANCE
  <2>2. /\ <<deviceInstance, "DEVICE", deviceInstance>> \in Objects(device)
        /\ <<deviceInstance, "NETWORK_PORT", NETWORK_PORT_INSTANCE>> \notin Objects(device)
    BY <1>3
  <2> HIDE DEF device
  <2> QED
    BY <2>1, <2>2, AddingRuns
<1> HIDE DEF device, first, call, last
<1>5. Objects(device \cup {call}) = Objects(device) \cup Objects({call})
  BY ObjectsOfBoth, Zenon
<1>6. Builds(device \cup {call}, last, description) /\ Objects(description) = {}
  <2>1. <<deviceInstance, "DEVICE", deviceInstance>> \in Objects(device \cup {call})
    BY <1>3, <1>5
  <2> QED
    BY <2>1, DescriptionBuilds DEF last
<1> HIDE DEF description
<1>7. Builds({}, first \o <<call>>, device \cup {call})
  <2>1. {} \cup device = device
    OBVIOUS
  <2> QED
    BY <1>3, <1>4, <2>1, BuildsBoth, Zenon
<1>8. Builds({}, (first \o <<call>>) \o last, (device \cup {call}) \cup description)
  <2>1. {} \cup (device \cup {call}) = device \cup {call}
    OBVIOUS
  <2> QED
    BY <1>6, <1>7, <2>1, BuildsBoth, Zenon
<1>9. Objects((device \cup {call}) \cup description) =
        Objects(device \cup {call}) \cup Objects(description)
  BY ObjectsOfBoth, Zenon
<1> QED
  BY <1>1, <1>2, <1>3, <1>4, <1>5, <1>6, <1>8, <1>9

NetworkMade ==
  {OnVirtualNetwork(Call("AddVirtualNetwork", deviceInstance, "NETWORK_PORT",
                         VIRTUAL_NETWORK_PORT_INSTANCE, "object"))}

\* The virtual network and its port (main.cpp:1133).
LEMMA NetworkBuilds ==
  ASSUME NEW done, deviceInstance \in Int,
         <<deviceInstance, "DEVICE", deviceInstance>> \in Objects(done),
         <<deviceInstance, "NETWORK_PORT", VIRTUAL_NETWORK_PORT_INSTANCE>> \notin Objects(done)
  PROVE  /\ Builds(done, AddVirtualNetwork, NetworkMade)
         /\ Objects(NetworkMade) =
              {<<deviceInstance, "NETWORK_PORT", VIRTUAL_NETWORK_PORT_INSTANCE>>}
<1> DEFINE call == OnVirtualNetwork(Call("AddVirtualNetwork", deviceInstance, "NETWORK_PORT",
                                         VIRTUAL_NETWORK_PORT_INSTANCE, "object"))
<1>1. /\ "NETWORK_PORT" \in Types /\ VIRTUAL_NETWORK_PORT_INSTANCE \in Int
      /\ VIRTUAL_NETWORK_NUMBER \in Int /\ "AddVirtualNetwork" \in CallOps /\ "object" \in Features
  BY DEF Types, VIRTUAL_NETWORK_PORT_INSTANCE, VIRTUAL_NETWORK_NUMBER, CallOps, Features
<1>2. /\ call \in Calls /\ call.op = "AddVirtualNetwork" /\ call.device = deviceInstance
      /\ call.type = "NETWORK_PORT" /\ call.instance = VIRTUAL_NETWORK_PORT_INSTANCE
      /\ call.what = "object"
  BY <1>1 DEF OnVirtualNetwork, Call, Calls
<1>3. AddVirtualNetwork = <<call>> /\ NetworkMade = {call}
  BY Zenon DEF AddVirtualNetwork, NetworkMade
<1> HIDE DEF call
<1> QED
  BY <1>1, <1>2, <1>3, AddingCallRuns

\* From then on there is the network (main.cpp:1133).
LEMMA NetworkIsThere ==
  ASSUME NEW done, NetworkMade \subseteq done
  PROVE  VIRTUAL_NETWORK_NUMBER \in Networks(done)
<1> DEFINE call == OnVirtualNetwork(Call("AddVirtualNetwork", deviceInstance, "NETWORK_PORT",
                                         VIRTUAL_NETWORK_PORT_INSTANCE, "object"))
<1>1. call \in done
  BY DEF NetworkMade
<1>2. call.op = "AddVirtualNetwork" /\ call.network = VIRTUAL_NETWORK_NUMBER
  BY DEF OnVirtualNetwork, Call
<1> HIDE DEF call
<1> QED
  BY <1>1, <1>2, Zenon DEF Networks

VirtualDeviceMade(device) ==
  (DeviceMade(AddDeviceToVirtualNetwork(device), device, FALSE) \cup DescriptionMade(device))
    \cup MappedObjectsMade(device, 1)

\* A virtual device which is not there, with its services and objects, once there is its
\* network (main.cpp:1138-1149).
LEMMA VirtualDeviceBuilds ==
  ASSUME NEW done, NEW device \in Int, VIRTUAL_NETWORK_NUMBER \in Networks(done),
         \A type \in Types, instance \in Int : <<device, type, instance>> \notin Objects(done)
  PROVE  /\ Builds(done, VirtualDeviceCalls(device), VirtualDeviceMade(device))
         /\ Objects(VirtualDeviceMade(device)) =
              {<<device, "DEVICE", device>>} \cup {<<device, type, 1>> : type \in DOMAIN PointKind}
<1> DEFINE adding == AddDeviceToVirtualNetwork(device)
           own == DeviceMade(adding, device, FALSE)
           first == <<adding>> \o EnableDeviceServices(device, FALSE)
           describe == EnableProperties(device, "DEVICE", device, <<"DESCRIPTION">>)
           description == DescriptionMade(device)
           mapped == MappedObjectsMade(device, 1)
           last == AddMappedObjects(device, 1)
<1>1. VirtualDeviceCalls(device) = (first \o describe) \o last
  BY Zenon DEF VirtualDeviceCalls
<1>2. VirtualDeviceMade(device) = (own \cup description) \cup mapped
  BY Zenon DEF VirtualDeviceMade
<1>3. /\ "DEVICE" \in Types /\ FALSE \in BOOLEAN /\ 1 \in Int
      /\ \A type \in DOMAIN PointKind : type \in Types /\ type # "DEVICE"
  BY DEF Types, PointKind
<1>4. Builds(done, first, own) /\ Objects(own) = {<<device, "DEVICE", device>>}
  <2>1. <<device, "DEVICE", device>> \notin Objects(done)
    BY <1>3
  <2>2. AddsDevice(done, adding, device)
    BY DevicesAreAdded
  <2> HIDE DEF adding
  <2> QED
    BY <1>3, <2>1, <2>2, DeviceBuilds, Zenon
<1> HIDE DEF own, first, describe, description, mapped, last
<1>5. Objects(done \cup own) = Objects(done) \cup {<<device, "DEVICE", device>>}
  BY <1>4, ObjectsOfBoth, Zenon
<1>6. Builds(done \cup own, describe, description) /\ Objects(description) = {}
  <2>1. <<device, "DEVICE", device>> \in Objects(done \cup own)
    BY <1>5
  <2> QED
    BY <2>1, DescriptionBuilds DEF describe, description
<1> DEFINE both == own \cup description
<1>7. Objects(both) = {<<device, "DEVICE", device>>}
  <2>1. Objects(both) = Objects(own) \cup Objects(description)
    BY ObjectsOfBoth, Zenon
  <2> QED
    BY <1>4, <1>6, <2>1
<1>8. Builds(done, first \o describe, both)
  BY <1>4, <1>6, BuildsBoth, Zenon
<1> HIDE DEF both
<1>9. Objects(done \cup both) = Objects(done) \cup Objects(both)
  BY ObjectsOfBoth, Zenon
<1>10. /\ Builds(done \cup both, last, mapped)
       /\ Objects(mapped) = {<<device, type, 1>> : type \in DOMAIN PointKind}
  <2>1. <<device, "DEVICE", device>> \in Objects(done \cup both)
    BY <1>7, <1>9
  <2>2. \A type \in DOMAIN PointKind : <<device, type, 1>> \notin Objects(done \cup both)
    BY <1>3, <1>7, <1>9
  <2> QED
    BY <1>3, <2>1, <2>2, MappedObjectsBuild, ZenonT(90) DEF last, mapped
<1>11. Builds(done, (first \o describe) \o last, both \cup mapped)
  BY <1>8, <1>10, BuildsBoth, Zenon
<1>12. Objects(both \cup mapped) = Objects(both) \cup Objects(mapped)
  BY ObjectsOfBoth, Zenon
<1> QED
  BY <1>1, <1>2, <1>7, <1>10, <1>11, <1>12 DEF both

\* The calls of the slaves up to one: the recursion of ForEachSlave has a solution.
LEMMA SlavesUpTo ==
  ASSUME NEW blocks
  PROVE  \E upTo : upTo = [slave \in 0 .. SLAVE_COUNT |->
                             IF slave = 0 THEN <<>> ELSE upTo[slave - 1] \o blocks[slave]]
<1> DEFINE Solves(f, n) ==
             f = [slave \in 0 .. n |-> IF slave = 0 THEN <<>> ELSE f[slave - 1] \o blocks[slave]]
           unsolved == {n \in 0 .. SLAVE_COUNT : ~\E f : Solves(f, n)}
<1>1. SLAVE_COUNT \in Nat /\ SLAVE_COUNT \in 0 .. SLAVE_COUNT /\ 0 .. SLAVE_COUNT \subseteq Nat
  BY SlaveCountAssumption
<1> SUFFICES ASSUME unsolved # {} PROVE FALSE
  BY <1>1, Zenon
<1>2. unsolved \subseteq Nat
  BY <1>1, Zenon
<1> DEFINE n == Least(unsolved)
<1>3. n \in unsolved /\ \A m \in unsolved : n <= m
  <2> HIDE DEF unsolved
  <2> QED
    BY <1>2, LeastExists
<1> HIDE DEF n
<1>4. n \in 0 .. SLAVE_COUNT /\ ~\E f : Solves(f, n)
  BY <1>3
<1>5. n # 0
  <2>1. Solves([slave \in 0 .. 0 |-> <<>>], 0)
    OBVIOUS
  <2> QED
    BY <1>4, <2>1
<1>6. n - 1 \in 0 .. SLAVE_COUNT /\ n - 1 \notin unsolved
  <2>1. n - 1 \in 0 .. SLAVE_COUNT
    BY <1>1, <1>4, <1>5
  <2> HIDE DEF unsolved
  <2> QED
    BY <1>1, <1>3, <1>4, <2>1
<1>7. PICK f : Solves(f, n - 1)
  BY <1>6
<1> DEFINE g == [slave \in 0 .. n |-> IF slave = n THEN f[n - 1] \o blocks[n] ELSE f[slave]]
<1>8. ASSUME NEW slave \in 0 .. n
      PROVE  g[slave] = IF slave = 0 THEN <<>> ELSE g[slave - 1] \o blocks[slave]
  <2>1. CASE slave = n
    <3>1. slave - 1 \in 0 .. n /\ slave - 1 # n /\ slave # 0
      BY <1>4, <1>5, <2>1
    <3> QED
      BY <2>1, <3>1
  <2>2. CASE slave # n
    <3>1. slave \in 0 .. n - 1
      BY <1>4, <2>2
    <3>2. f[slave] = IF slave = 0 THEN <<>> ELSE f[slave - 1] \o blocks[slave]
      BY <1>7, <3>1
    <3>3. slave # 0 => slave - 1 \in 0 .. n /\ slave - 1 # n
      BY <1>4, <3>1
    <3> QED
      BY <2>2, <3>2, <3>3
  <2> QED
    BY <2>1, <2>2
<1>9. ASSUME NEW slave \in 0 .. n
      PROVE  (IF slave = n THEN f[n - 1] \o blocks[n] ELSE f[slave]) =
               IF slave = 0 THEN <<>> ELSE g[slave - 1] \o blocks[slave]
  BY <1>8
<1>10. Solves(g, n)
  <2>1. g = [slave \in 0 .. n |-> IF slave = n THEN f[n - 1] \o blocks[n] ELSE f[slave]]
    OBVIOUS
  <2> HIDE DEF g
  <2>2. [slave \in 0 .. n |-> IF slave = n THEN f[n - 1] \o blocks[n] ELSE f[slave]] =
          [slave \in 0 .. n |-> IF slave = 0 THEN <<>> ELSE g[slave - 1] \o blocks[slave]]
    BY <1>9, Zenon
  <2> QED
    BY <2>1, <2>2, Zenon
<1> HIDE DEF g
<1> QED
  BY <1>4, <1>10

\* What the slaves' blocks of calls add, those before one slave and all of them.
MadeBefore(made, slave) == UNION {made[other] : other \in 1 .. slave - 1}
MadeByAll(made) == UNION {made[slave] : slave \in Slaves}

\* What is built slave by slave is built by ForEachSlave.
LEMMA ForEachSlaveBuilds ==
  ASSUME NEW done, NEW blocks, NEW made,
         \A slave \in Slaves :
           Builds(done \cup MadeBefore(made, slave), blocks[slave], made[slave])
  PROVE  Builds(done, ForEachSlave(blocks), MadeByAll(made))
<1> DEFINE upTo == CHOOSE f : f = [slave \in 0 .. SLAVE_COUNT |->
                                     IF slave = 0 THEN <<>> ELSE f[slave - 1] \o blocks[slave]]
           madeUpTo(n) == UNION {made[other] : other \in 1 .. n}
           unbuilt == {n \in 0 .. SLAVE_COUNT : ~Builds(done, upTo[n], madeUpTo(n))}
<1>1. upTo = [slave \in 0 .. SLAVE_COUNT |->
                IF slave = 0 THEN <<>> ELSE upTo[slave - 1] \o blocks[slave]]
  BY SlavesUpTo, Zenon
<1>2. ForEachSlave(blocks) = upTo[SLAVE_COUNT]
  BY Zenon DEF ForEachSlave
<1> HIDE DEF upTo
<1>3. SLAVE_COUNT \in Nat /\ SLAVE_COUNT \in 0 .. SLAVE_COUNT /\ 0 .. SLAVE_COUNT \subseteq Nat
  BY SlaveCountAssumption
<1>4. unbuilt = {}
  <2> SUFFICES ASSUME unbuilt # {} PROVE FALSE
    OBVIOUS
  <2>1. unbuilt \subseteq Nat
    BY <1>3, Zenon
  <2> DEFINE n == Least(unbuilt)
  <2>2. n \in unbuilt /\ \A m \in unbuilt : n <= m
    <3> HIDE DEF unbuilt
    <3> QED
      BY <2>1, LeastExists
  <2> HIDE DEF n
  <2>3. n \in 0 .. SLAVE_COUNT /\ ~Builds(done, upTo[n], madeUpTo(n))
    BY <2>2, Zenon
  <2>4. n # 0
    <3>1. upTo[0] = <<>> /\ madeUpTo(0) = {}
      BY <1>1, <1>3
    <3> HIDE DEF madeUpTo
    <3> QED
      BY <2>3, <3>1, BuildsNone, Zenon
  <2>5. /\ n - 1 \in 0 .. SLAVE_COUNT /\ n - 1 \notin unbuilt /\ n \in Slaves
        /\ 1 .. n = (1 .. n - 1) \cup {n}
    <3>1. n - 1 \in 0 .. SLAVE_COUNT /\ n \in Slaves /\ ~(n <= n - 1)
      BY <1>3, <2>3, <2>4 DEF Slaves
    <3>2. 1 .. n = (1 .. n - 1) \cup {n}
      BY <1>3, <2>3, <2>4
    <3> HIDE DEF unbuilt
    <3> QED
      BY <2>2, <3>1, <3>2
  <2>6. Builds(done, upTo[n - 1], madeUpTo(n - 1))
    BY <2>5, Zenon
  <2>7. Builds(done \cup madeUpTo(n - 1), blocks[n], made[n])
    BY <2>5, Zenon DEF MadeBefore
  <2>8. upTo[n] = upTo[n - 1] \o blocks[n]
    BY <1>1, <2>3, <2>4
  <2>9. madeUpTo(n) = madeUpTo(n - 1) \cup made[n]
    BY <2>5, Zenon
  <2> HIDE DEF madeUpTo
  <2>10. Builds(done, upTo[n - 1] \o blocks[n], madeUpTo(n - 1) \cup made[n])
    BY <2>6, <2>7, BuildsBoth, Zenon
  <2> QED
    BY <2>3, <2>8, <2>9, <2>10
<1>5. Builds(done, upTo[SLAVE_COUNT], madeUpTo(SLAVE_COUNT))
  BY <1>3, <1>4, Zenon
<1> QED
  BY <1>2, <1>5, Zenon DEF Slaves, MadeByAll

EmbeddedMade == UNION {MappedObjectsMade(deviceInstance, slave) : slave \in Slaves}
VirtualMade == UNION {VirtualDeviceMade(VirtualDevice(slave)) : slave \in Slaves}

\* All that the set-up makes.
SetUpMade ==
  GatewayMade \cup (IF mode = "eo" THEN EmbeddedMade ELSE NetworkMade \cup VirtualMade)

LEMMA ObjectsOfMany ==
  ASSUME NEW S, NEW made
  PROVE  \A object : object \in Objects(UNION {made[x] : x \in S}) <=>
                       \E x \in S : object \in Objects(made[x])
<1> DEFINE all == UNION {made[x] : x \in S}
<1>1. \A call : call \in all <=> \E x \in S : call \in made[x]
  BY Zenon
<1> HIDE DEF all
<1>2. ASSUME NEW object, object \in Objects(all)
      PROVE  \E x \in S : object \in Objects(made[x])
  <2>1. PICK call \in all :
          call.what = "object" /\ object = <<call.device, call.type, call.instance>>
    BY <1>2, Zenon DEF Objects
  <2>2. PICK x \in S : call \in made[x]
    BY <1>1, Zenon
  <2>3. object \in Objects(made[x])
    BY <2>1, <2>2, Zenon DEF Objects
  <2> QED
    BY <2>3
<1>3. ASSUME NEW object, NEW x \in S, object \in Objects(made[x])
      PROVE  object \in Objects(all)
  <2>1. PICK call \in made[x] :
          call.what = "object" /\ object = <<call.device, call.type, call.instance>>
    BY <1>3, Zenon DEF Objects
  <2>2. call \in all
    BY <1>1, Zenon
  <2> QED
    BY <2>1, <2>2, Zenon DEF Objects
<1> QED
  BY <1>2, <1>3, Zenon DEF all

\* Whatever was there before, these are the objects made.
LEMMA ObjectsMade ==
  ASSUME NEW device \in Int, NEW instance \in Int
  PROVE  /\ Objects(MappedObjectsMade(device, instance)) =
              {<<device, type, instance>> : type \in DOMAIN PointKind}
         /\ Objects(VirtualDeviceMade(device)) =
              {<<device, "DEVICE", device>>} \cup {<<device, type, 1>> : type \in DOMAIN PointKind}
<1> DEFINE stub == [op |-> "AddVirtualNetwork", network |-> VIRTUAL_NETWORK_NUMBER, what |-> ""]
           done == {stub}
           adding == AddDeviceToVirtualNetwork(device)
<1>0. /\ Objects(done) = {} /\ VIRTUAL_NETWORK_NUMBER \in Networks(done) /\ FALSE \in BOOLEAN
  <2>1. /\ stub.op = "AddVirtualNetwork" /\ stub.network = VIRTUAL_NETWORK_NUMBER
        /\ stub.what # "object"
    OBVIOUS
  <2> HIDE DEF stub
  <2> QED
    BY <2>1 DEF Objects, Networks
<1> HIDE DEF done
<1>1. AddsDevice(done, adding, device)
  BY <1>0, DevicesAreAdded
<1> HIDE DEF adding
<1>2. Objects(DeviceMade(adding, device, FALSE)) = {<<device, "DEVICE", device>>}
  BY <1>0, <1>1, DeviceBuilds, Zenon
<1>3. \A type \in DOMAIN PointKind : type # "DEVICE"
  BY DEF PointKind
<1>4. /\ <<device, "DEVICE", device>> \in Objects(DeviceMade(adding, device, FALSE))
      /\ \A type \in DOMAIN PointKind :
           <<device, type, instance>> \notin Objects(DeviceMade(adding, device, FALSE))
  BY <1>2, <1>3
<1>5. Objects(MappedObjectsMade(device, instance)) =
        {<<device, type, instance>> : type \in DOMAIN PointKind}
  BY <1>4, MappedObjectsBuild, Zenon
<1>6. \A type \in Types, other \in Int : <<device, type, other>> \notin Objects(done)
  BY <1>0
<1>7. Objects(VirtualDeviceMade(device)) =
        {<<device, "DEVICE", device>>} \cup {<<device, type, 1>> : type \in DOMAIN PointKind}
  BY <1>0, <1>6, VirtualDeviceBuilds, Zenon
<1> QED
  BY <1>5, <1>7

\* --mode eo: one device with all the slaves' objects (main.cpp:1083).
LEMMA EmbeddedBuilds ==
  ASSUME deviceInstance \in Int
  PROVE  /\ Builds(GatewayMade, ForEachSlave(EmbeddedCalls), EmbeddedMade)
         /\ \A object : object \in Objects(EmbeddedMade) <=>
              \E slave \in Slaves, type \in DOMAIN PointKind : object = <<deviceInstance, type, slave>>
<1> DEFINE made == [slave \in Slaves |-> MappedObjectsMade(deviceInstance, slave)]
<1>1. EmbeddedMade = MadeByAll(made)
  BY Zenon DEF EmbeddedMade, MadeByAll
<1>2. ASSUME NEW slave \in Slaves
      PROVE  Objects(made[slave]) = {<<deviceInstance, type, slave>> : type \in DOMAIN PointKind}
  <2>1. slave \in Int
    BY DEF Slaves
  <2> QED
    BY <2>1, ObjectsMade
<1>3. ASSUME NEW slave \in Slaves
      PROVE  Builds(GatewayMade \cup MadeBefore(made, slave), EmbeddedCalls[slave], made[slave])
  <2>1. slave \in Int /\ 1 .. slave - 1 \subseteq Slaves /\ slave \notin 1 .. slave - 1
    BY SlaveCountAssumption DEF Slaves
  <2>2. /\ EmbeddedCalls[slave] = AddMappedObjects(deviceInstance, slave)
        /\ made[slave] = MappedObjectsMade(deviceInstance, slave)
    BY DEF EmbeddedCalls
  <2> HIDE DEF made
  <2> DEFINE others == UNION {made[other] : other \in 1 .. slave - 1}
  <2>3. ASSUME NEW object, object \in Objects(others)
        PROVE  \E other \in 1 .. slave - 1, type \in DOMAIN PointKind :
                 object = <<deviceInstance, type, other>>
    <3>1. PICK other \in 1 .. slave - 1 : object \in Objects(made[other])
      BY <2>3, ObjectsOfMany, Zenon
    <3>2. other \in Slaves
      BY <2>1
    <3> QED
      BY <1>2, <3>1, <3>2
  <2> HIDE DEF others
  <2>4. Objects(GatewayMade \cup others) = Objects(GatewayMade) \cup Objects(others)
    BY ObjectsOfBoth, Zenon
  <2>5. /\ Objects(GatewayMade) =
             {<<deviceInstance, "DEVICE", deviceInstance>>,
              <<deviceInstance, "NETWORK_PORT", NETWORK_PORT_INSTANCE>>}
        /\ \A type \in DOMAIN PointKind : type \notin {"DEVICE", "NETWORK_PORT"}
    BY GatewayBuilds DEF PointKind
  <2>6. <<deviceInstance, "DEVICE", deviceInstance>> \in Objects(GatewayMade \cup others)
    BY <2>4, <2>5
  <2>7. ASSUME NEW type \in DOMAIN PointKind
        PROVE  <<deviceInstance, type, slave>> \notin Objects(GatewayMade \cup others)
    <3>1. <<deviceInstance, type, slave>> \notin Objects(GatewayMade)
      BY <2>5
    <3>2. <<deviceInstance, type, slave>> \notin Objects(others)
      BY <2>1, <2>3
    <3> QED
      BY <2>4, <3>1, <3>2
  <2> QED
    BY <2>1, <2>2, <2>6, <2>7, MappedObjectsBuild DEF others, MadeBefore
<1> HIDE DEF made
<1>4. Builds(GatewayMade, ForEachSlave(EmbeddedCalls), MadeByAll(made))
  BY <1>3, ForEachSlaveBuilds, Zenon
<1>5. \A object : object \in Objects(EmbeddedMade) <=> \E slave \in Slaves : object \in Objects(made[slave])
  <2>1. \A object : object \in Objects(UNION {made[x] : x \in Slaves}) <=>
                    \E x \in Slaves : object \in Objects(made[x])
    BY ObjectsOfMany, Zenon
  <2> QED
    BY <1>1, <2>1, Zenon DEF MadeByAll
<1>6. \A object : object \in Objects(EmbeddedMade) <=>
        \E slave \in Slaves, type \in DOMAIN PointKind : object = <<deviceInstance, type, slave>>
  BY <1>2, <1>5
<1> QED
  BY <1>1, <1>4, <1>6

\* --mode vn: the network, then a device on it for each slave; it is here that the gateway
\* must not have the instance of one of them (main.cpp:1058, 1098-1150).
LEMMA VirtualBuilds ==
  ASSUME deviceInstance \in Int,
         \A slave \in Slaves : VirtualDevice(slave) # deviceInstance
  PROVE  /\ Builds(GatewayMade \cup NetworkMade, ForEachSlave(VirtualCalls), VirtualMade)
         /\ \A object : object \in Objects(VirtualMade) <=>
              \E slave \in Slaves :
                \/ object = <<VirtualDevice(slave), "DEVICE", VirtualDevice(slave)>>
                \/ \E type \in DOMAIN PointKind : object = <<VirtualDevice(slave), type, 1>>
<1> DEFINE made == [slave \in Slaves |-> VirtualDeviceMade(VirtualDevice(slave))]
           base == GatewayMade \cup NetworkMade
           own(slave) == {<<VirtualDevice(slave), "DEVICE", VirtualDevice(slave)>>}
                           \cup {<<VirtualDevice(slave), type, 1>> : type \in DOMAIN PointKind}
<1>1. VirtualMade = MadeByAll(made)
  BY Zenon DEF VirtualMade, MadeByAll
<1>2. ASSUME NEW slave \in Slaves
      PROVE  /\ slave \in Int /\ VirtualDevice(slave) \in Int
             /\ Objects(made[slave]) = own(slave)
             /\ 1 .. slave - 1 \subseteq Slaves
             /\ \A other \in 1 .. slave - 1 : VirtualDevice(other) # VirtualDevice(slave)
  <2>1. slave \in Int /\ VirtualDevice(slave) \in Int /\ 1 .. slave - 1 \subseteq Slaves
    BY SlaveCountAssumption, VirtualDevicesAssumption DEF Slaves, VirtualDevice
  <2>2. \A other \in 1 .. slave - 1 : VirtualDevice(other) # VirtualDevice(slave)
    BY SlaveCountAssumption, VirtualDevicesAssumption DEF Slaves, VirtualDevice
  <2>3. Objects(made[slave]) = own(slave)
    BY <2>1, ObjectsMade
  <2> QED
    BY <2>1, <2>2, <2>3
<1>3. /\ Objects(GatewayMade) =
           {<<deviceInstance, "DEVICE", deviceInstance>>,
            <<deviceInstance, "NETWORK_PORT", NETWORK_PORT_INSTANCE>>}
      /\ Objects(NetworkMade) =
           {<<deviceInstance, "NETWORK_PORT", VIRTUAL_NETWORK_PORT_INSTANCE>>}
  <2>1. Objects(GatewayMade) =
           {<<deviceInstance, "DEVICE", deviceInstance>>,
            <<deviceInstance, "NETWORK_PORT", NETWORK_PORT_INSTANCE>>}
    BY GatewayBuilds
  <2>2. NETWORK_PORT_INSTANCE # VIRTUAL_NETWORK_PORT_INSTANCE
    BY DEF NETWORK_PORT_INSTANCE, VIRTUAL_NETWORK_PORT_INSTANCE
  <2>3. /\ <<deviceInstance, "DEVICE", deviceInstance>> \in Objects(GatewayMade)
        /\ <<deviceInstance, "NETWORK_PORT", VIRTUAL_NETWORK_PORT_INSTANCE>> \notin Objects(GatewayMade)
    BY <2>1, <2>2
  <2> QED
    BY <2>1, <2>3, NetworkBuilds, Zenon
<1>4. Objects(base) = Objects(GatewayMade) \cup Objects(NetworkMade)
  BY ObjectsOfBoth, Zenon
<1> HIDE DEF base, made
<1>5. ASSUME NEW slave \in Slaves
      PROVE  Builds(base \cup MadeBefore(made, slave), VirtualCalls[slave], made[slave])
  <2> DEFINE others == MadeBefore(made, slave)
             device == VirtualDevice(slave)
  <2>1. ASSUME NEW object, object \in Objects(others)
        PROVE  \E other \in 1 .. slave - 1 : object \in own(other)
    <3>1. PICK other \in 1 .. slave - 1 : object \in Objects(made[other])
      BY <2>1, ObjectsOfMany, Zenon DEF MadeBefore
    <3>2. other \in Slaves
      BY <1>2
    <3>3. Objects(made[other]) = own(other)
      BY <1>2, <3>2, Zenon
    <3> HIDE DEF own
    <3> QED
      BY <3>1, <3>3
  <2>2. device \in Int /\ device # deviceInstance
    BY <1>2
  <2>3. /\ VirtualCalls[slave] = VirtualDeviceCalls(device)
        /\ made[slave] = VirtualDeviceMade(device)
    BY DEF VirtualCalls, made
  <2>4. \A other \in 1 .. slave - 1 : VirtualDevice(other) # device
    BY <1>2
  <2> HIDE DEF device, others
  <2>5. Objects(base \cup others) = Objects(base) \cup Objects(others)
    BY ObjectsOfBoth, Zenon
  <2>6. ASSUME NEW type \in Types, NEW instance \in Int
        PROVE  <<device, type, instance>> \notin Objects(base \cup others)
    <3>1. <<device, type, instance>> \notin Objects(base)
      BY <1>3, <1>4, <2>2
    <3>2. <<device, type, instance>> \notin Objects(others)
      <4> SUFFICES ASSUME <<device, type, instance>> \in Objects(others) PROVE FALSE
        OBVIOUS
      <4>1. PICK other \in 1 .. slave - 1 : <<device, type, instance>> \in own(other)
        BY <2>1
      <4>2. device = VirtualDevice(other)
        BY <4>1
      <4> QED
        BY <2>4, <4>2
    <3> QED
      BY <2>5, <3>1, <3>2
  <2>7. VIRTUAL_NETWORK_NUMBER \in Networks(base \cup others)
    BY NetworkIsThere DEF base
  <2>8. Builds(base \cup others, VirtualDeviceCalls(device), VirtualDeviceMade(device))
    BY <2>2, <2>6, <2>7, VirtualDeviceBuilds
  <2> QED
    BY <2>3, <2>8 DEF others
<1>6. Builds(base, ForEachSlave(VirtualCalls), MadeByAll(made))
  BY <1>5, ForEachSlaveBuilds, Zenon
<1>7. \A object : object \in Objects(VirtualMade) <=> \E slave \in Slaves : object \in own(slave)
  <2>1. \A object : object \in Objects(UNION {made[x] : x \in Slaves}) <=>
                    \E x \in Slaves : object \in Objects(made[x])
    BY ObjectsOfMany, Zenon
  <2>2. \A x \in Slaves : Objects(made[x]) = own(x)
    BY <1>2
  <2> HIDE DEF own
  <2> QED
    BY <1>1, <2>1, <2>2, Zenon DEF MadeByAll
<1>8. \A object, slave : object \in own(slave) <=>
        \/ object = <<VirtualDevice(slave), "DEVICE", VirtualDevice(slave)>>
        \/ \E type \in DOMAIN PointKind : object = <<VirtualDevice(slave), type, 1>>
  BY Zenon
<1> HIDE DEF own
<1> QED
  BY <1>1, <1>6, <1>7, <1>8, Zenon DEF base

\* The objects of the program, by mode.
IsSetUp(device, type, instance) ==
  \/ device = deviceInstance /\ type = "DEVICE" /\ instance = deviceInstance
  \/ device = deviceInstance /\ type = "NETWORK_PORT" /\ instance = NETWORK_PORT_INSTANCE
  \/ /\ mode = "eo" /\ device = deviceInstance
     /\ type \in DOMAIN PointKind /\ instance \in Slaves
  \/ /\ mode = "vn" /\ device = deviceInstance
     /\ type = "NETWORK_PORT" /\ instance = VIRTUAL_NETWORK_PORT_INSTANCE
  \/ /\ mode = "vn"
     /\ \E slave \in Slaves :
          /\ device = VirtualDevice(slave)
          /\ \/ type = "DEVICE" /\ instance = device
             \/ type \in DOMAIN PointKind /\ instance = 1

\* The whole set-up can be carried out, call by call, and these are its objects.
LEMMA SetUpBuilds ==
  ASSUME deviceInstance \in Int, mode \in MODES, ~InstanceIsTaken(mode, deviceInstance)
  PROVE  /\ Builds({}, SetUpCalls, SetUpMade)
         /\ \A device, type, instance :
              <<device, type, instance>> \in Objects(SetUpMade) <=> IsSetUp(device, type, instance)
<1>1. /\ Builds({}, GatewayCalls, GatewayMade)
      /\ Objects(GatewayMade) =
           {<<deviceInstance, "DEVICE", deviceInstance>>,
            <<deviceInstance, "NETWORK_PORT", NETWORK_PORT_INSTANCE>>}
  BY GatewayBuilds
<1>2. {} \cup GatewayMade = GatewayMade
  OBVIOUS
<1>3. CASE mode = "eo"
  <2>1. SetUpCalls = GatewayCalls \o ForEachSlave(EmbeddedCalls) /\ SetUpMade = GatewayMade \cup EmbeddedMade
    BY <1>3 DEF SetUpCalls, SetUpMade
  <2>2. /\ Builds(GatewayMade, ForEachSlave(EmbeddedCalls), EmbeddedMade)
        /\ \A object : object \in Objects(EmbeddedMade) <=>
             \E slave \in Slaves, type \in DOMAIN PointKind : object = <<deviceInstance, type, slave>>
    BY EmbeddedBuilds
  <2>3. Builds({}, GatewayCalls \o ForEachSlave(EmbeddedCalls), GatewayMade \cup EmbeddedMade)
    BY <1>1, <1>2, <2>2, BuildsBoth, Zenon
  <2>4. Objects(GatewayMade \cup EmbeddedMade) = Objects(GatewayMade) \cup Objects(EmbeddedMade)
    BY ObjectsOfBoth, Zenon
  <2>5. ASSUME NEW device, NEW type, NEW instance
        PROVE  <<device, type, instance>> \in Objects(SetUpMade) <=> IsSetUp(device, type, instance)
    <3> DEFINE object == <<device, type, instance>>
    <3>1. object \in Objects(SetUpMade) <=>
            object \in Objects(GatewayMade) \/ object \in Objects(EmbeddedMade)
      BY <2>1, <2>4, Zenon
    <3>2. object \in Objects(EmbeddedMade) <=>
            device = deviceInstance /\ type \in DOMAIN PointKind /\ instance \in Slaves
      <4>1. object \in Objects(EmbeddedMade) <=>
              \E slave \in Slaves, kind \in DOMAIN PointKind : object = <<deviceInstance, kind, slave>>
        BY <2>2, Zenon
      <4>2. \A slave, kind : object = <<deviceInstance, kind, slave>> <=>
              device = deviceInstance /\ type = kind /\ instance = slave
        OBVIOUS
      <4> HIDE DEF object
      <4> QED
        BY <4>1, <4>2, Zenon
    <3>3. object \in Objects(GatewayMade) <=>
            /\ device = deviceInstance
            /\ \/ type = "DEVICE" /\ instance = deviceInstance
               \/ type = "NETWORK_PORT" /\ instance = NETWORK_PORT_INSTANCE
      BY <1>1
    <3>4. mode # "vn"
      BY <1>3
    <3> HIDE DEF object
    <3> QED
      BY <1>3, <3>1, <3>2, <3>3, <3>4 DEF IsSetUp, object
  <2> QED
    BY <2>1, <2>3, <2>5
<1>4. CASE mode = "vn"
  <2>1. /\ SetUpCalls = GatewayCalls \o (AddVirtualNetwork \o ForEachSlave(VirtualCalls))
        /\ SetUpMade = GatewayMade \cup (NetworkMade \cup VirtualMade)
    BY <1>4 DEF SetUpCalls, SetUpMade
  <2>2. \A slave \in Slaves : VirtualDevice(slave) # deviceInstance
    BY <1>4 DEF InstanceIsTaken
  <2>3. /\ Builds(GatewayMade \cup NetworkMade, ForEachSlave(VirtualCalls), VirtualMade)
        /\ \A object : object \in Objects(VirtualMade) <=>
             \E slave \in Slaves :
               \/ object = <<VirtualDevice(slave), "DEVICE", VirtualDevice(slave)>>
               \/ \E type \in DOMAIN PointKind : object = <<VirtualDevice(slave), type, 1>>
    BY <2>2, VirtualBuilds
  <2>4. /\ Builds(GatewayMade, AddVirtualNetwork, NetworkMade)
        /\ Objects(NetworkMade) = {<<deviceInstance, "NETWORK_PORT", VIRTUAL_NETWORK_PORT_INSTANCE>>}
    <3>1. NETWORK_PORT_INSTANCE # VIRTUAL_NETWORK_PORT_INSTANCE
      BY DEF NETWORK_PORT_INSTANCE, VIRTUAL_NETWORK_PORT_INSTANCE
    <3>2. /\ <<deviceInstance, "DEVICE", deviceInstance>> \in Objects(GatewayMade)
          /\ <<deviceInstance, "NETWORK_PORT", VIRTUAL_NETWORK_PORT_INSTANCE>> \notin Objects(GatewayMade)
      BY <1>1, <3>1
    <3> QED
      BY <3>2, NetworkBuilds, Zenon
  <2>5. Builds(GatewayMade, AddVirtualNetwork \o ForEachSlave(VirtualCalls), NetworkMade \cup VirtualMade)
    BY <2>3, <2>4, BuildsBoth, Zenon
  <2>6. Builds({}, GatewayCalls \o (AddVirtualNetwork \o ForEachSlave(VirtualCalls)),
               GatewayMade \cup (NetworkMade \cup VirtualMade))
    BY <1>1, <1>2, <2>5, BuildsBoth, Zenon
  <2>7. Objects(NetworkMade \cup VirtualMade) = Objects(NetworkMade) \cup Objects(VirtualMade)
    BY ObjectsOfBoth, Zenon
  <2> DEFINE rest == NetworkMade \cup VirtualMade
  <2>8. Objects(GatewayMade \cup rest) = Objects(GatewayMade) \cup Objects(rest)
    BY ObjectsOfBoth, Zenon
  <2>9. ASSUME NEW device, NEW type, NEW instance
        PROVE  <<device, type, instance>> \in Objects(SetUpMade) <=> IsSetUp(device, type, instance)
    <3> DEFINE object == <<device, type, instance>>
    <3>1. object \in Objects(SetUpMade) <=>
            \/ object \in Objects(GatewayMade)
            \/ object \in Objects(NetworkMade)
            \/ object \in Objects(VirtualMade)
      BY <2>1, <2>7, <2>8, Zenon
    <3>2. object \in Objects(VirtualMade) <=>
            \E slave \in Slaves :
              /\ device = VirtualDevice(slave)
              /\ \/ type = "DEVICE" /\ instance = device
                 \/ type \in DOMAIN PointKind /\ instance = 1
      <4>1. object \in Objects(VirtualMade) <=>
              \E slave \in Slaves :
                \/ object = <<VirtualDevice(slave), "DEVICE", VirtualDevice(slave)>>
                \/ \E kind \in DOMAIN PointKind : object = <<VirtualDevice(slave), kind, 1>>
        <5> HIDE DEF object
        <5> QED
          BY <2>3
      <4>2. \A one, kind, other : object = <<one, kind, other>> <=>
              device = one /\ type = kind /\ instance = other
        OBVIOUS
      <4> HIDE DEF object
      <4>3. \A slave \in Slaves :
              (\/ object = <<VirtualDevice(slave), "DEVICE", VirtualDevice(slave)>>
               \/ \E kind \in DOMAIN PointKind : object = <<VirtualDevice(slave), kind, 1>>)
              <=> /\ device = VirtualDevice(slave)
                  /\ \/ type = "DEVICE" /\ instance = device
                     \/ type \in DOMAIN PointKind /\ instance = 1
        BY <4>2, Zenon
      <4> QED
        BY <4>1, <4>3, Zenon
    <3>3. mode # "eo"
      BY <1>4
    <3> QED
      BY <1>1, <1>4, <2>4, <3>1, <3>2, <3>3 DEF IsSetUp
  <2> QED
    BY <2>1, <2>6, <2>9
<1> QED
  BY <1>3, <1>4 DEF MODES

----------------------------------------------------------------------------
(* The set-up as main() carries it out. *)

\* The stack has what was called so far, the rest can be called, and in the end it has
\* everything.
SetUpInv ==
  /\ pc \in {"arguments", "udp", "control"} => database = {}
  /\ pc = "setup" => /\ calls \in Seq(Calls) /\ Runs(database, calls)
                     /\ database \cup Range(calls) = SetUpMade
  /\ pc \in {"run", "stop"} => database = SetUpMade
  /\ pc \notin {"arguments", "exited"} => ~InstanceIsTaken(mode, deviceInstance)

LEMMA SetUpInit == Init => SetUpInv
  BY DEF Init, SetUpInv

LEMMA SetUpStep ==
  ASSUME TypeOK, SetUpInv, [Next]_vars
  PROVE  SetUpInv'
<1>1. ASSUME UNCHANGED <<mode, deviceInstance>>
      PROVE  /\ SetUpMade' = SetUpMade
             /\ InstanceIsTaken(mode, deviceInstance)' = InstanceIsTaken(mode, deviceInstance)
  BY <1>1 DEF SetUpMade, GatewayMade, EmbeddedMade, NetworkMade, VirtualMade, InstanceIsTaken
<1>2. ASSUME UNCHANGED <<configVars, stackVars, pc>>
      PROVE  SetUpInv'
  BY <1>1, <1>2 DEF configVars, stackVars, SetUpInv
<1>3. CASE UNCHANGED vars
  BY <1>2, <1>3 DEF vars
<1>4. CASE ReadArguments
  BY <1>4 DEF ReadArguments, SetUpInv, stackVars, Exit, Goto, InstanceIsTaken
<1>5. CASE SetupUDP
  BY <1>1, <1>5 DEF SetupUDP, SetUpInv, configVars, stackVars, Exit, Goto
<1>6. CASE StartControl
  <2>1. UNCHANGED <<mode, deviceInstance, database>> /\ calls' = SetUpCalls /\ pc = "control"
        /\ pc' \in {"setup", "exited"}
    BY <1>6 DEF StartControl, Exit, Goto
  <2>2. database = {} /\ ~InstanceIsTaken(mode, deviceInstance)
    BY <2>1 DEF SetUpInv
  <2>3. Builds({}, SetUpCalls, SetUpMade)
    BY <2>2, SetUpBuilds DEF TypeOK
  <2> QED
    BY <1>1, <2>1, <2>2, <2>3 DEF SetUpInv, Builds
<1>7. CASE SetUp
  <2>1. /\ UNCHANGED <<mode, deviceInstance>> /\ calls' = Tail(calls) /\ pc = "setup" /\ calls # <<>>
        /\ \/ pc' = "setup" /\ database' = database \cup {Head(calls)}
           \/ pc' = "exited"
    BY <1>7 DEF SetUp, configVars, Exit, Goto
  <2>2. /\ calls \in Seq(Calls) /\ Runs(database, calls)
        /\ database \cup Range(calls) = SetUpMade
    BY <2>1 DEF SetUpInv
  <2>3. /\ Tail(calls) \in Seq(Calls)
        /\ Runs(database \cup {Head(calls)}, Tail(calls))
        /\ Range(calls) = {Head(calls)} \cup Range(Tail(calls))
    BY <2>1, <2>2, RunsOn
  <2>4. (database \cup {Head(calls)}) \cup Range(Tail(calls)) = SetUpMade
    BY <2>2, <2>3
  <2>5. CASE pc' = "setup" /\ database' = database \cup {Head(calls)}
    <3>1. database' \cup Range(calls)' = SetUpMade /\ Runs(database', calls') /\ calls' \in Seq(Calls)
      BY <2>1, <2>3, <2>4, <2>5
    <3> QED
      BY <1>1, <2>1, <2>5, <3>1 DEF SetUpInv
  <2>6. CASE pc' = "exited"
    BY <2>6 DEF SetUpInv
  <2> QED
    BY <2>1, <2>5, <2>6
<1>8. CASE Announce
  <2>1. UNCHANGED <<mode, deviceInstance, database>> /\ calls = <<>> /\ pc = "setup" /\ pc' = "run"
    BY <1>8 DEF Announce, configVars, stackVars, Goto
  <2>2. Range(calls) = {}
    BY <2>1, EmptySeq DEF Range
  <2>3. database = SetUpMade
    BY <2>1, <2>2 DEF SetUpInv
  <2> QED
    BY <1>1, <2>1, <2>3 DEF SetUpInv
<1>9. CASE KeyQuit \/ Stop
  BY <1>1, <1>9 DEF KeyQuit, Stop, SetUpInv, configVars, stackVars, Exit, Goto
<1>10. CASE \/ ClientWrites \/ TimePasses
            \/ \E slave \in Slaves : StartPoll(slave) \/ FinishPoll(slave)
            \/ \E key \in TypedKeys : Type(key)
            \/ KeyAnnounce \/ KeyOther
  BY <1>2, <1>10 DEF ClientWrites, TimePasses, StartPoll, FinishPoll, Type, KeyAnnounce, KeyOther,
       NextTick, Goto
<1> QED
  BY <1>3, <1>4, <1>5, <1>6, <1>7, <1>8, <1>9, <1>10 DEF Next

\* No set-up call comes before what it needs, be it a device, an object or the virtual
\* network that the virtual devices are put on, and none adds what is there already,
\* whatever the number of slaves and the command line (main.cpp:1058, 1098-1150).
THEOREM NoCallIsRefused == Spec => []EveryCallIsPossible
<1>1. SetUpInv => EveryCallIsPossible
  BY RunsOn DEF SetUpInv, EveryCallIsPossible
<1>2. Init => SetUpInv
  BY SetUpInit
<1>3. TypeOK /\ SetUpInv /\ [Next]_vars => SetUpInv'
  BY SetUpStep
<1> QED
  BY <1>1, <1>2, <1>3, ProgramTypeCorrect, PTL DEF Spec

----------------------------------------------------------------------------
(* What the set-up made. *)

MappedOps == {"AddObject", "SetPropertyEnabled", "SetPropertyWritable"}

\* A call about a mapped object; one about a device of its own.
OfMapped(call) ==
  /\ call.type \in DOMAIN PointKind
  /\ call.op \in MappedOps
  /\ call.op = "SetPropertyWritable" => call.type # "ANALOG_INPUT"

OfDevice(call, answersDeviceCommunicationControl) ==
  /\ call.type = "DEVICE"
  /\ call.op \in {"AddDevice", "AddDeviceToVirtualNetwork", "SetServiceEnabled",
                  "SetPropertyEnabled"}
  /\ call.op = "SetServiceEnabled" => call.what \in ServiceNames(answersDeviceCommunicationControl)

\* A call that adds a port.
OfPort(call) == call.type = "NETWORK_PORT" /\ call.op \in {"AddObject", "AddVirtualNetwork"}

LEMMA InMapped ==
  ASSUME NEW device, NEW type \in DOMAIN PointKind, NEW instance,
         NEW call, call \in MappedMade(device, type, instance)
  PROVE  call.device = device /\ call.instance = instance /\ OfMapped(call)
  BY DEF MappedMade, Switched, Call, MappedOps, OfMapped

LEMMA InMappedObjects ==
  ASSUME NEW device, NEW instance, NEW call, call \in MappedObjectsMade(device, instance)
  PROVE  call.device = device /\ call.instance = instance /\ OfMapped(call)
<1>1. PICK type \in DOMAIN PointKind : call \in MappedMade(device, type, instance)
  BY DEF MappedObjectsMade, PointKind
<1> QED
  BY <1>1, InMapped, Zenon

LEMMA InDevice ==
  ASSUME NEW device, NEW adding \in {AddDevice(device), AddDeviceToVirtualNetwork(device)},
         NEW answers, NEW call,
         call \in DeviceMade(adding, device, answers) \/ call \in DescriptionMade(device)
  PROVE  call.device = device /\ OfDevice(call, answers)
<1>1. CASE call = adding
  BY <1>1 DEF AddDevice, AddDeviceToVirtualNetwork, OnVirtualNetwork, Call, OfDevice
<1>2. CASE call \in ServicesMade(device, answers) \/ call \in DescriptionMade(device)
  BY <1>2 DEF DescriptionMade, ServicesMade, Switched, Call, OfDevice
<1> QED
  BY <1>1, <1>2 DEF DeviceMade

\* Where a call of the set-up belongs: to the gateway, in --mode eo to one of its mapped
\* objects, in --mode vn to a virtual device or one of its mapped objects.
LEMMA InSetUp ==
  ASSUME NEW call \in SetUpMade
  PROVE  \/ call.device = deviceInstance /\ (OfDevice(call, TRUE) \/ OfPort(call))
         \/ /\ mode = "eo"
            /\ call.device = deviceInstance /\ call.instance \in Slaves /\ OfMapped(call)
         \/ /\ mode # "eo"
            /\ \E slave \in Slaves :
                 /\ call.device = VirtualDevice(slave)
                 /\ OfDevice(call, FALSE) \/ (call.instance = 1 /\ OfMapped(call))
<1>1. CASE call \in GatewayMade
  <2>1. CASE \/ call \in DeviceMade(AddDevice(deviceInstance), deviceInstance, TRUE)
             \/ call \in DescriptionMade(deviceInstance)
    BY <2>1, InDevice, Zenon
  <2>2. CASE call = Call("AddObject", deviceInstance, "NETWORK_PORT", NETWORK_PORT_INSTANCE, "object")
    <3>1. call.device = deviceInstance /\ OfPort(call)
      BY <2>2 DEF Call, OfPort
    <3> QED
      BY <3>1
  <2> QED
    BY <1>1, <2>1, <2>2, Zenon DEF GatewayMade
<1>2. CASE mode = "eo" /\ call \in EmbeddedMade
  <2>1. PICK slave \in Slaves : call \in MappedObjectsMade(deviceInstance, slave)
    BY <1>2 DEF EmbeddedMade
  <2>2. call.device = deviceInstance /\ call.instance = slave /\ OfMapped(call)
    BY <2>1, InMappedObjects, Zenon
  <2> QED
    BY <1>2, <2>2
<1>3. CASE mode # "eo" /\ call \in NetworkMade
  <2>1. call.device = deviceInstance /\ OfPort(call)
    BY <1>3 DEF NetworkMade, OnVirtualNetwork, Call, OfPort
  <2> QED
    BY <2>1
<1>4. CASE mode # "eo" /\ call \in VirtualMade
  <2>1. PICK slave \in Slaves : call \in VirtualDeviceMade(VirtualDevice(slave))
    BY <1>4 DEF VirtualMade
  <2>2. CASE \/ call \in DeviceMade(AddDeviceToVirtualNetwork(VirtualDevice(slave)),
                                    VirtualDevice(slave), FALSE)
             \/ call \in DescriptionMade(VirtualDevice(slave))
    <3>1. call.device = VirtualDevice(slave) /\ OfDevice(call, FALSE)
      BY <2>2, InDevice, Zenon
    <3> QED
      BY <1>4, <3>1
  <2>3. CASE call \in MappedObjectsMade(VirtualDevice(slave), 1)
    <3>1. call.device = VirtualDevice(slave) /\ call.instance = 1 /\ OfMapped(call)
      BY <2>3, InMappedObjects, Zenon
    <3> QED
      BY <1>4, <3>1
  <2> QED
    BY <2>1, <2>2, <2>3, Zenon DEF VirtualDeviceMade
<1> QED
  BY <1>1, <1>2, <1>3, <1>4, Zenon DEF SetUpMade

\* The calls of a mapped object are made where Matches finds its slave (main.cpp:275, 965).
LEMMA MatchedIsMade ==
  ASSUME mode \in MODES, NEW slave \in Slaves, NEW address,
         address.type \in DOMAIN PointKind, Matches(slave, address)
  PROVE  MappedMade(address.device, address.type, address.instance) \subseteq SetUpMade
<1>1. MappedMade(address.device, address.type, address.instance)
        \subseteq MappedObjectsMade(address.device, address.instance)
  BY DEF MappedObjectsMade, PointKind
<1>2. CASE mode = "eo"
  <2>1. address.device = deviceInstance /\ address.instance = slave
    BY <1>2 DEF Matches
  <2>2. MappedObjectsMade(deviceInstance, slave) \subseteq EmbeddedMade
    BY DEF EmbeddedMade
  <2> QED
    BY <1>1, <1>2, <2>1, <2>2 DEF SetUpMade
<1>3. CASE mode = "vn"
  <2>1. address.device = VirtualDevice(slave) /\ address.instance = 1
    BY <1>3 DEF Matches
  <2>2. MappedObjectsMade(VirtualDevice(slave), 1) \subseteq VirtualMade
    <3>1. MappedObjectsMade(VirtualDevice(slave), 1) \subseteq VirtualDeviceMade(VirtualDevice(slave))
      BY Zenon DEF VirtualDeviceMade
    <3> QED
      BY <3>1, Zenon DEF VirtualMade
  <2> QED
    BY <1>1, <1>3, <2>1, <2>2 DEF SetUpMade
<1> QED
  BY <1>2, <1>3 DEF MODES

\* A slave is found exactly where one matches.
LEMMA FoundIsMatched ==
  ASSUME NEW address
  PROVE  FindMappedPoint(address) # {} <=>
           /\ address.type \in DOMAIN PointKind
           /\ \E slave \in Slaves : Matches(slave, address)
<1> DEFINE matching == {slave \in Slaves : address.type \in DOMAIN PointKind /\ Matches(slave, address)}
<1>1. FindMappedPoint(address) = {slave \in matching : \A other \in matching : slave <= other}
  BY DEF FindMappedPoint
<1>2. matching \subseteq Nat
  BY SlaveCountAssumption DEF Slaves
<1>3. matching # {} => \E slave \in matching : \A other \in matching : slave <= other
  <2> HIDE DEF matching
  <2> QED
    BY <1>2, LeastExists
<1>4. FindMappedPoint(address) # {} <=> matching # {}
  <2> HIDE DEF matching
  <2> QED
    BY <1>1, <1>3
<1> QED
  BY <1>4

\* The mapped objects of the program are the ones that match a slave.
LEMMA MatchedIsSetUp ==
  ASSUME mode \in MODES, NEW address, address.type \in DOMAIN PointKind
  PROVE  IsSetUp(address.device, address.type, address.instance) <=>
           \E slave \in Slaves : Matches(slave, address)
<1>1. address.type \notin {"DEVICE", "NETWORK_PORT"}
  BY DEF PointKind
<1>2. CASE mode = "eo"
  <2>1. \A slave : Matches(slave, address) <=> address.device = deviceInstance /\ address.instance = slave
    BY <1>2 DEF Matches
  <2>2. mode # "vn"
    BY <1>2
  <2> QED
    BY <1>1, <1>2, <2>1, <2>2, Zenon DEF IsSetUp
<1>3. CASE mode = "vn"
  <2>1. \A slave : Matches(slave, address) <=>
                   address.device = VirtualDevice(slave) /\ address.instance = 1
    BY <1>3 DEF Matches
  <2>2. mode # "eo"
    BY <1>3
  <2> QED
    BY <1>1, <1>3, <2>1, <2>2, Zenon DEF IsSetUp
<1> QED
  BY <1>2, <1>3 DEF MODES

Ready == deviceInstance \in Int /\ mode \in MODES /\ ~InstanceIsTaken(mode, deviceInstance)

LEMMA FoundIsAdded ==
  ASSUME Ready, database = SetUpMade, NEW address
  PROVE  FindMappedPoint(address) # {} <=>
           address.type \in DOMAIN PointKind /\ Accepts("AddObject", address, "object")
<1> DEFINE call == Call("AddObject", address.device, address.type, address.instance, "object")
<1> SUFFICES ASSUME address.type \in DOMAIN PointKind
             PROVE  (\E slave \in Slaves : Matches(slave, address)) <=> call \in SetUpMade
  BY FoundIsMatched, Zenon DEF Accepts
<1>1. ASSUME NEW slave \in Slaves, Matches(slave, address)
      PROVE  call \in SetUpMade
  <2>1. call \in MappedMade(address.device, address.type, address.instance)
    BY DEF MappedMade
  <2> HIDE DEF call
  <2>2. MappedMade(address.device, address.type, address.instance) \subseteq SetUpMade
    BY <1>1, MatchedIsMade DEF Ready
  <2> QED
    BY <2>1, <2>2
<1>2. ASSUME call \in SetUpMade
      PROVE  \E slave \in Slaves : Matches(slave, address)
  <2>1. /\ call.what = "object"
        /\ call.device = address.device /\ call.type = address.type
        /\ call.instance = address.instance
    BY DEF Call
  <2> HIDE DEF call
  <2>2. <<address.device, address.type, address.instance>> \in Objects(SetUpMade)
    BY <1>2, <2>1 DEF Objects
  <2>3. IsSetUp(address.device, address.type, address.instance)
    BY <2>2, SetUpBuilds DEF Ready
  <2> QED
    BY <2>3, MatchedIsSetUp DEF Ready
<1> QED
  BY <1>1, <1>2, Zenon

LEMMA CommandableIsWritable ==
  ASSUME Ready, database = SetUpMade, NEW address
  PROVE  FindCommandable(address) # {} <=> Accepts("SetPropertyWritable", address, "PRESENT_VALUE")
<1> DEFINE call == Call("SetPropertyWritable", address.device, address.type, address.instance,
                        "PRESENT_VALUE")
<1>1. ASSUME FindCommandable(address) # {}
      PROVE  call \in SetUpMade
  <2>1. PICK point \in FindCommandable(address) : TRUE
    BY <1>1
  <2>2. point = <<point[1], point[2]>>
    BY <2>1 DEF FindCommandable
  <2>3. /\ point[1] \in Slaves /\ Matches(point[1], address)
        /\ address.type \in {"ANALOG_OUTPUT", "BINARY_OUTPUT"}
    BY <2>1, <2>2, FindsOneCommandable
  <2>4. address.type \in DOMAIN PointKind /\ address.type # "ANALOG_INPUT"
    BY <2>3 DEF PointKind
  <2>5. call \in MappedMade(address.device, address.type, address.instance)
    BY <2>4 DEF MappedMade, Switched
  <2> HIDE DEF call
  <2>6. MappedMade(address.device, address.type, address.instance) \subseteq SetUpMade
    BY <2>3, <2>4, MatchedIsMade, Zenon DEF Ready
  <2> QED
    BY <2>5, <2>6
<1>2. ASSUME call \in SetUpMade
      PROVE  FindCommandable(address) # {}
  <2>1. /\ call.op = "SetPropertyWritable"
        /\ call.device = address.device /\ call.type = address.type
        /\ call.instance = address.instance
    BY DEF Call
  <2> HIDE DEF call
  <2>2. /\ OfMapped(call)
        /\ \/ mode = "eo" /\ call.device = deviceInstance /\ call.instance \in Slaves
           \/ /\ mode # "eo"
              /\ \E slave \in Slaves : call.device = VirtualDevice(slave) /\ call.instance = 1
    <3>1. ~OfDevice(call, TRUE) /\ ~OfDevice(call, FALSE) /\ ~OfPort(call)
      BY <2>1 DEF OfDevice, OfPort
    <3> QED
      BY <1>2, <3>1, InSetUp, Zenon
  <2>3. address.type \in {"ANALOG_OUTPUT", "BINARY_OUTPUT"} /\ address.type \in DOMAIN PointKind
    BY <2>1, <2>2 DEF OfMapped, PointKind
  <2>4. \E slave \in Slaves : Matches(slave, address)
    BY <2>1, <2>2 DEF Matches
  <2>5. PICK slave \in FindMappedPoint(address) : TRUE
    BY <2>3, <2>4, FoundIsMatched
  <2>6. PointKind[address.type] \in Outputs
    BY <2>3 DEF PointKind, Outputs
  <2>7. <<slave, PointKind[address.type]>> \in FindCommandable(address)
    BY <2>5, <2>6 DEF FindCommandable
  <2> QED
    BY <2>7
<1> QED
  BY <1>1, <1>2, Zenon DEF Accepts

LEMMA ControlledIsEnabled ==
  ASSUME Ready, database = SetUpMade, NEW device
  PROVE  Call("SetServiceEnabled", device, "DEVICE", device, "DEVICE_COMMUNICATION_CONTROL")
             \in SetUpMade
           <=> device = deviceInstance
<1> DEFINE call == Call("SetServiceEnabled", device, "DEVICE", device, "DEVICE_COMMUNICATION_CONTROL")
<1>1. ASSUME device = deviceInstance
      PROVE  call \in SetUpMade
  <2>1. call \in ServicesMade(deviceInstance, TRUE)
    BY <1>1 DEF ServicesMade, ServiceNames, Switched
  <2> QED
    BY <2>1, Zenon DEF SetUpMade, GatewayMade, DeviceMade
<1>2. ASSUME call \in SetUpMade
      PROVE  device = deviceInstance
  <2>1. /\ call.op = "SetServiceEnabled" /\ call.type = "DEVICE" /\ call.device = device
        /\ call.what = "DEVICE_COMMUNICATION_CONTROL"
    BY DEF Call
  <2> HIDE DEF call
  <2>2. ~OfDevice(call, FALSE) /\ ~OfMapped(call)
    BY <2>1 DEF OfDevice, OfMapped, ServiceNames, MappedOps
  <2>3. call.device = deviceInstance
    BY <1>2, <2>2, InSetUp, Zenon
  <2> QED
    BY <2>1, <2>3
<1> QED
  BY <1>1, <1>2, Zenon

\* When the last call is made the stack has everything.
LEMMA WhenSetUp ==
  ASSUME TypeOK, SetUpInv, SetUpIsOver
  PROVE  database = SetUpMade /\ Ready
<1>1. Range(calls) = {}
  BY EmptySeq DEF SetUpIsOver, Range
<1>2. database = SetUpMade
  BY <1>1 DEF SetUpIsOver, SetUpInv
<1> QED
  BY <1>2 DEF Ready, TypeOK, SetUpInv, SetUpIsOver

\* The stack's objects and the callbacks' mapping are made in different places, from the same
\* tables: they agree, in either mode and for any number of slaves (main.cpp:275, 839, 933, 965).
THEOREM SetUpMatchesMapping == Spec => []MappingMatchesSetUp
<1>1. TypeOK /\ SetUpInv => MappingMatchesSetUp
  <2> SUFFICES ASSUME TypeOK, SetUpInv, SetUpIsOver, NEW address \in Addresses
               PROVE  /\ (FindMappedPoint(address) # {}) =
                           (address.type \in DOMAIN PointKind /\ Accepts("AddObject", address, "object"))
                      /\ (FindCommandable(address) # {}) =
                           Accepts("SetPropertyWritable", address, "PRESENT_VALUE")
                      /\ address.type = "DEVICE" =>
                           DeviceCommunicationControl(address.device, DCC_PASSWORD) =
                             Accepts("SetServiceEnabled", address, "DEVICE_COMMUNICATION_CONTROL")
    BY Zenon DEF MappingMatchesSetUp
  <2>1. database = SetUpMade
    BY WhenSetUp
  <2>2. Ready
    BY WhenSetUp
  <2>3. (FindMappedPoint(address) # {}) =
          (address.type \in DOMAIN PointKind /\ Accepts("AddObject", address, "object"))
    BY <2>1, <2>2, FoundIsAdded, Zenon DEF Accepts
  <2>4. (FindCommandable(address) # {}) = Accepts("SetPropertyWritable", address, "PRESENT_VALUE")
    <3>1. FindCommandable(address) # {} <=> Accepts("SetPropertyWritable", address, "PRESENT_VALUE")
      BY <2>1, <2>2, CommandableIsWritable, Zenon
    <3> QED
      BY <3>1 DEF Accepts
  <2>5. ASSUME address.type = "DEVICE"
        PROVE  DeviceCommunicationControl(address.device, DCC_PASSWORD) =
                 Accepts("SetServiceEnabled", address, "DEVICE_COMMUNICATION_CONTROL")
    <3>1. address.instance = address.device
      BY <2>5 DEF Addresses
    <3>2. Accepts("SetServiceEnabled", address, "DEVICE_COMMUNICATION_CONTROL") <=>
            address.device = deviceInstance
      BY <2>1, <2>2, <2>5, <3>1, ControlledIsEnabled, Zenon DEF Accepts
    <3>3. DeviceCommunicationControl(address.device, DCC_PASSWORD) <=>
            address.device = deviceInstance
      BY Zenon DEF DeviceCommunicationControl
    <3>4. /\ DeviceCommunicationControl(address.device, DCC_PASSWORD) \in BOOLEAN
          /\ Accepts("SetServiceEnabled", address, "DEVICE_COMMUNICATION_CONTROL") \in BOOLEAN
      BY DEF Accepts, DeviceCommunicationControl
    <3> QED
      BY <3>2, <3>3, <3>4
  <2> QED
    BY <2>3, <2>4, <2>5, Zenon
<1>2. Init => SetUpInv
  BY SetUpInit
<1>3. TypeOK /\ SetUpInv /\ [Next]_vars => SetUpInv'
  BY SetUpStep
<1> QED
  BY <1>1, <1>2, <1>3, ProgramTypeCorrect, PTL DEF Spec

----------------------------------------------------------------------------
(* What is announced. *)

LEMMA ServicesAreMade ==
  ASSUME mode \in MODES, NEW device,
         device = deviceInstance \/ (mode = "vn" /\ \E slave \in Slaves : device = VirtualDevice(slave))
  PROVE  \A service \in {"I_AM", "WHO_IS", "READ_PROPERTY"} :
           Call("SetServiceEnabled", device, "DEVICE", device, service) \in SetUpMade
<1>1. ASSUME NEW service \in {"I_AM", "WHO_IS", "READ_PROPERTY"}, NEW answers \in BOOLEAN,
             NEW adding
      PROVE  Call("SetServiceEnabled", device, "DEVICE", device, service)
               \in DeviceMade(adding, device, answers)
  <2>1. service \in ServiceNames(answers)
    BY DEF ServiceNames
  <2> QED
    BY <2>1, Zenon DEF DeviceMade, ServicesMade, Switched
<1>2. CASE device = deviceInstance
  <2>1. DeviceMade(AddDevice(device), device, TRUE) \subseteq SetUpMade
    BY <1>2, Zenon DEF SetUpMade, GatewayMade
  <2>2. TRUE \in BOOLEAN
    OBVIOUS
  <2> QED
    BY <1>1, <2>1, <2>2, Zenon
<1>3. ASSUME NEW slave \in Slaves, mode = "vn", device = VirtualDevice(slave)
      PROVE  \A service \in {"I_AM", "WHO_IS", "READ_PROPERTY"} :
               Call("SetServiceEnabled", device, "DEVICE", device, service) \in SetUpMade
  <2>1. DeviceMade(AddDeviceToVirtualNetwork(device), device, FALSE) \subseteq VirtualMade
    <3>1. DeviceMade(AddDeviceToVirtualNetwork(device), device, FALSE) \subseteq VirtualDeviceMade(VirtualDevice(slave))
      BY <1>3, Zenon DEF VirtualDeviceMade
    <3> QED
      BY <3>1, Zenon DEF VirtualMade
  <2>2. mode # "eo"
    BY <1>3
  <2>3. VirtualMade \subseteq SetUpMade
    BY <2>2, Zenon DEF SetUpMade
  <2>4. FALSE \in BOOLEAN
    OBVIOUS
  <2> QED
    BY <1>1, <2>1, <2>3, <2>4, Zenon
<1> QED
  BY <1>2, <1>3, Zenon

\* Every virtual device starts online and discoverable, and no poll has changed that yet.
StartsReachable ==
  pc \in {"arguments", "udp", "control", "setup"} =>
    \A slave \in Slaves :
      online[slave] /\ \A service \in DiscoveryServices : discoverable[slave][service]

LEMMA StartsReachableInit == Init => StartsReachable
  BY DEF Init, Embedded!GatewayInit, StartsReachable, Embedded!Slaves, Slaves,
         Embedded!DiscoveryServices, DiscoveryServices

LEMMA StartsReachableStep ==
  ASSUME StartsReachable, [Next]_vars
  PROVE  StartsReachable'
<1>1. CASE UNCHANGED vars
  BY <1>1 DEF vars, slaveVars, StartsReachable
<1>2. CASE ReadArguments \/ SetupUDP \/ StartControl \/ SetUp
  <2>1. UNCHANGED <<online, discoverable>> /\ pc \in {"arguments", "udp", "control", "setup"}
    BY <1>2 DEF ReadArguments, SetupUDP, StartControl, SetUp, slaveVars
  <2> QED
    BY <2>1 DEF StartsReachable
<1>3. CASE \/ Announce \/ ClientWrites \/ TimePasses
           \/ \E slave \in Slaves : StartPoll(slave) \/ FinishPoll(slave)
           \/ \E key \in TypedKeys : Type(key)
           \/ KeyQuit \/ KeyAnnounce \/ KeyOther \/ Stop
  <2>1. pc' \in {"run", "stop", "exited"}
    BY <1>3 DEF Announce, ClientWrites, TimePasses, StartPoll, FinishPoll, Type, KeyQuit,
         KeyAnnounce, KeyOther, Stop, NextTick, Goto, Exit
  <2> QED
    BY <2>1 DEF StartsReachable
<1> QED
  BY <1>1, <1>2, <1>3 DEF Next

\* A slave that came back is reachable at once, if the stack lets itself be told so.
LEMMA CameBackReachable ==
  ASSUME SetServiceOutcomes = {TRUE}, mode = "vn", Embedded!GatewayTypeOK({1}),
         NEW slave \in Slaves, CameBack(slave)
  PROVE  online'[slave] /\ \A service \in DiscoveryServices : discoverable'[slave][service]
<1>1. slave \in DOMAIN online /\ slave \in DOMAIN discoverable
  BY SameCache DEF Embedded!GatewayTypeOK
<1>2. PICK whoIsOk \in SetServiceOutcomes, whoHasOk \in SetServiceOutcomes :
        discoverable' = [discoverable EXCEPT ![slave] =
          [service \in DiscoveryServices |->
             IF whoIsOk /\ (service = "WHO_IS" \/ whoHasOk)
               THEN TRUE ELSE discoverable[slave][service]]]
  BY DEF CameBack, Switches
<1>3. whoIsOk = TRUE /\ whoHasOk = TRUE
  OBVIOUS
<1> QED
  BY <1>1, <1>2, <1>3 DEF CameBack

LEMMA AnnouncedStep ==
  ASSUME SetServiceOutcomes = {TRUE}, TypeOK, SetUpInv, StartsReachable, AnnouncedAreReachable,
         [Next]_vars
  PROVE  AnnouncedAreReachable'
<1> DEFINE reachable(device) ==
             /\ \A service \in {"I_AM", "WHO_IS", "READ_PROPERTY"} :
                  Call("SetServiceEnabled", device, "DEVICE", device, service) \in database'
             /\ \A slave \in Slaves :
                  mode' = "vn" /\ VirtualDevice(slave) = device =>
                    /\ online'[slave]
                    /\ \A service \in DOMAIN discoverable'[slave] : discoverable'[slave][service]
<1>1. ASSUME \A device \in announced' : reachable(device)
      PROVE  AnnouncedAreReachable'
  <2> SUFFICES ASSUME NEW device \in announced'
               PROVE  /\ \A service \in {"I_AM", "WHO_IS", "READ_PROPERTY"} :
                           Call("SetServiceEnabled", device, "DEVICE", device, service) \in database'
                      /\ \A slave \in FindVirtualDevice(device)' :
                           /\ online'[slave]
                           /\ \A service \in DOMAIN discoverable'[slave] : discoverable'[slave][service]
    BY Zenon DEF AnnouncedAreReachable
  <2>1. reachable(device)
    BY <1>1
  <2> QED
    BY <2>1, Zenon DEF FindVirtualDevice
<1>2. CASE UNCHANGED vars
  BY <1>2 DEF vars, slaveVars, stackVars, configVars, AnnouncedAreReachable, FindVirtualDevice
<1>3. CASE announced' = {}
  BY <1>1, <1>3
<1>4. /\ mode \in MODES /\ Embedded!GatewayTypeOK({1})
      /\ \A slave \in Slaves : DOMAIN discoverable[slave] = DiscoveryServices
  BY SameCache DEF TypeOK, Embedded!GatewayTypeOK, Embedded!DiscoveryServices, DiscoveryServices
<1>5. CASE Announce
  <2>1. /\ pc = "setup" /\ UNCHANGED <<mode, database, online, discoverable>>
        /\ announced' = {deviceInstance} \cup (IF mode = "vn" THEN VirtualDevices ELSE {})
    BY <1>5 DEF Announce, configVars, stackVars, slaveVars
  <2>2. database = SetUpMade
    <3>1. Range(calls) = {}
      BY <1>5, EmptySeq DEF Announce, Range
    <3> QED
      BY <2>1, <3>1 DEF SetUpInv
  <2>3. ASSUME NEW device \in announced'
        PROVE  reachable(device)
    <3>1. device = deviceInstance \/ (mode = "vn" /\ \E slave \in Slaves : device = VirtualDevice(slave))
      BY <2>1 DEF VirtualDevices
    <3>2. \A service \in {"I_AM", "WHO_IS", "READ_PROPERTY"} :
            Call("SetServiceEnabled", device, "DEVICE", device, service) \in SetUpMade
      BY <1>4, <3>1, ServicesAreMade
    <3>3. \A slave \in Slaves :
            online'[slave] /\ \A service \in DOMAIN discoverable'[slave] : discoverable'[slave][service]
      BY <1>4, <2>1 DEF StartsReachable
    <3> QED
      BY <2>1, <2>2, <3>2, <3>3, Zenon
  <2> QED
    BY <1>1, <2>3, Zenon
<1>6. ASSUME NEW slave \in Slaves, FinishPoll(slave)
      PROVE  AnnouncedAreReachable'
  <2>1. /\ pc = "run" /\ UNCHANGED <<mode, deviceInstance, database>>
        /\ announced' = AnnouncedBy(slave)
    BY <1>6 DEF FinishPoll, NextTick, configVars, stackVars
  <2>2. SUFFICES ASSUME mode = "vn", ~online[slave], online'[slave],
                        announced' = {VirtualDevice(slave)}
                 PROVE  reachable(VirtualDevice(slave))
    BY <1>1, <1>3, <2>1, Zenon DEF AnnouncedBy
  <2>3. CameBack(slave)
    <3>1. slave \in DOMAIN online
      BY <1>4, SameCache DEF Embedded!GatewayTypeOK
    <3> QED
      BY <1>4, <1>6, <2>2, <3>1, FinishedPoll DEF WentOffline
  <2>4. online'[slave] /\ \A service \in DiscoveryServices : discoverable'[slave][service]
    BY <1>4, <2>2, <2>3, CameBackReachable
  <2>5. DOMAIN discoverable'[slave] = DiscoveryServices
    BY <1>4, <1>6, FinishedPollType, SameCache
       DEF Embedded!GatewayTypeOK, Embedded!DiscoveryServices, DiscoveryServices
  <2>6. \A other \in Slaves : VirtualDevice(other) = VirtualDevice(slave) => other = slave
    BY SlaveCountAssumption, VirtualDevicesAssumption DEF VirtualDevice, Slaves
  <2>7. \A service \in {"I_AM", "WHO_IS", "READ_PROPERTY"} :
          Call("SetServiceEnabled", VirtualDevice(slave), "DEVICE", VirtualDevice(slave), service)
            \in database'
    BY <1>4, <2>1, <2>2, ServicesAreMade, Zenon DEF SetUpInv
  <2> QED
    BY <2>4, <2>5, <2>6, <2>7, Zenon
<1>7. CASE KeyAnnounce
  <2>1. /\ pc = "run" /\ UNCHANGED <<mode, deviceInstance, database>>
        /\ announced' = IF mode = "eo" THEN {deviceInstance} ELSE {}
    BY <1>7 DEF KeyAnnounce, NextTick, configVars, stackVars
  <2>2. SUFFICES ASSUME mode = "eo", announced' = {deviceInstance}
                 PROVE  reachable(deviceInstance)
    BY <1>1, <1>3, <2>1
  <2>3. database' = SetUpMade /\ mode' # "vn"
    BY <2>1, <2>2 DEF SetUpInv
  <2>4. \A service \in {"I_AM", "WHO_IS", "READ_PROPERTY"} :
          Call("SetServiceEnabled", deviceInstance, "DEVICE", deviceInstance, service) \in SetUpMade
    BY <1>4, ServicesAreMade
  <2> QED
    BY <2>3, <2>4, Zenon
<1>8. CASE \/ ReadArguments \/ SetupUDP \/ StartControl \/ SetUp \/ ClientWrites \/ TimePasses
           \/ \E slave \in Slaves : StartPoll(slave)
           \/ \E key \in TypedKeys : Type(key)
           \/ KeyQuit \/ KeyOther \/ Stop
  <2>1. announced' = {}
    BY <1>8 DEF ReadArguments, SetupUDP, StartControl, SetUp, ClientWrites, TimePasses, StartPoll,
         Type, KeyQuit, KeyOther, Stop
  <2> QED
    BY <1>3, <2>1
<1> QED
  BY <1>2, <1>5, <1>6, <1>7, <1>8 DEF Next

\* Whoever hears an I-Am can find and ask the device it names, as long as the stack takes the
\* switching of its services (main.cpp:390-397, 910-925, 1152-1159).
THEOREM AnnouncedIsReachable ==
  ASSUME SetServiceOutcomes = {TRUE}
  PROVE  Spec => []AnnouncedAreReachable
<1>1. Init => SetUpInv /\ StartsReachable /\ AnnouncedAreReachable
  BY SetUpInit, StartsReachableInit DEF Init, AnnouncedAreReachable
<1>2. /\ TypeOK /\ SetUpInv /\ StartsReachable /\ AnnouncedAreReachable /\ [Next]_vars
      => SetUpInv' /\ StartsReachable' /\ AnnouncedAreReachable'
  BY SetUpStep, StartsReachableStep, AnnouncedStep
<1> QED
  BY <1>1, <1>2, ProgramTypeCorrect, PTL DEF Spec

----------------------------------------------------------------------------
(* What a write shows in. *)

ServesOutputs ==
  \A address, slave, output, property, index :
    /\ <<slave, output>> \in FindCommandable(address)
    /\ property \in {"PRIORITY_ARRAY", "RELINQUISH_DEFAULT"}
    => ServedValue(address, property, index) = OutputValue(slave, output, property, index)

LEMMA OutputsAreServed == ServesOutputs
<1> SUFFICES ASSUME NEW address, NEW slave, NEW output, NEW property, NEW index,
                    <<slave, output>> \in FindCommandable(address),
                    property \in {"PRIORITY_ARRAY", "RELINQUISH_DEFAULT"}
             PROVE  ServedValue(address, property, index) = OutputValue(slave, output, property, index)
  BY DEF ServesOutputs
<1>1. CASE property = "PRIORITY_ARRAY"
  BY <1>1, OutputIsServed
<1>2. CASE property = "RELINQUISH_DEFAULT"
  BY <1>2, OutputIsServed
<1> QED
  BY <1>1, <1>2

ServedSlots(address) == [slot \in Slots |-> ServedValue(address, "PRIORITY_ARRAY", slot)]

\* One address names an output of a slave (main.cpp:275).
LEMMA OneAddress ==
  ASSUME mode \in MODES, NEW one \in Addresses, NEW other \in Addresses, NEW slave, NEW output,
         <<slave, output>> \in FindCommandable(one), <<slave, output>> \in FindCommandable(other)
  PROVE  one = other
<1>1. ASSUME NEW address \in Addresses, <<slave, output>> \in FindCommandable(address)
      PROVE  /\ address = [device |-> address.device, type |-> address.type,
                           instance |-> address.instance]
             /\ Matches(slave, address)
             /\ address.type = IF output = "setpoint" THEN "ANALOG_OUTPUT" ELSE "BINARY_OUTPUT"
  <2>1. address = [device |-> address.device, type |-> address.type, instance |-> address.instance]
    BY DEF Addresses
  <2> QED
    BY <1>1, <2>1, FindsOneCommandable
<1>2. /\ Matches(slave, one) /\ Matches(slave, other) /\ one.type = other.type
      /\ one = [device |-> one.device, type |-> one.type, instance |-> one.instance]
      /\ other = [device |-> other.device, type |-> other.type, instance |-> other.instance]
  BY <1>1
<1>3. one.device = other.device /\ one.instance = other.instance
  BY <1>2 DEF Matches
<1> QED
  BY <1>2, <1>3

\* A write changes what is served of the output it commands, and of no other.
LEMMA WriteShowsThere ==
  ASSUME Embedded!GatewayTypeOK({1}), UNCHANGED <<mode, deviceInstance>>, ServesOutputs,
         ServesOutputs', NEW address, NEW slave, NEW output, NEW commanded,
         <<slave, output>> \in FindCommandable(address),
         priorityArray' = [priorityArray EXCEPT ![slave][output] = commanded],
         NEW one, FindCommandable(one) # {}, ServedSlots(one)' # ServedSlots(one)
  PROVE  <<slave, output>> \in FindCommandable(one)
<1>1. PICK point \in FindCommandable(one) : TRUE
  OBVIOUS
<1> DEFINE s == point[1]
           o == point[2]
<1>2. point = <<s, o>> /\ s \in Slaves /\ o \in Outputs
  BY <1>1 DEF FindCommandable, FindMappedPoint
<1>3. FindCommandable(one)' = FindCommandable(one)
  BY DEF FindCommandable, FindMappedPoint, Matches, VirtualDevice
<1> HIDE DEF s, o
<1>4. \A slot \in Slots :
        /\ ServedValue(one, "PRIORITY_ARRAY", slot) = SlotValue(s, o, slot)
        /\ ServedValue(one, "PRIORITY_ARRAY", slot)' = SlotValue(s, o, slot)'
  <2>1. \A slot \in Slots :
          /\ ServedValue(one, "PRIORITY_ARRAY", slot) = OutputValue(s, o, "PRIORITY_ARRAY", slot)
          /\ ServedValue(one, "PRIORITY_ARRAY", slot)' = OutputValue(s, o, "PRIORITY_ARRAY", slot)'
    BY <1>1, <1>2, <1>3 DEF ServesOutputs
  <2> QED
    BY <2>1 DEF OutputValue, ReadsSlot
<1>5. <<s, o>> = <<slave, output>>
  <2> SUFFICES ASSUME ~(s = slave /\ o = output) PROVE FALSE
    OBVIOUS
  <2>1. priorityArray'[s][o] = priorityArray[s][o]
    BY <1>2, SameCache DEF Embedded!GatewayTypeOK
  <2>2. \A slot \in Slots : ServedValue(one, "PRIORITY_ARRAY", slot)' = ServedValue(one, "PRIORITY_ARRAY", slot)
    BY <1>4, <2>1 DEF SlotValue
  <2> QED
    BY <2>2, Zenon DEF ServedSlots
<1> QED
  BY <1>1, <1>2, <1>5

\* A client's write is seen in the object it names, and no step of the gateway changes what
\* two objects show, in either mode (main.cpp:272-299, 478-480).
THEOREM WriteStaysInItsObject == Spec => WritesStayInTheirObject
<1> DEFINE Stays == \A one, other \in {address \in Addresses :
                                         FindCommandable(address) # {}
                                         /\ ServedSlots(address)' # ServedSlots(address)} :
                      one = other
<1>1. ASSUME TypeOK, ServesOutputs, ServesOutputs', [Next]_vars
      PROVE  [Stays]_priorityArray
  <2>1. CASE UNCHANGED priorityArray
    BY <2>1
  <2>2. CASE ClientWrites
    <3>1. PICK address \in Addresses, write \in Writes : ClientWrite(address, write)
      BY <2>2 DEF ClientWrites
    <3>2. UNCHANGED <<mode, deviceInstance>> /\ Embedded!GatewayTypeOK({1}) /\ mode \in MODES
      BY <1>1, <2>2 DEF ClientWrites, configVars, TypeOK
    <3>3. Commands(address)
      BY <3>1, <3>2, WriteCommands, SameCache DEF Embedded!GatewayTypeOK
    <3>4. PICK slave, output, commanded :
            /\ <<slave, output>> \in FindCommandable(address)
            /\ priorityArray' = [priorityArray EXCEPT ![slave][output] = commanded]
      BY <3>3 DEF Commands
    <3>5. ASSUME NEW one \in Addresses, FindCommandable(one) # {},
                 ServedSlots(one)' # ServedSlots(one)
          PROVE  <<slave, output>> \in FindCommandable(one)
      BY <1>1, <3>2, <3>4, <3>5, WriteShowsThere
    <3>6. ASSUME NEW one \in Addresses, FindCommandable(one) # {},
                 ServedSlots(one)' # ServedSlots(one),
                 NEW other \in Addresses, FindCommandable(other) # {},
                 ServedSlots(other)' # ServedSlots(other)
          PROVE  one = other
      <4>1. <<slave, output>> \in FindCommandable(one) /\ <<slave, output>> \in FindCommandable(other)
        BY <3>5, <3>6
      <4> QED
        BY <3>2, <4>1, OneAddress
    <3>7. Stays
      BY <3>6, Zenon
    <3> QED
      BY <3>7
  <2>3. CASE \E slave \in Slaves : FinishPoll(slave)
    <3>1. UNCHANGED priorityArray
      BY <1>1, <2>3, FinishedPoll DEF TypeOK
    <3> QED
      BY <3>1
  <2>4. CASE \/ UNCHANGED vars
             \/ ReadArguments \/ SetupUDP \/ StartControl \/ SetUp \/ Announce \/ TimePasses
             \/ \E slave \in Slaves : StartPoll(slave)
             \/ \E key \in TypedKeys : Type(key)
             \/ KeyQuit \/ KeyAnnounce \/ KeyOther \/ Stop
    <3>1. UNCHANGED priorityArray
      BY <2>4 DEF vars, slaveVars, ReadArguments, SetupUDP, StartControl, SetUp, Announce, TimePasses,
           Embedded!GatewayTimePasses, StartPoll, Embedded!PollStarts, Type, KeyQuit,
           KeyAnnounce, KeyOther, Stop
    <3> QED
      BY <3>1
  <2> QED
    BY <1>1, <2>2, <2>3, <2>4 DEF Next
<1>2. [Stays]_priorityArray
        => [LET commandable == {address \in Addresses : FindCommandable(address) # {}}
                slots(address) == [slot \in Slots |-> ServedValue(address, "PRIORITY_ARRAY", slot)]
                changed == {address \in commandable : slots(address)' # slots(address)}
            IN \A one, other \in changed : one = other]_priorityArray
  <2>1. Stays => LET commandable == {address \in Addresses : FindCommandable(address) # {}}
                     slots(address) == [slot \in Slots |-> ServedValue(address, "PRIORITY_ARRAY", slot)]
                     changed == {address \in commandable : slots(address)' # slots(address)}
                 IN \A one, other \in changed : one = other
    BY DEF ServedSlots
  <2> HIDE DEF Stays
  <2> QED
    BY <2>1
<1>3. ServesOutputs
  BY OutputsAreServed
<1> HIDE DEF Stays
<1> QED
  BY <1>1, <1>2, <1>3, ProgramTypeCorrect, PTL DEF Spec, WritesStayInTheirObject
----------------------------------------------------------------------------
(* What the set-up added is answered for. *)

\* What a callback may answer, none of which is the refusal to.
LEMMA AnswersAreNotRefusals ==
  /\ \A answer \in Int : answer # Declined
  /\ \A answer \in BOOLEAN : answer # Declined
  /\ \A answer \in Words : answer # Declined
  /\ \A answer \in Texts : answer # Declined
  BY DeclinedAssumption

LEMMA PartsMakeTexts ==
  ASSUME NEW one \in Words \cup Int
  PROVE  /\ <<one>> \in Texts
         /\ \A two \in Words \cup Int : <<one, two>> \in Texts
         /\ \A two, three \in Words \cup Int : <<one, two, three>> \in Texts
<1> DEFINE Part == Words \cup Int
<1> HIDE DEF Part
<1>1. ASSUME NEW a \in Part
      PROVE /\ <<a>> \in Seq(Part)
            /\ \A b \in Part : <<a, b>> \in Seq(Part)
            /\ \A b, c \in Part : <<a, b, c>> \in Seq(Part)
  OBVIOUS
<1> QED
  BY <1>1 DEF Texts, Part

\* Every mapped object is answered for, whether its slave answers or not
\* (main.cpp:494-495).
LEMMA MappedAnswers ==
  ASSUME Embedded!GatewayTypeOK({1}), NEW address, FindMappedPoint(address) # {}
  PROVE  MappedIsAnswered(address)
<1>1. PICK slave : slave \in FindMappedPoint(address)
  OBVIOUS
<1>2. /\ FindMappedPoint(address) = {slave} /\ slave \in Slaves
      /\ address.type \in {"ANALOG_INPUT", "ANALOG_OUTPUT", "BINARY_OUTPUT"}
  BY <1>1, FindsOne
<1> DEFINE kind == PointKind[address.type]
<1>3. /\ address.type = "ANALOG_INPUT" => kind = "temperature"
      /\ address.type = "ANALOG_OUTPUT" => kind = "setpoint"
      /\ address.type = "BINARY_OUTPUT" => kind = "enable"
  BY DEF PointKind
<1>4. slave \in Int
  BY <1>2, SlaveCountAssumption DEF Slaves
<1> HIDE DEF kind
<1>5. GetPropertyEnumerated(address, "RELIABILITY", 0) # Declined
  <2>1. {EnumeratedOf(found, kind, "RELIABILITY", 0) : found \in FindMappedPoint(address)}
          = {EnumeratedOf(slave, kind, "RELIABILITY", 0)}
    BY <1>2
  <2>2. GetPropertyEnumerated(address, "RELIABILITY", 0) = EnumeratedOf(slave, kind, "RELIABILITY", 0)
    BY <1>1, <2>1, OneAnswer DEF GetPropertyEnumerated, kind
  <2>3. EnumeratedOf(slave, kind, "RELIABILITY", 0) \in Int
    BY DEF EnumeratedOf, RELIABILITY_NO_FAULT_DETECTED, RELIABILITY_COMMUNICATION_FAILURE
  <2> QED
    BY <2>2, <2>3, AnswersAreNotRefusals
<1>6. GetPropertyBool(address, "OUT_OF_SERVICE", 0) # Declined
  <2>1. ~ReadsSlot("OUT_OF_SERVICE", 0)
    BY DEF ReadsSlot
  <2>2. GetPropertyBool(address, "OUT_OF_SERVICE", 0) = FALSE
    BY <2>1, <1>1 DEF GetPropertyBool
  <2> QED
    BY <2>2, AnswersAreNotRefusals
<1>7. GetPropertyCharString(address, "DESCRIPTION") # Declined
  <2>1. {MappedText(found, kind, address.instance, "DESCRIPTION") : found \in FindMappedPoint(address)}
          = {MappedText(slave, kind, address.instance, "DESCRIPTION")}
    BY <1>2
  <2>2. GetPropertyCharString(address, "DESCRIPTION") = <<"SIMULATED_foreign_bus", slave, kind>>
    BY <1>1, <2>1, OneAnswer
       DEF GetPropertyCharString, MappedText, MappedObjectDescription, kind
  <2>3. kind \in Words /\ "SIMULATED_foreign_bus" \in Words
    BY <1>2, <1>3 DEF Words
  <2>4. <<"SIMULATED_foreign_bus", slave, kind>> \in Texts
    BY <1>4, <2>3, PartsMakeTexts
  <2> QED
    BY <2>2, <2>4, AnswersAreNotRefusals
<1>8. CASE address.type = "ANALOG_INPUT"
  <2>1. {RealOf(found, kind, "PRESENT_VALUE", 0) : found \in FindMappedPoint(address)}
          = {RealOf(slave, kind, "PRESENT_VALUE", 0)}
    BY <1>2
  <2>2. GetPropertyReal(address, "PRESENT_VALUE", 0) = RealOf(slave, kind, "PRESENT_VALUE", 0)
    BY <2>1, OneAnswer DEF GetPropertyReal, kind
  <2>3. RealOf(slave, kind, "PRESENT_VALUE", 0) = measuredTemperature[slave]
    BY <1>3, <1>8 DEF RealOf
  <2>4. measuredTemperature[slave] \in Int
    BY <1>2, SameCache DEF Embedded!GatewayTypeOK
  <2>5. GetPropertyReal(address, "PRESENT_VALUE", 0) # Declined
    BY <2>2, <2>3, <2>4, AnswersAreNotRefusals
  <2> QED
    BY <1>5, <1>6, <1>7, <1>8, <2>5 DEF MappedIsAnswered
<1>9. CASE address.type # "ANALOG_INPUT"
  <2>1. kind \in Outputs
    BY <1>2, <1>3, <1>9 DEF Outputs
  <2>2. <<slave, kind>> \in FindCommandable(address)
    BY <1>1, <2>1 DEF FindCommandable, kind
  <2>3. ServedPresentValue(address) \in Int
    BY <2>2, ServedIsWinning
  <2>4. ServedPresentValue(address) # Declined
    BY <2>3, AnswersAreNotRefusals
  <2> QED
    BY <1>5, <1>6, <1>7, <1>9, <2>4 DEF MappedIsAnswered
<1> QED
  BY <1>8, <1>9

\* The virtual device of a slave is that slave's alone, and not the gateway (main.cpp:1060).
LEMMA VirtualDevicesDiffer ==
  ASSUME Ready, mode = "vn"
  PROVE  /\ FindVirtualDevice(deviceInstance) = {}
         /\ \A slave \in Slaves : FindVirtualDevice(VirtualDevice(slave)) = {slave}
<1>1. \A slave \in Slaves : VirtualDevice(slave) # deviceInstance
  BY DEF Ready, InstanceIsTaken
<1>2. \A one, other \in Slaves : VirtualDevice(one) = VirtualDevice(other) => one = other
  BY SlaveCountAssumption, VirtualDevicesAssumption DEF VirtualDevice, Slaves
<1> QED
  BY <1>1, <1>2 DEF FindVirtualDevice

LEMMA NotMapped ==
  ASSUME NEW address, address.type \in {"DEVICE", "NETWORK_PORT"}
  PROVE  FindMappedPoint(address) = {}
  BY DEF FindMappedPoint, PointKind

\* A device object is the gateway's or a virtual device's.
IsDevice(address) ==
  /\ address.type = "DEVICE" /\ address.instance = address.device
  /\ \/ address.device = deviceInstance
     \/ mode = "vn" /\ \E slave \in Slaves : address.device = VirtualDevice(slave)

\* What a virtual device says, whatever the property (main.cpp:690).
LEMMA VirtualDeviceSays ==
  ASSUME Ready, mode = "vn", NEW slave \in Slaves, NEW address, IsDevice(address),
         address.device = VirtualDevice(slave), NEW property
  PROVE  GetPropertyCharString(address, property) = VirtualDeviceText(slave, property)
<1>1. FindMappedPoint(address) = {}
  BY NotMapped DEF IsDevice
<1>2. FindVirtualDevice(address.device) = {slave}
  BY VirtualDevicesDiffer
<1>3. {VirtualDeviceText(found, property) : found \in FindVirtualDevice(address.device)}
        = {VirtualDeviceText(slave, property)}
  BY <1>2
<1>4. FindVirtualDevice(address.device) # {}
  BY <1>2
<1> QED
  BY <1>1, <1>3, <1>4, OneAnswer DEF GetPropertyCharString, IsDevice

LEMMA GatewaySays ==
  ASSUME Ready, NEW address, IsDevice(address), address.device = deviceInstance, NEW property
  PROVE  GetPropertyCharString(address, property) = GatewayText(property)
<1>1. FindMappedPoint(address) = {}
  BY NotMapped DEF IsDevice
<1>2. FindVirtualDevice(address.device) = {}
  BY VirtualDevicesDiffer DEF FindVirtualDevice
<1> QED
  BY <1>1, <1>2 DEF GetPropertyCharString, IsDevice

\* The texts of the devices (main.cpp:690).
LEMMA TextsAre ==
  /\ GatewayText("OBJECT_NAME") = <<DEVICE_NAME>>
  /\ GatewayText("DESCRIPTION") = <<"B-GW", mode>>
  /\ GatewayText("MODEL_NAME") = <<"B-GW">>
  /\ \A slave :
       /\ VirtualDeviceText(slave, "OBJECT_NAME") = <<DEVICE_NAME, slave>>
       /\ VirtualDeviceText(slave, "DESCRIPTION")
            = <<"Virtual_BACnet_device", slave, deviceInstance>>
       /\ VirtualDeviceText(slave, "MODEL_NAME") = <<"B-GW", "virtual_device">>
<1>1. /\ "MODEL_NAME" \in DOMAIN DeviceTexts(<<>>)
      /\ "OBJECT_NAME" \notin DOMAIN DeviceTexts(<<>>)
      /\ "DESCRIPTION" \notin DOMAIN DeviceTexts(<<>>)
      /\ DeviceTexts(<<"B-GW">>)["MODEL_NAME"] = <<"B-GW">>
      /\ DeviceTexts(<<"B-GW", "virtual_device">>)["MODEL_NAME"] = <<"B-GW", "virtual_device">>
  BY DEF DeviceTexts
<1> QED
  BY <1>1 DEF GatewayText, VirtualDeviceText, VirtualDeviceName, VirtualDeviceDescription

LEMMA DeviceAnswers ==
  ASSUME Ready, NEW address, IsDevice(address)
  PROVE  DeviceIsAnswered(address)
<1>1. /\ DEVICE_NAME \in Words /\ "B-GW" \in Words /\ mode \in Words
      /\ "virtual_device" \in Words /\ "Virtual_BACnet_device" \in Words
  BY DEF Words, Ready, MODES
<1>2. deviceInstance \in Int /\ \A slave \in Slaves : slave \in Int
  BY SlaveCountAssumption DEF Ready, Slaves
<1>4. CASE address.device = deviceInstance
  <2>1. /\ GetPropertyCharString(address, "OBJECT_NAME") = <<DEVICE_NAME>>
        /\ GetPropertyCharString(address, "DESCRIPTION") = <<"B-GW", mode>>
        /\ GetPropertyCharString(address, "MODEL_NAME") = <<"B-GW">>
    <3>1. \A property : GetPropertyCharString(address, property) = GatewayText(property)
      BY <1>4, GatewaySays, Zenon
    <3> QED
      BY <3>1, TextsAre
  <2>2. <<DEVICE_NAME>> \in Texts /\ <<"B-GW", mode>> \in Texts /\ <<"B-GW">> \in Texts
    BY <1>1, PartsMakeTexts
  <2>3. GetPropertyUnsignedInteger(address, "VENDOR_IDENTIFIER", port) = VENDOR_IDENTIFIER
    BY <1>4 DEF GetPropertyUnsignedInteger, IsDevice
  <2> QED
    BY <2>1, <2>2, <2>3, AnswersAreNotRefusals DEF DeviceIsAnswered
<1>5. ASSUME mode = "vn", NEW slave \in Slaves, address.device = VirtualDevice(slave)
      PROVE  DeviceIsAnswered(address)
  <2>1. /\ GetPropertyCharString(address, "OBJECT_NAME") = <<DEVICE_NAME, slave>>
        /\ GetPropertyCharString(address, "DESCRIPTION")
             = <<"Virtual_BACnet_device", slave, deviceInstance>>
        /\ GetPropertyCharString(address, "MODEL_NAME") = <<"B-GW", "virtual_device">>
    <3>1. \A property :
            GetPropertyCharString(address, property) = VirtualDeviceText(slave, property)
      BY <1>5, VirtualDeviceSays, Zenon
    <3> QED
      BY <3>1, TextsAre
  <2>2. /\ <<DEVICE_NAME, slave>> \in Texts
        /\ <<"Virtual_BACnet_device", slave, deviceInstance>> \in Texts
        /\ <<"B-GW", "virtual_device">> \in Texts
    BY <1>1, <1>2, PartsMakeTexts
  <2>3. FindVirtualDevice(address.device) # {}
    BY <1>5, VirtualDevicesDiffer
  <2>4. GetPropertyUnsignedInteger(address, "VENDOR_IDENTIFIER", port) = VENDOR_IDENTIFIER
    BY <2>3 DEF GetPropertyUnsignedInteger, IsDevice
  <2> QED
    BY <2>1, <2>2, <2>4, AnswersAreNotRefusals DEF DeviceIsAnswered
<1> QED
  BY <1>4, <1>5 DEF IsDevice

\* A network port is the gateway's.
IsPort(address) ==
  /\ address.type = "NETWORK_PORT" /\ address.device = deviceInstance
  /\ \/ address.instance = NETWORK_PORT_INSTANCE
     \/ mode = "vn" /\ address.instance = VIRTUAL_NETWORK_PORT_INSTANCE

LEMMA PortAnswers ==
  ASSUME Ready, NEW address, IsPort(address)
  PROVE  PortIsAnswered(address)
<1>1. FindMappedPoint(address) = {} /\ FindCommandable(address) = {}
  BY NotMapped DEF IsPort, FindCommandable
<1>2. GetPropertyBool(address, "OUT_OF_SERVICE", 0) = FALSE
  BY <1>1 DEF GetPropertyBool, IsPort
<1>3. ASSUME address.instance = NETWORK_PORT_INSTANCE
      PROVE  /\ GetPropertyUnsignedInteger(address, "BACNET_IP_UDP_PORT", port) = port
             /\ GetPropertyUnsignedInteger(address, "APDU_LENGTH", port) # Declined
             /\ GetPropertyEnumerated(address, "BACNET_IP_MODE", 0) # Declined
             /\ GetPropertyOctetString(address, "IP_ADDRESS", 4) # Declined
  <2>1. IsNetworkPort(address)
    BY <1>3 DEF IsNetworkPort, IsPort
  <2>2. GetPropertyUnsignedInteger(address, "BACNET_IP_UDP_PORT", port) = port
    BY <2>1 DEF GetPropertyUnsignedInteger, IsNetworkPort
  <2>3. GetPropertyUnsignedInteger(address, "APDU_LENGTH", port) = MAX_APDU_LENGTH
    BY <2>1 DEF GetPropertyUnsignedInteger, IsNetworkPort
  <2>4. MAX_APDU_LENGTH \in Int /\ BACNET_IP_MODE_NORMAL \in Int
    BY DEF MAX_APDU_LENGTH, BACNET_IP_MODE_NORMAL
  <2>5. GetPropertyEnumerated(address, "BACNET_IP_MODE", 0) = BACNET_IP_MODE_NORMAL
    BY <1>1, <2>1 DEF GetPropertyEnumerated
  <2>6. GetPropertyOctetString(address, "IP_ADDRESS", 4) = "IP_ADDRESS"
    BY <2>1 DEF GetPropertyOctetString
  <2>7. "IP_ADDRESS" \in Words
    BY DEF Words
  <2> QED
    BY <2>2, <2>3, <2>4, <2>5, <2>6, <2>7, AnswersAreNotRefusals
<1> QED
  BY <1>2, <1>3 DEF PortIsAnswered

\* The objects of the program, by type.
LEMMA ObjectKinds ==
  ASSUME Ready, database = SetUpMade, NEW address,
         Has(database, address.device, address.type, address.instance)
  PROVE  \/ IsDevice(address)
         \/ IsPort(address)
         \/ address.type \in DOMAIN PointKind /\ FindMappedPoint(address) # {}
<1>1. IsSetUp(address.device, address.type, address.instance)
  BY HasObject, SetUpBuilds, Zenon DEF Ready
<1>2. CASE address.type \in DOMAIN PointKind
  BY <1>1, <1>2, MatchedIsSetUp, FoundIsMatched, Zenon DEF Ready
<1>3. CASE address.type \notin DOMAIN PointKind
  BY <1>1, <1>3, Zenon DEF IsSetUp, IsDevice, IsPort
<1> QED
  BY <1>2, <1>3

\* "shall return values when read and not errors": with every object that the set-up added,
\* and later with every mapped one, however its slave is (main.cpp:494-495, 1098-1150).
THEOREM EnabledIsAnswered == Spec => []EnabledAreAnswered
<1>1. TypeOK /\ SetUpInv => EnabledAreAnswered
  <2> SUFFICES ASSUME TypeOK, SetUpInv
               PROVE  EnabledAreAnswered
    OBVIOUS
  <2>1. ASSUME SetUpIsOver, NEW address \in Addresses,
               Has(database, address.device, address.type, address.instance)
        PROVE  CASE address.type = "DEVICE" -> DeviceIsAnswered(address)
                 [] address.type = "NETWORK_PORT" -> PortIsAnswered(address)
                 [] OTHER -> MappedIsAnswered(address)
    <3>1. database = SetUpMade /\ Ready
      BY <2>1, WhenSetUp
    <3>2. CASE IsDevice(address)
      BY <3>1, <3>2, DeviceAnswers DEF IsDevice
    <3>3. CASE IsPort(address)
      BY <3>1, <3>3, PortAnswers DEF IsPort
    <3>4. CASE address.type \in DOMAIN PointKind /\ FindMappedPoint(address) # {}
      <4>1. address.type # "DEVICE" /\ address.type # "NETWORK_PORT"
        BY <3>4 DEF PointKind
      <4> QED
        BY <3>4, <4>1, MappedAnswers DEF TypeOK
    <3> QED
      BY <2>1, <3>1, <3>2, <3>3, <3>4, ObjectKinds
  <2>2. ASSUME NEW address \in {mapped \in Addresses : FindMappedPoint(mapped) # {}}
        PROVE  MappedIsAnswered(address)
    BY <2>2, MappedAnswers DEF TypeOK
  <2> QED
    BY <2>1, <2>2, Zenon DEF EnabledAreAnswered
<1>2. Init => SetUpInv
  BY SetUpInit
<1>3. TypeOK /\ SetUpInv /\ [Next]_vars => SetUpInv'
  BY SetUpStep
<1> QED
  BY <1>1, <1>2, <1>3, ProgramTypeCorrect, PTL DEF Spec

----------------------------------------------------------------------------
(* Names. *)

\* The name of every object but the devices: the word of its type, and its instance
\* unless that is the first (main.cpp:342, 690).
TypeWord ==
  [NETWORK_PORT |-> "Vermilion", ANALOG_INPUT |-> "Bronze",
   ANALOG_OUTPUT |-> "Chartreuse", BINARY_OUTPUT |-> "Fuchsia"]

Numbered(word, n) == IF n = 1 THEN <<word>> ELSE <<word, n>>

LEMMA NumberedDiffer ==
  ASSUME NEW one, NEW other, NEW m, NEW n, Numbered(one, m) = Numbered(other, n)
  PROVE  one = other /\ m = n
<1>1. CASE m = 1 /\ n = 1
  BY <1>1 DEF Numbered
<1>2. CASE m # 1 /\ n # 1
  BY <1>2 DEF Numbered
<1>3. CASE m = 1 /\ n # 1
  <2>1. Len(<<one>>) = 1 /\ Len(<<other, n>>) = 2
    OBVIOUS
  <2> QED
    BY <1>3, <2>1 DEF Numbered
<1>4. CASE m # 1 /\ n = 1
  <2>1. Len(<<one, m>>) = 2 /\ Len(<<other>>) = 1
    OBVIOUS
  <2> QED
    BY <1>4, <2>1 DEF Numbered
<1> QED
  BY <1>1, <1>2, <1>3, <1>4

\* The name of an object that the set-up added.
IsNamed(address, name) ==
  \/ IsDevice(address) /\ address.device = deviceInstance /\ name = <<DEVICE_NAME>>
  \/ /\ IsDevice(address) /\ mode = "vn"
     /\ \E slave \in Slaves : address.device = VirtualDevice(slave) /\ name = <<DEVICE_NAME, slave>>
  \/ /\ address.type \in DOMAIN TypeWord
     /\ address.instance \in Int
     /\ name = Numbered(TypeWord[address.type], address.instance)

LEMMA ObjectsAreNamed ==
  ASSUME Ready, database = SetUpMade, NEW address,
         Has(database, address.device, address.type, address.instance)
  PROVE  IsNamed(address, GetPropertyCharString(address, "OBJECT_NAME"))
<1>1. DOMAIN TypeWord = DOMAIN PointKind \cup {"NETWORK_PORT"}
  BY DEF TypeWord, PointKind
<1>2. CASE IsDevice(address)
  <2>1. CASE address.device = deviceInstance
    <3>1. GetPropertyCharString(address, "OBJECT_NAME") = <<DEVICE_NAME>>
      BY <1>2, <2>1, GatewaySays, TextsAre, Zenon
    <3> QED
      BY <1>2, <2>1, <3>1, Zenon DEF IsNamed
  <2>2. ASSUME mode = "vn", NEW slave \in Slaves, address.device = VirtualDevice(slave)
        PROVE  IsNamed(address, GetPropertyCharString(address, "OBJECT_NAME"))
    <3>1. GetPropertyCharString(address, "OBJECT_NAME") = <<DEVICE_NAME, slave>>
      BY <1>2, <2>2, VirtualDeviceSays, TextsAre, Zenon
    <3> QED
      BY <1>2, <2>2, <3>1 DEF IsNamed
  <2> QED
    BY <1>2, <2>1, <2>2 DEF IsDevice
<1>3. CASE IsPort(address)
  <2>1. FindMappedPoint(address) = {}
    BY <1>3, NotMapped DEF IsPort
  <2>2. GetPropertyCharString(address, "OBJECT_NAME") = NetworkPortName(address)
    BY <1>3, <2>1 DEF GetPropertyCharString, IsPort
  <2>3. NetworkPortName(address) = Numbered("Vermilion", address.instance) /\ address.instance \in Int
    BY <1>3 DEF NetworkPortName, Numbered, IsPort, NETWORK_PORT_INSTANCE,
                VIRTUAL_NETWORK_PORT_INSTANCE
  <2>4. TypeWord["NETWORK_PORT"] = "Vermilion"
    BY DEF TypeWord
  <2> QED
    BY <1>1, <1>3, <2>2, <2>3, <2>4 DEF IsNamed, IsPort
<1>4. CASE address.type \in DOMAIN PointKind /\ FindMappedPoint(address) # {}
  <2>1. PICK slave : slave \in FindMappedPoint(address)
    BY <1>4
  <2>2. FindMappedPoint(address) = {slave} /\ slave \in Slaves /\ Matches(slave, address)
    BY <2>1, FindsOne
  <2> DEFINE kind == PointKind[address.type]
  <2>3. kind \in DOMAIN Colour /\ Colour[kind] = TypeWord[address.type]
    BY <1>4 DEF PointKind, Colour, TypeWord
  <2> HIDE DEF kind
  <2>4. {MappedText(found, kind, address.instance, "OBJECT_NAME") : found \in FindMappedPoint(address)}
          = {MappedText(slave, kind, address.instance, "OBJECT_NAME")}
    BY <2>2
  <2>5. GetPropertyCharString(address, "OBJECT_NAME")
          = MappedText(slave, kind, address.instance, "OBJECT_NAME")
    BY <2>1, <2>4, OneAnswer DEF GetPropertyCharString, kind
  <2>6. MappedText(slave, kind, address.instance, "OBJECT_NAME")
          = Numbered(Colour[kind], address.instance)
    BY DEF MappedText, MappedObjectName, Numbered
  <2>7. address.instance \in Int
    BY <2>2, SlaveCountAssumption DEF Matches, Slaves
  <2> QED
    BY <1>1, <1>4, <2>3, <2>5, <2>6, <2>7 DEF IsNamed
<1> QED
  BY <1>2, <1>3, <1>4, ObjectKinds

LEMMA NamesAreTexts ==
  ASSUME NEW address, NEW name, IsNamed(address, name)
  PROVE  name \in Texts
<1>1. DEVICE_NAME \in Words /\ \A slave \in Slaves : slave \in Int
  BY SlaveCountAssumption DEF Words, Slaves
<1>2. \A type \in DOMAIN TypeWord : TypeWord[type] \in Words
  BY DEF TypeWord, Words
<1>3. \A word \in Words, n \in Int : Numbered(word, n) \in Texts
  BY PartsMakeTexts DEF Numbered
<1>4. <<DEVICE_NAME>> \in Texts /\ \A slave \in Slaves : <<DEVICE_NAME, slave>> \in Texts
  BY <1>1, PartsMakeTexts
<1> QED
  BY <1>2, <1>3, <1>4 DEF IsNamed

\* Two different objects of one device, or two devices, are named differently
\* (main.cpp:342, 360, 690).
LEMMA NamesDiffer ==
  ASSUME Ready, NEW one \in Addresses, NEW other \in Addresses, one # other,
         one.device = other.device \/ {one.type, other.type} = {"DEVICE"},
         NEW name, IsNamed(one, name), IsNamed(other, name)
  PROVE  FALSE
<1>1. one.device # other.device \/ one.type # other.type \/ one.instance # other.instance
  BY DEF Addresses
<1>2. "DEVICE" \notin DOMAIN TypeWord
  BY DEF TypeWord
<1>3. \A type \in DOMAIN TypeWord : TypeWord[type] # DEVICE_NAME
  <2>1. DEVICE_NAME \notin {"Vermilion", "Bronze", "Chartreuse", "Fuchsia"}
    BY Zenon DEF DEVICE_NAME
  <2>2. \A type \in DOMAIN TypeWord :
          TypeWord[type] \in {"Vermilion", "Bronze", "Chartreuse", "Fuchsia"}
    BY DEF TypeWord
  <2> QED
    BY <2>1, <2>2
<1>4. \A type, another \in DOMAIN TypeWord : TypeWord[type] = TypeWord[another] => type = another
  BY DEF TypeWord
<1>5. \A word, n : /\ Numbered(word, n) = <<DEVICE_NAME>> => word = DEVICE_NAME
                   /\ \A m : Numbered(word, n) = <<DEVICE_NAME, m>> => word = DEVICE_NAME
  BY DEF Numbered
<1>6. CASE one.type = "DEVICE" /\ other.type = "DEVICE"
  <2>1. one.device # other.device
    BY <1>1, <1>2, <1>6 DEF IsNamed, IsDevice
  <2> QED
    BY <1>2, <1>6, <2>1 DEF IsNamed
<1>7. CASE one.type = "DEVICE" /\ other.type # "DEVICE"
  BY <1>2, <1>3, <1>5, <1>7 DEF IsNamed, IsDevice
<1>8. CASE one.type # "DEVICE" /\ other.type = "DEVICE"
  BY <1>2, <1>3, <1>5, <1>8 DEF IsNamed, IsDevice
<1>9. CASE one.type # "DEVICE" /\ other.type # "DEVICE"
  <2>1. /\ one.type \in DOMAIN TypeWord /\ other.type \in DOMAIN TypeWord
        /\ Numbered(TypeWord[one.type], one.instance)
             = Numbered(TypeWord[other.type], other.instance)
    BY <1>9 DEF IsNamed, IsDevice
  <2>2. one.type = other.type /\ one.instance = other.instance
    BY <1>4, <2>1, NumberedDiffer
  <2>3. one.device = other.device
    BY <1>9
  <2> QED
    BY <1>1, <2>2, <2>3
<1> QED
  BY <1>6, <1>7, <1>8, <1>9

\* What BACnet clients tell objects and devices apart by, for any number of slaves and in
\* either mode (main.cpp:342, 360, 690).
THEOREM NamesTellApart == Spec => []NamesDistinguish
<1>1. TypeOK /\ SetUpInv => NamesDistinguish
  <2> SUFFICES ASSUME TypeOK, SetUpInv, SetUpIsOver
               PROVE  NamesDistinguish
    BY DEF NamesDistinguish
  <2> DEFINE objects == {address \in Addresses :
                           Has(database, address.device, address.type, address.instance)}
             name == [address \in objects |-> GetPropertyCharString(address, "OBJECT_NAME")]
  <2>1. database = SetUpMade /\ Ready
    BY WhenSetUp
  <2>2. \A address \in objects : IsNamed(address, GetPropertyCharString(address, "OBJECT_NAME"))
    BY <2>1, ObjectsAreNamed
  <2>3. ASSUME NEW address \in objects
        PROVE  name[address] # Declined
    <3>1. GetPropertyCharString(address, "OBJECT_NAME") \in Texts
      BY <2>2, NamesAreTexts
    <3> QED
      BY <3>1, AnswersAreNotRefusals
  <2>4. ASSUME NEW one \in objects, NEW other \in objects, one # other,
               one.device = other.device \/ {one.type, other.type} = {"DEVICE"}
        PROVE  name[one] # name[other]
    <3>1. IsNamed(one, GetPropertyCharString(one, "OBJECT_NAME"))
          /\ IsNamed(other, GetPropertyCharString(other, "OBJECT_NAME"))
      BY <2>2
    <3>2. one \in Addresses /\ other \in Addresses
      OBVIOUS
    <3>3. GetPropertyCharString(one, "OBJECT_NAME") # GetPropertyCharString(other, "OBJECT_NAME")
      BY <2>1, <2>4, <3>1, <3>2, NamesDiffer
    <3> QED
      BY <3>3
  <2> QED
    BY <2>3, <2>4 DEF NamesDistinguish
<1>2. Init => SetUpInv
  BY SetUpInit
<1>3. TypeOK /\ SetUpInv /\ [Next]_vars => SetUpInv'
  BY SetUpStep
<1> QED
  BY <1>1, <1>2, <1>3, ProgramTypeCorrect, PTL DEF Spec
=============================================================================
