--------------------------- MODULE GatewayProgram ---------------------------
(***************************************************************************)
(* main(): the command line, the sockets, the set-up of the stack's objects, *)
(* the announcements, and the loop in which clients read and write those     *)
(* objects through the callbacks while slaves come and go; then the end.     *)
(*                                                                         *)
(* The driver below the polls is any driver: a poll ends in an answer or a    *)
(* timeout.  The write-through of the outputs is left to GatewaySystem and   *)
(* GatewayOnSeam, no callback looks at it.  The steps of a pass are taken in  *)
(* any order, which allows more behaviours than the loop.                   *)
(***************************************************************************)
EXTENDS StartUp, Keyboard

CONSTANTS
  Launches,        \* how it may be started: [argv, controlPort, stdin], the
                   \* BGW_SIMULATION_CONTROL_PORT being "off", "valid" or "invalid"
  Readings,        \* what a slave may answer, as a register
  Writes,          \* what clients write: [type, priority, value]
  TypedKeys,       \* the keys that may be typed, one at a time
  POLL_PERIOD, OFFLINE_AFTER_FAILED_POLLS, MAX_FAILED_POLLS, SetServiceOutcomes

ControlPorts == {"off", "valid", "invalid"}
StdinKinds == {"terminal", "pipe", "ended"}

ASSUME LaunchesAssumption ==
  Launches \subseteq [argv : Seq(Tokens), controlPort : ControlPorts, stdin : StdinKinds]
ASSUME ReadingsAssumption == Readings \subseteq RegisterValues
ASSUME WritesAssumption ==
  Writes \subseteq [type : {"REAL", "ENUMERATED", "NULL"}, priority : Int, value : Int \cup {Null}]
ASSUME PollingAssumption ==
  /\ POLL_PERIOD \in [Slaves -> Nat]
  /\ OFFLINE_AFTER_FAILED_POLLS \in Nat \ {0}
  /\ MAX_FAILED_POLLS \in Nat
  /\ OFFLINE_AFTER_FAILED_POLLS <= MAX_FAILED_POLLS
  /\ SetServiceOutcomes \subseteq BOOLEAN

VARIABLES
  link, consecutiveFailedPolls, nextPollIn, pollTransactionId, discoverable,  \* see Gateway
  pc,             \* where main() is
  exitCode,       \* what it returned
  argv, controlPort,  \* forgotten once read
  port,           \* g_bacnetIpUdpPort
  udpSocket,      \* is the BACnet/IP socket open?
  controlSocket,  \* is the test control's?
  calls,          \* the set-up calls still to be made
  database,       \* external: the calls the stack accepted
  announced       \* history: the devices announced by the last step

Embedded == INSTANCE Gateway WITH MODE <- "eo"
Virtual == INSTANCE Gateway WITH MODE <- "vn"

configVars == <<mode, deviceInstance, argv, controlPort, port>>
socketVars == <<udpSocket, controlSocket>>
stackVars == <<calls, database>>
pollVars == <<consecutiveFailedPolls, nextPollIn, pollTransactionId>>
slaveVars == <<priorityArray, measuredTemperature, online, link, discoverable, pollVars>>
vars == <<configVars, socketVars, stackVars, slaveVars, keyboardVars, pc, exitCode, announced>>

NONE == -1

Stages == {"arguments", "udp", "control", "setup", "run", "stop", "exited"}

TypeOK ==
  /\ Embedded!GatewayTypeOK({1})
  /\ mode \in MODES /\ deviceInstance \in Nat /\ port \in Ports
  /\ pc \in Stages
  /\ exitCode \in {NONE, 0, 1}
  /\ (exitCode = NONE) = (pc # "exited")
  /\ {udpSocket, controlSocket} \subseteq BOOLEAN
  /\ typed \in Seq(TypedKeys)

Init ==
  /\ Embedded!GatewayInit
  /\ \E launch \in Launches :
       /\ argv = launch.argv
       /\ controlPort = launch.controlPort
       /\ stdin = [kind |-> launch.stdin, nonBlocking |-> FALSE, raw |-> FALSE]
  /\ mode = "eo"
  /\ deviceInstance = DEFAULT_DEVICE_INSTANCE
  /\ port = DEFAULT_PORT
  /\ udpSocket = FALSE /\ controlSocket = FALSE
  /\ calls = <<>> /\ database = {}
  /\ KeyboardInit
  /\ pc = "arguments" /\ exitCode = NONE
  /\ announced = {}

\* main() returns; whatever is still open is left to the system.
Exit(code) == pc' = "exited" /\ exitCode' = code

Goto(stage) == pc' = stage /\ UNCHANGED exitCode

----------------------------------------------------------------------------
(* Up to the loop. *)

\* --help, --version, --mode, --port, --deviceID, in this order.
ReadArguments ==
  /\ pc = "arguments"
  /\ IF HandleHelpAndVersionArgs(argv)
       THEN Exit(0) /\ UNCHANGED <<mode, deviceInstance, port>>
     ELSE IF ~ModeArgIsValid(argv)
       THEN Exit(1) /\ UNCHANGED <<mode, deviceInstance, port>>
     ELSE /\ mode' = ParseModeArg(argv)
          /\ deviceInstance' = ParseDeviceIdArg(argv)
          /\ port' = ParsePortArg(argv)
          /\ IF InstanceIsTaken(ParseModeArg(argv), ParseDeviceIdArg(argv))
               THEN Exit(1)
               ELSE Goto("udp")
  /\ argv' = <<>>
  /\ announced' = {}
  /\ UNCHANGED <<controlPort, socketVars, stackVars, slaveVars, keyboardVars>>

SetupUDP ==
  /\ pc = "udp"
  /\ \E bound \in BOOLEAN :
       /\ udpSocket' = bound
       /\ IF bound THEN Goto("control") ELSE Exit(1)
  /\ announced' = {}
  /\ UNCHANGED <<configVars, controlSocket, stackVars, slaveVars, keyboardVars>>

\* SimulationControl::Start: off is fine, a port that cannot be had is not.
StartControl ==
  /\ pc = "control"
  /\ \E bound \in BOOLEAN :
       /\ controlSocket' = (controlPort = "valid" /\ bound)
       /\ IF controlPort = "off" \/ controlSocket' THEN Goto("setup") ELSE Exit(1)
  /\ controlPort' = "off"
  /\ calls' = SetUpCalls
  /\ announced' = {}
  /\ UNCHANGED <<mode, deviceInstance, argv, port, udpSocket, database, slaveVars,
                 keyboardVars>>

\* The next set-up call; the program ends with the first that fails.
SetUp ==
  /\ pc = "setup"
  /\ calls # <<>>
  /\ calls' = Tail(calls)
  /\ \/ /\ IsPossible(database, Head(calls))
        /\ database' = database \cup {Head(calls)}
        /\ Goto("setup")
     \/ Exit(1) /\ UNCHANGED database
  /\ announced' = {}
  /\ UNCHANGED <<configVars, socketVars, slaveVars, keyboardVars>>

VirtualDevices == {VirtualDevice(slave) : slave \in Slaves}

\* The gateway, and in --mode vn every virtual device.
Announce ==
  /\ pc = "setup"
  /\ calls = <<>>
  /\ announced' = {deviceInstance} \cup (IF mode = "vn" THEN VirtualDevices ELSE {})
  /\ Goto("run")
  /\ UNCHANGED <<configVars, socketVars, stackVars, slaveVars, keyboardVars>>

----------------------------------------------------------------------------
(* The loop. *)

Types == DOMAIN PointKind \cup {"DEVICE", "NETWORK_PORT"}
Instances == Slaves \cup {NETWORK_PORT_INSTANCE, VIRTUAL_NETWORK_PORT_INSTANCE}

\* The addresses a client may try: those of the mapped types and the ports, and
\* every device object.
Addresses ==
  LET devices == {deviceInstance} \cup VirtualDevices
  IN [device : devices, type : Types \ {"DEVICE"}, instance : Instances]
       \cup {[device |-> device, type |-> "DEVICE", instance |-> device] : device \in devices}

NextTick == pc = "run" /\ Goto("run")

\* WriteProperty of a value or of NULL, to any address.
ClientWrite(address, write) ==
  IF write.value = Null THEN SetPropertyNull(address, "PRESENT_VALUE", write.priority)
  ELSE IF write.type = "REAL"
    THEN SetPropertyReal(address, "PRESENT_VALUE", write.priority, write.value)
  ELSE SetPropertyEnumerated(address, "PRESENT_VALUE", write.priority, write.value)

ClientWrites ==
  /\ NextTick
  /\ \E address \in Addresses, write \in Writes : ClientWrite(address, write)
  /\ announced' = {}
  /\ UNCHANGED <<configVars, socketVars, stackVars, measuredTemperature, online, link,
                 discoverable, pollVars, keyboardVars>>

TimePasses ==
  /\ NextTick
  /\ Embedded!GatewayTimePasses(1)
  /\ announced' = {}
  /\ UNCHANGED <<configVars, socketVars, stackVars, keyboardVars>>

StartPoll(slave) ==
  /\ NextTick
  /\ Embedded!PollStarts(slave, 1)
  /\ announced' = {}
  /\ UNCHANGED <<configVars, socketVars, stackVars, keyboardVars>>

AnnouncedBy_AnyChange(slave) ==
  IF mode = "vn" /\ online[slave] # online'[slave] THEN {VirtualDevice(slave)} ELSE {}

\* SlaveCameBack announces the virtual device.
AnnouncedBy(slave) ==
  IF mode = "vn" /\ ~online[slave] /\ online'[slave] THEN {VirtualDevice(slave)} ELSE {}

FinishPoll(slave) ==
  /\ NextTick
  /\ \E outcome \in {"Done", "Timeout"}, reading \in Readings :
       IF mode = "eo" THEN Embedded!PollFinishes(slave, outcome, reading)
                      ELSE Virtual!PollFinishes(slave, outcome, reading)
  /\ announced' = AnnouncedBy(slave)
  /\ UNCHANGED <<configVars, socketVars, stackVars, keyboardVars>>

\* Somebody at the keyboard, or at the other end of a pipe.
Type(key) ==
  /\ pc = "run" /\ typed = <<>> /\ stdin.kind # "ended"
  /\ typed' = <<key>>
  /\ announced' = {}
  /\ UNCHANGED <<configVars, socketVars, stackVars, slaveVars, stdin, stdinConfigured,
                 rawActive, pc, exitCode>>

KeyQuit ==
  /\ pc = "run"
  /\ PollKey("Quit")
  /\ Goto("stop")
  /\ announced' = {}
  /\ UNCHANGED <<configVars, socketVars, stackVars, slaveVars>>

\* In --mode vn the router announces its network, no device.
KeyAnnounce ==
  /\ NextTick
  /\ PollKey("RouterAnnounce")
  /\ announced' = IF mode = "eo" THEN {deviceInstance} ELSE {}
  /\ UNCHANGED <<configVars, socketVars, stackVars, slaveVars>>

\* These print something or change the simulated slaves.
HandledKeys == {"Help", "ArrowUp", "ArrowDown", "SimulatedPeerToggle"}

\* These are other examples' keys, for which main() does nothing.
IgnoredKeys ==
  {"None", "DemoAdvance", "WriteGroupDemo", "DiscoverRemote", "Metrics", "ContactToggle",
   "ForceOpen", "BadgePulse"}

KeyOther ==
  /\ NextTick
  /\ \E key \in HandledKeys \cup IgnoredKeys : PollKey(key)
  /\ announced' = {}
  /\ UNCHANGED <<configVars, socketVars, stackVars, slaveVars>>

\* SimulationControl::Stop, RestoreInput, ShutdownUDP.
Stop ==
  /\ pc = "stop"
  /\ controlSocket' = FALSE
  /\ RestoreInput
  /\ udpSocket' = FALSE
  /\ Exit(0)
  /\ announced' = {}
  /\ UNCHANGED <<configVars, stackVars, slaveVars, stdinConfigured, typed>>

----------------------------------------------------------------------------

Next ==
  \/ ReadArguments \/ SetupUDP \/ StartControl \/ SetUp \/ Announce
  \/ ClientWrites
  \/ TimePasses
  \/ \E slave \in Slaves : StartPoll(slave) \/ FinishPoll(slave)
  \/ \E key \in TypedKeys : Type(key)
  \/ KeyQuit \/ KeyAnnounce \/ KeyOther
  \/ Stop

Spec == Init /\ [][Next]_vars

----------------------------------------------------------------------------
(* Properties. *)

\* No set-up call names a device, an object or a network the stack does not have
\* yet, or adds a device or an object that it has: the calls never fail by their own
\* order, in --mode vn the virtual network comes before the devices on it, and the
\* gateway never takes a virtual device's instance (main.cpp:1058, 1098-1150).
EveryCallIsPossible ==
  pc = "setup" /\ calls # <<>> => IsPossible(database, Head(calls))

\* From here on the stack's objects stay as they are.
SetUpIsOver == pc = "setup" /\ calls = <<>>

Accepts(op, address, what) ==
  Call(op, address.device, address.type, address.instance, what) \in database

\* The two places that know the objects agree: a callback finds a point exactly
\* behind the mapped objects that the set-up added, a commandable one exactly
\* where it made Present_Value writable, and accepts DeviceCommunicationControl with
\* the right password exactly where the service was enabled (main.cpp:275, 933, 965, 839).
MappingMatchesSetUp ==
  SetUpIsOver =>
    \A address \in Addresses :
      /\ (FindMappedPoint(address) # {}) =
           (address.type \in DOMAIN PointKind /\ Accepts("AddObject", address, "object"))
      /\ (FindCommandable(address) # {}) =
           Accepts("SetPropertyWritable", address, "PRESENT_VALUE")
      /\ address.type = "DEVICE" =>
           DeviceCommunicationControl(address.device, DCC_PASSWORD) =
             Accepts("SetServiceEnabled", address, "DEVICE_COMMUNICATION_CONTROL")

\* Every object has a name, no two objects of a device have the same, and no two
\* devices have: what BACnet clients tell them apart by (main.cpp:342, 360, 690).
NamesDistinguish ==
  SetUpIsOver =>
    LET objects == {address \in Addresses :
                      Has(database, address.device, address.type, address.instance)}
        name == [address \in objects |-> GetPropertyCharString(address, "OBJECT_NAME")]
    IN /\ \A address \in objects : name[address] # Declined
       /\ \A one, other \in objects :
            /\ one # other
            /\ one.device = other.device \/ {one.type, other.type} = {"DEVICE"}
            => name[one] # name[other]

\* What the stack builds a commandable object's Present_Value from: the first
\* slot that GetPropertyBool does not call NULL, else the Relinquish_Default.
ServedValue(address, property, index) ==
  IF address.type = "ANALOG_OUTPUT" THEN GetPropertyReal(address, property, index)
                                    ELSE GetPropertyEnumerated(address, property, index)

ServedPresentValue(address) ==
  LET set == {slot \in Slots : GetPropertyBool(address, "PRIORITY_ARRAY", slot) = FALSE}
  IN IF set = {} THEN ServedValue(address, "RELINQUISH_DEFAULT", 0)
                 ELSE ServedValue(address, "PRIORITY_ARRAY", Least(set))

\* The Present_Value that the callbacks make the stack show for an output is the
\* value the gateway writes to its slave (main.cpp:197, 263, 484, 519, 600).
ServedMeansWritten ==
  pc = "run" =>
    \A address \in Addresses : \A point \in FindCommandable(address) :
      ServedPresentValue(address) = Embedded!Winning(point[1], point[2])

\* What a device object and a network port are asked for.
DeviceIsAnswered(address) ==
  /\ \A property \in {"OBJECT_NAME", "DESCRIPTION", "MODEL_NAME"} :
       GetPropertyCharString(address, property) # Declined
  /\ GetPropertyUnsignedInteger(address, "VENDOR_IDENTIFIER", port) = VENDOR_IDENTIFIER

PortIsAnswered(address) ==
  /\ GetPropertyBool(address, "OUT_OF_SERVICE", 0) = FALSE
  /\ address.instance = NETWORK_PORT_INSTANCE =>
       /\ GetPropertyUnsignedInteger(address, "BACNET_IP_UDP_PORT", port) = port
       /\ GetPropertyUnsignedInteger(address, "APDU_LENGTH", port) # Declined
       /\ GetPropertyEnumerated(address, "BACNET_IP_MODE", 0) # Declined
       /\ GetPropertyOctetString(address, "IP_ADDRESS", 4) # Declined

MappedIsAnswered(address) ==
  /\ GetPropertyEnumerated(address, "RELIABILITY", 0) # Declined
  /\ GetPropertyBool(address, "OUT_OF_SERVICE", 0) # Declined
  /\ GetPropertyCharString(address, "DESCRIPTION") # Declined
  /\ IF address.type = "ANALOG_INPUT"
       THEN GetPropertyReal(address, "PRESENT_VALUE", 0) # Declined
       ELSE ServedPresentValue(address) # Declined

\* Every object the set-up added is answered for, a mapped one also while its slave
\* does not answer: "shall return values when read and not errors"
\* (main.cpp:494-495, 1098-1150).
EnabledAreAnswered ==
  /\ SetUpIsOver =>
       \A address \in Addresses :
         Has(database, address.device, address.type, address.instance) =>
           CASE address.type = "DEVICE" -> DeviceIsAnswered(address)
             [] address.type = "NETWORK_PORT" -> PortIsAnswered(address)
             [] OTHER -> MappedIsAnswered(address)
  /\ pc = "run" =>
       \A address \in {mapped \in Addresses : FindMappedPoint(mapped) # {}} :
         MappedIsAnswered(address)

\* One write is seen in one object, although in --mode vn every virtual device
\* has an Analog Output 1 and in --mode eo one device has them all
\* (main.cpp:272-299, 478-480).
WritesStayInTheirObject ==
  [][LET commandable == {address \in Addresses : FindCommandable(address) # {}}
         slots(address) == [slot \in Slots |-> ServedValue(address, "PRIORITY_ARRAY", slot)]
         changed == {address \in commandable : slots(address)' # slots(address)}
     IN \A one, other \in changed : one = other]_priorityArray

\* An I-Am is only sent for a device that can be found and asked: its services
\* are on, and a virtual device's slave is believed to answer (main.cpp:390-397,
\* 910-925, 1152-1159).
AnnouncedAreReachable ==
  \A device \in announced :
    /\ \A service \in {"I_AM", "WHO_IS", "READ_PROPERTY"} :
         Call("SetServiceEnabled", device, "DEVICE", device, service) \in database
    /\ \A slave \in FindVirtualDevice(device) :
         online[slave] /\ \A service \in DOMAIN discoverable[slave] : discoverable[slave][service]

\* Once a key was asked for, asking for one never blocks the loop, whatever
\* standard input is.  A normal end closes both sockets.  However main() ends, no
\* terminal is left in raw mode; what it does leave behind, once a key was asked for
\* and only then, is O_NONBLOCK on the file it shares with whoever started it: nothing
\* takes that back (CASExampleHelper.cpp:449-474, 2130-2137, main.cpp:1216-1218).
EndsClean ==
  /\ stdinConfigured => ~Blocks(stdin)
  /\ pc = "exited" => ~stdin.raw /\ stdin.nonBlocking = stdinConfigured
  /\ exitCode = 0 => ~udpSocket /\ ~controlSocket
=============================================================================
