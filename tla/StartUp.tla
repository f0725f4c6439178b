------------------------------ MODULE StartUp ------------------------------
(***************************************************************************)
(* How the gateway starts (main.cpp, sections 8 and 9): the command line,   *)
(* and the calls that build the devices and objects in the BACnet stack, in *)
(* their order.                                                            *)
(*                                                                         *)
(* A call is a record [op, device, type, instance, what, network].  The     *)
(* stack is external: its database is the set of the calls it accepted.    *)
(***************************************************************************)
EXTENDS BACnetObjects

CONSTANTS
  DEFAULT_PORT,             \* 47808
  DEFAULT_DEVICE_INSTANCE,  \* 389019
  NumberOf                  \* what strtol makes of the tokens that are whole numbers

\* What a command line is made of.
Tokens == STRING

Ports == 1 .. 65535
MAX_DEVICE_INSTANCE == 4194302
DeviceInstances == 0 .. MAX_DEVICE_INSTANCE

ASSUME DefaultAddressAssumption ==
  DEFAULT_PORT \in Ports /\ DEFAULT_DEVICE_INSTANCE \in Nat

----------------------------------------------------------------------------
(* The command line: a sequence of tokens. *)

Options(argv, option) == {i \in DOMAIN argv : argv[i] = option}

Least(positions) == CHOOSE i \in positions : \A j \in positions : i <= j
Greatest(positions) == CHOOSE i \in positions : \A j \in positions : j <= i

TokenAfter(argv, i) == IF i < Len(argv) THEN argv[i + 1] ELSE ""

\* --help and --version exit at once.
HandleHelpAndVersionArgs(argv) ==
  \E i \in DOMAIN argv : argv[i] \in {"--help", "-h", "/?", "--version"}

\* Any --mode that is neither is an error, the last one counts.
ModeArgIsValid(argv) == \A i \in Options(argv, "--mode") : TokenAfter(argv, i) \in MODES

ParseModeArg(argv) ==
  LET positions == Options(argv, "--mode")
  IN IF positions = {} THEN "eo" ELSE TokenAfter(argv, Greatest(positions))

\* The value of the first `option` with an acceptable number after it.
ParseNumberArg(argv, option, acceptable, default) ==
  LET valid == {i \in Options(argv, option) :
                  /\ TokenAfter(argv, i) \in DOMAIN NumberOf
                  /\ NumberOf[TokenAfter(argv, i)] \in acceptable}
  IN IF valid = {} THEN default ELSE NumberOf[TokenAfter(argv, Least(valid))]

ParsePortArg(argv) == ParseNumberArg(argv, "--port", Ports, DEFAULT_PORT)

ParseDeviceIdArg(argv) ==
  ParseNumberArg(argv, "--deviceID", DeviceInstances, DEFAULT_DEVICE_INSTANCE)

\* The gateway may not have a virtual device's instance.
InstanceIsTaken(chosenMode, instance) ==
  chosenMode = "vn" /\ \E slave \in Slaves : VirtualDevice(slave) = instance

----------------------------------------------------------------------------
(* The calls. *)

NO_NETWORK == 0
VIRTUAL_NETWORK_NUMBER == 100

\* Most calls name no network.
Call(op, device, type, instance, what) ==
  [op |-> op, device |-> device, type |-> type, instance |-> instance, what |-> what,
   network |-> NO_NETWORK]

OnVirtualNetwork(call) == [call EXCEPT !.network = VIRTUAL_NETWORK_NUMBER]

AddDevice(device) == Call("AddDevice", device, "DEVICE", device, "object")

AddDeviceToVirtualNetwork(device) ==
  OnVirtualNetwork(Call("AddDeviceToVirtualNetwork", device, "DEVICE", device, "object"))

EnableProperties(device, type, instance, properties) ==
  [i \in DOMAIN properties |->
     Call("SetPropertyEnabled", device, type, instance, properties[i])]

AddMappedObject(device, type, instance) ==
  <<Call("AddObject", device, type, instance, "object")>>
    \o EnableProperties(device, type, instance, <<"RELIABILITY", "DESCRIPTION">>)
    \o (IF type = "ANALOG_INPUT" THEN <<>>
        ELSE EnableProperties(device, type, instance,
                              <<"PRIORITY_ARRAY", "RELINQUISH_DEFAULT">>)
               \o <<Call("SetPropertyWritable", device, type, instance, "PRESENT_VALUE")>>)

AddMappedObjects(device, instance) ==
  AddMappedObject(device, "ANALOG_INPUT", instance)
    \o AddMappedObject(device, "ANALOG_OUTPUT", instance)
    \o AddMappedObject(device, "BINARY_OUTPUT", instance)

DeviceServices ==
  <<"READ_PROPERTY", "WRITE_PROPERTY", "WHO_IS", "I_AM", "WHO_HAS", "I_HAVE">>

EnableDeviceServices(device, answersDeviceCommunicationControl) ==
  LET services == DeviceServices \o (IF answersDeviceCommunicationControl
                                       THEN <<"DEVICE_COMMUNICATION_CONTROL">> ELSE <<>>)
  IN [i \in DOMAIN services |->
        Call("SetServiceEnabled", device, "DEVICE", device, services[i])]

GatewayCalls ==
  <<AddDevice(deviceInstance)>>
    \o EnableDeviceServices(deviceInstance, TRUE)
    \o <<Call("AddObject", deviceInstance, "NETWORK_PORT", NETWORK_PORT_INSTANCE, "object")>>
    \o EnableProperties(deviceInstance, "DEVICE", deviceInstance, <<"DESCRIPTION">>)

AddVirtualNetwork ==
  <<OnVirtualNetwork(Call("AddVirtualNetwork", deviceInstance, "NETWORK_PORT",
                          VIRTUAL_NETWORK_PORT_INSTANCE, "object"))>>

VirtualDeviceCalls(device) ==
  <<AddDeviceToVirtualNetwork(device)>>
    \o EnableDeviceServices(device, FALSE)
    \o EnableProperties(device, "DEVICE", device, <<"DESCRIPTION">>)
    \o AddMappedObjects(device, 1)

\* The slaves' calls, one slave after the other.
ForEachSlave(calls) ==
  LET upTo[slave \in 0 .. SLAVE_COUNT] ==
        IF slave = 0 THEN <<>> ELSE upTo[slave - 1] \o calls[slave]
  IN upTo[SLAVE_COUNT]

EmbeddedCalls == [slave \in Slaves |-> AddMappedObjects(deviceInstance, slave)]
VirtualCalls == [slave \in Slaves |-> VirtualDeviceCalls(VirtualDevice(slave))]

\* The virtual devices come before their network.
SetUpCalls_DevicesFirst ==
  GatewayCalls \o (IF mode = "eo" THEN ForEachSlave(EmbeddedCalls)
                                  ELSE ForEachSlave(VirtualCalls) \o AddVirtualNetwork)

\* All the calls of main() in the mode of this run.
SetUpCalls ==
  GatewayCalls \o (IF mode = "eo" THEN ForEachSlave(EmbeddedCalls)
                                  ELSE AddVirtualNetwork \o ForEachSlave(VirtualCalls))

----------------------------------------------------------------------------
(* External: the stack.  It refuses a call about a device, an object or a   *)
(* network that it does not have, and one that adds an object it has.      *)

Has(database, device, type, instance) ==
  \E call \in database :
    /\ call.what = "object"
    /\ <<call.device, call.type, call.instance>> = <<device, type, instance>>

HasNetwork(database, network) ==
  \E call \in database : call.op = "AddVirtualNetwork" /\ call.network = network

IsPossible(database, call) ==
  /\ call.what = "object" => ~Has(database, call.device, call.type, call.instance)
  /\ call.op = "AddDeviceToVirtualNetwork" => HasNetwork(database, call.network)
  /\ call.op \notin {"AddDevice", "AddDeviceToVirtualNetwork"} =>
       Has(database, call.device, "DEVICE", call.device)
  /\ call.op \in {"SetPropertyEnabled", "SetPropertyWritable"} =>
       Has(database, call.device, call.type, call.instance)
=============================================================================
