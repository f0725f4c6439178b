--------------------------- MODULE BACnetObjects ---------------------------
(***************************************************************************)
(* The gateway's data as BACnet objects: which object names which slave's   *)
(* point in either mode, and the callbacks through which the stack reads    *)
(* and writes them (main.cpp, sections 2 and 4 to 6).                      *)
(*                                                                         *)
(* An address is a [device, type, instance]; a text is a tuple of what tells *)
(* it apart from others.  A callback that returns false is Declined.       *)
(***************************************************************************)
EXTENDS Commandable, RegisterMap, Sequences

CONSTANTS
  FIRST_VIRTUAL_DEVICE_INSTANCE,
  RELINQUISH_DEFAULT,  \* per slave and output
  DCC_PASSWORD,
  Declined

ASSUME VirtualDevicesAssumption == FIRST_VIRTUAL_DEVICE_INSTANCE \in Nat
ASSUME ObjectDefaultsAssumption == RELINQUISH_DEFAULT \in [Slaves -> [Outputs -> Int]]

VARIABLES
  mode,                 \* g_mode: "eo" or "vn"
  deviceInstance,       \* g_deviceInstance: the gateway's own
  priorityArray, measuredTemperature, online  \* the cache, see Gateway

NETWORK_PORT_INSTANCE == 1
VIRTUAL_NETWORK_PORT_INSTANCE == 2
MODES == {"eo", "vn"}

VirtualDevice(slave) == FIRST_VIRTUAL_DEVICE_INSTANCE + slave - 1

\* The kind of point behind each mapped object type.
PointKind == [ANALOG_INPUT |-> "temperature", ANALOG_OUTPUT |-> "setpoint",
              BINARY_OUTPUT |-> "enable"]

----------------------------------------------------------------------------
(* Which object is which slave's. *)

Matches_AnyDevice(slave, address) ==
  address.instance = IF mode = "eo" THEN slave ELSE 1

Matches(slave, address) ==
  IF mode = "eo"
    THEN address.device = deviceInstance /\ address.instance = slave
    ELSE address.device = VirtualDevice(slave) /\ address.instance = 1

\* The slave whose point the address names, if any: the first that matches.
FindMappedPoint(address) ==
  LET matching == {slave \in Slaves : address.type \in DOMAIN PointKind /\ Matches(slave, address)}
  IN {slave \in matching : \A other \in matching : slave <= other}

FindVirtualDevice(device) ==
  {slave \in Slaves : mode = "vn" /\ VirtualDevice(slave) = device}

\* The commandable value an address names: <<slave, output>>.
FindCommandable(address) ==
  {point \in FindMappedPoint(address) \X Outputs : point[2] = PointKind[address.type]}

----------------------------------------------------------------------------
(* The "get" callbacks.  `index` is the array index, 0 if there is none. *)

ReadsSlot(property, index) == property = "PRIORITY_ARRAY" /\ index \in Slots

\* A relinquished slot is declined by the value callbacks.
SlotValue(slave, output, index) ==
  IF priorityArray[slave][output][index] = Null
    THEN Declined
    ELSE priorityArray[slave][output][index]

OutputValue_FirstSlavesDefault(slave, output, property, index) ==
  IF ReadsSlot(property, index) THEN SlotValue(slave, output, index)
  ELSE IF property = "RELINQUISH_DEFAULT" THEN RELINQUISH_DEFAULT[1][output]
  ELSE Declined

OutputValue(slave, output, property, index) ==
  IF ReadsSlot(property, index) THEN SlotValue(slave, output, index)
  ELSE IF property = "RELINQUISH_DEFAULT" THEN RELINQUISH_DEFAULT[slave][output]
  ELSE Declined

\* The one answer in `answers`, or none.
AnswerIn(answers) == IF answers = {} THEN Declined ELSE CHOOSE answer \in answers : TRUE

RealOf_OnlyOnline(slave, kind, property, index) ==
  IF kind = "temperature"
    THEN IF property = "PRESENT_VALUE" /\ online[slave] THEN measuredTemperature[slave]
                                                        ELSE Declined
  ELSE IF kind = "setpoint" THEN OutputValue(slave, kind, property, index)
  ELSE Declined

\* The last value read is served while the slave is offline too.
RealOf(slave, kind, property, index) ==
  IF kind = "temperature"
    THEN IF property = "PRESENT_VALUE" THEN measuredTemperature[slave] ELSE Declined
  ELSE IF kind = "setpoint" THEN OutputValue(slave, kind, property, index)
  ELSE Declined

GetPropertyReal(address, property, index) ==
  AnswerIn({RealOf(slave, PointKind[address.type], property, index) :
              slave \in FindMappedPoint(address)})

RELIABILITY_NO_FAULT_DETECTED == 0
RELIABILITY_COMMUNICATION_FAILURE == 12
ENGINEERING_UNITS_DEGREES_CELSIUS == 62
POLARITY_NORMAL == 0
BACNET_IP_MODE_NORMAL == 0

EnumeratedOf(slave, kind, property, index) ==
  CASE property = "RELIABILITY" ->
         IF online[slave] THEN RELIABILITY_NO_FAULT_DETECTED
                          ELSE RELIABILITY_COMMUNICATION_FAILURE
    [] property = "UNITS" /\ kind # "enable" -> ENGINEERING_UNITS_DEGREES_CELSIUS
    [] property = "POLARITY" /\ kind = "enable" -> POLARITY_NORMAL
    [] kind = "enable" /\ property \in {"PRIORITY_ARRAY", "RELINQUISH_DEFAULT"} ->
         OutputValue(slave, kind, property, index)
    [] OTHER -> Declined

IsNetworkPort(address) ==
  /\ address.device = deviceInstance
  /\ address.type = "NETWORK_PORT"
  /\ address.instance = NETWORK_PORT_INSTANCE

GetPropertyEnumerated(address, property, index) ==
  IF FindMappedPoint(address) # {}
    THEN AnswerIn({EnumeratedOf(slave, PointKind[address.type], property, index) :
                     slave \in FindMappedPoint(address)})
  ELSE IF IsNetworkPort(address) /\ property = "BACNET_IP_MODE" THEN BACNET_IP_MODE_NORMAL
  ELSE Declined

VENDOR_IDENTIFIER == 389
MAX_APDU_LENGTH == 1476
NETWORK_PORT_REFERENCE_PORT_NONE == 4194303

\* `port` is g_bacnetIpUdpPort.
GetPropertyUnsignedInteger(address, property, port) ==
  CASE /\ address.type = "DEVICE" /\ address.instance = address.device
       /\ property = "VENDOR_IDENTIFIER"
       /\ address.device = deviceInstance \/ FindVirtualDevice(address.device) # {}
         -> VENDOR_IDENTIFIER
    [] IsNetworkPort(address) /\ property = "APDU_LENGTH" -> MAX_APDU_LENGTH
    [] IsNetworkPort(address) /\ property = "REFERENCE_PORT" -> NETWORK_PORT_REFERENCE_PORT_NONE
    [] IsNetworkPort(address) /\ property = "BACNET_IP_UDP_PORT" -> port
    [] OTHER -> Declined

\* A slot of a Priority_Array is asked about here first: TRUE = it is NULL.
GetPropertyBool(address, property, index) ==
  IF FindCommandable(address) # {} /\ ReadsSlot(property, index)
    THEN AnswerIn({priorityArray[point[1]][point[2]][index] = Null :
                     point \in FindCommandable(address)})
  ELSE IF /\ property = "OUT_OF_SERVICE"
          /\ \/ FindMappedPoint(address) # {}
             \/ address.device = deviceInstance /\ address.type = "NETWORK_PORT"
    THEN FALSE
  ELSE Declined

\* The network settings by name, for a caller with room for the four octets.
GetPropertyOctetString(address, property, room) ==
  IF /\ IsNetworkPort(address)
     /\ room >= 4
     /\ property \in {"IP_ADDRESS", "IP_SUBNET_MASK", "IP_DEFAULT_GATEWAY"}
    THEN property
    ELSE Declined

----------------------------------------------------------------------------
(* Names and descriptions. *)

Colour == [temperature |-> "Bronze", setpoint |-> "Chartreuse", enable |-> "Fuchsia"]

MappedObjectName_ColourOnly(kind, instance) == <<Colour[kind]>>

MappedObjectName(kind, instance) ==
  IF instance = 1 THEN <<Colour[kind]>> ELSE <<Colour[kind], instance>>

MappedObjectDescription(slave, kind) == <<"SIMULATED_foreign_bus", slave, kind>>

DEVICE_NAME == "Chipkin_Example_B-GW"

\* The words that the texts are made of, with numbers.
Words ==
  {DEVICE_NAME, "Bronze", "Chartreuse", "Fuchsia", "Vermilion", "temperature", "setpoint",
   "enable", "eo", "vn", "B-GW", "virtual_device", "SIMULATED_foreign_bus",
   "Virtual_BACnet_device", "Chipkin_Automation_Systems", "stack_version", "2.0.0",
   "IP_ADDRESS", "IP_SUBNET_MASK", "IP_DEFAULT_GATEWAY"}
Texts == Seq(Words \cup Int)

\* No answer of a callback is the refusal to answer.
ASSUME DeclinedAssumption == Declined \notin Int \cup BOOLEAN \cup Words \cup Texts

VirtualDeviceName(slave) == <<DEVICE_NAME, slave>>
VirtualDeviceDescription(slave) == <<"Virtual_BACnet_device", slave, deviceInstance>>

MappedText(slave, kind, instance, property) ==
  CASE property = "OBJECT_NAME" -> MappedObjectName(kind, instance)
    [] property = "DESCRIPTION" -> MappedObjectDescription(slave, kind)
    [] OTHER -> Declined

\* Named for the ports the stack creates as well: it asks for their names too.
NetworkPortName(address) ==
  IF address.device = deviceInstance /\ address.instance = NETWORK_PORT_INSTANCE
    THEN <<"Vermilion">>
  ELSE IF /\ address.device = deviceInstance
          /\ mode = "vn" /\ address.instance = VIRTUAL_NETWORK_PORT_INSTANCE
    THEN <<"Vermilion", 2>>
  ELSE IF FindVirtualDevice(address.device) # {} THEN <<"Vermilion">>
  ELSE Declined

\* What the gateway and the virtual devices say alike, but for the model name.
DeviceTexts(model) ==
  [VENDOR_NAME |-> <<"Chipkin_Automation_Systems">>, MODEL_NAME |-> model,
   FIRMWARE_REVISION |-> <<"stack_version">>,
   APPLICATION_SOFTWARE_VERSION |-> <<"2.0.0">>]

VirtualDeviceText(slave, property) ==
  CASE property = "OBJECT_NAME" -> VirtualDeviceName(slave)
    [] property = "DESCRIPTION" -> VirtualDeviceDescription(slave)
    [] property \in DOMAIN DeviceTexts(<<>>) ->
         DeviceTexts(<<"B-GW", "virtual_device">>)[property]
    [] OTHER -> Declined

GatewayText(property) ==
  CASE property = "OBJECT_NAME" -> <<DEVICE_NAME>>
    [] property = "DESCRIPTION" -> <<"B-GW", mode>>
    [] property \in DOMAIN DeviceTexts(<<>>) -> DeviceTexts(<<"B-GW">>)[property]
    [] OTHER -> Declined

GetPropertyCharString(address, property) ==
  IF FindMappedPoint(address) # {}
    THEN AnswerIn({MappedText(slave, PointKind[address.type], address.instance, property) :
                     slave \in FindMappedPoint(address)})
  ELSE IF address.type = "NETWORK_PORT" /\ property = "OBJECT_NAME" THEN NetworkPortName(address)
  ELSE IF address.type = "DEVICE" /\ address.instance = address.device
    THEN IF FindVirtualDevice(address.device) # {}
           THEN AnswerIn({VirtualDeviceText(slave, property) :
                            slave \in FindVirtualDevice(address.device)})
         ELSE IF address.device = deviceInstance THEN GatewayText(property)
         ELSE Declined
  ELSE Declined

----------------------------------------------------------------------------
(* The "set" callbacks accept a Present_Value only. *)

\* The output a write of this type may command, if the address names one.
Commanded(address, property, type) ==
  {point \in FindCommandable(address) : address.type = type /\ property = "PRESENT_VALUE"}

SetPropertyReal(address, property, priority, value) ==
  \E point \in Commanded(address, property, "ANALOG_OUTPUT") :
    /\ Accepted("setpoint", value)
    /\ priorityArray' = [priorityArray EXCEPT ![point[1]][point[2]] =
                           CommandWrite(@, priority, value)]

SetPropertyEnumerated(address, property, priority, value) ==
  \E point \in Commanded(address, property, "BINARY_OUTPUT") :
    /\ Accepted("enable", value)
    /\ priorityArray' = [priorityArray EXCEPT ![point[1]][point[2]] =
                           CommandWrite(@, priority, value)]

SetPropertyNull(address, property, priority) ==
  \E point \in Commanded(address, property, address.type) :
    priorityArray' = [priorityArray EXCEPT ![point[1]][point[2]] = Relinquish(@, priority)]

\* Does the callback accept a DeviceCommunicationControl?  Only the gateway's own.
DeviceCommunicationControl(device, password) ==
  device = deviceInstance /\ DCC_PASSWORD \in {"", password}
=============================================================================
