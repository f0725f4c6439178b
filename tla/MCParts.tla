------------------------------ MODULE MCParts ------------------------------
(***************************************************************************)
(* The parts of the program that share no state with the main loop's, each   *)
(* over its bounded inputs.  A behaviour is about one of them, its subject,   *)
(* and the others stand still: their states are added, not multiplied.      *)
(***************************************************************************)
EXTENDS MCValues, UdpTransport, RestartScheduler, TestControl, FrameDecoder

CONSTANT Subjects  \* which parts are looked at

VARIABLE subject

ASSUME SubjectsAssumption ==
  Subjects \subseteq {"priorities", "registers", "udp", "restart", "control", "frames", "names"}

valuesVars == <<array, probe>>

AnyFrame == frameLength = 0 /\ whole = 0 /\ memory = <<0>>
NoLookUp == table = <<>> /\ id = 0 /\ lo = 0 /\ hi = 0 /\ answer = {}

PartsInit ==
  /\ subject \in Subjects
  /\ array = EmptyPriorityArray
  /\ IF subject = "registers" THEN probe \in [output : Outputs, value : Probes]
                              ELSE probe = [output |-> "setpoint", value |-> RelinquishDefault]
  /\ UdpInit /\ RestartInit /\ ControlInit
  /\ IF subject = "frames" THEN FrameInit ELSE AnyFrame
  /\ IF subject = "names" THEN LookUpInit ELSE NoLookUp

PartsNext ==
  /\ \/ subject = "priorities" /\ Next
        /\ UNCHANGED <<udpVars, restartVars, controlVars, frameVars, lookUpVars>>
     \/ subject = "udp" /\ UdpNext
        /\ UNCHANGED <<valuesVars, restartVars, controlVars, frameVars, lookUpVars>>
     \/ subject = "restart" /\ RestartNext
        /\ UNCHANGED <<valuesVars, udpVars, controlVars, frameVars, lookUpVars>>
     \/ subject = "control" /\ ControlNext
        /\ UNCHANGED <<valuesVars, udpVars, restartVars, frameVars, lookUpVars>>
     \/ subject = "frames" /\ FrameNext
        /\ UNCHANGED <<valuesVars, udpVars, restartVars, controlVars, lookUpVars>>
     \/ subject = "names" /\ LookUpNext
        /\ UNCHANGED <<valuesVars, udpVars, restartVars, controlVars, frameVars>>
  /\ UNCHANGED subject

partsVars == <<subject, valuesVars, udpVars, restartVars, controlVars, frameVars, lookUpVars>>

PartsSpec == PartsInit /\ [][PartsNext]_partsVars

----------------------------------------------------------------------------
(* The inputs. *)

\* Three Network Ports, two of them on one UDP port, which SO_REUSEADDR allows.
Ports == <<47808, 47809, 47808>>

Loopback == [inet |-> TRUE, loopback |-> TRUE, up |-> TRUE]
Ethernet == [inet |-> TRUE, loopback |-> FALSE, up |-> TRUE]
Hosts == {<<Loopback>>, <<Loopback, Ethernet>>}

Line(fields, verb, unit, kind, address, value) ==
  [fields |-> fields, verb |-> verb, unit |-> unit, table |-> kind,
   address |-> address, value |-> value]

\* The commands of TUTORIAL.md, and every way to get one wrong.
Lines ==
  {Line(2, verb, unit, "", 0, 0) : verb \in {"offline", "online", "what"}, unit \in {0, 1, 2, 257}}
    \cup {Line(5, "set", 1, kind, 0, value) : kind \in Tables, value \in {0, 1, 215}}
    \cup {Line(4, "get", unit, kind, 0, 0) : unit \in {1, 2}, kind \in Tables}
    \cup {Line(0, "", 0, "", 0, 0), Line(1, "offline", 0, "", 0, 0),
          Line(5, "set", 257, "input", 0, 1), Line(5, "set", 1, "input", 65536, 1),
          Line(5, "set", 1, "input", 0, 65737), Line(5, "set", 1, "output", 0, 1),
          Line(4, "set", 1, "input", 0, 0), Line(5, "get", 1, "input", 1, 0)}

Latencies == [slave \in Slaves |-> slave]
Registers == [slave \in Slaves |-> [kind \in Tables |-> IF kind = "coil" THEN 1 ELSE 200 + slave]]

IdsWanted == 0 .. 520 \cup 4194300 .. 4194355

NamedTables == {OBJECT_TYPE_NAMES, PROPERTY_NAMES, <<>>, <<7>>}

Npdu(control, rest) == <<129, 10, 0, 6 + Len(rest), 1, control>> \o rest
ToNetwork == <<0, 200, 2, 11, 12>>
FromNetwork == <<0, 201, 1, 9>>
FarAway == <<0, 202, 40>> \o [i \in 1 .. 40 |-> i]
AnalogInput1 == <<12, 0, 0, 0, 1>>

\* I-Am-Router-To-Network, Reject-Message-To-Network with a route.
NetworkMessages == {Npdu(128, <<1, 0, 200>>), Npdu(160, ToNetwork \o <<255, 3, 1, 0, 200>>)}

Frames ==
  {Npdu(4, <<0, 5, 7, 12>> \o AnalogInput1 \o <<25, 85>>),                   \* ReadProperty
   Npdu(4, <<0, 5, 7, 15>> \o AnalogInput1 \o <<26, 2, 0, 41, 3, 62, 17>>),  \* WriteProperty[3]
   Npdu(0, <<48, 7, 12>> \o AnalogInput1 \o <<25, 85, 62, 68>>),             \* its acknowledgement
   Npdu(36, ToNetwork \o <<255, 8, 5, 7, 0, 4, 12>> \o AnalogInput1 \o <<25, 85>>),  \* a segment, routed
   Npdu(40, ToNetwork \o FromNetwork \o <<255, 16, 8>>),                     \* Who-Is, both ways
   Npdu(32, FarAway \o <<255, 16, 8>>),                                      \* an address too long
   Npdu(32, <<255, 255, 0, 255, 16, 0>>),                                    \* I-Am to everyone
   Npdu(0, <<32, 7, 15>>), Npdu(0, <<80, 7, 12, 145, 2>>),                   \* SimpleACK, Error
   Npdu(0, <<96, 7, 9>>), Npdu(0, <<112, 7, 11>>), Npdu(0, <<64, 7, 0, 1>>), \* Reject, Abort, SegmentACK
   <<129, 4, 0, 14, 10, 0, 0, 5, 186, 192, 1, 0, 16, 7>>,                    \* forwarded Who-Has
   <<129, 5, 0, 6, 0, 60>>}                                                  \* a BVLC message
    \cup NetworkMessages

\* No tag, an opening tag, an extended length, an extended tag number.
DamagedOctets == {0, 14, 29, 128, 253, 255}
=============================================================================
