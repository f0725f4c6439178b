---------------------------- MODULE UdpTransport ----------------------------
(***************************************************************************)
(* The UDP sockets of common/: the table of bindings (CASExampleHelper.cpp), *)
(* each with its SimpleUDP.  The application sets instances up and shuts them *)
(* all down, the stack calls the receive and the send callback, and datagrams *)
(* come in at any time: also while the receive callback waits on a socket.    *)
(*                                                                         *)
(* A datagram is counted, not shown.  An address is <<"own", interface>>,     *)
(* <<"subnet", interface>> (ip | ~mask), <<"limited", 0>> or another host's.  *)
(***************************************************************************)
EXTENDS Integers, Sequences, FiniteSets

CONSTANTS
  PORT_OF,           \* the UDP port that the application gives each Network Port instance
  MAX_UDP_BINDINGS,
  Interfaces,        \* what getifaddrs may return: sequences of [inet, loopback, up]
  MAX_WAITING        \* bound on the datagrams waiting in a socket

ASSUME TransportAssumption == PORT_OF \in Seq(Nat) /\ MAX_UDP_BINDINGS \in Nat

VARIABLES
  bindings,             \* g_udpBindings: [instance, port, socket, bound]
  sockets,              \* external: the open descriptors, each [port, waiting]
  nextBindingToCheck,   \* s_nextBindingToCheck, from 0
  checking,             \* the receive callback's k, or NotReceiving
  received,             \* history: what the last step gave to the stack, [instance, port]
  sent,                 \* history: what it sent, [instance, from, toSelf, port, broadcast]
  overtaken             \* history: how often an instance with a datagram waiting was
                        \* passed over for another

udpVars == <<bindings, sockets, nextBindingToCheck, checking, received, sent, overtaken>>

Instances == DOMAIN PORT_OF
NONE == -1
NotReceiving == -1

Descriptors == 1 .. MAX_UDP_BINDINGS + 1

NothingMoved == received' = {} /\ sent' = {}

NobodyOvertaken == [waiting \in Instances |-> [other \in Instances |-> 0]]

UdpInit ==
  /\ bindings = <<>>
  /\ sockets = <<>>
  /\ nextBindingToCheck = 0
  /\ checking = NotReceiving
  /\ received = {} /\ sent = {}
  /\ overtaken = NobodyOvertaken

----------------------------------------------------------------------------
(* The table. *)

\* The position of an instance's binding, as a set of none or one.
FindUdpBindingByInstance(instance) ==
  {i \in DOMAIN bindings : bindings[i].instance = instance}

FreeDescriptor == CHOOSE descriptor \in Descriptors \ DOMAIN sockets : TRUE

WithSocket(port) ==
  [descriptor \in DOMAIN sockets \cup {FreeDescriptor} |->
     IF descriptor = FreeDescriptor THEN [port |-> port, waiting |-> 0] ELSE sockets[descriptor]]

\* A failed bind() that leaves its socket open.
Connected_KeepsTheSocket(port, outcome) ==
  IF outcome = "no socket" THEN sockets ELSE WithSocket(port)

\* SimpleUDP::Connect: what is open after it.
Connected(port, outcome) == IF outcome = "bound" THEN WithSocket(port) ELSE sockets

\* The binding of an instance, new if it has none.
BindingsWith(instance) ==
  IF FindUdpBindingByInstance(instance) # {} THEN bindings
  ELSE Append(bindings, [instance |-> instance, port |-> 0, socket |-> NONE, bound |-> FALSE])

\* One call for an instance that is not bound: a first one, or another try.
SetupUDP(instance) ==
  LET port == PORT_OF[instance] IN
  /\ checking = NotReceiving
  /\ \A i \in FindUdpBindingByInstance(instance) : ~bindings[i].bound
  /\ Len(BindingsWith(instance)) <= MAX_UDP_BINDINGS
  /\ \E outcome \in {"no socket", "not bound", "bound"} :
       /\ outcome # "no socket" => Descriptors # DOMAIN sockets
       /\ sockets' = Connected(port, outcome)
       /\ bindings' = [i \in DOMAIN BindingsWith(instance) |->
                         IF BindingsWith(instance)[i].instance = instance /\ outcome = "bound"
                           THEN [instance |-> instance, port |-> port,
                                 socket |-> FreeDescriptor, bound |-> TRUE]
                           ELSE BindingsWith(instance)[i]]
  /\ NothingMoved
  /\ UNCHANGED <<nextBindingToCheck, checking, overtaken>>

BoundSockets == {bindings[i].socket : i \in {j \in DOMAIN bindings : bindings[j].bound}}

\* SimpleUDP::Disconnect for every bound entry; the entries stay.
ShutdownUDP ==
  /\ checking = NotReceiving
  /\ sockets' = [descriptor \in DOMAIN sockets \ BoundSockets |-> sockets[descriptor]]
  /\ bindings' = [i \in DOMAIN bindings |->
                    IF bindings[i].bound THEN [bindings[i] EXCEPT !.socket = NONE, !.bound = FALSE]
                                         ELSE bindings[i]]
  /\ NothingMoved
  /\ overtaken' = NobodyOvertaken
  /\ UNCHANGED <<nextBindingToCheck, checking>>

----------------------------------------------------------------------------
(* HelperReceiveMessage: one step per socket it waits on. *)

\* external: a datagram comes in.
Arrives(descriptor) ==
  /\ sockets[descriptor].waiting < MAX_WAITING
  /\ sockets' = [sockets EXCEPT ![descriptor].waiting = @ + 1]
  /\ NothingMoved
  /\ UNCHANGED <<bindings, nextBindingToCheck, checking, overtaken>>

StartReceive ==
  /\ checking = NotReceiving
  /\ bindings # <<>>
  /\ checking' = 0
  /\ NothingMoved
  /\ UNCHANGED <<bindings, sockets, nextBindingToCheck, overtaken>>

\* The binding that the loop looks at, counted from 0 as in the code.
Candidate == (nextBindingToCheck + checking) % Len(bindings)
Current == bindings[Candidate + 1]

Waiting(binding) == IF binding.bound THEN sockets[binding.socket].waiting ELSE 0

\* The search starts at the serviced one again.
AfterServiced_Same(i) == i

AfterServiced(i) == (i + 1) % Len(bindings)

OvertakenBy(instance) ==
  LET waits == {binding.instance : binding \in {b \in {bindings[i] : i \in DOMAIN bindings} :
                                                  Waiting(b) > 0}}
  IN [waiting \in Instances |-> [other \in Instances |->
        IF waiting = instance THEN 0
        ELSE IF waiting \in waits /\ other = instance THEN overtaken[waiting][other] + 1
        ELSE overtaken[waiting][other]]]

\* A datagram: the call returns it.
ReceiveDelivers ==
  /\ checking # NotReceiving
  /\ checking < Len(bindings)
  /\ Waiting(Current) > 0
  /\ sockets' = [sockets EXCEPT ![Current.socket].waiting = @ - 1]
  /\ received' = {[instance |-> Current.instance, port |-> sockets[Current.socket].port]}
  /\ nextBindingToCheck' = AfterServiced(Candidate)
  /\ overtaken' = OvertakenBy(Current.instance)
  /\ checking' = NotReceiving
  /\ sent' = {}
  /\ UNCHANGED <<bindings>>

\* Not bound, or nothing came in in time: on to the next.
ReceiveMovesOn ==
  /\ checking # NotReceiving
  /\ checking < Len(bindings)
  /\ Waiting(Current) = 0
  /\ checking' = checking + 1
  /\ NothingMoved
  /\ UNCHANGED <<bindings, sockets, nextBindingToCheck, overtaken>>

\* Nothing anywhere; the start moves on all the same.
ReceiveEmpty ==
  /\ checking = Len(bindings)
  /\ bindings # <<>>
  /\ nextBindingToCheck' = (nextBindingToCheck + 1) % Len(bindings)
  /\ checking' = NotReceiving
  /\ NothingMoved
  /\ UNCHANGED <<bindings, sockets, overtaken>>

----------------------------------------------------------------------------
(* HelperSendMessage. *)

\* The first interface that is up, has an IPv4 address and is no loopback.
GetPrimaryIPv4(interfaces) ==
  LET usable == {i \in DOMAIN interfaces :
                   interfaces[i].inet /\ interfaces[i].up /\ ~interfaces[i].loopback}
  IN {i \in usable : \A other \in usable : i <= other}

GetLocalBroadcastIPv4(interfaces) ==
  IF GetPrimaryIPv4(interfaces) = {} THEN <<"limited", 0>>
  ELSE <<"subnet", CHOOSE i \in GetPrimaryIPv4(interfaces) : TRUE>>

IsOwn(interfaces, ip) == \E i \in GetPrimaryIPv4(interfaces) : ip = <<"own", i>>

\* A broadcast to the socket itself, taken literally.
Address_TakenLiterally(binding, interfaces, destination, broadcast) ==
  IF destination = {}
    THEN {[ip |-> GetLocalBroadcastIPv4(interfaces), port |-> binding.port, broadcast |-> TRUE]}
    ELSE {[ip |-> to.ip, port |-> to.port, broadcast |-> broadcast] : to \in destination}

\* Where a message goes: destination is the connection string, none or one address.
\* (A string of 1-5 octets is refused as an instance without a socket is.)
Address(binding, interfaces, destination, broadcast) ==
  IF destination = {}
    THEN {[ip |-> GetLocalBroadcastIPv4(interfaces), port |-> binding.port, broadcast |-> TRUE]}
    ELSE {[ip |-> IF broadcast /\ to.port = binding.port /\ IsOwn(interfaces, to.ip)
                    THEN GetLocalBroadcastIPv4(interfaces) ELSE to.ip,
           port |-> to.port, broadcast |-> broadcast] : to \in destination}

\* By the socket of the instance that the stack names, or not at all.
HelperSendMessage(interfaces, instance, destination, broadcast) ==
  /\ checking = NotReceiving
  /\ \E i \in FindUdpBindingByInstance(instance) :
       /\ bindings[i].bound
       /\ \E address \in Address(bindings[i], interfaces, destination, broadcast) :
            sent' = {[instance |-> instance, from |-> sockets[bindings[i].socket].port,
                      toSelf |-> IsOwn(interfaces, address.ip),
                      port |-> address.port, broadcast |-> address.broadcast]}
  /\ received' = {}
  /\ UNCHANGED <<bindings, sockets, nextBindingToCheck, checking, overtaken>>

\* The destination SendIAm gives the stack, which hands it to HelperSendMessage: that
\* refuses the port SendIAm falls back to, the instance has no socket then.
SendIAm(interfaces, instance) ==
  HelperSendMessage(interfaces, instance,
                    {[ip |-> GetLocalBroadcastIPv4(interfaces), port |-> bindings[i].port] :
                       i \in FindUdpBindingByInstance(instance)}, TRUE)

----------------------------------------------------------------------------

\* Where the stack may send to: nowhere in particular, another host, this one.
Destinations ==
  {{}, {[ip |-> <<"other", 0>>, port |-> PORT_OF[1]]}}
    \cup {{[ip |-> <<"own", 2>>, port |-> PORT_OF[instance]]} : instance \in Instances}

UdpNext ==
  \/ \E instance \in Instances : SetupUDP(instance)
  \/ ShutdownUDP
  \/ \E descriptor \in DOMAIN sockets : Arrives(descriptor)
  \/ StartReceive \/ ReceiveDelivers \/ ReceiveMovesOn \/ ReceiveEmpty
  \/ \E interfaces \in Interfaces, instance \in Instances :
       \/ \E destination \in Destinations, broadcast \in BOOLEAN :
            HelperSendMessage(interfaces, instance, destination, broadcast)
       \/ SendIAm(interfaces, instance)

UdpSpec == UdpInit /\ [][UdpNext]_udpVars

----------------------------------------------------------------------------
(* Properties. *)

\* "One busy port cannot starve another" (CASExampleHelper.h:117): while an
\* instance has a datagram waiting, every other one gets at most one through,
\* wherever the loop was when it came in (CASExampleHelper.cpp:138-156).
NoBindingStarves == \A waiting, other \in Instances : overtaken[waiting][other] <= 1

\* The open sockets are those of the bound instances, each on its instance's port,
\* whatever SetupUDP failed at before; the stack is told the instance that a
\* datagram came in by, its messages leave by the one it names, and none that it
\* means for others goes to the very socket it leaves by (CASExampleHelper.cpp:209,
\* 222, 1989, SimpleUDP.cpp:116).
PortsBelongToInstances ==
  LET bound == {bindings[i] : i \in {j \in DOMAIN bindings : bindings[j].bound}}
      isPortOf(port, instance) ==
        \E binding \in bound : binding.instance = instance /\ binding.port = port
  IN /\ DOMAIN sockets = {binding.socket : binding \in bound}
     /\ Cardinality(bound) = Cardinality(DOMAIN sockets)
     /\ \A binding \in bound : sockets[binding.socket].port = binding.port
     /\ \A datagram \in received : isPortOf(datagram.port, datagram.instance)
     /\ \A message \in sent :
          /\ isPortOf(message.from, message.instance)
          /\ ~(message.broadcast /\ message.toSelf /\ message.port = message.from)
=============================================================================
