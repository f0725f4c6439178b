---------------------------- MODULE FrameDecoder ----------------------------
(***************************************************************************)
(* The decoder behind the RX/TX log (CASExampleHelper.cpp): BVLC, NPDU and    *)
(* APDU headers of a datagram, and what the one-line summary and the XML dump *)
(* show of them.  A datagram may have been damaged and cut short on its way:  *)
(* `memory` is the receive buffer, `whole` octets of it were sent and the      *)
(* first `frameLength` arrived.                                            *)
(*                                                                         *)
(* An offset counts from 0 as in the code.  What the code flags with has...   *)
(* is Absent or {} here when the flag is off; multi-octet values stay octets. *)
(***************************************************************************)
EXTENDS Integers, Sequences, NameTables

CONSTANTS
  Datagrams,   \* what is sent
  Damages,     \* what an octet may be changed to
  SummaryRooms \* how much of an address the one-line summary may have room for

OctetValues == 0 .. 255

ASSUME OctetsAssumption == Datagrams \subseteq Seq(OctetValues) /\ Damages \subseteq OctetValues
ASSUME RoomsAssumption == SummaryRooms \subseteq Nat

VARIABLES memory, whole, frameLength

frameVars == <<memory, whole, frameLength>>

Absent == -1

Octet(frame, offset) == frame[offset + 1]
Octets(frame, offset, length) == [i \in 1 .. length |-> Octet(frame, offset + i - 1)]
Word16(frame, offset) == 256 * Octet(frame, offset) + Octet(frame, offset + 1)

\* Is the bit of this value, a power of two, set?
Bit(octet, value) == (octet \div value) % 2 = 1

----------------------------------------------------------------------------
(* Tags. *)

TOO_LONG == 65536  \* a length that no datagram has room for

\* The header of the tag at an offset, none on truncation.  A length of four octets
\* is not told from the other ones that are TOO_LONG.
DecodeTagHeader(frame, length, offset) ==
  LET first == Octet(frame, offset)
      lvt == first % 8
      extended == first \div 16 = 15
      after == offset + (IF extended THEN 2 ELSE 1)
      header(data, end) ==
        {[tagNumber |-> IF extended THEN Octet(frame, offset + 1) ELSE first \div 16,
          contextSpecific |-> Bit(first, 8), length |-> data, headerLength |-> end - offset]}
      extendedLength ==
        IF after >= length THEN {}
        ELSE IF Octet(frame, after) < 254 THEN header(Octet(frame, after), after + 1)
        ELSE IF Octet(frame, after) = 254
          THEN IF after + 3 > length THEN {} ELSE header(Word16(frame, after + 1), after + 3)
        ELSE IF after + 5 > length THEN {}
        ELSE IF Word16(frame, after + 1) # 0 THEN header(TOO_LONG, after + 5)
        ELSE header(Word16(frame, after + 3), after + 5)
  IN IF offset >= length \/ (extended /\ offset + 1 >= length) THEN {}
     ELSE IF lvt <= 4 THEN header(lvt, after)
     ELSE IF lvt = 5 THEN extendedLength
     ELSE IF Bit(first, 8) THEN header(0, after)
     ELSE {}

\* The value of the context tag of this number at an offset, if it is all there and
\* of a size that is wanted, and where it ends.
ContextTag(frame, length, offset, number, sizes) ==
  {[value |-> Octets(frame, offset + tag.headerLength, tag.length),
    end |-> offset + tag.headerLength + tag.length] :
     tag \in {header \in DecodeTagHeader(frame, length, offset) :
                /\ header.contextSpecific
                /\ header.tagNumber = number
                /\ header.length \in sizes
                /\ offset + header.headerLength + header.length <= length}}

DecodeObjectAndProperty(frame, length, offset) ==
  UNION {{[object |-> object.value, property |-> property.value,
           index |-> {index.value : index \in ContextTag(frame, length, property.end, 2, 1 .. 4)}] :
            property \in ContextTag(frame, length, object.end, 1, 1 .. 4)} :
           object \in ContextTag(frame, length, offset, 0, {4})}

----------------------------------------------------------------------------
(* DecodeBacnetFrame, one layer after the other.  A layer takes and returns what is *)
(* known so far and the offset of what follows, Absent once the frame gave out.     *)

DecodedFrame ==
  [bvlcFunction |-> Absent, npduVersion |-> Absent, npduControl |-> Absent,
   dnet |-> 0, dadr |-> <<>>, snet |-> 0, sadr |-> <<>>, networkMessageType |-> 0,
   pduType |-> Absent, invokeId |-> Absent, serviceChoice |-> Absent, reason |-> Absent,
   objectProperty |-> {}]

Known(out, offset) == [out |-> out, offset |-> offset]
OnlyKnown(out) == Known(out, Absent)

FoundAt(bvlcFunction) ==
  CASE bvlcFunction \in {10, 11} -> 4
    [] bvlcFunction = 4 -> 10
    [] OTHER -> Absent

Bvlc(frame, length) ==
  IF length < 4 \/ Octet(frame, 0) # 129 THEN OnlyKnown(DecodedFrame)
  ELSE Known([DecodedFrame EXCEPT !.bvlcFunction = Octet(frame, 1)], FoundAt(Octet(frame, 1)))

NpduHeader(frame, length, k) ==
  IF k.offset = Absent \/ k.offset + 2 > length THEN OnlyKnown(k.out)
  ELSE Known([k.out EXCEPT !.npduVersion = Octet(frame, k.offset),
                           !.npduControl = Octet(frame, k.offset + 1)], k.offset + 2)

HasControl(out, value) == out.npduControl # Absent /\ Bit(out.npduControl, value)
HasDest(out) == HasControl(out, 32)
HasSrc(out) == HasControl(out, 8)
IsNetworkMessage(out) == HasControl(out, 128)

\* The address is taken before it is known to be all there.
Specifier_Unchecked(frame, length, k, net, address) ==
  IF k.offset = Absent \/ k.offset + 3 > length THEN OnlyKnown(k.out)
  ELSE LET size == Octet(frame, k.offset + 2)
       IN Known([k.out EXCEPT ![net] = Word16(frame, k.offset),
                              ![address] = Octets(frame, k.offset + 3, size)],
                k.offset + 3 + size)

\* DNET, DLEN, DADR or SNET, SLEN, SADR.
Specifier(frame, length, k, net, address) ==
  IF k.offset = Absent \/ k.offset + 3 > length THEN OnlyKnown(k.out)
  ELSE LET size == Octet(frame, k.offset + 2)
           out == [k.out EXCEPT ![net] = Word16(frame, k.offset)]
       IN IF k.offset + 3 + size > length THEN OnlyKnown(out)
          ELSE Known([out EXCEPT ![address] = Octets(frame, k.offset + 3, size)],
                     k.offset + 3 + size)

Destination(frame, length, k) ==
  IF HasDest(k.out) THEN Specifier(frame, length, k, "dnet", "dadr") ELSE k

Source(frame, length, k) ==
  IF HasSrc(k.out) THEN Specifier(frame, length, k, "snet", "sadr") ELSE k

\* Present with a destination; and something must follow.
HopCount(length, k) ==
  LET offset == IF HasDest(k.out) THEN k.offset + 1 ELSE k.offset
  IN IF k.offset = Absent \/ offset >= length THEN OnlyKnown(k.out) ELSE Known(k.out, offset)

\* Per PDU type: how much of it must be there for anything to be taken from it, and
\* where its invoke id, service choice and reason are; a segmented one has its service
\* choice two octets later.
None == Absent
Layout ==
  [type \in 0 .. 15 |->
     CASE type = 0 -> [needs |-> 2, invokeId |-> 2, service |-> 3, reason |-> None]
       [] type = 1 -> [needs |-> 1, invokeId |-> None, service |-> 1, reason |-> None]
       [] type = 3 -> [needs |-> 1, invokeId |-> 1, service |-> 2, reason |-> None]
       [] type \in {2, 5} -> [needs |-> 2, invokeId |-> 1, service |-> 2, reason |-> None]
       [] type \in {6, 7} -> [needs |-> 2, invokeId |-> 1, service |-> None, reason |-> 2]
       [] OTHER -> [needs |-> 0, invokeId |-> None, service |-> None, reason |-> None]]

IsSegmented(type, first) == type \in {0, 3} /\ Bit(first, 8)

\* ReadProperty and WriteProperty requests, ReadProperty acknowledgements.
NamesAProperty(type, service) == <<type, service>> \in {<<0, 12>>, <<0, 15>>, <<3, 12>>}

Apdu(frame, length, out, offset) ==
  LET first == Octet(frame, offset)
      type == first \div 16
      layout == Layout[type]
      at(place) == IF place = None \/ offset + layout.needs >= length \/ offset + place >= length
                     THEN Absent ELSE Octet(frame, offset + place)
      servicePlace == IF IsSegmented(type, first) THEN layout.service + 2 ELSE layout.service
      service == at(servicePlace)
  IN [out EXCEPT
        !.pduType = type,
        !.invokeId = at(layout.invokeId),
        !.serviceChoice = service,
        !.reason = at(layout.reason),
        !.objectProperty = IF NamesAProperty(type, service)
                             THEN DecodeObjectAndProperty(frame, length, offset + servicePlace + 1)
                             ELSE {}]

DecodeBacnetFrame(frame, length) ==
  LET npdu == NpduHeader(frame, length, Bvlc(frame, length))
      k == HopCount(length, Source(frame, length, Destination(frame, length, npdu)))
  IN IF k.offset = Absent THEN k.out
     ELSE IF IsNetworkMessage(k.out)
       THEN [k.out EXCEPT !.networkMessageType = Octet(frame, k.offset)]
     ELSE Apdu(frame, length, k.out, k.offset)

----------------------------------------------------------------------------
(* What the two views say of a decoded frame, as facts: each walks it on its own.  *)

Fact(what, values) == {<<what, value>> : value \in values}
Flagged(value) == IF value = Absent THEN {} ELSE {value}

Number(value) == <<"number", value>>
Name(value, names) == <<"name", value, names>>

\* The summary prints a name, or the number if there is none.
NameOrNumber(flagged, names) ==
  {IF value \in names THEN Name(value, names) ELSE Number(value) : value \in Flagged(flagged)}

\* The XML dump prints the number, and the name if there is one.
NumberAndName(flagged, names) ==
  {Number(value) : value \in Flagged(flagged)}
    \cup {Name(value, names) : value \in Flagged(flagged) \cap names}

\* Object_Identifier: ten bits and twenty-two.
ObjectType(object) == 4 * object[1] + object[2] \div 64
ObjectInstance(object) == <<object[2] % 64, object[3], object[4]>>

\* The number in one to four octets, Absent for one beyond every table.
PropertyId(octets) ==
  LET padded == <<0, 0, 0>> \o octets
      fromEnd(i) == padded[Len(padded) - i]
  IN IF fromEnd(3) # 0 THEN Absent
     ELSE 65536 * fromEnd(2) + 256 * fromEnd(1) + fromEnd(0)

ObjectTypeIsNamed(request) == ObjectType(request.object) \in ObjectTypeName
PropertyIsNamed(request) == PropertyId(request.property) \in PropertyName

NamesOf(request) ==
  [type |-> Name(ObjectType(request.object), ObjectTypeName),
   property |-> Name(PropertyId(request.property), PropertyName)]
NumbersOf(request) ==
  [type |-> Number(ObjectType(request.object)), property |-> Number(request.property)]

----------------------------------------------------------------------------
(* SummarizeBacnetFrame; no fact is shown as "?". *)

\* AppendHex: as many octets as fit into the line.
Cut(octets, room) == [i \in DOMAIN octets \cap 1 .. room |-> octets[i]]

\* The route comes last; the line has room for so much of the address behind the text.
SummaryRoute(out, room) ==
  IF ~HasDest(out) THEN {}
  ELSE Fact("DNET", {out.dnet})
         \cup (IF out.dadr = <<>> THEN {} ELSE Fact("DADR", {Cut(out.dadr, room)}))

SummaryUsesNames_Either(request) == ObjectTypeIsNamed(request) \/ PropertyIsNamed(request)

\* Names for both or for none.
SummaryUsesNames(request) == ObjectTypeIsNamed(request) /\ PropertyIsNamed(request)

SummaryRequest(request) ==
  LET shown == IF SummaryUsesNames(request) THEN NamesOf(request) ELSE NumbersOf(request)
  IN Fact("objectType", {shown.type})
       \cup Fact("instance", {ObjectInstance(request.object)})
       \cup Fact("property", {shown.property})
       \cup Fact("arrayIndex", request.index)

SummaryProperty(out) == UNION {SummaryRequest(request) : request \in out.objectProperty}

SummaryBody(out) ==
  Fact("APDU", {out.pduType} \cap 0 .. 7)
    \cup (CASE out.pduType \in {0, 2, 3, 5} ->
                 Fact("service", NameOrNumber(out.serviceChoice, ConfirmedServiceName))
            [] out.pduType = 1 ->
                 Fact("service", NameOrNumber(out.serviceChoice, UnconfirmedServiceName))
            [] out.pduType = 6 -> Fact("reason", NameOrNumber(out.reason, RejectReasonName))
            [] out.pduType = 7 -> Fact("reason", NameOrNumber(out.reason, AbortReasonName))
            [] OTHER -> {})
    \cup SummaryProperty(out)

SummaryFacts(out, room) ==
  IF out.bvlcFunction = Absent THEN {}
  ELSE IF out.npduVersion = Absent THEN Fact("bvlcFunction", {out.bvlcFunction})
  ELSE IF IsNetworkMessage(out)
    THEN Fact("networkMessage", NameOrNumber(out.networkMessageType, NetworkMessageName))
           \cup SummaryRoute(out, room)
  ELSE IF out.pduType = Absent THEN {}
  ELSE SummaryBody(out) \cup SummaryRoute(out, room)

----------------------------------------------------------------------------
(* PrintFrameAsXml, which has no buffer and shows the source and the invoke id too. *)

XmlRoute(out) ==
  IF ~HasDest(out) THEN {}
  ELSE Fact("DNET", {out.dnet}) \cup Fact("DADR", {out.dadr} \ {<<>>})

XmlServiceNames(pduType) == IF pduType = 1 THEN UnconfirmedServiceName ELSE ConfirmedServiceName
XmlReasonNames(pduType) == IF pduType = 6 THEN RejectReasonName ELSE AbortReasonName

\* A name for each that has one.
XmlRequest(request) ==
  Fact("objectType", {NumbersOf(request).type}
                        \cup (IF ObjectTypeIsNamed(request) THEN {NamesOf(request).type} ELSE {}))
    \cup Fact("instance", {ObjectInstance(request.object)})
    \cup Fact("property", {NumbersOf(request).property}
                             \cup (IF PropertyIsNamed(request) THEN {NamesOf(request).property}
                                                               ELSE {}))
    \cup Fact("arrayIndex", request.index)

XmlProperty(out) == UNION {XmlRequest(request) : request \in out.objectProperty}

XmlApdu(out) ==
  Fact("APDU", {out.pduType} \cap 0 .. 7)
    \cup Fact("invokeId", Flagged(out.invokeId))
    \cup Fact("service", NumberAndName(out.serviceChoice, XmlServiceNames(out.pduType)))
    \cup Fact("reason", NumberAndName(out.reason, XmlReasonNames(out.pduType)))
    \cup XmlProperty(out)

XmlFacts(out) ==
  IF out.bvlcFunction = Absent THEN {}
  ELSE Fact("bvlcFunction", {out.bvlcFunction})
    \cup (IF out.npduVersion = Absent THEN {}
          ELSE Fact("NPDU", {<<out.npduVersion, out.npduControl>>})
            \cup XmlRoute(out)
            \cup (IF HasSrc(out) THEN Fact("source", {<<out.snet, out.sadr>>}) ELSE {})
            \cup (IF IsNetworkMessage(out)
                    THEN Fact("networkMessage",
                              NumberAndName(out.networkMessageType, NetworkMessageName))
                  ELSE IF out.pduType = Absent THEN {}
                  ELSE XmlApdu(out)))

----------------------------------------------------------------------------
(* Datagrams on their way. *)

\* Any datagram, whole or with one octet changed; behind it, octets of an older one.
FrameInit ==
  \E datagram \in Datagrams, damage \in Damages, older \in {0, 255} :
    \E at \in DOMAIN datagram :
      /\ memory = [datagram EXCEPT ![at] = damage] \o [i \in 1 .. 8 |-> older]
      /\ whole = Len(datagram)
      /\ frameLength = Len(datagram)

\* external: less of it arrives.
LessArrives ==
  /\ frameLength > 0
  /\ frameLength' = frameLength - 1
  /\ UNCHANGED <<memory, whole>>

FrameNext == LessArrives

FrameSpec == FrameInit /\ [][FrameNext]_frameVars

\* The buffer when this much arrived: what is behind it is not its own.
Received(length) ==
  [i \in 1 .. whole + 263 |->
     IF i <= length THEN memory[i] ELSE memory[whole + 1 + (i % (Len(memory) - whole))]]

Sent == DecodeBacnetFrame(Received(whole), whole)
Got == DecodeBacnetFrame(Received(frameLength), frameLength)

\* A datagram that is cut short, wherever that is, and whatever lengths it claims, loses
\* facts and gains none: nothing behind its end is taken for a part of it ("never reads
\* past frameLength", CASExampleHelper.cpp:1393).  The type of a network message and a
\* network number, which no flag guards, are left to TruncatedIsNotMisparsed.
TruncationOnlyForgets ==
  /\ \A field \in DOMAIN DecodedFrame
                    \ {"dnet", "snet", "networkMessageType", "objectProperty"} :
       Got[field] \in {DecodedFrame[field], Sent[field]}
  /\ Got.pduType # Absent => Got.dnet = Sent.dnet /\ Got.snet = Sent.snet
  /\ \A got \in Got.objectProperty : \E sent \in Sent.objectProperty :
       /\ got.object = sent.object
       /\ got.property = sent.property
       /\ got.index \subseteq sent.index

BeginsWith(octets, beginning) ==
  /\ DOMAIN beginning \subseteq DOMAIN octets
  /\ \A i \in DOMAIN beginning : beginning[i] = octets[i]

\* "The two views can never disagree with each other about what a frame contains"
\* (CASExampleHelper.cpp:1295).  They do not show the same: the line is cut where its
\* buffer ends, and it gives numbers where the dump has a name (1562-1583, 1675-1697,
\* 1746-1810).  But whatever arrives, a number or a name of the summary is in the dump
\* too, and an address in the summary is the beginning of the one in the dump.
ViewsNeverDisagree ==
  \A room \in SummaryRooms : \A fact \in SummaryFacts(Got, room) :
    \/ fact \in XmlFacts(Got)
    \/ /\ <<"DADR", Got.dadr>> \in XmlFacts(Got)
       /\ fact[1] = "DADR" /\ BeginsWith(Got.dadr, fact[2])

\* "A truncated or malformed frame degrades to "?" rather than being mis-parsed"
\* (CASExampleHelper.h:258): what the summary shows of a datagram that was cut short, it
\* shows of the whole one, but for the function when nothing else arrived.
TruncatedIsNotMisparsed ==
  \A room \in SummaryRooms : \A fact \in SummaryFacts(Got, room) :
    fact[1] = "bvlcFunction" \/ fact \in SummaryFacts(Sent, room)
=============================================================================
