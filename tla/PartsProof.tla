----------------------------- MODULE PartsProof -----------------------------
(***************************************************************************)
(* The parts of the program that share no state with the main loop's, for     *)
(* every Priority_Array, accepted value, table of names, sequence of restart  *)
(* requests, set of sockets, test command and datagram.  Each has a           *)
(* specification of its own: MCParts checks them as one.                    *)
(***************************************************************************)
EXTENDS MCParts, GatewayProof, FiniteSetTheorems, SequenceTheorems

----------------------------------------------------------------------------
(* The register. *)

\* Rounding half away from zero moves a value by at most half a tenth.
LEMMA RoundedToTenths ==
  ASSUME NEW value \in Int
  PROVE  /\ Scaled("setpoint", value) \in Int
         /\ Scaled("setpoint", value) * 10 - value <= 5
         /\ value - Scaled("setpoint", value) * 10 <= 5
<1>1. Scaled("setpoint", value) =
        IF value < 0 THEN -((5 - value) \div 10) ELSE (value + 5) \div 10
  BY SMT DEF Scaled, RegisterUnit
<1>2. CASE value < 0
  <2> DEFINE size == (5 - value) \div 10
  <2>1. size \in Int /\ 10 * size <= 5 - value /\ 5 - value < 10 * size + 10
    BY SMT
  <2>2. Scaled("setpoint", value) = -size
    BY <1>1, <1>2
  <2> HIDE DEF size
  <2>3. (-size) * 10 = -(10 * size)
    BY <2>1, SMT
  <2> QED
    BY <1>2, <2>1, <2>2, <2>3, SMT
<1>3. CASE value >= 0
  <2> DEFINE size == (value + 5) \div 10
  <2>1. size \in Int /\ 10 * size <= value + 5 /\ value + 5 < 10 * size + 10
    BY SMT
  <2>2. Scaled("setpoint", value) = size
    BY <1>1, <1>3
  <2> HIDE DEF size
  <2> QED
    BY <1>3, <2>1, <2>2, SMT
<1> QED
  BY <1>2, <1>3

\* An accepted setpoint stays in the signed 16-bit range once it is scaled
\* (main.cpp:764, 777).
LEMMA AcceptedFits ==
  ASSUME NEW value \in Int, Accepted("setpoint", value)
  PROVE  -32768 <= Scaled("setpoint", value) /\ Scaled("setpoint", value) <= 32767
<1> DEFINE count == Scaled("setpoint", value)
<1>1. -327680 <= value /\ value <= 327670
  BY SMT DEF Accepted, SETPOINT_MINIMUM, SETPOINT_MAXIMUM
<1>2. count \in Int /\ count * 10 - value <= 5 /\ value - count * 10 <= 5
  BY RoundedToTenths
<1>3. SUFFICES -32768 <= count /\ count <= 32767
  BY SMT
<1> HIDE DEF count
<1> QED
  BY <1>1, <1>2, SMT

\* The two casts, to uint16_t in the gateway and to int16_t in the slave, undo
\* each other on the signed 16-bit range (main.cpp:459, 417).
LEMMA CastsRoundTrip ==
  ASSUME NEW count \in Int, -32768 <= count, count <= 32767
  PROVE  Signed(count % REGISTER_VALUES) = count
<1>1. REGISTER_VALUES = 65536 /\ REGISTER_VALUES \div 2 = 32768
  BY SMT DEF REGISTER_VALUES
<1>2. CASE count >= 0
  <2>1. count % 65536 = count
    BY <1>2, SMT
  <2> QED
    BY <1>1, <1>2, <2>1, SMT DEF Signed
<1>3. CASE count < 0
  <2>1. count % 65536 = count + 65536
    BY <1>3, SMT
  <2> QED
    BY <1>1, <1>3, <2>1, SMT DEF Signed
<1> QED
  BY <1>2, <1>3, SMT

\* Whatever engineering value is probed, an accepted one is understood by the
\* slave to within half a register count (main.cpp:764, 777, 458).
THEOREM AcceptedValuesUnderstood == Spec => []RegisterUnderstood
<1> DEFINE ProbeOK == probe \in [output : Outputs, value : Int]
<1>1. Init => ProbeOK
  BY ValuesAssumption DEF Init
<1>2. ProbeOK /\ [Next]_<<array, probe>> => ProbeOK'
  BY DEF Next, Command, Release
<1>3. ProbeOK => RegisterUnderstood
  <2> DEFINE output == probe.output
             value == probe.value
             unit == RegisterUnit(output)
             understood == Signed(ToRegister(output, value)) * unit
  <2> SUFFICES ASSUME ProbeOK, Accepted(output, value)
               PROVE  /\ understood - value <= unit \div 2
                      /\ value - understood <= unit \div 2
    BY DEF RegisterUnderstood
  <2>1. value \in Int /\ output \in {"setpoint", "enable"}
    BY DEF Outputs
  <2> HIDE DEF output, value
  <2>2. CASE output = "setpoint"
    <3>1. unit = 10 /\ unit \div 2 = 5
      BY <2>2, SMT DEF RegisterUnit
    <3>2. Signed(ToRegister(output, value)) = Scaled("setpoint", value)
      BY <2>1, <2>2, AcceptedFits, CastsRoundTrip, RoundedToTenths DEF ToRegister
    <3> QED
      BY <2>1, <3>1, <3>2, RoundedToTenths
  <2>3. CASE output = "enable"
    <3>1. unit = 100 /\ unit \div 2 = 50
      BY <2>3, SMT DEF RegisterUnit
    <3>2. value = 0 \/ value = 100
      BY <2>3 DEF Accepted
    <3>3. Scaled(output, value) = value \div 100 /\ Scaled(output, value) \in {0, 1}
      BY <2>1, <3>1, <3>2, SMT DEF Scaled
    <3>4. Signed(ToRegister(output, value)) = Scaled(output, value)
      BY <3>3, CastsRoundTrip, SMT DEF ToRegister
    <3> QED
      BY <2>1, <3>1, <3>2, <3>3, <3>4, SMT
  <2> QED
    BY <2>1, <2>2, <2>3
<1> QED
  BY <1>1, <1>2, <1>3, PTL DEF Spec

----------------------------------------------------------------------------
(* The winner. *)

\* The winner among the set slots `among`, and among those from `slot` on.
WinnerAmong(slots, among) ==
  IF among = {}
    THEN RelinquishDefault
    ELSE slots[CHOOSE lowest \in among : \A other \in among : lowest <= other]

WinnerFrom(slots, slot) ==
  WinnerAmong(slots, {other \in SetSlots(slots) : slot <= other})

\* One step of the stack's walk down the Priority_Array, given the rest of it.
Walked(slots, rest) ==
  [slot \in 1 .. PRIORITY_ARRAY_SIZE + 1 |->
     IF slot > PRIORITY_ARRAY_SIZE THEN RelinquishDefault
     ELSE IF slots[slot] # Null THEN slots[slot]
     ELSE rest[slot + 1]]

\* Looking for the lowest set slot from here is looking at this slot, then for
\* the lowest one from the next.
LEMMA WinnerFromStep ==
  ASSUME NEW slots, NEW slot \in 1 .. PRIORITY_ARRAY_SIZE + 1
  PROVE  WinnerFrom(slots, slot) =
           IF slot > PRIORITY_ARRAY_SIZE THEN RelinquishDefault
           ELSE IF slots[slot] # Null THEN slots[slot]
           ELSE WinnerFrom(slots, slot + 1)
<1> DEFINE later == {other \in SetSlots(slots) : slot <= other}
<1>1. PRIORITY_ARRAY_SIZE \in Nat /\ slot \in Nat /\ \A other \in later : other \in Nat
  BY PrioritiesAssumption DEF SetSlots, Slots
<1>2. CASE slot > PRIORITY_ARRAY_SIZE
  <2>1. later = {}
    BY <1>1, <1>2 DEF SetSlots, Slots
  <2> QED
    BY <1>2, <2>1 DEF WinnerFrom, WinnerAmong
<1>3. CASE slot <= PRIORITY_ARRAY_SIZE /\ slots[slot] # Null
  <2>1. slot \in later
    BY <1>1, <1>3 DEF SetSlots, Slots
  <2>2. \A lowest \in later : (\A other \in later : lowest <= other) <=> lowest = slot
    BY <1>1, <2>1
  <2>3. (CHOOSE lowest \in later : \A other \in later : lowest <= other) = slot
    BY <2>1, <2>2
  <2>4. WinnerFrom(slots, slot) = slots[slot]
    BY <2>1, <2>3, Zenon DEF WinnerFrom, WinnerAmong
  <2> QED
    BY <1>1, <1>3, <2>4
<1>4. CASE slot <= PRIORITY_ARRAY_SIZE /\ slots[slot] = Null
  <2>1. later = {other \in SetSlots(slots) : slot + 1 <= other}
    BY <1>1, <1>4 DEF SetSlots, Slots
  <2>2. WinnerFrom(slots, slot) = WinnerFrom(slots, slot + 1)
    BY <2>1 DEF WinnerFrom
  <2> QED
    BY <1>1, <1>4, <2>2
<1> QED
  BY <1>1, <1>2, <1>3, <1>4

\* The stack's walk finds the lowest slot that is set.
LEMMA StackFindsTheWinner ==
  ASSUME NEW slots
  PROVE  StackPresentValue(slots) = WinningValue(slots, RelinquishDefault)
<1> DEFINE positions == 1 .. PRIORITY_ARRAY_SIZE + 1
           winners == [slot \in positions |-> WinnerFrom(slots, slot)]
           from == CHOOSE walk : walk = Walked(slots, walk)
<1>1. PRIORITY_ARRAY_SIZE \in Nat /\ PRIORITY_ARRAY_SIZE >= 1
  BY PrioritiesAssumption
<1>2. winners = Walked(slots, winners)
  <2>1. \A slot \in positions : WinnerFrom(slots, slot) = Walked(slots, winners)[slot]
    BY <1>1, WinnerFromStep DEF Walked
  <2> QED
    BY <2>1 DEF Walked
<1>3. from = Walked(slots, from)
  BY <1>2
<1>4. StackPresentValue(slots) = from[1]
  BY DEF StackPresentValue, Walked
<1> HIDE DEF from, winners
<1>5. \A slot \in positions : from[slot] = winners[slot]
  <2> DEFINE wrong == {steps \in 0 .. PRIORITY_ARRAY_SIZE :
                         from[PRIORITY_ARRAY_SIZE + 1 - steps]
                           # winners[PRIORITY_ARRAY_SIZE + 1 - steps]}
  <2>1. wrong = {}
    <3> SUFFICES ASSUME wrong # {} PROVE FALSE
      OBVIOUS
    <3>1. PICK steps \in wrong : \A other \in wrong : steps <= other
      <4>1. wrong \subseteq Nat
        BY <1>1
      <4> HIDE DEF wrong
      <4> QED
        BY <4>1, LowestExists
    <3> DEFINE slot == PRIORITY_ARRAY_SIZE + 1 - steps
    <3>2. slot \in positions /\ steps \in Nat /\ steps <= PRIORITY_ARRAY_SIZE
      BY <1>1, <3>1
    <3>3. CASE steps = 0
      <4>1. slot = PRIORITY_ARRAY_SIZE + 1 /\ slot > PRIORITY_ARRAY_SIZE
        BY <1>1, <3>3
      <4>2. from[slot] = winners[slot]
        BY <1>2, <1>3, <3>2, <4>1 DEF Walked
      <4> QED
        BY <3>1, <4>2
    <3>4. CASE steps > 0
      <4>1. steps - 1 \in 0 .. PRIORITY_ARRAY_SIZE /\ ~(steps <= steps - 1)
        BY <1>1, <3>2, <3>4
      <4>2. steps - 1 \notin wrong
        BY <3>1, <4>1
      <4>3. PRIORITY_ARRAY_SIZE + 1 - (steps - 1) = slot + 1
        BY <1>1, <3>2
      <4>4. from[slot + 1] = winners[slot + 1]
        BY <4>1, <4>2, <4>3
      <4>5. from[slot] = winners[slot]
        BY <1>2, <1>3, <3>2, <4>4 DEF Walked
      <4> QED
        BY <3>1, <4>5
    <3> QED
      BY <3>2, <3>3, <3>4
  <2> SUFFICES ASSUME NEW slot \in positions PROVE from[slot] = winners[slot]
    OBVIOUS
  <2>2. /\ PRIORITY_ARRAY_SIZE + 1 - slot \in 0 .. PRIORITY_ARRAY_SIZE
        /\ PRIORITY_ARRAY_SIZE + 1 - (PRIORITY_ARRAY_SIZE + 1 - slot) = slot
    BY <1>1
  <2> QED
    BY <2>1, <2>2
<1>6. winners[1] = WinningValue(slots, RelinquishDefault)
  <2>1. {other \in SetSlots(slots) : 1 <= other} = SetSlots(slots)
    BY <1>1 DEF SetSlots, Slots
  <2>2. winners[1] = WinnerFrom(slots, 1)
    BY <1>1 DEF winners
  <2> QED
    BY <2>1, <2>2 DEF WinnerFrom, WinnerAmong, WinningValue
<1>7. 1 \in positions
  BY <1>1
<1> QED
  BY <1>4, <1>5, <1>6, <1>7

\* What the gateway writes to a slave is what the stack shows its clients,
\* whatever was commanded and relinquished (main.cpp:197, 263).
THEOREM SameWinner == Spec => []WinnersAgree
<1>1. WinnersAgree
  BY StackFindsTheWinner DEF WinnersAgree
<1> QED
  BY <1>1, PTL

\* The lowest slot that is set is the winner.
LEMMA LowestWins ==
  ASSUME NEW slots, NEW slot \in SetSlots(slots),
         \A other \in SetSlots(slots) : slot <= other
  PROVE  StackPresentValue(slots) = slots[slot]
<1>1. \A other \in SetSlots(slots) : other \in Nat
  BY PrioritiesAssumption DEF SetSlots, Slots
<1>2. \A lowest \in SetSlots(slots) :
        (\A other \in SetSlots(slots) : lowest <= other) <=> lowest = slot
  BY <1>1
<1>3. (CHOOSE lowest \in SetSlots(slots) : \A other \in SetSlots(slots) : lowest <= other) = slot
  BY <1>2
<1>4. WinningValue(slots, RelinquishDefault) = slots[slot]
  BY <1>3, Zenon DEF WinningValue
<1> QED
  BY <1>4, StackFindsTheWinner

\* A command is what clients read and what the slave is sent, unless a slot
\* before it is set: then it changes neither (main.cpp:259, 758).
THEOREM CommandsTakeEffect == Spec => CommandTakesEffect
<1> DEFINE ArrayOK == array \in PriorityArrays(Int)
<1>1. Init => ArrayOK
  BY DEF Init, EmptyPriorityArray, PriorityArrays
<1>2. ArrayOK /\ [Next]_<<array, probe>> => ArrayOK'
  BY ValuesAssumption, PrioritiesAssumption
  DEF Next, Command, Release, CommandWrite, Relinquish, PriorityArrays
<1>3. ASSUME ArrayOK, NEW priority \in Priorities, NEW value \in Values,
             Command(priority, value)
      PROVE  LET stronger == {slot \in Slots : IF priority \in Slots
                                                 THEN slot < priority
                                                 ELSE slot < PRIORITY_ARRAY_SIZE}
             IN StackPresentValue(array') =
                  IF \A slot \in stronger : array[slot] = Null
                    THEN value
                    ELSE StackPresentValue(array)
  <2> DEFINE commanded == EffectivePriority(priority)
             stronger == {slot \in Slots : IF priority \in Slots
                                             THEN slot < priority
                                             ELSE slot < PRIORITY_ARRAY_SIZE}
  <2>1. PRIORITY_ARRAY_SIZE \in Nat /\ Slots \subseteq Nat /\ commanded \in Slots
    BY PrioritiesAssumption DEF EffectivePriority, Slots
  <2>2. stronger = {slot \in Slots : slot < commanded}
    BY DEF EffectivePriority
  <2>3. array' = [array EXCEPT ![commanded] = value]
    BY <1>3 DEF Command, CommandWrite
  <2>4. array'[commanded] = value
        /\ \A slot \in Slots : slot # commanded => array'[slot] = array[slot]
    BY <1>3, <2>1, <2>3 DEF PriorityArrays
  <2>5. value # Null
    BY ValuesAssumption, NullAssumption
  <2> HIDE DEF commanded, stronger
  <2>6. SetSlots(array') = SetSlots(array) \cup {commanded}
    BY <2>1, <2>4, <2>5 DEF SetSlots
  <2>7. CASE \A slot \in stronger : array[slot] = Null
    <3>1. \A other \in SetSlots(array') : commanded <= other
      BY <2>1, <2>2, <2>6, <2>7 DEF SetSlots
    <3>2. StackPresentValue(array') = array'[commanded]
      BY <2>6, <3>1, LowestWins
    <3> QED
      BY <2>4, <2>7, <3>2 DEF stronger
  <2>8. CASE ~ \A slot \in stronger : array[slot] = Null
    <3>1. PICK slot \in Slots : slot < commanded /\ slot \in SetSlots(array)
      BY <2>2, <2>8 DEF SetSlots
    <3>2. PICK lowest \in SetSlots(array) : \A other \in SetSlots(array) : lowest <= other
      BY <2>1, <3>1, LowestExists DEF SetSlots
    <3>3. lowest \in Slots /\ lowest < commanded
      BY <2>1, <3>1, <3>2 DEF SetSlots
    <3>4. lowest \in SetSlots(array') /\ \A other \in SetSlots(array') : lowest <= other
      BY <2>1, <2>6, <3>2, <3>3
    <3>5. StackPresentValue(array) = array[lowest]
      BY <3>2, LowestWins
    <3>6. StackPresentValue(array') = array'[lowest]
      BY <3>4, LowestWins
    <3>7. array'[lowest] = array[lowest]
      BY <2>1, <2>4, <3>3
    <3> QED
      BY <2>8, <3>5, <3>6, <3>7 DEF stronger
  <2> QED
    BY <2>7, <2>8
<1>4. ArrayOK /\ [Next]_<<array, probe>> =>
        [\A priority \in Priorities, value \in Values :
           Command(priority, value) =>
             LET stronger == {slot \in Slots : IF priority \in Slots
                                                 THEN slot < priority
                                                 ELSE slot < PRIORITY_ARRAY_SIZE}
             IN StackPresentValue(array') =
                  IF \A slot \in stronger : array[slot] = Null
                    THEN value
                    ELSE StackPresentValue(array)]_array
  BY <1>3
<1> QED
  BY <1>1, <1>2, <1>4, PTL DEF Spec, CommandTakesEffect

----------------------------------------------------------------------------
(* RequestRestart and RestartDue, whatever delays are asked for and however   *)
(* long the clock runs.  The type invariant and the property are inductive    *)
(* together.                                                               *)

RestartInv == RestartTypeOK /\ PromisesAreKept

\* Before the first request nothing is pending and nothing is owed.
LEMMA NothingPromised == RestartInit => RestartInv
<1> SUFFICES ASSUME RestartInit PROVE RestartInv
  OBVIOUS
<1>1. RestartTypeOK
  BY DEF RestartInit, RestartTypeOK, RestartKinds
<1>2. PromisesAreKept
  BY DEF RestartInit, PromisesAreKept
<1> QED
  BY <1>1, <1>2 DEF RestartInv

\* A request keeps what the earlier ones were promised, and is promised the sooner of
\* the two deadlines.
LEMMA RequestKeepsPromises ==
  ASSUME RestartInv, NEW kind \in RestartKinds, NEW delay \in Delays,
         RequestRestart(kind, delay)
  PROVE  RestartInv'
<1> DEFINE dueAt == now + delay
           request == [kind |-> kind, dueAt |-> dueAt]
<1>1. dueAt \in Nat
  BY DelaysAssumption, SMT DEF RestartInv, RestartTypeOK
<1>2. /\ restartPending' = TRUE
      /\ restartDueAt' = IF restartPending THEN EarlierOf(restartDueAt, dueAt) ELSE dueAt
      /\ restartKind' = IF restartPending /\ kind # "Cold" THEN restartKind ELSE kind
      /\ promised' = promised \cup {request}
      /\ now' = now
  BY DEF RequestRestart
<1>3. /\ now \in Nat
      /\ restartDueAt \in Nat
      /\ restartKind \in RestartKinds
      /\ restartPending \in BOOLEAN
      /\ promised \subseteq [kind : RestartKinds, dueAt : Nat]
      /\ PromisesAreKept
  BY DEF RestartInv, RestartTypeOK
<1>4. request \in [kind : RestartKinds, dueAt : Nat]
  BY <1>1
<1>5. request.kind = kind /\ request.dueAt = dueAt
  OBVIOUS
<1> HIDE DEF dueAt, request
<1>6. RestartTypeOK'
  BY <1>1, <1>2, <1>3, <1>4, SMT DEF RestartTypeOK, EarlierOf
<1>7. PromisesAreKept'
  <2>1. CASE ~restartPending
    <3>1. promised = {}
      BY <2>1, <1>3 DEF PromisesAreKept
    <3>2. promised' = {request} /\ restartDueAt' = dueAt /\ restartKind' = kind
      BY <3>1, <2>1, <1>2
    <3> QED
      BY <3>2, <1>1, <1>2, <1>5, SMT DEF PromisesAreKept
  <2>2. CASE restartPending
    <3>1. \E owed \in promised' : owed.dueAt = restartDueAt'
      <4>1. PICK owed \in promised : owed.dueAt = restartDueAt
        BY <2>2, <1>3 DEF PromisesAreKept
      <4> QED
        BY <4>1, <2>2, <1>2, <1>5 DEF EarlierOf
    <3>2. ASSUME NEW owed \in promised' PROVE restartDueAt' <= owed.dueAt
      <4>1. CASE owed = request
        BY <4>1, <2>2, <1>1, <1>2, <1>3, <1>5, SMT DEF EarlierOf
      <4>2. CASE owed \in promised
        <5>1. restartDueAt <= owed.dueAt /\ owed.dueAt \in Nat
          BY <4>2, <2>2, <1>3 DEF PromisesAreKept
        <5> QED
          BY <5>1, <2>2, <1>1, <1>2, <1>3, SMT DEF EarlierOf
      <4> QED
        BY <3>2, <4>1, <4>2, <1>2
    <3>3. restartKind' = "Cold" <=> \E owed \in promised' : owed.kind = "Cold"
      BY <2>2, <1>2, <1>3, <1>5 DEF PromisesAreKept
    <3> QED
      BY <3>1, <3>2, <3>3, <1>2 DEF PromisesAreKept
  <2> QED
    BY <2>1, <2>2
<1> QED
  BY <1>6, <1>7 DEF RestartInv

LEMMA RestartInvInductive == RestartInv /\ [RestartNext]_restartVars => RestartInv'
<1> SUFFICES ASSUME RestartInv, [RestartNext]_restartVars PROVE RestartInv'
  OBVIOUS
<1> USE DEF RestartInv, RestartTypeOK, PromisesAreKept
<1>1. CASE MonotonicTicks
  BY <1>1, SMT DEF MonotonicTicks
<1>2. ASSUME NEW kind \in RestartKinds, NEW delay \in Delays, RequestRestart(kind, delay)
      PROVE  RestartInv'
  BY <1>2, RequestKeepsPromises
<1>3. CASE RestartDue
  BY <1>3 DEF RestartDue
<1>4. CASE UNCHANGED restartVars
  BY <1>4 DEF restartVars
<1> QED
  BY <1>1, <1>2, <1>3, <1>4 DEF RestartNext

\* A restart is pending exactly while one is owed, due when the first client was promised
\* it, and cold exactly if somebody asked for that, for any delays and any number of
\* requests (RequestRestart, RestartDue).
THEOREM RestartsAsPromised == RestartSpec => []PromisesAreKept
<1>1. RestartInv => PromisesAreKept
  BY DEF RestartInv
<1> QED
  BY <1>1, NothingPromised, RestartInvInductive, PTL DEF RestartSpec

----------------------------------------------------------------------------
(* LookUpIdName on any table that is sorted by id, of any length: the search  *)
(* ends with the place of the id, or knows that there is none.              *)

LookUpTypeOK ==
  /\ table \in IdTables
  /\ id \in Nat
  /\ lo \in Nat
  /\ hi \in Nat
  /\ answer \subseteq Nat

LookUpInv == LookUpTypeOK /\ NothingIsOverlooked

\* The middle of a half that is not empty is in it.
LEMMA MiddleIsBetween ==
  ASSUME lo \in Nat, hi \in Nat, lo < hi
  PROVE  mid \in Nat /\ lo <= mid /\ mid < hi
  BY SMT DEF mid

\* The whole table is searched at first.
LEMMA StartsWithAll == LookUpInit => LookUpInv
<1> SUFFICES ASSUME LookUpInit PROVE LookUpInv
  OBVIOUS
<1>1. Len(table) \in Nat /\ table \in Seq(Nat)
  BY IdTablesAssumption DEF LookUpInit
<1>2. LookUpTypeOK
  BY <1>1, WantedAssumption DEF LookUpInit, LookUpTypeOK
<1>3. NothingIsOverlooked
  BY <1>1, SMT DEF LookUpInit, NothingIsOverlooked, Places
<1> QED
  BY <1>2, <1>3 DEF LookUpInv

\* Which half the id is not in follows from the order of the table.
LEMMA HalfIsEnough ==
  ASSUME LookUpInv, LookUpStep
  PROVE  LookUpInv'
<1>1. /\ table \in Seq(Nat) /\ Ascending(table) /\ Len(table) \in Nat
      /\ DOMAIN table = 1 .. Len(table)
      /\ \A i \in 1 .. Len(table) : table[i] \in Nat
  BY IdTablesAssumption DEF LookUpInv, LookUpTypeOK
<1>2. /\ lo \in Nat /\ hi \in Nat /\ id \in Nat /\ lo < hi /\ hi <= Len(table)
      /\ answer = {} /\ table' = table /\ id' = id
      /\ \A place \in Places : table[place + 1] = id => lo <= place /\ place < hi
  BY DEF LookUpInv, LookUpTypeOK, NothingIsOverlooked, LookUpStep
<1>3. mid \in Nat /\ lo <= mid /\ mid < hi
  BY <1>2, MiddleIsBetween
<1>4. Places' = Places
  BY <1>2 DEF Places
<1> DEFINE middle == mid
<1>5. middle \in Nat /\ lo <= middle /\ middle < hi /\ middle \in Places
      /\ table[middle + 1] \in Nat
  BY <1>1, <1>2, <1>3, SMT DEF Places
<1>6. \/ table[middle + 1] = id /\ answer' = {middle} /\ lo' = lo /\ hi' = hi
      \/ table[middle + 1] < id /\ lo' = middle + 1 /\ hi' = hi /\ answer' = answer
      \/ table[middle + 1] > id /\ hi' = middle /\ lo' = lo /\ answer' = answer
  BY DEF LookUpStep, UpperHalfEnds
<1> HIDE DEF middle
<1>7. LookUpTypeOK'
  BY <1>2, <1>5, <1>6, SMT DEF LookUpTypeOK, LookUpInv
<1>8. NothingIsOverlooked'
  <2>1. CASE table[middle + 1] = id /\ answer' = {middle} /\ lo' = lo /\ hi' = hi
    <3>1. answer' # {}
      BY <2>1
    <3>2. lo' <= hi' /\ hi' <= Len(table')
      BY <2>1, <1>2
    <3> QED
      BY <3>1, <3>2, <2>1, <1>2, <1>4, <1>5 DEF NothingIsOverlooked
  <2>2. CASE table[middle + 1] < id /\ lo' = middle + 1 /\ hi' = hi /\ answer' = answer
    <3>1. ASSUME NEW place \in Places, table[place + 1] = id PROVE middle + 1 <= place
      <4>1. place \in Nat /\ place + 1 \in 1 .. Len(table) /\ middle + 1 \in 1 .. Len(table)
        BY <1>1, <1>5, SMT DEF Places
      <4>2. place < middle => table[place + 1] < table[middle + 1]
        BY <4>1, <1>1, <1>5, SMT DEF Ascending
      <4> QED
        BY <4>1, <4>2, <3>1, <2>2, <1>1, <1>2, <1>5, SMT
    <3> QED
      BY <3>1, <2>2, <1>1, <1>2, <1>4, <1>5, SMT DEF NothingIsOverlooked
  <2>3. CASE table[middle + 1] > id /\ hi' = middle /\ lo' = lo /\ answer' = answer
    <3>1. ASSUME NEW place \in Places, table[place + 1] = id PROVE place < middle
      <4>1. place \in Nat /\ place + 1 \in 1 .. Len(table) /\ middle + 1 \in 1 .. Len(table)
        BY <1>1, <1>5, SMT DEF Places
      <4>2. middle < place => table[middle + 1] < table[place + 1]
        BY <4>1, <1>1, <1>5, SMT DEF Ascending
      <4> QED
        BY <4>1, <4>2, <3>1, <2>3, <1>1, <1>2, <1>5, SMT
    <3> QED
      BY <3>1, <2>3, <1>1, <1>2, <1>4, <1>5, SMT DEF NothingIsOverlooked
  <2> QED
    BY <1>6, <2>1, <2>2, <2>3
<1> QED
  BY <1>7, <1>8 DEF LookUpInv

LEMMA LookUpInvInductive == LookUpInv /\ [LookUpNext]_lookUpVars => LookUpInv'
<1> SUFFICES ASSUME LookUpInv, [LookUpNext]_lookUpVars PROVE LookUpInv'
  OBVIOUS
<1>1. CASE LookUpStep
  BY <1>1, HalfIsEnough
<1>2. CASE UNCHANGED lookUpVars
  BY <1>2 DEF lookUpVars, LookUpInv, LookUpTypeOK, NothingIsOverlooked, Places
<1> QED
  BY <1>1, <1>2 DEF LookUpNext

\* What LookUpIdName returns is the place of the id, and while it searches the id can only
\* be in the half that is left: NULL means that the id is not in the table.
THEOREM SearchIsComplete == LookUpSpec => []NothingIsOverlooked
<1>1. LookUpInv => NothingIsOverlooked
  BY DEF LookUpInv
<1> QED
  BY <1>1, StartsWithAll, LookUpInvInductive, PTL DEF LookUpSpec

----------------------------------------------------------------------------
(* The UDP sockets: whatever SetupUDP fails at, and wherever datagrams come in. *)

Bindings ==
  [instance : Instances, port : Nat, socket : Descriptors \cup {NONE}, bound : BOOLEAN]

TransportTypeOK ==
  /\ bindings \in Seq(Bindings)
  /\ DOMAIN sockets \subseteq Descriptors
  /\ sockets \in [DOMAIN sockets -> [port : Nat, waiting : Nat]]
  /\ checking \in NotReceiving .. Len(bindings)
  /\ nextBindingToCheck \in Nat
  /\ IF bindings = <<>> THEN nextBindingToCheck = 0 /\ checking = NotReceiving
                        ELSE nextBindingToCheck < Len(bindings)
  /\ overtaken \in [Instances -> [Instances -> Nat]]

\* An instance has one binding, and a bound one a socket of its own (CASExampleHelper.cpp:209).
SocketsOwned ==
  /\ \A here, there \in DOMAIN bindings :
       bindings[here].instance = bindings[there].instance => here = there
  /\ \A here \in DOMAIN bindings : bindings[here].bound =>
       /\ bindings[here].socket \in DOMAIN sockets
       /\ sockets[bindings[here].socket].port = bindings[here].port
       /\ \A there \in DOMAIN bindings :
            bindings[there].bound /\ bindings[there].socket = bindings[here].socket => here = there
  /\ DOMAIN sockets \subseteq BoundSockets

\* How far from the start of the search a binding is (CASExampleHelper.cpp:138).
Turn(place) ==
  IF place - 1 >= nextBindingToCheck THEN place - 1 - nextBindingToCheck
  ELSE place - 1 - nextBindingToCheck + Len(bindings)

\* An instance that was passed over for another comes before it from now on, and the
\* search, if one is on, has not been at it yet.
InTurn ==
  \A instance, other \in Instances : overtaken[instance][other] # 0 =>
    /\ overtaken[instance][other] = 1
    /\ \E here, there \in DOMAIN bindings :
         /\ bindings[here].instance = instance /\ Waiting(bindings[here]) > 0
         /\ bindings[there].instance = other
         /\ Turn(here) < Turn(there)
         /\ checking <= Turn(here)

TransportInv == TransportTypeOK /\ SocketsOwned /\ InTurn

\* What goes out or came in belongs to a bound instance.
TrafficOK ==
  /\ \A datagram \in received : \E here \in DOMAIN bindings :
       /\ bindings[here].bound /\ bindings[here].instance = datagram.instance
       /\ bindings[here].port = datagram.port
  /\ \A message \in sent :
       /\ \E here \in DOMAIN bindings :
            /\ bindings[here].bound /\ bindings[here].instance = message.instance
            /\ bindings[here].port = message.from
       /\ ~(message.broadcast /\ message.toSelf /\ message.port = message.from)

\* A sum of two positions wraps around once (CASExampleHelper.cpp:139).
LEMMA WrapsOnce ==
  ASSUME NEW size \in Nat \ {0}, NEW sum \in 0 .. 2 * size - 1
  PROVE  sum % size = IF sum < size THEN sum ELSE sum - size
  BY SMT

\* The places of a table are its first ones.
LEMMA PlacesOf ==
  ASSUME TransportInv
  PROVE  /\ Len(bindings) \in Nat /\ DOMAIN bindings = 1 .. Len(bindings)
         /\ \A here \in DOMAIN bindings : bindings[here] \in Bindings
         /\ bindings = <<>> <=> Len(bindings) = 0
         /\ \A here \in DOMAIN bindings :
              /\ Turn(here) \in 0 .. Len(bindings) - 1
              /\ \A there \in DOMAIN bindings : Turn(here) = Turn(there) => here = there
<1>1. /\ Len(bindings) \in Nat /\ DOMAIN bindings = 1 .. Len(bindings)
      /\ \A here \in DOMAIN bindings : bindings[here] \in Bindings
      /\ bindings = <<>> <=> Len(bindings) = 0
  BY DEF TransportInv, TransportTypeOK
<1>2. nextBindingToCheck \in Nat /\ (Len(bindings) # 0 => nextBindingToCheck < Len(bindings))
  BY <1>1 DEF TransportInv, TransportTypeOK
<1> QED
  BY <1>1, <1>2, SMTT(30) DEF Turn

\* The search is at the binding whose turn it is (CASExampleHelper.cpp:139).
LEMMA CandidateInTurn ==
  ASSUME TransportInv, checking # NotReceiving, checking < Len(bindings)
  PROVE  /\ Candidate \in 0 .. Len(bindings) - 1 /\ Candidate + 1 \in DOMAIN bindings
         /\ Turn(Candidate + 1) = checking
         /\ Current \in Bindings
<1> DEFINE size == Len(bindings)
           sum == nextBindingToCheck + checking
<1>1. /\ size \in Nat \ {0} /\ DOMAIN bindings = 1 .. size
      /\ nextBindingToCheck \in 0 .. size - 1 /\ checking \in 0 .. size - 1
  BY PlacesOf, SMT DEF TransportInv, TransportTypeOK, NotReceiving
<1>2. Candidate = IF sum < size THEN sum ELSE sum - size
  <2>1. sum \in 0 .. 2 * size - 1
    BY <1>1
  <2>2. Candidate = sum % size
    BY DEF Candidate
  <2> HIDE DEF sum, size
  <2> QED
    BY <1>1, <2>1, <2>2, WrapsOnce
<1> QED
  BY <1>1, <1>2, PlacesOf, SMTT(30) DEF Turn, Current

\* A table of so many bindings is a sequence.
LEMMA EntriesInRow ==
  ASSUME NEW Entries, NEW size \in Nat, NEW entries \in [1 .. size -> Entries]
  PROVE  /\ entries \in Seq(Entries) /\ Len(entries) = size
         /\ DOMAIN entries = 1 .. size
         /\ entries = <<>> <=> size = 0
<1>1. entries \in Seq(Entries) /\ DOMAIN entries = 1 .. size
  BY SeqDef
<1>2. Len(entries) = size
  BY <1>1, LenProperties, SMT
<1> QED
  BY <1>1, <1>2, EmptySeq

\* The places of a table are places of a longer one.
LEMMA FirstPlacesStay ==
  \A old \in Nat : \A longer \in old .. old + 1 : \A place \in 1 .. old : place \in 1 .. longer
  BY SMT

\* A new socket is bound for an instance.
OpensSocket(instance) ==
  \E fresh \in Descriptors \ DOMAIN sockets :
    /\ DOMAIN sockets' = DOMAIN sockets \cup {fresh}
    /\ sockets' = [descriptor \in DOMAIN sockets' |->
                     IF descriptor = fresh THEN [port |-> PORT_OF[instance], waiting |-> 0]
                                           ELSE sockets[descriptor]]
    /\ \E place \in DOMAIN bindings' :
         bindings'[place] = [instance |-> instance, port |-> PORT_OF[instance],
                             socket |-> fresh, bound |-> TRUE]

\* SetupUDP adds a binding at most, and changes that of its own instance only
\* (CASExampleHelper.cpp:1990, SimpleUDP.cpp:52).
LEMMA WhatSetUpDoes ==
  ASSUME TransportInv, NEW instance \in Instances, SetupUDP(instance)
  PROVE  /\ bindings' \in Seq(Bindings) /\ bindings' # <<>>
         /\ Len(bindings') \in Len(bindings) .. Len(bindings) + 1
         /\ DOMAIN bindings' = 1 .. Len(bindings')
         /\ \A place \in DOMAIN bindings : bindings'[place].instance = bindings[place].instance
         /\ \A place \in DOMAIN bindings' :
              \/ place \in DOMAIN bindings /\ bindings'[place] = bindings[place]
                   /\ bindings[place].instance # instance
              \/ bindings'[place].instance = instance
                   /\ (place \in DOMAIN bindings => ~bindings[place].bound)
         /\ \A here, there \in DOMAIN bindings' :
              bindings'[here].instance = bindings'[there].instance => here = there
         /\ \/ /\ sockets' = sockets
               /\ \A place \in DOMAIN bindings' :
                    bindings'[place].instance = instance => ~bindings'[place].bound
            \/ OpensSocket(instance)
<1> DEFINE table1 == BindingsWith(instance)
           new == [instance |-> instance, port |-> 0, socket |-> NONE, bound |-> FALSE]
           port1 == PORT_OF[instance]
<1>1. /\ bindings \in Seq(Bindings) /\ DOMAIN bindings = 1 .. Len(bindings)
      /\ Len(bindings) \in Nat
      /\ \A place \in DOMAIN bindings : bindings[place] \in Bindings
  BY PlacesOf DEF TransportInv, TransportTypeOK
<1>2. new \in Bindings /\ new.instance = instance /\ ~new.bound /\ port1 \in Nat
  BY TransportAssumption DEF Bindings, Instances
<1> HIDE DEF new, port1
<1>3. /\ table1 \in Seq(Bindings) /\ table1 # <<>> /\ DOMAIN table1 = 1 .. Len(table1)
      /\ Len(table1) \in Len(bindings) .. Len(bindings) + 1
      /\ \A place \in DOMAIN bindings : table1[place] = bindings[place]
      /\ \E place \in DOMAIN table1 : table1[place].instance = instance
      /\ \A here, there \in DOMAIN table1 :
           table1[here].instance = table1[there].instance => here = there
      /\ \A place \in DOMAIN table1 :
           table1[place] \in Bindings /\ (place \in DOMAIN bindings \/ table1[place] = new)
  <2>1. CASE FindUdpBindingByInstance(instance) # {}
    <3>1. table1 = bindings
      BY <2>1 DEF BindingsWith
    <3>2. PICK place \in DOMAIN bindings : bindings[place].instance = instance
      BY <2>1 DEF FindUdpBindingByInstance
    <3> QED
      BY <1>1, <3>1, <3>2 DEF TransportInv, SocketsOwned
  <2>2. CASE FindUdpBindingByInstance(instance) = {}
    <3>1. table1 = Append(bindings, new)
      BY <2>2 DEF BindingsWith, new
    <3>2. \A place \in DOMAIN bindings : bindings[place].instance # instance
      BY <2>2 DEF FindUdpBindingByInstance
    <3>3. /\ table1 \in Seq(Bindings) /\ Len(table1) = Len(bindings) + 1
          /\ DOMAIN table1 = 1 .. Len(bindings) + 1
          /\ \A place \in DOMAIN bindings : table1[place] = bindings[place]
          /\ table1[Len(bindings) + 1] = new
      BY <1>1, <1>2, <3>1
    <3> QED
      BY <1>1, <1>2, <3>2, <3>3 DEF TransportInv, SocketsOwned
  <2> QED
    BY <2>1, <2>2
<1> HIDE DEF table1
<1>4. PICK outcome \in {"no socket", "not bound", "bound"} :
        /\ outcome # "no socket" => Descriptors # DOMAIN sockets
        /\ sockets' = Connected(port1, outcome)
        /\ bindings' = [i \in DOMAIN table1 |->
                          IF table1[i].instance = instance /\ outcome = "bound"
                            THEN [instance |-> instance, port |-> port1,
                                  socket |-> FreeDescriptor, bound |-> TRUE]
                            ELSE table1[i]]
  BY DEF SetupUDP, table1, port1
<1>5. \A place \in DOMAIN bindings : bindings[place].instance = instance => ~bindings[place].bound
  BY DEF SetupUDP, FindUdpBindingByInstance
<1>6. \A place \in DOMAIN table1 : table1[place].instance = instance => ~table1[place].bound
  BY <1>2, <1>3, <1>5
<1>7. CASE outcome # "bound"
  <2>1. sockets' = sockets
    BY <1>4, <1>7 DEF Connected
  <2>2. bindings' = table1
    <3>1. bindings' = [i \in DOMAIN table1 |-> table1[i]]
      BY <1>4, <1>7
    <3>2. table1 = [i \in DOMAIN table1 |-> table1[i]]
      BY <1>3, LenProperties, Zenon
    <3> QED
      BY <3>1, <3>2
  <2>3. \A place \in DOMAIN bindings' :
          \/ place \in DOMAIN bindings /\ bindings'[place] = bindings[place]
               /\ bindings[place].instance # instance
          \/ bindings'[place].instance = instance
               /\ (place \in DOMAIN bindings => ~bindings[place].bound)
    BY <1>2, <1>3, <1>5, <2>2
  <2>4. \A place \in DOMAIN bindings : bindings'[place].instance = bindings[place].instance
    BY <1>3, <2>2
  <2> QED
    BY <1>3, <1>6, <2>1, <2>2, <2>3, <2>4
<1>8. CASE outcome = "bound"
  <2> DEFINE fresh == FreeDescriptor
             entry == [instance |-> instance, port |-> port1, socket |-> fresh, bound |-> TRUE]
  <2>1. fresh \in Descriptors \ DOMAIN sockets
    BY <1>4, <1>8 DEF FreeDescriptor, TransportInv, TransportTypeOK
  <2>2. sockets' = [descriptor \in DOMAIN sockets \cup {fresh} |->
                      IF descriptor = fresh THEN [port |-> port1, waiting |-> 0]
                                            ELSE sockets[descriptor]]
    BY <1>4, <1>8 DEF Connected, WithSocket
  <2> HIDE DEF fresh
  <2>3. bindings' = [i \in DOMAIN table1 |->
                       IF table1[i].instance = instance THEN entry ELSE table1[i]]
    BY <1>4, <1>8 DEF fresh
  <2>4. entry \in Bindings /\ entry.instance = instance
    BY <1>2, <2>1 DEF Bindings
  <2>5. \E place \in DOMAIN bindings' : bindings'[place] = entry
    BY <1>3, <2>3
  <2> HIDE DEF entry
  <2>6. /\ bindings' \in Seq(Bindings) /\ Len(bindings') = Len(table1)
        /\ DOMAIN bindings' = DOMAIN table1
    <3>1. \A i \in DOMAIN table1 :
            (IF table1[i].instance = instance THEN entry ELSE table1[i]) \in Bindings
      BY <1>3, <2>4, Zenon
    <3>2. bindings' \in [1 .. Len(table1) -> Bindings] /\ Len(table1) \in Nat
      BY <1>3, <2>3, <3>1, LenProperties, Zenon
    <3>3. PICK size : size = Len(table1)
      OBVIOUS
    <3>4. \A entries : entries \in [1 .. size -> Bindings] =>
            /\ entries \in Seq(Bindings) /\ Len(entries) = size
            /\ DOMAIN entries = 1 .. size
      BY <3>2, <3>3, EntriesInRow
    <3> HIDE DEF table1
    <3> QED
      BY <1>3, <3>2, <3>3, <3>4, Zenon
  <2>7. DOMAIN sockets' = DOMAIN sockets \cup {fresh}
    BY <2>2
  <2>8. \E place \in DOMAIN bindings' :
          bindings'[place] = [instance |-> instance, port |-> port1, socket |-> fresh, bound |-> TRUE]
    BY <2>5 DEF entry
  <2>9. /\ \A place \in DOMAIN table1 : bindings'[place].instance = table1[place].instance
        /\ \A place \in DOMAIN table1 :
             table1[place].instance # instance => bindings'[place] = table1[place]
    BY <2>3, <2>4
  <2>10. \A place \in DOMAIN bindings : place \in DOMAIN table1
    <3>1. Len(bindings) \in Nat /\ Len(table1) \in Len(bindings) .. Len(bindings) + 1
      BY <1>1, <1>3, Zenon
    <3> QED
      BY <1>1, <1>3, <3>1, FirstPlacesStay, Zenon
  <2>11. \A place \in DOMAIN bindings : bindings'[place].instance = bindings[place].instance
    BY <1>3, <2>9, <2>10
  <2>12. bindings' # <<>> /\ Len(bindings') \in Len(bindings) .. Len(bindings) + 1
    <3>1. bindings' # <<>>
      BY <1>3, <2>6, EmptySeq, LenProperties
    <3> QED
      BY <1>3, <2>6, <3>1, Zenon
  <2>13. /\ \A place \in DOMAIN bindings' :
              \/ place \in DOMAIN bindings /\ bindings'[place] = bindings[place]
                   /\ bindings[place].instance # instance
              \/ bindings'[place].instance = instance
                   /\ (place \in DOMAIN bindings => ~bindings[place].bound)
         /\ \A here, there \in DOMAIN bindings' :
              bindings'[here].instance = bindings'[there].instance => here = there
    BY <1>2, <1>3, <1>5, <2>6, <2>9
  <2>14. OpensSocket(instance)
    BY <2>1, <2>2, <2>7, <2>8 DEF OpensSocket, port1
  <2> QED
    BY <1>3, <2>6, <2>11, <2>12, <2>13, <2>14
<1> QED
  BY <1>4, <1>7, <1>8

\* A binding that is bound stays as it is while another instance is set up, and what
\* waits in its socket with it.
LEMMA SetUpKeepsTheBound ==
  ASSUME TransportInv, NEW instance \in Instances, SetupUDP(instance)
  PROVE  /\ \A place \in DOMAIN bindings :
              place \in DOMAIN bindings' /\ bindings'[place].instance = bindings[place].instance
         /\ \A place \in DOMAIN bindings : bindings[place].bound =>
              /\ bindings'[place] = bindings[place]
              /\ bindings[place].socket \in DOMAIN sockets
              /\ bindings[place].socket \in DOMAIN sockets'
              /\ sockets'[bindings[place].socket] = sockets[bindings[place].socket]
<1>1. \A place \in DOMAIN bindings :
        place \in DOMAIN bindings' /\ bindings'[place].instance = bindings[place].instance
  BY WhatSetUpDoes, PlacesOf, FirstPlacesStay
<1>2. ASSUME NEW place \in DOMAIN bindings, bindings[place].bound
      PROVE  bindings'[place] = bindings[place] /\ bindings[place].socket \in DOMAIN sockets
  BY <1>1, <1>2, WhatSetUpDoes DEF TransportInv, SocketsOwned
<1>3. ASSUME NEW descriptor \in DOMAIN sockets
      PROVE  descriptor \in DOMAIN sockets' /\ sockets'[descriptor] = sockets[descriptor]
  <2>1. CASE sockets' = sockets
    BY <2>1
  <2>2. CASE OpensSocket(instance)
    <3>1. PICK fresh \in Descriptors \ DOMAIN sockets :
            /\ DOMAIN sockets' = DOMAIN sockets \cup {fresh}
            /\ sockets' = [descriptor1 \in DOMAIN sockets' |->
                             IF descriptor1 = fresh
                               THEN [port |-> PORT_OF[instance], waiting |-> 0]
                               ELSE sockets[descriptor1]]
      BY <2>2, Zenon DEF OpensSocket
    <3>2. descriptor \in DOMAIN sockets' /\ descriptor # fresh
      BY <1>3, <3>1
    <3>3. sockets'[descriptor] = (IF descriptor = fresh
                                    THEN [port |-> PORT_OF[instance], waiting |-> 0]
                                    ELSE sockets[descriptor])
      BY <3>1, <3>2, Zenon
    <3> QED
      BY <3>2, <3>3
  <2> QED
    BY <2>1, <2>2, WhatSetUpDoes
<1> QED
  BY <1>1, <1>2, <1>3

\* SetupUDP leaves every bound instance a socket of its own, whatever failed
\* (CASExampleHelper.cpp:1989, SimpleUDP.cpp:116).
LEMMA SetUpOwnsSockets ==
  ASSUME TransportInv, NEW instance \in Instances, SetupUDP(instance)
  PROVE  SocketsOwned' /\ DOMAIN sockets' \subseteq Descriptors
           /\ sockets' \in [DOMAIN sockets' -> [port : Nat, waiting : Nat]]
<1> USE DEF TransportInv
<1>0. /\ DOMAIN sockets \subseteq Descriptors
      /\ sockets \in [DOMAIN sockets -> [port : Nat, waiting : Nat]]
  BY DEF TransportTypeOK
<1>1. \A descriptor \in DOMAIN sockets :
        \E place \in DOMAIN bindings : bindings[place].bound /\ bindings[place].socket = descriptor
  BY DEF SocketsOwned, BoundSockets
<1>2. CASE /\ sockets' = sockets
           /\ \A place \in DOMAIN bindings' :
                bindings'[place].instance = instance => ~bindings'[place].bound
  <2>1. \A place \in DOMAIN bindings' : bindings'[place].bound =>
          place \in DOMAIN bindings /\ bindings'[place] = bindings[place]
    BY <1>2, WhatSetUpDoes
  <2>2. \A here \in DOMAIN bindings' : bindings'[here].bound =>
          /\ bindings'[here].socket \in DOMAIN sockets'
          /\ sockets'[bindings'[here].socket].port = bindings'[here].port
          /\ \A there \in DOMAIN bindings' :
               bindings'[there].bound /\ bindings'[there].socket = bindings'[here].socket => here = there
    BY <1>2, <2>1 DEF SocketsOwned
  <2>3. \A descriptor \in DOMAIN sockets' :
          \E place \in DOMAIN bindings' :
            bindings'[place].bound /\ bindings'[place].socket = descriptor
    BY <1>1, <1>2, SetUpKeepsTheBound
  <2>4. DOMAIN sockets' \subseteq BoundSockets'
    BY <2>3 DEF BoundSockets
  <2> QED
    BY <1>0, <1>2, <2>2, <2>4, WhatSetUpDoes DEF SocketsOwned
<1>3. CASE OpensSocket(instance)
  <2>0. PICK fresh \in Descriptors \ DOMAIN sockets :
          /\ DOMAIN sockets' = DOMAIN sockets \cup {fresh}
          /\ sockets' = [descriptor \in DOMAIN sockets' |->
                           IF descriptor = fresh THEN [port |-> PORT_OF[instance], waiting |-> 0]
                                                 ELSE sockets[descriptor]]
          /\ \E place \in DOMAIN bindings' :
               bindings'[place] = [instance |-> instance, port |-> PORT_OF[instance],
                                   socket |-> fresh, bound |-> TRUE]
    BY <1>3, Zenon DEF OpensSocket
  <2>1. PICK mine \in DOMAIN bindings' :
          bindings'[mine] = [instance |-> instance, port |-> PORT_OF[instance],
                             socket |-> fresh, bound |-> TRUE]
    BY <2>0
  <2>2. /\ bindings'[mine].bound /\ bindings'[mine].socket = fresh
        /\ bindings'[mine].instance = instance /\ bindings'[mine].port = PORT_OF[instance]
    BY <2>1
  <2>3. PORT_OF[instance] \in Nat
    <3>1. PORT_OF \in [1 .. Len(PORT_OF) -> Nat] /\ DOMAIN PORT_OF = 1 .. Len(PORT_OF)
      BY TransportAssumption, LenProperties
    <3> QED
      BY <3>1 DEF Instances
  <2>4. /\ sockets'[fresh].port = PORT_OF[instance]
        /\ \A descriptor \in DOMAIN sockets : sockets'[descriptor] = sockets[descriptor]
    BY <2>0
  <2>5. \A place \in DOMAIN bindings' : bindings'[place].bound =>
          \/ place = mine
          \/ place \in DOMAIN bindings /\ bindings'[place] = bindings[place]
               /\ bindings[place].socket \in DOMAIN sockets
    <3>1. \A place \in DOMAIN bindings' : bindings'[place].bound =>
            \/ place = mine
            \/ place \in DOMAIN bindings /\ bindings'[place] = bindings[place]
      BY <2>2, WhatSetUpDoes
    <3> QED
      BY <3>1 DEF SocketsOwned
  <2>6. \A here \in DOMAIN bindings' : bindings'[here].bound =>
          /\ bindings'[here].socket \in DOMAIN sockets'
          /\ sockets'[bindings'[here].socket].port = bindings'[here].port
    BY <2>0, <2>2, <2>4, <2>5 DEF SocketsOwned
  <2>7. \A here, there \in DOMAIN bindings' :
          bindings'[here].bound /\ bindings'[there].bound
            /\ bindings'[there].socket = bindings'[here].socket => here = there
    BY <2>0, <2>2, <2>5 DEF SocketsOwned
  <2>8. \A descriptor \in DOMAIN sockets' :
          \E place \in DOMAIN bindings' :
            bindings'[place].bound /\ bindings'[place].socket = descriptor
    BY <1>1, <2>0, <2>2, SetUpKeepsTheBound
  <2>9. DOMAIN sockets' \subseteq BoundSockets'
    BY <2>8 DEF BoundSockets
  <2>10. sockets' \in [DOMAIN sockets' -> [port : Nat, waiting : Nat]]
    BY <1>0, <2>0, <2>3
  <2>11. DOMAIN sockets' \subseteq Descriptors
    BY <1>0, <2>0
  <2> QED
    BY <2>6, <2>7, <2>9, <2>10, <2>11, WhatSetUpDoes DEF SocketsOwned
<1> QED
  BY <1>2, <1>3, WhatSetUpDoes

\* A binding more keeps the order of the others' turns (CASExampleHelper.cpp:1996).
LEMMA AppendKeepsTurns ==
  ASSUME NEW next \in Nat, NEW size \in Nat, next < size,
         NEW size1 \in size .. size + 1,
         NEW here \in 1 .. size, NEW there \in 1 .. size,
         (IF here - 1 >= next THEN here - 1 - next ELSE here - 1 - next + size)
           < (IF there - 1 >= next THEN there - 1 - next ELSE there - 1 - next + size)
  PROVE  /\ (IF here - 1 >= next THEN here - 1 - next ELSE here - 1 - next + size1)
              < (IF there - 1 >= next THEN there - 1 - next ELSE there - 1 - next + size1)
         /\ 0 <= (IF here - 1 >= next THEN here - 1 - next ELSE here - 1 - next + size1)
  BY SMT

LEMMA SetUpInTransport ==
  ASSUME TransportInv, NEW instance \in Instances, SetupUDP(instance)
  PROVE  TransportInv'
<1>1. TransportTypeOK'
  <2>1. /\ checking = NotReceiving /\ checking' = checking /\ overtaken' = overtaken
        /\ nextBindingToCheck' = nextBindingToCheck
    BY DEF SetupUDP
  <2>2. Len(bindings') \in Nat /\ Len(bindings') >= Len(bindings) /\ Len(bindings') > 0
    <3>1. Len(bindings') # 0
      BY WhatSetUpDoes, EmptySeq
    <3> QED
      BY <3>1, WhatSetUpDoes, PlacesOf
  <2>3. nextBindingToCheck \in Nat /\ nextBindingToCheck < Len(bindings')
    BY <2>2, PlacesOf DEF TransportInv, TransportTypeOK
  <2>4. bindings' \in Seq(Bindings) /\ bindings' # <<>>
    BY WhatSetUpDoes
  <2> QED
    BY <2>1, <2>2, <2>3, <2>4, SetUpOwnsSockets
       DEF TransportInv, TransportTypeOK, NotReceiving
<1>2. InTurn'
  <2> SUFFICES ASSUME NEW late \in Instances, NEW other \in Instances,
                      overtaken[late][other] # 0
               PROVE  /\ overtaken[late][other] = 1
                      /\ \E here, there \in DOMAIN bindings' :
                           /\ bindings'[here].instance = late /\ Waiting(bindings[here])' > 0
                           /\ bindings'[there].instance = other
                           /\ Turn(here)' < Turn(there)'
                           /\ checking' <= Turn(here)'
    <3>1. overtaken' = overtaken
      BY DEF SetupUDP
    <3> QED
      BY <3>1, ZenonT(30) DEF InTurn
  <2>1. PICK here \in DOMAIN bindings : \E there \in DOMAIN bindings :
          /\ bindings[here].instance = late /\ Waiting(bindings[here]) > 0
          /\ bindings[there].instance = other
          /\ Turn(here) < Turn(there)
    BY DEF TransportInv, InTurn
  <2>2. PICK there \in DOMAIN bindings :
          /\ bindings[there].instance = other
          /\ Turn(here) < Turn(there)
    BY <2>1
  <2>3. overtaken[late][other] = 1
    BY DEF TransportInv, InTurn
  <2>4. bindings[here].bound
    BY <2>1 DEF Waiting
  <2>5. Waiting(bindings[here])' > 0
    BY <2>1, <2>4, SetUpKeepsTheBound DEF Waiting
  <2>6. /\ here \in DOMAIN bindings' /\ bindings'[here].instance = late
        /\ there \in DOMAIN bindings' /\ bindings'[there].instance = other
    BY <2>1, <2>2, SetUpKeepsTheBound
  <2>7. Turn(here)' < Turn(there)' /\ 0 <= Turn(here)'
    <3>1. PICK size1 : size1 = Len(bindings')
      OBVIOUS
    <3>2. /\ Len(bindings) \in Nat /\ size1 \in Len(bindings) .. Len(bindings) + 1
          /\ here \in 1 .. Len(bindings) /\ there \in 1 .. Len(bindings)
          /\ nextBindingToCheck \in Nat /\ nextBindingToCheck < Len(bindings)
          /\ nextBindingToCheck' = nextBindingToCheck
      <4>1. /\ here \in 1 .. Len(bindings) /\ there \in 1 .. Len(bindings)
            /\ Len(bindings) \in Nat
        BY PlacesOf
      <4>2. bindings # <<>>
        BY <4>1, PlacesOf, SMT
      <4>3. /\ nextBindingToCheck \in Nat /\ nextBindingToCheck < Len(bindings)
            /\ nextBindingToCheck' = nextBindingToCheck
        BY <4>2 DEF TransportInv, TransportTypeOK, SetupUDP
      <4> QED
        BY <3>1, <4>1, <4>3, WhatSetUpDoes
    <3> QED
      BY <2>2, <3>1, <3>2, AppendKeepsTurns DEF Turn
  <2>8. checking' = -1
    BY DEF SetupUDP, NotReceiving
  <2>9. Turn(here)' \in Int
    <3>1. Len(bindings') \in Nat /\ nextBindingToCheck' \in Nat /\ here \in Nat
      BY <1>1, PlacesOf, WhatSetUpDoes, SMTT(30) DEF TransportTypeOK
    <3> QED
      BY <3>1 DEF Turn
  <2> QED
    BY <2>3, <2>5, <2>6, <2>7, <2>8, <2>9
<1> QED
  BY <1>1, <1>2, SetUpOwnsSockets DEF TransportInv

\* ShutdownUDP closes them all (CASExampleHelper.cpp:2021).
LEMMA ShutdownInTransport ==
  ASSUME TransportInv, ShutdownUDP
  PROVE  TransportInv'
<1>1. /\ bindings \in Seq(Bindings) /\ DOMAIN bindings = 1 .. Len(bindings)
      /\ Len(bindings) \in Nat
      /\ \A place \in DOMAIN bindings : bindings[place] \in Bindings
  BY PlacesOf DEF TransportInv, TransportTypeOK
<1>2. bindings' = [i \in DOMAIN bindings |->
                     IF bindings[i].bound THEN [bindings[i] EXCEPT !.socket = NONE, !.bound = FALSE]
                                          ELSE bindings[i]]
  BY DEF ShutdownUDP
<1>3. \A i \in DOMAIN bindings :
        /\ bindings'[i] \in Bindings /\ ~bindings'[i].bound
        /\ bindings'[i].instance = bindings[i].instance
  BY <1>1, <1>2 DEF Bindings
<1>4. /\ bindings' \in Seq(Bindings) /\ Len(bindings') = Len(bindings)
      /\ DOMAIN bindings' = DOMAIN bindings
      /\ bindings' = <<>> <=> Len(bindings) = 0
  <2>1. bindings' \in [1 .. Len(bindings) -> Bindings]
    BY <1>1, <1>2, <1>3
  <2>2. PICK size : size = Len(bindings)
    OBVIOUS
  <2>3. \A entries : entries \in [1 .. size -> Bindings] =>
          /\ entries \in Seq(Bindings) /\ Len(entries) = size
          /\ DOMAIN entries = 1 .. size
          /\ entries = <<>> <=> size = 0
    BY <1>1, <2>2, EntriesInRow
  <2> QED
    BY <1>1, <2>1, <2>2, <2>3, Zenon
<1>5. DOMAIN sockets' = {}
  BY DEF ShutdownUDP, TransportInv, SocketsOwned
<1>6. sockets' \in [DOMAIN sockets' -> [port : Nat, waiting : Nat]]
  BY <1>5 DEF ShutdownUDP
<1>7. /\ overtaken' \in [Instances -> [Instances -> Nat]]
      /\ \A instance, other \in Instances : overtaken'[instance][other] = 0
  BY DEF ShutdownUDP, NobodyOvertaken
<1>8. TransportTypeOK'
  <2>1. checking = NotReceiving /\ checking' = checking /\ nextBindingToCheck' = nextBindingToCheck
    BY DEF ShutdownUDP
  <2>2. bindings = <<>> <=> Len(bindings) = 0
    BY PlacesOf
  <2> QED
    BY <1>1, <1>4, <1>5, <1>6, <1>7, <2>1, <2>2 DEF TransportInv, TransportTypeOK, NotReceiving
<1>9. SocketsOwned'
  BY <1>3, <1>4, <1>5 DEF TransportInv, SocketsOwned
<1>10. InTurn'
  BY <1>7 DEF InTurn
<1> QED
  BY <1>8, <1>9, <1>10 DEF TransportInv

\* A step that leaves the table alone and closes no socket keeps who owns which.
LEMMA OwnersStay ==
  ASSUME TransportInv, UNCHANGED bindings, DOMAIN sockets' = DOMAIN sockets,
         \A descriptor \in DOMAIN sockets : sockets'[descriptor].port = sockets[descriptor].port
  PROVE  SocketsOwned'
  BY DEF TransportInv, SocketsOwned, BoundSockets

\* A datagram that comes in makes nobody wait less (SimpleUDP.cpp:154).
LEMMA ArrivesInTransport ==
  ASSUME TransportInv, NEW descriptor \in DOMAIN sockets, Arrives(descriptor)
  PROVE  TransportInv'
<1>1. /\ DOMAIN sockets' = DOMAIN sockets
      /\ sockets' \in [DOMAIN sockets -> [port : Nat, waiting : Nat]]
      /\ \A other \in DOMAIN sockets :
           /\ sockets'[other].port = sockets[other].port
           /\ sockets'[other].waiting >= sockets[other].waiting
           /\ sockets[other].waiting \in Nat /\ sockets'[other].waiting \in Nat
  BY DEF Arrives, TransportInv, TransportTypeOK
<1>2. UNCHANGED <<bindings, nextBindingToCheck, checking, overtaken>>
  BY DEF Arrives
<1>3. TransportTypeOK'
  BY <1>1, <1>2 DEF TransportInv, TransportTypeOK
<1>4. SocketsOwned'
  BY <1>1, <1>2, OwnersStay
<1>5. \A place \in DOMAIN bindings : Waiting(bindings[place]) > 0 => Waiting(bindings[place])' > 0
  <2> SUFFICES ASSUME NEW place \in DOMAIN bindings, bindings[place].bound
               PROVE  sockets'[bindings[place].socket].waiting >= sockets[bindings[place].socket].waiting
                        /\ sockets[bindings[place].socket].waiting \in Nat
                        /\ sockets'[bindings[place].socket].waiting \in Nat
    BY <1>2 DEF Waiting
  <2> QED
    BY <1>1 DEF TransportInv, SocketsOwned
<1>6. \A place \in DOMAIN bindings : Turn(place)' = Turn(place)
  BY <1>2 DEF Turn
<1>7. InTurn'
  <2> SUFFICES ASSUME NEW late \in Instances, NEW other \in Instances,
                      overtaken[late][other] # 0
               PROVE  /\ overtaken[late][other] = 1
                      /\ \E here, there \in DOMAIN bindings :
                           /\ bindings[here].instance = late /\ Waiting(bindings[here])' > 0
                           /\ bindings[there].instance = other
                           /\ Turn(here)' < Turn(there)'
                           /\ checking <= Turn(here)'
    BY <1>2, Zenon DEF InTurn
  <2> QED
    BY <1>5, <1>6 DEF TransportInv, InTurn
<1> QED
  BY <1>3, <1>4, <1>7 DEF TransportInv

\* The search starts (CASExampleHelper.cpp:112).
LEMMA StartInTransport ==
  ASSUME TransportInv, StartReceive
  PROVE  TransportInv'
<1>1. /\ UNCHANGED <<bindings, sockets, nextBindingToCheck, overtaken>>
      /\ checking = NotReceiving /\ checking' = 0 /\ bindings # <<>>
  BY DEF StartReceive
<1>2. TransportTypeOK'
  BY <1>1, PlacesOf DEF TransportInv, TransportTypeOK, NotReceiving
<1>3. SocketsOwned'
  BY <1>1, OwnersStay
<1>4. \A place \in DOMAIN bindings : Turn(place)' = Turn(place) /\ 0 <= Turn(place)
  <2>1. \A place \in DOMAIN bindings : Turn(place) \in 0 .. Len(bindings) - 1
    BY PlacesOf
  <2> QED
    BY <1>1, <2>1, PlacesOf DEF Turn
<1>5. \A place \in DOMAIN bindings : Waiting(bindings[place])' = Waiting(bindings[place])
  BY <1>1 DEF Waiting
<1>6. InTurn'
  <2> SUFFICES ASSUME NEW late \in Instances, NEW other \in Instances,
                      overtaken[late][other] # 0
               PROVE  /\ overtaken[late][other] = 1
                      /\ \E here, there \in DOMAIN bindings :
                           /\ bindings[here].instance = late /\ Waiting(bindings[here])' > 0
                           /\ bindings[there].instance = other
                           /\ Turn(here)' < Turn(there)'
                           /\ checking' <= Turn(here)'
    BY <1>1, ZenonT(30) DEF InTurn
  <2> QED
    BY <1>1, <1>4, <1>5 DEF TransportInv, InTurn
<1> QED
  BY <1>2, <1>3, <1>6 DEF TransportInv

\* Nothing for the binding whose turn it is: it was none that waits (CASExampleHelper.cpp:147).
LEMMA MovesOnInTransport ==
  ASSUME TransportInv, ReceiveMovesOn
  PROVE  TransportInv'
<1>1. /\ UNCHANGED <<bindings, sockets, nextBindingToCheck, overtaken>>
      /\ checking # NotReceiving /\ checking < Len(bindings)
      /\ Waiting(Current) = 0 /\ checking' = checking + 1
  BY DEF ReceiveMovesOn
<1>2. /\ checking \in 0 .. Len(bindings) - 1 /\ Len(bindings) \in Nat
  BY <1>1, PlacesOf DEF TransportInv, TransportTypeOK, NotReceiving
<1>3. TransportTypeOK'
  <2>1. bindings # <<>>
    BY <1>1, <1>2, PlacesOf, SMT
  <2> QED
    BY <1>1, <1>2, <2>1 DEF TransportInv, TransportTypeOK, NotReceiving
<1>4. SocketsOwned'
  BY <1>1, OwnersStay
<1>5. \A place \in DOMAIN bindings : Turn(place)' = Turn(place) /\ Turn(place) \in Nat
  <2>1. \A place \in DOMAIN bindings : Turn(place) \in 0 .. Len(bindings) - 1
    BY PlacesOf
  <2> QED
    BY <1>1, <2>1, PlacesOf DEF Turn
<1>6. \A place \in DOMAIN bindings : Waiting(bindings[place])' = Waiting(bindings[place])
  BY <1>1 DEF Waiting
<1>7. \A place \in DOMAIN bindings : Waiting(bindings[place]) > 0 => Turn(place) # checking
  <2>1. \A place \in DOMAIN bindings : Turn(place) = checking => place = Candidate + 1
    BY <1>1, CandidateInTurn, PlacesOf, Zenon
  <2> QED
    BY <1>1, <2>1 DEF Current
<1>8. InTurn'
  <2> SUFFICES ASSUME NEW late \in Instances, NEW other \in Instances,
                      overtaken[late][other] # 0
               PROVE  /\ overtaken[late][other] = 1
                      /\ \E here, there \in DOMAIN bindings :
                           /\ bindings[here].instance = late /\ Waiting(bindings[here])' > 0
                           /\ bindings[there].instance = other
                           /\ Turn(here)' < Turn(there)'
                           /\ checking' <= Turn(here)'
    BY <1>1, Zenon DEF InTurn
  <2> QED
    BY <1>1, <1>2, <1>5, <1>6, <1>7 DEF TransportInv, InTurn
<1> QED
  BY <1>3, <1>4, <1>8 DEF TransportInv

\* When the search starts anew after the binding it stopped at, those after it keep their
\* order, and those before it come after them (CASExampleHelper.cpp:150).
LEMMA TurnsShift ==
  ASSUME NEW size \in Nat \ {0}, NEW next \in 0 .. size - 1, NEW stopped \in 0 .. size - 1,
         NEW candidate, NEW next1, NEW place \in 1 .. size, NEW turn, NEW turn1,
         candidate = IF next + stopped < size THEN next + stopped ELSE next + stopped - size,
         next1 = IF candidate + 1 < size THEN candidate + 1 ELSE candidate + 1 - size,
         turn = IF place - 1 >= next THEN place - 1 - next ELSE place - 1 - next + size,
         turn1 = IF place - 1 >= next1 THEN place - 1 - next1 ELSE place - 1 - next1 + size
  PROVE  turn1 = IF turn > stopped THEN turn - stopped - 1 ELSE turn - stopped - 1 + size
  BY SMT

\* Nobody waits when the search comes to its end (CASExampleHelper.cpp:154).
LEMMA EmptyInTransport ==
  ASSUME TransportInv, ReceiveEmpty
  PROVE  TransportInv'
<1>1. /\ UNCHANGED <<bindings, sockets, overtaken>>
      /\ checking = Len(bindings) /\ checking' = NotReceiving /\ bindings # <<>>
      /\ nextBindingToCheck' = (nextBindingToCheck + 1) % Len(bindings)
  BY DEF ReceiveEmpty
<1>2. nextBindingToCheck' \in 0 .. Len(bindings) - 1 /\ Len(bindings) \in Nat
  <2>1. Len(bindings) \in Nat \ {0} /\ nextBindingToCheck \in 0 .. Len(bindings) - 1
    BY <1>1, PlacesOf DEF TransportInv, TransportTypeOK
  <2> DEFINE size == Len(bindings)
             sum == nextBindingToCheck + 1
  <2>2. size \in Nat \ {0} /\ sum \in 0 .. 2 * size - 1 /\ sum \in 1 .. size
    BY <2>1
  <2>3. nextBindingToCheck' = sum % size
    BY <1>1
  <2> HIDE DEF size, sum
  <2>4. sum % size = IF sum < size THEN sum ELSE sum - size
    BY <2>2, WrapsOnce
  <2>5. nextBindingToCheck' \in 0 .. size - 1
    BY <2>2, <2>3, <2>4
  <2> QED
    BY <2>1, <2>5 DEF size
<1>3. TransportTypeOK'
  BY <1>1, <1>2 DEF TransportInv, TransportTypeOK, NotReceiving
<1>4. SocketsOwned'
  BY <1>1, OwnersStay
<1>5. \A instance, other \in Instances : overtaken[instance][other] = 0
  <2>1. \A place \in DOMAIN bindings : ~(checking <= Turn(place))
    <3>1. \A place \in DOMAIN bindings : Turn(place) \in 0 .. Len(bindings) - 1
      BY PlacesOf
    <3> QED
      BY <1>1, <1>2, <3>1
  <2> QED
    BY <2>1 DEF TransportInv, InTurn
<1>6. InTurn'
  BY <1>1, <1>5 DEF InTurn
<1> QED
  BY <1>3, <1>4, <1>6 DEF TransportInv

\* What a datagram that is given to the stack changes.
LEMMA WhatDeliversDoes ==
  ASSUME TransportInv, ReceiveDelivers
  PROVE  /\ checking \in 0 .. Len(bindings) - 1 /\ Len(bindings) \in Nat \ {0}
         /\ Candidate + 1 \in DOMAIN bindings /\ Turn(Candidate + 1) = checking
         /\ Current.bound /\ Current.socket \in DOMAIN sockets
         /\ DOMAIN sockets' = DOMAIN sockets
         /\ sockets' \in [DOMAIN sockets -> [port : Nat, waiting : Nat]]
         /\ \A descriptor \in DOMAIN sockets :
              /\ sockets'[descriptor].port = sockets[descriptor].port
              /\ descriptor # Current.socket => sockets'[descriptor] = sockets[descriptor]
         /\ nextBindingToCheck' \in 0 .. Len(bindings) - 1
         /\ \A place \in DOMAIN bindings :
              Turn(place)' = IF Turn(place) > checking THEN Turn(place) - checking - 1
                             ELSE Turn(place) - checking - 1 + Len(bindings)
<1>1. /\ checking # NotReceiving /\ checking < Len(bindings)
      /\ Waiting(Current) > 0
      /\ sockets' = [sockets EXCEPT ![Current.socket].waiting = @ - 1]
      /\ nextBindingToCheck' = (Candidate + 1) % Len(bindings)
      /\ UNCHANGED bindings
  BY DEF ReceiveDelivers, AfterServiced
<1>2. checking \in 0 .. Len(bindings) - 1 /\ Len(bindings) \in Nat \ {0}
  BY <1>1, PlacesOf, SMT DEF TransportInv, TransportTypeOK, NotReceiving
<1>3. /\ Candidate \in 0 .. Len(bindings) - 1 /\ Candidate + 1 \in DOMAIN bindings
      /\ Turn(Candidate + 1) = checking
  BY <1>1, CandidateInTurn
<1>4. /\ Current.bound /\ Current.socket \in DOMAIN sockets
      /\ sockets[Current.socket].waiting > 0
  BY <1>1, <1>3 DEF Waiting, Current, TransportInv, SocketsOwned
<1>5. /\ DOMAIN sockets' = DOMAIN sockets
      /\ sockets' \in [DOMAIN sockets -> [port : Nat, waiting : Nat]]
      /\ \A descriptor \in DOMAIN sockets :
           /\ sockets'[descriptor].port = sockets[descriptor].port
           /\ descriptor # Current.socket => sockets'[descriptor] = sockets[descriptor]
  <2> DEFINE served == Current.socket
  <2>1. sockets' = [sockets EXCEPT ![served].waiting = sockets[served].waiting - 1]
    BY <1>1
  <2>2. served \in DOMAIN sockets /\ sockets[served].waiting > 0
    BY <1>4
  <2> HIDE DEF served
  <2>3. sockets \in [DOMAIN sockets -> [port : Nat, waiting : Nat]]
    BY DEF TransportInv, TransportTypeOK
  <2>4. sockets[served].waiting - 1 \in Nat
    BY <2>2, <2>3
  <2> QED
    BY <2>1, <2>2, <2>3, <2>4 DEF served
<1>6. /\ nextBindingToCheck' = IF Candidate + 1 < Len(bindings) THEN Candidate + 1
                               ELSE Candidate + 1 - Len(bindings)
      /\ nextBindingToCheck' \in 0 .. Len(bindings) - 1
  <2> DEFINE size == Len(bindings)
             sum == Candidate + 1
  <2>1. size \in Nat \ {0} /\ sum \in 0 .. 2 * size - 1 /\ sum \in 1 .. size
    BY <1>2, <1>3
  <2>2. nextBindingToCheck' = sum % size
    BY <1>1
  <2> HIDE DEF size, sum
  <2>3. sum % size = IF sum < size THEN sum ELSE sum - size
    BY <2>1, WrapsOnce
  <2>4. nextBindingToCheck' = IF sum < size THEN sum ELSE sum - size
    BY <2>2, <2>3
  <2>5. nextBindingToCheck' \in 0 .. size - 1
    BY <2>1, <2>4
  <2> QED
    BY <1>2, <1>3, <2>4, <2>5 DEF size, sum
<1>7. ASSUME NEW place \in DOMAIN bindings
      PROVE  Turn(place)' = IF Turn(place) > checking THEN Turn(place) - checking - 1
                            ELSE Turn(place) - checking - 1 + Len(bindings)
  <2> DEFINE size == Len(bindings)
             sum == nextBindingToCheck + checking
  <2>1. /\ size \in Nat \ {0} /\ nextBindingToCheck \in 0 .. size - 1
        /\ sum \in 0 .. 2 * size - 1 /\ place \in 1 .. size
    BY <1>2, PlacesOf DEF TransportInv, TransportTypeOK
  <2>2. Candidate = sum % size
    BY DEF Candidate
  <2>3. Turn(place)' = IF place - 1 >= nextBindingToCheck'
                         THEN place - 1 - nextBindingToCheck'
                         ELSE place - 1 - nextBindingToCheck' + size
    BY <1>1 DEF Turn
  <2>4. Turn(place) = IF place - 1 >= nextBindingToCheck THEN place - 1 - nextBindingToCheck
                      ELSE place - 1 - nextBindingToCheck + size
    BY DEF Turn
  <2> HIDE DEF sum
  <2>5. Candidate = IF sum < size THEN sum ELSE sum - size
    <3> HIDE DEF size
    <3> QED
      BY <2>1, <2>2, WrapsOnce
  <2>6. nextBindingToCheck' = IF Candidate + 1 < size THEN Candidate + 1
                              ELSE Candidate + 1 - size
    BY <1>6
  <2>7. checking \in 0 .. size - 1
    BY <1>2
  <2> HIDE DEF size
  <2>8. PICK next1, turn1, turn : next1 = nextBindingToCheck' /\ turn1 = Turn(place)'
                                    /\ turn = Turn(place)
    OBVIOUS
  <2>9. turn1 = IF turn > checking THEN turn - checking - 1 ELSE turn - checking - 1 + size
    BY <2>1, <2>3, <2>4, <2>5, <2>6, <2>7, <2>8, TurnsShift DEF sum
  <2> QED
    BY <2>8, <2>9 DEF size
<1> QED
  BY <1>2, <1>3, <1>4, <1>5, <1>6, <1>7

\* The one served comes last in the next search: whoever waits and was not served comes
\* before it (CASExampleHelper.cpp:138-150).
LEMMA DeliversInTransport ==
  ASSUME TransportInv, ReceiveDelivers
  PROVE  TransportInv'
<1>1. /\ bindings' = bindings /\ checking' = NotReceiving
      /\ overtaken' = OvertakenBy(Current.instance)
  BY DEF ReceiveDelivers
<1>2. /\ checking \in Nat /\ Len(bindings) \in Nat
      /\ Candidate + 1 \in DOMAIN bindings
      /\ Current = bindings[Candidate + 1] /\ Turn(Candidate + 1) = checking
      /\ \A place \in DOMAIN bindings :
           /\ Turn(place) \in 0 .. Len(bindings) - 1
           /\ Turn(place) = checking => place = Candidate + 1
           /\ Turn(place)' = IF Turn(place) > checking THEN Turn(place) - checking - 1
                             ELSE Turn(place) - checking - 1 + Len(bindings)
  <2>1. \A place \in DOMAIN bindings : Turn(place) = Turn(Candidate + 1) => place = Candidate + 1
    BY WhatDeliversDoes, PlacesOf, Zenon
  <2>2. \A place \in DOMAIN bindings : Turn(place) \in 0 .. Len(bindings) - 1
    BY PlacesOf
  <2>3. Turn(Candidate + 1) = checking
    BY WhatDeliversDoes
  <2>4. \A place \in DOMAIN bindings : Turn(place) = checking => place = Candidate + 1
    BY <2>1, <2>3, Zenon
  <2> QED
    BY <2>2, <2>3, <2>4, WhatDeliversDoes DEF Current
<1>3. SocketsOwned'
  BY <1>1, WhatDeliversDoes, OwnersStay
<1>4. \A place \in DOMAIN bindings :
        Waiting(bindings[place]) > 0 /\ bindings[place].instance # Current.instance
          => Waiting(bindings[place])' = Waiting(bindings[place])
  <2> SUFFICES ASSUME NEW place \in DOMAIN bindings, bindings[place].bound,
                      bindings[place].instance # Current.instance
               PROVE  sockets'[bindings[place].socket] = sockets[bindings[place].socket]
    BY <1>1 DEF Waiting
  <2>1. bindings[place].socket \in DOMAIN sockets
    BY DEF TransportInv, SocketsOwned
  <2>2. bindings[place].socket # Current.socket
    BY <1>2, WhatDeliversDoes DEF TransportInv, SocketsOwned
  <2> QED
    BY <2>1, <2>2, WhatDeliversDoes
<1> DEFINE served == Current.instance
           waits == {binding.instance : binding \in {b \in {bindings[i] : i \in DOMAIN bindings} :
                                                       Waiting(b) > 0}}
<1>5. overtaken \in [Instances -> [Instances -> Nat]]
  BY DEF TransportInv, TransportTypeOK
<1>6. overtaken' = [waiting \in Instances |-> [other \in Instances |->
                      IF waiting = served THEN 0
                      ELSE IF waiting \in waits /\ other = served THEN overtaken[waiting][other] + 1
                      ELSE overtaken[waiting][other]]]
  BY <1>1 DEF OvertakenBy
<1>7. \A place \in DOMAIN bindings : Waiting(bindings[place]) > 0 => bindings[place].instance \in waits
  OBVIOUS
<1>8. \A instance \in waits : \E here \in DOMAIN bindings :
        bindings[here].instance = instance /\ Waiting(bindings[here]) > 0
  OBVIOUS
<1> HIDE DEF served, waits
<1>9. \A late, other \in Instances :
        overtaken'[late][other] = IF late = served THEN 0
                                  ELSE IF late \in waits /\ other = served
                                    THEN overtaken[late][other] + 1
                                  ELSE overtaken[late][other]
  BY <1>6
<1>10. overtaken' \in [Instances -> [Instances -> Nat]]
  BY <1>5, <1>6
<1>11. TransportTypeOK'
  BY <1>1, <1>10, WhatDeliversDoes DEF TransportInv, TransportTypeOK, NotReceiving
<1>12. InTurn'
  <2> SUFFICES ASSUME NEW late \in Instances, NEW other \in Instances,
                      overtaken'[late][other] # 0
               PROVE  /\ overtaken'[late][other] = 1
                      /\ \E here, there \in DOMAIN bindings :
                           /\ bindings[here].instance = late /\ Waiting(bindings[here])' > 0
                           /\ bindings[there].instance = other
                           /\ Turn(here)' < Turn(there)'
                           /\ checking' <= Turn(here)'
    BY <1>1, Zenon DEF InTurn
  <2>1. late # served
    BY <1>9
  <2>2. CASE late \in waits /\ other = served
    <3>1. overtaken[late][other] = 0
      <4> SUFFICES ASSUME overtaken[late][other] # 0 PROVE FALSE
        OBVIOUS
      <4>1. PICK here \in DOMAIN bindings, there \in DOMAIN bindings :
              /\ bindings[there].instance = other
              /\ Turn(here) < Turn(there)
              /\ checking <= Turn(here)
        BY DEF TransportInv, InTurn
      <4>2. there = Candidate + 1
        BY <1>2, <2>2, <4>1 DEF TransportInv, SocketsOwned, served
      <4> QED
        BY <1>2, <4>1, <4>2
    <3>2. PICK here \in DOMAIN bindings :
            bindings[here].instance = late /\ Waiting(bindings[here]) > 0
      BY <1>8, <2>2
    <3>3. Waiting(bindings[here])' > 0
      BY <1>4, <2>1, <3>2 DEF served
    <3>4. here # Candidate + 1
      BY <1>2, <2>1, <3>2 DEF served
    <3>0. PICK last : last = Candidate + 1
      OBVIOUS
    <3>5. Turn(here)' < Turn(last)' /\ -1 <= Turn(here)'
      BY <1>2, <3>0, <3>4, SMTT(30)
    <3>6. last \in DOMAIN bindings /\ bindings[last].instance = other
      BY <1>2, <2>2, <3>0 DEF served
    <3>7. overtaken'[late][other] = 1
      BY <1>9, <2>1, <2>2, <3>1
    <3> QED
      BY <1>1, <1>2, <3>2, <3>3, <3>5, <3>6, <3>7 DEF NotReceiving
  <2>3. CASE ~(late \in waits /\ other = served)
    <3>1. overtaken'[late][other] = overtaken[late][other]
      BY <1>9, <2>1, <2>3
    <3>2. PICK here \in DOMAIN bindings, there \in DOMAIN bindings :
            /\ bindings[here].instance = late /\ Waiting(bindings[here]) > 0
            /\ bindings[there].instance = other
            /\ Turn(here) < Turn(there)
            /\ checking <= Turn(here)
      BY <3>1 DEF TransportInv, InTurn
    <3>3. Waiting(bindings[here])' > 0
      BY <1>4, <2>1, <3>2 DEF served
    <3>4. Turn(here) # checking
      BY <1>2, <2>1, <3>2 DEF served
    <3>5. Turn(here)' < Turn(there)' /\ -1 <= Turn(here)'
      BY <1>2, <3>2, <3>4, SMTT(30)
    <3>6. overtaken'[late][other] = 1
      BY <3>1 DEF TransportInv, InTurn
    <3> QED
      BY <1>1, <3>2, <3>3, <3>5, <3>6 DEF NotReceiving
  <2> QED
    BY <2>2, <2>3
<1> QED
  BY <1>3, <1>11, <1>12 DEF TransportInv

\* No broadcast address is the host's own (CASExampleHelper.cpp:426).
LEMMA BroadcastIsNobodys ==
  ASSUME NEW interfaces
  PROVE  ~IsOwn(interfaces, GetLocalBroadcastIPv4(interfaces))
  BY DEF IsOwn, GetLocalBroadcastIPv4

\* A message leaves by its instance's socket, and none that is meant for others goes to
\* that very socket (CASExampleHelper.cpp:222-258).
LEMMA SendInTransport ==
  ASSUME TransportInv, NEW interfaces, NEW instance, NEW destination, NEW broadcast,
         HelperSendMessage(interfaces, instance, destination, broadcast)
  PROVE  TransportInv' /\ TrafficOK'
<1>1. /\ UNCHANGED <<bindings, sockets, nextBindingToCheck, checking, overtaken>>
      /\ received' = {}
  BY DEF HelperSendMessage
<1>2. TransportInv'
  BY <1>1 DEF TransportInv, TransportTypeOK, SocketsOwned, BoundSockets, InTurn, Turn, Waiting
<1>3. PICK here \in FindUdpBindingByInstance(instance) :
        /\ bindings[here].bound
        /\ \E address \in Address(bindings[here], interfaces, destination, broadcast) :
             sent' = {[instance |-> instance, from |-> sockets[bindings[here].socket].port,
                       toSelf |-> IsOwn(interfaces, address.ip),
                       port |-> address.port, broadcast |-> address.broadcast]}
  BY DEF HelperSendMessage
<1>4. PICK address \in Address(bindings[here], interfaces, destination, broadcast) :
        sent' = {[instance |-> instance, from |-> sockets[bindings[here].socket].port,
                  toSelf |-> IsOwn(interfaces, address.ip),
                  port |-> address.port, broadcast |-> address.broadcast]}
  BY <1>3
<1>5. /\ here \in DOMAIN bindings /\ bindings[here].instance = instance
      /\ sockets[bindings[here].socket].port = bindings[here].port
  BY <1>3 DEF FindUdpBindingByInstance, TransportInv, SocketsOwned
<1>6. ~(address.broadcast /\ IsOwn(interfaces, address.ip) /\ address.port = bindings[here].port)
  <2>1. CASE destination = {}
    <3>1. address.ip = GetLocalBroadcastIPv4(interfaces)
      BY <1>4, <2>1 DEF Address
    <3> QED
      BY <3>1, BroadcastIsNobodys
  <2>2. CASE destination # {}
    <3>1. PICK to \in destination :
            address = [ip |-> IF broadcast /\ to.port = bindings[here].port /\ IsOwn(interfaces, to.ip)
                                THEN GetLocalBroadcastIPv4(interfaces) ELSE to.ip,
                       port |-> to.port, broadcast |-> broadcast]
      BY <1>4, <2>2 DEF Address
    <3>2. CASE broadcast /\ to.port = bindings[here].port /\ IsOwn(interfaces, to.ip)
      <4>1. address.ip = GetLocalBroadcastIPv4(interfaces)
        BY <3>1, <3>2
      <4> QED
        BY <4>1, BroadcastIsNobodys
    <3>3. CASE ~(broadcast /\ to.port = bindings[here].port /\ IsOwn(interfaces, to.ip))
      <4>1. address.ip = to.ip /\ address.port = to.port /\ address.broadcast = broadcast
        BY <3>1, <3>3
      <4> QED
        BY <3>3, <4>1
    <3> QED
      BY <3>2, <3>3
  <2> QED
    BY <2>1, <2>2
<1>7. \A message \in sent' :
        /\ message.instance = instance /\ message.from = bindings[here].port
        /\ message.toSelf = IsOwn(interfaces, address.ip)
        /\ message.port = address.port /\ message.broadcast = address.broadcast
  BY <1>4, <1>5
<1>8. ASSUME NEW message \in sent'
      PROVE  ~(message.broadcast /\ message.toSelf /\ message.port = message.from)
  BY <1>6, <1>7
<1>9. TrafficOK'
  BY <1>1, <1>3, <1>5, <1>7, <1>8 DEF TrafficOK
<1> QED
  BY <1>2, <1>9

\* A datagram is told with the instance whose socket it came in by (CASExampleHelper.cpp:171).
LEMMA DeliversForItsInstance ==
  ASSUME TransportInv, ReceiveDelivers
  PROVE  TrafficOK'
<1>1. /\ bindings' = bindings /\ sent' = {}
      /\ received' = {[instance |-> Current.instance, port |-> sockets[Current.socket].port]}
  BY DEF ReceiveDelivers
<1>2. PICK here \in DOMAIN bindings : Current = bindings[here]
  BY WhatDeliversDoes DEF Current
<1>3. bindings[here].bound /\ sockets[Current.socket].port = bindings[here].port
  BY <1>2, WhatDeliversDoes DEF TransportInv, SocketsOwned
<1> QED
  BY <1>1, <1>2, <1>3 DEF TrafficOK

\* Every step of the transport keeps its invariants.
LEMMA TransportStays ==
  ASSUME TransportInv, TrafficOK, [UdpNext]_udpVars
  PROVE  TransportInv' /\ TrafficOK'
<1> DEFINE Silent == received' = {} /\ sent' = {}
<1>1. Silent => TrafficOK'
  BY DEF TrafficOK
<1>2. CASE UNCHANGED udpVars
  <2>1. TransportInv'
    BY <1>2 DEF udpVars, TransportInv, TransportTypeOK, SocketsOwned, BoundSockets, InTurn, Turn, Waiting
  <2>2. TrafficOK'
    BY <1>2 DEF udpVars, TrafficOK
  <2> QED
    BY <2>1, <2>2
<1>3. ASSUME NEW instance \in Instances, SetupUDP(instance)
      PROVE  TransportInv' /\ TrafficOK'
  BY <1>1, <1>3, SetUpInTransport DEF SetupUDP, NothingMoved
<1>4. CASE ShutdownUDP
  BY <1>1, <1>4, ShutdownInTransport DEF ShutdownUDP, NothingMoved
<1>5. ASSUME NEW descriptor \in DOMAIN sockets, Arrives(descriptor)
      PROVE  TransportInv' /\ TrafficOK'
  BY <1>1, <1>5, ArrivesInTransport DEF Arrives, NothingMoved
<1>6. CASE StartReceive
  BY <1>1, <1>6, StartInTransport DEF StartReceive, NothingMoved
<1>7. CASE ReceiveDelivers
  BY <1>7, DeliversInTransport, DeliversForItsInstance
<1>8. CASE ReceiveMovesOn
  BY <1>1, <1>8, MovesOnInTransport DEF ReceiveMovesOn, NothingMoved
<1>9. CASE ReceiveEmpty
  BY <1>1, <1>9, EmptyInTransport DEF ReceiveEmpty, NothingMoved
<1>10. ASSUME NEW interfaces \in Interfaces, NEW instance \in Instances,
              NEW destination \in Destinations, NEW broadcast \in BOOLEAN,
              HelperSendMessage(interfaces, instance, destination, broadcast)
       PROVE  TransportInv' /\ TrafficOK'
  BY <1>10, SendInTransport
<1>11. ASSUME NEW interfaces \in Interfaces, NEW instance \in Instances,
              SendIAm(interfaces, instance)
       PROVE  TransportInv' /\ TrafficOK'
  BY <1>11, SendInTransport DEF SendIAm
<1> QED
  BY <1>2, <1>3, <1>4, <1>5, <1>6, <1>7, <1>8, <1>9, <1>10, <1>11 DEF UdpNext

LEMMA TransportStarts == UdpInit => TransportInv /\ TrafficOK
<1> SUFFICES ASSUME UdpInit PROVE TransportInv /\ TrafficOK
  OBVIOUS
<1>1. /\ bindings = <<>> /\ bindings \in Seq(Bindings) /\ Len(bindings) = 0
      /\ DOMAIN bindings = {} /\ DOMAIN sockets = {}
      /\ sockets \in [DOMAIN sockets -> [port : Nat, waiting : Nat]]
  BY EmptySeq DEF UdpInit
<1>2. overtaken = NobodyOvertaken
  BY DEF UdpInit
<1>3. TransportTypeOK
  BY <1>1, <1>2 DEF UdpInit, TransportTypeOK, NobodyOvertaken, NotReceiving
<1>4. SocketsOwned
  BY <1>1 DEF SocketsOwned
<1>5. InTurn
  BY <1>2 DEF InTurn, NobodyOvertaken
<1>6. TrafficOK
  BY DEF UdpInit, TrafficOK
<1> QED
  BY <1>3, <1>4, <1>5, <1>6 DEF TransportInv

\* One busy port cannot starve another (CASExampleHelper.h:117), however many ports there
\* are, whenever each datagram comes in and whichever instances are set up in between.
THEOREM NoPortStarves == UdpSpec => []NoBindingStarves
<1>1. UdpInit => TransportInv /\ TrafficOK
  BY TransportStarts
<1>2. TransportInv /\ TrafficOK /\ [UdpNext]_udpVars => (TransportInv /\ TrafficOK)'
  BY TransportStays
<1>3. TransportInv => NoBindingStarves
  <2> SUFFICES ASSUME TransportInv, NEW waiting \in Instances, NEW other \in Instances
               PROVE  overtaken[waiting][other] <= 1
    BY DEF NoBindingStarves
  <2>1. overtaken[waiting][other] \in Nat
    BY DEF TransportInv, TransportTypeOK
  <2>2. overtaken[waiting][other] # 0 => overtaken[waiting][other] = 1
    BY DEF TransportInv, InTurn
  <2> QED
    BY <2>1, <2>2
<1> QED
  BY <1>1, <1>2, <1>3, PTL DEF UdpSpec

\* The open sockets are as many as the bound bindings: each has its own.
LEMMA SocketsAreCounted ==
  ASSUME TransportInv
  PROVE  LET bound == {bindings[i] : i \in {j \in DOMAIN bindings : bindings[j].bound}}
         IN Cardinality(bound) = Cardinality(DOMAIN sockets)
<1> DEFINE bound == {bindings[i] : i \in {j \in DOMAIN bindings : bindings[j].bound}}
           owner == [descriptor \in DOMAIN sockets |->
                       CHOOSE binding \in bound : binding.socket = descriptor]
<1>1. \A binding \in bound : \E here \in DOMAIN bindings :
        bindings[here] = binding /\ bindings[here].bound
  OBVIOUS
<1>2. \A here \in DOMAIN bindings : bindings[here].bound => bindings[here] \in bound
  OBVIOUS
<1> HIDE DEF bound
<1>3. \A descriptor \in DOMAIN sockets : \E binding \in bound : binding.socket = descriptor
  BY <1>2 DEF TransportInv, SocketsOwned, BoundSockets
<1>4. \A binding \in bound : binding.socket \in DOMAIN sockets
  BY <1>1 DEF TransportInv, SocketsOwned
<1>5. \A one, another \in bound : one.socket = another.socket => one = another
  BY <1>1 DEF TransportInv, SocketsOwned
<1>6. \A descriptor \in DOMAIN sockets :
        owner[descriptor] \in bound /\ owner[descriptor].socket = descriptor
  BY <1>3
<1>7. \A binding \in bound : owner[binding.socket] = binding
  BY <1>4, <1>5, <1>6
<1>8. owner \in Bijection(DOMAIN sockets, bound)
  <2>1. owner \in [DOMAIN sockets -> bound]
    BY <1>6
  <2> HIDE DEF owner
  <2>2. \A a, b \in DOMAIN sockets : owner[a] = owner[b] => a = b
    BY <1>6
  <2>3. \A binding \in bound : \E descriptor \in DOMAIN sockets : owner[descriptor] = binding
    BY <1>4, <1>7
  <2> QED
    BY <2>1, <2>2, <2>3, Zenon DEF Bijection, Injection, Surjection, IsInjective
<1>9. IsFiniteSet(DOMAIN sockets)
  <2>1. IsFiniteSet(1 .. MAX_UDP_BINDINGS + 1)
    BY TransportAssumption, FS_Interval
  <2> QED
    BY <2>1, FS_Subset DEF TransportInv, TransportTypeOK, Descriptors
<1>10. Cardinality(bound) = Cardinality(DOMAIN sockets)
  BY <1>8, <1>9, FS_Bijection DEF ExistsBijection
<1> QED
  BY <1>10 DEF bound

\* The open sockets are those of the bound instances, on their ports, whatever SetupUDP
\* failed at before, and all traffic is by the instance it is told with
\* (CASExampleHelper.cpp:209, 222, 1989, SimpleUDP.cpp:116).
THEOREM PortsAreTheirInstances == UdpSpec => []PortsBelongToInstances
<1>1. UdpInit => TransportInv /\ TrafficOK
  BY TransportStarts
<1>2. TransportInv /\ TrafficOK /\ [UdpNext]_udpVars => (TransportInv /\ TrafficOK)'
  BY TransportStays
<1>3. TransportInv /\ TrafficOK => PortsBelongToInstances
  <2> SUFFICES ASSUME TransportInv, TrafficOK PROVE PortsBelongToInstances
    OBVIOUS
  <2> DEFINE bound == {bindings[i] : i \in {j \in DOMAIN bindings : bindings[j].bound}}
             isPortOf(port, instance) ==
               \E binding \in bound : binding.instance = instance /\ binding.port = port
  <2>1. \A binding \in bound : \E here \in DOMAIN bindings :
          bindings[here] = binding /\ bindings[here].bound
    OBVIOUS
  <2>2. \A here \in DOMAIN bindings : bindings[here].bound => bindings[here] \in bound
    OBVIOUS
  <2>3. Cardinality(bound) = Cardinality(DOMAIN sockets)
    BY SocketsAreCounted
  <2> HIDE DEF bound
  <2>4. DOMAIN sockets = {binding.socket : binding \in bound}
    <3>1. \A descriptor \in DOMAIN sockets : \E binding \in bound : binding.socket = descriptor
      BY <2>2 DEF TransportInv, SocketsOwned, BoundSockets
    <3>2. \A binding \in bound : binding.socket \in DOMAIN sockets
      BY <2>1 DEF TransportInv, SocketsOwned
    <3> QED
      BY <3>1, <3>2
  <2>5. \A binding \in bound : sockets[binding.socket].port = binding.port
    BY <2>1 DEF TransportInv, SocketsOwned
  <2>6. \A datagram \in received : isPortOf(datagram.port, datagram.instance)
    BY <2>2 DEF TrafficOK
  <2>7. \A message \in sent :
          /\ isPortOf(message.from, message.instance)
          /\ ~(message.broadcast /\ message.toSelf /\ message.port = message.from)
    BY <2>2 DEF TrafficOK
  <2> QED
    BY <2>3, <2>4, <2>5, <2>6, <2>7 DEF PortsBelongToInstances, bound
<1> QED
  BY <1>1, <1>2, <1>3, PTL DEF UdpSpec

----------------------------------------------------------------------------
(* The frame decoder: whatever arrives. *)

\* A fact of the summary is in the dump, an address perhaps longer there.
ShownInXml(fact, out) ==
  \/ fact \in XmlFacts(out)
  \/ /\ <<"DADR", out.dadr>> \in XmlFacts(out)
     /\ fact[1] = "DADR" /\ BeginsWith(out.dadr, fact[2])

\* What is printed by its name has it in the dump too, what is printed as a number has that.
LEMMA NameOrNumberIsThere ==
  ASSUME NEW flagged, NEW names
  PROVE  NameOrNumber(flagged, names) \subseteq NumberAndName(flagged, names)
BY DEF NameOrNumber, NumberAndName

\* The object and the property, named together or each alone (CASExampleHelper.cpp:1675, 1793).
LEMMA RequestWithinXml ==
  ASSUME NEW request
  PROVE  SummaryRequest(request) \subseteq XmlRequest(request)
<1>1. CASE SummaryUsesNames(request)
  BY <1>1 DEF SummaryRequest, XmlRequest, SummaryUsesNames, Fact
<1>2. CASE ~SummaryUsesNames(request)
  BY <1>2 DEF SummaryRequest, XmlRequest, Fact
<1> QED
  BY <1>1, <1>2

\* The summary's body is in the dump's APDU (CASExampleHelper.cpp:1616, 1774).
LEMMA BodyWithinXml ==
  ASSUME NEW out
  PROVE  SummaryBody(out) \subseteq XmlApdu(out)
<1> DEFINE shown ==
      CASE out.pduType \in {0, 2, 3, 5} ->
             Fact("service", NameOrNumber(out.serviceChoice, ConfirmedServiceName))
        [] out.pduType = 1 ->
             Fact("service", NameOrNumber(out.serviceChoice, UnconfirmedServiceName))
        [] out.pduType = 6 -> Fact("reason", NameOrNumber(out.reason, RejectReasonName))
        [] out.pduType = 7 -> Fact("reason", NameOrNumber(out.reason, AbortReasonName))
        [] OTHER -> {}
<1>1. SummaryBody(out) =
        Fact("APDU", {out.pduType} \cap 0 .. 7) \cup shown \cup SummaryProperty(out)
  BY DEF SummaryBody
<1>2. /\ Fact("APDU", {out.pduType} \cap 0 .. 7) \subseteq XmlApdu(out)
      /\ Fact("service", NumberAndName(out.serviceChoice, XmlServiceNames(out.pduType)))
           \subseteq XmlApdu(out)
      /\ Fact("reason", NumberAndName(out.reason, XmlReasonNames(out.pduType)))
           \subseteq XmlApdu(out)
      /\ XmlProperty(out) \subseteq XmlApdu(out)
  BY DEF XmlApdu
<1>3. ASSUME NEW what, NEW flagged, NEW names
      PROVE  Fact(what, NameOrNumber(flagged, names)) \subseteq Fact(what, NumberAndName(flagged, names))
  BY NameOrNumberIsThere DEF Fact
<1>4. shown \subseteq XmlApdu(out)
  <2>1. CASE out.pduType \in {0, 2, 3, 5}
    BY <1>2, <1>3, <2>1 DEF XmlServiceNames
  <2>2. CASE out.pduType = 1
    BY <1>2, <1>3, <2>2 DEF XmlServiceNames
  <2>3. CASE out.pduType = 6
    BY <1>2, <1>3, <2>3 DEF XmlReasonNames
  <2>4. CASE out.pduType = 7
    BY <1>2, <1>3, <2>4 DEF XmlReasonNames
  <2>5. CASE out.pduType \notin {0, 1, 2, 3, 5, 6, 7}
    BY <2>5
  <2> QED
    BY <2>1, <2>2, <2>3, <2>4, <2>5
<1>5. SummaryProperty(out) \subseteq XmlProperty(out)
  BY RequestWithinXml DEF SummaryProperty, XmlProperty
<1> HIDE DEF shown
<1> QED
  BY <1>1, <1>2, <1>4, <1>5

\* The end of the line may be missing from the summary (CASExampleHelper.cpp:1562, 1745).
LEMMA RouteWithinXml ==
  ASSUME NEW out, NEW room, NEW fact \in SummaryRoute(out, room), XmlRoute(out) \subseteq XmlFacts(out)
  PROVE  ShownInXml(fact, out)
<1>1. HasDest(out)
  BY DEF SummaryRoute
<1>2. CASE fact = <<"DNET", out.dnet>>
  BY <1>1, <1>2 DEF XmlRoute, Fact, ShownInXml
<1>3. CASE out.dadr # <<>> /\ fact = <<"DADR", Cut(out.dadr, room)>>
  <2>1. <<"DADR", out.dadr>> \in XmlFacts(out)
    BY <1>1, <1>3 DEF XmlRoute, Fact
  <2>2. fact[1] = "DADR" /\ fact[2] = Cut(out.dadr, room)
    BY <1>3
  <2>3. BeginsWith(out.dadr, Cut(out.dadr, room))
    BY DEF BeginsWith, Cut
  <2> QED
    BY <2>1, <2>2, <2>3 DEF ShownInXml
<1> QED
  BY <1>1, <1>2, <1>3 DEF SummaryRoute, Fact

\* The summary says nothing that the dump does not, of whatever was decoded
\* (CASExampleHelper.cpp:1295).
LEMMA SummaryWithinXml ==
  ASSUME NEW out, NEW room, NEW fact \in SummaryFacts(out, room)
  PROVE  ShownInXml(fact, out)
<1>1. CASE out.bvlcFunction = Absent
  BY <1>1 DEF SummaryFacts
<1>2. CASE out.bvlcFunction # Absent /\ out.npduVersion = Absent
  BY <1>2 DEF SummaryFacts, XmlFacts, ShownInXml
<1>3. CASE out.bvlcFunction # Absent /\ out.npduVersion # Absent
  <2>1. XmlRoute(out) \subseteq XmlFacts(out)
    BY <1>3 DEF XmlFacts
  <2>2. CASE IsNetworkMessage(out)
    <3>1. /\ Fact("networkMessage", NumberAndName(out.networkMessageType, NetworkMessageName))
               \subseteq XmlFacts(out)
          /\ SummaryFacts(out, room) =
               Fact("networkMessage", NameOrNumber(out.networkMessageType, NetworkMessageName))
                 \cup SummaryRoute(out, room)
      BY <1>3, <2>2 DEF SummaryFacts, XmlFacts
    <3>2. CASE fact \in SummaryRoute(out, room)
      BY <2>1, <3>2, RouteWithinXml
    <3>3. CASE fact \in Fact("networkMessage",
                            NameOrNumber(out.networkMessageType, NetworkMessageName))
      BY <3>1, <3>3, NameOrNumberIsThere DEF Fact, ShownInXml
    <3> QED
      BY <3>1, <3>2, <3>3
  <2>3. CASE ~IsNetworkMessage(out) /\ out.pduType = Absent
    BY <1>3, <2>3 DEF SummaryFacts
  <2>4. CASE ~IsNetworkMessage(out) /\ out.pduType # Absent
    <3>1. /\ XmlApdu(out) \subseteq XmlFacts(out)
          /\ SummaryFacts(out, room) = SummaryBody(out) \cup SummaryRoute(out, room)
      BY <1>3, <2>4 DEF SummaryFacts, XmlFacts
    <3>2. CASE fact \in SummaryRoute(out, room)
      BY <2>1, <3>2, RouteWithinXml
    <3>3. CASE fact \in SummaryBody(out)
      BY <3>1, <3>3, BodyWithinXml DEF ShownInXml
    <3> QED
      BY <3>1, <3>2, <3>3
  <2> QED
    BY <2>2, <2>3, <2>4
<1> QED
  BY <1>1, <1>2, <1>3

\* The two views never disagree (CASExampleHelper.cpp:1295), whatever octets arrive and
\* wherever the line ends.
THEOREM ViewsAgree == FrameSpec => []ViewsNeverDisagree
<1>1. ViewsNeverDisagree
  BY SummaryWithinXml DEF ViewsNeverDisagree, ShownInXml
<1> QED
  BY <1>1, PTL

\* Less of a frame arrives than was sent, and what does is as it was sent.
CutShort(cut, length, frame, wholeLength) ==
  /\ length \in Nat /\ wholeLength \in Nat /\ length <= wholeLength
  /\ \A offset \in 0 .. length - 1 : Octet(cut, offset) = Octet(frame, offset)
  /\ \A offset \in 0 .. wholeLength - 1 : Octet(frame, offset) \in OctetValues

\* Two octets that are there make the same number (CASExampleHelper.cpp:1272).
LEMMA WordAllThere ==
  ASSUME NEW cut, NEW length, NEW frame, NEW wholeLength,
         CutShort(cut, length, frame, wholeLength), NEW offset \in Nat, offset + 2 <= length
  PROVE  Word16(cut, offset) = Word16(frame, offset) /\ Word16(frame, offset) \in Nat
<1>1. /\ Octet(cut, offset) = Octet(frame, offset)
      /\ Octet(cut, offset + 1) = Octet(frame, offset + 1)
      /\ Octet(frame, offset) \in 0 .. 255 /\ Octet(frame, offset + 1) \in 0 .. 255
  BY DEF CutShort, OctetValues
<1>2. Word16(cut, offset) = Word16(frame, offset)
  BY <1>1, Zenon DEF Word16
<1>3. \A high, low \in 0 .. 255 : 256 * high + low \in Nat
  BY SMT
<1>4. Word16(frame, offset) \in Nat
  BY <1>1, <1>3, Zenon DEF Word16
<1> QED
  BY <1>2, <1>4, Zenon

\* A tag header that is all there is the same in the whole frame (CASExampleHelper.cpp:1234).
LEMMA TagHeaderAllThere ==
  ASSUME NEW cut, NEW length, NEW frame, NEW wholeLength,
         CutShort(cut, length, frame, wholeLength), NEW offset \in Nat,
         NEW header \in DecodeTagHeader(cut, length, offset)
  PROVE  /\ header \in DecodeTagHeader(frame, wholeLength, offset)
         /\ header.length \in Nat /\ header.headerLength \in Nat
<1> DEFINE first == Octet(frame, offset)
           lvt == first % 8
           extended == first \div 16 = 15
           after == offset + (IF extended THEN 2 ELSE 1)
<1>1. /\ length \in Nat /\ wholeLength \in Nat /\ length <= wholeLength
      /\ \A place \in 0 .. length - 1 :
           Octet(cut, place) = Octet(frame, place) /\ Octet(cut, place) \in 0 .. 255
  BY DEF CutShort, OctetValues
<1>2. offset < length /\ (extended => offset + 1 < length)
  <2>1. offset < length
    BY <1>1 DEF DecodeTagHeader
  <2> QED
    BY <1>1, <2>1 DEF DecodeTagHeader
<1>3. Octet(cut, offset) = first /\ first \in 0 .. 255 /\ after \in Nat /\ lvt \in 0 .. 7
  BY <1>1, <1>2
<1> DEFINE number == IF extended THEN Octet(frame, offset + 1) ELSE first \div 16
           headers(data, end) == {[tagNumber |-> number, contextSpecific |-> Bit(first, 8),
                                   length |-> data, headerLength |-> end - offset]}
<1>4. number = IF extended THEN Octet(cut, offset + 1) ELSE first \div 16
  BY <1>1, <1>2
<1>5. CASE lvt <= 4
  <2>1. DecodeTagHeader(cut, length, offset) = headers(lvt, after)
    BY <1>1, <1>2, <1>3, <1>4, <1>5 DEF DecodeTagHeader
  <2>2. DecodeTagHeader(frame, wholeLength, offset) = headers(lvt, after)
    BY <1>1, <1>2, <1>3, <1>5 DEF DecodeTagHeader
  <2> QED
    BY <1>3, <2>1, <2>2
<1>6. CASE lvt = 5
  <2>1. after < length
    BY <1>1, <1>2, <1>3, <1>6 DEF DecodeTagHeader
  <2> DEFINE size == Octet(frame, after)
  <2>2. Octet(cut, after) = size /\ size \in 0 .. 255
    BY <1>1, <1>3, <2>1
  <2>3. CASE size < 254
    <3>1. DecodeTagHeader(cut, length, offset) = headers(size, after + 1)
      BY <1>1, <1>2, <1>3, <1>4, <1>6, <2>1, <2>2, <2>3 DEF DecodeTagHeader
    <3>2. DecodeTagHeader(frame, wholeLength, offset) = headers(size, after + 1)
      BY <1>1, <1>2, <1>3, <1>6, <2>1, <2>2, <2>3 DEF DecodeTagHeader
    <3> QED
      BY <1>3, <2>2, <3>1, <3>2
  <2>4. CASE size = 254
    <3>1. after + 3 <= length
      BY <1>1, <1>2, <1>3, <1>6, <2>1, <2>2, <2>4 DEF DecodeTagHeader
    <3> DEFINE wide == Word16(frame, after + 1)
    <3>2. Word16(cut, after + 1) = wide /\ wide \in Nat
      <4>1. after + 1 \in Nat /\ after + 1 + 2 <= length
        BY <1>1, <1>3, <3>1
      <4> QED
        BY <4>1, WordAllThere
    <3>3. DecodeTagHeader(cut, length, offset) = headers(wide, after + 3)
      BY <1>1, <1>2, <1>3, <1>4, <1>6, <2>1, <2>2, <2>4, <3>1, <3>2 DEF DecodeTagHeader
    <3>4. DecodeTagHeader(frame, wholeLength, offset) = headers(wide, after + 3)
      BY <1>1, <1>2, <1>3, <1>6, <2>1, <2>2, <2>4, <3>1, SMTT(30) DEF DecodeTagHeader
    <3> QED
      BY <1>3, <3>2, <3>3, <3>4
  <2>5. CASE size = 255
    <3>1. after + 5 <= length
      BY <1>1, <1>2, <1>3, <1>6, <2>1, <2>2, <2>5 DEF DecodeTagHeader
    <3> DEFINE wide == IF Word16(frame, after + 1) # 0 THEN TOO_LONG ELSE Word16(frame, after + 3)
    <3>2. /\ Word16(cut, after + 1) = Word16(frame, after + 1)
          /\ Word16(cut, after + 3) = Word16(frame, after + 3)
          /\ wide \in Nat
      <4>1. /\ after + 1 \in Nat /\ after + 1 + 2 <= length
            /\ after + 3 \in Nat /\ after + 3 + 2 <= length
        BY <1>1, <1>3, <3>1
      <4>2. /\ Word16(cut, after + 1) = Word16(frame, after + 1)
            /\ Word16(cut, after + 3) = Word16(frame, after + 3)
            /\ Word16(frame, after + 3) \in Nat
        BY <4>1, WordAllThere
      <4> QED
        BY <4>2 DEF TOO_LONG
    <3>3. DecodeTagHeader(cut, length, offset) = headers(wide, after + 5)
      BY <1>1, <1>2, <1>3, <1>4, <1>6, <2>1, <2>2, <2>5, <3>1, <3>2, SMTT(30) DEF DecodeTagHeader
    <3>4. DecodeTagHeader(frame, wholeLength, offset) = headers(wide, after + 5)
      BY <1>1, <1>2, <1>3, <1>6, <2>1, <2>2, <2>5, <3>1, SMTT(30) DEF DecodeTagHeader
    <3> QED
      BY <1>3, <3>2, <3>3, <3>4
  <2> QED
    BY <2>2, <2>3, <2>4, <2>5
<1>7. CASE lvt > 5
  <2>1. Bit(first, 8)
    BY <1>1, <1>2, <1>3, <1>7 DEF DecodeTagHeader
  <2>2. DecodeTagHeader(cut, length, offset) = headers(0, after)
    BY <1>1, <1>2, <1>3, <1>4, <1>7, <2>1 DEF DecodeTagHeader
  <2>3. DecodeTagHeader(frame, wholeLength, offset) = headers(0, after)
    BY <1>1, <1>2, <1>3, <1>7, <2>1 DEF DecodeTagHeader
  <2> QED
    BY <1>3, <2>2, <2>3
<1> QED
  BY <1>3, <1>5, <1>6, <1>7

\* Octets that are there are the same in the whole frame.
LEMMA OctetsAllThere ==
  ASSUME NEW cut, NEW length, NEW frame, NEW wholeLength,
         CutShort(cut, length, frame, wholeLength),
         NEW offset \in Nat, NEW size \in Nat, offset + size <= length
  PROVE  Octets(cut, offset, size) = Octets(frame, offset, size)
<1>1. ASSUME NEW i \in 1 .. size
      PROVE  Octet(cut, offset + i - 1) = Octet(frame, offset + i - 1)
  BY DEF CutShort
<1> QED
  BY <1>1 DEF Octets

\* A context tag that is all there is the same in the whole frame (CASExampleHelper.cpp:1345).
LEMMA ContextTagAllThere ==
  ASSUME NEW cut, NEW length, NEW frame, NEW wholeLength,
         CutShort(cut, length, frame, wholeLength),
         NEW offset \in Nat, NEW number, NEW sizes,
         NEW part \in ContextTag(cut, length, offset, number, sizes)
  PROVE  part \in ContextTag(frame, wholeLength, offset, number, sizes) /\ part.end \in Nat
<1>1. PICK tag \in DecodeTagHeader(cut, length, offset) :
        /\ tag.contextSpecific /\ tag.tagNumber = number /\ tag.length \in sizes
        /\ offset + tag.headerLength + tag.length <= length
        /\ part = [value |-> Octets(cut, offset + tag.headerLength, tag.length),
                   end |-> offset + tag.headerLength + tag.length]
  BY DEF ContextTag
<1>2. /\ tag \in DecodeTagHeader(frame, wholeLength, offset)
      /\ tag.length \in Nat /\ tag.headerLength \in Nat
  BY TagHeaderAllThere
<1>3. /\ offset + tag.headerLength \in Nat
      /\ offset + tag.headerLength + tag.length <= wholeLength
      /\ offset + tag.headerLength + tag.length \in Nat
  BY <1>1, <1>2 DEF CutShort
<1>4. Octets(cut, offset + tag.headerLength, tag.length) =
        Octets(frame, offset + tag.headerLength, tag.length)
  BY <1>1, <1>2, <1>3, OctetsAllThere
<1>5. part \in ContextTag(frame, wholeLength, offset, number, sizes)
  BY <1>1, <1>2, <1>3, <1>4 DEF ContextTag
<1> QED
  BY <1>1, <1>3, <1>5

\* What is found of an object and a property is that of the whole frame; only the array
\* index may be missing (CASExampleHelper.cpp:1345-1390).
LEMMA PropertyAllThere ==
  ASSUME NEW cut, NEW length, NEW frame, NEW wholeLength,
         CutShort(cut, length, frame, wholeLength), NEW offset \in Nat,
         NEW found \in DecodeObjectAndProperty(cut, length, offset)
  PROVE  \E told \in DecodeObjectAndProperty(frame, wholeLength, offset) :
           /\ found.object = told.object /\ found.property = told.property
           /\ found.index \subseteq told.index
<1> DEFINE fact(octets, size, object, property) ==
             [object |-> object.value, property |-> property.value,
              index |-> {index.value : index \in ContextTag(octets, size, property.end, 2, 1 .. 4)}]
<1>1. PICK object \in ContextTag(cut, length, offset, 0, {4}) :
        \E property \in ContextTag(cut, length, object.end, 1, 1 .. 4) :
          found = fact(cut, length, object, property)
  BY DEF DecodeObjectAndProperty
<1>2. PICK property \in ContextTag(cut, length, object.end, 1, 1 .. 4) :
        found = fact(cut, length, object, property)
  BY <1>1
<1>3. object \in ContextTag(frame, wholeLength, offset, 0, {4}) /\ object.end \in Nat
  BY ContextTagAllThere
<1>4. property \in ContextTag(frame, wholeLength, object.end, 1, 1 .. 4) /\ property.end \in Nat
  BY <1>3, ContextTagAllThere
<1>5. ContextTag(cut, length, property.end, 2, 1 .. 4)
        \subseteq ContextTag(frame, wholeLength, property.end, 2, 1 .. 4)
  BY <1>4, ContextTagAllThere
<1> DEFINE told == fact(frame, wholeLength, object, property)
           ofObject(one) == {fact(frame, wholeLength, one, another) :
                               another \in ContextTag(frame, wholeLength, one.end, 1, 1 .. 4)}
<1>6. told \in DecodeObjectAndProperty(frame, wholeLength, offset)
  <2>1. DecodeObjectAndProperty(frame, wholeLength, offset) =
          UNION {ofObject(one) : one \in ContextTag(frame, wholeLength, offset, 0, {4})}
    BY DEF DecodeObjectAndProperty
  <2>2. told \in ofObject(object)
    BY <1>4
  <2> HIDE DEF told, ofObject
  <2> QED
    BY <1>3, <2>1, <2>2
<1>7. /\ found.object = told.object /\ found.property = told.property
      /\ found.index \subseteq told.index
  BY <1>2, <1>5
<1> QED
  BY <1>6, <1>7

\* Where a PDU's fields are.
LEMMA LayoutPlaces ==
  ASSUME NEW type \in 0 .. 15
  PROVE  /\ Layout[type].needs \in Nat
         /\ Layout[type].invokeId \in Nat \cup {None} /\ Layout[type].service \in Nat \cup {None}
         /\ Layout[type].reason \in Nat \cup {None}
         /\ Layout[type].service = None => type \notin {0, 3}
<1>1. CASE type \in {0, 1}
  BY <1>1 DEF Layout, None, Absent
<1>2. CASE type \in {2, 3}
  BY <1>2 DEF Layout, None, Absent
<1>3. CASE type \in {5, 6, 7}
  BY <1>3 DEF Layout, None, Absent
<1>4. CASE type \notin {0, 1, 2, 3, 5, 6, 7}
  BY <1>4 DEF Layout, None, Absent
<1> QED
  BY <1>1, <1>2, <1>3, <1>4

\* The same headers are before an APDU that was cut short: it shows fewer of its fields,
\* and none that differs (CASExampleHelper.cpp:1468-1559).
LEMMA ApduAllThere ==
  ASSUME NEW cut, NEW length, NEW frame, NEW wholeLength,
         CutShort(cut, length, frame, wholeLength), NEW out, NEW offset \in Nat, offset < length,
         DOMAIN out = DOMAIN DecodedFrame
  PROVE  LET short == Apdu(cut, length, out, offset)
             all == Apdu(frame, wholeLength, out, offset)
         IN /\ \A field \in DOMAIN DecodedFrame \ {"invokeId", "serviceChoice", "reason", "objectProperty"} :
                 short[field] = all[field]
            /\ \A field \in {"invokeId", "serviceChoice", "reason"} :
                 short[field] \in {Absent, all[field]}
            /\ \A found \in short.objectProperty : \E told \in all.objectProperty :
                 /\ found.object = told.object /\ found.property = told.property
                 /\ found.index \subseteq told.index
<1> DEFINE first == Octet(frame, offset)
           type == first \div 16
           layout == Layout[type]
           here(octets, size, place) ==
             IF place = None \/ offset + layout.needs >= size \/ offset + place >= size
               THEN Absent ELSE Octet(octets, offset + place)
           servicePlace == IF IsSegmented(type, first) THEN layout.service + 2 ELSE layout.service
           parts(octets, size) ==
             IF NamesAProperty(type, here(octets, size, servicePlace))
               THEN DecodeObjectAndProperty(octets, size, offset + servicePlace + 1) ELSE {}
           apdu(octets, size) ==
             [out EXCEPT !.pduType = type,
                         !.invokeId = here(octets, size, layout.invokeId),
                         !.serviceChoice = here(octets, size, servicePlace),
                         !.reason = here(octets, size, layout.reason),
                         !.objectProperty = parts(octets, size)]
<1>1. /\ length \in Nat /\ wholeLength \in Nat /\ length <= wholeLength
      /\ \A place \in 0 .. length - 1 :
           Octet(cut, place) = Octet(frame, place) /\ Octet(cut, place) \in 0 .. 255
  BY DEF CutShort, OctetValues
<1>2. Octet(cut, offset) = first /\ first \in 0 .. 255 /\ type \in 0 .. 15
  BY <1>1
<1>3. Apdu(frame, wholeLength, out, offset) = apdu(frame, wholeLength)
  BY Zenon DEF Apdu
<1>4. Apdu(cut, length, out, offset) = apdu(cut, length)
  BY <1>2, ZenonT(90) DEF Apdu
<1>5. /\ layout.needs \in Nat /\ layout.invokeId \in Nat \cup {None}
      /\ layout.reason \in Nat \cup {None} /\ servicePlace \in Nat \cup {None}
  BY <1>2, LayoutPlaces DEF IsSegmented, None, Absent
<1> HIDE DEF first, type, layout, servicePlace
<1>6. ASSUME NEW place \in Nat \cup {None}
      PROVE  here(cut, length, place) \in {Absent, here(frame, wholeLength, place)}
  BY <1>1, <1>5, <1>6
<1>7. ASSUME NEW found \in parts(cut, length)
      PROVE  \E told \in parts(frame, wholeLength) :
               /\ found.object = told.object /\ found.property = told.property
               /\ found.index \subseteq told.index
  <2>1. /\ NamesAProperty(type, here(cut, length, servicePlace))
        /\ found \in DecodeObjectAndProperty(cut, length, offset + servicePlace + 1)
    BY <1>7
  <2>2. here(cut, length, servicePlace) # Absent
    <3> HIDE DEF here
    <3> QED
      BY <2>1 DEF NamesAProperty, Absent
  <2>3. here(frame, wholeLength, servicePlace) = here(cut, length, servicePlace)
    BY <1>5, <1>6, <2>2
  <2>4. parts(frame, wholeLength) =
          DecodeObjectAndProperty(frame, wholeLength, offset + servicePlace + 1)
    BY <2>1, <2>3
  <2>5. offset + servicePlace + 1 \in Nat
    BY <1>5 DEF None, Absent
  <2> HIDE DEF parts
  <2> QED
    BY <2>1, <2>4, <2>5, PropertyAllThere
<1> HIDE DEF here, parts
<1>8. \A octets, size :
        /\ apdu(octets, size).invokeId = here(octets, size, layout.invokeId)
        /\ apdu(octets, size).serviceChoice = here(octets, size, servicePlace)
        /\ apdu(octets, size).reason = here(octets, size, layout.reason)
        /\ apdu(octets, size).objectProperty = parts(octets, size)
        /\ apdu(octets, size).pduType = type
        /\ \A field \in DOMAIN DecodedFrame
                          \ {"pduType", "invokeId", "serviceChoice", "reason", "objectProperty"} :
             apdu(octets, size)[field] = out[field]
  BY ZenonT(90) DEF DecodedFrame
<1> HIDE DEF apdu
<1>9. \A field \in DOMAIN DecodedFrame \ {"invokeId", "serviceChoice", "reason", "objectProperty"} :
        apdu(cut, length)[field] = apdu(frame, wholeLength)[field]
  BY <1>8
<1>10. \A field \in {"invokeId", "serviceChoice", "reason"} :
         apdu(cut, length)[field] \in {Absent, apdu(frame, wholeLength)[field]}
  <2>1. /\ here(cut, length, layout.invokeId) \in {Absent, here(frame, wholeLength, layout.invokeId)}
        /\ here(cut, length, servicePlace) \in {Absent, here(frame, wholeLength, servicePlace)}
        /\ here(cut, length, layout.reason) \in {Absent, here(frame, wholeLength, layout.reason)}
    BY <1>5, <1>6
  <2>2. apdu(cut, length).invokeId \in {Absent, apdu(frame, wholeLength).invokeId}
    BY <1>8, <2>1
  <2>3. apdu(cut, length).serviceChoice \in {Absent, apdu(frame, wholeLength).serviceChoice}
    BY <1>8, <2>1
  <2>4. apdu(cut, length).reason \in {Absent, apdu(frame, wholeLength).reason}
    BY <1>8, <2>1
  <2> QED
    BY <2>2, <2>3, <2>4
<1>11. \A found \in apdu(cut, length).objectProperty :
         \E told \in apdu(frame, wholeLength).objectProperty :
           /\ found.object = told.object /\ found.property = told.property
           /\ found.index \subseteq told.index
  BY <1>7, <1>8
<1> QED
  BY <1>3, <1>4, <1>9, <1>10, <1>11, Zenon

\* What is flagged as there: a network number and the type of a network message are not.
FlaggedFields == DOMAIN DecodedFrame \ {"dnet", "snet", "networkMessageType", "objectProperty"}

\* Layers that have written these fields only.
HasWritten(k, written) ==
  /\ DOMAIN k.out = DOMAIN DecodedFrame /\ k.offset \in Nat \cup {Absent}
  /\ \A field \in DOMAIN DecodedFrame \ written : k.out[field] = DecodedFrame[field]

\* The frame gave out: what is known is so of the whole one.
GaveOut(k, all) ==
  /\ k.offset = Absent
  /\ k.out.pduType = Absent /\ k.out.objectProperty = {}
  /\ \A field \in FlaggedFields : k.out[field] \in {DecodedFrame[field], all.out[field]}

Follows(k, all) == k = all \/ GaveOut(k, all)

\* Once it gave out, the layers that the whole frame still goes through change nothing:
\* they write what nobody has written.
LEMMA StaysGivenOut ==
  ASSUME NEW k, NEW all, NEW k1, NEW all1, GaveOut(k, all),
         k1.offset = Absent, k1.out = k.out,
         \A field \in FlaggedFields :
           all1.out[field] = all.out[field] \/ all.out[field] = DecodedFrame[field]
  PROVE  GaveOut(k1, all1)
<1>1. ASSUME NEW field \in FlaggedFields
      PROVE  k1.out[field] \in {DecodedFrame[field], all1.out[field]}
  BY DEF GaveOut
<1> QED
  BY <1>1 DEF GaveOut

\* The BVLC header (CASExampleHelper.cpp:1394).
LEMMA BvlcFollows ==
  ASSUME NEW cut, NEW length, NEW frame, NEW wholeLength, CutShort(cut, length, frame, wholeLength)
  PROVE  /\ Follows(Bvlc(cut, length), Bvlc(frame, wholeLength))
         /\ HasWritten(Bvlc(frame, wholeLength), {"bvlcFunction"})
<1> DEFINE all == Bvlc(frame, wholeLength)
           told == [DecodedFrame EXCEPT !.bvlcFunction = Octet(frame, 1)]
<1>1. all \in {OnlyKnown(DecodedFrame), Known(told, FoundAt(Octet(frame, 1)))}
  BY DEF Bvlc
<1>2. FoundAt(Octet(frame, 1)) \in Nat \cup {Absent}
  BY DEF FoundAt
<1>3. HasWritten(all, {"bvlcFunction"})
  <2>1. /\ \A field \in DOMAIN DecodedFrame \ {"bvlcFunction"} : told[field] = DecodedFrame[field]
        /\ DOMAIN told = DOMAIN DecodedFrame
    BY DEF DecodedFrame
  <2>2. /\ all.out \in {DecodedFrame, told}
        /\ all.offset \in Nat \cup {Absent}
    BY <1>1, <1>2 DEF OnlyKnown, Known
  <2> HIDE DEF told, all
  <2> QED
    BY <2>1, <2>2 DEF HasWritten
<1>4. CASE length < 4
  <2>1. Bvlc(cut, length) = OnlyKnown(DecodedFrame)
    BY <1>4 DEF Bvlc
  <2> QED
    BY <1>3, <2>1 DEF Follows, GaveOut, OnlyKnown, Known, DecodedFrame, FlaggedFields
<1>5. CASE ~(length < 4)
  <2>1. /\ Octet(cut, 0) = Octet(frame, 0) /\ Octet(cut, 1) = Octet(frame, 1)
        /\ ~(wholeLength < 4)
    BY <1>5 DEF CutShort
  <2>2. Bvlc(cut, length) = all
    BY <1>5, <2>1, Zenon DEF Bvlc
  <2> QED
    BY <1>3, <2>2 DEF Follows
<1> QED
  BY <1>4, <1>5

\* The NPDU's version and control octets (CASExampleHelper.cpp:1413).
LEMMA NpduHeaderFollows ==
  ASSUME NEW cut, NEW length, NEW frame, NEW wholeLength, CutShort(cut, length, frame, wholeLength),
         NEW k, NEW all, Follows(k, all), HasWritten(all, {"bvlcFunction"})
  PROVE  /\ Follows(NpduHeader(cut, length, k), NpduHeader(frame, wholeLength, all))
         /\ HasWritten(NpduHeader(frame, wholeLength, all),
                       {"bvlcFunction", "npduVersion", "npduControl"})
<1> DEFINE all1 == NpduHeader(frame, wholeLength, all)
           told == [all.out EXCEPT !.npduVersion = Octet(frame, all.offset),
                                   !.npduControl = Octet(frame, all.offset + 1)]
<1>1. all1 = IF all.offset = Absent \/ all.offset + 2 > wholeLength THEN OnlyKnown(all.out)
             ELSE Known(told, all.offset + 2)
  BY DEF NpduHeader
<1>2. /\ \A field \in DOMAIN DecodedFrame \ {"npduVersion", "npduControl"} :
           told[field] = all.out[field]
      /\ DOMAIN told = DOMAIN DecodedFrame
  BY DEF HasWritten, DecodedFrame
<1> HIDE DEF told
<1>3. HasWritten(all1, {"bvlcFunction", "npduVersion", "npduControl"})
  BY <1>1, <1>2 DEF HasWritten, OnlyKnown, Known
<1>4. CASE GaveOut(k, all)
  <2> DEFINE k1 == NpduHeader(cut, length, k)
  <2>1. k1.offset = Absent /\ k1.out = k.out
    BY <1>4 DEF NpduHeader, GaveOut, OnlyKnown, Known
  <2>2. \A field \in FlaggedFields :
          all1.out[field] = all.out[field] \/ all.out[field] = DecodedFrame[field]
    BY <1>1, <1>2 DEF HasWritten, OnlyKnown, Known, FlaggedFields
  <2> HIDE DEF k1, all1
  <2>3. GaveOut(k1, all1)
    BY <1>4, <2>1, <2>2, StaysGivenOut
  <2> QED
    BY <1>3, <2>3 DEF Follows, k1, all1
<1>5. CASE k = all /\ k.offset # Absent /\ k.offset + 2 <= length
  <2>1. /\ Octet(cut, k.offset) = Octet(frame, k.offset)
        /\ Octet(cut, k.offset + 1) = Octet(frame, k.offset + 1)
        /\ ~(k.offset + 2 > wholeLength) /\ ~(k.offset + 2 > length)
    BY <1>5 DEF CutShort, HasWritten
  <2>2. NpduHeader(cut, length, k) = all1
    BY <1>5, <2>1, Zenon DEF NpduHeader
  <2> QED
    BY <1>3, <2>2 DEF Follows
<1>6. CASE k = all /\ (k.offset = Absent \/ ~(k.offset + 2 <= length))
  <2>1. NpduHeader(cut, length, k) = OnlyKnown(k.out)
    <3>1. k.offset = Absent \/ k.offset + 2 > length
      BY <1>6 DEF CutShort, HasWritten
    <3> QED
      BY <3>1, Zenon DEF NpduHeader
  <2>2. GaveOut(OnlyKnown(all.out), all1)
    <3>1. /\ all.out.pduType = Absent /\ all.out.objectProperty = {}
          /\ all.out.npduVersion = Absent /\ all.out.npduControl = Absent
      BY DEF HasWritten, DecodedFrame
    <3>2. /\ OnlyKnown(all.out).offset = Absent /\ OnlyKnown(all.out).out = all.out
      BY DEF OnlyKnown, Known
    <3>3. \A field \in FlaggedFields : all.out[field] \in {DecodedFrame[field], all1.out[field]}
      BY <1>1, <1>2 DEF HasWritten, OnlyKnown, Known, FlaggedFields
    <3> QED
      BY <3>1, <3>2, <3>3 DEF GaveOut
  <2> QED
    BY <1>3, <1>6, <2>1, <2>2 DEF Follows
<1> QED
  BY <1>4, <1>5, <1>6 DEF Follows

\* A network number and an address (CASExampleHelper.cpp:1425).
LEMMA SpecifierFollows ==
  ASSUME NEW cut, NEW length, NEW frame, NEW wholeLength, CutShort(cut, length, frame, wholeLength),
         NEW k, NEW all, NEW written, NEW net \in {"dnet", "snet"}, NEW address \in {"dadr", "sadr"},
         Follows(k, all), HasWritten(all, written),
         address \notin written, "pduType" \notin written, "objectProperty" \notin written
  PROVE  /\ Follows(Specifier(cut, length, k, net, address),
                    Specifier(frame, wholeLength, all, net, address))
         /\ HasWritten(Specifier(frame, wholeLength, all, net, address), written \cup {net, address})
<1> DEFINE all1 == Specifier(frame, wholeLength, all, net, address)
           size == Octet(frame, all.offset + 2)
           numbered == [all.out EXCEPT ![net] = Word16(frame, all.offset)]
           told == [numbered EXCEPT ![address] = Octets(frame, all.offset + 3, size)]
           there == all.offset # Absent /\ all.offset + 3 <= wholeLength
<1>1. all1 = IF all.offset = Absent \/ all.offset + 3 > wholeLength THEN OnlyKnown(all.out)
             ELSE IF all.offset + 3 + size > wholeLength THEN OnlyKnown(numbered)
             ELSE Known(told, all.offset + 3 + size)
  BY DEF Specifier
<1>2. /\ \A field \in DOMAIN DecodedFrame \ {net} : numbered[field] = all.out[field]
      /\ \A field \in DOMAIN DecodedFrame \ {net, address} : told[field] = all.out[field]
      /\ DOMAIN numbered = DOMAIN DecodedFrame /\ DOMAIN told = DOMAIN DecodedFrame
  BY DEF HasWritten
<1>3. there => size \in Nat
  <2> SUFFICES ASSUME there PROVE size \in Nat
    OBVIOUS
  <2>1. all.offset + 2 \in 0 .. wholeLength - 1
    BY DEF CutShort, HasWritten
  <2> QED
    BY <2>1 DEF CutShort, OctetValues
<1> HIDE DEF numbered, told
<1>4. /\ all1.out \in {all.out, numbered, told}
      /\ all1.offset \in Nat \cup {Absent}
  BY <1>1, <1>3 DEF OnlyKnown, Known, HasWritten, CutShort
<1>5. HasWritten(all1, written \cup {net, address})
  <2> HIDE DEF all1
  <2> QED
    BY <1>2, <1>4 DEF HasWritten
<1>6. \A field \in FlaggedFields :
        all1.out[field] = all.out[field] \/ all.out[field] = DecodedFrame[field]
  <2> HIDE DEF all1
  <2> QED
    BY <1>2, <1>4 DEF HasWritten, FlaggedFields, DecodedFrame
<1>7. CASE GaveOut(k, all)
  <2> DEFINE k1 == Specifier(cut, length, k, net, address)
  <2>1. k1.offset = Absent /\ k1.out = k.out
    BY <1>7 DEF Specifier, GaveOut, OnlyKnown, Known
  <2> HIDE DEF k1, all1
  <2>2. GaveOut(k1, all1)
    BY <1>6, <1>7, <2>1, StaysGivenOut
  <2> QED
    BY <1>5, <2>2 DEF Follows, k1, all1
<1>8. CASE k = all
  <2> DEFINE k1 == Specifier(cut, length, all, net, address)
  <2>1. /\ length \in Nat /\ wholeLength \in Nat /\ length <= wholeLength
        /\ all.offset \in Nat \cup {Absent}
    BY DEF CutShort, HasWritten
  <2>2. CASE all.offset = Absent \/ all.offset + 3 > length
    <3>1. k1 = OnlyKnown(all.out)
      BY <2>2, Zenon DEF Specifier
    <3>2. GaveOut(k1, all1)
      <4>1. /\ all.out.pduType = Absent /\ all.out.objectProperty = {}
            /\ k1.offset = Absent /\ k1.out = all.out
        BY <3>1 DEF HasWritten, DecodedFrame, OnlyKnown, Known
      <4> HIDE DEF k1, all1
      <4> QED
        BY <1>6, <4>1 DEF GaveOut
    <3> QED
      BY <1>5, <1>8, <3>2 DEF Follows
  <2>3. CASE all.offset # Absent /\ ~(all.offset + 3 > length)
    <3>1. /\ all.offset \in Nat /\ all.offset + 2 \in 0 .. length - 1 /\ all.offset + 2 <= length
          /\ there /\ ~(all.offset + 3 > wholeLength)
      BY <2>1, <2>3 DEF Absent
    <3>2. /\ Octet(cut, all.offset + 2) = size
          /\ Word16(cut, all.offset) = Word16(frame, all.offset)
      BY <3>1, WordAllThere DEF CutShort
    <3>3. k1 = IF all.offset + 3 + size > length THEN OnlyKnown(numbered)
               ELSE Known([numbered EXCEPT ![address] = Octets(cut, all.offset + 3, size)],
                          all.offset + 3 + size)
      BY <2>3, <3>2, Zenon DEF Specifier, numbered
    <3>4. CASE all.offset + 3 + size > length
      <4>1. k1 = OnlyKnown(numbered)
        BY <3>3, <3>4, Zenon
      <4>2. /\ k1.offset = Absent /\ k1.out = numbered
            /\ numbered.pduType = Absent /\ numbered.objectProperty = {}
            /\ numbered[address] = DecodedFrame[address]
        BY <1>2, <4>1 DEF HasWritten, DecodedFrame, OnlyKnown, Known
      <4>3. all1.out \in {numbered, told}
        BY <1>1, <2>3, <3>1 DEF OnlyKnown, Known
      <4>4. \A field \in FlaggedFields :
              numbered[field] \in {DecodedFrame[field], all1.out[field]}
        <5> HIDE DEF all1
        <5> QED
          BY <1>2, <4>2, <4>3 DEF FlaggedFields
      <4>5. GaveOut(k1, all1)
        <5> HIDE DEF all1, k1
        <5> QED
          BY <4>2, <4>4 DEF GaveOut
      <4> QED
        BY <1>5, <1>8, <4>5 DEF Follows
    <3>5. CASE ~(all.offset + 3 + size > length)
      <4>1. size \in Nat
        BY <1>3, <3>1
      <4>2. /\ all.offset + 3 \in Nat /\ all.offset + 3 + size <= length
            /\ ~(all.offset + 3 + size > wholeLength)
        BY <2>1, <3>1, <3>5, <4>1
      <4>3. Octets(cut, all.offset + 3, size) = Octets(frame, all.offset + 3, size)
        BY <4>1, <4>2, OctetsAllThere
      <4>4. k1 = Known(told, all.offset + 3 + size)
        BY <3>3, <3>5, <4>3, Zenon DEF told
      <4>5. all1 = Known(told, all.offset + 3 + size)
        BY <1>1, <2>3, <3>1, <4>2, Zenon
      <4> QED
        BY <1>5, <1>8, <4>4, <4>5 DEF Follows
    <3> QED
      BY <3>4, <3>5
  <2> QED
    BY <2>2, <2>3
<1> QED
  BY <1>7, <1>8 DEF Follows

\* DNET and DADR, if the control octet names a destination (CASExampleHelper.cpp:1425).
LEMMA DestinationFollows ==
  ASSUME NEW cut, NEW length, NEW frame, NEW wholeLength, CutShort(cut, length, frame, wholeLength),
         NEW k, NEW all, NEW written, Follows(k, all), HasWritten(all, written),
         "dadr" \notin written, "pduType" \notin written, "objectProperty" \notin written
  PROVE  /\ Follows(Destination(cut, length, k), Destination(frame, wholeLength, all))
         /\ HasWritten(Destination(frame, wholeLength, all), written \cup {"dnet", "dadr"})
<1>1. /\ Follows(Specifier(cut, length, k, "dnet", "dadr"),
                 Specifier(frame, wholeLength, all, "dnet", "dadr"))
      /\ HasWritten(Specifier(frame, wholeLength, all, "dnet", "dadr"), written \cup {"dnet", "dadr"})
  BY SpecifierFollows
<1>2. HasWritten(all, written \cup {"dnet", "dadr"})
  BY DEF HasWritten
<1>3. CASE k = all
  BY <1>1, <1>2, <1>3 DEF Destination, Follows
<1>4. CASE GaveOut(k, all)
  <2> DEFINE k1 == Destination(cut, length, k)
             all1 == Destination(frame, wholeLength, all)
  <2>1. k1.offset = Absent /\ k1.out = k.out
    BY <1>4 DEF Destination, Specifier, GaveOut, OnlyKnown, Known
  <2>2. HasWritten(all1, written \cup {"dnet", "dadr"})
    BY <1>1, <1>2 DEF Destination
  <2>3. CASE HasDest(all.out)
    <3>1. all1 = Specifier(frame, wholeLength, all, "dnet", "dadr")
      BY <2>3 DEF Destination
    <3>2. \A field \in FlaggedFields \ {"dadr"} : all1.out[field] = all.out[field]
      BY <3>1 DEF Specifier, HasWritten, OnlyKnown, Known, FlaggedFields
    <3>3. all.out["dadr"] = DecodedFrame["dadr"]
      BY DEF HasWritten, DecodedFrame
    <3> HIDE DEF k1, all1
    <3>4. GaveOut(k1, all1)
      BY <1>4, <2>1, <3>2, <3>3, StaysGivenOut
    <3> QED
      BY <2>2, <3>4 DEF Follows, k1, all1
  <2>4. CASE ~HasDest(all.out)
    <3>1. all1 = all
      BY <2>4 DEF Destination
    <3> HIDE DEF k1, all1
    <3>2. GaveOut(k1, all1)
      BY <1>4, <2>1, <3>1, StaysGivenOut
    <3> QED
      BY <2>2, <3>2 DEF Follows, k1, all1
  <2> QED
    BY <2>3, <2>4
<1> QED
  BY <1>3, <1>4 DEF Follows

\* SNET and SADR, if it names a source (CASExampleHelper.cpp:1439).
LEMMA SourceFollows ==
  ASSUME NEW cut, NEW length, NEW frame, NEW wholeLength, CutShort(cut, length, frame, wholeLength),
         NEW k, NEW all, NEW written, Follows(k, all), HasWritten(all, written),
         "sadr" \notin written, "pduType" \notin written, "objectProperty" \notin written
  PROVE  /\ Follows(Source(cut, length, k), Source(frame, wholeLength, all))
         /\ HasWritten(Source(frame, wholeLength, all), written \cup {"snet", "sadr"})
<1>1. /\ Follows(Specifier(cut, length, k, "snet", "sadr"),
                 Specifier(frame, wholeLength, all, "snet", "sadr"))
      /\ HasWritten(Specifier(frame, wholeLength, all, "snet", "sadr"), written \cup {"snet", "sadr"})
  BY SpecifierFollows
<1>2. HasWritten(all, written \cup {"snet", "sadr"})
  BY DEF HasWritten
<1>3. CASE k = all
  BY <1>1, <1>2, <1>3 DEF Source, Follows
<1>4. CASE GaveOut(k, all)
  <2> DEFINE k1 == Source(cut, length, k)
             all1 == Source(frame, wholeLength, all)
  <2>1. k1.offset = Absent /\ k1.out = k.out
    BY <1>4 DEF Source, Specifier, GaveOut, OnlyKnown, Known
  <2>2. HasWritten(all1, written \cup {"snet", "sadr"})
    BY <1>1, <1>2 DEF Source
  <2>3. CASE HasSrc(all.out)
    <3>1. all1 = Specifier(frame, wholeLength, all, "snet", "sadr")
      BY <2>3 DEF Source
    <3>2. \A field \in FlaggedFields \ {"sadr"} : all1.out[field] = all.out[field]
      BY <3>1 DEF Specifier, HasWritten, OnlyKnown, Known, FlaggedFields
    <3>3. all.out["sadr"] = DecodedFrame["sadr"]
      BY DEF HasWritten, DecodedFrame
    <3> HIDE DEF k1, all1
    <3>4. GaveOut(k1, all1)
      BY <1>4, <2>1, <3>2, <3>3, StaysGivenOut
    <3> QED
      BY <2>2, <3>4 DEF Follows, k1, all1
  <2>4. CASE ~HasSrc(all.out)
    <3>1. all1 = all
      BY <2>4 DEF Source
    <3> HIDE DEF k1, all1
    <3>2. GaveOut(k1, all1)
      BY <1>4, <2>1, <3>1, StaysGivenOut
    <3> QED
      BY <2>2, <3>2 DEF Follows, k1, all1
  <2> QED
    BY <2>3, <2>4
<1> QED
  BY <1>3, <1>4 DEF Follows

\* The hop count, behind which something must follow (CASExampleHelper.cpp:1453).
LEMMA HopCountFollows ==
  ASSUME NEW length, NEW wholeLength, length \in Nat, wholeLength \in Nat, length <= wholeLength,
         NEW k, NEW all, NEW written, Follows(k, all), HasWritten(all, written),
         "pduType" \notin written, "objectProperty" \notin written
  PROVE  /\ Follows(HopCount(length, k), HopCount(wholeLength, all))
         /\ HasWritten(HopCount(wholeLength, all), written)
         /\ HopCount(length, k).offset # Absent => HopCount(length, k).offset < length
<1> DEFINE k1 == HopCount(length, k)
           all1 == HopCount(wholeLength, all)
           after == IF HasDest(all.out) THEN all.offset + 1 ELSE all.offset
<1>1. all1 = IF all.offset = Absent \/ after >= wholeLength THEN OnlyKnown(all.out)
             ELSE Known(all.out, after)
  BY DEF HopCount
<1>2. all1.out = all.out /\ HasWritten(all1, written)
  BY <1>1 DEF HasWritten, OnlyKnown, Known
<1>3. CASE GaveOut(k, all)
  <2>1. k1.offset = Absent /\ k1.out = k.out
    BY <1>3 DEF HopCount, GaveOut, OnlyKnown, Known
  <2> HIDE DEF k1, all1
  <2>2. GaveOut(k1, all1)
    BY <1>2, <1>3, <2>1, StaysGivenOut
  <2> QED
    BY <1>2, <2>1, <2>2 DEF Follows, k1, all1
<1>4. CASE k = all
  <2>1. k1 = IF all.offset = Absent \/ after >= length THEN OnlyKnown(all.out)
             ELSE Known(all.out, after)
    BY <1>4 DEF HopCount
  <2>2. CASE all.offset = Absent \/ after >= length
    <3>1. k1.offset = Absent /\ k1.out = all.out
      BY <2>1, <2>2 DEF OnlyKnown, Known
    <3>2. all.out.pduType = Absent /\ all.out.objectProperty = {}
      BY DEF HasWritten, DecodedFrame
    <3> HIDE DEF k1, all1
    <3>3. GaveOut(k1, all1)
      BY <1>2, <3>1, <3>2 DEF GaveOut
    <3> QED
      BY <1>2, <3>1, <3>3 DEF Follows, k1, all1
  <2>3. CASE ~(all.offset = Absent \/ after >= length)
    <3>1. all.offset \in Nat /\ after \in Nat
      BY <2>3 DEF HasWritten
    <3>2. k1 = Known(all.out, after) /\ all1 = Known(all.out, after) /\ after < length
      BY <1>1, <2>1, <2>3, <3>1
    <3>3. k1.offset = after
      BY <3>2 DEF Known
    <3> HIDE DEF k1, all1, after
    <3> QED
      BY <1>2, <3>2, <3>3 DEF Follows, k1, all1
  <2> QED
    BY <2>2, <2>3
<1> QED
  BY <1>3, <1>4 DEF Follows

\* What is decoded of a frame that was cut short was decoded of the whole one too
\* (CASExampleHelper.cpp:1393).
LEMMA DecodedAllThere ==
  ASSUME NEW cut, NEW length, NEW frame, NEW wholeLength, CutShort(cut, length, frame, wholeLength)
  PROVE  LET short == DecodeBacnetFrame(cut, length)
             all == DecodeBacnetFrame(frame, wholeLength)
         IN /\ \A field \in FlaggedFields : short[field] \in {DecodedFrame[field], all[field]}
            /\ short.pduType # Absent => short.dnet = all.dnet /\ short.snet = all.snet
            /\ \A found \in short.objectProperty : \E told \in all.objectProperty :
                 /\ found.object = told.object /\ found.property = told.property
                 /\ found.index \subseteq told.index
<1> DEFINE bvlc(octets, size) == Bvlc(octets, size)
           npdu(octets, size) == NpduHeader(octets, size, bvlc(octets, size))
           dest(octets, size) == Destination(octets, size, npdu(octets, size))
           source(octets, size) == Source(octets, size, dest(octets, size))
           k == HopCount(length, source(cut, length))
           k1 == HopCount(wholeLength, source(frame, wholeLength))
           written == {"bvlcFunction", "npduVersion", "npduControl", "dnet", "dadr", "snet", "sadr"}
           short == DecodeBacnetFrame(cut, length)
           all == DecodeBacnetFrame(frame, wholeLength)
<1>1. /\ Follows(bvlc(cut, length), bvlc(frame, wholeLength))
      /\ HasWritten(bvlc(frame, wholeLength), {"bvlcFunction"})
  BY BvlcFollows
<1> HIDE DEF bvlc
<1>2. /\ Follows(npdu(cut, length), npdu(frame, wholeLength))
      /\ HasWritten(npdu(frame, wholeLength), {"bvlcFunction", "npduVersion", "npduControl"})
  BY <1>1, NpduHeaderFollows
<1> HIDE DEF npdu
<1>3. /\ Follows(dest(cut, length), dest(frame, wholeLength))
      /\ HasWritten(dest(frame, wholeLength),
                    {"bvlcFunction", "npduVersion", "npduControl"} \cup {"dnet", "dadr"})
  BY <1>2, DestinationFollows
<1> HIDE DEF dest
<1>4. /\ Follows(source(cut, length), source(frame, wholeLength))
      /\ HasWritten(source(frame, wholeLength),
                    ({"bvlcFunction", "npduVersion", "npduControl"} \cup {"dnet", "dadr"})
                       \cup {"snet", "sadr"})
  BY <1>3, SourceFollows
<1>5. HasWritten(source(frame, wholeLength), written)
  <2>1. ({"bvlcFunction", "npduVersion", "npduControl"} \cup {"dnet", "dadr"})
           \cup {"snet", "sadr"} = written
    OBVIOUS
  <2> HIDE DEF source, written
  <2> QED
    BY <1>4, <2>1
<1> HIDE DEF source
<1>6. /\ Follows(k, k1) /\ HasWritten(k1, written)
      /\ k.offset # Absent => k.offset < length
  <2>1. length \in Nat /\ wholeLength \in Nat /\ length <= wholeLength
    BY DEF CutShort
  <2>2. "pduType" \notin written /\ "objectProperty" \notin written
    OBVIOUS
  <2> HIDE DEF written
  <2> QED
    BY <1>4, <1>5, <2>1, <2>2, HopCountFollows
<1>7. /\ short = IF k.offset = Absent THEN k.out
                 ELSE IF IsNetworkMessage(k.out)
                   THEN [k.out EXCEPT !.networkMessageType = Octet(cut, k.offset)]
                 ELSE Apdu(cut, length, k.out, k.offset)
      /\ all = IF k1.offset = Absent THEN k1.out
               ELSE IF IsNetworkMessage(k1.out)
                 THEN [k1.out EXCEPT !.networkMessageType = Octet(frame, k1.offset)]
               ELSE Apdu(frame, wholeLength, k1.out, k1.offset)
  BY DEF DecodeBacnetFrame, source, dest, npdu, bvlc
<1> HIDE DEF k, k1, short, all
<1>8. /\ DOMAIN k1.out = DOMAIN DecodedFrame /\ k1.offset \in Nat \cup {Absent}
      /\ k1.out.pduType = Absent /\ k1.out.objectProperty = {}
      /\ \A field \in {"pduType", "invokeId", "serviceChoice", "reason"} :
           k1.out[field] = DecodedFrame[field]
  BY <1>6 DEF HasWritten, DecodedFrame
<1>9. CASE GaveOut(k, k1)
  <2>1. short = k.out
    BY <1>7, <1>9 DEF GaveOut
  <2>2. \A field \in FlaggedFields \ {"pduType", "invokeId", "serviceChoice", "reason"} :
          all[field] = k1.out[field]
    BY <1>7, <1>8 DEF Apdu, FlaggedFields, DecodedFrame
  <2>3. \A field \in FlaggedFields : short[field] \in {DecodedFrame[field], all[field]}
    BY <1>8, <1>9, <2>1, <2>2 DEF GaveOut
  <2> QED
    BY <1>9, <2>1, <2>3 DEF GaveOut, short, all
<1>10. CASE k = k1 /\ k.offset = Absent
  <2>1. short = k.out /\ all = k.out
    BY <1>7, <1>10
  <2> QED
    BY <1>8, <1>10, <2>1 DEF short, all
<1>11. CASE k = k1 /\ k.offset # Absent /\ IsNetworkMessage(k.out)
  <2>1. /\ short = [k.out EXCEPT !.networkMessageType = Octet(cut, k.offset)]
        /\ all = [k.out EXCEPT !.networkMessageType = Octet(frame, k.offset)]
    BY <1>7, <1>11
  <2>2. Octet(cut, k.offset) = Octet(frame, k.offset)
    BY <1>6, <1>8, <1>11 DEF CutShort
  <2>3. short = all
    BY <2>1, <2>2
  <2>4. short.objectProperty = {}
    BY <1>8, <1>11, <2>1
  <2> QED
    BY <2>3, <2>4 DEF short, all
<1>12. CASE k = k1 /\ k.offset # Absent /\ ~IsNetworkMessage(k.out)
  <2> DEFINE apdu == Apdu(cut, length, k.out, k.offset)
             apdu1 == Apdu(frame, wholeLength, k.out, k.offset)
  <2>1. short = apdu /\ all = apdu1
    BY <1>7, <1>12
  <2>2. k.offset \in Nat /\ k.offset < length /\ DOMAIN k.out = DOMAIN DecodedFrame
    BY <1>6, <1>8, <1>12
  <2>3. /\ \A field \in DOMAIN DecodedFrame \ {"invokeId", "serviceChoice", "reason", "objectProperty"} :
             apdu[field] = apdu1[field]
        /\ \A field \in {"invokeId", "serviceChoice", "reason"} :
             apdu[field] \in {Absent, apdu1[field]}
        /\ \A found \in apdu.objectProperty : \E told \in apdu1.objectProperty :
             /\ found.object = told.object /\ found.property = told.property
             /\ found.index \subseteq told.index
    BY <2>2, ApduAllThere
  <2> HIDE DEF apdu, apdu1
  <2>4. apdu.dnet = apdu1.dnet /\ apdu.snet = apdu1.snet
    BY <2>3 DEF DecodedFrame
  <2>5. \A field \in FlaggedFields : apdu[field] \in {DecodedFrame[field], apdu1[field]}
    BY <2>3 DEF FlaggedFields, DecodedFrame
  <2> QED
    BY <2>1, <2>3, <2>4, <2>5 DEF short, all
<1> QED
  BY <1>6, <1>9, <1>10, <1>11, <1>12 DEF Follows

\* Octets that were sent, and less and less of them that arrived.
FrameInv ==
  /\ memory \in Seq(OctetValues)
  /\ whole \in Nat /\ Len(memory) = whole + 8
  /\ frameLength \in 0 .. whole

LEMMA FrameStarts == FrameInit => FrameInv
<1> SUFFICES ASSUME FrameInit PROVE FrameInv
  OBVIOUS
<1>1. PICK datagram \in Datagrams, damage \in Damages, older \in {0, 255} :
        \E place \in DOMAIN datagram :
          /\ memory = [datagram EXCEPT ![place] = damage] \o [i \in 1 .. 8 |-> older]
          /\ whole = Len(datagram)
          /\ frameLength = Len(datagram)
  BY DEF FrameInit
<1>2. PICK place \in DOMAIN datagram :
        /\ memory = [datagram EXCEPT ![place] = damage] \o [i \in 1 .. 8 |-> older]
        /\ whole = Len(datagram)
        /\ frameLength = Len(datagram)
  BY <1>1
<1> DEFINE damaged == [datagram EXCEPT ![place] = damage]
           behind == [i \in 1 .. 8 |-> older]
<1>3. datagram \in Seq(OctetValues) /\ damage \in OctetValues /\ Len(datagram) \in Nat
  BY OctetsAssumption
<1>4. place \in 1 .. Len(datagram)
  BY <1>3, LenProperties
<1>5. damaged \in Seq(OctetValues) /\ Len(damaged) = Len(datagram)
  BY <1>3, <1>4, ExceptSeq
<1>6. behind \in Seq(OctetValues) /\ Len(behind) = 8
  <2>1. behind \in [1 .. 8 -> OctetValues]
    BY DEF OctetValues
  <2> HIDE DEF behind
  <2> QED
    <3>1. \A size \in Nat : \A entries \in [1 .. size -> OctetValues] :
            entries \in Seq(OctetValues) /\ Len(entries) = size
      BY EntriesInRow, Zenon
    <3>2. PICK size \in Nat : size = 8
      OBVIOUS
    <3>3. behind \in [1 .. size -> OctetValues]
      BY <2>1, <3>2, Zenon
    <3>4. behind \in Seq(OctetValues) /\ Len(behind) = size
      BY <3>1, <3>3, Zenon
    <3> QED
      BY <3>2, <3>4, Zenon
<1> HIDE DEF damaged, behind
<1>7. PICK front, back \in Seq(OctetValues) : front = damaged /\ back = behind
  BY <1>5, <1>6
<1>8. front \o back \in Seq(OctetValues) /\ Len(front \o back) = Len(front) + Len(back)
  BY ConcatProperties
<1>9. memory = front \o back
  BY <1>2, <1>7 DEF damaged, behind
<1>10. whole = Len(datagram) /\ frameLength = Len(datagram)
  BY <1>2, Zenon
<1>11. Len(front) = Len(datagram) /\ Len(back) = 8
  BY <1>5, <1>6, <1>7, Zenon
<1>12. memory \in Seq(OctetValues) /\ Len(memory) = Len(front) + Len(back)
  BY <1>8, <1>9, Zenon
<1>13. Len(front) + Len(back) = whole + 8 /\ whole \in Nat /\ frameLength \in 0 .. whole
  <2>1. PICK size : size = Len(datagram)
    OBVIOUS
  <2> QED
    BY <1>3, <1>10, <1>11, <2>1
<1> QED
  BY <1>12, <1>13, Zenon DEF FrameInv

\* A datagram that is cut short, wherever that is and whatever lengths it claims, loses facts
\* and gains none ("never reads past frameLength", CASExampleHelper.cpp:1393).
THEOREM CutFramesOnlyForget == FrameSpec => []TruncationOnlyForgets
<1>1. FrameInit => FrameInv
  BY FrameStarts
<1>2. FrameInv /\ [FrameNext]_frameVars => FrameInv'
  <2>1. FrameInv /\ LessArrives => FrameInv'
    BY DEF FrameInv, LessArrives
  <2>2. FrameInv /\ UNCHANGED frameVars => FrameInv'
    BY DEF FrameInv, frameVars
  <2> QED
    BY <2>1, <2>2 DEF FrameNext
<1>3. FrameInv => TruncationOnlyForgets
  <2> SUFFICES ASSUME FrameInv PROVE TruncationOnlyForgets
    OBVIOUS
  <2>1. CutShort(Received(frameLength), frameLength, Received(whole), whole)
    <3>1. /\ whole \in Nat /\ frameLength \in Nat /\ frameLength <= whole
          /\ \A i \in 1 .. whole : memory[i] \in OctetValues
      BY DEF FrameInv
    <3>2. \A offset \in 0 .. whole - 1 : Octet(Received(whole), offset) = memory[offset + 1]
      BY <3>1 DEF Octet, Received
    <3>3. \A offset \in 0 .. frameLength - 1 :
            Octet(Received(frameLength), offset) = memory[offset + 1]
      BY <3>1 DEF Octet, Received
    <3> QED
      BY <3>1, <3>2, <3>3 DEF CutShort
  <2>2. /\ \A field \in FlaggedFields : Got[field] \in {DecodedFrame[field], Sent[field]}
        /\ Got.pduType # Absent => Got.dnet = Sent.dnet /\ Got.snet = Sent.snet
        /\ \A found \in Got.objectProperty : \E told \in Sent.objectProperty :
             /\ found.object = told.object /\ found.property = told.property
             /\ found.index \subseteq told.index
    BY <2>1, DecodedAllThere DEF Got, Sent
  <2> QED
    BY <2>2 DEF TruncationOnlyForgets, FlaggedFields
<1> QED
  BY <1>1, <1>2, <1>3, PTL DEF FrameSpec

----------------------------------------------------------------------------
(* Test control. *)

ControlInv ==
  /\ connected \in [Slaves -> BOOLEAN]
  /\ registers \in [Slaves -> [Tables -> RegisterValues]]
  /\ drifting \in [Slaves -> BOOLEAN]

\* A number that fits is not cut by the casts (SimulationControl.cpp:63).
LEMMA CastsKeep ==
  /\ \A number \in 0 .. MAX_BYTE : Byte(number) = number
  /\ \A number \in 0 .. MAX_WORD : Word(number) = number
  BY SMT DEF Byte, Word, REGISTER_VALUES, MAX_BYTE, MAX_WORD

LEMMA CommandInRange ==
  ASSUME NEW command \in Commands, ~OutOfRange(command)
  PROVE  /\ Byte(command.unit) = command.unit
         /\ Word(command.address) = command.address
         /\ Word(command.value) = command.value /\ command.value \in RegisterValues
<1>1. command.unit \in 0 .. MAX_BYTE /\ command.address \in 0 .. MAX_WORD /\ command.value \in 0 .. MAX_WORD
  <2>1. /\ command.unit \in Nat /\ command.address \in Nat /\ command.value \in Nat
    BY CommandsAssumption, Zenon
  <2>2. ~(command.unit > MAX_BYTE) /\ ~(command.address > MAX_WORD) /\ ~(command.value > MAX_WORD)
    BY Zenon DEF OutOfRange
  <2> QED
    <3>1. MAX_BYTE \in Nat /\ MAX_WORD \in Nat
      BY DEF MAX_BYTE, MAX_WORD
    <3> QED
      BY <2>1, <2>2, <3>1, SMT
<1>2. RegisterValues = 0 .. MAX_WORD
  BY SMT DEF RegisterValues, REGISTER_VALUES, MAX_WORD
<1> QED
  BY <1>1, <1>2, CastsKeep, Zenon

\* The three replies, by what the command did.
LEMMA CommandDoes ==
  ASSUME NEW command \in Commands, RunCommand(command)
  PROVE  \/ /\ SetsConnection(command) /\ command.unit \in Slaves
            /\ SetSlaveOnline(command.unit, command.verb = "online") /\ reply' = <<"ok">>
         \/ /\ SetsPoint(command) /\ command.unit \in Slaves /\ command.address = 0
            /\ command.value \in RegisterValues
            /\ SetPoint(command.unit, command.table, command.value) /\ reply' = <<"ok">>
         \/ reply' # <<"ok">> /\ UNCHANGED busVars
<1>1. ASSUME ~OutOfRange(command), SetsConnection(command), NEW slave \in Found(Byte(command.unit)),
             SetSlaveOnline(slave, command.verb = "online"), Reply(<<"ok">>)
      PROVE  /\ command.unit \in Slaves
             /\ SetSlaveOnline(command.unit, command.verb = "online") /\ reply' = <<"ok">>
  <2>1. slave = command.unit /\ slave \in Slaves
    BY <1>1, CommandInRange DEF Found
  <2> QED
    BY <1>1, <2>1, Zenon DEF Reply
<1>2. ASSUME ~OutOfRange(command), SetsPoint(command), NEW slave \in Point(command),
             SetPoint(slave, command.table, Word(command.value)), Reply(<<"ok">>)
      PROVE  /\ command.unit \in Slaves /\ command.address = 0
             /\ command.value \in RegisterValues
             /\ SetPoint(command.unit, command.table, command.value) /\ reply' = <<"ok">>
  <2>1. slave = command.unit /\ slave \in Slaves /\ command.address = 0
    BY <1>2, CommandInRange DEF Found, FoundPoint, Point
  <2> QED
    BY <1>2, <2>1, CommandInRange, Zenon DEF Reply
<1>3. ASSUME NEW slave, Reply(<<"value", registers[slave][command.table]>>)
      PROVE  reply' # <<"ok">>
  <2>1. Len(<<"value", registers[slave][command.table]>>) = 2 /\ Len(<<"ok">>) = 1
    OBVIOUS
  <2> QED
    BY <1>3, <2>1 DEF Reply
<1>4. Error => reply' # <<"ok">> /\ UNCHANGED busVars
  BY DEF Error, Reply
<1> QED
  BY <1>1, <1>2, <1>3, <1>4, Zenon DEF RunCommand

LEMMA ControlTypeStep ==
  ASSUME ControlInv, [ControlNext]_controlVars
  PROVE  ControlInv'
<1>1. ASSUME NEW command \in Commands, SetsConnection(command), command.unit \in Slaves,
             SetSlaveOnline(command.unit, command.verb = "online")
      PROVE  ControlInv'
  <2>1. (command.verb = "online") \in BOOLEAN
    OBVIOUS
  <2> QED
    BY <1>1, <2>1 DEF SetSlaveOnline, ControlInv
<1>2. ASSUME NEW command \in Commands, SetsPoint(command), command.unit \in Slaves,
             command.value \in RegisterValues,
             SetPoint(command.unit, command.table, command.value)
      PROVE  ControlInv'
  <2>1. Stored(command.table, command.value) \in RegisterValues
    <3>1. 1 \in RegisterValues
      BY SMT DEF RegisterValues, REGISTER_VALUES
    <3> QED
      BY <1>2, <3>1, Zenon DEF Stored
  <2>2. command.table \in Tables
    BY <1>2 DEF SetsPoint
  <2>3. registers' \in [Slaves -> [Tables -> RegisterValues]]
    BY <1>2, <2>1, <2>2 DEF SetPoint, ControlInv
  <2>4. drifting' \in [Slaves -> BOOLEAN] /\ connected' = connected
    BY <1>2 DEF SetPoint, ControlInv
  <2> QED
    BY <2>3, <2>4 DEF ControlInv
<1>3. ASSUME UNCHANGED busVars
      PROVE  ControlInv'
  BY <1>3 DEF busVars, ControlInv
<1>4. UNCHANGED controlVars => UNCHANGED busVars
  BY DEF controlVars
<1> QED
  BY <1>1, <1>2, <1>3, <1>4, CommandDoes, Zenon DEF ControlNext

\* What the reply says was done.
Told(command) ==
  /\ command.unit \in Slaves
  /\ \A slave \in Slaves \ {command.unit} :
       UNCHANGED <<connected[slave], registers[slave], drifting[slave]>>
  /\ command.verb = "set" =>
       /\ command.address = 0
       /\ registers'[command.unit][command.table] =
            IF command.table = "coil" THEN (IF command.value = 0 THEN 0 ELSE 1)
                                      ELSE command.value
  /\ command.verb # "set" =>
       connected'[command.unit] = (command.verb = "online")

LEMMA OkIsTold ==
  ASSUME ControlInv, NEW command \in Commands, RunCommand(command), reply' = <<"ok">>
  PROVE  Told(command)
<1>1. ASSUME SetsConnection(command), command.unit \in Slaves,
             SetSlaveOnline(command.unit, command.verb = "online")
      PROVE  Told(command)
  <2>1. command.verb # "set"
    BY <1>1 DEF SetsConnection
  <2>2. registers' = registers /\ drifting' = drifting
    BY <1>1 DEF SetSlaveOnline
  <2>3. /\ \A slave \in Slaves \ {command.unit} : connected'[slave] = connected[slave]
        /\ connected'[command.unit] = (command.verb = "online")
    BY <1>1 DEF SetSlaveOnline, ControlInv
  <2> QED
    BY <1>1, <2>1, <2>2, <2>3 DEF Told
<1>2. ASSUME SetsPoint(command), command.unit \in Slaves, command.address = 0,
             command.value \in RegisterValues,
             SetPoint(command.unit, command.table, command.value)
      PROVE  Told(command)
  <2>1. command.verb = "set" /\ command.table \in Tables
    BY <1>2 DEF SetsPoint
  <2>2. /\ \A slave \in Slaves \ {command.unit} : registers'[slave] = registers[slave]
        /\ registers'[command.unit][command.table] = Stored(command.table, command.value)
    BY <1>2, <2>1 DEF SetPoint, ControlInv
  <2>3. \A slave \in Slaves \ {command.unit} : drifting'[slave] = drifting[slave]
    BY <1>2 DEF SetPoint, ControlInv
  <2>4. connected' = connected
    BY <1>2 DEF SetPoint
  <2>5. Stored(command.table, command.value) =
          IF command.table = "coil" THEN (IF command.value = 0 THEN 0 ELSE 1) ELSE command.value
    BY DEF Stored
  <2> QED
    BY <1>2, <2>1, <2>2, <2>3, <2>4, <2>5 DEF Told
<1> QED
  BY <1>1, <1>2, CommandDoes, Zenon

\* A test can believe the reply: "ok" means that exactly what its digits named was done,
\* any other reply that nothing was, whatever numbers are sent
\* (SimulationControl.cpp:57-91).
THEOREM RepliesAreTrue == ControlSpec => ReplyTellsTheEffect
<1> DEFINE Believed == /\ reply' # <<"ok">> => UNCHANGED busVars
                       /\ reply' = <<"ok">> =>
                            \A command \in Commands : RunCommand(command) => Told(command)
<1>1. ControlInit => ControlInv
  BY RegistersAssumption DEF ControlInit, BusInit, ControlInv
<1>2. ControlInv /\ [ControlNext]_controlVars => ControlInv'
  BY ControlTypeStep
<1>3. ControlInv /\ ControlNext => Believed
  <2> SUFFICES ASSUME ControlInv, ControlNext PROVE Believed
    OBVIOUS
  <2>1. reply' # <<"ok">> => UNCHANGED busVars
    BY CommandDoes, Zenon DEF ControlNext
  <2>2. reply' = <<"ok">> => \A command \in Commands : RunCommand(command) => Told(command)
    BY OkIsTold, Zenon
  <2> QED
    BY <2>1, <2>2
<1>4. ControlInv /\ [ControlNext]_controlVars => [Believed]_controlVars
  BY <1>3
<1> QED
  <2>1. Believed <=>
          /\ reply' # <<"ok">> => UNCHANGED busVars
          /\ reply' = <<"ok">> =>
               \A command \in Commands : RunCommand(command) =>
                 /\ command.unit \in Slaves
                 /\ \A slave \in Slaves \ {command.unit} :
                      UNCHANGED <<connected[slave], registers[slave], drifting[slave]>>
                 /\ command.verb = "set" =>
                      /\ command.address = 0
                      /\ registers'[command.unit][command.table] =
                           IF command.table = "coil" THEN (IF command.value = 0 THEN 0 ELSE 1)
                                                     ELSE command.value
                 /\ command.verb # "set" =>
                      connected'[command.unit] = (command.verb = "online")
    BY Zenon DEF Told
  <2> HIDE DEF Believed
  <2> QED
    BY <1>1, <1>2, <1>4, <2>1, PTL DEF ControlSpec, ReplyTellsTheEffect
=============================================================================
