------------------------------ MODULE MCValues ------------------------------
(***************************************************************************)
(* The pure parts of the gateway over bounded inputs: every Priority_Array  *)
(* reachable by commands and relinquishes, against the stack's resolution   *)
(* of Present_Value, and every engineering value near the edges of the      *)
(* register, against the value the slave would understand.                 *)
(***************************************************************************)
EXTENDS Commandable, RegisterMap

CONSTANTS
  Values,             \* what is commanded
  RelinquishDefault,
  Probes              \* the engineering values converted to registers

ASSUME ValuesAssumption ==
  Values \subseteq Int /\ RelinquishDefault \in Int /\ Probes \subseteq Int

VARIABLES array, probe

Priorities == 0 .. PRIORITY_ARRAY_SIZE + 1

Init ==
  /\ array = EmptyPriorityArray
  /\ probe \in [output : Outputs, value : Probes]

Command(priority, value) ==
  array' = CommandWrite(array, priority, value) /\ UNCHANGED probe

Release(priority) == array' = Relinquish(array, priority) /\ UNCHANGED probe

Next ==
  \/ \E priority \in Priorities, value \in Values : Command(priority, value)
  \/ \E priority \in Priorities : Release(priority)

Spec == Init /\ [][Next]_<<array, probe>>

----------------------------------------------------------------------------

\* External: Present_Value as the BACnet stack builds it, the first slot of the
\* Priority_Array that is not NULL, else the Relinquish_Default.
StackPresentValue(slots) ==
  LET from[slot \in 1 .. PRIORITY_ARRAY_SIZE + 1] ==
        IF slot > PRIORITY_ARRAY_SIZE THEN RelinquishDefault
        ELSE IF slots[slot] # Null THEN slots[slot]
        ELSE from[slot + 1]
  IN from[1]

\* What the gateway writes to a slave is the Present_Value clients read: the
\* two resolve the same winner from the same slots (main.cpp:197, 263).
WinnersAgree == WinningValue(array, RelinquishDefault) = StackPresentValue(array)

\* A command takes effect unless a higher priority overrides it, and one with
\* no valid priority is the weakest of all (main.cpp:259, 758).
CommandTakesEffect ==
  [][\A priority \in Priorities, value \in Values :
       Command(priority, value) =>
         LET stronger == {slot \in Slots : IF priority \in Slots
                                              THEN slot < priority
                                              ELSE slot < PRIORITY_ARRAY_SIZE}
         IN StackPresentValue(array') =
              IF \A slot \in stronger : array[slot] = Null
                THEN value
                ELSE StackPresentValue(array)]_array

\* The slave understands every accepted value to within half a register count,
\* negative ones and the ends of the range included: no accepted write wraps
\* around in the register (main.cpp:764, 777, 458).
RegisterUnderstood ==
  LET unit == RegisterUnit(probe.output)
      understood == Signed(ToRegister(probe.output, probe.value)) * unit
  IN Accepted(probe.output, probe.value) =>
       /\ understood - probe.value <= unit \div 2
       /\ probe.value - understood <= unit \div 2

EdgeValues ==
  (SETPOINT_MINIMUM - 12 .. SETPOINT_MINIMUM + 12) \cup (-106 .. 106)
    \cup (SETPOINT_MAXIMUM - 12 .. SETPOINT_MAXIMUM + 12)
=============================================================================
