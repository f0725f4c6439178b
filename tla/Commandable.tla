---------------------------- MODULE Commandable ----------------------------
(***************************************************************************)
(* The commandable value behind a gatewayed output (main.cpp, struct       *)
(* Commandable): a Priority_Array over a Relinquish_Default, and the winner *)
(* the gateway resolves from it.                                           *)
(*                                                                         *)
(* A Priority_Array is a function from Slots to a value or Null: the code   *)
(* keeps the last value of a relinquished slot, and shows it to nobody.     *)
(***************************************************************************)
EXTENDS Integers

CONSTANTS
  PRIORITY_ARRAY_SIZE,  \* BACNET_PRIORITY_ARRAY_SIZE, 16 in the code
  Null                  \* a relinquished slot

ASSUME PrioritiesAssumption == PRIORITY_ARRAY_SIZE \in Nat \ {0}
ASSUME NullAssumption == Null \notin Int

Slots == 1 .. PRIORITY_ARRAY_SIZE

PriorityArrays(values) == [Slots -> values \cup {Null}]

EmptyPriorityArray == [slot \in Slots |-> Null]

----------------------------------------------------------------------------
(* Commanding and relinquishing. *)

EffectivePriority_Highest(priority) == IF priority \in Slots THEN priority ELSE 1

\* A priority outside 1..16 commands the lowest slot.
EffectivePriority(priority) ==
  IF priority \in Slots THEN priority ELSE PRIORITY_ARRAY_SIZE

CommandWrite(array, priority, value) ==
  [array EXCEPT ![EffectivePriority(priority)] = value]

Relinquish(array, priority) ==
  [array EXCEPT ![EffectivePriority(priority)] = Null]

SetSlots(array) == {slot \in Slots : array[slot] # Null}

WinningValue_LowestPriority(array, relinquishDefault) ==
  IF SetSlots(array) = {}
    THEN relinquishDefault
    ELSE array[CHOOSE slot \in SetSlots(array) :
                 \A other \in SetSlots(array) : other <= slot]

\* The value of the first slot that is set, else the Relinquish_Default.
WinningValue(array, relinquishDefault) ==
  IF SetSlots(array) = {}
    THEN relinquishDefault
    ELSE array[CHOOSE slot \in SetSlots(array) :
                 \A other \in SetSlots(array) : slot <= other]

=============================================================================
