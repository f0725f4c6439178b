---------------------------- MODULE RegisterMap ----------------------------
(***************************************************************************)
(* What the two sides of the seam ForeignBus.h share: the slaves, the three *)
(* points of each, the outcomes of a transaction, and how an engineering    *)
(* value travels as a 16-bit register.                                     *)
(*                                                                         *)
(* Engineering values are integers in hundredths of a unit, so that the     *)
(* rounding to the register's resolution is visible.                       *)
(***************************************************************************)
EXTENDS Integers

CONSTANT SLAVE_COUNT  \* slaves are the units 1 .. SLAVE_COUNT

ASSUME SlaveCountAssumption == SLAVE_COUNT \in Nat \ {0}

Slaves == 1 .. SLAVE_COUNT
Tables == {"input", "holding", "coil"}
Outcomes == {"Pending", "Done", "Timeout"}

\* The two outputs, and the table each is written to.
Outputs == {"setpoint", "enable"}
TableOf(output) == IF output = "setpoint" THEN "holding" ELSE "coil"

REGISTER_VALUES == 65536
RegisterValues == 0 .. REGISTER_VALUES - 1

----------------------------------------------------------------------------
(* From an engineering value to a register and back. *)

\* Hundredths per register count: tenths of a degree, or whole coils.
RegisterUnit(output) == IF output = "setpoint" THEN 10 ELSE 100

Scaled_Truncated(output, value) ==
  IF value < 0 THEN -((-value) \div RegisterUnit(output))
               ELSE value \div RegisterUnit(output)

\* (long)(value * scale + (value < 0 ? -0.5 : 0.5)): half away from zero.
Scaled(output, value) ==
  LET unit == RegisterUnit(output)
  IN IF value < 0 THEN -((unit \div 2 - value) \div unit)
                  ELSE (value + unit \div 2) \div unit

\* The (uint16_t) cast of the scaled value.
ToRegister(output, value) == Scaled(output, value) % REGISTER_VALUES

Signed_Unsigned(register) == register

\* The (int16_t) cast of a register.
Signed(register) ==
  IF register >= REGISTER_VALUES \div 2 THEN register - REGISTER_VALUES
                                        ELSE register

\* What a write stores in its point: a coil holds 0 or 1.
Stored(table, value) == IF table = "coil" /\ value # 0 THEN 1 ELSE value

----------------------------------------------------------------------------
(* The values SetPropertyReal and SetPropertyEnumerated accept. *)

SETPOINT_MINIMUM == -327680
SETPOINT_MAXIMUM == 327670

Accepted(output, value) ==
  IF output = "setpoint" THEN SETPOINT_MINIMUM <= value /\ value <= SETPOINT_MAXIMUM
                         ELSE value \in {0, 100}
=============================================================================
