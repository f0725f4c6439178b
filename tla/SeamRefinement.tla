--------------------------- MODULE SeamRefinement ---------------------------
(***************************************************************************)
(* The simulated driver and the gateway keep the two sides of the seam      *)
(* ForeignBus.h: the program implements ForeignBus when a transaction is    *)
(* seen without its age.                                                   *)
(***************************************************************************)
EXTENDS GatewaySystem

\* A transaction of SimulatedForeignBus.cpp as the seam shows it.
Shown(transaction) ==
  [unit |-> transaction.unit, table |-> transaction.table,
   isWrite |-> transaction.isWrite, value |-> transaction.value,
   outcome |-> transaction.outcome]

Seam == INSTANCE ForeignBus WITH
  Ids <- TransactionIds,
  requests <- [id \in DOMAIN transactions |-> Shown(transactions[id])],
  points <- registers

\* Each request is started under an id nobody else holds, finishes once, a read
\* with what the sensor measures in that pass, a write in the device exactly if
\* it is Done; the gateway fetches only live ids, each once, and never has two
\* writes of a point in flight (ForeignBus.h:53-76; main.cpp:400, 431;
\* SimulatedForeignBus.cpp:139).
ImplementsSeam == Seam!SeamSpec
=============================================================================
