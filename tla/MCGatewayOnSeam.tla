-------------------------- MODULE MCGatewayOnSeam --------------------------
(***************************************************************************)
(* Small instances of GatewayOnSeam: a slave whose setpoint is commanded,    *)
(* released, and set at the device.                                        *)
(***************************************************************************)
EXTENDS GatewayOnSeam

OneTick == [slave \in Slaves |-> 1]
TwoTicks == [slave \in Slaves |-> 2]
StartPoints ==
  [slave \in Slaves |-> [table \in Tables |->
     IF table = "input" THEN 652 ELSE IF table = "holding" THEN 650 ELSE 1]]
StartDefaults ==
  [slave \in Slaves |-> [output \in Outputs |-> IF output = "setpoint" THEN 6500 ELSE 100]]

OneCommand == {[slave |-> 1, output |-> "setpoint", priority |-> 1, value |-> 7005]}
OneRelease == {[slave |-> 1, output |-> "setpoint", priority |-> 1]}
FactorySetting == {[slave |-> 1, output |-> "setpoint", value |-> 600]}
=============================================================================
