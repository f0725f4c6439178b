-------------------------- MODULE MCGatewaySystem --------------------------
(***************************************************************************)
(* Small instances of GatewaySystem.  One tick stands for the latency of a  *)
(* slave; the order latency < response timeout < poll cycle is the code's.  *)
(***************************************************************************)
EXTENDS SeamRefinement

OneLatency == [slave \in Slaves |-> 1]
ThreeTicks == [slave \in Slaves |-> 3]
SteppedPeriods == [slave \in Slaves |-> 2 + slave]

\* The boiler's and the air handler's registers and defaults.
StartRegisters ==
  [slave \in Slaves |-> [table \in Tables |->
     IF table = "input" THEN 652 ELSE IF table = "holding" THEN 650 ELSE 1]]
StartDefaults ==
  [slave \in Slaves |-> [output \in Outputs |-> IF output = "setpoint" THEN 6500 ELSE 100]]

\* Setpoints of -0.55 and 70.05 degrees, one of them at a priority that does
\* not exist.
SetpointCommands ==
  {[slave |-> 1, output |-> "setpoint", priority |-> 1, value |-> -55],
   [slave |-> 1, output |-> "setpoint", priority |-> 0, value |-> 7005]}
OneSetpoint == {command \in SetpointCommands : command.priority = 1}
SetpointReleases == {[slave |-> 1, output |-> "setpoint", priority |-> 1]}

\* The last slave's enable is switched off and released.
EnableCommands ==
  {[slave |-> SLAVE_COUNT, output |-> "enable", priority |-> 1, value |-> 0]}
EnableReleases == {[slave |-> SLAVE_COUNT, output |-> "enable", priority |-> 1]}

\* The test control sets a sensor below zero, and a setpoint and a coil behind
\* the gateway's back.
LocalSettings ==
  {[table |-> "input", value |-> 65530], [table |-> "holding", value |-> 0],
   [table |-> "coil", value |-> 7]}

\* One nudge around the first reading and around zero.
NearTheStart == {652, 663, 5, 65530}
=============================================================================
