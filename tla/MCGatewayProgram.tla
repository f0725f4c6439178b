-------------------------- MODULE MCGatewayProgram --------------------------
(***************************************************************************)
(* Bounds for model-checking GatewayProgram: two slaves, every command line  *)
(* that the parsing tells apart.                                           *)
(***************************************************************************)
EXTENDS GatewayProgram, TLC

NumberTokens == ("389119" :> 389119) @@ ("7" :> 7) @@ ("-1" :> -1) @@ ("47809" :> 47809)

Launch(arguments, control, kind) ==
  [argv |-> arguments, controlPort |-> control, stdin |-> kind]

LaunchList ==
  { Launch(<<>>, "invalid", "pipe"),
    Launch(<<"--help">>, "off", "terminal"),
    Launch(<<"--mode">>, "off", "terminal"),
    Launch(<<"--mode", "vn", "--mode", "gw">>, "off", "terminal"),
    Launch(<<"--mode", "vn", "--deviceID", "389119">>, "off", "terminal"),
    Launch(<<"--mode", "vn", "--mode", "eo", "--port", "47809", "--deviceID", "389119">>,
           "valid", "terminal"),
    Launch(<<"--deviceID", "x", "--deviceID", "-1", "--deviceID", "7", "--mode", "vn">>,
           "off", "pipe"),
    Launch(<<"--port", "--version">>, "off", "pipe") }

ClientWriteRequests ==
  {[type |-> "REAL", priority |-> 1, value |-> 6500],
   [type |-> "ENUMERATED", priority |-> 1, value |-> 100],
   [type |-> "NULL", priority |-> 1, value |-> Null]}

DefaultValues ==
  [slave \in Slaves |-> [setpoint |-> 6400 + slave, enable |-> 100 * (slave % 2)]]

EveryTick == [slave \in Slaves |-> 0]
=============================================================================
