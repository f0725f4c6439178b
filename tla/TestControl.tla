---------------------------- MODULE TestControl ----------------------------
(***************************************************************************)
(* The simulation's test control (simulation/SimulationControl.cpp):         *)
(* RunCommand with its checks and its reply, one command per pass.           *)
(*                                                                         *)
(* A command is what sscanf makes of it: how many fields it read, and the    *)
(* unsigned numbers in them, zero where there was none.                     *)
(***************************************************************************)
EXTENDS SimulatedForeignBus

CONSTANT Commands  \* [fields, verb, unit, table, address, value]

ASSUME CommandsAssumption ==
  \A command \in Commands :
    {command.unit, command.address, command.value} \subseteq Nat

VARIABLE
  reply  \* history: the last reply, <<>> before the first

controlVars == <<busVars, reply>>

ControlInit == BusInit /\ reply = <<>>

MAX_BYTE == 255
MAX_WORD == 65535

\* The casts of RunCommand.
Byte(number) == number % 256
Word(number) == number % REGISTER_VALUES

\* external: FindSlave, FindPoint of the simulated bus.
Found(unit) == {slave \in Slaves : slave = unit}
FoundPoint(unit, table, address) == {slave \in Found(unit) : table \in Tables /\ address = 0}

OutOfRange_NoUnits(command) ==
  command.fields < 2 \/ command.address > MAX_WORD \/ command.value > MAX_WORD

OutOfRange(command) ==
  \/ command.fields < 2
  \/ command.unit > MAX_BYTE
  \/ command.address > MAX_WORD
  \/ command.value > MAX_WORD

Reply(text) == reply' = text

Error == Reply(<<"error">>) /\ UNCHANGED busVars

SetsConnection(command) == command.verb \in {"offline", "online"}
SetsPoint(command) == command.fields = 5 /\ command.verb = "set" /\ command.table \in Tables
GetsPoint(command) == command.fields = 4 /\ command.verb = "get" /\ command.table \in Tables

Point(command) == FoundPoint(Byte(command.unit), command.table, Word(command.address))

\* Further fields after "offline 1" are ignored, any other wrong number is an error.
RunCommand(command) ==
  \/ /\ ~OutOfRange(command)
     /\ SetsConnection(command)
     /\ \E slave \in Found(Byte(command.unit)) :
          SetSlaveOnline(slave, command.verb = "online") /\ Reply(<<"ok">>)
  \/ /\ ~OutOfRange(command)
     /\ SetsPoint(command)
     /\ \E slave \in Point(command) :
          SetPoint(slave, command.table, Word(command.value)) /\ Reply(<<"ok">>)
  \/ /\ ~OutOfRange(command)
     /\ GetsPoint(command)
     /\ \E slave \in Point(command) : Reply(<<"value", registers[slave][command.table]>>)
     /\ UNCHANGED busVars
  \/ /\ \/ OutOfRange(command)
        \/ SetsConnection(command) /\ Found(Byte(command.unit)) = {}
        \/ (SetsPoint(command) \/ GetsPoint(command)) /\ Point(command) = {}
        \/ ~SetsConnection(command) /\ ~SetsPoint(command) /\ ~GetsPoint(command)
     /\ Error

\* Service with nothing to read does nothing; Start and Stop are in GatewayProgram.
ControlNext == \E command \in Commands : RunCommand(command)

ControlSpec == ControlInit /\ [][ControlNext]_controlVars

----------------------------------------------------------------------------

\* A test can believe the reply: after an "ok" the point or the connection of the
\* unit it named, with all its digits, is as it asked, no other has changed, and
\* after an error nothing has: no number is cut to a smaller one that exists
\* (SimulationControl.cpp:57-91).
ReplyTellsTheEffect ==
  [][/\ reply' # <<"ok">> => UNCHANGED busVars
     /\ reply' = <<"ok">> =>
          \A command \in Commands : RunCommand(command) =>
            /\ command.unit \in Slaves
            /\ \A slave \in Slaves \ {command.unit} :
                 UNCHANGED <<connected[slave], registers[slave], drifting[slave]>>
            /\ command.verb = "set" =>
                 /\ command.address = 0
                 /\ registers'[command.unit][command.table] =
                      IF command.table = "coil" THEN (IF command.value = 0 THEN 0 ELSE 1)
                                                ELSE command.value
            /\ command.verb # "set" =>
                 connected'[command.unit] = (command.verb = "online")]_controlVars
=============================================================================
