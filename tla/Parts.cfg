SPECIFICATION PartsSpec
CONSTANTS
  Subjects = {"priorities", "registers", "udp", "restart", "control", "frames", "names"}
  PRIORITY_ARRAY_SIZE = 4
  Null = Null
  SLAVE_COUNT = 2
  Values = {6500, 7000}
  RelinquishDefault = 6400
  Probes <- EdgeValues
  PORT_OF <- Ports
  MAX_UDP_BINDINGS = 3
  Interfaces <- Hosts
  MAX_WAITING = 1
  Delays = {0, 1, 3}
  MAX_NOW = 4
  LATENCY <- Latencies
  RESPONSE_TIMEOUT = 2
  MAX_TRANSACTION_ID = 3
  DRIFT_STEP = 2
  DRIFT_MAXIMUM_STEPS = 1
  INITIAL_REGISTERS <- Registers
  Commands <- Lines
  Datagrams <- Frames
  Damages <- DamagedOctets
  SummaryRooms = {32, 88}
  IdTables <- NamedTables
  Wanted <- IdsWanted
INVARIANTS
  WinnersAgree
  RegisterUnderstood
  NoBindingStarves
  PortsBelongToInstances
  PromisesAreKept
  NothingIsOverlooked
  TruncationOnlyForgets
  ViewsNeverDisagree
PROPERTIES
  CommandTakesEffect
  ReplyTellsTheEffect
CHECK_DEADLOCK FALSE
