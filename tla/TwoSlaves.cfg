SPECIFICATION Spec
CONSTANTS
  PRIORITY_ARRAY_SIZE = 2
  Null = Null
  SLAVE_COUNT = 2
  LATENCY <- OneLatency
  RESPONSE_TIMEOUT = 2
  MAX_TRANSACTION_ID = 9
  DRIFT_STEP = 1
  DRIFT_MAXIMUM_STEPS = 1
  INITIAL_REGISTERS <- StartRegisters
  MODE = "eo"
  POLL_PERIOD <- SteppedPeriods
  OFFLINE_AFTER_FAILED_POLLS = 2
  MAX_FAILED_POLLS = 3
  RELINQUISH_DEFAULT <- StartDefaults
  SetServiceOutcomes = {TRUE}
  MAX_STEP = 1
  ClientCommands <- EnableCommands
  ClientReleases <- EnableReleases
  ControlSettings = {}
  ControlledSlaves = {2}
  Keys = {"q"}
  SensorRange = {}
  SILENCE_CAP = 0
INVARIANTS
  OwnedTransactions
  WrittenMeansLanded
CHECK_DEADLOCK FALSE
