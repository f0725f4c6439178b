SPECIFICATION FairSpec
CONSTANTS
  PRIORITY_ARRAY_SIZE = 2
  Null = Null
  SLAVE_COUNT = 1
  LATENCY <- OneLatency
  RESPONSE_TIMEOUT = 2
  MAX_TRANSACTION_ID = 4
  DRIFT_STEP = 1
  DRIFT_MAXIMUM_STEPS = 1
  INITIAL_REGISTERS <- StartRegisters
  MODE = "vn"
  POLL_PERIOD <- ThreeTicks
  OFFLINE_AFTER_FAILED_POLLS = 2
  MAX_FAILED_POLLS = 3
  RELINQUISH_DEFAULT <- StartDefaults
  SetServiceOutcomes = {TRUE}
  MAX_STEP = 1
  ClientCommands <- OneSetpoint
  ClientReleases <- SetpointReleases
  ControlSettings = {}
  ControlledSlaves = {1}
  Keys = {}
  SensorRange = {}
  SILENCE_CAP = 0
PROPERTIES
  WritesLand
  OutagesReported
  SlavesComeBack
