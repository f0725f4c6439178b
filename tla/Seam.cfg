SPECIFICATION Spec
CONSTANTS
  PRIORITY_ARRAY_SIZE = 1
  Null = Null
  SLAVE_COUNT = 1
  MODE = "eo"
  POLL_PERIOD <- TwoTicks
  OFFLINE_AFTER_FAILED_POLLS = 2
  MAX_FAILED_POLLS = 2
  RELINQUISH_DEFAULT <- StartDefaults
  SetServiceOutcomes = {TRUE}
  Ids = {1, 2, 3}
  REFUSES = TRUE
  NOISY = TRUE
  LOSES_ANSWERS = FALSE
  INITIAL_POINTS <- StartPoints
  SensorReadings = {0}
  Commands <- OneCommand
  Releases <- OneRelease
  LocalChanges <- FactorySetting
INVARIANTS
  TypeOK
  NothingForgotten
  WrittenMeansHeld
PROPERTIES
  KeepsTheSeam
