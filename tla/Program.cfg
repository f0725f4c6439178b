SPECIFICATION Spec
CONSTANTS
  PRIORITY_ARRAY_SIZE = 2
  Null = Null
  Declined = Declined
  SLAVE_COUNT = 2
  FIRST_VIRTUAL_DEVICE_INSTANCE = 389119
  RELINQUISH_DEFAULT <- DefaultValues
  DCC_PASSWORD = ""
  DEFAULT_PORT = 47808
  DEFAULT_DEVICE_INSTANCE = 389019
  NumberOf <- NumberTokens
  Launches <- LaunchList
  Readings = {700}
  Writes <- ClientWriteRequests
  TypedKeys = {"q", "r", "m"}
  POLL_PERIOD <- EveryTick
  OFFLINE_AFTER_FAILED_POLLS = 1
  MAX_FAILED_POLLS = 1
  SetServiceOutcomes = {TRUE}
INVARIANTS
  TypeOK
  EveryCallIsPossible
  MappingMatchesSetUp
  NamesDistinguish
  ServedMeansWritten
  EnabledAreAnswered
  AnnouncedAreReachable
  EndsClean
PROPERTIES
  WritesStayInTheirObject
CHECK_DEADLOCK FALSE
