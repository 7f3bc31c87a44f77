SPECIFICATION SearchSpec
CONSTANTS
  Data <- MCData
  MICROS_PER_SECOND = 10
  SECONDS_PER_HOUR = 4
  RAW_BLOCK_LEN = 3
  MAX_PAYLOAD_LEN = 2
  MIN_LEN_TO_CUT = 2
  FRAME_CAPACITY = 6
  FRAME_HEADER_LEN = 1
  FRAME_LEN = 7
  MAX_SERVICES = 2
  MAX_ACTIONS_PER_SERVICE = 1
  KEY_MAX_PAIRS = 20
  PROCESS_MAX_PAIRS = 3
  PAIRS_PER_PAGE = 2
  READ_LEN = 5
  FramesPerFile = 2
  MAX_DATA_FILES = 2
  Records <- MCRecords
  Preloaded <- MCPreloaded
  MaxBatch = 2
  MaxGiven = 3
  LOCAL_READ_LEN = 3
  S3_READ_LEN = 9
  LAST_EVENTS_LIMIT = 2
  PROCESS_EVENTS_LIMIT = 3
  PROCESS_SCAN_SECONDS = 2
  PROCESS_START_MARGIN = 1
  Queries <- MCQueries
INVARIANTS
  SearchGivesTheLatest
  TraceGivesEveryEvent
CHECK_DEADLOCK FALSE
