SPECIFICATION Spec
CONSTANTS
  Data <- MCData
  MICROS_PER_SECOND = 10
  SECONDS_PER_HOUR = 4
  RAW_BLOCK_LEN = 3
  MAX_PAYLOAD_LEN = 2
  MIN_LEN_TO_CUT = 2
  FRAME_CAPACITY = 6
  FRAME_HEADER_LEN = 1
  MAX_SERVICES = 2
  MAX_ACTIONS_PER_SERVICE = 1
  KEY_MAX_PAIRS = 7
  PROCESS_MAX_PAIRS = 3
  PAIRS_PER_PAGE = 2
  READ_LEN = 5
  FramesPerFile = 3
  MAX_DATA_FILES = 2
  Records <- MCRecords
  Preloaded <- MCPreloaded
  MaxBatch = 2
  MaxGiven = 2
INVARIANTS
  TypeOK
  CellsAgreeWithTheChain
  EveryRecordIsHeldOnce
  RefusedOnlyForRoom
  HourOpens
  FlushedSurvives
  IndexesAgree
  IndexFilesAnswerAsTheIndexes
  CopyHoldsTheChain
CHECK_DEADLOCK FALSE
