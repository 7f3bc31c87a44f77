SPECIFICATION Spec
CONSTANTS
  HOUR_MICROS = 2
  LOCAL_HOURS = 1
  MAX_TIME_AHEAD_MICROS = 2
  Metrics <- MCMetrics
  Started <- MCStarted
  ProcessOf <- MCOneProcess
  ClientOf <- MCClient
  None = None
  Batches <- MCBatches
  PermanentClients = {"alice"}
  MAX_BATCH = 2
  MAX_PENDING_RECORDS = 2
  WindowSeconds = 1
  LINK_SECONDS = 0
  Tasks = {t1}
  StopTask = stopping
  Searches = {r1}
  Begin = 7
  End = 8
INVARIANTS
  TypeOK
  NothingForgotten
  NothingTwice
  NoMomentInNeither
  MemoryIsBounded
  CountedUnderItsHour
  SearchFindsAll
  StopWritesWhatWasAccepted
PROPERTIES
  KeepsItsPromise
  ClientIsNamed
