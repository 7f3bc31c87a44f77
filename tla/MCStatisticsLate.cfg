SPECIFICATION Spec
CONSTANTS
  HOUR_MICROS = 2
  LOCAL_HOURS = 1
  MAX_TIME_AHEAD_MICROS = 2
  Metrics <- MCMetrics
  Started <- MCStarted
  ProcessOf <- MCOneProcess
  ClientOf <- MCClient
  None = None
  Batches <- MCBatches
  PermanentClients = {}
  MAX_BATCH = 2
  MAX_PENDING_RECORDS = 2
  WindowSeconds = 1
  LINK_SECONDS = 0
  Tasks = {t1}
  StopTask = stopping
  Searches = {}
  Begin = 7
  End = 8
INVARIANTS
  StatisticsCountWhatIsStored
