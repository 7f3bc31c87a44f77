SPECIFICATION FairSpec
CONSTANTS
  HOUR_MICROS = 2
  LOCAL_HOURS = 9
  MAX_TIME_AHEAD_MICROS = 2
  Metrics <- MCPair
  Started <- MCPairStarted
  ProcessOf <- MCPairProcess
  ClientOf <- MCPairClient
  None = None
  Batches <- MCPairBatches
  PermanentClients = {}
  MAX_BATCH = 1
  MAX_PENDING_RECORDS = 2
  WindowSeconds = 0
  LINK_SECONDS = 0
  Tasks = {t1, t2}
  StopTask = stopping
  Searches = {}
  Begin = 7
  End = 7
PROPERTIES
  QueueIsTakenIn
  BeingWrittenIsLetGo
