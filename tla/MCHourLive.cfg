SPECIFICATION FairSpec
CONSTANTS
  HOUR_MICROS = 1
  LOCAL_HOURS = 1
  MAX_TIME_AHEAD_MICROS = 0
  Records = {1}
  WindowOf <- MCOneWindow
  Readers = {"search"}
  h1 = h1
  h2 = h2
  h3 = h3
  Handles <- MCHandles
  Hour = 1
  HoursToGc = 3
  None = None
  NotCached = NotCached
  MaxFaults = 1
  MaxRestarts = 0
  Begin = 2
  End = 4
PROPERTIES
  LocalHourGoes
  ExpiredLeavesS3
