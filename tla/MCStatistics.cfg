SPECIFICATION Spec
CONSTANTS
  HOUR_MICROS = 1
  LOCAL_HOURS = 2
  MAX_TIME_AHEAD_MICROS = 1
  Events <- MCEvents
  Data <- MCData
  Queries <- MCQueries
  MaxBatch = 2
  FirstHour = 3
  LastHour = 5
INVARIANTS
  KeptHoursAreExact
  NothingCountedIsLost
  ScreensAreWhole
PROPERTY ChangesAreSaved
