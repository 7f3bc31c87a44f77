------------------------------ MODULE HourProofs ------------------------------
(***************************************************************************)
(* The life of an hour, for any records, searches, handles and lengths of  *)
(* the hour: what holds of it however its writes, searches and timers meet *)
(* and whatever fails.                                                     *)
(***************************************************************************)
EXTENDS HourLifecycle, TLAPS

Expired == is_expired(Hour, now, HoursToGc)

(* A time which is over stays over. *)
LEMMA LocalTimeStays ==
  ASSUME NEW n \in Nat, local_time_is_over(Hour, n)
  PROVE  local_time_is_over(Hour, n + 1)
BY RetentionAssumption, HourAssumption DEF local_time_is_over

LEMMA HoursStartInOrder ==
  ASSUME NEW x \in Int
  PROVE  hour_start_of(x) \in Int /\ hour_start_of(x) <= hour_start_of(x + 1)
<1> DEFINE q == x \div HOUR_MICROS
           p == (x + 1) \div HOUR_MICROS
<1>1. /\ q \in Int /\ x = HOUR_MICROS * q + (x % HOUR_MICROS)
      /\ x % HOUR_MICROS \in Int /\ 0 <= x % HOUR_MICROS /\ x % HOUR_MICROS < HOUR_MICROS
  BY RetentionAssumption
<1>2. /\ p \in Int /\ x + 1 = HOUR_MICROS * p + ((x + 1) % HOUR_MICROS)
      /\ (x + 1) % HOUR_MICROS \in Int
      /\ 0 <= (x + 1) % HOUR_MICROS /\ (x + 1) % HOUR_MICROS < HOUR_MICROS
  BY RetentionAssumption
<1> HIDE DEF q, p
<1>3. hour_start_of(x) = HOUR_MICROS * q /\ hour_start_of(x + 1) = HOUR_MICROS * p
  BY <1>1, <1>2, RetentionAssumption DEF hour_start_of
<1>4. q <= p
  <2>1. CASE p + 1 <= q
    <3>1. HOUR_MICROS * (p + 1) <= HOUR_MICROS * q
      BY <1>1, <1>2, <2>1, RetentionAssumption
    <3>2. HOUR_MICROS * (p + 1) = HOUR_MICROS * p + HOUR_MICROS
      BY <1>2, RetentionAssumption
    <3> QED
      BY <1>1, <1>2, <3>1, <3>2, RetentionAssumption
  <2> QED
    BY <1>1, <1>2, <2>1
<1> QED
  BY <1>1, <1>2, <1>3, <1>4, RetentionAssumption

LEMMA ExpiredStays ==
  ASSUME NEW n \in Nat, is_expired(Hour, n, HoursToGc)
  PROVE  is_expired(Hour, n + 1, HoursToGc)
<1> DEFINE x == n - HoursToGc * HOUR_MICROS
<1>1. x \in Int /\ (n + 1) - HoursToGc * HOUR_MICROS = x + 1
  BY RetentionAssumption, HourAssumption
<1>2. Hour <= hour_start_of(x)
  BY DEF is_expired, expired_up_to
<1> HIDE DEF x
<1>3. hour_start_of(x) \in Int /\ hour_start_of(x + 1) \in Int
  BY <1>1, HoursStartInOrder
<1>4. Hour <= hour_start_of(x + 1)
  BY <1>1, <1>2, <1>3, HoursStartInOrder, HourAssumption
<1> QED
  BY <1>1, <1>4 DEF is_expired, expired_up_to

-------------------------------------------------------------------------------
(* Types, and what each stage has got. *)

(* A stage in which a handle is held. *)
HoldStages == {"lock", "seal", "remove folder", "leave map", "check", "collect"}

HoldersRight ==
  /\ \A a \in Actors : at[a] \in HoldStages => held[a] \in Handles
  /\ at["write"] # "idle" => writing \in Records

(* The gc of S3 has no need of the local time of the hour. *)
TimesRight ==
  /\ at["upload"] # "idle" => has_s3
  /\ at["upload"] \notin {"idle", "gc index", "gc data", "gc forget"} =>
       local_time_is_over(Hour, now)
  /\ at["gc"] \in {"delete", "remove folder", "leave map"} => NotToBeKept
  /\ at["upload"] \in {"gc index", "gc data", "gc forget"} => Expired

(* An upload goes on to the files when the hour is not there already. *)
IndexRight ==
  at["upload"] \in {"get hour", "seal", "put data", "put index", "failed", "gc data"} =>
    s3index = None

FilesRight ==
  /\ \A h \in Handles : slot[h] # "open" => unflushed[h] = {}
  /\ file <=> local # {}

StagesRight == HoldersRight /\ TimesRight /\ IndexRight /\ FilesRight

LEMMA WhoActs ==
  /\ "write" \in Actors /\ "gc" \in Actors /\ "upload" \in Actors /\ Readers \subseteq Actors
  /\ \A r \in Readers : r # "write" /\ r # "gc" /\ r # "upload"
BY HourAssumption DEF Actors

LEMMA StageNames ==
  /\ "idle" \in Stages /\ "open hour" \in Stages /\ "delete" \in Stages
  /\ "remove folder" \in Stages /\ "leave map" \in Stages /\ "persist" \in Stages
  /\ "let go" \in Stages /\ "ask" \in Stages /\ "get hour" \in Stages /\ "seal" \in Stages
  /\ "put data" \in Stages /\ "put index" \in Stages /\ "forget" \in Stages
  /\ "failed" \in Stages /\ "gc index" \in Stages /\ "gc data" \in Stages
  /\ "gc forget" \in Stages /\ "check" \in Stages /\ "lock" \in Stages
  /\ "collect" \in Stages /\ "s3" \in Stages /\ "s3 download" \in Stages
  /\ "s3 answer" \in Stages /\ "s3 collect" \in Stages /\ "answered" \in Stages
BY DEF Stages

LEMMA TypesInit == Init => TypeOK /\ StagesRight
<1> SUFFICES ASSUME Init PROVE TypeOK /\ StagesRight
  OBVIOUS
<1>1. FlagsOK
  BY Zenon DEF Init, FlagsOK
<1>2. at \in [Actors -> Stages] /\ HandlesOK
  BY StageNames DEF Init, HandlesOK, Optional
<1>3. RecordsOK
  BY DEF Init, RecordsOK, Optional, Searching, NoSearch
<1>4. CountsOK
  BY HourAssumption DEF Init, CountsOK, Times
<1>5. StagesRight
  BY WhoActs
  DEF Init, StagesRight, HoldersRight, TimesRight, IndexRight, FilesRight, HoldStages
<1> QED
  BY <1>1, <1>2, <1>3, <1>4, <1>5 DEF TypeOK

(* Who gets the hour has the handle of the map. *)
LEMMA GotIsOfTheMap ==
  ASSUME HandlesOK, NEW a \in Actors, GetHour(a)
  PROVE  /\ map' \in Handles
         /\ held' = [held EXCEPT ![a] = map'] /\ asked' = (at["write"] # "idle")
         /\ held' \in [Actors -> Optional(Handles)]
         /\ slot' \in [Handles -> {"closed", "open", "deleted"}]
         /\ sealed' \in [Handles -> BOOLEAN] /\ unflushed' \in [Handles -> SUBSET Records]
         /\ \/ map # None /\ UNCHANGED <<map, slot, sealed, unflushed>>
            \/ /\ map = None /\ Unused(map')
               /\ slot' = [slot EXCEPT ![map'] = "closed"]
               /\ sealed' = [sealed EXCEPT ![map'] = FALSE]
               /\ unflushed' = [unflushed EXCEPT ![map'] = {}]
<1>1. CASE map # None
  BY <1>1 DEF GetHour, HandlesOK, Optional
<1>2. CASE map = None
  <2>1. PICK h \in Handles :
          /\ Unused(h) /\ map' = h /\ held' = [held EXCEPT ![a] = h]
          /\ slot' = [slot EXCEPT ![h] = "closed"]
          /\ sealed' = [sealed EXCEPT ![h] = FALSE]
          /\ unflushed' = [unflushed EXCEPT ![h] = {}]
    BY <1>2 DEF GetHour
  <2>2. asked' = (at["write"] # "idle")
    BY DEF GetHour
  <2> QED
    BY <1>2, <2>1, <2>2 DEF HandlesOK, Optional
<1> QED
  BY <1>1, <1>2

LEMMA FlagsStep ==
  ASSUME FlagsOK, [Next]_vars
  PROVE  FlagsOK'
<1> USE DEF FlagsOK, memoryVars, writeVars, diskVars, archiveVars, countVars, pastVars
<1>1. CASE WriteStep
  BY <1>1, Zenon
  DEF WriteStep, BeginWrite, WriteGetsHour, GetHour, WriteRefused, WriteFlushed, WriteFails,
      EndWrite, Flushed
<1>2. ASSUME NEW a, DeleteStep(a) PROVE FlagsOK'
  BY <1>2, Zenon DEF DeleteStep, DeleteGetsHour, GetHour, RemoveFolder, LeaveMap
<1>3. CASE GcTick \/ GcPersists \/ GcLetsGo
  BY <1>3, Zenon DEF GcTick, GcPersists, GcLetsGo, Flushed
<1>4. CASE SealStep \/ UploadGetsHour
  BY <1>4, Zenon
  DEF SealStep, SealRefused, SealFlushFails, SealAndCopy, Flushed, UploadGetsHour, GetHour
<1>5. CASE \/ UploadTick \/ UploadAsks \/ PutData \/ PutIndex \/ UploadForgets \/ UploadFails
           \/ UploadGivenUp \/ GcS3Tick \/ GcS3Index \/ GcS3Data \/ GcS3Forgets
  BY <1>5, Zenon
  DEF UploadTick, UploadAsks, PutData, PutIndex, UploadForgets, UploadFails, UploadGivenUp,
      GcS3Tick, GcS3Index, GcS3Data, GcS3Forgets
<1>6. ASSUME NEW r \in Readers, SearchStep(r) PROVE FlagsOK'
  BY <1>6, Zenon
  DEF SearchStep, BeginSearch, SearchGetsHour, GetHour, SearchOpensHour, SearchLocksHour,
      SearchCollects, SearchLooksInCache, SearchDownloadsIndex, SearchKeepsIndex,
      SearchCollectsFromS3, EndSearch
<1>7. CASE CacheLapses \/ Tick \/ Crash \/ UNCHANGED vars
  BY <1>7, Zenon DEF CacheLapses, Tick, Crash, vars
<1> QED
  BY <1>1, <1>2, <1>3, <1>4, <1>5, <1>6, <1>7 DEF Next, GcStep, UploadStep

LEMMA StagesStep ==
  ASSUME at \in [Actors -> Stages], [Next]_vars
  PROVE  at' \in [Actors -> Stages]
<1> USE WhoActs, StageNames DEF Go, End_
<1>1. CASE WriteStep
  BY <1>1
  DEF WriteStep, BeginWrite, WriteGetsHour, WriteRefused, WriteFlushed, WriteFails, EndWrite
<1>2. ASSUME NEW a \in {"gc", "upload"}, DeleteStep(a) PROVE at' \in [Actors -> Stages]
  BY <1>2 DEF DeleteStep, DeleteGetsHour, RemoveFolder, LeaveMap
<1>3. CASE GcTick \/ GcPersists \/ GcLetsGo
  BY <1>3 DEF GcTick, GcPersists, GcLetsGo
<1>4. CASE UploadTick \/ UploadAsks \/ UploadGetsHour \/ SealStep
  BY <1>4
  DEF UploadTick, UploadAsks, AfterAsked, UploadGetsHour, SealStep, SealRefused, SealFlushFails,
      SealAndCopy
<1>5. CASE PutData \/ PutIndex \/ UploadForgets \/ UploadFails \/ UploadGivenUp
  BY <1>5 DEF PutData, PutIndex, UploadForgets, UploadFails, UploadGivenUp
<1>6. CASE GcS3Tick \/ GcS3Index \/ GcS3Data \/ GcS3Forgets
  BY <1>6 DEF GcS3Tick, GcS3Index, GcS3Data, GcS3Forgets
<1>7. ASSUME NEW r \in Readers, SearchStep(r) PROVE at' \in [Actors -> Stages]
  <2>1. CASE BeginSearch(r) \/ SearchGetsHour(r) \/ SearchOpensHour(r) \/ SearchLocksHour(r)
    BY <1>7, <2>1
    DEF BeginSearch, SearchGetsHour, SearchOpensHour, SearchLocksHour, ReadsDeleted
  <2>2. CASE SearchCollects(r) \/ SearchLooksInCache(r) \/ SearchDownloadsIndex(r)
    BY <1>7, <2>2 DEF SearchCollects, PassEnds, SearchLooksInCache, SearchDownloadsIndex
  <2>3. CASE SearchKeepsIndex(r) \/ SearchCollectsFromS3(r) \/ EndSearch(r)
    BY <1>7, <2>3 DEF SearchKeepsIndex, SearchCollectsFromS3, PassEnds, EndSearch
  <2> QED
    BY <1>7, <2>1, <2>2, <2>3 DEF SearchStep
<1>8. CASE CacheLapses \/ Tick \/ Crash \/ UNCHANGED vars
  BY <1>8 DEF CacheLapses, Tick, Crash, vars
<1> QED
  BY <1>1, <1>2, <1>3, <1>4, <1>5, <1>6, <1>7, <1>8 DEF Next, GcStep, UploadStep

LEMMA HandlesStep ==
  ASSUME HandlesOK, RecordsOK, StagesRight, [Next]_vars
  PROVE  HandlesOK'
<1> USE WhoActs DEF HandlesOK, memoryVars, LetGoOf, End_
<1>1. CASE BeginWrite
  BY <1>1 DEF BeginWrite
<1>2. CASE WriteGetsHour
  BY <1>2, GotIsOfTheMap DEF WriteGetsHour, Optional
<1>3. CASE WriteRefused
  BY <1>3 DEF WriteRefused, WriteIsDropped, EndWrite, Optional
<1>4. CASE WriteFlushed
  BY <1>4 DEF WriteFlushed, EndWrite, Optional
<1>5. CASE WriteFails
  <2>1. held["write"] \in Handles /\ unflushed[held["write"]] \union {writing} \in SUBSET Records
    BY <1>5 DEF WriteFails, StagesRight, HoldersRight, HoldStages
  <2>2. slot' \in [Handles -> {"closed", "open", "deleted"}] /\ map' \in Optional(Handles)
    BY <1>5 DEF WriteFails
  <2>3. unflushed' \in [Handles -> SUBSET Records]
    BY <1>5, <2>1 DEF WriteFails
  <2> QED
    BY <1>5, <2>2, <2>3 DEF WriteFails, EndWrite, Optional
<1>6. ASSUME NEW a \in {"gc", "upload"}, DeleteStep(a) PROVE HandlesOK'
  <2>1. CASE DeleteGetsHour(a)
    BY <1>6, <2>1, GotIsOfTheMap DEF DeleteGetsHour, Optional
  <2>2. CASE RemoveFolder(a)
    BY <1>6, <2>2 DEF RemoveFolder, Emptied, Optional
  <2>3. CASE LeaveMap(a)
    BY <1>6, <2>3 DEF LeaveMap, Optional
  <2> QED
    BY <1>6, <2>1, <2>2, <2>3 DEF DeleteStep
<1>7. CASE GcTick
  BY <1>7 DEF GcTick
<1>8. CASE GcPersists
  <2>1. unflushed' \in [Handles -> SUBSET Records]
    BY <1>8 DEF GcPersists
  <2> QED
    BY <1>8, <2>1 DEF GcPersists
<1>9. CASE GcLetsGo
  BY <1>9 DEF GcLetsGo, Emptied, Optional
<1>10. CASE UploadGetsHour
  <2>1. CASE GetHour("upload")
    BY <1>10, <2>1, GotIsOfTheMap DEF Optional
  <2>2. CASE UNCHANGED <<held, memoryVars>>
    BY <2>2
  <2> QED
    BY <1>10, <2>1, <2>2 DEF UploadGetsHour
<1>11. CASE SealRefused \/ SealFlushFails
  BY <1>11 DEF SealRefused, SealFlushFails, Optional
<1>12. CASE SealAndCopy
  <2>1. sealed' \in [Handles -> BOOLEAN]
    BY <1>12 DEF SealAndCopy
  <2> QED
    BY <1>12, <2>1 DEF SealAndCopy, Optional
<1>13. CASE UploadFails
  <2>1. sealed' \in [Handles -> BOOLEAN]
    BY <1>13 DEF UploadFails
  <2> QED
    BY <1>13, <2>1 DEF UploadFails
<1>14. CASE \/ UploadTick \/ UploadAsks \/ PutData \/ PutIndex \/ UploadForgets
            \/ UploadGivenUp \/ GcS3Tick \/ GcS3Index \/ GcS3Data \/ GcS3Forgets
  <2>1. UNCHANGED <<held, memoryVars>>
    BY <1>14
    DEF UploadTick, UploadAsks, PutData, PutIndex, UploadForgets, UploadGivenUp,
        GcS3Tick, GcS3Index, GcS3Data, GcS3Forgets
  <2> QED
    BY <2>1
<1>15. ASSUME NEW r \in Readers, SearchStep(r) PROVE HandlesOK'
  <2>1. CASE SearchGetsHour(r)
    <3>1. CASE GetHour(r)
      BY <1>15, <3>1, GotIsOfTheMap DEF Optional
    <3>2. CASE UNCHANGED <<held, memoryVars>>
      BY <3>2
    <3> QED
      BY <2>1, <3>1, <3>2 DEF SearchGetsHour
  <2>2. CASE SearchOpensHour(r) \/ SearchLocksHour(r)
    BY <1>15, <2>2 DEF SearchOpensHour, SearchLocksHour, ReadsDeleted, Optional
  <2>3. CASE SearchCollects(r)
    BY <1>15, <2>3 DEF SearchCollects, Optional
  <2>4. CASE \/ BeginSearch(r) \/ SearchLooksInCache(r) \/ SearchDownloadsIndex(r)
             \/ SearchKeepsIndex(r) \/ SearchCollectsFromS3(r) \/ EndSearch(r)
    BY <1>15, <2>4
    DEF BeginSearch, SearchLooksInCache, SearchDownloadsIndex, SearchKeepsIndex,
        SearchCollectsFromS3, EndSearch
  <2> QED
    BY <1>15, <2>1, <2>2, <2>3, <2>4 DEF SearchStep
<1>16. CASE CacheLapses \/ Tick \/ UNCHANGED vars
  BY <1>16 DEF CacheLapses, Tick, vars
<1>17. CASE Crash
  BY <1>17 DEF Crash, Optional
<1> QED
  BY <1>1, <1>2, <1>3, <1>4, <1>5, <1>6, <1>7, <1>8, <1>9, <1>10, <1>11, <1>12, <1>13, <1>14,
     <1>15, <1>16, <1>17
  DEF Next, WriteStep, GcStep, UploadStep, SealStep

LEMMA FlushedTypes ==
  ASSUME RecordsOK, NEW S \in SUBSET Records, Flushed(S)
  PROVE  local' \subseteq Records /\ stored' \subseteq Records /\ afterData' \subseteq Records
BY DEF Flushed, RecordsOK

LEMMA SearchTypes ==
  ASSUME RecordsOK, NEW r \in Readers
  PROVE  /\ NothingIsDue(r) \in [Readers -> Searching]
         /\ \A S : PassEnds(r, S) => search' \in [Readers -> Searching]
         /\ \A i \in Optional(SUBSET Records) :
              [search EXCEPT ![r].index = i] \in [Readers -> Searching]
         /\ [search EXCEPT ![r] = NoSearch] \in [Readers -> Searching]
         /\ \A D \in SUBSET Records :
              [search EXCEPT ![r].due = D] \in [Readers -> Searching]
<1>1. search \in [Readers -> Searching] /\ search[r] \in Searching
  BY DEF RecordsOK
<1>2. \A i \in Optional(SUBSET Records) :
        [search EXCEPT ![r].index = i] \in [Readers -> Searching]
  BY <1>1 DEF Searching
<1>3. \A D \in SUBSET Records : [search EXCEPT ![r].due = D] \in [Readers -> Searching]
  BY <1>1 DEF Searching
<1>4. \A S : PassEnds(r, S) => search' \in [Readers -> Searching]
  <2> SUFFICES ASSUME NEW S, PassEnds(r, S) PROVE search' \in [Readers -> Searching]
    OBVIOUS
  <2>1. search[r].due \ {m \in S : WindowOf[m] = search[r].window} \in SUBSET Records
    BY <1>1 DEF Searching
  <2>2. [window |-> 1, index |-> None,
         due |-> search[r].due \ {m \in S : WindowOf[m] = search[r].window}] \in Searching
    BY <2>1 DEF Searching, Optional
  <2> QED
    BY <1>1, <2>2 DEF PassEnds, NextWindow
<1>5. [search EXCEPT ![r] = NoSearch] \in [Readers -> Searching]
  BY <1>1 DEF NoSearch, Searching, Optional
<1> QED
  BY <1>2, <1>3, <1>4, <1>5 DEF NothingIsDue

LEMMA RecordsStep ==
  ASSUME HandlesOK, RecordsOK, StagesRight, [Next]_vars
  PROVE  RecordsOK'
<1> USE WhoActs DEF RecordsOK, writeVars, diskVars, archiveVars, pastVars
<1>1. CASE BeginWrite
  BY <1>1 DEF BeginWrite, Optional
<1>2. CASE WriteRefused \/ WriteFails
  BY <1>2 DEF WriteRefused, WriteFails, EndWrite, Optional
<1>3. CASE WriteFlushed
  <2>1. held["write"] \in Handles /\ writing \in Records
    BY <1>3 DEF WriteFlushed, StagesRight, HoldersRight, HoldStages
  <2>2. unflushed[held["write"]] \union {writing} \in SUBSET Records
    BY <2>1 DEF HandlesOK
  <2> QED
    BY <1>3, <2>2, FlushedTypes DEF WriteFlushed, EndWrite, Optional
<1>4. ASSUME NEW a \in {"gc", "upload"}, RemoveFolder(a) PROVE RecordsOK'
  BY <1>4 DEF RemoveFolder, Optional
<1>5. CASE GcPersists
  <2>1. ASSUME map # None PROVE unflushed[map] \in SUBSET Records
    BY <2>1 DEF HandlesOK, Optional
  <2> QED
    BY <1>5, <2>1, FlushedTypes DEF GcPersists
<1>6. CASE SealAndCopy
  <2>1. held["upload"] \in Handles
    BY <1>6 DEF SealAndCopy, StagesRight, HoldersRight, HoldStages
  <2>2. unflushed[held["upload"]] \in SUBSET Records
    BY <2>1 DEF HandlesOK
  <2> QED
    BY <1>6, <2>2, FlushedTypes DEF SealAndCopy, Optional
<1>7. CASE PutData \/ PutIndex \/ GcS3Index \/ GcS3Data \/ UploadFails
  BY <1>7 DEF PutData, PutIndex, GcS3Index, GcS3Data, UploadFails, Optional
<1>8. CASE UploadForgets \/ GcS3Forgets \/ CacheLapses
  BY <1>8 DEF UploadForgets, GcS3Forgets, CacheLapses
<1>9. ASSUME NEW a \in {"gc", "upload"}, DeleteGetsHour(a) \/ LeaveMap(a) PROVE RecordsOK'
  BY <1>9 DEF DeleteGetsHour, LeaveMap
<1>10. CASE \/ WriteGetsHour \/ GcTick \/ GcLetsGo \/ UploadTick \/ UploadAsks \/ UploadGetsHour
            \/ SealRefused \/ SealFlushFails \/ UploadGivenUp \/ GcS3Tick \/ Tick
            \/ UNCHANGED vars
  BY <1>10
  DEF WriteGetsHour, GcTick, GcLetsGo, UploadTick, UploadAsks, UploadGetsHour,
      SealRefused, SealFlushFails, UploadGivenUp, GcS3Tick, Tick, vars
<1>11. ASSUME NEW r \in Readers, SearchStep(r) PROVE RecordsOK'
  <2>a. /\ NothingIsDue(r) \in [Readers -> Searching]
        /\ \A S : PassEnds(r, S) => search' \in [Readers -> Searching]
        /\ \A i \in Optional(SUBSET Records) :
             [search EXCEPT ![r].index = i] \in [Readers -> Searching]
        /\ [search EXCEPT ![r] = NoSearch] \in [Readers -> Searching]
        /\ \A D \in SUBSET Records :
             [search EXCEPT ![r].due = D] \in [Readers -> Searching]
    BY <1>11, SearchTypes
  <2>1. CASE BeginSearch(r)
    <3>1. (local \union Archived) \ afterData \in SUBSET Records
      BY DEF Archived, Optional
    <3> QED
      BY <1>11, <2>1, <3>1, <2>a DEF BeginSearch
  <2>2. CASE SearchGetsHour(r) \/ SearchOpensHour(r) \/ SearchLocksHour(r)
    BY <1>11, <2>2, <2>a DEF SearchGetsHour, SearchOpensHour, SearchLocksHour
  <2>3. CASE SearchCollects(r) \/ SearchCollectsFromS3(r)
    <3>1. PICK S : PassEnds(r, S)
      BY <2>3 DEF SearchCollects, SearchCollectsFromS3
    <3> QED
      BY <1>11, <2>3, <3>1, <2>a DEF SearchCollects, SearchCollectsFromS3
  <2>4. CASE SearchLooksInCache(r)
    <3>1. CASE cached \notin {NotCached, None}
      BY <1>11, <2>4, <2>a, <3>1 DEF SearchLooksInCache
    <3>2. CASE cached \in {NotCached, None}
      BY <1>11, <2>4, <2>a, <3>2 DEF SearchLooksInCache
    <3> QED
      BY <3>1, <3>2
  <2>5. CASE SearchDownloadsIndex(r)
    BY <1>11, <2>5, <2>a DEF SearchDownloadsIndex
  <2>6. CASE SearchKeepsIndex(r)
    BY <1>11, <2>6 DEF SearchKeepsIndex, Searching, Optional
  <2>7. CASE EndSearch(r)
    BY <1>11, <2>7, <2>a DEF EndSearch
  <2> QED
    BY <1>11, <2>1, <2>2, <2>3, <2>4, <2>5, <2>6, <2>7 DEF SearchStep
<1>12. CASE Crash
  BY <1>12 DEF Crash, Optional, Searching, NoSearch
<1> QED
  BY <1>1, <1>2, <1>3, <1>4, <1>5, <1>6, <1>7, <1>8, <1>9, <1>10, <1>11, <1>12
  DEF Next, WriteStep, GcStep, UploadStep, SealStep, DeleteStep

(* A step counts on by one, or not at all. *)
CountsOn ==
  /\ now' = now \/ (now < End /\ now' = now + 1)
  /\ gcNow' = gcNow \/ gcNow' = now \/ gcNow' = Begin
  /\ faults' = faults \/ Fault
  /\ restarts' = restarts \/ (restarts < MaxRestarts /\ restarts' = restarts + 1)
  /\ has_s3' = has_s3

LEMMA EachStepCountsOn ==
  ASSUME [Next]_vars
  PROVE  CountsOn
<1> USE DEF CountsOn, countVars
<1>1. CASE WriteStep
  BY <1>1
  DEF WriteStep, BeginWrite, WriteGetsHour, WriteRefused, WriteIsDropped, WriteFlushed, WriteFails
<1>2. ASSUME NEW a, DeleteStep(a) PROVE CountsOn
  BY <1>2 DEF DeleteStep, DeleteGetsHour, RemoveFolder, LeaveMap
<1>3. CASE GcTick \/ GcPersists \/ GcLetsGo
  BY <1>3 DEF GcTick, GcPersists, GcLetsGo
<1>4. CASE UploadTick \/ UploadAsks \/ UploadGetsHour \/ SealStep
  BY <1>4
  DEF UploadTick, UploadAsks, UploadGetsHour, SealStep, SealRefused, SealFlushFails, SealAndCopy
<1>5. CASE PutData \/ PutIndex \/ UploadForgets \/ UploadFails \/ UploadGivenUp
  BY <1>5 DEF PutData, PutIndex, UploadForgets, UploadFails, UploadGivenUp
<1>6. CASE GcS3Tick \/ GcS3Index \/ GcS3Data \/ GcS3Forgets
  BY <1>6 DEF GcS3Tick, GcS3Index, GcS3Data, GcS3Forgets
<1>7. ASSUME NEW r \in Readers, SearchStep(r) PROVE CountsOn
  BY <1>7
  DEF SearchStep, BeginSearch, SearchGetsHour, SearchOpensHour, SearchLocksHour, SearchCollects,
      SearchLooksInCache, SearchDownloadsIndex, SearchKeepsIndex, SearchCollectsFromS3, EndSearch
<1>8. CASE CacheLapses \/ Tick \/ Crash \/ UNCHANGED vars
  BY <1>8 DEF CacheLapses, Tick, Crash, vars
<1> QED
  BY <1>1, <1>2, <1>3, <1>4, <1>5, <1>6, <1>7, <1>8 DEF Next, GcStep, UploadStep

LEMMA CountsStep ==
  ASSUME CountsOK, [Next]_vars
  PROVE  CountsOK'
<1>1. CountsOn
  BY EachStepCountsOn
<1>2. Begin \in Nat /\ End \in Nat /\ Begin <= End /\ MaxFaults \in Nat /\ MaxRestarts \in Nat
  BY HourAssumption
<1>3. now' \in Times /\ gcNow' \in Times
  BY <1>1, <1>2 DEF CountsOn, CountsOK, Times
<1>4. faults' \in 0 .. MaxFaults /\ restarts' \in 0 .. MaxRestarts
  BY <1>1, <1>2 DEF CountsOn, CountsOK, Fault
<1> QED
  BY <1>3, <1>4 DEF CountsOK

(* Nothing of the clock gets worse for what goes on: a time which is over or *)
(* expired stays so.                                                         *)
LEMMA TimePasses ==
  ASSUME CountsOK, [Next]_vars
  PROVE  /\ local_time_is_over(Hour, now) => local_time_is_over(Hour, now')
         /\ Expired => Expired'
         /\ has_s3' = has_s3
         /\ NotToBeKept => NotToBeKept'
<1>1. now' \in {now, now + 1} /\ has_s3' = has_s3
  BY EachStepCountsOn DEF CountsOn
<1>2. now \in Nat
  BY HourAssumption DEF CountsOK, Times
<1>3. local_time_is_over(Hour, now) => local_time_is_over(Hour, now')
  BY <1>1, <1>2, LocalTimeStays
<1>4. Expired => Expired'
  BY <1>1, <1>2, ExpiredStays DEF Expired
<1> QED
  BY <1>1, <1>3, <1>4 DEF NotToBeKept, Expired

LEMMA HoldersStep ==
  ASSUME TypeOK, HoldersRight, [Next]_vars
  PROVE  HoldersRight'
<1>0. at \in [Actors -> Stages] /\ HandlesOK /\ towrite \subseteq Records
      /\ held \in [Actors -> Optional(Handles)]
  BY DEF TypeOK, HandlesOK, RecordsOK
<1> USE <1>0, WhoActs DEF HoldersRight, HoldStages, Go, LetGoOf, End_, writeVars
<1>1. CASE BeginWrite
  BY <1>1 DEF BeginWrite
<1>2. CASE WriteGetsHour
  <2>1. map' \in Handles /\ held' = [held EXCEPT !["write"] = map']
    BY <1>2, GotIsOfTheMap DEF WriteGetsHour
  <2> QED
    BY <1>2, <2>1 DEF WriteGetsHour
<1>3. CASE WriteRefused \/ WriteFlushed \/ WriteFails
  BY <1>3 DEF WriteRefused, WriteFlushed, WriteFails, EndWrite
<1>4. ASSUME NEW a \in {"gc", "upload"}, DeleteStep(a) PROVE HoldersRight'
  <2>1. CASE DeleteGetsHour(a)
    <3>1. map' \in Handles /\ held' = [held EXCEPT ![a] = map']
      <4>1. a \in Actors /\ GetHour(a)
        BY <1>4, <2>1 DEF DeleteGetsHour
      <4> QED
        BY <4>1, GotIsOfTheMap
    <3> QED
      BY <1>4, <2>1, <3>1 DEF DeleteGetsHour
  <2>2. CASE RemoveFolder(a) \/ LeaveMap(a)
    BY <1>4, <2>2 DEF RemoveFolder, LeaveMap
  <2> QED
    BY <1>4, <2>1, <2>2 DEF DeleteStep
<1>5. CASE GcTick \/ GcPersists \/ GcLetsGo
  BY <1>5 DEF GcTick, GcPersists, GcLetsGo
<1>6. CASE UploadGetsHour
  <2>1. CASE GetHour("upload") /\ Go("upload", "seal")
    <3>1. map' \in Handles /\ held' = [held EXCEPT !["upload"] = map']
      BY <1>6, <2>1, GotIsOfTheMap
    <3> QED
      BY <1>6, <2>1, <3>1 DEF UploadGetsHour
  <2>2. CASE Go("upload", "delete") /\ UNCHANGED held
    BY <1>6, <2>2 DEF UploadGetsHour
  <2> QED
    BY <1>6, <2>1, <2>2 DEF UploadGetsHour
<1>7. CASE SealStep
  BY <1>7 DEF SealStep, SealRefused, SealFlushFails, SealAndCopy
<1>8. CASE UploadTick \/ UploadAsks \/ PutData \/ PutIndex \/ UploadForgets
  BY <1>8 DEF UploadTick, UploadAsks, AfterAsked, PutData, PutIndex, UploadForgets
<1>9. CASE UploadFails \/ UploadGivenUp \/ GcS3Tick \/ GcS3Index \/ GcS3Data \/ GcS3Forgets
  BY <1>9 DEF UploadFails, UploadGivenUp, GcS3Tick, GcS3Index, GcS3Data, GcS3Forgets
<1>10. ASSUME NEW r \in Readers, SearchStep(r) PROVE HoldersRight'
  <2>1. CASE SearchGetsHour(r)
    <3>1. CASE GetHour(r) /\ Go(r, "check")
      <4>1. map' \in Handles /\ held' = [held EXCEPT ![r] = map']
        BY <1>10, <3>1, GotIsOfTheMap
      <4> QED
        BY <1>10, <2>1, <3>1, <4>1 DEF SearchGetsHour
    <3>2. CASE Go(r, "s3") /\ UNCHANGED held
      BY <1>10, <2>1, <3>2 DEF SearchGetsHour
    <3> QED
      BY <2>1, <3>1, <3>2 DEF SearchGetsHour
  <2>2. CASE BeginSearch(r) \/ SearchOpensHour(r) \/ SearchLocksHour(r)
    BY <1>10, <2>2 DEF BeginSearch, SearchOpensHour, SearchLocksHour, ReadsDeleted
  <2>3. CASE SearchCollects(r) \/ SearchCollectsFromS3(r)
    BY <1>10, <2>3 DEF SearchCollects, SearchCollectsFromS3, PassEnds
  <2>4. CASE SearchLooksInCache(r) \/ SearchDownloadsIndex(r) \/ SearchKeepsIndex(r) \/ EndSearch(r)
    BY <1>10, <2>4 DEF SearchLooksInCache, SearchDownloadsIndex, SearchKeepsIndex, EndSearch
  <2> QED
    BY <1>10, <2>1, <2>2, <2>3, <2>4 DEF SearchStep
<1>11. CASE CacheLapses \/ Tick \/ Crash \/ UNCHANGED vars
  BY <1>11 DEF CacheLapses, Tick, Crash, vars
<1> QED
  BY <1>1, <1>2, <1>3, <1>4, <1>5, <1>6, <1>7, <1>8, <1>9, <1>10, <1>11
  DEF Next, WriteStep, GcStep, UploadStep

(* What is over or to be deleted is so when a stage begins, and stays so. *)
LEMMA TimesStep ==
  ASSUME TypeOK, TimesRight, [Next]_vars
  PROVE  TimesRight'
<1>0. at \in [Actors -> Stages] /\ CountsOK
  BY DEF TypeOK
<1>a. /\ local_time_is_over(Hour, now) => local_time_is_over(Hour, now')
      /\ Expired => Expired'
      /\ has_s3' = has_s3
      /\ NotToBeKept => NotToBeKept'
  BY <1>0, TimePasses
<1>b. TimesRight' <=>
        /\ at'["upload"] # "idle" => has_s3'
        /\ at'["upload"] \notin {"idle", "gc index", "gc data", "gc forget"} =>
             local_time_is_over(Hour, now')
        /\ at'["gc"] \in {"delete", "remove folder", "leave map"} => NotToBeKept'
        /\ at'["upload"] \in {"gc index", "gc data", "gc forget"} => Expired'
  BY DEF TimesRight, Expired, NotToBeKept, local_time_is_over
<1> USE <1>0, <1>a, <1>b, WhoActs DEF TimesRight, Go, End_
<1>1. CASE WriteStep
  <2>1. at'["gc"] = at["gc"] /\ at'["upload"] = at["upload"]
    BY <1>1
    DEF WriteStep, BeginWrite, WriteGetsHour, WriteRefused, WriteFlushed, WriteFails, EndWrite
  <2> QED
    BY <2>1
<1>2. ASSUME NEW r \in Readers, SearchStep(r) PROVE TimesRight'
  <2>1. at'["gc"] = at["gc"] /\ at'["upload"] = at["upload"]
    BY <1>2
    DEF SearchStep, BeginSearch, SearchGetsHour, SearchOpensHour, SearchLocksHour,
        SearchCollects, SearchLooksInCache, SearchDownloadsIndex, SearchKeepsIndex,
        SearchCollectsFromS3, EndSearch, PassEnds, ReadsDeleted
  <2> QED
    BY <2>1
<1>3. CASE GcTick
  <2>1. at'["gc"] = "delete" => NotToBeKept
    BY <1>3, StageNames DEF GcTick, is_to_delete_locally, NotToBeKept
  <2>2. at'["gc"] \in {"delete", "persist"} /\ at'["upload"] = at["upload"]
    BY <1>3 DEF GcTick
  <2> QED
    BY <2>1, <2>2
<1>4. ASSUME NEW a \in {"gc", "upload"}, DeleteStep(a) PROVE TimesRight'
  BY <1>4 DEF DeleteStep, DeleteGetsHour, RemoveFolder, LeaveMap
<1>5. CASE GcPersists \/ GcLetsGo
  BY <1>5 DEF GcPersists, GcLetsGo
<1>6. CASE UploadTick \/ UploadAsks \/ UploadGetsHour
  BY <1>6 DEF UploadTick, is_to_upload, UploadAsks, AfterAsked, UploadGetsHour
<1>7. CASE SealStep
  BY <1>7 DEF SealStep, SealRefused, SealFlushFails, SealAndCopy
<1>8. CASE PutData \/ PutIndex \/ UploadForgets \/ UploadFails \/ UploadGivenUp
  BY <1>8 DEF PutData, PutIndex, UploadForgets, UploadFails, UploadGivenUp
<1>9. CASE GcS3Tick \/ GcS3Index \/ GcS3Data \/ GcS3Forgets
  BY <1>9 DEF GcS3Tick, GcS3Index, GcS3Data, GcS3Forgets, Expired
<1>10. CASE CacheLapses \/ Tick \/ Crash \/ UNCHANGED vars
  BY <1>10 DEF CacheLapses, Tick, Crash, vars
<1> QED
  BY <1>1, <1>2, <1>3, <1>4, <1>5, <1>6, <1>7, <1>8, <1>9, <1>10 DEF Next, GcStep, UploadStep

(* Only an upload of the hour puts its index into S3, after it was asked for. *)
LEMMA IndexStep ==
  ASSUME at \in [Actors -> Stages], IndexRight, [Next]_vars
  PROVE  IndexRight'
<1> USE WhoActs DEF IndexRight, archiveVars, Go, End_
<1>1. CASE WriteStep
  <2>1. at'["upload"] = at["upload"] /\ s3index' = s3index
    BY <1>1
    DEF WriteStep, BeginWrite, WriteGetsHour, WriteRefused, WriteFlushed, WriteFails, EndWrite
  <2> QED
    BY <2>1
<1>2. ASSUME NEW r \in Readers, SearchStep(r) PROVE IndexRight'
  <2>1. at'["upload"] = at["upload"] /\ s3index' = s3index
    BY <1>2
    DEF SearchStep, BeginSearch, SearchGetsHour, SearchOpensHour, SearchLocksHour,
        SearchCollects, SearchLooksInCache, SearchDownloadsIndex, SearchKeepsIndex,
        SearchCollectsFromS3, EndSearch, PassEnds, ReadsDeleted
  <2> QED
    BY <2>1
<1>3. CASE GcTick \/ GcPersists \/ GcLetsGo
  <2>1. at'["upload"] = at["upload"] /\ s3index' = s3index
    BY <1>3 DEF GcTick, GcPersists, GcLetsGo
  <2> QED
    BY <2>1
<1>4. ASSUME NEW a \in {"gc", "upload"}, DeleteStep(a) PROVE IndexRight'
  BY <1>4 DEF DeleteStep, DeleteGetsHour, RemoveFolder, LeaveMap
<1>5. CASE UploadTick \/ UploadGetsHour
  BY <1>5 DEF UploadTick, UploadGetsHour
<1>6. CASE UploadAsks
  <2>1. s3index' = s3index /\ at'["upload"] \in {AfterAsked, "idle"}
    BY <1>6 DEF UploadAsks
  <2> QED
    BY <2>1 DEF AfterAsked
<1>7. CASE SealStep
  BY <1>7 DEF SealStep, SealRefused, SealFlushFails, SealAndCopy
<1>8. CASE PutData \/ PutIndex \/ UploadForgets \/ UploadFails \/ UploadGivenUp
  BY <1>8 DEF PutData, PutIndex, UploadForgets, UploadFails, UploadGivenUp
<1>9. CASE GcS3Tick \/ GcS3Index \/ GcS3Data \/ GcS3Forgets
  BY <1>9 DEF GcS3Tick, GcS3Index, GcS3Data, GcS3Forgets
<1>10. CASE CacheLapses \/ Tick \/ Crash \/ UNCHANGED vars
  BY <1>10 DEF CacheLapses, Tick, Crash, vars
<1> QED
  BY <1>1, <1>2, <1>3, <1>4, <1>5, <1>6, <1>7, <1>8, <1>9, <1>10 DEF Next, GcStep, UploadStep

(* What is flushed makes the data file, and only an open hour has anything to *)
(* flush.                                                                     *)
LEMMA FilesStep ==
  ASSUME TypeOK, HoldersRight, FilesRight, [Next]_vars
  PROVE  FilesRight'
<1>0. HandlesOK /\ FlagsOK /\ RecordsOK
  BY DEF TypeOK
<1> USE <1>0, WhoActs DEF FilesRight
<1>1. CASE \/ BeginWrite \/ GcTick \/ UploadTick \/ UploadAsks \/ SealRefused
           \/ PutData \/ PutIndex \/ UploadForgets \/ UploadFails \/ UploadGivenUp
           \/ GcS3Tick \/ GcS3Index \/ GcS3Data \/ GcS3Forgets
           \/ CacheLapses \/ Tick \/ UNCHANGED vars
  <2>1. UNCHANGED <<slot, unflushed, file, local>>
    BY <1>1
    DEF BeginWrite, GcTick, UploadTick, UploadAsks, SealRefused, PutData, PutIndex,
        UploadForgets, UploadFails, UploadGivenUp, GcS3Tick, GcS3Index, GcS3Data,
        GcS3Forgets, CacheLapses, Tick, vars, memoryVars, diskVars
  <2> QED
    BY <2>1
<1>2. ASSUME NEW a \in Actors, GetHour(a), UNCHANGED diskVars PROVE FilesRight'
  <2>1. \/ UNCHANGED <<slot, unflushed>>
        \/ /\ map' \in Handles
           /\ slot' = [slot EXCEPT ![map'] = "closed"]
           /\ unflushed' = [unflushed EXCEPT ![map'] = {}]
    BY <1>2, GotIsOfTheMap
  <2>2. UNCHANGED <<file, local>>
    BY <1>2 DEF diskVars
  <2> QED
    BY <2>1, <2>2 DEF HandlesOK
<1>3. CASE WriteGetsHour
  BY <1>2, <1>3 DEF WriteGetsHour
<1>4. CASE WriteRefused
  <2>1. UNCHANGED <<slot, unflushed, file, local>>
    BY <1>4 DEF WriteRefused, WriteIsDropped, diskVars
  <2> QED
    BY <2>1
<1>5. CASE WriteFlushed
  <2>1. held["write"] \in Handles
    BY <1>5 DEF WriteFlushed, HoldersRight, HoldStages
  <2>2. \A h \in Handles : slot'[h] # "open" => unflushed'[h] = {}
    BY <1>5, <2>1 DEF WriteFlushed, HandlesOK
  <2>3. file' <=> local' # {}
    BY <1>5 DEF WriteFlushed, Flushed, FlagsOK
  <2> QED
    BY <2>2, <2>3
<1>6. CASE WriteFails
  <2>1. held["write"] \in Handles
    BY <1>6 DEF WriteFails, HoldersRight, HoldStages
  <2>2. \A h \in Handles : slot'[h] # "open" => unflushed'[h] = {}
    BY <1>6, <2>1 DEF WriteFails, HandlesOK
  <2> QED
    BY <1>6, <2>2 DEF WriteFails, diskVars
<1>7. ASSUME NEW a \in {"gc", "upload"}, DeleteStep(a) PROVE FilesRight'
  <2>1. CASE DeleteGetsHour(a)
    BY <1>2, <1>7, <2>1 DEF DeleteGetsHour
  <2>2. CASE RemoveFolder(a)
    <3>1. \A h \in Handles : slot'[h] # "open" => unflushed'[h] = {}
      BY <1>7, <2>2 DEF RemoveFolder, Emptied, HandlesOK
    <3>2. file' <=> local' # {}
      <4>1. file' \in {FALSE, file} /\ local' = (IF file' THEN local ELSE {})
        BY <2>2, Zenon DEF RemoveFolder
      <4>2. CASE file' = file
        BY <4>1, <4>2
      <4>3. CASE file' = FALSE
        BY <4>1, <4>3
      <4> QED
        BY <4>1, <4>2, <4>3, Zenon
    <3> QED
      BY <3>1, <3>2
  <2>3. CASE LeaveMap(a)
    BY <2>3 DEF LeaveMap, diskVars
  <2> QED
    BY <1>7, <2>1, <2>2, <2>3 DEF DeleteStep
<1>8. CASE GcPersists
  <2>1. \A h \in Handles : slot'[h] # "open" => unflushed'[h] = {}
    BY <1>8 DEF GcPersists, HandlesOK
  <2>2. file' <=> local' # {}
    BY <1>8 DEF GcPersists, Flushed, FlagsOK
  <2> QED
    BY <2>1, <2>2
<1>9. CASE GcLetsGo
  <2>1. \A h \in Handles : slot'[h] # "open" => unflushed'[h] = {}
    BY <1>9 DEF GcLetsGo, Emptied, HandlesOK, memoryVars
  <2> QED
    BY <1>9, <2>1 DEF GcLetsGo, diskVars
<1>10. CASE UploadGetsHour
  <2>1. CASE GetHour("upload")
    BY <1>2, <1>10, <2>1 DEF UploadGetsHour
  <2>2. CASE UNCHANGED memoryVars
    BY <1>10, <2>2 DEF UploadGetsHour, memoryVars, diskVars
  <2> QED
    BY <1>10, <2>1, <2>2 DEF UploadGetsHour
<1>11. CASE SealFlushFails \/ SealAndCopy
  <2>1. held["upload"] \in Handles
    BY <1>11 DEF SealFlushFails, SealAndCopy, HoldersRight, HoldStages
  <2>2. \A h \in Handles : slot'[h] # "open" => unflushed'[h] = {}
    BY <1>11, <2>1 DEF SealFlushFails, SealAndCopy, HandlesOK
  <2>3. CASE SealFlushFails
    BY <2>2, <2>3 DEF SealFlushFails, diskVars
  <2>4. CASE SealAndCopy
    <3>1. Flushed(unflushed[held["upload"]])
      BY <2>4 DEF SealAndCopy
    <3>2. file' <=> local' # {}
      BY <3>1 DEF Flushed, FlagsOK
    <3> QED
      BY <2>2, <3>2
  <2> QED
    BY <1>11, <2>3, <2>4
<1>12. ASSUME NEW r \in Readers, SearchStep(r) PROVE FilesRight'
  <2>1. CASE SearchGetsHour(r)
    <3>1. CASE GetHour(r)
      BY <1>2, <1>12, <2>1, <3>1 DEF SearchGetsHour
    <3>2. CASE UNCHANGED memoryVars
      BY <2>1, <3>2 DEF SearchGetsHour, memoryVars, diskVars
    <3> QED
      BY <2>1, <3>1, <3>2 DEF SearchGetsHour
  <2>2. CASE SearchOpensHour(r)
    <3>1. \A h \in Handles : slot'[h] # "open" => unflushed'[h] = {}
      BY <1>12, <2>2 DEF SearchOpensHour, HandlesOK
    <3> QED
      BY <2>2, <3>1 DEF SearchOpensHour, diskVars
  <2>3. CASE \/ BeginSearch(r) \/ SearchLocksHour(r) \/ SearchCollects(r)
             \/ SearchLooksInCache(r) \/ SearchDownloadsIndex(r) \/ SearchKeepsIndex(r)
             \/ SearchCollectsFromS3(r) \/ EndSearch(r)
    <3>1. UNCHANGED <<slot, unflushed, file, local>>
      BY <2>3
      DEF BeginSearch, SearchLocksHour, SearchCollects, SearchLooksInCache,
          SearchDownloadsIndex, SearchKeepsIndex, SearchCollectsFromS3, EndSearch,
          memoryVars, diskVars
    <3> QED
      BY <3>1
  <2> QED
    BY <1>12, <2>1, <2>2, <2>3 DEF SearchStep
<1>13. CASE Crash
  BY <1>13 DEF Crash, diskVars
<1> QED
  BY <1>1, <1>3, <1>4, <1>5, <1>6, <1>7, <1>8, <1>9, <1>10, <1>11, <1>12, <1>13
  DEF Next, WriteStep, GcStep, UploadStep, SealStep

LEMMA TypesStep ==
  ASSUME TypeOK, StagesRight, [Next]_vars
  PROVE  TypeOK' /\ StagesRight'
<1>1. at' \in [Actors -> Stages] /\ FlagsOK' /\ HandlesOK' /\ RecordsOK' /\ CountsOK'
  BY StagesStep, FlagsStep, HandlesStep, RecordsStep, CountsStep DEF TypeOK
<1>2. HoldersRight' /\ TimesRight' /\ IndexRight' /\ FilesRight'
  BY HoldersStep, TimesStep, IndexStep, FilesStep DEF StagesRight, TypeOK
<1> QED
  BY <1>1, <1>2 DEF TypeOK, StagesRight

(* Each variable of the life of an hour has the values the code gives it, and *)
(* each stage has got what it goes on with: whoever waits for the lock of the *)
(* hour or reads it has a handle of it, an upload goes on for an hour which   *)
(* is not in S3 already and whose local time is over, the gc deletes what is  *)
(* not to be kept, and a file is there when something was flushed.            *)
THEOREM HourTypesHold == Spec => [](TypeOK /\ StagesRight)
<1>1. Init => TypeOK /\ StagesRight
  BY TypesInit
<1>2. TypeOK /\ StagesRight /\ [Next]_vars => (TypeOK /\ StagesRight)'
  BY TypesStep
<1> QED
  BY <1>1, <1>2, PTL DEF Spec

-------------------------------------------------------------------------------
(* Until the hour expires, whoever works on its files does it through the  *)
(* handle of the map: two timers never delete it at once, and whoever has  *)
(* a handle from before finds it deleted.                                  *)

Deleting == {"remove folder", "leave map"}

(* Every handle but the one of the map is deleted, and whoever deletes the  *)
(* folder does it through the handle of the map.                            *)
HandleRight ==
  /\ \A h \in Handles : slot[h] # "deleted" => h = map
  /\ \A a \in {"gc", "upload"} :
       /\ at[a] \in Deleting => held[a] = map
       /\ at[a] = "leave map" => slot[map] = "deleted"

OneHandle == Expired \/ HandleRight

(* The gc deletes the hour and an upload deletes it, but not both. *)
LEMMA OneDeletes ==
  ASSUME TimesRight, ~ Expired
  PROVE  ~ (at["gc"] \in {"delete"} \union Deleting /\ at["upload"] # "idle")
BY DEF TimesRight, NotToBeKept, Expired, Deleting

LEMMA HandleStep ==
  ASSUME TypeOK, StagesRight, HandleRight, ~ Expired, [Next]_vars
  PROVE  HandleRight'
<1>0. at \in [Actors -> Stages] /\ HandlesOK /\ HoldersRight /\ TimesRight
  BY DEF TypeOK, StagesRight
<1>a. held \in [Actors -> Optional(Handles)] /\ slot \in [Handles -> {"closed", "open", "deleted"}]
  BY <1>0 DEF HandlesOK
<1>b. \A a \in {"gc", "upload"} : at[a] \in Deleting => held[a] \in Handles
  BY <1>0, WhoActs DEF HoldersRight, HoldStages, Deleting
<1> USE DEF HandleRight, Deleting
(* What leaves the map, the slots and the two timers alone. *)
<1>1. ASSUME /\ UNCHANGED <<map, slot>>
             /\ at'["gc"] = at["gc"] /\ at'["upload"] = at["upload"]
             /\ held'["gc"] = held["gc"] /\ held'["upload"] = held["upload"]
      PROVE  HandleRight'
  BY <1>1
<1>2. ASSUME NEW a \in Actors, NEW stage \in Stages \ {"leave map"}, GetHour(a), Go(a, stage)
      PROVE  HandleRight'
  <2>1. /\ map' \in Handles /\ held' = [held EXCEPT ![a] = map']
        /\ \/ map # None /\ UNCHANGED <<map, slot>>
           \/ map = None /\ slot' = [slot EXCEPT ![map'] = "closed"]
    BY <1>0, <1>2, GotIsOfTheMap
  <2>2. \A h \in Handles : slot'[h] # "deleted" => h = map'
    BY <1>a, <2>1, HourAssumption
  <2>3. ASSUME NEW b \in {"gc", "upload"}
        PROVE  /\ at'[b] \in Deleting => held'[b] = map'
               /\ at'[b] = "leave map" => slot'[map'] = "deleted"
    <3>1. b \in Actors
      BY WhoActs
    <3>2. CASE b = a
      BY <1>0, <1>2, <1>a, <2>1, <3>1, <3>2 DEF Go
    <3>3. CASE b # a
      <4>1. at'[b] = at[b] /\ held'[b] = held[b]
        BY <1>0, <1>2, <1>a, <2>1, <3>1, <3>3 DEF Go
      <4>2. at[b] \in Deleting => map \in Handles
        BY <1>b
      <4> QED
        BY <2>1, <4>1, <4>2, HourAssumption
    <3> QED
      BY <3>2, <3>3
  <2> QED
    BY <2>2, <2>3
(* Only the handle of the map is opened, closed or sealed. *)
<1>3. ASSUME NEW h \in Handles, slot[h] # "deleted", NEW s, slot' = [slot EXCEPT ![h] = s],
             map' = map,
             \A a \in {"gc", "upload"} :
               at'[a] \notin Deleting \/ (at'[a] = at[a] /\ held'[a] = held[a])
      PROVE  HandleRight'
  BY <1>3, <1>a
<1>4. ASSUME NEW a \in {"gc", "upload"}, NEW stage \in Stages \ Deleting, Go(a, stage),
             UNCHANGED <<map, slot>>, held' = held \/ LetGoOf(a)
      PROVE  HandleRight'
  <2>1. a \in Actors /\ at'[a] = stage
    BY <1>0, <1>4, WhoActs DEF Go
  <2>2. \A b \in {"gc", "upload"} : b # a => at'[b] = at[b] /\ held'[b] = held[b]
    BY <1>0, <1>a, <1>4, WhoActs DEF Go, LetGoOf
  <2> QED
    BY <1>4, <2>1, <2>2
<1> USE WhoActs DEF memoryVars
<1>5. CASE BeginWrite \/ WriteRefused \/ CacheLapses \/ Tick \/ UNCHANGED vars
  <2>1. /\ UNCHANGED <<map, slot>>
        /\ at'["gc"] = at["gc"] /\ at'["upload"] = at["upload"]
        /\ held'["gc"] = held["gc"] /\ held'["upload"] = held["upload"]
    BY <1>5, <1>0, <1>a
    DEF BeginWrite, WriteRefused, WriteIsDropped, EndWrite, End_, Go, LetGoOf, CacheLapses, Tick,
        vars
  <2> QED
    BY <1>1, <2>1
<1>6. CASE WriteGetsHour
  BY <1>2, <1>6, StageNames DEF WriteGetsHour
<1>7. CASE WriteFlushed \/ WriteFails
  <2>1. held["write"] \in Handles /\ CanWrite(held["write"])
    BY <1>0, <1>7 DEF WriteFlushed, WriteFails, HoldersRight, HoldStages
  <2>2. slot[held["write"]] # "deleted"
    BY <2>1 DEF CanWrite
  <2>3. \A a \in {"gc", "upload"} : at'[a] = at[a] /\ held'[a] = held[a]
    <3>1. Go("write", "idle") /\ LetGoOf("write")
      BY <1>7 DEF WriteFlushed, WriteFails, EndWrite, End_
    <3> QED
      BY <1>0, <1>a, <3>1 DEF Go, LetGoOf
  <2>4. map' = map /\ \E s : slot' = [slot EXCEPT ![held["write"]] = s]
    BY <1>7 DEF WriteFlushed, WriteFails
  <2> QED
    BY <1>3, <2>1, <2>2, <2>3, <2>4
<1>8. ASSUME NEW a \in {"gc", "upload"}, DeleteGetsHour(a) PROVE HandleRight'
  <2>1. a \in Actors /\ GetHour(a) /\ Go(a, "remove folder")
    BY <1>8 DEF DeleteGetsHour
  <2> QED
    BY <1>2, <2>1, StageNames
<1>9. ASSUME NEW a \in {"gc", "upload"}, RemoveFolder(a) PROVE HandleRight'
  <2>1. at[a] = "remove folder" /\ held[a] = map /\ map \in Handles
    BY <1>9, <1>b DEF RemoveFolder
  <2>2. slot' = [slot EXCEPT ![map] = "deleted"] /\ UNCHANGED <<map, held>> /\ Go(a, "leave map")
    BY <1>9, <2>1 DEF RemoveFolder, Emptied
  <2>3. \A h \in Handles : slot'[h] = "deleted"
    BY <1>a, <2>1, <2>2
  <2>4. \A b \in {"gc", "upload"} : b # a => at'[b] = at[b]
    BY <1>0, <2>2 DEF Go
  <2> QED
    BY <2>1, <2>2, <2>3, <2>4
<1>10. ASSUME NEW a \in {"gc", "upload"}, LeaveMap(a) PROVE HandleRight'
  <2>1. at[a] = "leave map" /\ held[a] = map /\ slot[map] = "deleted"
    BY <1>10 DEF LeaveMap
  <2>2. \A h \in Handles : slot'[h] = "deleted"
    BY <1>10, <1>a, <2>1 DEF LeaveMap
  <2>3. \A b \in {"gc", "upload"} : at'[b] \notin Deleting
    <3>1. at'[a] \in {"persist", "idle"}
      BY <1>0, <1>10 DEF LeaveMap, Go
    <3>2. ASSUME NEW b \in {"gc", "upload"}, b # a PROVE at'[b] \notin Deleting
      <4>1. at'[b] = at[b]
        BY <1>0, <1>10, <3>2 DEF LeaveMap, Go
      <4>2. at[b] \notin Deleting
        BY <1>0, <2>1, <3>2, OneDeletes
      <4> QED
        BY <4>1, <4>2
    <3> QED
      BY <3>1, <3>2
  <2> QED
    BY <2>2, <2>3
<1>11. CASE GcTick
  BY <1>4, <1>11, StageNames DEF GcTick
<1>12. CASE GcPersists
  BY <1>4, <1>12, StageNames DEF GcPersists
<1>13. CASE GcLetsGo
  <2>1. Go("gc", "idle") /\ held' = held
    BY <1>13 DEF GcLetsGo
  <2>2. CASE UNCHANGED memoryVars
    BY <1>4, <2>1, <2>2, StageNames
  <2>3. CASE map # None /\ (\A a \in Actors : held[a] # map) /\ map' = None /\ Emptied(map)
    <3>1. \A h \in Handles : slot'[h] = "deleted"
      BY <1>a, <2>3 DEF Emptied
    <3>2. at'["upload"] = at["upload"] /\ at'["gc"] = "idle" /\ at["upload"] \notin Deleting
      BY <1>0, <2>1, <2>3 DEF Go
    <3> QED
      BY <3>1, <3>2
  <2> QED
    BY <1>13, <2>2, <2>3 DEF GcLetsGo
<1>14. CASE UploadGetsHour
  <2>1. CASE GetHour("upload") /\ Go("upload", "seal")
    BY <1>2, <2>1, StageNames
  <2>2. CASE Go("upload", "delete") /\ UNCHANGED <<held, memoryVars>>
    BY <1>4, <2>2, StageNames
  <2> QED
    BY <1>14, <2>1, <2>2 DEF UploadGetsHour
<1>15. CASE SealRefused
  BY <1>4, <1>15, StageNames DEF SealRefused, End_
<1>16. CASE SealFlushFails \/ SealAndCopy
  <2>1. held["upload"] \in Handles /\ slot[held["upload"]] # "deleted"
    BY <1>0, <1>16 DEF SealFlushFails, SealAndCopy, HoldersRight, HoldStages
  <2>2. /\ at'["gc"] = at["gc"] /\ held'["gc"] = held["gc"]
        /\ at'["upload"] \in {"idle", "delete", "put data"}
    <3>1. LetGoOf("upload") /\ \E stage \in {"idle", "delete", "put data"} : Go("upload", stage)
      BY <1>16 DEF SealFlushFails, SealAndCopy, End_
    <3> QED
      BY <1>0, <1>a, <3>1 DEF Go, LetGoOf
  <2>3. map' = map /\ slot' = [slot EXCEPT ![held["upload"]] = "open"]
    BY <1>16 DEF SealFlushFails, SealAndCopy
  <2> QED
    BY <1>3, <2>1, <2>2, <2>3
<1>17. CASE \/ UploadTick \/ UploadAsks \/ PutData \/ PutIndex \/ UploadForgets \/ UploadFails
            \/ UploadGivenUp \/ GcS3Tick \/ GcS3Index \/ GcS3Data \/ GcS3Forgets
  <2>1. UNCHANGED <<map, slot, held>> /\ at'["gc"] = at["gc"]
    BY <1>0, <1>17
    DEF UploadTick, UploadAsks, PutData, PutIndex, UploadForgets, UploadFails, UploadGivenUp,
        GcS3Tick, GcS3Index, GcS3Data, GcS3Forgets, Go
  <2>2. at'["upload"] \notin Deleting
    BY <1>0, <1>17
    DEF UploadTick, UploadAsks, AfterAsked, PutData, PutIndex, UploadForgets, UploadFails,
        UploadGivenUp, GcS3Tick, GcS3Index, GcS3Data, GcS3Forgets, Go
  <2> QED
    BY <2>1, <2>2
<1>18. ASSUME NEW r \in Readers, SearchStep(r) PROVE HandleRight'
  <2>1. CASE SearchGetsHour(r)
    <3>1. CASE GetHour(r) /\ Go(r, "check")
      BY <1>2, <3>1, StageNames
    <3>2. CASE Go(r, "s3") /\ UNCHANGED <<held, memoryVars>>
      BY <1>0, <1>1, <3>2 DEF Go
    <3> QED
      BY <2>1, <3>1, <3>2 DEF SearchGetsHour
  <2>2. ASSUME \E stage : Go(r, stage) PROVE at'["gc"] = at["gc"] /\ at'["upload"] = at["upload"]
    BY <1>0, <2>2 DEF Go
  <2>3. CASE SearchOpensHour(r)
    <3>1. held[r] \in Handles
      BY <1>0, <2>3 DEF SearchOpensHour, HoldersRight, HoldStages
    <3>2. /\ at'["gc"] = at["gc"] /\ at'["upload"] = at["upload"] /\ map' = map
          /\ held'["gc"] = held["gc"] /\ held'["upload"] = held["upload"]
      BY <1>a, <2>2, <2>3 DEF SearchOpensHour, LetGoOf
    <3>3. CASE slot' = slot
      BY <1>1, <3>2, <3>3
    <3>4. CASE slot[held[r]] = "closed" /\ slot' = [slot EXCEPT ![held[r]] = "open"]
      BY <1>3, <3>1, <3>2, <3>4
    <3> QED
      BY <2>3, <3>3, <3>4 DEF SearchOpensHour
  <2>4. CASE \/ BeginSearch(r) \/ SearchLocksHour(r) \/ SearchCollects(r)
             \/ SearchLooksInCache(r) \/ SearchDownloadsIndex(r) \/ SearchKeepsIndex(r)
             \/ SearchCollectsFromS3(r) \/ EndSearch(r)
    <3>1. at'["gc"] = at["gc"] /\ at'["upload"] = at["upload"]
      BY <2>2, <2>4
      DEF BeginSearch, SearchLocksHour, SearchCollects, SearchLooksInCache,
          SearchDownloadsIndex, SearchKeepsIndex, SearchCollectsFromS3, EndSearch, PassEnds,
          ReadsDeleted
    <3>2. /\ UNCHANGED <<map, slot>>
          /\ held'["gc"] = held["gc"] /\ held'["upload"] = held["upload"]
      BY <1>a, <2>4
      DEF BeginSearch, SearchLocksHour, SearchCollects, SearchLooksInCache,
          SearchDownloadsIndex, SearchKeepsIndex, SearchCollectsFromS3, EndSearch,
          ReadsDeleted, LetGoOf
    <3> QED
      BY <1>1, <3>1, <3>2
  <2> QED
    BY <1>18, <2>1, <2>3, <2>4 DEF SearchStep
<1>19. CASE Crash
  BY <1>19 DEF Crash
<1> QED
  BY <1>5, <1>6, <1>7, <1>8, <1>9, <1>10, <1>11, <1>12, <1>13, <1>14, <1>15, <1>16, <1>17,
     <1>18, <1>19
  DEF Next, WriteStep, GcStep, UploadStep, SealStep, DeleteStep

(* Until the hour expires, a handle which is out of the map is deleted: the  *)
(* lock of the slot of the one in the map keeps a write, an upload, the gc   *)
(* and the searches apart (get_hour, delete_local, let_go_idle_hours).       *)
THEOREM OneHandleHolds == Spec => []OneHourFile
<1> DEFINE Inv == TypeOK /\ StagesRight /\ OneHandle
<1>1. Init => Inv
  <2>1. Init => HandleRight
    BY WhoActs DEF Init, HandleRight, Deleting
  <2> QED
    BY <2>1, TypesInit DEF OneHandle
<1>2. Inv /\ [Next]_vars => Inv'
  <2> SUFFICES ASSUME Inv, [Next]_vars PROVE Inv'
    OBVIOUS
  <2>1. TypeOK' /\ StagesRight'
    BY TypesStep
  <2>2. Expired => Expired'
    BY TimePasses DEF TypeOK
  <2>3. OneHandle'
    BY <2>2, HandleStep DEF OneHandle
  <2> QED
    BY <2>1, <2>3
<1>3. Inv => OneHourFile
  BY DEF OneHandle, HandleRight, OneHourFile, Expired
<1> HIDE DEF Inv
<1> QED
  BY <1>1, <1>2, <1>3, PTL DEF Spec
-------------------------------------------------------------------------------
(***************************************************************************)
(* What is uploaded is what was flushed: the seal holds while the copy of  *)
(* an hour is uploaded, the index in S3 names what the data files have,    *)
(* and the folder of the hour goes when both have all of it.               *)
(***************************************************************************)

(* The write task has asked for the hour of an upload since it began, so the *)
(* hour is not let go of under it.                                           *)
AskedRight ==
  at["upload"] \in {"seal", "put data"} /\ at["write"] # "idle" => asked

(* While the copy is put into S3, whoever still writes finds the hour sealed; *)
(* nothing is left in memory, and the copy has what the files have.           *)
CopyRight ==
  at["upload"] = "put data" /\ ~ Expired =>
    /\ at["write"] # "idle" => map # None /\ slot[map] = "open" /\ sealed[map]
    /\ \A h \in Handles : unflushed[h] = {}
    /\ s3data = None /\ copies # None => local = copies

SealRight == AskedRight /\ CopyRight

LEMMA AskedStep ==
  ASSUME TypeOK, TimesRight, AskedRight, [Next]_vars
  PROVE  AskedRight'
<1>0. at \in [Actors -> Stages]
  BY DEF TypeOK
<1> USE <1>0, WhoActs DEF AskedRight, Go, End_, memoryVars
<1>1. CASE BeginWrite
  <2>1. at'["upload"] = at["upload"] /\ asked' = asked
    BY <1>1 DEF BeginWrite
  <2>2. at["upload"] \in {"seal", "put data"} => at' = at
    BY <1>1 DEF BeginWrite, TimesRight
  <2> QED
    BY <2>1, <2>2
<1>2. CASE WriteGetsHour
  BY <1>2 DEF WriteGetsHour, GetHour
<1>3. CASE WriteRefused \/ WriteFlushed \/ WriteFails
  <2>1. at'["write"] = "idle"
    BY <1>3 DEF WriteRefused, WriteFlushed, WriteFails, EndWrite
  <2> QED
    BY <2>1
<1>4. ASSUME NEW a \in {"gc", "upload"}, DeleteStep(a) PROVE AskedRight'
  BY <1>4 DEF DeleteStep, DeleteGetsHour, GetHour, RemoveFolder, LeaveMap
<1>5. CASE GcTick \/ GcPersists \/ GcLetsGo
  BY <1>5 DEF GcTick, GcPersists, GcLetsGo
<1>6. CASE UploadGetsHour
  BY <1>6 DEF UploadGetsHour, GetHour
<1>7. CASE SealStep
  BY <1>7 DEF SealStep, SealRefused, SealFlushFails, SealAndCopy
<1>8. CASE \/ UploadTick \/ UploadAsks \/ PutData \/ PutIndex \/ UploadForgets \/ UploadFails
           \/ UploadGivenUp \/ GcS3Tick \/ GcS3Index \/ GcS3Data \/ GcS3Forgets
  <2>1. at'["upload"] \notin {"seal", "put data"}
    BY <1>8
    DEF UploadTick, UploadAsks, AfterAsked, PutData, PutIndex, UploadForgets, UploadFails,
        UploadGivenUp, GcS3Tick, GcS3Index, GcS3Data, GcS3Forgets
  <2> QED
    BY <2>1
<1>9. ASSUME NEW r \in Readers, SearchStep(r) PROVE AskedRight'
  <2>1. at'["upload"] = at["upload"] /\ at'["write"] = at["write"]
    BY <1>9
    DEF SearchStep, BeginSearch, SearchGetsHour, SearchOpensHour, SearchLocksHour,
        SearchCollects, SearchLooksInCache, SearchDownloadsIndex, SearchKeepsIndex,
        SearchCollectsFromS3, EndSearch, PassEnds, ReadsDeleted
  <2>2. asked' \in {asked, at["write"] # "idle"}
    BY <1>9, Zenon
    DEF SearchStep, BeginSearch, SearchGetsHour, GetHour, SearchOpensHour, SearchLocksHour,
        SearchCollects, SearchLooksInCache, SearchDownloadsIndex, SearchKeepsIndex,
        SearchCollectsFromS3, EndSearch
  <2> QED
    BY <2>1, <2>2
<1>10. CASE CacheLapses \/ Tick \/ Crash \/ UNCHANGED vars
  BY <1>10 DEF CacheLapses, Tick, Crash, vars
<1> QED
  BY <1>1, <1>2, <1>3, <1>4, <1>5, <1>6, <1>7, <1>8, <1>9, <1>10
  DEF Next, WriteStep, GcStep, UploadStep

LEMMA CopyStep ==
  ASSUME TypeOK, StagesRight, OneHandle, SealRight, [Next]_vars
  PROVE  CopyRight'
<1>0. /\ at \in [Actors -> Stages] /\ HandlesOK /\ HoldersRight /\ TimesRight /\ FilesRight
      /\ AskedRight /\ CopyRight
  BY DEF TypeOK, StagesRight, SealRight
<1>a. /\ held \in [Actors -> Optional(Handles)]
      /\ slot \in [Handles -> {"closed", "open", "deleted"}]
      /\ sealed \in [Handles -> BOOLEAN] /\ unflushed \in [Handles -> SUBSET Records]
      /\ map \in Optional(Handles)
  BY <1>0 DEF HandlesOK
<1>b. CopyRight' <=>
        (at'["upload"] = "put data" /\ ~ Expired' =>
           /\ at'["write"] # "idle" => map' # None /\ slot'[map'] = "open" /\ sealed'[map']
           /\ \A h \in Handles : unflushed'[h] = {}
           /\ s3data' = None /\ copies' # None => local' = copies')
  BY DEF CopyRight
<1>c. SUFFICES ASSUME at'["upload"] = "put data", ~ Expired' PROVE CopyRight'
  BY <1>b
<1>d. ~ Expired
  BY <1>c, TimePasses DEF TypeOK
<1>e. HandleRight
  BY <1>d DEF OneHandle
<1> USE <1>c, <1>d, WhoActs DEF memoryVars, diskVars, archiveVars
(* An upload comes here with the seal. *)
<1>1. CASE SealAndCopy
  <2> DEFINE h == held["upload"]
  <2>1. h \in Handles /\ slot[h] # "deleted" /\ h = map
    BY <1>0, <1>1, <1>e DEF SealAndCopy, HoldersRight, HoldStages, HandleRight
  <2>2. /\ slot' = [slot EXCEPT ![h] = "open"] /\ map' = map
        /\ unflushed' = [unflushed EXCEPT ![h] = {}]
        /\ s3data' = s3data /\ local' = local \union unflushed[h]
    BY <1>1 DEF SealAndCopy, Flushed
  <2>3. sealed' = [sealed EXCEPT ![h] = TRUE] /\ copies' = local \union unflushed[h]
    BY <1>0, <1>1 DEF SealAndCopy, Go
  <2>4. map' # None /\ slot'[map'] = "open" /\ sealed'[map']
    BY <1>a, <2>1, <2>2, <2>3, HourAssumption
  <2>5. \A g \in Handles : unflushed'[g] = {}
    BY <1>0, <1>a, <1>e, <2>1, <2>2 DEF HandleRight, FilesRight
  <2> QED
    BY <1>b, <2>2, <2>3, <2>4, <2>5
<1>2. CASE \/ UploadTick \/ UploadAsks \/ PutData \/ PutIndex \/ UploadForgets \/ UploadFails
           \/ UploadGivenUp \/ GcS3Tick \/ GcS3Index \/ GcS3Data \/ GcS3Forgets
           \/ UploadGetsHour \/ SealRefused \/ SealFlushFails \/ DeleteStep("upload") \/ Crash
  <2>1. at'["upload"] # "put data"
    BY <1>0, <1>2
    DEF UploadTick, UploadAsks, AfterAsked, PutData, PutIndex, UploadForgets, UploadFails,
        UploadGivenUp, GcS3Tick, GcS3Index, GcS3Data, GcS3Forgets, UploadGetsHour, SealRefused,
        SealFlushFails, DeleteStep, DeleteGetsHour, RemoveFolder, LeaveMap, Crash, Go, End_
  <2> QED
    BY <2>1
<1>3. ASSUME at["upload"] = "put data"
      PROVE  /\ at["write"] # "idle" => asked /\ map # None /\ slot[map] = "open" /\ sealed[map]
             /\ \A h \in Handles : unflushed[h] = {}
             /\ s3data = None /\ copies # None => local = copies
             /\ at["gc"] \notin {"delete"} \union Deleting
  BY <1>0, <1>3, OneDeletes DEF AskedRight, CopyRight
(* The hour of the map stays, whoever gets it. *)
<1>4. ASSUME NEW a \in Actors, GetHour(a), at["upload"] = "put data", at'["write"] # "idle",
             at["write"] # "idle"
      PROVE  map' # None /\ slot'[map'] = "open" /\ sealed'[map']
  <2>1. map # None
    BY <1>3, <1>4
  <2> QED
    BY <1>0, <1>3, <1>4, <2>1, GotIsOfTheMap
<1>5. ASSUME NEW a \in Actors, GetHour(a), at["upload"] = "put data"
      PROVE  \A h \in Handles : unflushed'[h] = {}
  <2>1. unflushed' = unflushed \/ unflushed' = [unflushed EXCEPT ![map'] = {}]
    BY <1>0, <1>5, GotIsOfTheMap
  <2> QED
    BY <1>3, <1>5, <1>a, <2>1
<1>6. CASE BeginWrite
  <2>1. at["upload"] = "put data" /\ UNCHANGED <<memoryVars, diskVars, archiveVars>>
    BY <1>0, <1>6 DEF BeginWrite, Go
  <2>2. at' = at
    BY <1>0, <1>6, <2>1 DEF BeginWrite, TimesRight
  <2> QED
    BY <1>3, <1>b, <2>1, <2>2
<1>7. CASE WriteGetsHour
  <2>1. /\ at["upload"] = "put data" /\ at["write"] # "idle" /\ GetHour("write")
        /\ at'["write"] # "idle" /\ UNCHANGED <<diskVars, archiveVars>>
    BY <1>0, <1>7 DEF WriteGetsHour, Go
  <2> QED
    BY <1>3, <1>4, <1>5, <1>b, <2>1
<1>8. CASE WriteRefused
  <2>1. /\ at["upload"] = "put data" /\ at'["write"] = "idle"
        /\ UNCHANGED <<unflushed, diskVars, archiveVars>>
    BY <1>0, <1>8 DEF WriteRefused, EndWrite, End_, Go
  <2> QED
    BY <1>3, <1>b, <2>1
<1>9. CASE WriteFlushed \/ WriteFails
  <2>1. at["upload"] = "put data" /\ at["write"] # "idle"
    <3>1. at["write"] = "lock" /\ Go("write", "idle")
      BY <1>9 DEF WriteFlushed, WriteFails, EndWrite, End_
    <3> QED
      BY <1>0, <3>1 DEF Go
  <2>2. held["write"] \in Handles /\ CanWrite(held["write"])
    BY <1>0, <1>9 DEF WriteFlushed, WriteFails, HoldersRight, HoldStages
  <2>3. held["write"] = map
    BY <1>e, <2>2 DEF CanWrite, HandleRight
  <2> QED
    BY <1>3, <2>1, <2>2, <2>3 DEF CanWrite
<1>10. CASE GcTick
  <2>1. /\ at["upload"] = "put data" /\ at'["write"] = at["write"]
        /\ UNCHANGED <<memoryVars, diskVars, archiveVars>>
    BY <1>0, <1>10 DEF GcTick, Go
  <2> QED
    BY <1>3, <1>b, <2>1
<1>11. CASE DeleteStep("gc")
  <2>1. at["upload"] = "put data" /\ at["gc"] \in {"delete"} \union Deleting
    BY <1>0, <1>11 DEF DeleteStep, DeleteGetsHour, RemoveFolder, LeaveMap, Go, Deleting
  <2> QED
    BY <1>3, <2>1
<1>12. CASE GcPersists
  <2>1. at["upload"] = "put data" /\ at'["write"] = at["write"]
    BY <1>0, <1>12 DEF GcPersists, Go
  <2>2. UNCHANGED <<map, slot, sealed, copies, s3data>>
    BY <1>12 DEF GcPersists
  <2>3. local' = local /\ \A h \in Handles : unflushed'[h] = {}
    <3>1. CASE map # None /\ slot[map] = "open"
      <4>1. map \in Handles /\ unflushed[map] = {}
        BY <1>3, <1>a, <2>1, <3>1 DEF Optional
      <4>2. local' \in {local, local \union unflushed[map]}
        BY <1>12, <3>1 DEF GcPersists, Flushed
      <4>3. unflushed' = unflushed \/ unflushed' = [unflushed EXCEPT ![map] = {}]
        BY <1>12, <3>1 DEF GcPersists
      <4> QED
        BY <1>3, <1>a, <2>1, <4>1, <4>2, <4>3
    <3>2. CASE ~ (map # None /\ slot[map] = "open")
      BY <1>3, <1>12, <2>1, <3>2 DEF GcPersists
    <3> QED
      BY <3>1, <3>2
  <2> QED
    BY <1>3, <1>b, <2>1, <2>2, <2>3
<1>13. CASE GcLetsGo
  <2>1. /\ at["upload"] = "put data" /\ at'["write"] = at["write"]
        /\ UNCHANGED <<diskVars, archiveVars>>
    BY <1>0, <1>13 DEF GcLetsGo, Go
  <2>2. CASE UNCHANGED memoryVars
    BY <1>3, <1>b, <2>1, <2>2
  <2>3. CASE ~ asked /\ map # None /\ Emptied(map)
    <3>1. at["write"] = "idle"
      BY <1>3, <2>1, <2>3
    <3>2. \A h \in Handles : unflushed'[h] = {}
      BY <1>3, <1>a, <2>1, <2>3 DEF Emptied
    <3> QED
      BY <1>3, <1>b, <2>1, <3>1, <3>2
  <2> QED
    BY <1>13, <2>2, <2>3 DEF GcLetsGo
<1>14. ASSUME NEW r \in Readers, SearchStep(r) PROVE CopyRight'
  <2>1. at'["upload"] = at["upload"] /\ at'["write"] = at["write"]
    BY <1>0, <1>14
    DEF SearchStep, BeginSearch, SearchGetsHour, SearchOpensHour, SearchLocksHour,
        SearchCollects, SearchLooksInCache, SearchDownloadsIndex, SearchKeepsIndex,
        SearchCollectsFromS3, EndSearch, PassEnds, ReadsDeleted, Go
  <2>2. UNCHANGED <<diskVars, archiveVars>>
    BY <1>14
    DEF SearchStep, BeginSearch, SearchGetsHour, SearchOpensHour, SearchLocksHour,
        SearchCollects, SearchLooksInCache, SearchDownloadsIndex, SearchKeepsIndex,
        SearchCollectsFromS3, EndSearch
  <2>3. CASE GetHour(r)
    <3>1. at'["write"] # "idle" => map' # None /\ slot'[map'] = "open" /\ sealed'[map']
      BY <1>4, <1>14, <2>1, <2>3
    <3>2. \A h \in Handles : unflushed'[h] = {}
      BY <1>5, <1>14, <2>1, <2>3
    <3> QED
      BY <1>3, <1>b, <2>1, <2>2, <3>1, <3>2
  <2>4. CASE UNCHANGED <<map, slot, sealed, unflushed>>
    BY <1>3, <1>b, <2>1, <2>2, <2>4
  <2>5. CASE SearchOpensHour(r)
    <3>1. held[r] \in Handles
      BY <1>0, <2>5 DEF SearchOpensHour, HoldersRight, HoldStages
    <3>2. CASE slot[held[r]] = "closed" /\ slot' = [slot EXCEPT ![held[r]] = "open"]
      <4>1. held[r] = map
        BY <1>e, <3>1, <3>2 DEF HandleRight
      <4>2. at["write"] = "idle"
        BY <1>3, <2>1, <3>2, <4>1
      <4>3. unflushed' = unflushed
        BY <2>5 DEF SearchOpensHour
      <4> QED
        BY <1>3, <1>b, <2>1, <2>2, <4>2, <4>3
    <3> QED
      BY <2>4, <2>5, <3>2 DEF SearchOpensHour
  <2> QED
    BY <1>14, <2>3, <2>4, <2>5
    DEF SearchStep, BeginSearch, SearchGetsHour, SearchLocksHour,
        SearchCollects, SearchLooksInCache, SearchDownloadsIndex, SearchKeepsIndex,
        SearchCollectsFromS3, EndSearch
<1>15. CASE CacheLapses \/ Tick \/ UNCHANGED vars
  <2>1. UNCHANGED <<at, memoryVars, diskVars, archiveVars>>
    BY <1>15 DEF CacheLapses, Tick, vars
  <2> QED
    BY <1>3, <1>b, <2>1
<1> QED
  BY <1>1, <1>2, <1>6, <1>7, <1>8, <1>9, <1>10, <1>11, <1>12, <1>13, <1>14, <1>15
  DEF Next, WriteStep, GcStep, UploadStep, SealStep

(* Nothing is flushed into the hour while its copy is put into S3. *)
LEMMA NothingIsFlushed ==
  ASSUME TypeOK, StagesRight, OneHandle, SealRight, at["upload"] = "put data", ~ Expired
  PROVE  /\ ~ WriteFlushed
         /\ map # None => unflushed[map] = {}
<1>0. /\ HandlesOK /\ HoldersRight /\ HandleRight
      /\ at["write"] # "idle" => map # None /\ slot[map] = "open" /\ sealed[map]
      /\ \A h \in Handles : unflushed[h] = {}
  BY DEF TypeOK, StagesRight, OneHandle, SealRight, CopyRight
<1>1. ASSUME WriteFlushed PROVE FALSE
  <2>1. held["write"] \in Handles /\ CanWrite(held["write"]) /\ at["write"] # "idle"
    BY <1>0, <1>1, WhoActs DEF WriteFlushed, HoldersRight, HoldStages
  <2> QED
    BY <1>0, <2>1 DEF CanWrite, HandleRight
<1>2. map # None => unflushed[map] = {}
  BY <1>0 DEF HandlesOK, Optional
<1> QED
  BY <1>1, <1>2

-------------------------------------------------------------------------------
(* The steps, as the files and S3 see them. *)

keptVars == <<folder, file, local, copies, s3data, s3index, stored, afterData>>

(* The files and S3 are left alone; an upload may go on to another stage, *)
(* which asks for the folder or finds the hour in S3.                     *)
LeavesFiles ==
  /\ UNCHANGED keptVars
  /\ \/ at'["upload"] = at["upload"]
     \/ /\ at'["upload"] \notin {"put data", "put index"}
        /\ at'["upload"] \in {"ask", "get hour", "seal"} =>
             \/ at["upload"] \in {"ask", "get hour", "seal"}
             \/ ~ Expired /\ folder
        /\ at'["upload"] \in {"forget", "delete", "remove folder"} =>
             \/ at["upload"] \in {"forget", "delete", "remove folder"}
             \/ s3index # None
             \/ at["upload"] = "get hour" /\ ~ file

(* Something is flushed, of which a copy which is put into S3 has nothing. *)
FlushesFiles ==
  /\ \E records \in SUBSET Records :
       /\ Flushed(records)
       /\ at["upload"] = "put data" /\ ~ Expired => records = {}
  /\ UNCHANGED <<copies, s3data, s3index>>
  /\ at'["upload"] = at["upload"]

LEMMA StepsOfFiles ==
  ASSUME TypeOK, StagesRight, OneHandle, SealRight, [Next]_vars
  PROVE  \/ LeavesFiles \/ FlushesFiles \/ SealAndCopy \/ PutData \/ PutIndex
         \/ UploadFails \/ GcS3Index \/ GcS3Data \/ RemoveFolder("gc") \/ RemoveFolder("upload")
<1>0. at \in [Actors -> Stages] /\ HandlesOK /\ RecordsOK /\ HoldersRight
  BY DEF TypeOK, StagesRight
<1> USE <1>0, WhoActs DEF Go, End_, diskVars, archiveVars, pastVars, keptVars
<1>1. CASE BeginWrite \/ WriteGetsHour \/ WriteRefused \/ WriteFails
  <2>1. UNCHANGED keptVars /\ at'["upload"] = at["upload"]
    BY <1>1 DEF BeginWrite, WriteGetsHour, WriteRefused, WriteFails, EndWrite
  <2> QED
    BY <2>1 DEF LeavesFiles
<1>2. CASE WriteFlushed
  <2>1. held["write"] \in Handles /\ writing \in Records
    BY <1>2 DEF WriteFlushed, HoldersRight, HoldStages
  <2>2. unflushed[held["write"]] \union {writing} \in SUBSET Records
    BY <2>1 DEF HandlesOK
  <2>3. /\ Flushed(unflushed[held["write"]] \union {writing})
        /\ UNCHANGED <<copies, s3data, s3index>> /\ at'["upload"] = at["upload"]
    BY <1>2 DEF WriteFlushed, EndWrite
  <2>4. ~ (at["upload"] = "put data" /\ ~ Expired)
    BY <1>2, NothingIsFlushed
  <2> QED
    BY <2>2, <2>3, <2>4 DEF FlushesFiles
<1>3. CASE GcTick \/ GcLetsGo \/ DeleteGetsHour("gc") \/ LeaveMap("gc")
  <2>1. UNCHANGED keptVars /\ at'["upload"] = at["upload"]
    BY <1>3 DEF GcTick, GcLetsGo, DeleteGetsHour, LeaveMap
  <2> QED
    BY <2>1 DEF LeavesFiles
<1>4. CASE GcPersists
  <2>1. UNCHANGED <<copies, s3data, s3index>> /\ at'["upload"] = at["upload"]
    BY <1>4 DEF GcPersists
  <2>2. CASE UNCHANGED <<folder, file, local, pastVars>>
    BY <2>1, <2>2 DEF LeavesFiles
  <2>3. CASE map # None /\ Flushed(unflushed[map])
    <3>1. unflushed[map] \in SUBSET Records
      BY <2>3 DEF HandlesOK, Optional
    <3>2. at["upload"] = "put data" /\ ~ Expired => unflushed[map] = {}
      BY <2>3, NothingIsFlushed
    <3> QED
      BY <2>1, <2>3, <3>1, <3>2 DEF FlushesFiles
  <2> QED
    BY <1>4, <2>2, <2>3 DEF GcPersists
<1>5. CASE UploadTick
  BY <1>5 DEF UploadTick, LeavesFiles, is_to_upload, Expired
<1>6. CASE UploadAsks
  BY <1>6 DEF UploadAsks, AfterAsked, LeavesFiles
<1>7. CASE UploadGetsHour
  BY <1>7 DEF UploadGetsHour, LeavesFiles
<1>8. CASE SealRefused \/ SealFlushFails \/ UploadGivenUp \/ GcS3Tick \/ GcS3Forgets
  <2>1. UNCHANGED keptVars /\ at'["upload"] \in {"idle", "gc index"}
    BY <1>8 DEF SealRefused, SealFlushFails, UploadGivenUp, GcS3Tick, GcS3Forgets
  <2> QED
    BY <2>1 DEF LeavesFiles
<1>9. CASE UploadForgets \/ DeleteGetsHour("upload") \/ LeaveMap("upload")
  BY <1>9 DEF UploadForgets, DeleteGetsHour, LeaveMap, LeavesFiles
<1>10. ASSUME NEW r \in Readers, SearchStep(r) PROVE LeavesFiles
  <2>1. at'["upload"] = at["upload"]
    BY <1>10
    DEF SearchStep, BeginSearch, SearchGetsHour, SearchOpensHour, SearchLocksHour,
        SearchCollects, SearchLooksInCache, SearchDownloadsIndex, SearchKeepsIndex,
        SearchCollectsFromS3, EndSearch, PassEnds, ReadsDeleted
  <2>2. UNCHANGED keptVars
    BY <1>10
    DEF SearchStep, BeginSearch, SearchGetsHour, SearchOpensHour, SearchLocksHour,
        SearchCollects, SearchLooksInCache, SearchDownloadsIndex, SearchKeepsIndex,
        SearchCollectsFromS3, EndSearch
  <2> QED
    BY <2>1, <2>2 DEF LeavesFiles
<1>11. CASE CacheLapses \/ Tick \/ Crash \/ UNCHANGED vars
  BY <1>11 DEF CacheLapses, Tick, Crash, vars, LeavesFiles
<1> QED
  BY <1>1, <1>2, <1>3, <1>4, <1>5, <1>6, <1>7, <1>8, <1>9, <1>10, <1>11
  DEF Next, WriteStep, GcStep, UploadStep, SealStep, DeleteStep

-------------------------------------------------------------------------------
(* What is in S3 *)

(* The data files in S3 have what the copy has and what the files have, as    *)
(* long as nothing is written into the hour after they are there.             *)
Whole ==
  /\ at["upload"] = "put data" /\ copies # None /\ s3data # None /\ afterData = {} =>
       s3data = copies
  /\ at["upload"] = "put index" => s3data # None
  /\ at["upload"] = "put index" /\ copies # None /\ afterData = {} => s3data = copies
  /\ /\ ~ Expired \/ at["upload"] \in {"ask", "get hour", "seal"}
     /\ s3data # None /\ afterData = {}
     => local \in {s3data, {}}
  /\ ArchiveIsWhole

LEMMA WholeStep ==
  ASSUME TypeOK, StagesRight, OneHandle, SealRight, Whole, [Next]_vars
  PROVE  Whole'
<1>0. /\ at \in [Actors -> Stages] /\ RecordsOK /\ HoldersRight /\ IndexRight /\ HandlesOK
  BY DEF TypeOK, StagesRight
<1>a. Expired => Expired'
  BY TimePasses DEF TypeOK
<1>b. Whole' <=>
        /\ at'["upload"] = "put data" /\ copies' # None /\ s3data' # None /\ afterData' = {} =>
             s3data' = copies'
        /\ at'["upload"] = "put index" => s3data' # None
        /\ at'["upload"] = "put index" /\ copies' # None /\ afterData' = {} => s3data' = copies'
        /\ /\ ~ Expired' \/ at'["upload"] \in {"ask", "get hour", "seal"}
           /\ s3data' # None /\ afterData' = {}
           => local' \in {s3data', {}}
        /\ s3index' # None /\ afterData' = {} => s3data' = s3index'
  BY DEF Whole, ArchiveIsWhole
<1> USE <1>a, WhoActs DEF diskVars, archiveVars, pastVars
<1>1. CASE LeavesFiles
  BY <1>b, <1>1 DEF LeavesFiles, keptVars, Whole, ArchiveIsWhole
<1>2. CASE FlushesFiles
  <2>1. PICK records \in SUBSET Records : Flushed(records)
    BY <1>2 DEF FlushesFiles
  <2>2. \/ s3data = None
        \/ afterData' = {} => afterData = {} /\ local' = local
    BY <2>1 DEF Flushed
  <2>3. UNCHANGED <<copies, s3data, s3index>> /\ at'["upload"] = at["upload"]
    BY <1>2 DEF FlushesFiles
  <2>4. s3data = None => afterData' = afterData
    BY <2>1 DEF Flushed
  <2> QED
    BY <1>b, <2>2, <2>3, <2>4 DEF Whole, ArchiveIsWhole
<1>3. CASE SealAndCopy
  <2> DEFINE records == unflushed[held["upload"]]
  <2>1. /\ at["upload"] = "seal" /\ Flushed(records) /\ UNCHANGED <<s3data, s3index>>
        /\ at'["upload"] \in {"delete", "put data", "idle"}
        /\ at'["upload"] = "put data" => copies' = local \union records /\ copies' # {}
    BY <1>0, <1>3 DEF SealAndCopy, Go
  <2>2. CASE s3data = None
    BY <1>0, <1>b, <2>1, <2>2 DEF IndexRight
  <2>3. CASE s3data # None
    <3>1. afterData' = {} => afterData = {} /\ records = {} /\ local' = local
      BY <2>1, <2>3 DEF Flushed
    <3>2. afterData' = {} => local \in {s3data, {}}
      BY <2>1, <2>3, <3>1 DEF Whole
    <3> QED
      BY <1>0, <1>b, <2>1, <2>3, <3>1, <3>2 DEF IndexRight
  <2> QED
    BY <2>2, <2>3
<1>4. CASE PutData
  <2>1. /\ at["upload"] = "put data" /\ s3index = None /\ s3index' = None
        /\ UNCHANGED <<local, copies, afterData>>
    BY <1>0, <1>4 DEF PutData, IndexRight
  <2>2. CASE s3data' = s3data /\ at'["upload"] = "failed"
    BY <1>b, <2>1, <2>2 DEF Whole, ArchiveIsWhole
  <2>3. CASE /\ copies # None /\ s3data' \in {copies, s3data} /\ s3data' # None
             /\ at'["upload"] = "put index"
    <3>1. afterData = {} => s3data' = copies
      BY <2>1, <2>3 DEF Whole
    <3>2. afterData = {} /\ ~ Expired => local \in {s3data', {}}
      BY <2>1, <2>3, <3>1 DEF Whole, SealRight, CopyRight
    <3> QED
      BY <1>b, <2>1, <2>3, <3>1, <3>2
  <2>4. \/ s3data' = s3data /\ at'["upload"] = "failed"
        \/ /\ copies # None /\ s3data' \in {copies, s3data} /\ s3data' # None
           /\ at'["upload"] = "put index"
    BY <1>0, <1>4 DEF PutData, Go
  <2> QED
    BY <2>2, <2>3, <2>4
<1>5. CASE PutIndex
  <2>1. /\ at["upload"] = "put index" /\ at'["upload"] \in {"forget", "failed"}
        /\ UNCHANGED <<local, copies, afterData, s3data>>
        /\ s3index' = s3index \/ (copies # None /\ s3index' = copies)
    BY <1>0, <1>5 DEF PutIndex, Go
  <2> QED
    BY <1>b, <2>1 DEF Whole, ArchiveIsWhole
<1>6. CASE UploadFails
  <2>1. at'["upload"] = "idle" /\ UNCHANGED <<local, afterData, s3data, s3index>>
    BY <1>0, <1>6 DEF UploadFails, Go
  <2> QED
    BY <1>b, <2>1 DEF Whole, ArchiveIsWhole
<1>7. CASE GcS3Index
  <2>1. /\ at'["upload"] \in {"gc data", "idle"} /\ UNCHANGED <<local, copies, afterData, s3data>>
        /\ s3index' \in {s3index, None}
    BY <1>0, <1>7 DEF GcS3Index, Go
  <2> QED
    BY <1>b, <2>1 DEF Whole, ArchiveIsWhole
<1>8. CASE GcS3Data
  <2>1. /\ s3index = None /\ s3index' = None /\ at'["upload"] \in {"gc forget", "idle"}
        /\ UNCHANGED <<local, copies, afterData>> /\ s3data' \in {s3data, None}
    BY <1>0, <1>8 DEF GcS3Data, Go, IndexRight
  <2> QED
    BY <1>b, <2>1 DEF Whole, ArchiveIsWhole
<1>9. ASSUME NEW a \in {"gc", "upload"}, RemoveFolder(a) PROVE Whole'
  <2>1. UNCHANGED <<s3data, s3index, afterData>>
    BY <1>9 DEF RemoveFolder
  <2>2. local' \in {local, {}} /\ copies' \in {copies, None}
    BY <1>9 DEF RemoveFolder
  <2>3. at'["upload"] = at["upload"] \/ at'["upload"] = "leave map"
    BY <1>0, <1>9 DEF RemoveFolder, Go
  <2> QED
    BY <1>b, <2>1, <2>2, <2>3 DEF Whole, ArchiveIsWhole
<1> QED
  BY <1>1, <1>2, <1>3, <1>4, <1>5, <1>6, <1>7, <1>8, <1>9, StepsOfFiles

-------------------------------------------------------------------------------
(* What is stored *)

(* What the files have is in the copy, and in S3 once it is there; the folder *)
(* is deleted when it is.                                                     *)
KeptRight ==
  /\ folder /\ ~ file => s3index # None
  /\ at["upload"] \in {"ask", "get hour", "seal"} => folder
  /\ at["upload"] \in {"forget", "delete", "remove folder"} => s3index # None
  /\ at["upload"] \in {"put data", "put index"} /\ copies # None =>
       local \ afterData \subseteq copies
  /\ s3index # None => s3data # None /\ local \ afterData \subseteq s3index
  /\ s3data # None => local \ afterData \subseteq s3data
  /\ \A m \in stored \ afterData :
       m \in local \/ (s3index # None /\ s3data # None /\ m \in s3index \intersect s3data)

Kept == NotToBeKept \/ KeptRight

LEMMA KeptStep ==
  ASSUME TypeOK, StagesRight, OneHandle, SealRight, Whole, KeptRight, ~ NotToBeKept, [Next]_vars
  PROVE  KeptRight'
<1>0. /\ at \in [Actors -> Stages] /\ RecordsOK /\ HandlesOK /\ FlagsOK
      /\ HoldersRight /\ IndexRight /\ TimesRight /\ FilesRight
  BY DEF TypeOK, StagesRight
<1>a. /\ ~ Expired /\ at["gc"] \notin {"delete", "remove folder", "leave map"}
      /\ at["upload"] \notin {"gc index", "gc data", "gc forget"}
  BY <1>0 DEF NotToBeKept, Expired, TimesRight
<1> USE <1>0, <1>a, WhoActs DEF diskVars, archiveVars, pastVars
<1>1. CASE LeavesFiles
  BY <1>1 DEF LeavesFiles, keptVars, KeptRight
<1>2. CASE FlushesFiles
  <2>1. PICK records \in SUBSET Records :
          /\ Flushed(records)
          /\ at["upload"] = "put data" => records = {}
    BY <1>2 DEF FlushesFiles
  <2>2. UNCHANGED <<copies, s3data, s3index>> /\ at'["upload"] = at["upload"]
    BY <1>2 DEF FlushesFiles
  <2>3. /\ local' = local \union records /\ stored' = stored \union records
        /\ afterData' = IF s3data # None THEN afterData \union records ELSE afterData
    BY <2>1 DEF Flushed
  <2>4. (folder' /\ ~ file' => folder /\ ~ file) /\ (folder => folder')
    BY <2>1 DEF Flushed, FlagsOK
  <2>5. at["upload"] = "put index" => s3data # None
    BY DEF Whole
  <2>6. s3data # None => local' \ afterData' \subseteq local \ afterData
    BY <2>3
  <2>7. at["upload"] = "put data" => local' \ afterData' \subseteq local \ afterData
    BY <2>1, <2>3
  <2>8. \A m \in stored' \ afterData' :
          m \in local' \/ (s3index # None /\ s3data # None /\ m \in s3index \intersect s3data)
    BY <2>3 DEF KeptRight
  <2> QED
    BY <2>2, <2>4, <2>5, <2>6, <2>7, <2>8 DEF KeptRight
<1>3. CASE SealAndCopy
  <2> DEFINE records == unflushed[held["upload"]]
  <2>1. /\ at["upload"] = "seal" /\ Flushed(records) /\ UNCHANGED <<s3data, s3index>>
        /\ at'["upload"] \in {"delete", "put data", "idle"}
        /\ at'["upload"] = "put data" => copies' = local \union records
        /\ at'["upload"] = "delete" => local \union records = {}
    BY <1>3 DEF SealAndCopy, Go
  <2>2. s3index = None /\ folder
    BY <2>1 DEF IndexRight, KeptRight
  <2>3. file /\ local # {}
    BY <2>2 DEF KeptRight, FilesRight, FlagsOK
  <2>4. /\ local' = local \union records /\ stored' = stored \union records
        /\ afterData' = IF s3data # None THEN afterData \union records ELSE afterData
        /\ file'
    BY <2>1, <2>3 DEF Flushed
  <2>5. s3data # None => local' \ afterData' \subseteq local \ afterData
    BY <2>4
  <2>6. \A m \in stored' \ afterData' : m \in local'
    BY <2>2, <2>4 DEF KeptRight
  <2>7. s3data' # None => local' \ afterData' \subseteq s3data'
    BY <2>1, <2>5 DEF KeptRight
  <2>8. at'["upload"] \in {"put data", "idle"}
    BY <2>1, <2>3
  <2> HIDE DEF records
  <2> QED
    BY <2>1, <2>2, <2>4, <2>6, <2>7, <2>8 DEF KeptRight
<1>4. CASE PutData
  <2>1. /\ at["upload"] = "put data" /\ s3index = None /\ s3index' = None
        /\ UNCHANGED <<folder, file, local, copies, stored, afterData>>
    BY <1>4 DEF PutData, IndexRight
  <2>2. \/ s3data' = s3data /\ at'["upload"] = "failed"
        \/ /\ copies # None /\ s3data' \in {copies, s3data} /\ s3data' # None
           /\ at'["upload"] = "put index"
    BY <1>4 DEF PutData, Go
  <2> QED
    BY <2>1, <2>2 DEF KeptRight
<1>5. CASE PutIndex
  <2>1. /\ at["upload"] = "put index" /\ s3index = None
        /\ UNCHANGED <<folder, file, local, copies, stored, afterData, s3data>>
    BY <1>5 DEF PutIndex, IndexRight
  <2>2. \/ s3index' = s3index /\ at'["upload"] = "failed"
        \/ copies # None /\ s3index' = copies /\ at'["upload"] = "forget"
    BY <1>5 DEF PutIndex, Go
  <2>3. s3data # None /\ copies # None => local \ afterData \subseteq copies
    BY <2>1 DEF KeptRight
  <2>4. s3data # None
    BY <2>1 DEF Whole
  <2> QED
    BY <2>1, <2>2, <2>3, <2>4 DEF KeptRight
<1>6. CASE UploadFails
  <2>1. /\ at'["upload"] = "idle"
        /\ UNCHANGED <<folder, file, local, stored, afterData, s3data, s3index>>
    BY <1>6 DEF UploadFails, Go
  <2> QED
    BY <2>1 DEF KeptRight
<1>7. CASE GcS3Index \/ GcS3Data \/ RemoveFolder("gc")
  BY <1>7 DEF GcS3Index, GcS3Data, RemoveFolder
<1>8. CASE RemoveFolder("upload")
  <2>1. /\ UNCHANGED <<s3data, s3index, stored, afterData>> /\ at["upload"] = "remove folder"
        /\ at'["upload"] = "leave map"
    BY <1>8 DEF RemoveFolder, Go
  <2>2. local' \in {local, {}}
    BY <1>8 DEF RemoveFolder
  <2>3. s3index # None /\ s3data # None
    BY <2>1 DEF KeptRight
  <2>4. \A m \in stored \ afterData : m \in s3index \intersect s3data
    BY <2>3 DEF KeptRight
  <2> QED
    BY <2>1, <2>2, <2>3, <2>4 DEF KeptRight
<1> QED
  BY <1>1, <1>2, <1>3, <1>4, <1>5, <1>6, <1>7, <1>8, StepsOfFiles

-------------------------------------------------------------------------------
HourInv == TypeOK /\ StagesRight /\ OneHandle /\ SealRight /\ Whole /\ Kept

LEMMA HourInvHolds == Spec => []HourInv
<1>1. Init => HourInv
  <2> SUFFICES ASSUME Init PROVE HourInv
    OBVIOUS
  <2>1. TypeOK /\ StagesRight
    BY TypesInit
  <2>2. OneHandle /\ SealRight
    BY WhoActs DEF Init, OneHandle, HandleRight, Deleting, SealRight, AskedRight, CopyRight
  <2>3. Whole /\ Kept
    BY WhoActs DEF Init, Whole, ArchiveIsWhole, Kept, KeptRight
  <2> QED
    BY <2>1, <2>2, <2>3 DEF HourInv
<1>2. HourInv /\ [Next]_vars => HourInv'
  <2> SUFFICES ASSUME HourInv, [Next]_vars PROVE HourInv'
    OBVIOUS
  <2> USE DEF HourInv
  <2>1. TypeOK' /\ StagesRight'
    BY TypesStep
  <2>2. (Expired => Expired') /\ (NotToBeKept => NotToBeKept')
    BY TimePasses DEF TypeOK
  <2>3. OneHandle'
    BY <2>2, HandleStep DEF OneHandle
  <2>4. SealRight'
    BY AskedStep, CopyStep DEF SealRight, StagesRight
  <2>5. Whole'
    BY WholeStep
  <2>6. Kept'
    BY <2>2, KeptStep DEF Kept
  <2> QED
    BY <2>1, <2>3, <2>4, <2>5, <2>6
<1> QED
  BY <1>1, <1>2, PTL DEF Spec

(* The index of an hour in S3 names what its data files have, unless the hour *)
(* was written into after they were there (S3Archive::upload, delete_up_to).  *)
THEOREM ArchiveStaysWhole == Spec => []ArchiveIsWhole
<1>1. HourInv => ArchiveIsWhole
  BY DEF HourInv, Whole
<1> QED
  BY <1>1, HourInvHolds, PTL

(* What was flushed into the hour is on the local disk or in S3 for as long   *)
(* as the hour is kept, whatever fails on its way and wherever the process    *)
(* crashes (upload_and_delete, delete_local).                                 *)
THEOREM StoredStaysKept == Spec => []StoredIsKept
<1>1. HourInv => StoredIsKept
  BY DEF HourInv, Kept, KeptRight, StoredIsKept
<1> QED
  BY <1>1, HourInvHolds, PTL

-------------------------------------------------------------------------------
(* A search finds what was in the hour when it began, though the hour is   *)
(* uploaded, deleted, let go of and opened again between its passes.       *)

(* A record is flushed once: until then it is to be written, with the write *)
(* task or in the memory of the hour, and in one of them.                   *)
FreshRight ==
  /\ towrite \intersect stored = {} /\ writing \notin towrite \union stored
  /\ \A h \in Handles : unflushed[h] \intersect (stored \union towrite \union {writing}) = {}

(* What the files, a copy and S3 have was flushed. *)
FlushedRight ==
  /\ local \subseteq stored
  /\ copies # None => copies \subseteq stored
  /\ s3index # None => s3index \subseteq stored

(* What is kept in memory of the index in S3 is the index. *)
CacheRight ==
  /\ s3index # None => has_s3
  /\ cached \notin {NotCached, None} => cached = s3index

(* The folder is only deleted once S3 has the hour, so who finds the hour   *)
(* deleted goes to S3; who reads it under the lock has all of it.           *)
MapRight == map # None /\ slot[map] = "deleted" => s3index # None

InS3(r) == search[r].due = {} \/ s3index # None

S3Stages == {"s3", "s3 download", "s3 answer", "s3 collect"}

FoundRight(r) ==
  /\ search[r].due \subseteq stored \ afterData
  /\ at[r] = "idle" => search[r].window = 2
  /\ search[r].window = 1 => \A m \in search[r].due : WindowOf[m] = 1
  /\ at[r] = "answered" => search[r].due = {}
  /\ at[r] \in S3Stages => InS3(r)
  /\ at[r] \in {"s3 answer", "s3 collect"} =>
       /\ search[r].due # {} => search[r].index # None
       /\ search[r].index # None => search[r].index = s3index
  /\ at[r] = "s3 collect" => search[r].index # None
  /\ at[r] \in {"check", "lock"} /\ slot[held[r]] = "deleted" => InS3(r)
  /\ at[r] = "collect" =>
       /\ slot[held[r]] = "open"
       /\ search[r].due \subseteq local \union unflushed[held[r]]

Found ==
  NotToBeKept \/
    (FreshRight /\ FlushedRight /\ CacheRight /\ MapRight /\ \A r \in Readers : FoundRight(r))

-------------------------------------------------------------------------------
LEMMA ToBeKept ==
  ASSUME HourInv, ~ NotToBeKept
  PROVE  /\ ~ Expired /\ HandleRight /\ KeptRight
         /\ at["gc"] \notin {"delete", "remove folder", "leave map"}
         /\ at["upload"] \notin {"gc index", "gc data", "gc forget"}
BY DEF HourInv, StagesRight, TimesRight, NotToBeKept, Expired, OneHandle, Kept

(* Only the hour of the map has anything in memory. *)
LEMMA OthersHaveNothing ==
  ASSUME HourInv, ~ NotToBeKept, NEW h \in Handles, h # map
  PROVE  slot[h] = "deleted" /\ unflushed[h] = {}
BY ToBeKept DEF HandleRight, HourInv, StagesRight, FilesRight

(* What is stored is all in S3 once the index is. *)
LEMMA StoredIsInS3 ==
  ASSUME HourInv, ~ NotToBeKept, s3index # None, NEW m \in stored \ afterData
  PROVE  s3data # None /\ m \in s3index \intersect s3data
BY ToBeKept DEF KeptRight

(* What is in S3 stays there, and nothing else comes in its place. *)
LEMMA ArchiveStays ==
  ASSUME HourInv, ~ NotToBeKept, s3index # None, [Next]_vars
  PROVE  UNCHANGED <<s3data, s3index>>
<1>0. IndexRight /\ at["upload"] \notin {"gc index", "gc data", "gc forget"}
  BY ToBeKept DEF HourInv, StagesRight
<1>1. CASE LeavesFiles \/ FlushesFiles \/ SealAndCopy \/ UploadFails
  BY <1>1 DEF LeavesFiles, keptVars, FlushesFiles, SealAndCopy, UploadFails, archiveVars
<1>2. CASE RemoveFolder("gc") \/ RemoveFolder("upload")
  BY <1>2 DEF RemoveFolder, archiveVars
<1>3. ~ (PutData \/ PutIndex \/ GcS3Index \/ GcS3Data)
  BY <1>0 DEF PutData, PutIndex, GcS3Index, GcS3Data, IndexRight
<1> QED
  BY <1>1, <1>2, <1>3, StepsOfFiles DEF HourInv

(* Nothing is flushed, begun or put aside for the next flush. *)
LeavesRecords ==
  /\ UNCHANGED <<towrite, stored, afterData>> /\ writing' \in {writing, None}
  /\ \A h \in Handles : unflushed'[h] \in {unflushed[h], {}}
  /\ local' \subseteq local /\ copies' \in {copies, None} /\ s3index' \in {s3index, None, copies}

LEMMA StepsOfRecords ==
  ASSUME TypeOK, StagesRight, [Next]_vars
  PROVE  \/ LeavesRecords \/ BeginWrite \/ WriteFlushed \/ WriteFails
         \/ GcPersists \/ SealAndCopy
<1>0. HandlesOK /\ HoldersRight /\ unflushed \in [Handles -> SUBSET Records]
  BY DEF TypeOK, StagesRight, HandlesOK
<1> USE <1>0, WhoActs DEF LeavesRecords, memoryVars, diskVars, archiveVars, pastVars, writeVars
<1>a. ASSUME NEW a \in Actors, GetHour(a)
      PROVE  \A h \in Handles : unflushed'[h] \in {unflushed[h], {}}
  <2>1. unflushed' = unflushed \/ unflushed' = [unflushed EXCEPT ![map'] = {}]
    BY <1>a, GotIsOfTheMap
  <2> QED
    BY <2>1
<1>1. CASE WriteGetsHour
  BY <1>1, <1>a DEF WriteGetsHour
<1>2. CASE WriteRefused
  BY <1>2 DEF WriteRefused, EndWrite
<1>3. ASSUME NEW a \in {"gc", "upload"}, DeleteStep(a) PROVE LeavesRecords
  <2>1. CASE DeleteGetsHour(a)
    BY <1>3, <1>a, <2>1 DEF DeleteGetsHour
  <2>2. CASE RemoveFolder(a)
    <3>1. \A h \in Handles : unflushed'[h] \in {unflushed[h], {}}
      BY <2>2 DEF RemoveFolder, Emptied
    <3>2. local' \in {local, {}} /\ copies' \in {copies, None}
      BY <2>2 DEF RemoveFolder
    <3> QED
      BY <2>2, <3>1, <3>2 DEF RemoveFolder
  <2>3. CASE LeaveMap(a)
    BY <2>3 DEF LeaveMap
  <2> QED
    BY <1>3, <2>1, <2>2, <2>3 DEF DeleteStep
<1>4. CASE GcTick \/ GcLetsGo
  BY <1>4 DEF GcTick, GcLetsGo, Emptied
<1>5. CASE UploadGetsHour
  BY <1>5, <1>a DEF UploadGetsHour
<1>6. CASE \/ UploadTick \/ UploadAsks \/ SealRefused \/ SealFlushFails \/ PutData \/ UploadForgets
           \/ UploadGivenUp
  BY <1>6
  DEF UploadTick, UploadAsks, SealRefused, SealFlushFails, PutData, UploadForgets, UploadGivenUp
<1>7. CASE PutIndex \/ UploadFails \/ GcS3Tick \/ GcS3Index \/ GcS3Data \/ GcS3Forgets
  BY <1>7 DEF PutIndex, UploadFails, GcS3Tick, GcS3Index, GcS3Data, GcS3Forgets
<1>8. ASSUME NEW r \in Readers, SearchStep(r) PROVE LeavesRecords
  <2>1. CASE SearchGetsHour(r)
    BY <1>8, <1>a, <2>1 DEF SearchGetsHour
  <2>2. CASE ~ SearchGetsHour(r)
    BY <1>8, <2>2
    DEF SearchStep, BeginSearch, SearchOpensHour, SearchLocksHour, SearchCollects,
        SearchLooksInCache, SearchDownloadsIndex, SearchKeepsIndex, SearchCollectsFromS3, EndSearch
  <2> QED
    BY <2>1, <2>2
<1>9. CASE CacheLapses \/ Tick \/ Crash \/ UNCHANGED vars
  BY <1>9 DEF CacheLapses, Tick, Crash, vars
<1> QED
  BY <1>1, <1>2, <1>3, <1>4, <1>5, <1>6, <1>7, <1>8, <1>9
  DEF Next, WriteStep, GcStep, UploadStep, SealStep

(* A flush of fresh records. *)
LEMMA FlushKeepsFresh ==
  ASSUME HourInv, ~ NotToBeKept, FreshRight, FlushedRight, RecordsOK',
         NEW h \in Handles, slot[h] # "deleted",
         NEW records \in SUBSET (unflushed[h] \union {writing}), Flushed(records),
         unflushed' = [unflushed EXCEPT ![h] = {}],
         towrite' = towrite, writing' = None \/ (writing' = writing /\ writing \notin records)
  PROVE  FreshRight' /\ local' \subseteq stored' /\ stored \ afterData \subseteq stored' \ afterData'
<1>1. /\ local' = local \union records /\ stored' = stored \union records
      /\ afterData' = afterData \/ afterData' = afterData \union records
  BY DEF Flushed
<1>2. h = map
  BY ToBeKept DEF HandleRight
<1>3. \A g \in Handles : unflushed'[g] = {}
  BY <1>2, OthersHaveNothing DEF HourInv, TypeOK, HandlesOK
<1>4. records \intersect (stored \union towrite) = {}
  BY DEF FreshRight
<1>5. None \notin towrite' \union stored'
  BY HourAssumption DEF RecordsOK
<1> QED
  BY <1>1, <1>3, <1>4, <1>5 DEF FreshRight, FlushedRight

(* What is stored stays so, and what is flushed was not stored before. *)
LEMMA FreshStep ==
  ASSUME HourInv, ~ NotToBeKept, FreshRight, FlushedRight, [Next]_vars
  PROVE  FreshRight' /\ FlushedRight' /\ stored \ afterData \subseteq stored' \ afterData'
<1>0. /\ TypeOK /\ StagesRight /\ HoldersRight /\ HandleRight /\ HandlesOK
      /\ unflushed \in [Handles -> SUBSET Records]
  BY ToBeKept DEF HourInv, TypeOK, StagesRight, HandlesOK
<1>a. RecordsOK' /\ HandlesOK'
  BY <1>0, TypesStep DEF TypeOK
<1>b. None \notin towrite' \union stored' /\ \A h \in Handles : None \notin unflushed'[h]
  <2>1. \A h \in Handles : unflushed'[h] \subseteq Records
    BY <1>a DEF HandlesOK
  <2> QED
    BY <1>a, <2>1, HourAssumption DEF RecordsOK
<1>c. ASSUME local' \subseteq stored', stored \subseteq stored',
             copies' # None => copies' \in {copies, local'},
             s3index' # None => s3index' \in {s3index, copies}
      PROVE  FlushedRight'
  BY <1>c DEF FlushedRight
<1> USE DEF pastVars, diskVars, archiveVars, writeVars, memoryVars
<1>1. CASE LeavesRecords
  <2>1. FreshRight'
    BY <1>b, <1>1 DEF LeavesRecords, FreshRight
  <2> QED
    BY <1>1, <1>c, <2>1 DEF LeavesRecords, FlushedRight
<1>2. CASE BeginWrite
  <2>1. UNCHANGED <<unflushed, stored, afterData, local, copies, s3index>>
    BY <1>2 DEF BeginWrite
  <2>2. PICK r \in towrite : towrite' = towrite \ {r} /\ writing' \in {writing, r}
    BY <1>2 DEF BeginWrite
  <2>3. FreshRight'
    BY <2>1, <2>2 DEF FreshRight
  <2> QED
    BY <1>c, <2>1, <2>3 DEF FlushedRight
<1>3. CASE WriteFails
  <2>1. /\ UNCHANGED <<towrite, stored, afterData, local, copies, s3index>> /\ writing' = None
        /\ \A h \in Handles : unflushed'[h] \in {unflushed[h], {}, unflushed[h] \union {writing}}
    BY <1>0, <1>3 DEF WriteFails, EndWrite
  <2>2. FreshRight'
    BY <1>b, <2>1 DEF FreshRight
  <2> QED
    BY <1>c, <2>1, <2>2 DEF FlushedRight
<1>4. CASE WriteFlushed
  <2> DEFINE h == held["write"]
  <2>1. h \in Handles /\ slot[h] # "deleted"
    BY <1>0, <1>4, WhoActs DEF WriteFlushed, CanWrite, HoldersRight, HoldStages
  <2>2. /\ Flushed(unflushed[h] \union {writing}) /\ unflushed' = [unflushed EXCEPT ![h] = {}]
        /\ towrite' = towrite /\ writing' = None /\ UNCHANGED <<copies, s3index>>
    BY <1>4 DEF WriteFlushed, EndWrite
  <2> QED
    BY <1>a, <1>c, <2>1, <2>2, FlushKeepsFresh DEF Flushed
<1>5. CASE GcPersists
  <2>1. CASE /\ map # None /\ slot[map] = "open" /\ Flushed(unflushed[map])
             /\ unflushed' = [unflushed EXCEPT ![map] = {}]
    <3>1. map \in Handles /\ slot[map] # "deleted" /\ writing \notin unflushed[map]
      BY <1>0, <2>1 DEF HandlesOK, Optional, FreshRight
    <3>2. towrite' = towrite /\ writing' = writing /\ UNCHANGED <<copies, s3index>>
      BY <1>5 DEF GcPersists
    <3> QED
      BY <1>a, <1>c, <2>1, <3>1, <3>2, FlushKeepsFresh DEF Flushed
  <2>2. CASE LeavesRecords
    BY <1>1, <2>2
  <2> QED
    BY <1>5, <2>1, <2>2 DEF GcPersists, LeavesRecords
<1>6. CASE SealAndCopy
  <2> DEFINE h == held["upload"]
  <2>1. h \in Handles /\ slot[h] # "deleted" /\ writing \notin unflushed[h]
    BY <1>0, <1>6, WhoActs DEF SealAndCopy, HoldersRight, HoldStages, FreshRight
  <2>2. /\ Flushed(unflushed[h]) /\ unflushed' = [unflushed EXCEPT ![h] = {}]
        /\ towrite' = towrite /\ writing' = writing /\ s3index' = s3index
        /\ copies' \in {copies, local \union unflushed[h], None}
    BY <1>6 DEF SealAndCopy
  <2> QED
    BY <1>a, <1>c, <2>1, <2>2, FlushKeepsFresh DEF Flushed
<1> QED
  BY <1>0, <1>1, <1>2, <1>3, <1>4, <1>5, <1>6, StepsOfRecords

(* Who deletes the hour of the map has it in S3, or it is let go of when     *)
(* nobody has it.                                                            *)
LEMMA WhatDeletes ==
  ASSUME HourInv, ~ NotToBeKept, [Next]_vars,
         NEW h \in Handles, slot[h] # "deleted", slot'[h] = "deleted"
  PROVE  s3index # None \/ (map' = None /\ \A a \in Actors : held'[a] # h)
<1>0. /\ HandlesOK /\ HoldersRight /\ KeptRight /\ HandleRight /\ at["gc"] # "remove folder"
      /\ slot \in [Handles -> {"closed", "open", "deleted"}]
  BY ToBeKept DEF HourInv, TypeOK, StagesRight, HandlesOK
<1>a. h = map
  BY <1>0 DEF HandleRight
<1>b. ASSUME NEW a \in Actors, GetHour(a) PROVE FALSE
  BY <1>0, <1>b, GotIsOfTheMap
<1> USE <1>0, WhoActs DEF memoryVars
<1>1. CASE WriteStep
  <2>1. ~ WriteGetsHour
    BY <1>b DEF WriteGetsHour
  <2> QED
    BY <1>1, <2>1
    DEF WriteStep, BeginWrite, WriteRefused, WriteIsDropped, WriteFlushed, WriteFails
<1>2. ASSUME NEW a \in {"gc", "upload"}, DeleteStep(a) PROVE s3index # None
  <2>1. RemoveFolder(a)
    BY <1>2, <1>b DEF DeleteStep, DeleteGetsHour, LeaveMap
  <2> QED
    BY <1>2, <2>1 DEF RemoveFolder, KeptRight
<1>3. CASE GcTick \/ GcPersists \/ GcLetsGo
  BY <1>3, <1>a DEF GcTick, GcPersists, GcLetsGo, Emptied
<1>4. CASE SealStep \/ UploadGetsHour
  BY <1>4, <1>b DEF SealStep, SealRefused, SealFlushFails, SealAndCopy, UploadGetsHour
<1>5. CASE \/ UploadTick \/ UploadAsks \/ PutData \/ PutIndex \/ UploadForgets \/ UploadFails
           \/ UploadGivenUp \/ GcS3Tick \/ GcS3Index \/ GcS3Data \/ GcS3Forgets
  BY <1>5
  DEF UploadTick, UploadAsks, PutData, PutIndex, UploadForgets, UploadFails, UploadGivenUp,
      GcS3Tick, GcS3Index, GcS3Data, GcS3Forgets
<1>6. ASSUME NEW r \in Readers, SearchStep(r) PROVE FALSE
  <2>1. ~ GetHour(r)
    BY <1>b
  <2> QED
    BY <1>6, <2>1
    DEF SearchStep, BeginSearch, SearchGetsHour, SearchOpensHour, SearchLocksHour,
        SearchCollects, SearchLooksInCache, SearchDownloadsIndex, SearchKeepsIndex,
        SearchCollectsFromS3, EndSearch
<1>7. CASE CacheLapses \/ Tick \/ Crash \/ UNCHANGED vars
  BY <1>7, HourAssumption DEF CacheLapses, Tick, Crash, vars
<1> QED
  BY <1>1, <1>2, <1>3, <1>4, <1>5, <1>6, <1>7 DEF Next, GcStep, UploadStep

(* A handle comes into the map closed. *)
LEMMA WhatComes ==
  ASSUME HandlesOK, [Next]_vars
  PROVE  map' \in {map, None} \/ (map' \in Handles /\ slot'[map'] = "closed")
<1>a. ASSUME NEW a \in Actors, GetHour(a)
      PROVE  map' = map \/ (map' \in Handles /\ slot'[map'] = "closed")
  BY <1>a, GotIsOfTheMap DEF HandlesOK
<1> USE WhoActs DEF memoryVars
<1>1. CASE WriteStep
  BY <1>1, <1>a
  DEF WriteStep, BeginWrite, WriteGetsHour, WriteRefused, WriteFlushed, WriteFails
<1>2. ASSUME NEW a \in {"gc", "upload"}, DeleteStep(a)
      PROVE  map' \in {map, None} \/ (map' \in Handles /\ slot'[map'] = "closed")
  BY <1>2, <1>a DEF DeleteStep, DeleteGetsHour, RemoveFolder, LeaveMap
<1>3. CASE GcTick \/ GcPersists \/ GcLetsGo
  BY <1>3 DEF GcTick, GcPersists, GcLetsGo
<1>4. CASE SealStep \/ UploadGetsHour
  BY <1>4, <1>a DEF SealStep, SealRefused, SealFlushFails, SealAndCopy, UploadGetsHour
<1>5. CASE \/ UploadTick \/ UploadAsks \/ PutData \/ PutIndex \/ UploadForgets \/ UploadFails
           \/ UploadGivenUp \/ GcS3Tick \/ GcS3Index \/ GcS3Data \/ GcS3Forgets
  BY <1>5
  DEF UploadTick, UploadAsks, PutData, PutIndex, UploadForgets, UploadFails, UploadGivenUp,
      GcS3Tick, GcS3Index, GcS3Data, GcS3Forgets
<1>6. ASSUME NEW r \in Readers, SearchStep(r)
      PROVE  map' = map \/ (map' \in Handles /\ slot'[map'] = "closed")
  BY <1>6, <1>a
  DEF SearchStep, BeginSearch, SearchGetsHour, SearchOpensHour, SearchLocksHour,
      SearchCollects, SearchLooksInCache, SearchDownloadsIndex, SearchKeepsIndex,
      SearchCollectsFromS3, EndSearch
<1>7. CASE CacheLapses \/ Tick \/ Crash \/ UNCHANGED vars
  BY <1>7 DEF CacheLapses, Tick, Crash, vars
<1> QED
  BY <1>1, <1>2, <1>3, <1>4, <1>5, <1>6, <1>7 DEF Next, GcStep, UploadStep

LEMMA MapStep ==
  ASSUME HourInv, ~ NotToBeKept, MapRight, [Next]_vars
  PROVE  MapRight'
<1>1. SUFFICES ASSUME map' # None, slot'[map'] = "deleted", s3index = None PROVE FALSE
  BY ArchiveStays DEF MapRight
<1>2. HandlesOK /\ map' = map
  BY <1>1, WhatComes DEF HourInv, TypeOK
<1>3. map \in Handles /\ slot[map] # "deleted"
  BY <1>1, <1>2 DEF HandlesOK, Optional, MapRight
<1> QED
  BY <1>1, <1>2, <1>3, WhatDeletes

(* What is kept of the index is what was downloaded of it, and it was the *)
(* index: nothing else takes its place.                                   *)
LEMMA CacheStep ==
  ASSUME HourInv, ~ NotToBeKept, CacheRight, \A r \in Readers : FoundRight(r), [Next]_vars
  PROVE  CacheRight'
<1>0. has_s3' = has_s3
  BY TimePasses DEF HourInv, TypeOK
<1>1. s3index' # None => has_s3
  <2>1. CASE s3index' = s3index
    BY <2>1 DEF CacheRight
  <2>2. CASE s3index' # s3index
    <3>1. at["upload"] # "idle"
      BY <2>2, StepsOfFiles
      DEF HourInv, LeavesFiles, keptVars, FlushesFiles, SealAndCopy, PutData, PutIndex, UploadFails,
          GcS3Index, GcS3Data, RemoveFolder, archiveVars
    <3> QED
      BY <3>1 DEF HourInv, StagesRight, TimesRight
  <2> QED
    BY <2>1, <2>2
<1>2. \/ cached' \in {cached, NotCached}
      \/ \E r \in Readers : at[r] = "s3 answer" /\ cached' = search[r].index
  <2>1. CASE WriteStep
    BY <2>1
    DEF WriteStep, BeginWrite, WriteGetsHour, WriteRefused, WriteFlushed, WriteFails
  <2>2. CASE GcStep \/ SealStep \/ DeleteStep("upload")
    BY <2>2
    DEF GcStep, GcTick, DeleteStep, DeleteGetsHour, RemoveFolder, LeaveMap, GcPersists, GcLetsGo,
        SealStep, SealRefused, SealFlushFails, SealAndCopy
  <2>3. CASE \/ UploadTick \/ UploadAsks \/ UploadGetsHour \/ PutData \/ PutIndex \/ UploadForgets
             \/ UploadFails \/ UploadGivenUp \/ GcS3Tick \/ GcS3Index \/ GcS3Data \/ GcS3Forgets
    BY <2>3
    DEF UploadTick, UploadAsks, UploadGetsHour, PutData, PutIndex, UploadForgets, UploadFails,
        UploadGivenUp, GcS3Tick, GcS3Index, GcS3Data, GcS3Forgets
  <2>4. CASE \E r \in Readers : SearchStep(r)
    BY <2>4
    DEF SearchStep, BeginSearch, SearchGetsHour, SearchOpensHour, SearchLocksHour,
        SearchCollects, SearchLooksInCache, SearchDownloadsIndex, SearchKeepsIndex,
        SearchCollectsFromS3, EndSearch
  <2>5. CASE CacheLapses \/ Tick \/ Crash \/ UNCHANGED vars
    BY <2>5 DEF CacheLapses, Tick, Crash, vars
  <2> QED
    BY <2>1, <2>2, <2>3, <2>4, <2>5 DEF Next, UploadStep
<1>3. cached' \notin {NotCached, None} => cached' = s3index /\ s3index # None
  BY <1>2 DEF CacheRight, FoundRight
<1> QED
  BY <1>0, <1>1, <1>3, ArchiveStays DEF CacheRight

-------------------------------------------------------------------------------
(* What a search meets *)

LEMMA OthersLeaveSearch ==
  ASSUME TypeOK, NEW r \in Readers, [Next]_vars
  PROVE  \/ SearchStep(r) \/ Crash
         \/ at'[r] = at[r] /\ held'[r] = held[r] /\ search'[r] = search[r]
<1>0. /\ at \in [Actors -> Stages] /\ HandlesOK
      /\ held \in [Actors -> Optional(Handles)] /\ search \in [Readers -> Searching]
  BY DEF TypeOK, HandlesOK, RecordsOK
<1> DEFINE Left == at'[r] = at[r] /\ held'[r] = held[r] /\ search'[r] = search[r]
<1>a. ASSUME NEW a \in Actors \ {r}, GetHour(a) PROVE held'[r] = held[r]
  BY <1>0, <1>a, GotIsOfTheMap, WhoActs
<1> USE <1>0, WhoActs DEF Go, LetGoOf, End_
<1>1. CASE WriteStep
  BY <1>1, <1>a
  DEF WriteStep, BeginWrite, WriteGetsHour, WriteRefused, WriteFlushed, WriteFails, EndWrite
<1>2. ASSUME NEW a \in {"gc", "upload"}, DeleteStep(a) PROVE Left
  BY <1>2, <1>a DEF DeleteStep, DeleteGetsHour, RemoveFolder, LeaveMap
<1>3. CASE GcTick \/ GcPersists \/ GcLetsGo
  BY <1>3 DEF GcTick, GcPersists, GcLetsGo
<1>4. CASE SealStep \/ UploadGetsHour
  BY <1>4, <1>a DEF SealStep, SealRefused, SealFlushFails, SealAndCopy, UploadGetsHour
<1>5. CASE \/ UploadTick \/ UploadAsks \/ PutData \/ PutIndex \/ UploadForgets \/ UploadFails
           \/ UploadGivenUp \/ GcS3Tick \/ GcS3Index \/ GcS3Data \/ GcS3Forgets
  BY <1>5
  DEF UploadTick, UploadAsks, PutData, PutIndex, UploadForgets, UploadFails, UploadGivenUp,
      GcS3Tick, GcS3Index, GcS3Data, GcS3Forgets
<1>6. ASSUME NEW q \in Readers \ {r}, SearchStep(q) PROVE Left
  <2>1. CASE BeginSearch(q) \/ SearchGetsHour(q) \/ SearchOpensHour(q) \/ SearchLocksHour(q)
    BY <1>6, <1>a, <2>1
    DEF BeginSearch, SearchGetsHour, SearchOpensHour, SearchLocksHour, ReadsDeleted, NothingIsDue
  <2>2. CASE SearchCollects(q) \/ SearchCollectsFromS3(q)
    BY <1>6, <2>2 DEF SearchCollects, SearchCollectsFromS3, PassEnds
  <2>3. CASE \/ SearchLooksInCache(q) \/ SearchDownloadsIndex(q) \/ SearchKeepsIndex(q)
             \/ EndSearch(q)
    BY <1>6, <2>3
    DEF SearchLooksInCache, SearchDownloadsIndex, SearchKeepsIndex, EndSearch, NothingIsDue
  <2> QED
    BY <1>6, <2>1, <2>2, <2>3 DEF SearchStep
<1>7. CASE CacheLapses \/ Tick \/ UNCHANGED vars
  BY <1>7 DEF CacheLapses, Tick, vars
<1> QED
  BY <1>1, <1>2, <1>3, <1>4, <1>5, <1>6, <1>7 DEF Next, GcStep, UploadStep

(* Under the read guard the hour stays as it is: whoever writes, seals, lets *)
(* go of or deletes it waits.                                                *)
LEMMA ReadStays ==
  ASSUME HourInv, ~ NotToBeKept, [Next]_vars, ~ Crash,
         NEW r \in Readers, at[r] = "collect", slot[held[r]] = "open"
  PROVE  /\ held[r] \in Handles /\ slot'[held[r]] = "open"
         /\ UNCHANGED local /\ unflushed'[held[r]] = unflushed[held[r]]
<1> DEFINE h == held[r]
<1>0. /\ HandlesOK /\ HoldersRight /\ HandleRight /\ at["gc"] # "remove folder"
      /\ slot \in [Handles -> {"closed", "open", "deleted"}]
      /\ unflushed \in [Handles -> SUBSET Records]
  BY ToBeKept DEF HourInv, TypeOK, StagesRight, HandlesOK
<1>1. h \in Handles /\ h = map /\ map # None
  <2>1. h \in Handles
    BY <1>0, WhoActs DEF HoldersRight, HoldStages
  <2> QED
    BY <1>0, <2>1, HourAssumption DEF HandleRight
<1>2. ~ NotRead(map)
  BY <1>1 DEF NotRead
<1>3. ASSUME NEW a \in Actors, at[a] \in {"lock", "seal", "check"}, slot[held[a]] # "deleted"
      PROVE  held[a] = map
  BY <1>0, <1>3 DEF HoldersRight, HoldStages, HandleRight
<1>4. ASSUME NEW a \in Actors, GetHour(a) PROVE UNCHANGED <<slot, unflushed>>
  BY <1>0, <1>1, <1>4, GotIsOfTheMap
<1> USE <1>1, <1>2, WhoActs DEF memoryVars, diskVars
<1>5. CASE WriteStep
  <2>1. ~ (WriteFlushed \/ WriteFails)
    BY <1>3 DEF WriteFlushed, WriteFails, CanWrite
  <2> QED
    BY <1>4, <1>5, <2>1 DEF WriteStep, BeginWrite, WriteGetsHour, WriteRefused, WriteIsDropped
<1>6. ASSUME NEW a \in {"gc", "upload"}, DeleteStep(a)
      PROVE  UNCHANGED <<slot, unflushed, local>>
  <2>1. ~ RemoveFolder(a)
    BY <1>0 DEF RemoveFolder, HandleRight, Deleting
  <2> QED
    BY <1>4, <1>6, <2>1 DEF DeleteStep, DeleteGetsHour, LeaveMap
<1>7. CASE GcTick \/ GcPersists \/ GcLetsGo
  BY <1>7 DEF GcTick, GcPersists, GcLetsGo
<1>8. CASE SealStep \/ UploadGetsHour
  <2>1. ~ (SealFlushFails \/ SealAndCopy)
    BY <1>3 DEF SealFlushFails, SealAndCopy
  <2> QED
    BY <1>4, <1>8, <2>1 DEF SealStep, SealRefused, UploadGetsHour
<1>9. CASE \/ UploadTick \/ UploadAsks \/ PutData \/ PutIndex \/ UploadForgets \/ UploadFails
           \/ UploadGivenUp \/ GcS3Tick \/ GcS3Index \/ GcS3Data \/ GcS3Forgets
  BY <1>9
  DEF UploadTick, UploadAsks, PutData, PutIndex, UploadForgets, UploadFails, UploadGivenUp,
      GcS3Tick, GcS3Index, GcS3Data, GcS3Forgets
<1>10. ASSUME NEW q \in Readers, SearchStep(q) PROVE UNCHANGED <<slot, unflushed, local>>
  <2>1. ~ (SearchOpensHour(q) /\ slot[held[q]] = "closed")
    BY <1>3 DEF SearchOpensHour
  <2> QED
    BY <1>4, <1>10, <2>1
    DEF SearchStep, BeginSearch, SearchGetsHour, SearchOpensHour, SearchLocksHour,
        SearchCollects, SearchLooksInCache, SearchDownloadsIndex, SearchKeepsIndex,
        SearchCollectsFromS3, EndSearch
<1>11. CASE CacheLapses \/ Tick \/ UNCHANGED vars
  BY <1>11 DEF CacheLapses, Tick, vars
<1> QED
  BY <1>5, <1>6, <1>7, <1>8, <1>9, <1>10, <1>11 DEF Next, GcStep, UploadStep

(* What others do a search finds its way through. *)
LEMMA FoundStaysRight ==
  ASSUME HourInv, ~ NotToBeKept, [Next]_vars, ~ Crash, NEW r \in Readers, FoundRight(r),
         stored \ afterData \subseteq stored' \ afterData',
         at'[r] = at[r], held'[r] = held[r], search'[r] = search[r]
  PROVE  FoundRight(r)'
<1>1. InS3(r) => InS3(r)'
  BY ArchiveStays DEF InS3
<1>2. at[r] \in {"check", "lock"} /\ slot'[held[r]] = "deleted" => InS3(r)
  <2> SUFFICES ASSUME at[r] \in {"check", "lock"}, slot'[held[r]] = "deleted" PROVE InS3(r)
    OBVIOUS
  <2>1. held[r] \in Handles
    BY WhoActs DEF HourInv, StagesRight, HoldersRight, HoldStages
  <2> QED
    BY <2>1, WhatDeletes, WhoActs DEF FoundRight, InS3
<1>3. at[r] = "collect" =>
        /\ slot'[held[r]] = "open"
        /\ search[r].due \subseteq local' \union unflushed'[held[r]]
  BY ReadStays DEF FoundRight
<1>4. s3index # None => s3index' = s3index
  BY ArchiveStays
<1> QED
  BY <1>1, <1>2, <1>3, <1>4 DEF FoundRight

(* A pass takes what is due in its window; the last one leaves nothing due. *)
LEMMA PassFinds ==
  ASSUME HourInv, NEW r \in Readers, FoundRight(r), NEW records, PassEnds(r, records),
         search[r].due \subseteq records
  PROVE  /\ search'[r].due \subseteq search[r].due
         /\ search'[r].window = 1 /\ search'[r].index = None
         /\ \A m \in search'[r].due : WindowOf[m] = 1
         /\ at'[r] \in {"open hour", "answered"}
         /\ at'[r] = "answered" => search'[r].due = {}
<1> DEFINE due == search[r].due
           window == search[r].window
<1>1. /\ at \in [Actors -> Stages] /\ search \in [Readers -> Searching]
      /\ window \in {1, 2} /\ \A m \in due : WindowOf[m] \in {1, 2}
  BY HourAssumption DEF HourInv, TypeOK, RecordsOK, Searching
<1>2. /\ search'[r].window = 1 /\ search'[r].index = None
      /\ search'[r].due = due \ {m \in records : WindowOf[m] = window}
      /\ at'[r] = IF window = 2 THEN "open hour" ELSE "answered"
  BY <1>1, WhoActs DEF PassEnds, NextWindow, Go
<1>3. window = 1 => \A m \in due : WindowOf[m] = 1
  BY DEF FoundRight
<1> QED
  BY <1>1, <1>2, <1>3

LEMMA FoundStep ==
  ASSUME HourInv, ~ NotToBeKept, FlushedRight, CacheRight, MapRight', [Next]_vars,
         NEW r \in Readers, FoundRight(r), SearchStep(r)
  PROVE  FoundRight(r)'
<1> DEFINE h == held[r]
           due == search[r].due
           content == local \union unflushed[h]
<1>0. /\ at \in [Actors -> Stages] /\ search \in [Readers -> Searching] /\ search[r] \in Searching
      /\ HandlesOK /\ held \in [Actors -> Optional(Handles)] /\ FilesRight /\ HoldersRight
      /\ slot \in [Handles -> {"closed", "open", "deleted"}] /\ r \in Actors /\ KeptRight
  BY WhoActs, ToBeKept DEF HourInv, TypeOK, RecordsOK, HandlesOK, StagesRight
<1>a. UNCHANGED <<local, s3data, s3index, stored, afterData>>
  BY DEF SearchStep, BeginSearch, SearchGetsHour, SearchOpensHour, SearchLocksHour,
         SearchCollects, SearchLooksInCache, SearchDownloadsIndex, SearchKeepsIndex,
         SearchCollectsFromS3, EndSearch, diskVars, archiveVars, pastVars
<1>b. FoundRight(r)' <=>
        /\ search'[r].due \subseteq stored \ afterData
        /\ at'[r] = "idle" => search'[r].window = 2
        /\ search'[r].window = 1 => \A m \in search'[r].due : WindowOf[m] = 1
        /\ at'[r] = "answered" => search'[r].due = {}
        /\ at'[r] \in S3Stages => search'[r].due = {} \/ s3index # None
        /\ at'[r] \in {"s3 answer", "s3 collect"} =>
             /\ search'[r].due # {} => search'[r].index # None
             /\ search'[r].index # None => search'[r].index = s3index
        /\ at'[r] = "s3 collect" => search'[r].index # None
        /\ at'[r] \in {"check", "lock"} /\ slot'[held'[r]] = "deleted" =>
             search'[r].due = {} \/ s3index # None
        /\ at'[r] = "collect" =>
             /\ slot'[held'[r]] = "open"
             /\ search'[r].due \subseteq local \union unflushed'[held'[r]]
  BY <1>a DEF FoundRight, InS3, S3Stages
<1>c. /\ due \subseteq stored \ afterData
      /\ search[r].window = 1 => \A m \in due : WindowOf[m] = 1
      /\ at[r] \in S3Stages => due = {} \/ s3index # None
  BY DEF FoundRight, InS3
(* Nothing is due any more. *)
<1>d. ASSUME search' = NothingIsDue(r)
      PROVE  search'[r].due = {} /\ search'[r].window = search[r].window
  BY <1>0, <1>d DEF NothingIsDue, Searching
<1> USE <1>0 DEF S3Stages, Go, LetGoOf, memoryVars
<1>1. CASE BeginSearch(r)
  <2>0. 1 # 2
    OBVIOUS
  <2>1. /\ at'[r] = "open hour" /\ search'[r].window # 1
        /\ search'[r].due = (local \union Archived) \ afterData
    BY <1>1, <2>0 DEF BeginSearch, FoundRight, Searching
  <2>2. local \union Archived \subseteq stored
    BY DEF FlushedRight, Archived
  <2>3. search'[r].due \subseteq stored \ afterData
    BY <2>1, <2>2
  <2> QED
    BY <1>b, <2>1, <2>3
<1>2. CASE SearchGetsHour(r)
  <2>1. search' = search
    BY <1>2 DEF SearchGetsHour
  <2>2. CASE GetHour(r) /\ at'[r] = "check"
    <3>1. map' \in Handles /\ held'[r] = map'
      BY <2>2, GotIsOfTheMap
    <3>2. slot'[held'[r]] = "deleted" => s3index # None
      BY <1>a, <3>1, HourAssumption DEF MapRight
    <3> QED
      BY <1>b, <1>c, <2>1, <2>2, <3>2
  <2>3. CASE ~ file /\ at'[r] = "s3"
    <3>1. local = {}
      BY <2>3 DEF FilesRight
    <3>2. due # {} => s3index # None
      BY <1>c, <3>1 DEF KeptRight
    <3> QED
      BY <1>b, <1>c, <2>1, <2>3, <3>2
  <2> QED
    BY <1>2, <2>2, <2>3 DEF SearchGetsHour
<1>3. CASE SearchOpensHour(r)
  <2>1. h \in Handles
    BY <1>3 DEF SearchOpensHour, HoldersRight, HoldStages
  <2>2. CASE at'[r] = "lock" /\ UNCHANGED <<held, search>>
    <3>1. slot'[h] = "deleted" => slot[h] = "deleted" /\ at[r] = "check"
      BY <1>3, <2>1 DEF SearchOpensHour
    <3>2. slot'[h] = "deleted" => due = {} \/ s3index # None
      BY <3>1 DEF FoundRight, InS3
    <3> QED
      BY <1>b, <1>c, <2>2, <3>2
  <2>3. CASE at'[r] = "answered" /\ search' = NothingIsDue(r)
    BY <1>b, <1>d, <2>3
  <2> QED
    BY <1>3, <2>2, <2>3 DEF SearchOpensHour
<1>4. CASE SearchLocksHour(r)
  <2>1. /\ h \in Handles /\ UNCHANGED <<slot, unflushed>>
        /\ slot[h] \in {"closed", "open", "deleted"} /\ at[r] = "lock"
    BY <1>4 DEF SearchLocksHour, HoldersRight, HoldStages
  <2>2. CASE slot[h] = "closed"
    BY <1>4, <1>b, <1>d, <2>2 DEF SearchLocksHour
  <2>3. CASE slot[h] = "deleted"
    <3>1. at'[r] = "s3" /\ search' = search
      BY <1>4, <2>3 DEF SearchLocksHour, ReadsDeleted
    <3>2. due = {} \/ s3index # None
      BY <2>1, <2>3 DEF FoundRight, InS3
    <3> QED
      BY <1>b, <1>c, <3>1, <3>2
  <2>4. CASE slot[h] = "open" /\ Archived \subseteq content
    <3>1. search' = search
      BY <1>4, <2>4 DEF SearchLocksHour
    <3>2. due \subseteq content
      BY <1>c, <2>4 DEF KeptRight, Archived
    <3>3. \/ at'[r] = "collect" /\ held' = held
          \/ at'[r] = "answered" /\ content = {}
      BY <1>4, <2>4 DEF SearchLocksHour
    <3> QED
      BY <1>b, <1>c, <2>1, <2>4, <3>1, <3>2, <3>3
  <2>5. CASE slot[h] = "open" /\ ~ Archived \subseteq content
    <3>1. /\ search' = NothingIsDue(r) /\ at'[r] \in {"collect", "answered"}
          /\ at'[r] = "collect" => held' = held
      BY <1>4, <2>5 DEF SearchLocksHour
    <3> QED
      BY <1>b, <1>d, <2>1, <2>5, <3>1
  <2> QED
    BY <2>1, <2>2, <2>3, <2>4, <2>5
<1>5. CASE SearchCollects(r)
  <2>1. at[r] = "collect" /\ PassEnds(r, content)
    BY <1>5 DEF SearchCollects
  <2>2. due \subseteq content
    BY <2>1 DEF FoundRight
  <2> QED
    BY <1>b, <1>c, <2>1, <2>2, PassFinds
<1>6. CASE SearchLooksInCache(r)
  <2>1. at[r] = "s3" /\ (due = {} \/ s3index # None)
    BY <1>6, <1>c DEF SearchLooksInCache
  <2>2. CASE ~ has_s3
    <3>1. due = {} /\ at'[r] = "answered" /\ search' = search
      BY <1>6, <2>1, <2>2 DEF SearchLooksInCache, CacheRight
    <3> QED
      BY <1>b, <1>c, <3>1
  <2>3. CASE has_s3 /\ cached = NotCached
    <3>1. at'[r] = "s3 download" /\ search' = search
      BY <1>6, <2>3, HourAssumption DEF SearchLooksInCache
    <3> QED
      BY <1>b, <1>c, <2>1, <3>1
  <2>4. CASE has_s3 /\ cached = None
    <3>1. at'[r] = "answered" /\ search' = IF s3index # None THEN NothingIsDue(r) ELSE search
      BY <1>6, <2>4, HourAssumption DEF SearchLooksInCache
    <3>2. search'[r].due = {}
      BY <1>d, <2>1, <3>1
    <3> QED
      BY <1>b, <3>1, <3>2
  <2>5. CASE has_s3 /\ cached \notin {NotCached, None}
    <3>1. at'[r] = "s3 collect" /\ search' = [search EXCEPT ![r].index = cached]
      BY <1>6, <2>5 DEF SearchLooksInCache
    <3>2. /\ search'[r].due = due /\ search'[r].window = search[r].window
          /\ search'[r].index = s3index /\ s3index # None
      BY <2>5, <3>1 DEF CacheRight, Searching
    <3> QED
      BY <1>b, <1>c, <3>1, <3>2
  <2> QED
    BY <1>6, <2>2, <2>3, <2>4, <2>5 DEF SearchLooksInCache
<1>7. CASE SearchDownloadsIndex(r)
  <2>1. at[r] = "s3 download" /\ (due = {} \/ s3index # None)
    BY <1>7, <1>c DEF SearchDownloadsIndex
  <2>2. CASE at'[r] = "s3 answer" /\ search' = [search EXCEPT ![r].index = s3index]
    <3>1. /\ search'[r].due = due /\ search'[r].window = search[r].window
          /\ search'[r].index = s3index
      BY <2>2 DEF Searching
    <3> QED
      BY <1>b, <1>c, <2>1, <2>2, <3>1
  <2>3. CASE at'[r] = "answered" /\ search' = NothingIsDue(r)
    BY <1>b, <1>d, <2>3
  <2> QED
    BY <1>7, <2>2, <2>3 DEF SearchDownloadsIndex
<1>8. CASE SearchKeepsIndex(r)
  <2>1. /\ at[r] = "s3 answer" /\ search' = search
        /\ at'[r] = IF search[r].index = None THEN "answered" ELSE "s3 collect"
    BY <1>8 DEF SearchKeepsIndex
  <2>2. /\ due # {} => search[r].index # None
        /\ search[r].index # None => search[r].index = s3index
    BY <2>1 DEF FoundRight
  <2> QED
    BY <1>b, <1>c, <2>1, <2>2
<1>9. CASE SearchCollectsFromS3(r)
  <2>1. at[r] = "s3 collect" /\ PassEnds(r, IF s3data = None THEN {} ELSE search[r].index \intersect s3data)
    BY <1>9 DEF SearchCollectsFromS3
  <2>2. search[r].index = s3index /\ s3index # None
    BY <2>1 DEF FoundRight
  <2>3. due \subseteq (IF s3data = None THEN {} ELSE search[r].index \intersect s3data)
    BY <1>c, <2>2, StoredIsInS3
  <2> QED
    BY <1>b, <1>c, <2>1, <2>3, PassFinds
<1>10. CASE EndSearch(r)
  <2>1. at'[r] = "idle" /\ search'[r] = NoSearch
    BY <1>10 DEF EndSearch
  <2> QED
    BY <1>b, <2>1 DEF NoSearch
<1> QED
  BY <1>1, <1>2, <1>3, <1>4, <1>5, <1>6, <1>7, <1>8, <1>9, <1>10 DEF SearchStep

-------------------------------------------------------------------------------
LEMMA FoundInit == Init => Found
<1> SUFFICES ASSUME Init PROVE FreshRight /\ FlushedRight /\ CacheRight /\ MapRight
                               /\ \A r \in Readers : FoundRight(r)
  BY DEF Found
<1>1. FreshRight /\ FlushedRight /\ CacheRight /\ MapRight
  BY HourAssumption DEF Init, FreshRight, FlushedRight, CacheRight, MapRight
<1>2. ASSUME NEW r \in Readers PROVE FoundRight(r)
  <2>1. at[r] = "idle" /\ search[r] = NoSearch
    BY WhoActs DEF Init
  <2> QED
    BY <2>1 DEF FoundRight, NoSearch, S3Stages
<1> QED
  BY <1>1, <1>2

LEMMA FoundNext == HourInv /\ Found /\ [Next]_vars => Found'
<1> SUFFICES ASSUME HourInv, Found, [Next]_vars, ~ NotToBeKept' PROVE Found'
  BY DEF Found
<1>1. ~ NotToBeKept
  BY TimePasses DEF HourInv, TypeOK
<1>2. FreshRight /\ FlushedRight /\ CacheRight /\ MapRight /\ \A r \in Readers : FoundRight(r)
  BY <1>1 DEF Found
<1>3. FreshRight' /\ FlushedRight' /\ stored \ afterData \subseteq stored' \ afterData'
  BY <1>1, <1>2, FreshStep
<1>4. CacheRight' /\ MapRight'
  BY <1>1, <1>2, CacheStep, MapStep
<1>5. ASSUME NEW r \in Readers PROVE FoundRight(r)'
  <2>1. CASE SearchStep(r)
    BY <1>1, <1>2, <1>4, <2>1, FoundStep
  <2>2. CASE Crash
    <3>1. at'[r] = "idle" /\ search'[r] = NoSearch
      BY <2>2, WhoActs DEF Crash
    <3> QED
      BY <3>1 DEF FoundRight, NoSearch, S3Stages
  <2>3. CASE ~ Crash /\ at'[r] = at[r] /\ held'[r] = held[r] /\ search'[r] = search[r]
    BY <1>1, <1>2, <1>3, <2>3, FoundStaysRight
  <2> QED
    BY <2>1, <2>2, <2>3, OthersLeaveSearch DEF HourInv
<1> QED
  BY <1>3, <1>4, <1>5 DEF Found

(* A search finds what was in the hour when it began, in the files or in S3,  *)
(* whatever is uploaded, deleted, let go of or opened between its passes      *)
(* (action_events, open_for_reading, get_indexes).                            *)
THEOREM SearchFindsWhatIsStored == Spec => []SearchFindsStored
<1>1. HourInv /\ Found => SearchFindsStored
  BY DEF Found, FoundRight, SearchFindsStored
<1>2. Spec => []Found
  <2>1. HourInv /\ HourInv' /\ Found /\ [Next]_vars => Found'
    BY FoundNext
  <2> QED
    BY <2>1, FoundInit, HourInvHolds, PTL DEF Spec
<1> QED
  BY <1>1, <1>2, HourInvHolds, PTL
===============================================================================
