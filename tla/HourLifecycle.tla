---------------------------- MODULE HourLifecycle ----------------------------
(***************************************************************************)
(* The life of one hour of a product scope: it is written into, read, and  *)
(* once its local time is over uploaded to S3 and deleted from the local   *)
(* disk; it goes for good when it expires.  The write task, the searches,  *)
(* the tick of the gc timer and the tick of the upload timer meet at the   *)
(* map of the hours and at the lock of the slot of the hour.               *)
(*                                                                         *)
(* A record of the model is what one write task brings to the hour.  What  *)
(* is written reaches the files whole or not at all: how a flush changes   *)
(* them is left to a module of its own.  Nothing is read from a file of S3 *)
(* in part.  A step of a blocking section under the lock is one step: the  *)
(* others wait for the lock, and what a crash inside leaves is what the    *)
(* failed step leaves.                                                     *)
(***************************************************************************)
EXTENDS Retention, FiniteSets

CONSTANTS
  Records,      \* what the write tasks bring, a task each
  WindowOf,     \* the pass of a search each is read by: 2, then 1
  Readers,      \* the searches
  Handles,      \* Arc<HourHandle>: as many as may be held at once
  Hour,         \* where the hour starts
  HoursToGc,    \* hours_to_gc of the settings
  None,         \* no handle, no object, no record
  NotCached,    \* the archive keeps nothing in memory of the hour
  MaxFaults,    \* calls of the disk or of S3 which fail, uploads given up on
  MaxRestarts,  \* crashes of the process
  Begin, End    \* the clock is bounded: Begin .. End

ASSUME HourAssumption ==
  /\ WindowOf \in [Records -> {1, 2}]
  /\ Begin \in Nat /\ End \in Nat /\ Begin <= End
  /\ Hour \in Nat /\ HoursToGc \in Nat
  /\ MaxFaults \in Nat /\ MaxRestarts \in Nat
  /\ None \notin Handles /\ None \notin Records /\ NotCached # None
  /\ Readers \intersect {"write", "gc", "upload"} = {}

VARIABLES
  now,        \* the clock
  has_s3,     \* S3 is set up: it does not change
  at,         \* how far the writer, the two timers and each search are
  held,       \* the handle each of them holds, or None
  map,        \* MetricsStorage::hours: the handle of the hour, or None
  slot,       \* the slot of each handle
  sealed,     \* HourFile::sealed of the open slot
  unflushed,  \* what the open file has in memory and not in the files
  towrite,    \* what is not brought to the hour yet
  writing,    \* what the write task brings, or None
  asked,      \* HourHandle::last_access: asked for since the write task began
  gcNow,      \* the time the tick of the gc timer read; Begin between the ticks
  folder,     \* the folder of the hour exists
  file,       \* its metrics.data00 exists
  local,      \* what its files have
  copies,     \* its copies made to be uploaded: what they have, or None
  s3data,     \* the data files of the hour in S3: what they have, or None
  s3index,    \* its index in S3: what it names, or None
  cached,     \* S3Archive::indexes: NotCached, None - it is missing - or the index
  search,     \* of each search: its window, what it is to find yet, the index it has
  faults, restarts

VARIABLES     \* what the properties remember
  stored,     \* what was ever flushed
  afterData   \* what was flushed while S3 had the data of the hour

diskVars    == <<folder, file, local, copies>>
archiveVars == <<s3data, s3index>>
memoryVars  == <<map, slot, asked, sealed, unflushed>>
writeVars   == <<towrite, writing>>
countVars   == <<faults, restarts>>
pastVars    == <<stored, afterData>>
vars == <<now, has_s3, at, held, memoryVars, writeVars, gcNow, diskVars, archiveVars,
          cached, search, countVars, pastVars>>

Times  == Begin .. End
Actors == {"write", "gc", "upload"} \union Readers
Optional(S) == S \union {None}

Stages ==
  {"idle", "open hour", "delete", "remove folder", "leave map",      \* of any of them
   "persist", "let go",                                              \* of the gc tick
   "ask", "get hour", "seal", "put data", "put index", "forget",     \* of an upload
   "failed", "gc index", "gc data", "gc forget",
   "check", "lock", "collect", "s3", "s3 download", "s3 answer",     \* of a search
   "s3 collect", "answered"}

NoSearch == [window |-> 2, due |-> {}, index |-> None]

Init ==
  /\ now = Begin
  /\ has_s3 \in BOOLEAN
  /\ at = [a \in Actors |-> "idle"]
  /\ held = [a \in Actors |-> None]
  /\ map = None
  /\ slot = [h \in Handles |-> "deleted"]
  /\ sealed = [h \in Handles |-> FALSE]
  /\ unflushed = [h \in Handles |-> {}]
  /\ towrite = Records
  /\ writing = None
  /\ asked = FALSE
  /\ gcNow = Begin
  /\ folder = FALSE /\ file = FALSE /\ local = {} /\ copies = None
  /\ s3data = None /\ s3index = None
  /\ cached = NotCached
  /\ search = [r \in Readers |-> NoSearch]
  /\ faults = 0 /\ restarts = 0
  /\ stored = {} /\ afterData = {}

-----------------------------------------------------------------------------
(* The map of the hours and the slot of the hour *)

(* Nobody has it any more: its memory is given back, and it may be the next one. *)
Unused(h) == h # map /\ \A a \in Actors : held[a] # h

(* The hour of the map, or a new one, closed, put into it. *)
GetHour(a) ==
  /\ asked' = (at["write"] # "idle")
  /\ IF map # None
     THEN /\ held' = [held EXCEPT ![a] = map]
          /\ UNCHANGED <<map, slot, sealed, unflushed>>
     ELSE \E h \in Handles :
            /\ Unused(h)
            /\ held' = [held EXCEPT ![a] = h]
            /\ map' = h
            /\ slot' = [slot EXCEPT ![h] = "closed"]
            /\ sealed' = [sealed EXCEPT ![h] = FALSE]
            /\ unflushed' = [unflushed EXCEPT ![h] = {}]

(* A pass of a search reads the hour: the read guard of the slot is out. *)
NotRead(h) == \A r \in Readers : ~ (at[r] = "collect" /\ held[r] = h)

(* Its files are let go of: nothing is found in it by who still holds it. *)
Emptied_StaysOpen(h) ==                                             \* mutant
  UNCHANGED <<slot, sealed, unflushed>>
Emptied(h) ==
  /\ slot' = [slot EXCEPT ![h] = "deleted"]
  /\ sealed' = [sealed EXCEPT ![h] = FALSE]
  /\ unflushed' = [unflushed EXCEPT ![h] = {}]

Go(a, stage) == at' = [at EXCEPT ![a] = stage]
LetGoOf(a)   == held' = [held EXCEPT ![a] = None]
End_(a)      == Go(a, "idle") /\ LetGoOf(a)

Fault == faults < MaxFaults /\ faults' = faults + 1

(* What is flushed is in the files, and the folder and the data file are there. *)
Flushed(records) ==
  /\ local' = local \union records
  /\ folder' = (folder \/ records # {})
  /\ file' = (file \/ records # {})
  /\ stored' = stored \union records
  /\ afterData' = IF s3data # None THEN afterData \union records ELSE afterData

-----------------------------------------------------------------------------
(* MetricsStorage::write *)

(* The clock is read once, before anything is waited for. *)
BeginWrite ==
  /\ at["write"] = "idle"
  /\ \E r \in towrite :
       /\ towrite' = towrite \ {r}
       /\ \/ /\ local_time_is_over(Hour, now)
             /\ UNCHANGED <<at, writing>>
          \/ /\ ~ local_time_is_over(Hour, now)
             /\ writing' = r
             /\ Go("write", "get hour")
  /\ UNCHANGED <<now, has_s3, held, memoryVars, gcNow, diskVars, archiveVars, cached,
                 search, countVars, pastVars>>

WriteGetsHour ==
  /\ at["write"] = "get hour"
  /\ GetHour("write")
  /\ Go("write", "lock")
  /\ UNCHANGED <<now, has_s3, writeVars, gcNow, diskVars, archiveVars,
                 cached, search, countVars, pastVars>>

EndWrite == writing' = None /\ asked' = FALSE /\ End_("write")

(* The hour is deleted, does not open, or is sealed: the metrics are dropped. *)
WriteIsDropped(h) ==
  \/ /\ slot[h] = "deleted"
     /\ UNCHANGED <<slot, faults>>
  \/ /\ slot[h] = "closed"
     /\ Fault
     /\ UNCHANGED slot
  \/ /\ slot[h] = "open" /\ sealed[h]
     /\ UNCHANGED <<slot, faults>>

CanWrite_Sealed(h) == slot[h] # "deleted"                              \* mutant
CanWrite(h) == slot[h] = "closed" \/ (slot[h] = "open" /\ ~ sealed[h])

WriteRefused ==
  LET h == held["write"] IN
  /\ at["write"] = "lock"
  /\ NotRead(h)
  /\ WriteIsDropped(h)
  /\ EndWrite
  /\ UNCHANGED <<now, has_s3, map, sealed, unflushed, towrite, gcNow, diskVars, archiveVars,
                 cached, search, restarts, pastVars>>

WriteFlushed ==
  LET h == held["write"] IN
  /\ at["write"] = "lock"
  /\ NotRead(h)
  /\ CanWrite(h)
  /\ slot' = [slot EXCEPT ![h] = "open"]
  /\ Flushed(unflushed[h] \union {writing})
  /\ unflushed' = [unflushed EXCEPT ![h] = {}]
  /\ EndWrite
  /\ UNCHANGED <<now, has_s3, map, sealed, towrite, gcNow, copies, archiveVars, cached,
                 search, countVars>>

(* A second is not written: the hour is let go of.  Or it is written and not *)
(* flushed: it stays in memory, and the next flush tries again.              *)
WriteFails ==
  LET h == held["write"] IN
  /\ at["write"] = "lock"
  /\ NotRead(h)
  /\ CanWrite(h)
  /\ Fault
  /\ \/ /\ slot' = [slot EXCEPT ![h] = "closed"]
        /\ unflushed' = [unflushed EXCEPT ![h] = {}]
     \/ /\ slot' = [slot EXCEPT ![h] = "open"]
        /\ unflushed' = [unflushed EXCEPT ![h] = @ \union {writing}]
  /\ EndWrite
  /\ UNCHANGED <<now, has_s3, map, sealed, towrite, gcNow, diskVars, archiveVars, cached,
                 search, restarts, pastVars>>

-----------------------------------------------------------------------------
(* MetricsStorage::delete_local, of the gc tick and of an upload *)

DeleteGetsHour(a) ==
  /\ a \in {"gc", "upload"}
  /\ at[a] = "delete"
  /\ GetHour(a)
  /\ Go(a, "remove folder")
  /\ UNCHANGED <<now, has_s3, writeVars, gcNow, diskVars, archiveVars,
                 cached, search, countVars, pastVars>>

(* Whoever holds the hour ends first.  A folder which is removed in part may *)
(* have lost its data, or its copies, or neither.                            *)
RemoveFolder(a) ==
  LET h == held[a] IN
  /\ at[a] = "remove folder"
  /\ NotRead(h)
  /\ Emptied(h)
  /\ \/ /\ folder' = FALSE /\ file' = FALSE /\ local' = {} /\ copies' = None
        /\ UNCHANGED faults
     \/ /\ folder /\ Fault
        /\ file' \in {file, FALSE}
        /\ local' = IF file' THEN local ELSE {}
        /\ copies' \in {copies, None}
        /\ UNCHANGED folder
  /\ Go(a, "leave map")
  /\ UNCHANGED <<now, has_s3, held, map, asked, writeVars, gcNow, archiveVars, cached, search,
                 restarts, pastVars>>

(* Whichever handle the map has of the hour leaves it. *)
LeaveMap(a) ==
  /\ at[a] = "leave map"
  /\ map' = None
  /\ LetGoOf(a)
  /\ Go(a, IF a = "gc" THEN "persist" ELSE "idle")
  /\ UNCHANGED <<now, has_s3, slot, asked, sealed, unflushed, writeVars, gcNow, diskVars,
                 archiveVars, cached, search, countVars, pastVars>>

-----------------------------------------------------------------------------
(* MetricsStorage::gc *)

GcTick ==
  /\ at["gc"] = "idle"
  /\ gcNow' = now
  /\ Go("gc", IF folder /\ is_to_delete_locally(Hour, now, HoursToGc, has_s3)
              THEN "delete" ELSE "persist")
  /\ UNCHANGED <<now, has_s3, held, memoryVars, writeVars, diskVars, archiveVars, cached,
                 search, countVars, pastVars>>

(* persist_indexes: a flush which failed is tried again. *)
GcPersists ==
  /\ at["gc"] = "persist"
  /\ IF map # None /\ slot[map] = "open"
     THEN /\ NotRead(map)
          /\ \/ /\ Flushed(unflushed[map])
                /\ unflushed' = [unflushed EXCEPT ![map] = {}]
                /\ UNCHANGED faults
             \/ /\ Fault
                /\ UNCHANGED <<unflushed, folder, file, local, pastVars>>
     ELSE UNCHANGED <<unflushed, folder, file, local, pastVars, faults>>
  /\ Go("gc", "let go")
  /\ UNCHANGED <<now, has_s3, held, map, slot, asked, sealed, writeVars, gcNow, copies,
                 archiveVars, cached, search, restarts>>

(* let_go_idle_hours.  How long nobody has asked for the hour is not told     *)
(* apart, but for this: a write task does not take as long as an hour is idle *)
(* before it is let go of, IDLE_HOUR_MICROS - ten minutes.                    *)
GcLetsGo ==
  /\ at["gc"] = "let go"
  /\ \/ /\ map # None
        /\ Hour < hour_start_of(gcNow) - HOUR_MICROS
        /\ \A a \in Actors : held[a] # map
        /\ ~ asked
        /\ map' = None
        /\ Emptied(map)
        /\ UNCHANGED asked
     \/ UNCHANGED memoryVars
  /\ Go("gc", "idle")
  /\ gcNow' = Begin
  /\ UNCHANGED <<now, has_s3, held, writeVars, diskVars, archiveVars, cached, search,
                 countVars, pastVars>>

-----------------------------------------------------------------------------
(* MetricsStorage::upload_and_delete and S3Archive::upload *)

(* The retry of an upload which failed only waits: it may come with any tick. *)
UploadTick ==
  /\ at["upload"] = "idle"
  /\ has_s3
  /\ folder /\ is_to_upload(Hour, now, HoursToGc)
  /\ Go("upload", "ask")
  /\ UNCHANGED <<now, has_s3, held, memoryVars, writeVars, gcNow, diskVars, archiveVars,
                 cached, search, countVars, pastVars>>

(* An hour which is there already is only deleted from the local disk. *)
AfterAsked_Done == IF s3index # None THEN "idle" ELSE "get hour"       \* mutant
AfterAsked == IF s3index # None THEN "delete" ELSE "get hour"

(* has_hour *)
UploadAsks ==
  /\ at["upload"] = "ask"
  /\ \/ /\ Go("upload", AfterAsked)
        /\ UNCHANGED faults
     \/ Fault /\ Go("upload", "idle")
  /\ UNCHANGED <<now, has_s3, held, memoryVars, writeVars, gcNow, diskVars, archiveVars,
                 cached, search, restarts, pastVars>>

(* A folder with no data file has nothing to upload. *)
UploadGetsHour ==
  /\ at["upload"] = "get hour"
  /\ \/ /\ map # None \/ file
        /\ GetHour("upload")
        /\ Go("upload", "seal")
     \/ /\ map = None /\ ~ file
        /\ Go("upload", "delete")
        /\ UNCHANGED <<held, memoryVars>>
  /\ UNCHANGED <<now, has_s3, writeVars, gcNow, diskVars, archiveVars,
                 cached, search, countVars, pastVars>>

(* seal_and_copy: the hour is deleted, or does not open. *)
SealRefused ==
  LET h == held["upload"] IN
  /\ at["upload"] = "seal"
  /\ NotRead(h)
  /\ \/ slot[h] = "deleted" /\ UNCHANGED faults
     \/ slot[h] = "closed" /\ Fault
  /\ End_("upload")
  /\ UNCHANGED <<now, has_s3, memoryVars, writeVars, gcNow, diskVars, archiveVars, cached,
                 search, restarts, pastVars>>

(* The flush of the sealed hour fails: the error is returned as it is. *)
SealFlushFails ==
  LET h == held["upload"] IN
  /\ at["upload"] = "seal"
  /\ NotRead(h)
  /\ slot[h] # "deleted"
  /\ Fault
  /\ slot' = [slot EXCEPT ![h] = "open"]
  /\ sealed' = [sealed EXCEPT ![h] = TRUE]
  /\ End_("upload")
  /\ UNCHANGED <<now, has_s3, map, asked, unflushed, writeVars, gcNow, diskVars, archiveVars,
                 cached, search, restarts, pastVars>>

SealAndCopy ==
  LET h == held["upload"]
      content == local \union unflushed[h]
  IN
  /\ at["upload"] = "seal"
  /\ NotRead(h)
  /\ slot[h] # "deleted"
  /\ slot' = [slot EXCEPT ![h] = "open"]
  /\ Flushed(unflushed[h])
  /\ unflushed' = [unflushed EXCEPT ![h] = {}]
  /\ LetGoOf("upload")
  /\ \/ /\ content = {}
        /\ sealed' = [sealed EXCEPT ![h] = TRUE]
        /\ Go("upload", "delete")
        /\ UNCHANGED <<copies, faults>>
     \/ /\ content # {}
        /\ sealed' = [sealed EXCEPT ![h] = TRUE]
        /\ copies' = content
        /\ Go("upload", "put data")
        /\ UNCHANGED faults
     \/ /\ content # {}                   \* the copy is not made: unsealed again
        /\ Fault
        /\ sealed' = [sealed EXCEPT ![h] = FALSE]
        /\ copies' = None
        /\ Go("upload", "idle")
  /\ UNCHANGED <<now, has_s3, map, asked, writeVars, gcNow, archiveVars, cached, search, restarts>>

(* A data file which is there already, as long as the copy, is not uploaded *)
(* again: a file is as long as its frames, whatever is in them.             *)
PutData ==
  /\ at["upload"] = "put data"
  /\ \/ /\ copies # None
        /\ s3data' \in {copies} \union (IF s3data = None THEN {} ELSE {s3data})
        /\ Go("upload", "put index")
        /\ UNCHANGED faults
     \/ /\ copies = None                  \* they went with the folder
        /\ Go("upload", "failed")
        /\ UNCHANGED <<s3data, faults>>
     \/ /\ Fault
        /\ Go("upload", "failed")
        /\ UNCHANGED s3data
  /\ UNCHANGED <<now, has_s3, held, memoryVars, writeVars, gcNow, diskVars, s3index, cached,
                 search, restarts, pastVars>>

(* The index is the last: the hour is in the archive once it is. *)
PutIndex ==
  /\ at["upload"] = "put index"
  /\ \/ /\ copies # None
        /\ s3index' = copies
        /\ Go("upload", "forget")
        /\ UNCHANGED faults
     \/ /\ copies = None
        /\ Go("upload", "failed")
        /\ UNCHANGED <<s3index, faults>>
     \/ /\ Fault
        /\ Go("upload", "failed")
        /\ UNCHANGED s3index
  /\ UNCHANGED <<now, has_s3, held, memoryVars, writeVars, gcNow, diskVars, s3data, cached,
                 search, restarts, pastVars>>

UploadForgets ==
  /\ at["upload"] = "forget"
  /\ cached' = NotCached
  /\ Go("upload", "delete")
  /\ UNCHANGED <<now, has_s3, held, memoryVars, writeVars, gcNow, diskVars, archiveVars,
                 search, countVars, pastVars>>

(* The copies go, and the hour of the map is unsealed when it is open. *)
UploadFails ==
  /\ at["upload"] = "failed"
  /\ copies' = None
  /\ IF map # None /\ slot[map] = "open"
     THEN NotRead(map) /\ sealed' = [sealed EXCEPT ![map] = FALSE]
     ELSE UNCHANGED sealed
  /\ Go("upload", "idle")
  /\ UNCHANGED <<now, has_s3, held, map, slot, asked, unflushed, writeVars, gcNow, folder, file,
                 local, archiveVars, cached, search, countVars, pastVars>>

(* The tick has taken an hour: the timer drops it where it waits for S3. *)
UploadGivenUp ==
  /\ at["upload"] \in {"ask", "put data", "put index", "gc index", "gc data"}
  /\ Fault
  /\ Go("upload", "idle")
  /\ UNCHANGED <<now, has_s3, held, memoryVars, writeVars, gcNow, diskVars, archiveVars,
                 cached, search, restarts, pastVars>>

-----------------------------------------------------------------------------
(* S3Archive::delete_up_to, of the upload tick: only when the hour is expired, *)
(* so it never meets an upload of the hour in the same tick.                   *)

Listed_ByIndex == s3index # None                                       \* mutant
Listed == s3data # None \/ s3index # None

GcS3Tick ==
  /\ at["upload"] = "idle"
  /\ has_s3
  /\ is_expired(Hour, now, HoursToGc)
  /\ Listed
  /\ Go("upload", "gc index")
  /\ UNCHANGED <<now, has_s3, held, memoryVars, writeVars, gcNow, diskVars, archiveVars,
                 cached, search, countVars, pastVars>>

GcS3Index_DataFirst ==                                                 \* mutant
  /\ at["upload"] = "gc index"
  /\ s3data' = None /\ Go("upload", "gc data")
  /\ UNCHANGED <<now, has_s3, held, memoryVars, writeVars, gcNow, diskVars, s3index, cached,
                 search, countVars, pastVars>>

(* The index first; a delete which fails ends the tick, and nothing is forgotten. *)
GcS3Index ==
  /\ at["upload"] = "gc index"
  /\ \/ s3index' = None /\ Go("upload", "gc data") /\ UNCHANGED faults
     \/ Fault /\ Go("upload", "idle") /\ UNCHANGED s3index
  /\ UNCHANGED <<now, has_s3, held, memoryVars, writeVars, gcNow, diskVars, s3data, cached,
                 search, restarts, pastVars>>

GcS3Data ==
  /\ at["upload"] = "gc data"
  /\ \/ s3data' = None /\ Go("upload", "gc forget") /\ UNCHANGED faults
     \/ Fault /\ Go("upload", "idle") /\ UNCHANGED s3data
  /\ UNCHANGED <<now, has_s3, held, memoryVars, writeVars, gcNow, diskVars, s3index, cached,
                 search, restarts, pastVars>>

GcS3Forgets ==
  /\ at["upload"] = "gc forget"
  /\ cached' = NotCached
  /\ Go("upload", "idle")
  /\ UNCHANGED <<now, has_s3, held, memoryVars, writeVars, gcNow, diskVars, archiveVars,
                 search, countVars, pastVars>>

-----------------------------------------------------------------------------
(* A search: MetricsStorage::action_events, two passes over the hour, each of *)
(* which opens the hour anew by open_for_reading or open_in_s3                *)

(* Nothing is to be found by a search which met a failure. *)
NothingIsDue(r) == [search EXCEPT ![r].due = {}]

Archived == IF s3index # None THEN s3index ELSE {}

BeginSearch(r) ==
  /\ at[r] = "idle"
  /\ search' = [search EXCEPT ![r].due = (local \union Archived) \ afterData]
  /\ Go(r, "open hour")
  /\ UNCHANGED <<now, has_s3, held, memoryVars, writeVars, gcNow, diskVars, archiveVars,
                 cached, countVars, pastVars>>

(* get_hour, which creates no hour: one with no data file is asked of S3. *)
SearchGetsHour(r) ==
  /\ at[r] = "open hour"
  /\ \/ /\ map # None \/ file
        /\ GetHour(r)
        /\ Go(r, "check")
     \/ /\ map = None /\ ~ file
        /\ Go(r, "s3")
        /\ UNCHANGED <<held, memoryVars>>
  /\ UNCHANGED <<now, has_s3, writeVars, gcNow, diskVars, archiveVars,
                 cached, search, countVars, pastVars>>

(* Closed when it is looked at: opened - unless somebody else has by then. *)
SearchOpensHour(r) ==
  LET h == held[r] IN
  /\ at[r] = "check"
  /\ \/ /\ slot[h] # "closed"
        /\ Go(r, "lock")
        /\ UNCHANGED <<held, slot, search, faults>>
     \/ /\ slot[h] = "closed"
        /\ slot' = [slot EXCEPT ![h] = "open"]
        /\ Go(r, "lock")
        /\ UNCHANGED <<held, search, faults>>
     \/ /\ slot[h] = "closed"
        /\ Fault
        /\ search' = NothingIsDue(r)
        /\ Go(r, "answered") /\ LetGoOf(r)
        /\ UNCHANGED slot
  /\ UNCHANGED <<now, has_s3, map, asked, sealed, unflushed, writeVars, gcNow, diskVars,
                 archiveVars, cached, restarts, pastVars>>

(* Uploaded, and its folder is gone or is going: the hour is asked of S3. *)
ReadsDeleted_Nothing(r) == Go(r, "answered") /\ LetGoOf(r)              \* mutant
ReadsDeleted(r) == Go(r, "s3") /\ LetGoOf(r)

(* The read guard.  A write may have failed since: the hour is closed again, *)
(* and the search is told that there is nothing to read.  Or one which came   *)
(* too late made the hour anew when it was in S3 already.                    *)
SearchLocksHour(r) ==
  LET h == held[r]
      content == local \union unflushed[h]
  IN
  /\ at[r] = "lock"
  /\ \/ /\ slot[h] = "open" /\ content # {}
        /\ Go(r, "collect")
        /\ UNCHANGED held
     \/ /\ slot[h] = "open" /\ content = {}
        /\ Go(r, "answered") /\ LetGoOf(r)
     \/ slot[h] = "deleted" /\ ReadsDeleted(r)
     \/ /\ slot[h] = "closed"
        /\ Go(r, "answered") /\ LetGoOf(r)
  /\ search' = IF slot[h] = "closed" \/ (slot[h] = "open" /\ ~ Archived \subseteq content)
               THEN NothingIsDue(r) ELSE search
  /\ UNCHANGED <<now, has_s3, memoryVars, writeVars, gcNow, diskVars, archiveVars, cached,
                 countVars, pastVars>>

NextWindow_Below(window) == window - 1                                 \* mutant
NextWindow(window) == 1

(* What a pass collected; the next one opens the hour again. *)
PassEnds(r, records) ==
  LET window == search[r].window IN
  /\ search' = [search EXCEPT ![r] =
       [window |-> NextWindow(window), index |-> None,
        due |-> search[r].due \ {m \in records : WindowOf[m] = window}]]
  /\ Go(r, IF window = 2 THEN "open hour" ELSE "answered")

SearchCollects(r) ==
  /\ at[r] = "collect"
  /\ PassEnds(r, local \union unflushed[held[r]])
  /\ LetGoOf(r)
  /\ UNCHANGED <<now, has_s3, memoryVars, writeVars, gcNow, diskVars, archiveVars, cached,
                 countVars, pastVars>>

(* get_indexes: what is kept in memory of the hour answers when there is any. *)
(* A search told that the hour is missing, while it is not, is told so by an  *)
(* answer which was under way while the hour was uploaded.                    *)
SearchLooksInCache(r) ==
  /\ at[r] = "s3"
  /\ \/ /\ ~ has_s3
        /\ Go(r, "answered")
        /\ UNCHANGED search
     \/ /\ has_s3 /\ cached = NotCached
        /\ Go(r, "s3 download")
        /\ UNCHANGED search
     \/ /\ has_s3 /\ cached = None
        /\ Go(r, "answered")
        /\ search' = IF s3index # None THEN NothingIsDue(r) ELSE search
     \/ /\ has_s3 /\ cached \notin {NotCached, None}
        /\ Go(r, "s3 collect")
        /\ search' = [search EXCEPT ![r].index = cached]
  /\ UNCHANGED <<now, has_s3, held, memoryVars, writeVars, gcNow, diskVars, archiveVars,
                 cached, countVars, pastVars>>

SearchDownloadsIndex(r) ==
  /\ at[r] = "s3 download"
  /\ \/ /\ search' = [search EXCEPT ![r].index = s3index]
        /\ Go(r, "s3 answer")
        /\ UNCHANGED faults
     \/ /\ Fault
        /\ search' = NothingIsDue(r)
        /\ Go(r, "answered")
  /\ UNCHANGED <<now, has_s3, held, memoryVars, writeVars, gcNow, diskVars, archiveVars,
                 cached, restarts, pastVars>>

(* The answer is kept - whatever has become of the hour since it was asked for - *)
(* unless a part of it did not read: it is used and not kept.                    *)
SearchKeepsIndex(r) ==
  /\ at[r] = "s3 answer"
  /\ \/ cached' = search[r].index /\ UNCHANGED faults
     \/ search[r].index # None /\ Fault /\ UNCHANGED cached
  /\ Go(r, IF search[r].index = None THEN "answered" ELSE "s3 collect")
  /\ UNCHANGED <<now, has_s3, held, memoryVars, writeVars, gcNow, diskVars, archiveVars,
                 search, restarts, pastVars>>

SearchCollectsFromS3(r) ==
  /\ at[r] = "s3 collect"
  /\ PassEnds(r, IF s3data = None THEN {} ELSE search[r].index \intersect s3data)
  /\ UNCHANGED <<now, has_s3, held, memoryVars, writeVars, gcNow, diskVars, archiveVars,
                 cached, countVars, pastVars>>

EndSearch(r) ==
  /\ at[r] = "answered"
  /\ Go(r, "idle")
  /\ search' = [search EXCEPT ![r] = NoSearch]
  /\ UNCHANGED <<now, has_s3, held, memoryVars, writeVars, gcNow, diskVars, archiveVars,
                 cached, countVars, pastVars>>

(* A missing hour is asked for again after MISSING_HOUR_TTL; the indexes of *)
(* an hour make room for the ones of others.                                *)
CacheLapses ==
  /\ cached # NotCached
  /\ cached' = NotCached
  /\ UNCHANGED <<now, has_s3, at, held, memoryVars, writeVars, gcNow, diskVars, archiveVars,
                 search, countVars, pastVars>>

-----------------------------------------------------------------------------
(* The clock, and a crash: what is in memory is gone, the files and S3 are not. *)

Tick ==
  /\ now < End
  /\ now' = now + 1
  /\ UNCHANGED <<has_s3, at, held, memoryVars, writeVars, gcNow, diskVars, archiveVars,
                 cached, search, countVars, pastVars>>

Crash ==
  /\ restarts < MaxRestarts
  /\ restarts' = restarts + 1
  /\ at' = [a \in Actors |-> "idle"]
  /\ held' = [a \in Actors |-> None]
  /\ gcNow' = Begin
  /\ map' = None
  /\ asked' = FALSE
  /\ slot' = [h \in Handles |-> "deleted"]
  /\ sealed' = [h \in Handles |-> FALSE]
  /\ unflushed' = [h \in Handles |-> {}]
  /\ writing' = None
  /\ cached' = NotCached
  /\ search' = [r \in Readers |-> NoSearch]
  /\ UNCHANGED <<now, has_s3, towrite, diskVars, archiveVars, faults, pastVars>>

WriteStep == BeginWrite \/ WriteGetsHour \/ WriteRefused \/ WriteFlushed \/ WriteFails

DeleteStep(a) == DeleteGetsHour(a) \/ RemoveFolder(a) \/ LeaveMap(a)

GcStep == GcTick \/ DeleteStep("gc") \/ GcPersists \/ GcLetsGo

SealStep == SealRefused \/ SealFlushFails \/ SealAndCopy

UploadStep ==
  \/ UploadTick \/ UploadAsks \/ UploadGetsHour \/ SealStep \/ PutData \/ PutIndex
  \/ UploadForgets \/ UploadFails \/ DeleteStep("upload")
  \/ GcS3Tick \/ GcS3Index \/ GcS3Data \/ GcS3Forgets

SearchStep(r) ==
  \/ BeginSearch(r) \/ SearchGetsHour(r) \/ SearchOpensHour(r) \/ SearchLocksHour(r)
  \/ SearchCollects(r) \/ SearchLooksInCache(r) \/ SearchDownloadsIndex(r)
  \/ SearchKeepsIndex(r) \/ SearchCollectsFromS3(r) \/ EndSearch(r)

Next ==
  \/ WriteStep \/ GcStep \/ UploadStep \/ UploadGivenUp
  \/ \E r \in Readers : SearchStep(r)
  \/ CacheLapses \/ Tick \/ Crash

Spec == Init /\ [][Next]_vars

(* The timers tick for as long as the process runs, a write task runs on, a  *)
(* search under way ends.  The lock of the slot is fair - tokio's RwLock is: *)
(* who waits for it to write is let through in turn.                         *)
Fairness ==
  /\ WF_vars(WriteStep)
  /\ SF_vars(GcStep)
  /\ SF_vars(UploadStep)
  /\ \A r \in Readers : WF_vars(at[r] # "idle" /\ SearchStep(r))

FairSpec == Spec /\ Fairness

-----------------------------------------------------------------------------
(* Properties *)

Searching == [window : {1, 2}, due : SUBSET Records, index : Optional(SUBSET Records)]

FlagsOK ==
  has_s3 \in BOOLEAN /\ asked \in BOOLEAN /\ folder \in BOOLEAN /\ file \in BOOLEAN

HandlesOK ==
  /\ held \in [Actors -> Optional(Handles)]
  /\ map \in Optional(Handles)
  /\ slot \in [Handles -> {"closed", "open", "deleted"}]
  /\ sealed \in [Handles -> BOOLEAN]
  /\ unflushed \in [Handles -> SUBSET Records]

RecordsOK ==
  /\ towrite \subseteq Records /\ writing \in Optional(Records)
  /\ local \subseteq Records /\ copies \in Optional(SUBSET Records)
  /\ s3data \in Optional(SUBSET Records) /\ s3index \in Optional(SUBSET Records)
  /\ cached = NotCached \/ cached \in Optional(SUBSET Records)
  /\ search \in [Readers -> Searching]
  /\ stored \subseteq Records /\ afterData \subseteq Records

CountsOK ==
  /\ now \in Times /\ gcNow \in Times
  /\ faults \in 0 .. MaxFaults /\ restarts \in 0 .. MaxRestarts

(* Each variable has the values the code gives it. *)
TypeOK == at \in [Actors -> Stages] /\ FlagsOK /\ HandlesOK /\ RecordsOK /\ CountsOK

(* The hour is not to be kept any more: it expires, or there is no S3 for it *)
(* once its local time is over.                                              *)
NotToBeKept ==
  is_expired(Hour, now, HoursToGc) \/ (~ has_s3 /\ local_time_is_over(Hour, now))

(* What was flushed into the hour is on the local disk or in S3, index and   *)
(* data, for as long as it is kept - whatever fails on the way of the hour   *)
(* to S3, and wherever the process crashes (upload_and_delete, delete_local).*)
(* Except for a write which read the clock while the hour was still written  *)
(* into and came to it once its upload had begun: it may be deleted with the *)
(* folder of the hour, see CopyIsTheSame.                                    *)
StoredIsKept ==
  NotToBeKept \/
    \A m \in stored \ afterData :
      m \in local \/ (s3index # None /\ s3data # None /\ m \in s3index \intersect s3data)

(* The index of an hour in S3 names what its data files in S3 have: the      *)
(* index goes last when the hour is uploaded and first when it is deleted    *)
(* (S3Archive::upload, in_delete_order), an upload which stopped halfway     *)
(* goes on with the data files it put there - unless the hour was written    *)
(* into after that.                                                          *)
ArchiveIsWhole ==
  s3index # None /\ afterData = {} => s3data = s3index

(* Whoever works on the files of the hour does it through the handle of the  *)
(* map, whose lock keeps them apart: a handle which is out of the map is     *)
(* deleted (get_hour, delete_local, let_go_idle_hours).  Until the hour      *)
(* expires: from then on the gc and an upload may delete it both at once.    *)
OneHourFile ==
  is_expired(Hour, now, HoursToGc) \/ \A h \in Handles : slot[h] # "deleted" => h = map

(* A search of an hour which is uploaded and deleted between its passes, or  *)
(* while it waits for the hour, finds what was in the hour when it began, in *)
(* the files or in S3 (action_events, open_for_reading).  Unless the hour    *)
(* went for good, a file did not read, a write failed, or S3 was said not to *)
(* have the hour by an answer older than the upload.                         *)
SearchFindsStored ==
  \A r \in Readers :
    at[r] = "answered" /\ ~ NotToBeKept => search[r].due = {}

(* Once its local time is over the folder of the hour goes: uploaded, or     *)
(* when it expires, or with no S3 (upload_hour, gc).                         *)
LocalHourGoes == local_time_is_over(Hour, now) ~> ~ folder

(* An hour which expires leaves S3, whatever part of it was uploaded (gc_s3). *)
ExpiredLeavesS3 ==
  is_expired(Hour, now, HoursToGc) ~> (s3data = None /\ s3index = None)

(* s3_archive.rs:571: "The copy of an hour is the same each time it is made - *)
(* nothing is written into an hour which is uploaded."                        *)
CopyIsTheSame ==
  [][copies' # copies /\ copies' # None /\ s3data # None => copies' = s3data]_vars

==============================================================================
