------------------------------ MODULE Statistics ------------------------------
(***************************************************************************)
(* The statistics of the hours: a pass counts its metrics into two tables  *)
(* in memory, by service and by action of a service; once a second what    *)
(* has changed is written into two databases, each in a transaction of its *)
(* own; an hour which is two hours old leaves the memory; a start reads    *)
(* the current hour back; a screen is given the memory, or the database.   *)
(*                                                                         *)
(* The unit of time is an hour, and a service is one of one product scope: *)
(* the tables have the two together as their key.                          *)
(***************************************************************************)
EXTENDS Retention, Sequences, FiniteSetsExt, Functions

CONSTANTS
  Events,             \* the metrics which may come
  Data,               \* of each: service, action, started, duration, success, fail
  MaxBatch,           \* what one pass takes at most
  Queries,            \* what a screen may ask for
  FirstHour, LastHour \* the clock is bounded: FirstHour .. LastHour

ASSUME StatisticsAssumption ==
  /\ IsFiniteSet(Events)
  /\ \A e \in Events :
       /\ Data[e].started \in Int /\ Data[e].duration \in Nat
       /\ {Data[e].success, Data[e].fail} \subseteq BOOLEAN
  /\ \A q \in Queries : q.of \in {"services", "actions"} /\ q.hour # 0
  /\ MaxBatch \in Nat /\ {FirstHour, LastHour} \subseteq Nat \ {0}

VARIABLES
  now,         \* the current hour
  process,     \* "up", "stopping" or "down"
  cache,       \* the tables in memory: rows by their keys
  to_persist,  \* the rows of both which changed since they were last taken
  saves,       \* the save of the timer and the one of the stop
  db,          \* the tables in the databases
  reader       \* one screen

VARIABLES      \* what the properties remember
  counted,     \* the hour each event is counted under, 0 before it is
  spoiled,     \* the hours whose statistics were lost, by a fault or by the code
  fault        \* the one fault of a behaviour

memory == <<cache, to_persist, saves>>
history == <<counted, spoiled, fault>>
vars == <<now, process, memory, db, reader, history>>

Savers == {"timer", "stop"}
NoRows == [actions |-> <<>>, services |-> <<>>]
NotSaving == [at |-> "idle", rows |-> NoRows]
NotReading == [at |-> "idle"]

(* Rows which are put over others replace those of the same keys. *)
Over(rows, others) ==
  [key \in DOMAIN rows \union DOMAIN others |->
     IF key \in DOMAIN rows THEN rows[key] ELSE others[key]]
Of(rows, hours) == Restrict(rows, {key \in DOMAIN rows : key[1] \in hours})
HoursOf(rows) == {key[1] : key \in DOMAIN rows}
Hours(tables) == HoursOf(tables.actions) \union HoursOf(tables.services)

-------------------------------------------------------------------------------
(* The row of an action: new, and one event more.  A `min` of 0 is taken   *)
(* for one which is not set yet.                                           *)
One(holds) == IF holds THEN 1 ELSE 0
NewItem(e) ==
  [min |-> Data[e].duration, max |-> Data[e].duration,
   errors_amount |-> One(Data[e].fail), success_amount |-> One(Data[e].success),
   sum_of_duration |-> Data[e].duration, amount |-> 1]
update(item, e) ==
  [min |-> IF Data[e].duration < item.min \/ item.min = 0 THEN Data[e].duration ELSE item.min,
   max |-> IF Data[e].duration > item.max THEN Data[e].duration ELSE item.max,
   errors_amount |-> item.errors_amount + One(Data[e].fail),
   success_amount |-> item.success_amount + One(Data[e].success),
   sum_of_duration |-> item.sum_of_duration + Data[e].duration,
   amount |-> item.amount + 1]

(* The row of a service. *)
NewService(e) == [amount |-> 1, duration_micros |-> Data[e].duration]
inc(item, e) ==
  [amount |-> item.amount + 1, duration_micros |-> item.duration_micros + Data[e].duration]

(* `at` is the hour of each event of the batch. *)
ActionOf(at, e) == <<at[e], Data[e].service, Data[e].action>>
ServiceOf(at, e) == <<at[e], Data[e].service>>
CountAction(counts, key, e) ==
  Over([k \in {key} |-> IF k \in DOMAIN counts THEN update(counts[k], e) ELSE NewItem(e)],
       counts)
CountActions(rows, at) ==
  FoldSet(LAMBDA e, counts : CountAction(counts, ActionOf(at, e), e), rows, DOMAIN at)
CountService(counts, key, e) ==
  Over([k \in {key} |-> IF k \in DOMAIN counts THEN inc(counts[k], e) ELSE NewService(e)],
       counts)
CountServices(rows, at) ==
  FoldSet(LAMBDA e, counts : CountService(counts, ServiceOf(at, e), e), rows, DOMAIN at)

(* What is to be written is the row as it is now, instead of an older one. *)
set_to_persist(waiting, rows) == Over(rows, waiting)
engage_persist_TheFirst(waiting, rows) == Over(waiting, rows)
engage_persist(waiting, rows) == Over(rows, waiting)

(* The events a pass may take, and the hour each is kept at: one of an     *)
(* hour which is not written into any more is dropped.                     *)
HourOf(e) == time_to_keep(Data[e].started, now)
OnTime == {e \in Events : counted[e] = 0 /\ ~local_time_is_over(HourOf(e), now)}
Batches == {batch \in SUBSET OnTime : Cardinality(batch) \in 1 .. MaxBatch}

(* A pass counts what it took, both tables under one lock.  An hour which  *)
(* is counted on but not in memory any more is counted from nothing.       *)
FromNothing(at) ==
  {hour \in Range(at) : /\ hour \notin HoursOf(cache.actions)
                        /\ \E e \in Events : counted[e] = hour}
Count(at) ==
  /\ process # "down"
  /\ cache' = [actions |-> CountActions(cache.actions, at),
               services |-> CountServices(cache.services, at)]
  /\ to_persist' =
       [actions |-> set_to_persist(to_persist.actions,
                      Restrict(cache'.actions, {ActionOf(at, e) : e \in DOMAIN at})),
        services |-> engage_persist(to_persist.services,
                      Restrict(cache'.services, {ServiceOf(at, e) : e \in DOMAIN at}))]
  /\ counted' = Over(at, counted)
  /\ spoiled' = spoiled \union FromNothing(at)
  /\ UNCHANGED <<now, process, saves, db, reader, fault>>

-------------------------------------------------------------------------------
(* A save takes what has changed in both tables under the lock, then       *)
(* writes the one and the other; a row replaces the one of its key.        *)
get_to_persist_AndKeep(tables) == tables
get_to_persist(tables) == NoRows
MaySave(saver) ==
  /\ saves[saver].at = "idle"
  /\ IF saver = "timer" THEN process # "down" ELSE process = "stopping"
TakeChanges(saver) ==
  /\ MaySave(saver)
  /\ to_persist # NoRows
  /\ to_persist' = get_to_persist(to_persist)
  /\ saves' = [saves EXCEPT ![saver] = [at |-> "actions", rows |-> to_persist]]
  /\ UNCHANGED <<now, process, cache, db, reader, history>>
NothingToSave ==
  /\ MaySave("stop")
  /\ to_persist = NoRows
  /\ saves' = [saves EXCEPT !["stop"].at = "done"]
  /\ UNCHANGED <<now, process, cache, to_persist, db, reader, history>>

(* INSERT OR REPLACE, all of them in one transaction.  Where the stop      *)
(* saves beside the timer an older row may come last.                      *)
execute_batch(table, rows) == Over(rows, table)
Overwritten(table, rows) ==
  IF process = "up" THEN {}
  ELSE {key[1] : key \in {key \in DOMAIN rows \intersect DOMAIN table :
                            table[key].amount > rows[key].amount}}
WriteActions(saver) ==
  /\ saves[saver].at = "actions"
  /\ db' = [db EXCEPT !.actions = execute_batch(@, saves[saver].rows.actions)]
  /\ saves' = [saves EXCEPT ![saver].at = "services", ![saver].rows.actions = <<>>]
  /\ spoiled' = spoiled \union Overwritten(db.actions, saves[saver].rows.actions)
  /\ UNCHANGED <<now, process, cache, to_persist, reader, counted, fault>>
WriteServices(saver) ==
  /\ saves[saver].at = "services"
  /\ db' = [db EXCEPT !.services = execute_batch(@, saves[saver].rows.services)]
  /\ saves' = [saves EXCEPT ![saver] =
                 [NotSaving EXCEPT !.at = IF saver = "stop" THEN "done" ELSE "idle"]]
  /\ spoiled' = spoiled \union Overwritten(db.services, saves[saver].rows.services)
  /\ UNCHANGED <<now, process, cache, to_persist, reader, counted, fault>>

(* An error of the database is a panic: of the tick, and the timer goes on *)
(* with the next one.                                                      *)
SaveFails ==
  /\ saves["timer"].at \in {"actions", "services"} /\ fault = "none"
  /\ fault' = "save"
  /\ saves' = [saves EXCEPT !["timer"] = NotSaving]
  /\ spoiled' = spoiled \union Hours(saves["timer"].rows)
  /\ UNCHANGED <<now, process, cache, to_persist, db, reader, counted>>

-------------------------------------------------------------------------------
(* An hour two hours old leaves the memory. *)
cache_gc_hour_key == now - 2
gc_old_data(rows) == Of(rows, {hour \in HoursOf(rows) : hour > cache_gc_hour_key})
Gc ==
  /\ process # "down"
  /\ cache' = [actions |-> gc_old_data(cache.actions), services |-> gc_old_data(cache.services)]
  /\ cache' # cache
  /\ UNCHANGED <<now, process, to_persist, saves, db, reader, history>>

BeginStop ==
  /\ process = "up"
  /\ process' = "stopping"
  /\ UNCHANGED <<now, memory, db, reader, history>>

(* What is neither written nor in memory any more is lost. *)
Die ==
  /\ process' = "down"
  /\ cache' = NoRows /\ to_persist' = NoRows
  /\ saves' = [saver \in Savers |-> NotSaving]
  /\ reader' = NotReading
  /\ spoiled' = spoiled \union Hours(to_persist)
                        \union UNION {Hours(saves[saver].rows) : saver \in Savers}
  /\ UNCHANGED <<now, db, counted>>
Exit ==
  /\ process = "stopping" /\ saves["stop"].at = "done"
  /\ Die
  /\ UNCHANGED fault
Crash ==
  /\ process # "down" /\ fault = "none"
  /\ fault' = "crash"
  /\ Die

(* A start reads back the current hour of both. *)
restore_OfActions(rows) ==
  IF \E key \in DOMAIN rows : Len(key) = 2 THEN <<>> ELSE Of(rows, {now})
restore(rows) == Of(rows, {now})
Start ==
  /\ process = "down"
  /\ process' = "up"
  /\ cache' = [actions |-> restore(db.actions), services |-> restore(db.services)]
  /\ UNCHANGED <<now, to_persist, saves, db, reader, history>>

Tick ==
  /\ now < LastHour
  /\ now' = now + 1
  /\ UNCHANGED <<process, memory, db, reader, history>>

-------------------------------------------------------------------------------
(* A screen asks for the services of an hour, or for the actions of a      *)
(* service in it: of the memory if it has any, or else of the database,    *)
(* which is read after the lock is let go of.  The model starts to ask when *)
(* there is something to show.                                             *)
Asked(q, tables) ==
  IF q.of = "services" THEN Of(tables.services, {q.hour})
  ELSE LET rows == Of(tables.actions, {q.hour})
       IN  Restrict(rows, {key \in DOMAIN rows : key[2] = q.service})
Unsaved == Hours(to_persist) \union UNION {Hours(saves[saver].rows) : saver \in Savers}
Before(q) == {e \in Events : counted[e] = q.hour}
InMemory_NotOfTheDatabase(q) == IF Asked(q, db) # <<>> THEN Asked(q, db) ELSE Asked(q, cache)
InMemory(q) == Asked(q, cache)
ReadMemory(q) ==
  /\ process # "down" /\ reader = NotReading
  /\ counted # [e \in Events |-> 0]
  /\ reader' =
       IF InMemory(q) # <<>>
       THEN [at |-> "answered", query |-> q, before |-> Before(q), behind |-> FALSE,
             rows |-> InMemory(q)]
       ELSE [at |-> "database", query |-> q, before |-> Before(q),
             behind |-> q.hour \in Unsaved]
  /\ UNCHANGED <<now, process, memory, db, history>>
ReadDatabase ==
  /\ reader.at = "database"
  /\ reader' = [at |-> "answered", query |-> reader.query, before |-> reader.before,
                behind |-> reader.behind, rows |-> Asked(reader.query, db)]
  /\ UNCHANGED <<now, process, memory, db, history>>
Shown ==
  /\ reader.at = "answered"
  /\ reader' = NotReading
  /\ UNCHANGED <<now, process, memory, db, history>>

-------------------------------------------------------------------------------
Init ==
  /\ now = FirstHour /\ process = "up"
  /\ cache = NoRows /\ to_persist = NoRows /\ db = NoRows
  /\ saves = [saver \in Savers |-> NotSaving]
  /\ reader = NotReading
  /\ counted = [e \in Events |-> 0] /\ spoiled = {} /\ fault = "none"

TimerSaves == TakeChanges("timer") \/ WriteActions("timer") \/ WriteServices("timer")
StopSaves ==
  TakeChanges("stop") \/ NothingToSave \/ WriteActions("stop") \/ WriteServices("stop")
Next ==
  \/ \E batch \in Batches : Count([e \in batch |-> HourOf(e)])
  \/ TimerSaves \/ StopSaves \/ SaveFails
  \/ Gc \/ BeginStop \/ Exit \/ Crash \/ Start \/ Tick
  \/ \E q \in Queries : ReadMemory(q)
  \/ ReadDatabase \/ Shown

(* The timer ticks every second. *)
Spec == Init /\ [][Next]_vars /\ WF_vars(TimerSaves)

-------------------------------------------------------------------------------
(* The tables as they would be if every event were counted in one go.      *)
Durations(some) == {Data[e].duration : e \in some}
DurationOf(some) == SumFunctionOnSet([e \in Events |-> Data[e].duration], some)
IsService(row, some) ==
  row = [amount |-> Cardinality(some), duration_micros |-> DurationOf(some)]
IsAction(row, some) ==
  /\ row.amount = Cardinality(some) /\ row.sum_of_duration = DurationOf(some)
  /\ row.max = Max(Durations(some))
  /\ row.min = Min(Durations(some)) \/ 0 \in Durations(some)
  /\ row.success_amount = Cardinality({e \in some : Data[e].success})
  /\ row.errors_amount = Cardinality({e \in some : Data[e].fail})
EventsOf(key) ==
  {e \in Events : IF Len(key) = 2 THEN ServiceOf(counted, e) = key
                  ELSE ActionOf(counted, e) = key}
AreExact(tables, hours) ==
  /\ DOMAIN Of(tables.services, hours) =
       {ServiceOf(counted, e) : e \in {e \in Events : counted[e] \in hours}}
  /\ DOMAIN Of(tables.actions, hours) =
       {ActionOf(counted, e) : e \in {e \in Events : counted[e] \in hours}}
  /\ \A key \in DOMAIN Of(tables.services, hours) : IsService(tables.services[key], EventsOf(key))
  /\ \A key \in DOMAIN Of(tables.actions, hours) : IsAction(tables.actions[key], EventsOf(key))

(* What is in memory of an hour is everything which was counted under it - *)
(* after any number of saves, hours let go of and restarts - unless the    *)
(* hour was counted on from nothing, or a fault took what was not saved.   *)
KeptHoursAreExact == AreExact(cache, Hours(cache) \ spoiled)

(* Every event counted is in the databases, or its rows are with a save    *)
(* which is under way or with the next one: a clean stop leaves them in    *)
(* the databases.  `spoiled` are the hours of which that is not so: after  *)
(* a fault, where the process ends while a save of the timer is under way, *)
(* and where the timer's rows, older than those of the stop, come last.    *)
Newest(tables) ==
  LET With(key) == {rows \in tables : key \in DOMAIN rows}
  IN  [key \in UNION {DOMAIN rows : rows \in tables} |->
         (CHOOSE rows \in With(key) :
            \A other \in With(key) : rows[key].amount >= other[key].amount)[key]]
OnTheirWay ==
  [t \in {"actions", "services"} |->
     Newest({db[t], to_persist[t], saves["stop"].rows[t], saves["timer"].rows[t]})]
NothingCountedIsLost ==
  AreExact(OnTheirWay, {counted[e] : e \in Events} \ (spoiled \union {0}))

(* A screen is given everything which was counted before it asked, and     *)
(* nothing which was not counted: the memory has the hour whole or not at  *)
(* all, and what is not in memory is in the database - but for the rows of *)
(* an hour which left the memory before they were saved.                   *)
ScreensAreWhole ==
  reader.at = "answered" /\ reader.query.hour \notin spoiled /\ ~reader.behind =>
    LET q == reader.query
        shown == SumFunction([key \in DOMAIN reader.rows |-> reader.rows[key].amount])
        Asking(some) == {e \in some : q.of = "services" \/ Data[e].service = q.service}
    IN  /\ shown >= Cardinality(Asking(reader.before))
        /\ shown <= Cardinality(Asking(Before(q)))

(* What has changed is taken by a tick of the timer and written by it, as  *)
(* long as the process is up.                                              *)
ChangesAreSaved == (process = "up" /\ to_persist # NoRows) ~> (to_persist = NoRows)
===============================================================================
