------------------------------- MODULE Pipeline -------------------------------
(***************************************************************************)
(* The way of a metric through the server: a writer's call puts a batch    *)
(* into the queue and signals the executor; a pass over the queue counts   *)
(* the metrics into the statistics and hands them to the memory of the     *)
(* storage; a tick of the writer timer takes the seconds which have waited *)
(* there, names their clients and writes them in a blocking task of its    *)
(* own; a search looks into the memory and then into the files; a stop     *)
(* drains the queue and writes everything.                                 *)
(*                                                                         *)
(* One product scope, and a tick of the clock is a second: a bucket of the *)
(* memory is named by the time its metrics are kept at.  What a write does *)
(* inside the files of an hour is left to HourLifecycle and HourFile: here *)
(* the metrics of an hour are stored together or refused together.         *)
(***************************************************************************)
EXTENDS Retention, Sequences, FiniteSets, Functions

CONSTANTS
  Metrics,              \* the metrics the writers may send
  Started,              \* the time each of them names
  ProcessOf,            \* the process each of them is an event of
  ClientOf,             \* the client each of them names, or None
  None,
  Batches,              \* the calls of the writers: sequences of metrics
  PermanentClients,     \* the clients whose metrics are kept for good
  MAX_BATCH,            \* what one pass takes from the queue at most
  MAX_PENDING_RECORDS,  \* past this many records the oldest seconds are dropped
  WindowSeconds,        \* how long a second waits in memory
  LINK_SECONDS,         \* a link outlives the window by this much
  Tasks,                \* the blocking tasks the ticks of the timer write in
  StopTask,             \* the blocking task the stop writes in
  Searches,             \* the searches
  Begin, End            \* the clock is bounded: Begin .. End

VARIABLES
  now,        \* the clock of the server
  calls,      \* how far each call of a writer is
  queue,      \* to_write_queue
  signalled,  \* queue_executor is triggered
  repeat,     \* the last pass of the executor returned `true`
  holder,     \* who holds queue_pass
  counting,   \* the pass has not counted its metrics yet
  passing,    \* the metrics of the pass not handed to the storage yet
  more,       \* the pass is to return `true`
  kept,       \* the time each metric is kept at, once it is taken in
  waiting,    \* PendingMetrics: the metrics in `buckets`
  created,    \* PendingMetrics: when the bucket of each second was made
  records,    \* PendingMetrics: the counter of the records of `buckets`
  stage,      \* of each blocking task: idle, taken or writing
  held,       \* what each task has in `being_written`
  left,       \* what each task has neither written nor dropped
  awaited,    \* whether the tick still waits for the task
  links,      \* process_id_user_id_links
  client,     \* the client_id tag of each metric
  permanent,  \* the table of what is kept for good
  stored,     \* the metrics in the files
  stop,       \* how far the stop of the process is
  search      \* of each search: the hour, what it found, what it has to read

VARIABLES     \* what the properties remember
  counted,    \* the hour the statistics count each metric under, or None
  late,       \* metrics dropped because their hour is over: at the take-in, at the write
  overflow,   \* metrics dropped because the memory is full
  refused,    \* metrics an hour did not take: it is deleted, uploaded, or fails
  accepted,   \* metrics queued before the stop began
  pushed,     \* when each metric was handed to the storage
  made        \* the links ever made: process, client and time

queueVars   == <<calls, queue, signalled, repeat, accepted>>
passVars    == <<holder, counting, passing, more>>
pendingVars == <<waiting, created, records>>
taskVars    == <<stage, held, left, awaited>>
linkVars    == <<links, made>>
dropVars    == <<late, overflow, refused>>
vars == <<now, queueVars, passVars, kept, pendingVars, taskVars, linkVars, client,
          permanent, stored, stop, search, counted, dropVars, pushed>>

Times    == Begin .. End
AllTasks == Tasks \union {StopTask}
Passes   == {"executor", "stop"}
HourOf(m) == hour_start_of(kept[m])

ASSUME PipelineAssumption ==
  /\ IsFiniteSet(Metrics)
  /\ Started \in [Metrics -> Int]
  /\ ProcessOf \in [Metrics -> Range(ProcessOf)]
  /\ ClientOf \in [Metrics -> Range(ClientOf)]
  /\ \A b \in Batches : b \in Seq(Metrics)
  \* a metric is sent once: in one batch, in one place of it
  /\ \A b \in Batches : \A i, j \in 1 .. Len(b) : b[i] = b[j] => i = j
  /\ \A b, c \in Batches : Range(b) \intersect Range(c) # {} => b = c
  /\ MAX_BATCH \in Nat \ {0}
  /\ MAX_PENDING_RECORDS \in Nat
  /\ WindowSeconds \in Nat /\ LINK_SECONDS \in Nat
  /\ StopTask \notin Tasks
  /\ Begin \in Nat \ {0} /\ End \in Nat

-------------------------------------------------------------------------------
(* The searches look at both: there is no moment a record is in neither. *)
BeingWritten_OnlyTheRest == UNION {left[t] : t \in AllTasks}       \* mutant
BeingWritten == UNION {held[t] : t \in AllTasks}
InMemory_OnlyWaiting == waiting                                   \* mutant
InMemory == waiting \union BeingWritten

Dropped == late \union overflow \union refused

(* The metrics a pass or a task answers for: not handed over, not decided. *)
Undecided(t) == IF stage[t] = "taken" THEN held[t] ELSE left[t]

SearchIdle == [at |-> "idle", hour |-> 0, must |-> {}, found |-> {}, unread |-> {}]

Init ==
  /\ now = Begin
  /\ calls = [b \in Batches |-> "new"]
  /\ queue = << >>
  /\ signalled = FALSE /\ repeat = FALSE
  /\ holder = "none" /\ counting = FALSE /\ passing = {} /\ more = FALSE
  /\ kept = Started
  /\ waiting = {} /\ created = << >> /\ records = 0
  /\ stage = [t \in AllTasks |-> "idle"]
  /\ held = [t \in AllTasks |-> {}]
  /\ left = [t \in AllTasks |-> {}]
  /\ awaited = [t \in AllTasks |-> FALSE]
  /\ links = {} /\ made = {}
  /\ client = ClientOf
  /\ permanent = {} /\ stored = {}
  /\ stop = "no"
  /\ search = [r \in Searches |-> SearchIdle]
  /\ counted = [m \in Metrics |-> None]
  /\ late = {} /\ overflow = {} /\ refused = {} /\ accepted = {}
  /\ pushed = [m \in Metrics |-> 0]

Tick ==
  /\ now < End /\ stop # "stopped"
  /\ now' = now + 1
  /\ UNCHANGED <<queueVars, passVars, kept, pendingVars, taskVars, linkVars, client,
                 permanent, stored, stop, search, counted, dropVars, pushed>>


-------------------------------------------------------------------------------
(* flows/upload_events.rs: the batch goes into the queue, then the executor  *)
(* is triggered, and the writer is answered.                                 *)

Enqueue(b) ==
  /\ stop # "stopped" /\ calls[b] = "new"
  /\ calls' = [calls EXCEPT ![b] = "queued"]
  /\ queue' = queue \o b
  /\ accepted' = IF stop = "no" THEN accepted \union Range(b) ELSE accepted
  /\ UNCHANGED <<now, signalled, repeat, passVars, kept, pendingVars, taskVars, linkVars,
                 client, permanent, stored, stop, search, counted, dropVars, pushed>>

Trigger(b) ==
  /\ stop # "stopped" /\ calls[b] = "queued"
  /\ calls' = [calls EXCEPT ![b] = "answered"]
  /\ signalled' = TRUE
  /\ UNCHANGED <<now, queue, repeat, accepted, passVars, kept, pendingVars, taskVars,
                 linkVars, client, permanent, stored, stop, search, counted, dropVars,
                 pushed>>

-------------------------------------------------------------------------------
(* flows/take_in_queued_metrics.rs: one pass at a time, the executor's or    *)
(* one of the drain a stop makes.                                            *)

Calls(p) == IF p = "executor" THEN signalled \/ repeat ELSE stop = "draining"

(* What the pass returns: the executor runs again on `true`, the drain of    *)
(* the stop ends on `false`.                                                 *)
Return(p, again) ==
  /\ repeat' = IF p = "executor" THEN again ELSE repeat
  /\ stop' = IF p = "stop" /\ ~ again THEN "drained" ELSE stop

BatchSize == IF Len(queue) < MAX_BATCH THEN Len(queue) ELSE MAX_BATCH
HasMore_Never(n) == n > MAX_BATCH                                  \* mutant
HasMore(n) == n = MAX_BATCH

(* What a pass leaves in the queue. *)
Rest_SkipsOne(n) == SubSeq(queue, n + 2, Len(queue))               \* mutant
Rest_TakesTwice(n) == SubSeq(queue, n, Len(queue))                 \* mutant
Rest(n) == SubSeq(queue, n + 1, Len(queue))

(* The time each metric of a batch is kept at, and the ones which come too   *)
(* late for the hour of that time.                                           *)
KeepAt(taken) ==
  [m \in Metrics |-> IF m \in taken THEN time_to_keep(kept[m], now) ELSE kept[m]]
TooLate(ms, time) == {m \in ms : local_time_is_over(hour_start_of(time[m]), now)}

TakeNothing(p) ==
  /\ stop # "stopped" /\ holder = "none" /\ Calls(p) /\ queue = << >>
  /\ Return(p, FALSE)
  /\ signalled' = IF p = "executor" THEN FALSE ELSE signalled
  /\ UNCHANGED <<now, calls, queue, accepted, passVars, kept, pendingVars, taskVars,
                 linkVars, client, permanent, stored, search, counted, dropVars, pushed>>

TakeBatch(p) ==
  LET n     == BatchSize
      taken == {queue[i] : i \in 1 .. n}
      time  == KeepAt(taken)
      over  == TooLate(taken, time)
  IN
  /\ stop # "stopped" /\ holder = "none" /\ Calls(p) /\ queue # << >>
  /\ holder' = p
  /\ signalled' = IF p = "executor" THEN FALSE ELSE signalled
  /\ queue' = Rest(n)
  /\ kept' = time
  /\ passing' = taken \ over
  /\ late' = late \union over
  /\ counting' = TRUE
  /\ more' = HasMore(n)
  /\ UNCHANGED <<now, calls, repeat, accepted, pendingVars, taskVars, linkVars, client,
                 permanent, stored, stop, search, counted, overflow, refused, pushed>>

(* Under the lock of the statistics the metrics are counted and the first   *)
(* event which names the client of a process makes a link.  Which of the    *)
(* events of one pass is the first is left open.                            *)
Unlinked_OfNoClient(ms) ==                                         \* mutant
  {m \in ms : \A l \in links : l.process # ProcessOf[m]}
Unlinked(ms) ==
  {m \in ms : ClientOf[m] # None /\ \A l \in links : l.process # ProcessOf[m]}

CountedHour_AsSent(m) == hour_start_of(Started[m])                 \* mutant
CountedHour(m) == HourOf(m)

LinkOf(m) == [process |-> ProcessOf[m], client |-> ClientOf[m], created |-> now]

Count ==
  /\ stop # "stopped" /\ holder # "none" /\ counting
  /\ counting' = FALSE
  /\ counted' = [m \in Metrics |-> IF m \in passing THEN CountedHour(m) ELSE counted[m]]
  /\ \E first \in SUBSET Unlinked(passing) :
       /\ \A m \in Unlinked(passing) :
            \E f \in first : ProcessOf[f] = ProcessOf[m]
       /\ \A f, g \in first : ProcessOf[f] = ProcessOf[g] => f = g
       /\ links' = links \union {LinkOf(f) : f \in first}
       /\ made' = made \union {LinkOf(f) : f \in first}
  /\ UNCHANGED <<now, queueVars, holder, passing, more, kept, pendingVars, taskVars,
                 client, permanent, stored, stop, search, dropVars, pushed>>

-------------------------------------------------------------------------------
(* PendingMetrics::add                                                       *)

SecondsOf(ms, time) == {time[m] : m \in ms}

DroppedSeconds_OneTooMany(ms, time, since, D) ==                   \* mutant
  LET size(S) == Cardinality({m \in ms : time[m] \in S}) IN
  /\ D \subseteq DOMAIN since
  /\ size(DOMAIN since \ D) <= MAX_PENDING_RECORDS + 1
  /\ D # {} => size(DOMAIN since) > MAX_PENDING_RECORDS + 1

(* The seconds which are dropped while there are more records than the      *)
(* memory takes: the oldest first, and no more than it takes.  Seconds made *)
(* in one tick are told apart by the code and not here.                     *)
DroppedSeconds(ms, time, since, D) ==
  LET size(S) == Cardinality({m \in ms : time[m] \in S})
      all     == DOMAIN since
  IN
  /\ D \subseteq all
  /\ \A d \in D, s \in all \ D : since[d] <= since[s]
  /\ size(all \ D) <= MAX_PENDING_RECORDS
  /\ D # {} => \E last \in D :
       /\ \A d \in D : since[d] <= since[last]
       /\ size((all \ D) \union {last}) > MAX_PENDING_RECORDS

(* The groups of a pass are handed over hour by hour, each under the lock   *)
(* of the storage.                                                          *)
NextGroup == {m \in passing : \A o \in passing : HourOf(m) <= HourOf(o)}

Push ==
  LET group == NextGroup
      time  == KeepAt(group)
      ms    == waiting \union group
      since == [s \in SecondsOf(ms, time) |->
                  IF s \in DOMAIN created THEN created[s] ELSE now]
  IN
  /\ stop # "stopped" /\ holder # "none" /\ ~ counting /\ passing # {}
  /\ passing' = passing \ group
  /\ kept' = time
  /\ pushed' = [m \in Metrics |-> IF m \in group THEN now ELSE pushed[m]]
  /\ \E D \in SUBSET DOMAIN since :
       LET dropped == {m \in ms : time[m] \in D} IN
       /\ DroppedSeconds(ms, time, since, D)
       /\ waiting' = ms \ dropped
       /\ created' = [s \in DOMAIN since \ D |-> since[s]]
       /\ records' = records + Cardinality(group) - Cardinality(dropped)
       /\ overflow' = overflow \union dropped
  /\ UNCHANGED <<now, queueVars, holder, counting, more, taskVars, linkVars, client,
                 permanent, stored, stop, search, counted, late, refused>>

EndPass ==
  /\ stop # "stopped" /\ holder # "none" /\ ~ counting /\ passing = {}
  /\ Return(holder, more)
  /\ holder' = "none" /\ more' = FALSE
  /\ UNCHANGED <<now, calls, queue, signalled, accepted, counting, passing, kept,
                 pendingVars, taskVars, linkVars, client, permanent, stored, search,
                 counted, dropVars, pushed>>


-------------------------------------------------------------------------------
(* flows/write_ready_metrics.rs and MetricsStorage::write                    *)

ReadySeconds(all) ==
  {s \in DOMAIN created : all \/ now - created[s] >= WindowSeconds}

(* The links made WindowSeconds + LINK_SECONDS ago or before are let go of. *)
KeptLinks == {l \in links : now - l.created < WindowSeconds + LINK_SECONDS}

(* A metric which names no client gets the one of its process. *)
NameClients_AfterTheLinksGo(ready) ==                              \* mutant
  [m \in Metrics |->
     IF m \in ready /\ client[m] = None /\ \E l \in KeptLinks : l.process = ProcessOf[m]
     THEN (CHOOSE l \in KeptLinks : l.process = ProcessOf[m]).client
     ELSE client[m]]
NameClients(ready) ==
  [m \in Metrics |->
     IF m \in ready /\ client[m] = None /\ \E l \in links : l.process = ProcessOf[m]
     THEN (CHOOSE l \in links : l.process = ProcessOf[m]).client
     ELSE client[m]]

BucketsWithout_None(seconds) == created                            \* mutant
BucketsWithout(seconds) == [s \in DOMAIN created \ seconds |-> created[s]]

(* Under the lock of the statistics: the seconds move to `being_written`,    *)
(* their clients are named, and the old links go - after that.               *)
Take(t, all) ==
  LET seconds == ReadySeconds(all)
      ready   == {m \in waiting : kept[m] \in seconds}
  IN
  /\ stage[t] = "idle"
  /\ all \/ ready # {}
  /\ waiting' = waiting \ ready
  /\ created' = BucketsWithout(seconds)
  /\ records' = records - Cardinality(ready)
  /\ client' = NameClients(ready)
  /\ links' = KeptLinks
  /\ held' = [held EXCEPT ![t] = ready]
  /\ stage' = [stage EXCEPT ![t] = "taken"]
  /\ awaited' = [awaited EXCEPT ![t] = TRUE]
  /\ UNCHANGED <<now, queueVars, passVars, kept, left, made, permanent, stored,
                 search, counted, dropVars, pushed>>

(* The timer makes no tick while it waits for one. *)
TimerIsFree == stop # "stopped" /\ \A t \in Tasks : ~ awaited[t]

TickTakes(t) == TimerIsFree /\ Take(t, FALSE) /\ UNCHANGED stop

StopTakes == stop = "drained" /\ Take(StopTask, TRUE) /\ stop' = "writing"

(* A tick which finds nothing ready writes nothing, and lets old links go. *)
TickFindsNothing ==
  /\ TimerIsFree /\ ReadySeconds(FALSE) = {} /\ KeptLinks # links
  /\ links' = KeptLinks
  /\ UNCHANGED <<now, queueVars, passVars, kept, pendingVars, taskVars, made, client,
                 permanent, stored, stop, search, counted, dropVars, pushed>>

(* The clock is read once, as the task begins: what is late by then is not   *)
(* written.                                                                  *)
StartWrite(t) ==
  LET over == TooLate(held[t], kept) IN
  /\ stage[t] = "taken"
  /\ stage' = [stage EXCEPT ![t] = "writing"]
  /\ left' = [left EXCEPT ![t] = held[t] \ over]
  /\ late' = late \union over
  /\ UNCHANGED <<now, queueVars, passVars, kept, pendingVars, held, awaited, linkVars,
                 client, permanent, stored, stop, search, counted, overflow, refused,
                 pushed>>

(* Hour by hour, under the write lock of the hour: its metrics are flushed,  *)
(* or lost together.                                                         *)
NextHourOf(t) == {m \in left[t] : \A o \in left[t] : HourOf(m) <= HourOf(o)}

WriteHour(t) ==
  LET group == NextHourOf(t) IN
  /\ stage[t] = "writing" /\ left[t] # {}
  /\ left' = [left EXCEPT ![t] = @ \ group]
  /\ \/ stored' = stored \union group /\ UNCHANGED refused
     \/ refused' = refused \union group /\ UNCHANGED stored
  /\ UNCHANGED <<now, queueVars, passVars, kept, pendingVars, stage, held, awaited,
                 linkVars, client, permanent, stop, search, counted, late, overflow,
                 pushed>>

(* The guard of the write lets go of the seconds; a tick which still waits   *)
(* then keeps for good what the clients to be kept did.                      *)
LetGo_OfTheStored(t) == [held EXCEPT ![t] = @ \intersect refused]  \* mutant
LetGo(t) == [held EXCEPT ![t] = {}]

EndWrite(t) ==
  /\ stage[t] = "writing" /\ left[t] = {}
  /\ stage' = [stage EXCEPT ![t] = "idle"]
  /\ held' = LetGo(t)
  /\ awaited' = [awaited EXCEPT ![t] = FALSE]
  /\ permanent' = IF awaited[t]
                  THEN permanent \union {m \in held[t] : client[m] \in PermanentClients}
                  ELSE permanent
  /\ stop' = IF t = StopTask THEN "written" ELSE stop
  /\ UNCHANGED <<now, queueVars, passVars, kept, pendingVars, left, linkVars, client,
                 stored, search, counted, dropVars, pushed>>

(* The timer gives up on a tick which takes too long: the task goes on. *)
GiveUp(t) ==
  /\ stop # "stopped" /\ awaited[t]
  /\ awaited' = [awaited EXCEPT ![t] = FALSE]
  /\ UNCHANGED <<now, queueVars, passVars, kept, pendingVars, stage, held, left, linkVars,
                 client, permanent, stored, stop, search, counted, dropVars, pushed>>

-------------------------------------------------------------------------------
(* main.rs: the stop of the process.  The servers go on taking metrics. *)

BeginStop ==
  /\ stop = "no"
  /\ stop' = "draining"
  /\ UNCHANGED <<now, queueVars, passVars, kept, pendingVars, taskVars, linkVars, client,
                 permanent, stored, search, counted, dropVars, pushed>>

(* The runtime goes once the blocking tasks have ended. *)
Exit ==
  /\ stop = "written" /\ \A t \in AllTasks : stage[t] = "idle"
  /\ stop' = "stopped"
  /\ UNCHANGED <<now, queueVars, passVars, kept, pendingVars, taskVars, linkVars, client,
                 permanent, stored, search, counted, dropVars, pushed>>

-------------------------------------------------------------------------------
(* MetricsStorage::action_events: the memory first, then the files of the    *)
(* hour from its end down, each pass under the read lock of the hour.        *)

LookInMemory(r, h) ==
  LET found == {m \in InMemory : HourOf(m) = h} IN
  /\ stop # "stopped" /\ search[r].at = "idle"
  /\ search' = [search EXCEPT ![r] =
       [at |-> "files", hour |-> h, found |-> found,
        must |-> {m \in Metrics \ Dropped : pushed[m] # 0 /\ HourOf(m) = h},
        unread |-> h .. h + HOUR_MICROS - 1]]
  /\ UNCHANGED <<now, queueVars, passVars, kept, pendingVars, taskVars, linkVars, client,
                 permanent, stored, stop, counted, dropVars, pushed>>

ReadFiles(r) ==
  /\ stop # "stopped" /\ search[r].at = "files" /\ search[r].unread # {}
  /\ \E s \in search[r].unread :
       /\ \A u \in search[r].unread : u <= s
       /\ search' = [search EXCEPT ![r].unread = @ \ {s},
                                   ![r].found = @ \union {m \in stored : kept[m] = s}]
  /\ UNCHANGED <<now, queueVars, passVars, kept, pendingVars, taskVars, linkVars, client,
                 permanent, stored, stop, counted, dropVars, pushed>>

Answer(r) ==
  /\ stop # "stopped" /\ search[r].at = "files" /\ search[r].unread = {}
  /\ search' = [search EXCEPT ![r] = SearchIdle]
  /\ UNCHANGED <<now, queueVars, passVars, kept, pendingVars, taskVars, linkVars, client,
                 permanent, stored, stop, counted, dropVars, pushed>>

-------------------------------------------------------------------------------
Exited == stop = "stopped" /\ UNCHANGED vars

Next ==
  \/ Tick
  \/ \E b \in Batches : Enqueue(b) \/ Trigger(b)
  \/ \E p \in Passes : TakeNothing(p) \/ TakeBatch(p)
  \/ Count \/ Push \/ EndPass
  \/ \E t \in Tasks : TickTakes(t) \/ GiveUp(t)
  \/ TickFindsNothing \/ StopTakes
  \/ \E t \in AllTasks : StartWrite(t) \/ WriteHour(t) \/ EndWrite(t)
  \/ BeginStop \/ Exit
  \/ \E r \in Searches :
       \/ \E h \in {HourOf(m) : m \in InMemory \union stored} : LookInMemory(r, h)
       \/ ReadFiles(r) \/ Answer(r)
  \/ Exited

Spec == Init /\ [][Next]_vars


-------------------------------------------------------------------------------
Sent == UNION {Range(b) : b \in {c \in Batches : calls[c] # "new"}}

SearchType ==
  [at : {"idle", "files"}, hour : Int, must : SUBSET Metrics,
   found : SUBSET Metrics, unread : SUBSET Int]

LinkType == [process : Range(ProcessOf), client : Range(ClientOf) \ {None}, created : Nat]

(* The values of the variables. *)
TypeOK ==
  /\ now \in Nat
  /\ calls \in [Batches -> {"new", "queued", "answered"}]
  /\ queue \in Seq(Metrics)
  /\ signalled \in BOOLEAN /\ repeat \in BOOLEAN
  /\ holder \in Passes \union {"none"}
  /\ counting \in BOOLEAN /\ more \in BOOLEAN
  /\ passing \subseteq Metrics
  /\ kept \in [Metrics -> Int]
  /\ waiting \subseteq Metrics
  /\ created \in [DOMAIN created -> Nat]
  /\ records \in Int
  /\ stage \in [AllTasks -> {"idle", "taken", "writing"}]
  /\ held \in [AllTasks -> SUBSET Metrics]
  /\ left \in [AllTasks -> SUBSET Metrics]
  /\ awaited \in [AllTasks -> BOOLEAN]
  /\ links \subseteq made /\ made \subseteq LinkType
  /\ client \in [Metrics -> Range(ClientOf) \union {None}]
  /\ permanent \subseteq Metrics /\ stored \subseteq Metrics
  /\ stop \in {"no", "draining", "drained", "writing", "written", "stopped"}
  /\ search \in [Searches -> SearchType]
  /\ counted \in [Metrics -> Int \union {None}]
  /\ late \subseteq Metrics /\ overflow \subseteq Metrics /\ refused \subseteq Metrics
  /\ accepted \subseteq Metrics
  /\ pushed \in [Metrics -> Nat]

(* A metric which was sent is in one place: the queue, the pass, the memory, *)
(* a task which has not decided on it, the files - or it was dropped, for    *)
(* one reason.  Nothing is forgotten on the way and nothing is taken twice,  *)
(* whichever passes, ticks and stops overlap.                                *)
InTasks == UNION {Undecided(t) : t \in AllTasks}

NothingForgotten ==
  Sent = UNION {Range(queue), passing, waiting, InTasks, stored, Dropped}

NothingTwice ==
  /\ \A i, j \in 1 .. Len(queue) : queue[i] = queue[j] => i = j
  /\ \A t, u \in AllTasks : t # u => Undecided(t) \intersect Undecided(u) = {}
  /\ Range(queue) \intersect UNION {passing, waiting, InTasks, stored, Dropped} = {}
  /\ passing \intersect UNION {waiting, InTasks, stored, Dropped} = {}
  /\ waiting \intersect UNION {InTasks, stored, Dropped} = {}
  /\ InTasks \intersect (stored \union Dropped) = {}
  /\ stored \intersect Dropped = {}
  /\ late \intersect overflow = {} /\ late \intersect refused = {}
  /\ overflow \intersect refused = {}

(* What is on its way in is in the queue or in a pass; in sight is what a    *)
(* search sees in the memory and is neither stored nor dropped.              *)
OnItsWay == Range(queue) \union passing
InSight == InMemory \ (stored \union Dropped)
Promise ==
  INSTANCE Custody WITH sent <- OnItsWay, held <- InSight, dropped <- Dropped

(* The queue, the passes, the buckets and the blocking tasks do what Custody *)
(* promises: a metric goes from one place to the next and never back, is in  *)
(* sight of the searches from the moment it is handed over, and leaves the   *)
(* memory only for the files or for a reason the code names.                 *)
KeepsItsPromise == Promise!Spec

(* pending.rs: "there is no moment a record is neither in memory nor in the *)
(* files" - once a pass has handed it over, and unless it is dropped.       *)
NoMomentInNeither ==
  \A m \in Metrics :
    pushed[m] # 0 /\ m \notin Dropped => m \in InMemory \union stored

(* What a task holds: nothing unless it writes, and what it has neither      *)
(* written nor dropped is a part of it.                                      *)
TasksAccountFor ==
  \A t \in AllTasks :
    /\ left[t] \subseteq held[t]
    /\ stage[t] # "writing" => left[t] = {}
    /\ stage[t] = "idle" => held[t] = {}
    /\ stage[t] = "writing" => held[t] \ left[t] \subseteq stored \union Dropped

(* The buckets are the seconds of the waiting records and the counter is the *)
(* number of them, so that PendingMetrics neither drops seconds early nor    *)
(* grows past its bound.                                                     *)
MemoryIsBounded ==
  /\ DOMAIN created = SecondsOf(waiting, kept)
  /\ records = Cardinality(waiting)
  /\ records <= MAX_PENDING_RECORDS

(* take_in_queued_metrics.rs: the statistics count a metric "under the hour *)
(* it is stored in" - the time it is kept at is fixed before it is counted. *)
CountedUnderItsHour ==
  \A m \in InMemory \union stored : counted[m] = HourOf(m)

(* A search finds everything which was in the memory or in the files when it *)
(* began, whatever is taken and written while it reads.                      *)
SearchFindsAll ==
  \A r \in Searches :
    search[r].at = "files" /\ search[r].unread = {} => search[r].must \subseteq search[r].found

(* write_ready_metrics.rs: an event handed over up to LINK_SECONDS after the *)
(* one which made the link of its process, or any time before it, is given   *)
(* the client when it is taken to be written - however late the tick is.     *)
ClientIsNamed ==
  [][\A m \in (UNION Range(held')) \ BeingWritten :
       client'[m] = None =>
         \A l \in made : l.process = ProcessOf[m] => pushed[m] - l.created > LINK_SECONDS]_vars

(* main.rs: the stop writes what was accepted before it began - the drain    *)
(* waits for the pass of the executor, and nothing waits for its window.     *)
StopWritesWhatWasAccepted ==
  stop = "stopped" => accepted \subseteq stored \union Dropped

-------------------------------------------------------------------------------
(* The executor is woken by a trigger and runs again on `true`; a blocking   *)
(* task which began ends.  Nothing is assumed of the writers, the searches   *)
(* or the clock: only a call which has queued its batch triggers next.       *)
Fairness ==
  /\ \A b \in Batches : WF_vars(Trigger(b))
  /\ \A p \in Passes : WF_vars(TakeNothing(p)) /\ WF_vars(TakeBatch(p))
  /\ WF_vars(Count) /\ WF_vars(Push) /\ WF_vars(EndPass)
  /\ \A t \in AllTasks :
       WF_vars(StartWrite(t)) /\ WF_vars(WriteHour(t)) /\ WF_vars(EndWrite(t))

FairSpec == Spec /\ Fairness

(* to_write_queue.rs: "nothing waits here but for its turn" - what is queued *)
(* is taken in and handed over, without a timer, unless the process stops.   *)
QueueIsTakenIn ==
  \A m \in Metrics :
    m \in Range(queue) ~> (m \notin Range(queue) \union passing \/ stop = "stopped")

(* pending.rs: the seconds taken to be written are let go of in the end,     *)
(* whatever happens to the write.                                            *)
BeingWrittenIsLetGo ==
  \A m \in Metrics : m \in BeingWritten ~> m \notin BeingWritten

(* take_in_queued_metrics.rs: "the statistics count what is stored".  The   *)
(* hour may end its local time between the count and the write.             *)
StatisticsCountWhatIsStored ==
  \A m \in Metrics : counted[m] # None => m \notin late

(* README.md: what waits in memory, "a clean stop writes it".  The servers   *)
(* still take metrics while the stop writes.                                 *)
CleanStopWritesEverything ==
  stop = "stopped" => Sent \subseteq stored \union Dropped

===============================================================================
