---------------------------- MODULE PipelineProofs ----------------------------
(***************************************************************************)
(* What holds of Pipeline for every set of metrics, batches, tasks and     *)
(* searches and every bound: the types, that no metric is forgotten on the *)
(* way or taken twice, and that there is no moment a record is neither in  *)
(* memory nor in the files.                                                *)
(***************************************************************************)
EXTENDS Pipeline, FiniteSetTheorems, TLAPS

(* What is in a sequence. *)
LEMMA RangeOfSeq ==
  ASSUME NEW q \in Seq(Metrics)
  PROVE  Range(q) = {q[i] : i \in 1 .. Len(q)}
<1>1. DOMAIN q = 1 .. Len(q)
  OBVIOUS
<1> QED
  BY <1>1 DEF Range

(* A call of a writer holds metrics. *)
LEMMA BatchType ==
  ASSUME NEW b \in Batches
  PROVE  b \in Seq(Metrics) /\ Range(b) \subseteq Metrics
<1>1. b \in Seq(Metrics)
  BY PipelineAssumption
<1>2. \A i \in 1 .. Len(b) : b[i] \in Metrics
  BY <1>1
<1> QED
  BY <1>1, <1>2, RangeOfSeq

(* A batch taken from a queue is a part of it, and so is what is left. *)
LEMMA QueueParts ==
  ASSUME NEW q \in Seq(Metrics), NEW n \in 0 .. Len(q)
  PROVE  /\ SubSeq(q, n + 1, Len(q)) \in Seq(Metrics)
         /\ Range(q) = {q[i] : i \in 1 .. n} \union Range(SubSeq(q, n + 1, Len(q)))
         /\ {q[i] : i \in 1 .. n} \subseteq Metrics
         /\ (\A i, j \in 1 .. Len(q) : q[i] = q[j] => i = j) =>
              /\ {q[i] : i \in 1 .. n} \intersect Range(SubSeq(q, n + 1, Len(q))) = {}
              /\ LET r == SubSeq(q, n + 1, Len(q)) IN
                   \A i, j \in 1 .. Len(r) : r[i] = r[j] => i = j
<1> DEFINE r == SubSeq(q, n + 1, Len(q))
<1>1. r \in Seq(Metrics) /\ Len(r) = Len(q) - n /\ \A i \in 1 .. Len(r) : r[i] = q[n + i]
  OBVIOUS
<1>2. Range(q) = {q[i] : i \in 1 .. Len(q)} /\ Range(r) = {r[i] : i \in 1 .. Len(r)}
  BY <1>1, RangeOfSeq
<1>3. {q[i] : i \in 1 .. n} \subseteq Metrics
  OBVIOUS
<1>4. Range(q) = {q[i] : i \in 1 .. n} \union Range(r)
  <2>1. ASSUME NEW m \in Range(q) PROVE m \in {q[i] : i \in 1 .. n} \union Range(r)
    <3>1. PICK i \in 1 .. Len(q) : m = q[i]
      BY <1>2
    <3>2. CASE i > n
      <4>1. i - n \in 1 .. Len(r) /\ r[i - n] = q[n + (i - n)]
        BY <1>1, <3>2
      <4>2. n + (i - n) = i
        OBVIOUS
      <4> QED
        BY <1>2, <3>1, <4>1, <4>2
    <3>3. CASE ~(i > n)
      BY <3>1, <3>3
    <3> QED
      BY <3>2, <3>3
  <2>2. ASSUME NEW m \in {q[i] : i \in 1 .. n} \union Range(r) PROVE m \in Range(q)
    BY <1>1, <1>2
  <2> QED
    BY <2>1, <2>2
<1>5. ASSUME \A i, j \in 1 .. Len(q) : q[i] = q[j] => i = j
      PROVE  /\ {q[i] : i \in 1 .. n} \intersect Range(r) = {}
             /\ \A i, j \in 1 .. Len(r) : r[i] = r[j] => i = j
  <2>1. \A j \in 1 .. Len(r) : n + j \in 1 .. Len(q) /\ n + j > n /\ r[j] = q[n + j]
    BY <1>1
  <2>2. ASSUME NEW i \in 1 .. n, NEW j \in 1 .. Len(r), q[i] = r[j] PROVE FALSE
    BY <1>5, <2>1, <2>2
  <2>3. ASSUME NEW i \in 1 .. Len(r), NEW j \in 1 .. Len(r), r[i] = r[j] PROVE i = j
    <3>1. n + i = n + j
      BY <1>5, <2>1, <2>3
    <3> QED
      BY <1>1, <3>1
  <2> HIDE DEF r
  <2> QED
    BY <1>2, <2>2, <2>3
<1> HIDE DEF r
<1> QED
  BY <1>1, <1>3, <1>4, <1>5 DEF r

(* A batch which is queued behind a queue it shares nothing with. *)
LEMMA QueueGrows ==
  ASSUME NEW q \in Seq(Metrics), NEW b \in Seq(Metrics)
  PROVE  /\ q \o b \in Seq(Metrics)
         /\ Range(q \o b) = Range(q) \union Range(b)
         /\ (/\ \A i, j \in 1 .. Len(q) : q[i] = q[j] => i = j
             /\ \A i, j \in 1 .. Len(b) : b[i] = b[j] => i = j
             /\ Range(q) \intersect Range(b) = {})
            => LET r == q \o b IN \A i, j \in 1 .. Len(r) : r[i] = r[j] => i = j
<1> DEFINE r == q \o b
<1>1. /\ r \in Seq(Metrics) /\ Len(r) = Len(q) + Len(b)
      /\ \A i \in 1 .. Len(q) : r[i] = q[i]
      /\ \A i \in 1 .. Len(r) : i > Len(q) => r[i] = b[i - Len(q)]
  OBVIOUS
<1>2. /\ Range(q) = {q[i] : i \in 1 .. Len(q)} /\ Range(b) = {b[i] : i \in 1 .. Len(b)}
      /\ Range(r) = {r[i] : i \in 1 .. Len(r)}
  BY <1>1, RangeOfSeq
<1>3. Range(r) = Range(q) \union Range(b)
  <2>1. ASSUME NEW m \in Range(b) PROVE m \in Range(r)
    <3>1. PICK i \in 1 .. Len(b) : m = b[i]
      BY <1>2
    <3>2. Len(q) + i \in 1 .. Len(r) /\ (Len(q) + i) - Len(q) = i /\ Len(q) + i > Len(q)
      BY <1>1
    <3> QED
      BY <1>1, <1>2, <3>1, <3>2
  <2>2. ASSUME NEW m \in Range(q) PROVE m \in Range(r)
    BY <1>1, <1>2
  <2>3. ASSUME NEW m \in Range(r) PROVE m \in Range(q) \union Range(b)
    BY <1>1, <1>2
  <2> QED
    BY <2>1, <2>2, <2>3
<1>4. ASSUME /\ \A i, j \in 1 .. Len(q) : q[i] = q[j] => i = j
             /\ \A i, j \in 1 .. Len(b) : b[i] = b[j] => i = j
             /\ Range(q) \intersect Range(b) = {}
      PROVE  \A i, j \in 1 .. Len(r) : r[i] = r[j] => i = j
  <2> SUFFICES ASSUME NEW i \in 1 .. Len(r), NEW j \in 1 .. Len(r), r[i] = r[j]
               PROVE  i = j
    OBVIOUS
  <2> HIDE DEF r
  <2>1. \A k \in 1 .. Len(r) : k <= Len(q) => k \in 1 .. Len(q) /\ r[k] \in Range(q)
    BY <1>1, <1>2
  <2>2. \A k \in 1 .. Len(r) : k > Len(q) =>
            k - Len(q) \in 1 .. Len(b) /\ r[k] = b[k - Len(q)] /\ r[k] \in Range(b)
    <3> SUFFICES ASSUME NEW k \in 1 .. Len(r), k > Len(q)
                 PROVE  k - Len(q) \in 1 .. Len(b) /\ r[k] = b[k - Len(q)]
      BY <1>2
    <3> QED
      BY <1>1
  <2>3. CASE i <= Len(q) /\ j <= Len(q)
    BY <1>1, <1>4, <2>1, <2>3
  <2>4. CASE i > Len(q) /\ j > Len(q)
    <3>1. /\ i - Len(q) \in 1 .. Len(b) /\ j - Len(q) \in 1 .. Len(b)
          /\ b[i - Len(q)] = b[j - Len(q)]
      BY <2>2, <2>4
    <3>2. i - Len(q) = j - Len(q)
      BY <1>4, <3>1
    <3>3. i \in Int /\ j \in Int /\ Len(q) \in Int
      BY <1>1
    <3> QED
      BY <3>2, <3>3
  <2>5. CASE (i <= Len(q) /\ j > Len(q)) \/ (i > Len(q) /\ j <= Len(q))
    BY <1>4, <2>1, <2>2, <2>5
  <2> QED
    BY <1>1, <2>3, <2>4, <2>5
<1> HIDE DEF r
<1> QED
  BY <1>1, <1>3, <1>4 DEF r


-------------------------------------------------------------------------------
LEMMA TypeInit == Init => TypeOK
<1> SUFFICES ASSUME Init PROVE TypeOK
  OBVIOUS
<1>1. queue \in Seq(Metrics) /\ kept \in [Metrics -> Int] /\ now \in Nat
  BY PipelineAssumption DEF Init
<1>2. client \in [Metrics -> Range(ClientOf) \union {None}]
  BY PipelineAssumption DEF Init
<1>3. created \in [DOMAIN created -> Nat]
  BY DEF Init
<1>4. search \in [Searches -> SearchType]
  BY DEF Init, SearchType, SearchIdle
<1>5. /\ calls \in [Batches -> {"new", "queued", "answered"}]
      /\ counted \in [Metrics -> Int \union {None}]
      /\ pushed \in [Metrics -> Nat]
  BY DEF Init
<1>6. /\ stage \in [AllTasks -> {"idle", "taken", "writing"}]
      /\ held \in [AllTasks -> SUBSET Metrics]
      /\ left \in [AllTasks -> SUBSET Metrics]
      /\ awaited \in [AllTasks -> BOOLEAN]
  BY DEF Init
<1>7. signalled \in BOOLEAN /\ repeat \in BOOLEAN /\ counting \in BOOLEAN /\ more \in BOOLEAN
  BY Zenon DEF Init
<1>8. /\ holder \in Passes \union {"none"} /\ records \in Int
      /\ stop \in {"no", "draining", "drained", "writing", "written", "stopped"}
  BY DEF Init
<1> QED
  BY <1>1, <1>2, <1>3, <1>4, <1>5, <1>6, <1>7, <1>8 DEF Init, TypeOK

LEMMA TypeTick == TypeOK /\ Tick => TypeOK'
BY DEF TypeOK, Tick, queueVars, passVars, pendingVars, taskVars, linkVars, dropVars

LEMMA TypeEnqueue ==
  ASSUME NEW b \in Batches PROVE TypeOK /\ Enqueue(b) => TypeOK'
<1> SUFFICES ASSUME TypeOK, Enqueue(b) PROVE TypeOK'
  OBVIOUS
<1>1. b \in Seq(Metrics) /\ Range(b) \subseteq Metrics
  BY BatchType
<1>2. queue' \in Seq(Metrics) /\ accepted' \subseteq Metrics
  BY <1>1, QueueGrows DEF TypeOK, Enqueue
<1> QED
  BY <1>2 DEF TypeOK, Enqueue, passVars, pendingVars, taskVars, linkVars, dropVars

LEMMA TypeTrigger ==
  ASSUME NEW b \in Batches PROVE TypeOK /\ Trigger(b) => TypeOK'
BY DEF TypeOK, Trigger, passVars, pendingVars, taskVars, linkVars, dropVars

LEMMA TypeTakeNothing ==
  ASSUME NEW p \in Passes PROVE TypeOK /\ TakeNothing(p) => TypeOK'
BY DEF TypeOK, TakeNothing, Return, Passes, passVars, pendingVars, taskVars, linkVars,
       dropVars

(* The time a metric is kept at is a time. *)
LEMMA KeepAtType ==
  ASSUME TypeOK, NEW S PROVE KeepAt(S) \in [Metrics -> Int]
BY RetentionAssumption DEF TypeOK, KeepAt, time_to_keep

LEMMA BatchSizeType == TypeOK => BatchSize \in 0 .. Len(queue)
BY PipelineAssumption DEF TypeOK, BatchSize

LEMMA TypeTakeBatch ==
  ASSUME NEW p \in Passes PROVE TypeOK /\ TakeBatch(p) => TypeOK'
<1> SUFFICES ASSUME TypeOK, TakeBatch(p) PROVE TypeOK'
  OBVIOUS
<1> DEFINE taken == {queue[i] : i \in 1 .. BatchSize}
<1>1. taken \subseteq Metrics /\ queue' \in Seq(Metrics)
  BY QueueParts, BatchSizeType DEF TakeBatch, TypeOK, Rest
<1>2. kept' \in [Metrics -> Int]
  BY KeepAtType DEF TakeBatch
<1>3. passing' \subseteq Metrics /\ late' \subseteq Metrics
  BY <1>1 DEF TakeBatch, TooLate, TypeOK
<1>4. more' \in BOOLEAN /\ counting' \in BOOLEAN
  BY DEF TakeBatch, HasMore
<1> QED
  BY <1>1, <1>2, <1>3, <1>4
  DEF TypeOK, TakeBatch, passVars, pendingVars, taskVars, linkVars, dropVars

LEMMA TypeCount == TypeOK /\ Count => TypeOK'
<1> SUFFICES ASSUME TypeOK, Count PROVE TypeOK'
  OBVIOUS
<1>1. \A m \in Metrics : HourOf(m) \in Int
  BY RetentionAssumption DEF HourOf, hour_start_of, TypeOK
<1>2. counted' \in [Metrics -> Int \union {None}]
  BY <1>1 DEF Count, CountedHour, TypeOK
<1>3. PICK first \in SUBSET Unlinked(passing) :
        /\ links' = links \union {LinkOf(f) : f \in first}
        /\ made' = made \union {LinkOf(f) : f \in first}
  BY DEF Count
<1>4. \A f \in first : LinkOf(f) \in LinkType
  BY PipelineAssumption DEF Unlinked, LinkOf, LinkType, TypeOK, Range
<1>5. links' \subseteq made' /\ made' \subseteq LinkType
  BY <1>3, <1>4 DEF TypeOK
<1> QED
  BY <1>2, <1>5
  DEF TypeOK, Count, queueVars, pendingVars, taskVars, dropVars

LEMMA TypePush == TypeOK /\ Push => TypeOK'
<1> SUFFICES ASSUME TypeOK, Push PROVE TypeOK'
  OBVIOUS
<1> DEFINE group == NextGroup
           time  == KeepAt(group)
           ms    == waiting \union group
           since == [s \in SecondsOf(ms, time) |->
                       IF s \in DOMAIN created THEN created[s] ELSE now]
<1>1. group \subseteq Metrics /\ ms \subseteq Metrics
  BY DEF NextGroup, TypeOK
<1>2. kept' \in [Metrics -> Int] /\ passing' \subseteq Metrics
  BY KeepAtType DEF Push, TypeOK
<1>3. pushed' \in [Metrics -> Nat]
  BY DEF Push, TypeOK
<1>4. PICK D \in SUBSET DOMAIN since :
        LET dropped == {m \in ms : time[m] \in D} IN
        /\ waiting' = ms \ dropped
        /\ created' = [s \in DOMAIN since \ D |-> since[s]]
        /\ records' = records + Cardinality(group) - Cardinality(dropped)
        /\ overflow' = overflow \union dropped
  BY DEF Push
<1>5. IsFiniteSet(group) /\ IsFiniteSet({m \in ms : time[m] \in D})
  BY <1>1, PipelineAssumption, FS_Subset
<1>6. records' \in Int
  BY <1>4, <1>5, FS_CardinalityType DEF TypeOK
<1>7. \A s \in DOMAIN since : since[s] \in Nat
  BY DEF TypeOK
<1>8. created' \in [DOMAIN created' -> Nat]
  BY <1>4, <1>7
<1>9. waiting' \subseteq Metrics /\ overflow' \subseteq Metrics
  BY <1>1, <1>4 DEF TypeOK
<1> QED
  BY <1>2, <1>3, <1>6, <1>8, <1>9 DEF TypeOK, Push, queueVars, taskVars, linkVars

LEMMA TypeEndPass == TypeOK /\ EndPass => TypeOK'
BY DEF TypeOK, EndPass, Return, Passes, pendingVars, taskVars, linkVars, dropVars


LEMMA TypeTake ==
  ASSUME NEW t \in AllTasks, NEW all \in BOOLEAN,
         TypeOK, Take(t, all), stop' \in {stop, "writing"}
  PROVE  TypeOK'
<1> DEFINE ready == {m \in waiting : kept[m] \in ReadySeconds(all)}
<1>1. ready \subseteq Metrics /\ IsFiniteSet(ready)
  BY PipelineAssumption, FS_Subset DEF TypeOK
<1>2. records' \in Int
  BY <1>1, FS_CardinalityType DEF Take, TypeOK
<1>3. created' \in [DOMAIN created' -> Nat]
  BY DEF Take, BucketsWithout, TypeOK
<1>4. \A l \in made : l.client \in Range(ClientOf)
  BY DEF TypeOK, LinkType
<1>5. client' \in [Metrics -> Range(ClientOf) \union {None}]
  <2>1. ASSUME NEW m \in Metrics, \E l \in links : l.process = ProcessOf[m]
        PROVE  (CHOOSE l \in links : l.process = ProcessOf[m]).client \in Range(ClientOf)
    BY <2>1, <1>4 DEF TypeOK
  <2> QED
    BY <2>1 DEF Take, NameClients, TypeOK
<1>6. waiting' \subseteq Metrics /\ links' \subseteq made'
  BY DEF Take, KeptLinks, TypeOK
<1>7. /\ stage' \in [AllTasks -> {"idle", "taken", "writing"}]
      /\ held' \in [AllTasks -> SUBSET Metrics]
      /\ awaited' \in [AllTasks -> BOOLEAN]
  BY <1>1 DEF Take, TypeOK
<1> QED
  BY <1>2, <1>3, <1>5, <1>6, <1>7
  DEF TypeOK, Take, queueVars, passVars, dropVars

LEMMA TypeTickFindsNothing == TypeOK /\ TickFindsNothing => TypeOK'
BY DEF TypeOK, TickFindsNothing, KeptLinks, queueVars, passVars, pendingVars, taskVars,
       dropVars

LEMMA TypeStartWrite ==
  ASSUME NEW t \in AllTasks PROVE TypeOK /\ StartWrite(t) => TypeOK'
BY DEF TypeOK, StartWrite, TooLate, queueVars, passVars, pendingVars, linkVars

LEMMA TypeWriteHour ==
  ASSUME NEW t \in AllTasks PROVE TypeOK /\ WriteHour(t) => TypeOK'
<1> SUFFICES ASSUME TypeOK, WriteHour(t) PROVE TypeOK'
  OBVIOUS
<1>1. NextHourOf(t) \subseteq Metrics
  BY DEF NextHourOf, TypeOK
<1>2. stored' \subseteq Metrics /\ refused' \subseteq Metrics
  BY <1>1 DEF WriteHour, TypeOK
<1>3. left' \in [AllTasks -> SUBSET Metrics]
  BY DEF WriteHour, TypeOK
<1> QED
  BY <1>2, <1>3 DEF TypeOK, WriteHour, queueVars, passVars, pendingVars, linkVars

LEMMA TypeEndWrite ==
  ASSUME NEW t \in AllTasks PROVE TypeOK /\ EndWrite(t) => TypeOK'
BY DEF TypeOK, EndWrite, LetGo, queueVars, passVars, pendingVars, linkVars, dropVars

LEMMA TypeGiveUp ==
  ASSUME NEW t \in AllTasks PROVE TypeOK /\ GiveUp(t) => TypeOK'
BY DEF TypeOK, GiveUp, queueVars, passVars, pendingVars, linkVars, dropVars

LEMMA TypeBeginStop == TypeOK /\ BeginStop => TypeOK'
BY DEF TypeOK, BeginStop, queueVars, passVars, pendingVars, taskVars, linkVars, dropVars

LEMMA TypeExit == TypeOK /\ Exit => TypeOK'
BY DEF TypeOK, Exit, queueVars, passVars, pendingVars, taskVars, linkVars, dropVars

(* A step of a search changes nothing but the search. *)
LEMMA TypeSearch ==
  ASSUME NEW r \in Searches,
         \/ \E h \in Int : LookInMemory(r, h)
         \/ ReadFiles(r)
         \/ Answer(r),
         TypeOK
  PROVE  TypeOK'
<1>1. search' \in [Searches -> SearchType]
  <2>1. ASSUME NEW h \in Int, LookInMemory(r, h) PROVE search' \in [Searches -> SearchType]
    <3>1. h .. h + HOUR_MICROS - 1 \in SUBSET Int
      BY RetentionAssumption
    <3>2. {m \in InMemory : HourOf(m) = h} \subseteq Metrics
      BY DEF InMemory, BeingWritten, TypeOK
    <3> DEFINE new == [at |-> "files", hour |-> h, found |-> {m \in InMemory : HourOf(m) = h},
                       must |-> {m \in Metrics \ Dropped : pushed[m] # 0 /\ HourOf(m) = h},
                       unread |-> h .. h + HOUR_MICROS - 1]
    <3>3. new \in SearchType
      BY <3>1, <3>2 DEF SearchType
    <3>4. search' = [search EXCEPT ![r] = new]
      BY <2>1 DEF LookInMemory
    <3> HIDE DEF new
    <3> QED
      BY <3>3, <3>4 DEF TypeOK
  <2>2. CASE ReadFiles(r)
    <3>1. PICK s \in search[r].unread :
            search' = [search EXCEPT ![r].unread = @ \ {s},
                                     ![r].found = @ \union {m \in stored : kept[m] = s}]
      BY <2>2 DEF ReadFiles
    <3>2. search[r] \in SearchType /\ stored \subseteq Metrics
      BY DEF TypeOK
    <3>3. search'[r] \in SearchType
      BY <3>1, <3>2 DEF SearchType, TypeOK
    <3> QED
      BY <3>1, <3>3 DEF TypeOK
  <2>3. CASE Answer(r)
    BY <2>3 DEF Answer, TypeOK, SearchType, SearchIdle
  <2> QED
    BY <2>1, <2>2, <2>3
<1>2. UNCHANGED <<now, queueVars, passVars, kept, pendingVars, taskVars, linkVars, client,
                  permanent, stored, stop, counted, dropVars, pushed>>
  BY DEF LookInMemory, ReadFiles, Answer
<1> QED
  BY <1>1, <1>2
  DEF TypeOK, queueVars, passVars, pendingVars, taskVars, linkVars, dropVars

LEMMA TypeUnchanged == TypeOK /\ UNCHANGED vars => TypeOK'
BY DEF TypeOK, vars, queueVars, passVars, pendingVars, taskVars, linkVars, dropVars


LEMMA TypeStep == TypeOK /\ [Next]_vars => TypeOK'
<1> SUFFICES ASSUME TypeOK, [Next]_vars PROVE TypeOK'
  OBVIOUS
<1>1. CASE Tick
  BY <1>1, TypeTick
<1>2. ASSUME NEW b \in Batches, Enqueue(b) \/ Trigger(b) PROVE TypeOK'
  BY <1>2, TypeEnqueue, TypeTrigger
<1>3. ASSUME NEW p \in Passes, TakeNothing(p) \/ TakeBatch(p) PROVE TypeOK'
  BY <1>3, TypeTakeNothing, TypeTakeBatch
<1>4. CASE Count \/ Push \/ EndPass
  BY <1>4, TypeCount, TypePush, TypeEndPass
<1>5. ASSUME NEW t \in Tasks, TickTakes(t) \/ GiveUp(t) PROVE TypeOK'
  <2>1. t \in AllTasks
    BY DEF AllTasks
  <2> QED
    BY <1>5, <2>1, TypeTake, TypeGiveUp DEF TickTakes
<1>6. CASE TickFindsNothing \/ StopTakes
  <2>1. StopTask \in AllTasks
    BY DEF AllTasks
  <2> QED
    BY <1>6, <2>1, TypeTickFindsNothing, TypeTake DEF StopTakes
<1>7. ASSUME NEW t \in AllTasks, StartWrite(t) \/ WriteHour(t) \/ EndWrite(t) PROVE TypeOK'
  BY <1>7, TypeStartWrite, TypeWriteHour, TypeEndWrite
<1>8. CASE BeginStop \/ Exit
  BY <1>8, TypeBeginStop, TypeExit
<1>9. ASSUME NEW r \in Searches,
             \/ \E h \in {HourOf(m) : m \in InMemory \union stored} : LookInMemory(r, h)
             \/ ReadFiles(r)
             \/ Answer(r)
      PROVE  TypeOK'
  <2>1. \A m \in InMemory \union stored : HourOf(m) \in Int
    BY RetentionAssumption
    DEF InMemory, BeingWritten, HourOf, hour_start_of, TypeOK
  <2> QED
    BY <1>9, <2>1, TypeSearch
<1>10. CASE Exited \/ UNCHANGED vars
  BY <1>10, TypeUnchanged DEF Exited
<1> QED
  BY <1>1, <1>2, <1>3, <1>4, <1>5, <1>6, <1>7, <1>8, <1>9, <1>10 DEF Next

(* The variables have their types in every state of every instance. *)
THEOREM TypesHold == Spec => []TypeOK
BY TypeInit, TypeStep, PTL DEF Spec


-------------------------------------------------------------------------------
(* No metric is forgotten or taken twice.  The inductive invariant adds what *)
(* the tasks hold: a task which begins to write holds nothing else.          *)
Accounted == NothingForgotten /\ NothingTwice /\ TasksAccountFor /\ NoMomentInNeither

LEMMA AccountedInit == Init => Accounted
<1> SUFFICES ASSUME Init PROVE Accounted
  OBVIOUS
<1>1. Sent = {}
  BY DEF Init, Sent
<1>2. \A t \in AllTasks : Undecided(t) = {}
  BY DEF Init, Undecided
<1>3. InTasks = {}
  BY <1>2 DEF InTasks
<1>4. Range(queue) = {} /\ Len(queue) = 0
  BY DEF Init, Range
<1>5. passing = {} /\ waiting = {} /\ stored = {} /\ late = {} /\ overflow = {} /\ refused = {}
  BY DEF Init
<1>6. NothingForgotten
  BY <1>1, <1>3, <1>4, <1>5 DEF NothingForgotten, Dropped
<1>7. NothingTwice
  BY <1>2, <1>3, <1>4, <1>5 DEF NothingTwice, Dropped
<1>8. TasksAccountFor
  BY DEF Init, TasksAccountFor
<1>9. NoMomentInNeither
  BY DEF Init, NoMomentInNeither
<1> QED
  BY <1>6, <1>7, <1>8, <1>9 DEF Accounted

(* The steps which move no metric. *)
LEMMA AccountedFrame ==
  ASSUME Accounted, Sent' = Sent,
         UNCHANGED <<queue, passing, waiting, stage, held, left, stored, late, overflow,
                     refused, pushed>>
  PROVE  Accounted'
<1>1. \A t \in AllTasks : Undecided(t)' = Undecided(t)
  BY DEF Undecided
<1>2. InTasks' = InTasks /\ InMemory' = InMemory /\ Dropped' = Dropped
  BY <1>1 DEF InTasks, InMemory, BeingWritten, Dropped
<1> QED
  BY <1>1, <1>2
  DEF Accounted, NothingForgotten, NothingTwice, TasksAccountFor, NoMomentInNeither

LEMMA SentType == TypeOK => Sent \subseteq Metrics
BY BatchType DEF Sent

(* A call is made once: what a new one brings was not sent before. *)
LEMMA NewIsNotSent ==
  ASSUME NEW b \in Batches, calls[b] = "new"
  PROVE  Sent \intersect Range(b) = {}
<1> SUFFICES ASSUME NEW m \in Range(b), m \in Sent PROVE FALSE
  OBVIOUS
<1>1. PICK c \in Batches : calls[c] # "new" /\ m \in Range(c)
  BY DEF Sent
<1>2. b = c
  BY <1>1, PipelineAssumption
<1> QED
  BY <1>1, <1>2

LEMMA AccountedEnqueue ==
  ASSUME NEW b \in Batches, TypeOK, Accounted, Enqueue(b)
  PROVE  Accounted'
<1>1. b \in Seq(Metrics) /\ queue \in Seq(Metrics) /\ queue' = queue \o b
  BY BatchType DEF TypeOK, Enqueue
<1>2. Sent' = Sent \union Range(b)
  BY DEF Sent, Enqueue, TypeOK
<1>3. Sent \intersect Range(b) = {}
  BY NewIsNotSent DEF Enqueue
<1>4. \A i, j \in 1 .. Len(b) : b[i] = b[j] => i = j
  BY PipelineAssumption
<1>5. Range(queue) \intersect Range(b) = {}
  BY <1>3 DEF Accounted, NothingForgotten
<1>6. /\ Range(queue') = Range(queue) \union Range(b)
      /\ \A i, j \in 1 .. Len(queue') : queue'[i] = queue'[j] => i = j
  BY <1>1, <1>4, <1>5, QueueGrows DEF Accounted, NothingTwice
<1>7. UNCHANGED <<passing, waiting, stage, held, left, stored, late, overflow, refused, pushed>>
  BY DEF Enqueue, passVars, pendingVars, taskVars, dropVars
<1>8. \A t \in AllTasks : Undecided(t)' = Undecided(t)
  BY <1>7 DEF Undecided
<1>9. InTasks' = InTasks /\ InMemory' = InMemory /\ Dropped' = Dropped
  BY <1>7, <1>8 DEF InTasks, InMemory, BeingWritten, Dropped
<1>10. NothingForgotten'
  BY <1>2, <1>6, <1>7, <1>9 DEF Accounted, NothingForgotten
<1>11. NothingTwice'
  BY <1>3, <1>6, <1>7, <1>8, <1>9 DEF Accounted, NothingForgotten, NothingTwice
<1>12. TasksAccountFor' /\ NoMomentInNeither'
  BY <1>7, <1>9 DEF Accounted, TasksAccountFor, NoMomentInNeither
<1> QED
  BY <1>10, <1>11, <1>12 DEF Accounted

LEMMA AccountedTakeBatch ==
  ASSUME NEW p \in Passes, TypeOK, Accounted, TakeBatch(p), passing = {}
  PROVE  Accounted'
<1> DEFINE taken == {queue[i] : i \in 1 .. BatchSize}
           over  == TooLate(taken, KeepAt(taken))
<1>1. /\ queue' = SubSeq(queue, BatchSize + 1, Len(queue))
      /\ passing' = taken \ over
      /\ late' = late \union over
  BY DEF TakeBatch, Rest
<1>2. over \subseteq taken
  BY DEF TooLate
<1>3. /\ Range(queue) = taken \union Range(queue')
      /\ taken \intersect Range(queue') = {}
      /\ \A i, j \in 1 .. Len(queue') : queue'[i] = queue'[j] => i = j
  <2>1. queue \in Seq(Metrics) /\ BatchSize \in 0 .. Len(queue)
    BY BatchSizeType DEF TypeOK
  <2>2. \A i, j \in 1 .. Len(queue) : queue[i] = queue[j] => i = j
    BY DEF Accounted, NothingTwice
  <2> QED
    BY <1>1, <2>1, <2>2, QueueParts
<1>4. UNCHANGED <<waiting, stage, held, left, stored, overflow, refused, pushed>> /\ calls' = calls
  BY DEF TakeBatch, pendingVars, taskVars
<1>5. \A t \in AllTasks : Undecided(t)' = Undecided(t)
  BY <1>4 DEF Undecided
<1>6. InTasks' = InTasks /\ InMemory' = InMemory /\ Dropped' = Dropped \union over /\ Sent' = Sent
  BY <1>1, <1>4, <1>5 DEF InTasks, InMemory, BeingWritten, Dropped, Sent
<1> HIDE DEF taken, over
<1>7. NothingForgotten'
  BY <1>1, <1>2, <1>3, <1>4, <1>6 DEF Accounted, NothingForgotten
<1>8. NothingTwice'
  <2>1. \A t, u \in AllTasks : t # u => Undecided(t)' \intersect Undecided(u)' = {}
    BY <1>5 DEF Accounted, NothingTwice
  <2>2. taken \intersect UNION {waiting, InTasks, stored, Dropped} = {}
    BY <1>3 DEF Accounted, NothingTwice
  <2>3. /\ Range(queue') \intersect UNION {passing', waiting', InTasks', stored', Dropped'} = {}
        /\ passing' \intersect UNION {waiting', InTasks', stored', Dropped'} = {}
    BY <1>1, <1>2, <1>3, <1>4, <1>6, <2>2 DEF Accounted, NothingTwice
  <2>4. /\ waiting' \intersect UNION {InTasks', stored', Dropped'} = {}
        /\ InTasks' \intersect (stored' \union Dropped') = {}
        /\ stored' \intersect Dropped' = {}
    BY <1>1, <1>2, <1>4, <1>6, <2>2 DEF Accounted, NothingTwice
  <2>5. late' \intersect overflow' = {} /\ late' \intersect refused' = {} /\ overflow' \intersect refused' = {}
    BY <1>1, <1>2, <1>4, <2>2 DEF Accounted, NothingTwice, Dropped
  <2> QED
    BY <1>3, <2>1, <2>3, <2>4, <2>5 DEF NothingTwice
<1>9. TasksAccountFor' /\ NoMomentInNeither'
  BY <1>4, <1>6 DEF Accounted, TasksAccountFor, NoMomentInNeither
<1> QED
  BY <1>7, <1>8, <1>9 DEF Accounted


LEMMA AccountedPush ==
  ASSUME TypeOK, Accounted, Push
  PROVE  Accounted'
<1> DEFINE group == NextGroup
<1>1. group \subseteq passing /\ passing \subseteq Metrics
  BY DEF NextGroup, TypeOK
<1>2. PICK dropped :
        /\ dropped \subseteq waiting \union group
        /\ waiting' = (waiting \union group) \ dropped
        /\ overflow' = overflow \union dropped
  BY DEF Push
<1>3. /\ passing' = passing \ group
      /\ \A m \in Metrics : pushed'[m] # 0 => m \in group \/ pushed[m] # 0
      /\ UNCHANGED <<queue, calls, stage, held, left, stored, late, refused>>
  BY DEF Push, TypeOK, queueVars, taskVars
<1>4. \A t \in AllTasks : Undecided(t)' = Undecided(t)
  BY <1>3 DEF Undecided
<1>5. /\ InTasks' = InTasks /\ BeingWritten' = BeingWritten /\ Sent' = Sent
      /\ Dropped' = Dropped \union dropped
  BY <1>2, <1>3, <1>4 DEF InTasks, BeingWritten, Dropped, Sent
<1> HIDE DEF group
<1>6. NothingForgotten'
  BY <1>1, <1>2, <1>3, <1>5 DEF Accounted, NothingForgotten
<1>7. NothingTwice'
  <2>1. \A t, u \in AllTasks : t # u => Undecided(t)' \intersect Undecided(u)' = {}
    BY <1>4 DEF Accounted, NothingTwice
  <2>2. \A i, j \in 1 .. Len(queue') : queue'[i] = queue'[j] => i = j
    BY <1>3 DEF Accounted, NothingTwice
  <2>3. /\ Range(queue') \intersect UNION {passing', waiting', InTasks', stored', Dropped'} = {}
        /\ passing' \intersect UNION {waiting', InTasks', stored', Dropped'} = {}
    BY <1>1, <1>2, <1>3, <1>5 DEF Accounted, NothingTwice
  <2>4. /\ waiting' \intersect UNION {InTasks', stored', Dropped'} = {}
        /\ InTasks' \intersect (stored' \union Dropped') = {}
        /\ stored' \intersect Dropped' = {}
    BY <1>1, <1>2, <1>3, <1>5 DEF Accounted, NothingTwice
  <2>5. late' \intersect overflow' = {} /\ late' \intersect refused' = {} /\ overflow' \intersect refused' = {}
    BY <1>1, <1>2, <1>3 DEF Accounted, NothingTwice, Dropped
  <2> QED
    BY <2>1, <2>2, <2>3, <2>4, <2>5 DEF NothingTwice
<1>8. TasksAccountFor'
  BY <1>3, <1>5 DEF Accounted, TasksAccountFor
<1>9. NoMomentInNeither'
  BY <1>1, <1>2, <1>3, <1>5 DEF Accounted, NoMomentInNeither, InMemory
<1> QED
  BY <1>6, <1>7, <1>8, <1>9 DEF Accounted

LEMMA AccountedTake ==
  ASSUME NEW t \in AllTasks, NEW all \in BOOLEAN, TypeOK, Accounted, Take(t, all)
  PROVE  Accounted'
<1> DEFINE ready == {m \in waiting : kept[m] \in ReadySeconds(all)}
<1>1. /\ ready \subseteq waiting
      /\ waiting' = waiting \ ready
      /\ stage[t] = "idle" /\ stage' = [stage EXCEPT ![t] = "taken"]
      /\ held' = [held EXCEPT ![t] = ready]
      /\ UNCHANGED <<queue, calls, passing, left, stored, late, overflow, refused, pushed>>
  BY DEF Take, queueVars, passVars, dropVars
<1> HIDE DEF ready
<1>2. left[t] = {} /\ held[t] = {}
  BY <1>1 DEF Accounted, TasksAccountFor
<1>3. Undecided(t) = {} /\ Undecided(t)' = ready
  BY <1>1, <1>2 DEF Undecided, TypeOK
<1>4. \A u \in AllTasks : u # t =>
        Undecided(u)' = Undecided(u) /\ held'[u] = held[u] /\ stage'[u] = stage[u]
  BY <1>1 DEF Undecided, TypeOK
<1>5. held'[t] = ready /\ stage'[t] = "taken"
  BY <1>1 DEF TypeOK
<1>6. InTasks' = InTasks \union ready
  BY <1>3, <1>4 DEF InTasks
<1>7. BeingWritten' = BeingWritten \union ready
  BY <1>2, <1>4, <1>5 DEF BeingWritten
<1>8. Dropped' = Dropped /\ Sent' = Sent
  BY <1>1 DEF Dropped, Sent
<1>9. NothingForgotten'
  BY <1>1, <1>6, <1>8 DEF Accounted, NothingForgotten
<1>10. NothingTwice'
  <2>1. ASSUME NEW u \in AllTasks, NEW v \in AllTasks, u # v
        PROVE  Undecided(u)' \intersect Undecided(v)' = {}
    <3>1. \A w \in AllTasks : Undecided(w) \subseteq InTasks
      BY DEF InTasks
    <3>2. ready \intersect InTasks = {}
      BY <1>1 DEF Accounted, NothingTwice
    <3> QED
      BY <1>3, <1>4, <2>1, <3>1, <3>2 DEF Accounted, NothingTwice
  <2>2. /\ \A i, j \in 1 .. Len(queue') : queue'[i] = queue'[j] => i = j
        /\ late' \intersect overflow' = {} /\ late' \intersect refused' = {}
        /\ overflow' \intersect refused' = {}
    BY <1>1 DEF Accounted, NothingTwice
  <2>3. /\ Range(queue') \intersect UNION {passing', waiting', InTasks', stored', Dropped'} = {}
        /\ passing' \intersect UNION {waiting', InTasks', stored', Dropped'} = {}
    BY <1>1, <1>6, <1>8 DEF Accounted, NothingTwice
  <2>4. /\ waiting' \intersect UNION {InTasks', stored', Dropped'} = {}
        /\ InTasks' \intersect (stored' \union Dropped') = {}
        /\ stored' \intersect Dropped' = {}
    BY <1>1, <1>6, <1>8 DEF Accounted, NothingTwice
  <2> QED
    BY <2>1, <2>2, <2>3, <2>4 DEF NothingTwice
<1>11. TasksAccountFor'
  <2>1. \A u \in AllTasks : left'[u] = left[u]
    BY <1>1
  <2>2. stored' = stored
    BY <1>1
  <2> QED
    BY <1>2, <1>4, <1>5, <1>8, <2>1, <2>2 DEF Accounted, TasksAccountFor
<1>12. NoMomentInNeither'
  BY <1>1, <1>7, <1>8 DEF Accounted, NoMomentInNeither, InMemory
<1> QED
  BY <1>9, <1>10, <1>11, <1>12 DEF Accounted

LEMMA AccountedStartWrite ==
  ASSUME NEW t \in AllTasks, TypeOK, Accounted, StartWrite(t)
  PROVE  Accounted'
<1> DEFINE over == TooLate(held[t], kept)
<1>1. /\ over \subseteq held[t]
      /\ stage[t] = "taken" /\ stage' = [stage EXCEPT ![t] = "writing"]
      /\ left' = [left EXCEPT ![t] = held[t] \ over]
      /\ late' = late \union over
      /\ UNCHANGED <<queue, calls, passing, waiting, held, stored, overflow, refused, pushed>>
  BY DEF StartWrite, TooLate, queueVars, passVars, pendingVars
<1> HIDE DEF over
<1>2. left'[t] = held[t] \ over /\ stage'[t] = "writing"
  BY <1>1 DEF TypeOK
<1>3. Undecided(t) = held[t] /\ Undecided(t)' = held[t] \ over
  BY <1>1, <1>2 DEF Undecided
<1>4. \A u \in AllTasks : u # t =>
        Undecided(u)' = Undecided(u) /\ left'[u] = left[u] /\ stage'[u] = stage[u]
  BY <1>1 DEF Undecided, TypeOK
<1>5. over \subseteq InTasks /\ \A u \in AllTasks : u # t => over \intersect Undecided(u) = {}
  BY <1>1, <1>3 DEF InTasks, Accounted, NothingTwice
<1>6. InTasks' = InTasks \ over
  BY <1>3, <1>4, <1>5 DEF InTasks
<1>7. /\ InMemory' = InMemory /\ Sent' = Sent
      /\ Dropped' = Dropped \union over
  BY <1>1 DEF InMemory, BeingWritten, Dropped, Sent
<1>8. NothingForgotten'
  BY <1>1, <1>5, <1>6, <1>7 DEF Accounted, NothingForgotten
<1>9. NothingTwice'
  <2>1. \A u \in AllTasks : Undecided(u)' \subseteq Undecided(u)
    BY <1>3, <1>4
  <2>2. \A u, v \in AllTasks : u # v => Undecided(u)' \intersect Undecided(v)' = {}
    BY <2>1 DEF Accounted, NothingTwice
  <2>3. /\ \A i, j \in 1 .. Len(queue') : queue'[i] = queue'[j] => i = j
        /\ late' \intersect overflow' = {} /\ late' \intersect refused' = {}
        /\ overflow' \intersect refused' = {}
    BY <1>1, <1>5 DEF Accounted, NothingTwice, Dropped
  <2>4. /\ Range(queue') \intersect UNION {passing', waiting', InTasks', stored', Dropped'} = {}
        /\ passing' \intersect UNION {waiting', InTasks', stored', Dropped'} = {}
    BY <1>1, <1>5, <1>6, <1>7 DEF Accounted, NothingTwice
  <2>5. /\ waiting' \intersect UNION {InTasks', stored', Dropped'} = {}
        /\ InTasks' \intersect (stored' \union Dropped') = {}
        /\ stored' \intersect Dropped' = {}
    BY <1>1, <1>5, <1>6, <1>7 DEF Accounted, NothingTwice
  <2> QED
    BY <2>2, <2>3, <2>4, <2>5 DEF NothingTwice
<1>10. TasksAccountFor'
  <2>1. \A u \in AllTasks : held'[u] = held[u] /\ stored' = stored
    BY <1>1
  <2>2. Dropped \subseteq Dropped' /\ over \subseteq Dropped'
    BY <1>7
  <2>3. ASSUME NEW u \in AllTasks
        PROVE  /\ left'[u] \subseteq held'[u]
               /\ stage'[u] # "writing" => left'[u] = {}
               /\ stage'[u] = "idle" => held'[u] = {}
               /\ stage'[u] = "writing" => held'[u] \ left'[u] \subseteq stored' \union Dropped'
    <3>1. CASE u = t
      BY <1>1, <1>2, <2>1, <2>2, <3>1
    <3>2. CASE u # t
      BY <1>4, <2>1, <2>2, <3>2 DEF Accounted, TasksAccountFor
    <3> QED
      BY <3>1, <3>2
  <2> QED
    BY <2>3 DEF TasksAccountFor
<1>11. NoMomentInNeither'
  BY <1>1, <1>7 DEF Accounted, NoMomentInNeither
<1> QED
  BY <1>8, <1>9, <1>10, <1>11 DEF Accounted

LEMMA AccountedWriteHour ==
  ASSUME NEW t \in AllTasks, TypeOK, Accounted, WriteHour(t)
  PROVE  Accounted'
<1> DEFINE group == NextHourOf(t)
<1>1. /\ group \subseteq left[t]
      /\ stage[t] = "writing"
      /\ left' = [left EXCEPT ![t] = left[t] \ group]
      /\ UNCHANGED <<queue, calls, passing, waiting, stage, held, late, overflow, pushed>>
  BY DEF WriteHour, NextHourOf, queueVars, passVars, pendingVars
<1>2. PICK kep, ref :
        /\ kep \union ref = group /\ kep \intersect ref = {}
        /\ stored' = stored \union kep /\ refused' = refused \union ref
  <2>1. CASE stored' = stored \union group /\ refused' = refused
    <3>1. /\ group \union {} = group /\ group \intersect {} = {}
          /\ stored' = stored \union group /\ refused' = refused \union {}
      BY <2>1
    <3> WITNESS group, {}
    <3> QED
      BY <3>1
  <2>2. CASE refused' = refused \union group /\ stored' = stored
    <3>1. /\ {} \union group = group /\ {} \intersect group = {}
          /\ stored' = stored \union {} /\ refused' = refused \union group
      BY <2>2
    <3> WITNESS {}, group
    <3> QED
      BY <3>1
  <2> QED
    BY <2>1, <2>2 DEF WriteHour
<1> HIDE DEF group
<1>3. left'[t] = left[t] \ group
  BY <1>1 DEF TypeOK
<1>4. Undecided(t) = left[t] /\ Undecided(t)' = left[t] \ group
  BY <1>1, <1>3 DEF Undecided
<1>5. \A u \in AllTasks : u # t => Undecided(u)' = Undecided(u) /\ left'[u] = left[u]
  BY <1>1 DEF Undecided, TypeOK
<1>6. group \subseteq InTasks /\ \A u \in AllTasks : u # t => group \intersect Undecided(u) = {}
  BY <1>1, <1>4 DEF InTasks, Accounted, NothingTwice
<1>7. InTasks' = InTasks \ group
  BY <1>4, <1>5, <1>6 DEF InTasks
<1>8. /\ InMemory' = InMemory /\ Sent' = Sent
      /\ Dropped' = Dropped \union ref
  BY <1>1, <1>2 DEF InMemory, BeingWritten, Dropped, Sent
<1>9. NothingForgotten'
  BY <1>1, <1>2, <1>6, <1>7, <1>8 DEF Accounted, NothingForgotten
<1>10. NothingTwice'
  <2>1. \A u \in AllTasks : Undecided(u)' \subseteq Undecided(u)
    BY <1>4, <1>5
  <2>2. \A u, v \in AllTasks : u # v => Undecided(u)' \intersect Undecided(v)' = {}
    BY <2>1 DEF Accounted, NothingTwice
  <2>3. /\ \A i, j \in 1 .. Len(queue') : queue'[i] = queue'[j] => i = j
        /\ late' \intersect overflow' = {} /\ late' \intersect refused' = {}
        /\ overflow' \intersect refused' = {}
    BY <1>1, <1>2, <1>6 DEF Accounted, NothingTwice, Dropped
  <2>4. /\ Range(queue') \intersect UNION {passing', waiting', InTasks', stored', Dropped'} = {}
        /\ passing' \intersect UNION {waiting', InTasks', stored', Dropped'} = {}
    BY <1>1, <1>2, <1>6, <1>7, <1>8 DEF Accounted, NothingTwice
  <2>5. /\ waiting' \intersect UNION {InTasks', stored', Dropped'} = {}
        /\ InTasks' \intersect (stored' \union Dropped') = {}
        /\ stored' \intersect Dropped' = {}
    BY <1>1, <1>2, <1>6, <1>7, <1>8 DEF Accounted, NothingTwice
  <2> QED
    BY <2>2, <2>3, <2>4, <2>5 DEF NothingTwice
<1>11. TasksAccountFor'
  <2>1. \A u \in AllTasks : held'[u] = held[u] /\ stage'[u] = stage[u]
    BY <1>1
  <2>2. stored \union Dropped \subseteq stored' \union Dropped' /\ group \subseteq stored' \union Dropped'
    BY <1>2, <1>8
  <2>3. ASSUME NEW u \in AllTasks
        PROVE  /\ left'[u] \subseteq held'[u]
               /\ stage'[u] # "writing" => left'[u] = {}
               /\ stage'[u] = "idle" => held'[u] = {}
               /\ stage'[u] = "writing" => held'[u] \ left'[u] \subseteq stored' \union Dropped'
    <3>1. CASE u = t
      BY <1>1, <1>3, <2>1, <2>2, <3>1 DEF Accounted, TasksAccountFor
    <3>2. CASE u # t
      BY <1>5, <2>1, <2>2, <3>2 DEF Accounted, TasksAccountFor
    <3> QED
      BY <3>1, <3>2
  <2> QED
    BY <2>3 DEF TasksAccountFor
<1>12. NoMomentInNeither'
  BY <1>1, <1>2, <1>8 DEF Accounted, NoMomentInNeither
<1> QED
  BY <1>9, <1>10, <1>11, <1>12 DEF Accounted

LEMMA AccountedEndWrite ==
  ASSUME NEW t \in AllTasks, TypeOK, Accounted, EndWrite(t)
  PROVE  Accounted'
<1>1. /\ stage[t] = "writing" /\ left[t] = {}
      /\ stage' = [stage EXCEPT ![t] = "idle"]
      /\ held' = [held EXCEPT ![t] = {}]
      /\ UNCHANGED <<queue, calls, passing, waiting, left, stored, late, overflow, refused, pushed>>
  BY DEF EndWrite, LetGo, queueVars, passVars, pendingVars, dropVars
<1>2. held'[t] = {} /\ stage'[t] = "idle"
  BY <1>1 DEF TypeOK
<1>3. Undecided(t) = {} /\ Undecided(t)' = {}
  BY <1>1, <1>2 DEF Undecided
<1>4. \A u \in AllTasks : u # t =>
        Undecided(u)' = Undecided(u) /\ held'[u] = held[u] /\ stage'[u] = stage[u]
  BY <1>1 DEF Undecided, TypeOK
<1>5. \A u \in AllTasks : Undecided(u)' = Undecided(u)
  BY <1>3, <1>4
<1>6. InTasks' = InTasks /\ Dropped' = Dropped /\ Sent' = Sent
  BY <1>1, <1>5 DEF InTasks, Dropped, Sent
<1>7. held[t] \subseteq stored \union Dropped
  BY <1>1 DEF Accounted, TasksAccountFor
<1>8. BeingWritten \subseteq BeingWritten' \union stored \union Dropped
  BY <1>4, <1>7 DEF BeingWritten
<1>9. NothingForgotten'
  BY <1>1, <1>6 DEF Accounted, NothingForgotten
<1>10. NothingTwice'
  BY <1>1, <1>5, <1>6 DEF Accounted, NothingTwice
<1>11. TasksAccountFor'
  <2>1. \A u \in AllTasks : left'[u] = left[u] /\ stored' = stored
    BY <1>1
  <2> QED
    BY <1>1, <1>2, <1>4, <1>6, <2>1 DEF Accounted, TasksAccountFor
<1>12. NoMomentInNeither'
  BY <1>1, <1>6, <1>8 DEF Accounted, NoMomentInNeither, InMemory
<1> QED
  BY <1>9, <1>10, <1>11, <1>12 DEF Accounted

-------------------------------------------------------------------------------
(* Between two passes no metric is in one. *)
PassIsOver == holder = "none" => passing = {}

LEMMA PassInit == Init => PassIsOver
BY DEF Init, PassIsOver

LEMMA PassStep == PassIsOver /\ [Next]_vars => PassIsOver'
<1> SUFFICES ASSUME PassIsOver, [Next]_vars PROVE PassIsOver'
  OBVIOUS
<1>1. ASSUME NEW p \in Passes, TakeBatch(p) PROVE PassIsOver'
  BY <1>1 DEF TakeBatch, PassIsOver, Passes
<1>2. CASE Count \/ Push \/ EndPass
  BY <1>2 DEF Count, Push, EndPass, PassIsOver
<1>3. ASSUME NEW p \in Passes, TakeNothing(p) PROVE PassIsOver'
  BY <1>3 DEF TakeNothing, passVars, PassIsOver
<1>4. CASE Tick \/ (\E b \in Batches : Enqueue(b) \/ Trigger(b))
  BY <1>4 DEF Tick, Enqueue, Trigger, passVars, PassIsOver
<1>5. CASE (\E t \in Tasks : TickTakes(t) \/ GiveUp(t)) \/ TickFindsNothing \/ StopTakes
  BY <1>5 DEF TickTakes, GiveUp, TickFindsNothing, StopTakes, Take, passVars, PassIsOver
<1>6. CASE \E t \in AllTasks : StartWrite(t) \/ WriteHour(t) \/ EndWrite(t)
  BY <1>6 DEF StartWrite, WriteHour, EndWrite, passVars, PassIsOver
<1>7. CASE BeginStop \/ Exit \/ Exited \/ UNCHANGED vars
  BY <1>7 DEF BeginStop, Exit, Exited, vars, passVars, PassIsOver
<1>8. ASSUME NEW r \in Searches,
             \/ \E h \in {HourOf(m) : m \in InMemory \union stored} : LookInMemory(r, h)
             \/ ReadFiles(r)
             \/ Answer(r)
      PROVE  PassIsOver'
  <2>1. UNCHANGED passVars
    BY <1>8 DEF LookInMemory, ReadFiles, Answer
  <2> QED
    BY <2>1 DEF passVars, PassIsOver
<1> QED
  BY <1>1, <1>2, <1>3, <1>4, <1>5, <1>6, <1>7, <1>8 DEF Next

LEMMA AccountedStep ==
  ASSUME TypeOK, PassIsOver, Accounted, [Next]_vars
  PROVE  Accounted'
<1>1. ASSUME NEW b \in Batches, Trigger(b) PROVE Accounted'
  <2>1. Sent' = Sent
    BY <1>1 DEF Trigger, Sent, TypeOK
  <2> QED
    BY <1>1, <2>1, AccountedFrame DEF Trigger, passVars, pendingVars, taskVars, dropVars
<1>2. ASSUME NEW p \in Passes, TakeBatch(p) PROVE Accounted'
  BY <1>2, AccountedTakeBatch DEF TakeBatch, PassIsOver
<1>3. ASSUME UNCHANGED <<calls, queue, passing, waiting, stage, held, left, stored, late,
                         overflow, refused, pushed>>
      PROVE  Accounted'
  BY <1>3, AccountedFrame DEF Sent
<1>4. ASSUME NEW p \in Passes, TakeNothing(p) PROVE Accounted'
  BY <1>3, <1>4 DEF TakeNothing, passVars, pendingVars, taskVars, dropVars
<1>5. CASE Tick \/ Count \/ EndPass
  BY <1>3, <1>5 DEF Tick, Count, EndPass, queueVars, passVars, pendingVars, taskVars, dropVars
<1>6. CASE BeginStop \/ Exit \/ Exited \/ UNCHANGED vars
  BY <1>3, <1>6
  DEF BeginStop, Exit, Exited, vars, queueVars, passVars, pendingVars, taskVars, dropVars
<1>7. ASSUME NEW t \in Tasks, GiveUp(t) PROVE Accounted'
  BY <1>3, <1>7 DEF GiveUp, queueVars, passVars, pendingVars, dropVars
<1>8. CASE TickFindsNothing
  BY <1>3, <1>8 DEF TickFindsNothing, queueVars, passVars, pendingVars, taskVars, dropVars
<1>9. ASSUME NEW t \in Tasks, TickTakes(t) PROVE Accounted'
  BY <1>9, AccountedTake DEF TickTakes, AllTasks
<1>10. CASE StopTakes
  BY <1>10, AccountedTake DEF StopTakes, AllTasks
<1>11. ASSUME NEW t \in AllTasks, StartWrite(t) \/ WriteHour(t) \/ EndWrite(t) PROVE Accounted'
  BY <1>11, AccountedStartWrite, AccountedWriteHour, AccountedEndWrite
<1>12. ASSUME NEW r \in Searches,
             \/ \E h \in {HourOf(m) : m \in InMemory \union stored} : LookInMemory(r, h)
             \/ ReadFiles(r)
             \/ Answer(r)
      PROVE  Accounted'
  <2>1. UNCHANGED <<queueVars, passVars, pendingVars, taskVars, stored, dropVars, pushed>>
    BY <1>12 DEF LookInMemory, ReadFiles, Answer
  <2> QED
    BY <1>3, <2>1 DEF queueVars, passVars, pendingVars, taskVars, dropVars
<1> QED
  BY <1>1, <1>2, <1>4, <1>5, <1>6, <1>7, <1>8, <1>9, <1>10, <1>11, <1>12,
     AccountedEnqueue, AccountedPush DEF Next

(* The whole of the inductive invariant, which the proofs of the other      *)
(* properties start from.                                                   *)
Sound == TypeOK /\ PassIsOver /\ Accounted

LEMMA SoundInit == Init => Sound
BY TypeInit, PassInit, AccountedInit DEF Sound

LEMMA SoundStep == Sound /\ [Next]_vars => Sound'
BY TypeStep, PassStep, AccountedStep DEF Sound

LEMMA SoundHolds == Spec => []Sound
BY SoundInit, SoundStep, PTL DEF Spec

LEMMA AccountedHolds == Spec => []Accounted
<1>1. Sound => Accounted
  BY DEF Sound
<1> QED
  BY <1>1, SoundHolds, PTL

(* What the tasks hold and have not decided is in `being_written`, and what *)
(* is there is decided otherwise.                                           *)
LEMMA BeingWrittenIs ==
  ASSUME Sound
  PROVE  InTasks \subseteq BeingWritten /\ BeingWritten \subseteq UNION {InTasks, stored, Dropped}
<1>1. ASSUME NEW t \in AllTasks
      PROVE  /\ Undecided(t) \subseteq held[t]
             /\ held[t] \subseteq UNION {Undecided(t), stored, Dropped}
  <2>1. stage[t] \in {"idle", "taken", "writing"}
    BY DEF Sound, TypeOK
  <2>2. /\ left[t] \subseteq held[t]
        /\ stage[t] = "idle" => held[t] = {}
        /\ stage[t] = "writing" => held[t] \ left[t] \subseteq stored \union Dropped
    BY DEF Sound, Accounted, TasksAccountFor
  <2> QED
    BY <2>1, <2>2 DEF Undecided
<1> QED
  BY <1>1 DEF InTasks, BeingWritten

(* What is queued or in a pass is neither in memory nor in the files. *)
LEMMA NotInYet ==
  ASSUME Sound
  PROVE  (Range(queue) \union passing) \intersect (InMemory \union stored) = {}
BY BeingWrittenIs DEF Sound, Accounted, NothingTwice, InMemory

(* Whatever passes, ticks and stops overlap, a metric which was sent is in  *)
(* the queue, in a pass, in memory, in a task, in the files, or was dropped *)
(* for a reason the code names.                                             *)
THEOREM NothingIsForgotten == Spec => []NothingForgotten
<1>1. Accounted => NothingForgotten
  BY DEF Accounted
<1> QED
  BY <1>1, AccountedHolds, PTL

(* And it is in one of them only. *)
THEOREM NothingIsTakenTwice == Spec => []NothingTwice
<1>1. Accounted => NothingTwice
  BY DEF Accounted
<1> QED
  BY <1>1, AccountedHolds, PTL

(* What a pass handed over and nobody dropped is in memory or in the files: *)
(* the seconds a write takes stay in `being_written` until it has decided   *)
(* on every one of them.                                                    *)
THEOREM NoMetricIsInNeither == Spec => []NoMomentInNeither
<1>1. Accounted => NoMomentInNeither
  BY DEF Accounted
<1> QED
  BY <1>1, AccountedHolds, PTL

-------------------------------------------------------------------------------
(* Pipeline implements Custody, for every set of metrics, batches, tasks   *)
(* and searches and every bound: every step of the queue, the passes, the  *)
(* memory and the blocking tasks moves metrics forward, or moves none.     *)

(* What a search sees in the memory and is not decided is what waits and    *)
(* what the tasks have to decide on.                                        *)
LEMMA InSightIs ==
  ASSUME Sound
  PROVE  InSight = waiting \union InTasks
BY BeingWrittenIs DEF InSight, InMemory, Sound, Accounted, NothingTwice

(* The four places part what was sent. *)
Parted ==
  /\ InSight = Sent \ UNION {OnItsWay, stored, Dropped}
  /\ OnItsWay \subseteq Sent /\ stored \subseteq Sent /\ Dropped \subseteq Sent
  /\ OnItsWay \intersect stored = {} /\ OnItsWay \intersect Dropped = {}
  /\ stored \intersect Dropped = {}
  /\ Sent \subseteq Metrics

LEMMA PlacesPart == Sound => Parted
<1> SUFFICES ASSUME Sound PROVE Parted
  OBVIOUS
<1>1. InSight = waiting \union InTasks
  BY InSightIs
<1>2. Sent = UNION {Range(queue), passing, waiting, InTasks, stored, Dropped}
  BY DEF Sound, Accounted, NothingForgotten
<1>3. /\ Range(queue) \intersect UNION {passing, waiting, InTasks, stored, Dropped} = {}
      /\ passing \intersect UNION {waiting, InTasks, stored, Dropped} = {}
      /\ waiting \intersect UNION {InTasks, stored, Dropped} = {}
      /\ InTasks \intersect (stored \union Dropped) = {}
      /\ stored \intersect Dropped = {}
  BY DEF Sound, Accounted, NothingTwice
<1>4. Sent \subseteq Metrics
  BY SentType DEF Sound
<1> QED
  BY <1>1, <1>2, <1>3, <1>4 DEF OnItsWay, Parted

LEMMA PlacesPartNext == Sound' => Parted'
BY PlacesPart, PTL

-------------------------------------------------------------------------------
(* Where what was sent, what is on its way, what is stored and what is      *)
(* dropped stay, nothing moved.                                             *)
LEMMA NothingMoves ==
  ASSUME Parted, Parted', Sent' = Sent,
         UNCHANGED <<queue, passing, stored, late, overflow, refused>>
  PROVE  UNCHANGED Promise!vars
<1>1. OnItsWay' = OnItsWay /\ Dropped' = Dropped /\ stored' = stored
  BY DEF OnItsWay, Dropped
<1> QED
  BY <1>1 DEF Promise!vars, Parted

(* A call of a writer sends its batch. *)
LEMMA EnqueueSends ==
  ASSUME NEW b \in Batches, Sound, Parted, Parted', Enqueue(b)
  PROVE  Promise!Send(Range(b))
<1>1. b \in Seq(Metrics) /\ queue \in Seq(Metrics) /\ queue' = queue \o b
  BY BatchType DEF Sound, TypeOK, Enqueue
<1>2. Range(b) \subseteq Metrics /\ Range(queue') = Range(queue) \union Range(b)
  BY <1>1, BatchType, QueueGrows
<1>3. Sent' = Sent \union Range(b)
  BY DEF Sent, Enqueue, Sound, TypeOK
<1>4. Sent \intersect Range(b) = {}
  BY NewIsNotSent DEF Enqueue
<1>5. UNCHANGED <<passing, stored, late, overflow, refused>>
  BY DEF Enqueue, passVars, dropVars
<1>6. OnItsWay' = OnItsWay \union Range(b) /\ Dropped' = Dropped /\ stored' = stored
  BY <1>2, <1>5 DEF OnItsWay, Dropped
<1> QED
  BY <1>2, <1>3, <1>4, <1>6 DEF Parted, Promise!Send, Promise!Outside

(* A pass drops what it takes too late, and nothing else moves. *)
LEMMA TakeBatchRefuses ==
  ASSUME NEW p \in Passes, Sound, Parted, Parted', TakeBatch(p)
  PROVE  \E some \in SUBSET (OnItsWay \union InSight) : Promise!Refuse(some)
<1> DEFINE taken == {queue[i] : i \in 1 .. BatchSize}
           over  == TooLate(taken, KeepAt(taken))
<1>1. /\ queue' = SubSeq(queue, BatchSize + 1, Len(queue))
      /\ passing' = taken \ over
      /\ late' = late \union over
      /\ passing = {}
  BY DEF TakeBatch, Rest, Sound, PassIsOver
<1>2. over \subseteq taken
  BY DEF TooLate
<1>3. /\ Range(queue) = taken \union Range(queue')
      /\ taken \intersect Range(queue') = {}
  <2>1. queue \in Seq(Metrics) /\ BatchSize \in 0 .. Len(queue)
    BY BatchSizeType DEF Sound, TypeOK
  <2>2. \A i, j \in 1 .. Len(queue) : queue[i] = queue[j] => i = j
    BY DEF Sound, Accounted, NothingTwice
  <2> QED
    BY <1>1, <2>1, <2>2, QueueParts
<1>4. UNCHANGED <<calls, stored, overflow, refused>>
  BY DEF TakeBatch
<1> HIDE DEF taken, over
<1>5. /\ OnItsWay' = OnItsWay \ over /\ over \subseteq OnItsWay
      /\ Dropped' = Dropped \union over /\ stored' = stored /\ Sent' = Sent
  BY <1>1, <1>2, <1>3, <1>4 DEF OnItsWay, Dropped, Sent
<1>6. Promise!Refuse(over)
  BY <1>5 DEF Parted, Promise!Refuse
<1> QED
  BY <1>5, <1>6

(* A group of a pass is handed over; the memory may have no room for what it *)
(* holds longest.                                                           *)
LEMMA PushHandsOver ==
  ASSUME Sound, Parted, Parted', Push
  PROVE  \E some \in SUBSET OnItsWay : \E out \in SUBSET (InSight \union some) :
           Promise!HandOver(some, out)
<1> DEFINE group == NextGroup
<1>1. group \subseteq passing
  BY DEF NextGroup
<1>2. PICK dropped :
        /\ dropped \subseteq waiting \union group
        /\ overflow' = overflow \union dropped
  BY DEF Push
<1>3. passing' = passing \ group /\ UNCHANGED <<queue, calls, stored, late, refused>>
  BY DEF Push, queueVars
<1> HIDE DEF group
<1>4. Range(queue) \intersect passing = {} /\ waiting \subseteq InSight
  <2>1. Range(queue) \intersect passing = {}
    BY DEF Sound, Accounted, NothingTwice
  <2>2. InSight = waiting \union InTasks
    BY InSightIs
  <2> QED
    BY <2>1, <2>2
<1>5. /\ OnItsWay' = OnItsWay \ group /\ group \subseteq OnItsWay
      /\ Dropped' = Dropped \union dropped /\ stored' = stored /\ Sent' = Sent
  BY <1>1, <1>2, <1>3, <1>4 DEF OnItsWay, Dropped, Sent
<1>6. dropped \subseteq InSight \union group
  BY <1>2, <1>4
<1>7. Promise!HandOver(group, dropped)
  BY <1>5, <1>6 DEF Parted, Promise!HandOver
<1> QED
  BY <1>5, <1>6, <1>7

(* A task drops what came too late for its hour. *)
LEMMA StartWriteRefuses ==
  ASSUME NEW t \in AllTasks, Sound, Parted, Parted', StartWrite(t)
  PROVE  \E some \in SUBSET (OnItsWay \union InSight) : Promise!Refuse(some)
<1> DEFINE over == TooLate(held[t], kept)
<1>1. /\ over \subseteq held[t] /\ stage[t] = "taken"
      /\ late' = late \union over
      /\ UNCHANGED <<queue, calls, passing, stored, overflow, refused>>
  BY DEF StartWrite, TooLate, queueVars, passVars
<1> HIDE DEF over
<1>2. over \subseteq InSight
  <2>1. over \subseteq InTasks
    BY <1>1 DEF InTasks, Undecided
  <2>2. InSight = waiting \union InTasks
    BY InSightIs
  <2> QED
    BY <2>1, <2>2
<1>3. /\ OnItsWay' = OnItsWay /\ Dropped' = Dropped \union over
      /\ stored' = stored /\ Sent' = Sent
  BY <1>1 DEF OnItsWay, Dropped, Sent
<1>4. Promise!Refuse(over)
  BY <1>2, <1>3 DEF Parted, Promise!Refuse
<1> QED
  BY <1>2, <1>4

(* The metrics of an hour are stored together, or refused together. *)
LEMMA WriteHourDecides ==
  ASSUME NEW t \in AllTasks, Sound, Parted, Parted', WriteHour(t)
  PROVE  \/ \E some \in SUBSET InSight : Promise!Store(some)
         \/ \E some \in SUBSET (OnItsWay \union InSight) : Promise!Refuse(some)
<1> DEFINE group == NextHourOf(t)
<1>1. /\ group \subseteq left[t] /\ stage[t] = "writing"
      /\ UNCHANGED <<queue, calls, passing, late, overflow>>
  BY DEF WriteHour, NextHourOf, queueVars, passVars
<1>2. \/ stored' = stored \union group /\ UNCHANGED refused
      \/ refused' = refused \union group /\ UNCHANGED stored
  BY DEF WriteHour
<1> HIDE DEF group
<1>3. group \subseteq InSight
  <2>1. group \subseteq InTasks
    BY <1>1 DEF InTasks, Undecided
  <2>2. InSight = waiting \union InTasks
    BY InSightIs
  <2> QED
    BY <2>1, <2>2
<1>4. OnItsWay' = OnItsWay /\ Sent' = Sent
  BY <1>1 DEF OnItsWay, Sent
<1>5. CASE stored' = stored \union group /\ UNCHANGED refused
  <2>1. Dropped' = Dropped
    BY <1>1, <1>5 DEF Dropped
  <2>2. Promise!Store(group)
    BY <1>3, <1>4, <1>5, <2>1 DEF Parted, Promise!Store
  <2> QED
    BY <1>3, <2>2
<1>6. CASE refused' = refused \union group /\ UNCHANGED stored
  <2>1. Dropped' = Dropped \union group
    BY <1>1, <1>6 DEF Dropped
  <2>2. Promise!Refuse(group)
    BY <1>3, <1>4, <1>6, <2>1 DEF Parted, Promise!Refuse
  <2> QED
    BY <1>3, <2>2
<1> QED
  BY <1>2, <1>5, <1>6

-------------------------------------------------------------------------------
LEMMA PromiseInit == Init => Promise!Init
<1> SUFFICES ASSUME Init PROVE Promise!Init
  OBVIOUS
<1>1. Range(queue) = {}
  BY DEF Init, Range
<1>2. \A t \in AllTasks : held[t] = {}
  BY DEF Init
<1>3. BeingWritten = {}
  BY <1>2 DEF BeingWritten
<1> QED
  BY <1>1, <1>3 DEF Init, Promise!Init, OnItsWay, InSight, InMemory, Dropped

LEMMA PromiseStep == Sound /\ [Next]_vars => [Promise!Next]_(Promise!vars)
<1> SUFFICES ASSUME Sound, [Next]_vars PROVE Promise!Next \/ UNCHANGED Promise!vars
  OBVIOUS
<1>1. Parted /\ Parted'
  BY SoundStep, PlacesPart, PlacesPartNext
<1>2. ASSUME UNCHANGED <<calls, queue, passing, stored, late, overflow, refused>>
      PROVE  UNCHANGED Promise!vars
  <2>1. Sent' = Sent
    BY <1>2 DEF Sent
  <2> QED
    BY <1>1, <1>2, <2>1, NothingMoves
<1>3. ASSUME NEW b \in Batches, Enqueue(b) PROVE Promise!Next
  <2>1. Promise!Send(Range(b)) /\ Range(b) \in SUBSET Promise!Outside
    BY <1>1, <1>3, EnqueueSends DEF Promise!Send
  <2> QED
    BY <2>1 DEF Promise!Next
<1>4. ASSUME NEW b \in Batches, Trigger(b) PROVE UNCHANGED Promise!vars
  <2>1. Sent' = Sent
    BY <1>4 DEF Trigger, Sent, Sound, TypeOK
  <2> QED
    BY <1>1, <1>4, <2>1, NothingMoves DEF Trigger, passVars, dropVars
<1>5. ASSUME NEW p \in Passes, TakeNothing(p) PROVE UNCHANGED Promise!vars
  BY <1>2, <1>5 DEF TakeNothing, passVars, dropVars
<1>6. ASSUME NEW p \in Passes, TakeBatch(p) PROVE Promise!Next
  BY <1>1, <1>6, TakeBatchRefuses DEF Promise!Next
<1>7. CASE Push
  BY <1>1, <1>7, PushHandsOver DEF Promise!Next
<1>8. CASE Tick \/ Count \/ EndPass \/ TickFindsNothing \/ BeginStop \/ Exit \/ Exited \/ UNCHANGED vars
  BY <1>2, <1>8
  DEF Tick, Count, EndPass, TickFindsNothing, BeginStop, Exit, Exited, vars, queueVars,
      passVars, dropVars
<1>9. ASSUME NEW t \in Tasks, TickTakes(t) \/ GiveUp(t) PROVE UNCHANGED Promise!vars
  BY <1>2, <1>9 DEF TickTakes, GiveUp, Take, queueVars, passVars, dropVars
<1>10. CASE StopTakes
  BY <1>2, <1>10 DEF StopTakes, Take, queueVars, passVars, dropVars
<1>11. ASSUME NEW t \in AllTasks, StartWrite(t) PROVE Promise!Next
  BY <1>1, <1>11, StartWriteRefuses DEF Promise!Next
<1>12. ASSUME NEW t \in AllTasks, WriteHour(t) PROVE Promise!Next
  BY <1>1, <1>12, WriteHourDecides DEF Promise!Next
<1>13. ASSUME NEW t \in AllTasks, EndWrite(t) PROVE UNCHANGED Promise!vars
  BY <1>2, <1>13 DEF EndWrite, queueVars, passVars, dropVars
<1>14. ASSUME NEW r \in Searches,
             \/ \E h \in {HourOf(m) : m \in InMemory \union stored} : LookInMemory(r, h)
             \/ ReadFiles(r)
             \/ Answer(r)
      PROVE  UNCHANGED Promise!vars
  <2>1. UNCHANGED <<queueVars, passVars, stored, dropVars>>
    BY <1>14 DEF LookInMemory, ReadFiles, Answer
  <2> QED
    BY <1>2, <2>1 DEF queueVars, passVars, dropVars
<1> QED
  BY <1>3, <1>4, <1>5, <1>6, <1>7, <1>8, <1>9, <1>10, <1>11, <1>12, <1>13, <1>14 DEF Next

(* The pipeline keeps the promise of Custody: whatever writers, passes,      *)
(* ticks, tasks and a stop overlap, each of their steps moves metrics one    *)
(* way - in, into sight, into the files or out for a reason - or none.       *)
THEOREM PipelineKeepsItsPromise == Spec => KeepsItsPromise
BY SoundHolds, PromiseInit, PromiseStep, PTL DEF Spec, KeepsItsPromise, Promise!Spec

-------------------------------------------------------------------------------
(* What holds of the memory of the storage, whatever metrics, bounds and   *)
(* overlapping passes and ticks: it stays within its bound, what is in it  *)
(* is counted under the hour it is kept at, and a search which looks into  *)
(* it before it reads the files misses nothing.                            *)

(* What a pass takes is queued. *)
LEMMA TakenIsQueued ==
  ASSUME Sound
  PROVE  {queue[i] : i \in 1 .. BatchSize} \subseteq Range(queue) \intersect Metrics
<1>1. queue \in Seq(Metrics) /\ BatchSize \in 0 .. Len(queue)
  BY BatchSizeType DEF Sound, TypeOK
<1> QED
  BY <1>1, QueueParts

(* A metric which is not of a group keeps its time. *)
LEMMA KeepAtKeeps ==
  ASSUME NEW S, NEW m \in Metrics, m \notin S
  PROVE  KeepAt(S)[m] = kept[m]
BY DEF KeepAt

-------------------------------------------------------------------------------
(* The buckets, the counter and the bound. *)
LEMMA BoundedInit == Init => MemoryIsBounded
<1> SUFFICES ASSUME Init PROVE MemoryIsBounded
  OBVIOUS
<1>1. waiting = {} /\ records = 0 /\ DOMAIN created = {}
  BY DEF Init
<1>2. Cardinality({}) = 0
  BY FS_EmptySet
<1> QED
  BY <1>1, <1>2, PipelineAssumption DEF MemoryIsBounded, SecondsOf

LEMMA BoundedFrame ==
  ASSUME MemoryIsBounded, UNCHANGED <<waiting, created, records>>,
         \A m \in waiting : kept'[m] = kept[m]
  PROVE  MemoryIsBounded'
<1>1. SecondsOf(waiting', kept') = SecondsOf(waiting, kept)
  BY DEF SecondsOf
<1> QED
  BY <1>1 DEF MemoryIsBounded

LEMMA BoundedTakeBatch ==
  ASSUME NEW p \in Passes, Sound, MemoryIsBounded, TakeBatch(p)
  PROVE  MemoryIsBounded'
<1> DEFINE taken == {queue[i] : i \in 1 .. BatchSize}
<1>1. kept' = KeepAt(taken) /\ UNCHANGED <<waiting, created, records>>
  BY DEF TakeBatch, pendingVars
<1>2. taken \intersect waiting = {}
  BY TakenIsQueued, NotInYet DEF InMemory
<1> HIDE DEF taken
<1>3. \A m \in waiting : kept'[m] = kept[m]
  BY <1>1, <1>2, KeepAtKeeps DEF Sound, TypeOK
<1> QED
  BY <1>1, <1>3, BoundedFrame

LEMMA BoundedPush ==
  ASSUME Sound, MemoryIsBounded, Push
  PROVE  MemoryIsBounded'
<1> DEFINE group == NextGroup
           time  == KeepAt(group)
           ms    == waiting \union group
           since == [s \in SecondsOf(ms, time) |->
                       IF s \in DOMAIN created THEN created[s] ELSE now]
<1>1. PICK D \in SUBSET DOMAIN since :
        LET dropped == {m \in ms : time[m] \in D} IN
        /\ DroppedSeconds(ms, time, since, D)
        /\ waiting' = ms \ dropped
        /\ created' = [s \in DOMAIN since \ D |-> since[s]]
        /\ records' = records + Cardinality(group) - Cardinality(dropped)
  BY DEF Push
<1> DEFINE dropped == {m \in ms : time[m] \in D}
<1>2. kept' = time
  BY DEF Push
<1>3. group \subseteq passing /\ waiting \intersect group = {}
  <2>1. group \subseteq passing
    BY DEF NextGroup
  <2> QED
    BY <2>1 DEF Sound, Accounted, NothingTwice
<1>4. IsFiniteSet(waiting) /\ IsFiniteSet(group) /\ IsFiniteSet(ms) /\ IsFiniteSet(dropped)
  <2>1. waiting \subseteq Metrics /\ passing \subseteq Metrics
    BY DEF Sound, TypeOK
  <2>2. group \subseteq Metrics /\ ms \subseteq Metrics /\ dropped \subseteq Metrics
    BY <1>3, <2>1
  <2> QED
    BY <2>1, <2>2, PipelineAssumption, FS_Subset
<1>5. DOMAIN since = SecondsOf(ms, time)
  OBVIOUS
<1>6. DOMAIN created' = SecondsOf(waiting', kept')
  <2>1. DOMAIN created' = SecondsOf(ms, time) \ D
    BY <1>1, <1>5
  <2>2. SecondsOf(ms \ dropped, time) = SecondsOf(ms, time) \ D
    BY DEF SecondsOf
  <2> QED
    BY <1>1, <1>2, <2>1, <2>2
<1>7. records' = Cardinality(waiting')
  <2>1. Cardinality(ms) = Cardinality(waiting) + Cardinality(group) - Cardinality({})
    BY <1>3, <1>4, FS_Union
  <2>2. /\ Cardinality(waiting) \in Nat /\ Cardinality(group) \in Nat
        /\ Cardinality(ms) \in Nat /\ Cardinality(dropped) \in Nat
    BY <1>4, FS_CardinalityType
  <2>3. dropped \subseteq ms /\ ms \intersect dropped = dropped
    OBVIOUS
  <2>4. Cardinality(ms \ dropped) = Cardinality(ms) - Cardinality(dropped)
    <3> HIDE DEF dropped, ms, group, since, time
    <3> QED
      BY <1>4, <2>3, FS_Difference
  <2>5. Cardinality({}) = 0
    BY FS_EmptySet
  <2>6. records = Cardinality(waiting)
    BY DEF MemoryIsBounded
  <2>7. records' = records + Cardinality(group) - Cardinality(dropped) /\ waiting' = ms \ dropped
    BY <1>1
  <2> HIDE DEF dropped, ms, group
  <2> QED
    BY <2>1, <2>2, <2>4, <2>5, <2>6, <2>7
<1>8. Cardinality(waiting') <= MAX_PENDING_RECORDS
  <2>1. Cardinality({m \in ms : time[m] \in DOMAIN since \ D}) <= MAX_PENDING_RECORDS
    BY <1>1 DEF DroppedSeconds
  <2>2. {m \in ms : time[m] \in DOMAIN since \ D} = ms \ dropped
    BY <1>5 DEF SecondsOf
  <2>3. waiting' = ms \ dropped
    BY <1>1
  <2> HIDE DEF ms, dropped, since, time
  <2> QED
    BY <2>1, <2>2, <2>3
<1> HIDE DEF dropped, ms, since, time, group
<1> QED
  BY <1>6, <1>7, <1>8 DEF MemoryIsBounded

LEMMA BoundedTake ==
  ASSUME NEW t \in AllTasks, NEW all \in BOOLEAN, Sound, MemoryIsBounded, Take(t, all)
  PROVE  MemoryIsBounded'
<1> DEFINE seconds == ReadySeconds(all)
           ready   == {m \in waiting : kept[m] \in seconds}
<1>1. /\ waiting' = waiting \ ready /\ kept' = kept
      /\ created' = [s \in DOMAIN created \ seconds |-> created[s]]
      /\ records' = records - Cardinality(ready)
  BY DEF Take, BucketsWithout
<1>2. DOMAIN created' = SecondsOf(waiting', kept')
  <2>1. DOMAIN created' = SecondsOf(waiting, kept) \ seconds
    BY <1>1 DEF MemoryIsBounded
  <2>2. SecondsOf(waiting \ ready, kept) = SecondsOf(waiting, kept) \ seconds
    BY DEF SecondsOf
  <2> QED
    BY <1>1, <2>1, <2>2
<1>3. IsFiniteSet(waiting) /\ IsFiniteSet(ready) /\ waiting \intersect ready = ready
  <2>1. waiting \subseteq Metrics /\ ready \subseteq Metrics
    BY DEF Sound, TypeOK
  <2> QED
    BY <2>1, PipelineAssumption, FS_Subset
<1> HIDE DEF ready, seconds
<1>4. Cardinality(waiting \ ready) = Cardinality(waiting) - Cardinality(ready)
  BY <1>3, FS_Difference
<1>5. Cardinality(waiting) \in Nat /\ Cardinality(ready) \in Nat
  BY <1>3, FS_CardinalityType
<1>6. records' = Cardinality(waiting') /\ records' <= MAX_PENDING_RECORDS
  BY <1>1, <1>4, <1>5, PipelineAssumption DEF MemoryIsBounded
<1> QED
  BY <1>2, <1>6 DEF MemoryIsBounded

LEMMA BoundedStep ==
  ASSUME Sound, MemoryIsBounded, [Next]_vars
  PROVE  MemoryIsBounded'
<1>1. ASSUME UNCHANGED <<kept, waiting, created, records>> PROVE MemoryIsBounded'
  BY <1>1, BoundedFrame
<1>2. ASSUME NEW b \in Batches, Enqueue(b) \/ Trigger(b) PROVE MemoryIsBounded'
  BY <1>1, <1>2 DEF Enqueue, Trigger, pendingVars
<1>3. ASSUME NEW p \in Passes, TakeNothing(p) PROVE MemoryIsBounded'
  BY <1>1, <1>3 DEF TakeNothing, pendingVars
<1>4. ASSUME NEW p \in Passes, TakeBatch(p) PROVE MemoryIsBounded'
  BY <1>4, BoundedTakeBatch
<1>5. CASE Push
  BY <1>5, BoundedPush
<1>6. CASE Tick \/ Count \/ EndPass \/ TickFindsNothing \/ BeginStop \/ Exit \/ Exited \/ UNCHANGED vars
  BY <1>1, <1>6
  DEF Tick, Count, EndPass, TickFindsNothing, BeginStop, Exit, Exited, vars, pendingVars
<1>7. ASSUME NEW t \in Tasks, TickTakes(t) PROVE MemoryIsBounded'
  BY <1>7, BoundedTake DEF TickTakes, AllTasks
<1>8. ASSUME NEW t \in Tasks, GiveUp(t) PROVE MemoryIsBounded'
  BY <1>1, <1>8 DEF GiveUp, pendingVars
<1>9. CASE StopTakes
  BY <1>9, BoundedTake DEF StopTakes, AllTasks
<1>10. ASSUME NEW t \in AllTasks, StartWrite(t) \/ WriteHour(t) \/ EndWrite(t)
       PROVE  MemoryIsBounded'
  BY <1>1, <1>10 DEF StartWrite, WriteHour, EndWrite, pendingVars
<1>11. ASSUME NEW r \in Searches,
              \/ \E h \in {HourOf(m) : m \in InMemory \union stored} : LookInMemory(r, h)
              \/ ReadFiles(r)
              \/ Answer(r)
       PROVE  MemoryIsBounded'
  <2>1. UNCHANGED <<kept, pendingVars>>
    BY <1>11 DEF LookInMemory, ReadFiles, Answer
  <2> QED
    BY <1>1, <2>1 DEF pendingVars
<1> QED
  BY <1>2, <1>3, <1>4, <1>5, <1>6, <1>7, <1>8, <1>9, <1>10, <1>11 DEF Next

(* The buckets are the seconds of what waits, the counter is the number of  *)
(* its records, and neither passes the bound, whatever is pushed, dropped   *)
(* and taken.                                                               *)
THEOREM MemoryStaysBounded == Spec => []MemoryIsBounded
BY SoundHolds, BoundedInit, BoundedStep, PTL DEF Spec

-------------------------------------------------------------------------------
(* What a pass has taken is kept at a time the storage takes as it is: the   *)
(* second look at it, as it is handed over, changes nothing - so it stays    *)
(* under the hour it is counted under.                                       *)
Timely(m) == 0 < kept[m] /\ kept[m] <= now + MAX_TIME_AHEAD_MICROS

CountedRight ==
  /\ now > 0
  /\ \A m \in passing : Timely(m)
  /\ ~ counting => \A m \in passing : counted[m] = HourOf(m)
  /\ CountedUnderItsHour

LEMMA CountedInit == Init => CountedRight
<1> SUFFICES ASSUME Init PROVE CountedRight
  OBVIOUS
<1>1. \A t \in AllTasks : held[t] = {}
  BY DEF Init
<1>2. InMemory = {}
  BY <1>1 DEF Init, InMemory, BeingWritten
<1>3. now > 0
  BY PipelineAssumption DEF Init
<1> QED
  BY <1>2, <1>3 DEF Init, CountedRight, CountedUnderItsHour

LEMMA CountedFrame ==
  ASSUME CountedRight, now' >= now, TypeOK, TypeOK',
         passing' = passing, counting' = counting, counted' = counted,
         stored \subseteq stored', stored' \subseteq stored \union InMemory,
         InMemory' \subseteq InMemory \union stored,
         kept' = kept
  PROVE  CountedRight'
<1>1. \A m : HourOf(m)' = HourOf(m)
  BY DEF HourOf
<1>2. \A m \in passing' : Timely(m)'
  <2> SUFFICES ASSUME NEW m \in passing PROVE Timely(m)'
    OBVIOUS
  <2>1. kept[m] \in Int /\ now \in Nat /\ now' \in Nat /\ MAX_TIME_AHEAD_MICROS \in Nat
    BY RetentionAssumption DEF TypeOK
  <2>2. 0 < kept[m] /\ kept[m] <= now + MAX_TIME_AHEAD_MICROS
    BY DEF CountedRight, Timely
  <2> QED
    BY <2>1, <2>2 DEF Timely
<1>3. now' > 0
  BY DEF CountedRight, TypeOK
<1> QED
  BY <1>1, <1>2, <1>3 DEF CountedRight, CountedUnderItsHour

LEMMA CountedTakeBatch ==
  ASSUME NEW p \in Passes, Sound, CountedRight, TakeBatch(p)
  PROVE  CountedRight'
<1> DEFINE taken == {queue[i] : i \in 1 .. BatchSize}
<1>1. /\ kept' = KeepAt(taken) /\ counting' = TRUE /\ passing' \subseteq taken
      /\ UNCHANGED <<now, waiting, held, stored, counted>>
  BY DEF TakeBatch, pendingVars, taskVars
<1>2. taken \subseteq Metrics /\ taken \intersect (InMemory \union stored) = {}
  BY TakenIsQueued, NotInYet
<1> HIDE DEF taken
<1>3. InMemory' = InMemory /\ InMemory \union stored \subseteq Metrics
  BY <1>1 DEF InMemory, BeingWritten, Sound, TypeOK
<1>4. \A m \in InMemory \union stored : kept'[m] = kept[m] /\ HourOf(m)' = HourOf(m)
  BY <1>1, <1>2, <1>3, KeepAtKeeps DEF HourOf
<1>5. \A m \in passing' : Timely(m)'
  <2> SUFFICES ASSUME NEW m \in passing' PROVE Timely(m)'
    OBVIOUS
  <2>1. kept'[m] = time_to_keep(kept[m], now)
    BY <1>1, <1>2 DEF KeepAt
  <2>2. kept[m] \in Int /\ now \in Nat /\ now > 0 /\ MAX_TIME_AHEAD_MICROS \in Nat
    BY <1>1, <1>2, RetentionAssumption DEF Sound, TypeOK, CountedRight
  <2> QED
    BY <1>1, <2>1, <2>2 DEF time_to_keep, Timely
<1> QED
  BY <1>1, <1>3, <1>4, <1>5 DEF CountedRight, CountedUnderItsHour

LEMMA CountedCount ==
  ASSUME Sound, CountedRight, Count
  PROVE  CountedRight'
<1>1. /\ counted' = [m \in Metrics |-> IF m \in passing THEN HourOf(m) ELSE counted[m]]
      /\ UNCHANGED <<now, passing, kept, waiting, held, stored>>
  BY DEF Count, CountedHour, pendingVars, taskVars
<1>2. InMemory' = InMemory /\ InMemory \union stored \union passing \subseteq Metrics
  BY <1>1 DEF InMemory, BeingWritten, Sound, TypeOK
<1>3. passing \intersect (InMemory \union stored) = {}
  BY NotInYet
<1>4. \A m : HourOf(m)' = HourOf(m) /\ (Timely(m) => Timely(m)')
  BY <1>1 DEF HourOf, Timely
<1> QED
  BY <1>1, <1>2, <1>3, <1>4 DEF CountedRight, CountedUnderItsHour

LEMMA CountedPush ==
  ASSUME Sound, CountedRight, Push
  PROVE  CountedRight'
<1> DEFINE group == NextGroup
<1>1. /\ group \subseteq passing /\ ~ counting
      /\ kept' = KeepAt(group) /\ passing' = passing \ group
      /\ UNCHANGED <<now, counting, counted, held, stored>>
  BY DEF Push, NextGroup, taskVars
<1>2. waiting' \subseteq waiting \union group
  BY DEF Push
<1> HIDE DEF group
<1>3. InMemory' \subseteq InMemory \union group
  BY <1>1, <1>2 DEF InMemory, BeingWritten
<1>4. InMemory \union stored \union passing \subseteq Metrics
  BY DEF InMemory, BeingWritten, Sound, TypeOK
<1>5. \A m \in Metrics : kept'[m] = kept[m]
  <2> SUFFICES ASSUME NEW m \in Metrics PROVE kept'[m] = kept[m]
    OBVIOUS
  <2>1. CASE m \notin group
    BY <1>1, <2>1, KeepAtKeeps
  <2>2. CASE m \in group
    <3>1. kept'[m] = time_to_keep(kept[m], now)
      BY <1>1, <2>2 DEF KeepAt
    <3>2. kept[m] \in Int /\ now \in Nat /\ MAX_TIME_AHEAD_MICROS \in Nat
      BY RetentionAssumption DEF Sound, TypeOK
    <3>3. Timely(m)
      BY <1>1, <2>2 DEF CountedRight
    <3> QED
      BY <3>1, <3>2, <3>3 DEF time_to_keep, Timely
  <2> QED
    BY <2>1, <2>2
<1>6. \A m \in Metrics : HourOf(m)' = HourOf(m) /\ (Timely(m) => Timely(m)')
  BY <1>1, <1>5 DEF HourOf, Timely
<1> QED
  BY <1>1, <1>3, <1>4, <1>6 DEF CountedRight, CountedUnderItsHour

LEMMA CountedTake ==
  ASSUME NEW t \in AllTasks, NEW all \in BOOLEAN, Sound, Sound', CountedRight, Take(t, all)
  PROVE  CountedRight'
<1>1. /\ UNCHANGED <<now, passing, counting, counted, kept, stored>>
      /\ waiting' \subseteq waiting
      /\ \A u \in AllTasks : held'[u] \subseteq held[u] \union waiting
  BY DEF Take, passVars, Sound, TypeOK
<1>2. InMemory' \subseteq InMemory \union stored
  BY <1>1 DEF InMemory, BeingWritten
<1>3. now' >= now
  BY <1>1 DEF Sound, TypeOK
<1> QED
  BY <1>1, <1>2, <1>3, CountedFrame DEF Sound

(* A task decides on what it holds, and lets go of it. *)
LEMMA CountedWrite ==
  ASSUME NEW t \in AllTasks, Sound, Sound', CountedRight,
         StartWrite(t) \/ WriteHour(t) \/ EndWrite(t)
  PROVE  CountedRight'
<1>1. UNCHANGED <<now, passing, counting, counted, kept, waiting>>
  BY DEF StartWrite, WriteHour, EndWrite, passVars, pendingVars
<1>2. \A u \in AllTasks : held'[u] \subseteq held[u]
  BY DEF StartWrite, WriteHour, EndWrite, LetGo, Sound, TypeOK
<1>3. stored \subseteq stored' /\ stored' \subseteq stored \union InMemory
  <2>1. CASE WriteHour(t)
    <3>1. NextHourOf(t) \subseteq left[t] /\ stage[t] = "writing"
      BY <2>1 DEF WriteHour, NextHourOf
    <3>2. NextHourOf(t) \subseteq InTasks
      BY <3>1 DEF InTasks, Undecided
    <3>3. InTasks \subseteq InMemory
      BY BeingWrittenIs DEF InMemory
    <3> QED
      BY <2>1, <3>2, <3>3 DEF WriteHour
  <2>2. CASE StartWrite(t) \/ EndWrite(t)
    BY <2>2 DEF StartWrite, EndWrite
  <2> QED
    BY <2>1, <2>2
<1>4. InMemory' \subseteq InMemory \union stored
  BY <1>1, <1>2 DEF InMemory, BeingWritten
<1>5. now' >= now
  BY <1>1 DEF Sound, TypeOK
<1> QED
  BY <1>1, <1>3, <1>4, <1>5, CountedFrame DEF Sound

LEMMA CountedStep ==
  ASSUME Sound, CountedRight, [Next]_vars
  PROVE  CountedRight'
<1> USE SoundStep
<1>1. ASSUME UNCHANGED <<passing, counting, counted, kept, stored, waiting, held>>, now' >= now
      PROVE  CountedRight'
  <2>1. InMemory' = InMemory
    BY <1>1 DEF InMemory, BeingWritten
  <2> QED
    BY <1>1, <2>1, CountedFrame DEF Sound
<1>2. now \in Nat
  BY DEF Sound, TypeOK
<1>3. CASE Tick
  BY <1>1, <1>2, <1>3 DEF Tick, passVars, pendingVars, taskVars
<1>4. ASSUME UNCHANGED <<now, passVars, counted, kept, stored, pendingVars, held>>
      PROVE  CountedRight'
  BY <1>1, <1>2, <1>4 DEF passVars, pendingVars
<1>5. ASSUME NEW b \in Batches, Enqueue(b) \/ Trigger(b) PROVE CountedRight'
  BY <1>4, <1>5 DEF Enqueue, Trigger, taskVars
<1>6. ASSUME NEW p \in Passes, TakeNothing(p) PROVE CountedRight'
  BY <1>4, <1>6 DEF TakeNothing, taskVars
<1>7. ASSUME NEW p \in Passes, TakeBatch(p) PROVE CountedRight'
  BY <1>7, CountedTakeBatch
<1>8. CASE Count \/ Push
  BY <1>8, CountedCount, CountedPush
<1>9. CASE EndPass
  BY <1>1, <1>2, <1>9 DEF EndPass, pendingVars, taskVars
<1>10. CASE TickFindsNothing \/ BeginStop \/ Exit \/ Exited \/ UNCHANGED vars
  BY <1>4, <1>10 DEF TickFindsNothing, BeginStop, Exit, Exited, vars, taskVars
<1>11. ASSUME NEW t \in Tasks, TickTakes(t) PROVE CountedRight'
  BY <1>11, CountedTake DEF TickTakes, AllTasks
<1>12. ASSUME NEW t \in Tasks, GiveUp(t) PROVE CountedRight'
  BY <1>4, <1>12 DEF GiveUp
<1>13. CASE StopTakes
  BY <1>13, CountedTake DEF StopTakes, AllTasks
<1>14. ASSUME NEW t \in AllTasks, StartWrite(t) \/ WriteHour(t) \/ EndWrite(t)
       PROVE  CountedRight'
  BY <1>14, CountedWrite
<1>15. ASSUME NEW r \in Searches,
              \/ \E h \in {HourOf(m) : m \in InMemory \union stored} : LookInMemory(r, h)
              \/ ReadFiles(r)
              \/ Answer(r)
       PROVE  CountedRight'
  <2>1. UNCHANGED <<now, passVars, counted, kept, stored, pendingVars, taskVars>>
    BY <1>15 DEF LookInMemory, ReadFiles, Answer
  <2> QED
    BY <1>4, <2>1 DEF taskVars
<1> QED
  BY <1>3, <1>5, <1>6, <1>7, <1>8, <1>9, <1>10, <1>11, <1>12, <1>13, <1>14, <1>15 DEF Next

(* What is in memory or in the files is counted under the hour it is kept   *)
(* at, whatever time it names and however far apart the two looks at it are. *)
THEOREM CountedIsKept == Spec => []CountedUnderItsHour
<1>1. CountedRight => CountedUnderItsHour
  BY DEF CountedRight
<1> QED
  BY <1>1, SoundHolds, CountedInit, CountedStep, PTL DEF Spec

-------------------------------------------------------------------------------
(* A search which has looked into the memory still comes by what it has to   *)
(* find and has not found: it is in a second which is not read yet.          *)
Reachable(r) ==
  search[r].at = "files" =>
    \A m \in search[r].must :
      m \in search[r].found \/ (m \in stored /\ kept[m] \in search[r].unread)

FindsIt == \A r \in Searches : Reachable(r)

LEMMA FindsInit == Init => FindsIt
BY DEF Init, FindsIt, Reachable, SearchIdle

LEMMA FindsFrame ==
  ASSUME FindsIt, search' = search, stored \subseteq stored',
         \A m \in stored : kept'[m] = kept[m]
  PROVE  FindsIt'
BY DEF FindsIt, Reachable

(* Nothing which is stored is kept at another time again. *)
LEMMA StoredKeepsItsTime ==
  ASSUME NEW S, S \subseteq Range(queue) \union passing, Sound, kept' = KeepAt(S)
  PROVE  \A m \in stored : kept'[m] = kept[m]
<1>1. S \intersect stored = {} /\ stored \subseteq Metrics
  BY NotInYet DEF Sound, TypeOK
<1> QED
  BY <1>1, KeepAtKeeps

LEMMA FindsLook ==
  ASSUME NEW r \in Searches, NEW h \in Int, Sound, FindsIt, LookInMemory(r, h)
  PROVE  FindsIt'
<1> DEFINE must == {m \in Metrics \ Dropped : pushed[m] # 0 /\ HourOf(m) = h}
           new  == [at |-> "files", hour |-> h, found |-> {m \in InMemory : HourOf(m) = h},
                    must |-> must, unread |-> h .. h + HOUR_MICROS - 1]
<1>1. search' = [search EXCEPT ![r] = new] /\ UNCHANGED <<kept, stored>>
  BY DEF LookInMemory
<1>2. ASSUME NEW m \in must
      PROVE  m \in {k \in InMemory : HourOf(k) = h} \/ (m \in stored /\ kept[m] \in h .. h + HOUR_MICROS - 1)
  <2>1. m \in InMemory \union stored /\ HourOf(m) = h
    BY DEF Sound, Accounted, NoMomentInNeither
  <2>2. kept[m] \in Int
    BY DEF Sound, TypeOK
  <2>3. kept[m] \in h .. h + HOUR_MICROS - 1
    BY <2>1, <2>2, RetentionAssumption DEF HourOf, hour_start_of
  <2> QED
    BY <2>1, <2>3
<1> HIDE DEF must
<1>3. search'[r] = new
  BY <1>1 DEF Sound, TypeOK
<1>4. Reachable(r)'
  <2>1. /\ search'[r].must = must /\ search'[r].unread = h .. h + HOUR_MICROS - 1
        /\ search'[r].found = {k \in InMemory : HourOf(k) = h}
    BY <1>3
  <2> QED
    BY <1>1, <1>2, <2>1 DEF Reachable
<1>5. \A q \in Searches : q # r => search'[q] = search[q]
  BY <1>1 DEF Sound, TypeOK
<1>6. \A q \in Searches : q # r => Reachable(q)'
  BY <1>1, <1>5 DEF Reachable, FindsIt
<1> QED
  BY <1>4, <1>6 DEF FindsIt

LEMMA FindsRead ==
  ASSUME NEW r \in Searches, Sound, FindsIt, ReadFiles(r)
  PROVE  FindsIt'
<1>1. PICK s \in search[r].unread :
        search' = [search EXCEPT ![r].unread = @ \ {s},
                                 ![r].found = @ \union {m \in stored : kept[m] = s}]
  BY DEF ReadFiles
<1>2. UNCHANGED <<kept, stored>>
  BY DEF ReadFiles
<1>3. search[r] \in SearchType
  BY DEF Sound, TypeOK
<1>4. /\ search'[r].at = search[r].at /\ search'[r].must = search[r].must
      /\ search'[r].unread = search[r].unread \ {s}
      /\ search'[r].found = search[r].found \union {m \in stored : kept[m] = s}
  BY <1>1, <1>3 DEF SearchType, Sound, TypeOK
<1>5. Reachable(r)
  BY DEF FindsIt
<1>6. Reachable(r)'
  BY <1>2, <1>4, <1>5 DEF Reachable
<1>7. \A q \in Searches : q # r => search'[q] = search[q]
  BY <1>1 DEF Sound, TypeOK
<1>8. \A q \in Searches : q # r => Reachable(q)'
  BY <1>2, <1>7 DEF Reachable, FindsIt
<1> QED
  BY <1>6, <1>8 DEF FindsIt

LEMMA FindsAnswer ==
  ASSUME NEW r \in Searches, Sound, FindsIt, Answer(r)
  PROVE  FindsIt'
<1>1. search' = [search EXCEPT ![r] = SearchIdle] /\ UNCHANGED <<kept, stored>>
  BY DEF Answer
<1>2. \A q \in Searches : IF q = r THEN search'[q] = SearchIdle ELSE search'[q] = search[q]
  BY <1>1 DEF Sound, TypeOK
<1> QED
  BY <1>1, <1>2 DEF FindsIt, Reachable, SearchIdle

LEMMA FindsStep ==
  ASSUME Sound, FindsIt, [Next]_vars
  PROVE  FindsIt'
<1>1. ASSUME UNCHANGED <<search, kept, stored>> PROVE FindsIt'
  BY <1>1, FindsFrame
<1>2. ASSUME NEW b \in Batches, Enqueue(b) \/ Trigger(b) PROVE FindsIt'
  BY <1>1, <1>2 DEF Enqueue, Trigger
<1>3. ASSUME NEW p \in Passes, TakeNothing(p) PROVE FindsIt'
  BY <1>1, <1>3 DEF TakeNothing
<1>4. ASSUME NEW p \in Passes, TakeBatch(p) PROVE FindsIt'
  <2> DEFINE taken == {queue[i] : i \in 1 .. BatchSize}
  <2>1. kept' = KeepAt(taken) /\ UNCHANGED <<search, stored>>
    BY <1>4 DEF TakeBatch
  <2>2. taken \subseteq Range(queue) \union passing
    BY TakenIsQueued
  <2> HIDE DEF taken
  <2> QED
    BY <2>1, <2>2, StoredKeepsItsTime, FindsFrame
<1>5. CASE Push
  <2>1. kept' = KeepAt(NextGroup) /\ UNCHANGED <<search, stored>>
    BY <1>5 DEF Push
  <2>2. NextGroup \subseteq Range(queue) \union passing
    BY DEF NextGroup
  <2> QED
    BY <2>1, <2>2, StoredKeepsItsTime, FindsFrame
<1>6. CASE Tick \/ Count \/ EndPass \/ TickFindsNothing \/ BeginStop \/ Exit \/ Exited \/ UNCHANGED vars
  BY <1>1, <1>6 DEF Tick, Count, EndPass, TickFindsNothing, BeginStop, Exit, Exited, vars
<1>7. ASSUME NEW t \in Tasks, TickTakes(t) \/ GiveUp(t) PROVE FindsIt'
  BY <1>1, <1>7 DEF TickTakes, Take, GiveUp
<1>8. CASE StopTakes
  BY <1>1, <1>8 DEF StopTakes, Take
<1>9. ASSUME NEW t \in AllTasks, StartWrite(t) \/ EndWrite(t) PROVE FindsIt'
  BY <1>1, <1>9 DEF StartWrite, EndWrite
<1>10. ASSUME NEW t \in AllTasks, WriteHour(t) PROVE FindsIt'
  BY <1>10, FindsFrame DEF WriteHour
<1>11. ASSUME NEW r \in Searches, NEW h \in {HourOf(m) : m \in InMemory \union stored},
              LookInMemory(r, h)
       PROVE  FindsIt'
  <2>1. h \in Int
    BY RetentionAssumption DEF InMemory, BeingWritten, HourOf, hour_start_of, Sound, TypeOK
  <2> QED
    BY <1>11, <2>1, FindsLook
<1>12. ASSUME NEW r \in Searches, ReadFiles(r) \/ Answer(r) PROVE FindsIt'
  BY <1>12, FindsRead, FindsAnswer
<1> QED
  BY <1>2, <1>3, <1>4, <1>5, <1>6, <1>7, <1>8, <1>9, <1>10, <1>11, <1>12 DEF Next

(* A search which has read the files of its hour has all which was in memory *)
(* or in the files when it began, for any number of searches, ticks, passes  *)
(* and metrics.                                                              *)
THEOREM SearchMissesNothing == Spec => []SearchFindsAll
<1>1. FindsIt => SearchFindsAll
  BY DEF FindsIt, Reachable, SearchFindsAll
<1> QED
  BY <1>1, SoundHolds, FindsInit, FindsStep, PTL DEF Spec

-------------------------------------------------------------------------------
(* The stop of the process writes what was accepted before it began, for   *)
(* every set of metrics, calls and tasks, whatever pass of the executor,   *)
(* tick or call of a writer runs beside it.                                *)

(* How far the stop is, and where nothing accepted before it can be then:   *)
(* its drain ends with a pass which left the queue without it, and its      *)
(* write takes every second which waits.                                    *)
StopRight ==
  /\ accepted \subseteq Sent
  /\ holder = "stop" => stop = "draining"
  /\ stage[StopTask] # "idle" => stop = "writing"
  /\ holder = "stop" /\ ~ more => accepted \intersect Range(queue) = {}
  /\ stop \in {"drained", "writing", "written", "stopped"} =>
       accepted \intersect (Range(queue) \union passing) = {}
  /\ stop \in {"writing", "written", "stopped"} => accepted \intersect waiting = {}
  /\ StopWritesWhatWasAccepted

LEMMA StopInit == Init => StopRight
<1> SUFFICES ASSUME Init PROVE StopRight
  OBVIOUS
<1>1. stage[StopTask] = "idle"
  BY DEF Init, AllTasks
<1>2. accepted = {} /\ holder = "none" /\ stop = "no"
  BY DEF Init
<1> QED
  BY <1>1, <1>2 DEF StopRight, StopWritesWhatWasAccepted

(* The steps which only move metrics on: nothing new is accepted, queued or  *)
(* in a pass, and the stop stays where it is.                               *)
LEMMA StopFrame ==
  ASSUME StopRight, Sent' = Sent,
         UNCHANGED <<accepted, holder, stop, more>>,
         stage'[StopTask] # "idle" => stage[StopTask] # "idle",
         Range(queue') \subseteq Range(queue), passing' \subseteq passing,
         waiting' \subseteq waiting \union passing,
         stored \subseteq stored', Dropped \subseteq Dropped'
  PROVE  StopRight'
BY DEF StopRight, StopWritesWhatWasAccepted

LEMMA StopEnqueue ==
  ASSUME NEW b \in Batches, Sound, StopRight, Enqueue(b)
  PROVE  StopRight'
<1>1. /\ b \in Seq(Metrics) /\ queue \in Seq(Metrics) /\ queue' = queue \o b
      /\ accepted' = IF stop = "no" THEN accepted \union Range(b) ELSE accepted
      /\ UNCHANGED <<holder, passing, more, waiting, stage, stop, stored, late, overflow, refused>>
      /\ stop # "stopped"
  BY BatchType DEF Enqueue, Sound, TypeOK, passVars, pendingVars, taskVars, dropVars
<1>2. Range(queue') = Range(queue) \union Range(b)
  BY <1>1, QueueGrows
<1>3. Sent' = Sent \union Range(b)
  BY DEF Sent, Enqueue, Sound, TypeOK
<1>4. Sent \intersect Range(b) = {}
  BY NewIsNotSent DEF Enqueue
<1>5. CASE stop = "no"
  BY <1>1, <1>3, <1>5 DEF StopRight, StopWritesWhatWasAccepted
<1>6. CASE stop # "no"
  <2>1. accepted' = accepted /\ accepted \intersect Range(b) = {}
    BY <1>1, <1>4, <1>6 DEF StopRight
  <2> QED
    BY <1>1, <1>2, <1>3, <2>1 DEF StopRight, StopWritesWhatWasAccepted
<1> QED
  BY <1>5, <1>6

LEMMA StopTakeNothing ==
  ASSUME NEW p \in Passes, Sound, StopRight, TakeNothing(p)
  PROVE  StopRight'
<1>1. /\ queue = << >> /\ passing = {}
      /\ stop' = (IF p = "stop" THEN "drained" ELSE stop)
      /\ p = "stop" => stop = "draining"
      /\ holder = "none" /\ stop # "stopped"
      /\ UNCHANGED <<calls, queue, accepted, holder, passing, more, waiting, stage, stored,
                     late, overflow, refused>>
  BY DEF TakeNothing, Return, Calls, Passes, Sound, PassIsOver, passVars, pendingVars,
         taskVars, dropVars
<1>2. Range(queue) = {} /\ Sent' = Sent /\ Dropped' = Dropped
  BY <1>1 DEF Range, Sent, Dropped
<1> QED
  BY <1>1, <1>2 DEF StopRight, StopWritesWhatWasAccepted

(* A pass which does not fill up leaves nothing behind. *)
LEMMA NoMoreIsEmpty ==
  ASSUME Sound, ~ HasMore(BatchSize)
  PROVE  Range(Rest(BatchSize)) = {}
<1>1. queue \in Seq(Metrics) /\ Len(queue) \in Nat
  BY DEF Sound, TypeOK
<1>2. BatchSize = Len(queue)
  BY <1>1, PipelineAssumption DEF HasMore, BatchSize
<1>3. Rest(BatchSize) \in Seq(Metrics) /\ Len(Rest(BatchSize)) = 0
  BY <1>1, <1>2 DEF Rest
<1>4. Range(Rest(BatchSize)) = {Rest(BatchSize)[i] : i \in 1 .. 0}
  BY <1>3, RangeOfSeq
<1> QED
  BY <1>4

LEMMA StopTakeBatch ==
  ASSUME NEW p \in Passes, Sound, StopRight, TakeBatch(p)
  PROVE  StopRight'
<1> DEFINE taken == {queue[i] : i \in 1 .. BatchSize}
<1>1. /\ queue' = Rest(BatchSize) /\ passing' \subseteq taken /\ late \subseteq late'
      /\ more' = HasMore(BatchSize)
      /\ holder' = p /\ (p = "stop" => stop = "draining") /\ stop # "stopped"
      /\ UNCHANGED <<calls, accepted, waiting, stage, stop, stored, overflow, refused>>
  BY DEF TakeBatch, Calls, Passes, pendingVars, taskVars
<1>2. taken \subseteq Range(queue) /\ Range(queue') \subseteq Range(queue)
  <2>1. queue \in Seq(Metrics) /\ BatchSize \in 0 .. Len(queue)
    BY BatchSizeType DEF Sound, TypeOK
  <2> QED
    BY <1>1, <2>1, QueueParts DEF Rest
<1>3. ~ more' => Range(queue') = {}
  BY <1>1, NoMoreIsEmpty
<1>4. Sent' = Sent
  BY <1>1 DEF Sent
<1> HIDE DEF taken
<1> QED
  BY <1>1, <1>2, <1>3, <1>4 DEF StopRight, StopWritesWhatWasAccepted

LEMMA StopEndPass ==
  ASSUME Sound, StopRight, EndPass
  PROVE  StopRight'
<1>1. /\ passing = {} /\ stop # "stopped"
      /\ stop' = (IF holder = "stop" /\ ~ more THEN "drained" ELSE stop)
      /\ holder' = "none"
      /\ UNCHANGED <<calls, queue, accepted, passing, waiting, stage, stored, late, overflow, refused>>
  BY DEF EndPass, Return, pendingVars, taskVars, dropVars
<1>2. Sent' = Sent
  BY <1>1 DEF Sent
<1> QED
  BY <1>1, <1>2 DEF StopRight, StopWritesWhatWasAccepted

LEMMA StopTakesAll ==
  ASSUME Sound, MemoryIsBounded, StopRight, StopTakes
  PROVE  StopRight'
<1> DEFINE ready == {m \in waiting : kept[m] \in ReadySeconds(TRUE)}
<1>1. /\ stop = "drained" /\ stop' = "writing" /\ waiting' = waiting \ ready
      /\ UNCHANGED <<calls, queue, accepted, holder, passing, more, stored, late, overflow, refused>>
  BY DEF StopTakes, Take, queueVars, passVars, dropVars
<1>2. waiting' = {}
  BY <1>1 DEF ReadySeconds, MemoryIsBounded, SecondsOf
<1>3. Sent' = Sent
  BY <1>1 DEF Sent
<1> QED
  BY <1>1, <1>2, <1>3 DEF StopRight, StopWritesWhatWasAccepted

LEMMA StopEndWrite ==
  ASSUME NEW t \in AllTasks, Sound, StopRight, EndWrite(t)
  PROVE  StopRight'
<1>1. /\ stage[t] = "writing" /\ stage' = [stage EXCEPT ![t] = "idle"]
      /\ stop' = (IF t = StopTask THEN "written" ELSE stop)
      /\ UNCHANGED <<calls, queue, accepted, holder, passing, more, waiting, stored, late,
                     overflow, refused>>
  BY DEF EndWrite, queueVars, passVars, pendingVars, dropVars
<1>2. Sent' = Sent /\ Dropped' = Dropped
  BY <1>1 DEF Sent, Dropped
<1>3. StopTask \in AllTasks
  BY DEF AllTasks
<1>4. CASE t = StopTask
  <2>1. stop = "writing" /\ stop' = "written" /\ stage'[StopTask] = "idle"
    BY <1>1, <1>3, <1>4 DEF StopRight, Sound, TypeOK
  <2> QED
    BY <1>1, <1>2, <2>1 DEF StopRight, StopWritesWhatWasAccepted
<1>5. CASE t # StopTask
  <2>1. stop' = stop /\ stage'[StopTask] = stage[StopTask]
    BY <1>1, <1>3, <1>5 DEF Sound, TypeOK
  <2> QED
    BY <1>1, <1>2, <2>1 DEF StopRight, StopWritesWhatWasAccepted
<1> QED
  BY <1>4, <1>5

(* The process ends when the stop has written and no task holds anything. *)
LEMMA StopExit ==
  ASSUME Sound, StopRight, Exit
  PROVE  StopRight'
<1>1. /\ stop = "written" /\ stop' = "stopped" /\ \A t \in AllTasks : stage[t] = "idle"
      /\ UNCHANGED <<calls, queue, accepted, holder, passing, more, waiting, stage, stored,
                     late, overflow, refused>>
  BY DEF Exit, queueVars, passVars, pendingVars, taskVars, dropVars
<1>2. Sent' = Sent /\ Dropped' = Dropped
  BY <1>1 DEF Sent, Dropped
<1>3. \A t \in AllTasks : Undecided(t) = {}
  BY <1>1 DEF Undecided, Sound, Accounted, TasksAccountFor
<1>4. InTasks = {}
  BY <1>3 DEF InTasks
<1>5. accepted \subseteq stored \union Dropped
  BY <1>1, <1>4 DEF StopRight, Sound, Accounted, NothingForgotten
<1>6. StopTask \in AllTasks
  BY DEF AllTasks
<1> QED
  BY <1>1, <1>2, <1>5, <1>6 DEF StopRight, StopWritesWhatWasAccepted

LEMMA StopStep ==
  ASSUME Sound, MemoryIsBounded, StopRight, [Next]_vars
  PROVE  StopRight'
<1>1. ASSUME UNCHANGED <<calls, queue, accepted, holder, passing, more, waiting, stage, stop,
                         stored, late, overflow, refused>>
      PROVE  StopRight'
  BY <1>1, StopFrame DEF Sent, Dropped
<1>2. StopTask \in AllTasks /\ StopTask \notin Tasks
  BY PipelineAssumption DEF AllTasks
<1>3. ASSUME NEW b \in Batches, Enqueue(b) PROVE StopRight'
  BY <1>3, StopEnqueue
<1>4. ASSUME NEW b \in Batches, Trigger(b) PROVE StopRight'
  <2>1. Sent' = Sent
    BY <1>4 DEF Trigger, Sent, Sound, TypeOK
  <2> QED
    BY <1>4, <2>1, StopFrame DEF Trigger, passVars, pendingVars, taskVars, dropVars, Dropped
<1>5. ASSUME NEW p \in Passes, TakeNothing(p) \/ TakeBatch(p) PROVE StopRight'
  BY <1>5, StopTakeNothing, StopTakeBatch
<1>6. CASE Tick \/ Count \/ TickFindsNothing
  BY <1>1, <1>6
  DEF Tick, Count, TickFindsNothing, queueVars, passVars, pendingVars, taskVars, dropVars
<1>7. CASE Push
  <2>1. /\ passing' \subseteq passing /\ waiting' \subseteq waiting \union passing
        /\ overflow \subseteq overflow'
        /\ UNCHANGED <<calls, queue, accepted, holder, more, stage, stop, stored, late, refused>>
    BY <1>7 DEF Push, NextGroup, queueVars, taskVars
  <2> QED
    BY <2>1, StopFrame DEF Sent, Dropped
<1>8. CASE EndPass
  BY <1>8, StopEndPass
<1>9. ASSUME NEW t \in Tasks, TickTakes(t) PROVE StopRight'
  <2>1. /\ waiting' \subseteq waiting /\ stage' = [stage EXCEPT ![t] = "taken"]
        /\ UNCHANGED <<calls, queue, accepted, holder, passing, more, stop, stored, late,
                       overflow, refused>>
    BY <1>9 DEF TickTakes, Take, queueVars, passVars, dropVars
  <2>2. stage'[StopTask] = stage[StopTask]
    BY <1>2, <2>1 DEF Sound, TypeOK
  <2> QED
    BY <2>1, <2>2, StopFrame DEF Sent, Dropped
<1>10. ASSUME NEW t \in Tasks, GiveUp(t) PROVE StopRight'
  BY <1>1, <1>10 DEF GiveUp, queueVars, passVars, pendingVars, dropVars
<1>11. CASE StopTakes
  BY <1>11, StopTakesAll
<1>12. ASSUME NEW t \in AllTasks, StartWrite(t) PROVE StopRight'
  <2>1. /\ stage[t] = "taken" /\ stage' = [stage EXCEPT ![t] = "writing"] /\ late \subseteq late'
        /\ UNCHANGED <<calls, queue, accepted, holder, passing, more, waiting, stop, stored,
                       overflow, refused>>
    BY <1>12 DEF StartWrite, queueVars, passVars, pendingVars
  <2>2. stage'[StopTask] # "idle" => stage[StopTask] # "idle"
    BY <1>2, <2>1 DEF Sound, TypeOK
  <2> QED
    BY <2>1, <2>2, StopFrame DEF Sent, Dropped
<1>13. ASSUME NEW t \in AllTasks, WriteHour(t) PROVE StopRight'
  <2>1. /\ stored \subseteq stored' /\ refused \subseteq refused'
        /\ UNCHANGED <<calls, queue, accepted, holder, passing, more, waiting, stage, stop,
                       late, overflow>>
    BY <1>13 DEF WriteHour, queueVars, passVars, pendingVars
  <2> QED
    BY <2>1, StopFrame DEF Sent, Dropped
<1>14. ASSUME NEW t \in AllTasks, EndWrite(t) PROVE StopRight'
  BY <1>14, StopEndWrite
<1>15. CASE BeginStop
  <2>1. /\ stop = "no" /\ stop' = "draining"
        /\ UNCHANGED <<calls, queue, accepted, holder, passing, more, waiting, stage, stored,
                       late, overflow, refused>>
    BY <1>15 DEF BeginStop, queueVars, passVars, pendingVars, taskVars, dropVars
  <2>2. Sent' = Sent
    BY <2>1 DEF Sent
  <2> QED
    BY <2>1, <2>2 DEF StopRight, StopWritesWhatWasAccepted
<1>16. CASE Exit
  BY <1>16, StopExit
<1>17. CASE Exited \/ UNCHANGED vars
  BY <1>1, <1>17
  DEF Exited, vars, queueVars, passVars, pendingVars, taskVars, dropVars
<1>18. ASSUME NEW r \in Searches,
              \/ \E h \in {HourOf(m) : m \in InMemory \union stored} : LookInMemory(r, h)
              \/ ReadFiles(r)
              \/ Answer(r)
       PROVE  StopRight'
  <2>1. UNCHANGED <<queueVars, passVars, pendingVars, taskVars, stop, stored, dropVars>>
    BY <1>18 DEF LookInMemory, ReadFiles, Answer
  <2> QED
    BY <1>1, <2>1 DEF queueVars, passVars, pendingVars, taskVars, dropVars
<1> QED
  BY <1>3, <1>4, <1>5, <1>6, <1>7, <1>8, <1>9, <1>10, <1>11, <1>12, <1>13, <1>14, <1>15,
     <1>16, <1>17, <1>18 DEF Next

(* Where the process has stopped, whatever was queued before the stop began  *)
(* is in the files, or dropped for a reason the code names.                  *)
THEOREM StopLosesNothingAccepted == Spec => []StopWritesWhatWasAccepted
<1>1. StopRight => StopWritesWhatWasAccepted
  BY DEF StopRight
<1> QED
  BY <1>1, SoundHolds, MemoryStaysBounded, StopInit, StopStep, PTL DEF Spec

-------------------------------------------------------------------------------
(* An event in reach of the link of its process is given the client as it  *)
(* is taken to be written, for every set of events, links and times, if a  *)
(* second waits in memory at all.                                          *)

(* What waits is no older than its bucket; a link which is gone was old     *)
(* enough when it went, so that what still waits came too late for it.      *)
LinksRight ==
  /\ \A s \in DOMAIN created : created[s] <= now
  /\ \A m \in waiting : created[kept[m]] <= pushed[m]
  /\ \A l \in made \ links : now - l.created >= WindowSeconds + LINK_SECONDS
  /\ \A m \in waiting, l \in made \ links :
       client[m] = None /\ l.process = ProcessOf[m] => pushed[m] - l.created > LINK_SECONDS

LEMMA LinksInit == Init => LinksRight
BY DEF Init, LinksRight

LEMMA LinkTypes ==
  ASSUME Sound
  PROVE  /\ now \in Nat /\ WindowSeconds \in Nat /\ LINK_SECONDS \in Nat
         /\ links \subseteq made
         /\ \A l \in made : l.created \in Nat /\ l.client \in Range(ClientOf) \ {None}
         /\ \A m \in Metrics : pushed[m] \in Nat
         /\ \A s \in DOMAIN created : created[s] \in Nat
         /\ waiting \subseteq Metrics /\ passing \subseteq Metrics
BY PipelineAssumption DEF Sound, TypeOK, LinkType

LEMMA LinksFrame ==
  ASSUME Sound, LinksRight,
         UNCHANGED <<now, waiting, created, links, made, client, pushed>>,
         \A m \in waiting : kept'[m] = kept[m]
  PROVE  LinksRight'
BY DEF LinksRight

LEMMA LinksTick ==
  ASSUME Sound, LinksRight, Tick
  PROVE  LinksRight'
<1>1. now' = now + 1 /\ UNCHANGED <<waiting, kept, created, links, made, client, pushed>>
  BY DEF Tick, pendingVars, linkVars
<1> QED
  BY <1>1, LinkTypes DEF LinksRight

LEMMA LinksTakeBatch ==
  ASSUME NEW p \in Passes, Sound, LinksRight, TakeBatch(p)
  PROVE  LinksRight'
<1> DEFINE taken == {queue[i] : i \in 1 .. BatchSize}
<1>1. kept' = KeepAt(taken) /\ UNCHANGED <<now, waiting, created, links, made, client, pushed>>
  BY DEF TakeBatch, pendingVars, linkVars
<1>2. taken \intersect waiting = {}
  BY TakenIsQueued, NotInYet DEF InMemory
<1> HIDE DEF taken
<1>3. \A m \in waiting : kept'[m] = kept[m]
  BY <1>1, <1>2, KeepAtKeeps, LinkTypes
<1> QED
  BY <1>1, <1>3, LinksFrame

LEMMA LinksCount ==
  ASSUME Sound, LinksRight, Count
  PROVE  LinksRight'
<1>1. UNCHANGED <<now, waiting, kept, created, client, pushed>>
  BY DEF Count, pendingVars
<1>2. made' \ links' \subseteq made \ links
  BY DEF Count
<1> QED
  BY <1>1, <1>2 DEF LinksRight

LEMMA LinksPush ==
  ASSUME WindowSeconds # 0, Sound, MemoryIsBounded, LinksRight, Push
  PROVE  LinksRight'
<1> DEFINE group == NextGroup
           time  == KeepAt(group)
           ms    == waiting \union group
           since == [s \in SecondsOf(ms, time) |->
                       IF s \in DOMAIN created THEN created[s] ELSE now]
<1>1. PICK D \in SUBSET DOMAIN since :
        /\ waiting' = ms \ {m \in ms : time[m] \in D}
        /\ created' = [s \in DOMAIN since \ D |-> since[s]]
  BY DEF Push
<1>2. /\ kept' = time
      /\ pushed' = [m \in Metrics |-> IF m \in group THEN now ELSE pushed[m]]
      /\ UNCHANGED <<now, links, made, client>>
  BY DEF Push, linkVars
<1>3. group \subseteq passing /\ waiting \intersect group = {} /\ ms \subseteq Metrics
  <2>1. group \subseteq passing
    BY DEF NextGroup
  <2> QED
    BY <2>1, LinkTypes DEF Sound, Accounted, NothingTwice
<1>4. \A s \in DOMAIN created' : created'[s] = since[s] /\ since[s] <= now /\ since[s] \in Nat
  <2>1. \A s \in DOMAIN since : since[s] <= now /\ since[s] \in Nat
    BY LinkTypes DEF LinksRight
  <2> HIDE DEF since
  <2> QED
    BY <1>1, <2>1
<1>5. \A m \in waiting' : m \in ms /\ time[m] \in DOMAIN since \ D
  BY <1>1 DEF SecondsOf
<1>6. \A m \in waiting' : created'[kept'[m]] <= pushed'[m]
  <2> SUFFICES ASSUME NEW m \in waiting' PROVE created'[kept'[m]] <= pushed'[m]
    OBVIOUS
  <2>1. m \in ms /\ time[m] \in DOMAIN since \ D /\ created'[time[m]] = since[time[m]]
    BY <1>1, <1>4, <1>5
  <2>2. CASE m \in group
    BY <1>1, <1>2, <1>3, <1>4, <2>1, <2>2
  <2>3. CASE m \in waiting
    <3>1. time[m] = kept[m] /\ pushed'[m] = pushed[m]
      BY <1>2, <1>3, <2>3, KeepAtKeeps
    <3>2. kept[m] \in DOMAIN created
      BY <2>3 DEF MemoryIsBounded, SecondsOf
    <3>3. since[kept[m]] = created[kept[m]]
      BY <2>1, <3>1, <3>2
    <3> QED
      BY <1>2, <2>1, <2>3, <3>1, <3>3 DEF LinksRight
  <2> QED
    BY <2>1, <2>2, <2>3
<1>7. ASSUME NEW m \in waiting', NEW l \in made' \ links',
             client'[m] = None, l.process = ProcessOf[m]
      PROVE  pushed'[m] - l.created > LINK_SECONDS
  <2>1. m \in ms /\ l \in made \ links /\ client[m] = None
    BY <1>2, <1>5, <1>7
  <2>2. CASE m \in group
    <3>1. pushed'[m] = now
      BY <1>2, <1>3, <2>2
    <3>2. now - l.created >= WindowSeconds + LINK_SECONDS
      BY <2>1 DEF LinksRight
    <3> QED
      BY <2>1, <3>1, <3>2, LinkTypes
  <2>3. CASE m \in waiting
    <3>1. pushed'[m] = pushed[m]
      BY <1>2, <1>3, <2>3
    <3> QED
      BY <1>7, <2>1, <2>3, <3>1 DEF LinksRight
  <2> QED
    BY <2>1, <2>2, <2>3
<1> HIDE DEF since, ms, time, group
<1>8. \A s \in DOMAIN created' : created'[s] <= now'
  BY <1>2, <1>4
<1>9. \A l \in made' \ links' : now' - l.created >= WindowSeconds + LINK_SECONDS
  BY <1>2 DEF LinksRight
<1> QED
  BY <1>6, <1>7, <1>8, <1>9 DEF LinksRight

(* The old links go once what was ready is taken: what still waits came     *)
(* later than they reach.                                                   *)
LEMMA LinksGo ==
  ASSUME Sound, MemoryIsBounded, LinksRight,
         UNCHANGED <<now, kept, made, pushed>>, links' = KeptLinks,
         NEW ready \in SUBSET waiting, waiting' = waiting \ ready,
         DOMAIN created' \subseteq DOMAIN created,
         \A s \in DOMAIN created' : created'[s] = created[s],
         \A m \in waiting' : /\ kept[m] \in DOMAIN created'
                             /\ client'[m] = client[m]
                             /\ now - created[kept[m]] < WindowSeconds
  PROVE  LinksRight'
<1>1. \A l \in made \ links' :
        l \in made \ links \/ now - l.created >= WindowSeconds + LINK_SECONDS
  BY LinkTypes DEF KeptLinks
<1>2. \A l \in made' \ links' : now' - l.created >= WindowSeconds + LINK_SECONDS
  BY <1>1 DEF LinksRight
<1>3. ASSUME NEW m \in waiting', NEW l \in made' \ links',
             client'[m] = None, l.process = ProcessOf[m]
      PROVE  pushed'[m] - l.created > LINK_SECONDS
  <2>1. CASE l \in made \ links
    BY <1>3, <2>1 DEF LinksRight
  <2>2. CASE now - l.created >= WindowSeconds + LINK_SECONDS
    <3>1. created[kept[m]] <= pushed[m] /\ kept[m] \in DOMAIN created
      BY <1>3 DEF LinksRight
    <3>2. now - created[kept[m]] < WindowSeconds
      BY <1>3
    <3>3. l.created \in Nat /\ pushed[m] \in Nat /\ created[kept[m]] \in Nat
      BY <3>1, LinkTypes
    <3> QED
      BY <2>2, <3>1, <3>2, <3>3, LinkTypes
  <2> QED
    BY <1>1, <1>3, <2>1, <2>2
<1>4. \A m \in waiting' : created'[kept'[m]] <= pushed'[m]
  BY DEF LinksRight
<1>5. \A s \in DOMAIN created' : created'[s] <= now'
  BY DEF LinksRight
<1> QED
  BY <1>2, <1>3, <1>4, <1>5 DEF LinksRight

LEMMA LinksTake ==
  ASSUME NEW t \in AllTasks, NEW all \in BOOLEAN,
         Sound, MemoryIsBounded, LinksRight, Take(t, all)
  PROVE  LinksRight'
<1> DEFINE seconds == ReadySeconds(all)
           ready   == {m \in waiting : kept[m] \in seconds}
<1>1. /\ waiting' = waiting \ ready /\ ready \in SUBSET waiting
      /\ created' = [s \in DOMAIN created \ seconds |-> created[s]]
      /\ client' = NameClients(ready) /\ links' = KeptLinks
      /\ UNCHANGED <<now, kept, made, pushed>>
  BY DEF Take, BucketsWithout
<1>2. ASSUME NEW m \in waiting'
      PROVE  /\ kept[m] \in DOMAIN created' /\ client'[m] = client[m]
             /\ now - created[kept[m]] < WindowSeconds
  <2>1. m \in waiting /\ kept[m] \notin seconds /\ m \notin ready
    BY <1>1
  <2>2. kept[m] \in DOMAIN created
    BY <2>1 DEF MemoryIsBounded, SecondsOf
  <2>3. now - created[kept[m]] < WindowSeconds
    BY <2>1, <2>2, LinkTypes DEF ReadySeconds
  <2>4. client'[m] = client[m]
    BY <1>1, <2>1, LinkTypes DEF NameClients
  <2> HIDE DEF seconds, ready
  <2> QED
    BY <1>1, <2>1, <2>2, <2>3, <2>4
<1> HIDE DEF seconds, ready
<1> QED
  BY <1>1, <1>2, LinksGo

LEMMA LinksTickFindsNothing ==
  ASSUME Sound, MemoryIsBounded, LinksRight, TickFindsNothing
  PROVE  LinksRight'
<1>1. /\ ReadySeconds(FALSE) = {} /\ links' = KeptLinks
      /\ UNCHANGED <<now, kept, made, pushed, waiting, created, client>>
  BY DEF TickFindsNothing, pendingVars
<1>2. ASSUME NEW m \in waiting'
      PROVE  kept[m] \in DOMAIN created' /\ now - created[kept[m]] < WindowSeconds
  <2>1. kept[m] \in DOMAIN created
    BY <1>1 DEF MemoryIsBounded, SecondsOf
  <2>2. ~ (now - created[kept[m]] >= WindowSeconds)
    BY <1>1, <2>1 DEF ReadySeconds
  <2> QED
    BY <1>1, <2>1, <2>2, LinkTypes
<1>3. waiting' = waiting \ {} /\ {} \in SUBSET waiting
  BY <1>1
<1> QED
  BY <1>1, <1>2, <1>3, LinksGo

LEMMA LinksStep ==
  ASSUME WindowSeconds # 0, Sound, MemoryIsBounded, LinksRight, [Next]_vars
  PROVE  LinksRight'
<1>1. ASSUME UNCHANGED <<now, kept, waiting, created, links, made, client, pushed>>
      PROVE  LinksRight'
  BY <1>1, LinksFrame
<1>2. CASE Tick
  BY <1>2, LinksTick
<1>3. ASSUME NEW b \in Batches, Enqueue(b) \/ Trigger(b) PROVE LinksRight'
  BY <1>1, <1>3 DEF Enqueue, Trigger, pendingVars, linkVars
<1>4. ASSUME NEW p \in Passes, TakeNothing(p) PROVE LinksRight'
  BY <1>1, <1>4 DEF TakeNothing, pendingVars, linkVars
<1>5. ASSUME NEW p \in Passes, TakeBatch(p) PROVE LinksRight'
  BY <1>5, LinksTakeBatch
<1>6. CASE Count \/ Push
  BY <1>6, LinksCount, LinksPush
<1>7. CASE EndPass \/ BeginStop \/ Exit \/ Exited \/ UNCHANGED vars
  BY <1>1, <1>7 DEF EndPass, BeginStop, Exit, Exited, vars, pendingVars, linkVars
<1>8. ASSUME NEW t \in Tasks, TickTakes(t) PROVE LinksRight'
  BY <1>8, LinksTake DEF TickTakes, AllTasks
<1>9. ASSUME NEW t \in Tasks, GiveUp(t) PROVE LinksRight'
  BY <1>1, <1>9 DEF GiveUp, pendingVars, linkVars
<1>10. CASE TickFindsNothing
  BY <1>10, LinksTickFindsNothing
<1>11. CASE StopTakes
  BY <1>11, LinksTake DEF StopTakes, AllTasks
<1>12. ASSUME NEW t \in AllTasks, StartWrite(t) \/ WriteHour(t) \/ EndWrite(t) PROVE LinksRight'
  BY <1>1, <1>12 DEF StartWrite, WriteHour, EndWrite, pendingVars, linkVars
<1>13. ASSUME NEW r \in Searches,
              \/ \E h \in {HourOf(m) : m \in InMemory \union stored} : LookInMemory(r, h)
              \/ ReadFiles(r)
              \/ Answer(r)
       PROVE  LinksRight'
  <2>1. UNCHANGED <<now, kept, pendingVars, linkVars, client, pushed>>
    BY <1>13 DEF LookInMemory, ReadFiles, Answer
  <2> QED
    BY <1>1, <2>1 DEF pendingVars, linkVars
<1> QED
  BY <1>2, <1>3, <1>4, <1>5, <1>6, <1>7, <1>8, <1>9, <1>10, <1>11, <1>12, <1>13 DEF Next

-------------------------------------------------------------------------------
(* What the action property says of one step. *)
TakenAreNamed ==
  \A m \in (UNION Range(held')) \ BeingWritten :
    client'[m] = None =>
      \A l \in made : l.process = ProcessOf[m] => pushed[m] - l.created > LINK_SECONDS

LEMMA NothingTaken ==
  ASSUME \A t \in AllTasks : held'[t] \subseteq held[t], Sound'
  PROVE  TakenAreNamed
<1>1. DOMAIN held' = AllTasks
  BY DEF Sound, TypeOK
<1>2. (UNION Range(held')) \subseteq BeingWritten
  BY <1>1 DEF Range, BeingWritten
<1> QED
  BY <1>2 DEF TakenAreNamed

LEMMA TakeNames ==
  ASSUME NEW t \in AllTasks, NEW all \in BOOLEAN, Sound, Sound', LinksRight, Take(t, all)
  PROVE  TakenAreNamed
<1> DEFINE ready == {m \in waiting : kept[m] \in ReadySeconds(all)}
<1>1. /\ held' = [held EXCEPT ![t] = ready] /\ ready \subseteq waiting
      /\ client' = NameClients(ready)
  BY DEF Take
<1> HIDE DEF ready
<1>2. (UNION Range(held')) \subseteq BeingWritten \union ready
  <2>1. DOMAIN held' = AllTasks
    BY DEF Sound, TypeOK
  <2>2. \A u \in AllTasks : held'[u] \subseteq held[u] \union ready
    BY <1>1 DEF Sound, TypeOK
  <2> QED
    BY <2>1, <2>2 DEF Range, BeingWritten
<1>3. ASSUME NEW m \in ready, client'[m] = None, NEW l \in made, l.process = ProcessOf[m]
      PROVE  pushed[m] - l.created > LINK_SECONDS
  <2>1. m \in Metrics /\ m \in waiting
    BY <1>1, LinkTypes
  <2>2. ASSUME client[m] = None, \E k \in links : k.process = ProcessOf[m] PROVE FALSE
    <3>1. client'[m] = (CHOOSE k \in links : k.process = ProcessOf[m]).client
      BY <1>1, <2>1, <2>2 DEF NameClients
    <3>2. (CHOOSE k \in links : k.process = ProcessOf[m]) \in links
      BY <2>2
    <3> QED
      BY <1>3, <3>1, <3>2, LinkTypes
  <2>3. client[m] = None
    BY <1>1, <1>3, <2>1, <2>2 DEF NameClients
  <2>4. l \notin links
    BY <1>3, <2>2, <2>3
  <2> QED
    BY <1>3, <2>1, <2>3, <2>4 DEF LinksRight
<1> QED
  BY <1>2, <1>3 DEF TakenAreNamed

LEMMA NamedStep ==
  ASSUME Sound, LinksRight, [Next]_vars
  PROVE  TakenAreNamed
<1> USE SoundStep
<1>1. ASSUME held' = held PROVE TakenAreNamed
  BY <1>1, NothingTaken
<1>2. ASSUME NEW b \in Batches, Enqueue(b) \/ Trigger(b) PROVE TakenAreNamed
  BY <1>1, <1>2 DEF Enqueue, Trigger, taskVars
<1>3. ASSUME NEW p \in Passes, TakeNothing(p) \/ TakeBatch(p) PROVE TakenAreNamed
  BY <1>1, <1>3 DEF TakeNothing, TakeBatch, taskVars
<1>4. CASE Tick \/ Count \/ Push \/ EndPass \/ TickFindsNothing \/ BeginStop \/ Exit \/ Exited \/ UNCHANGED vars
  BY <1>1, <1>4
  DEF Tick, Count, Push, EndPass, TickFindsNothing, BeginStop, Exit, Exited, vars, taskVars
<1>5. ASSUME NEW t \in Tasks, TickTakes(t) PROVE TakenAreNamed
  BY <1>5, TakeNames DEF TickTakes, AllTasks
<1>6. ASSUME NEW t \in Tasks, GiveUp(t) PROVE TakenAreNamed
  BY <1>1, <1>6 DEF GiveUp
<1>7. CASE StopTakes
  BY <1>7, TakeNames DEF StopTakes, AllTasks
<1>8. ASSUME NEW t \in AllTasks, StartWrite(t) \/ WriteHour(t) PROVE TakenAreNamed
  BY <1>1, <1>8 DEF StartWrite, WriteHour
<1>9. ASSUME NEW t \in AllTasks, EndWrite(t) PROVE TakenAreNamed
  <2>1. \A u \in AllTasks : held'[u] \subseteq held[u]
    BY <1>9 DEF EndWrite, LetGo, Sound, TypeOK
  <2> QED
    BY <2>1, NothingTaken
<1>10. ASSUME NEW r \in Searches,
              \/ \E h \in {HourOf(m) : m \in InMemory \union stored} : LookInMemory(r, h)
              \/ ReadFiles(r)
              \/ Answer(r)
       PROVE  TakenAreNamed
  <2>1. UNCHANGED taskVars
    BY <1>10 DEF LookInMemory, ReadFiles, Answer
  <2> QED
    BY <1>1, <2>1 DEF taskVars
<1> QED
  BY <1>2, <1>3, <1>4, <1>5, <1>6, <1>7, <1>8, <1>9, <1>10 DEF Next

(* An event taken to be written without a client was handed over more than   *)
(* LINK_SECONDS after every link its process ever had, however late the tick *)
(* is.  Where nothing waits in memory at all the last second of the reach is *)
(* not covered: a link may be let go of in it before the event comes.        *)
THEOREM ClientsAreNamed ==
  ASSUME WindowSeconds # 0
  PROVE  Spec => ClientIsNamed
<1>1. Sound /\ MemoryIsBounded /\ LinksRight /\ [Next]_vars => LinksRight'
  BY LinksStep
<1>2. Sound /\ LinksRight /\ [Next]_vars => [TakenAreNamed]_vars
  BY NamedStep
<1>3. Spec => []LinksRight
  BY <1>1, LinksInit, SoundHolds, MemoryStaysBounded, PTL DEF Spec
<1>4. [TakenAreNamed]_vars =>
        [\A m \in (UNION Range(held')) \ BeingWritten :
           client'[m] = None =>
             \A l \in made : l.process = ProcessOf[m] => pushed[m] - l.created > LINK_SECONDS]_vars
  BY DEF TakenAreNamed
<1> QED
  BY <1>2, <1>3, <1>4, SoundHolds, PTL DEF Spec, ClientIsNamed

===============================================================================
