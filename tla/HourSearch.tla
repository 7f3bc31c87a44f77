------------------------------ MODULE HourSearch ------------------------------
(***************************************************************************)
(* A search of one hour beside what changes the hour (search.rs, the two   *)
(* searches of metrics_storage.rs, scan_seconds of data_stream.rs): what   *)
(* waits in memory is looked at first, then the files are read in passes,  *)
(* each under a lock of its own - between two of them the hour is written, *)
(* let go of and opened again, or is in S3.                                *)
(***************************************************************************)
EXTENDS HourFile, TLC

CONSTANTS
  LOCAL_READ_LEN, S3_READ_LEN,    \* what one read brings in
  FRAME_LEN,
  LAST_EVENTS_LIMIT, PROCESS_EVENTS_LIMIT,
  PROCESS_SCAN_SECONDS, PROCESS_START_MARGIN,
  Queries                         \* what is asked for

VARIABLES
  archive,  \* the hour in S3, once it is there
  search    \* the one search

searchVars == <<fileVars, archive, search>>

NotUploaded == [at |-> "nowhere"]
Idle == [at |-> "idle"]

(* A query: the events of an action from a time on, of one client or of    *)
(* any; or every event of a process.                                       *)
matches(q, r) ==
  IF q.of = "process" THEN Data[r.id].process = q.process
  ELSE /\ Data[r.id].service = q.service /\ Data[r.id].action = q.action /\ NamesAreWhole(r)
       /\ time_of(r) >= q.from
       /\ q.client \in {"any", Data[r.id].client}

-------------------------------------------------------------------------------
(* The hour as a pass reads it: its data files, its cells, and what the    *)
(* index which serves the query says.                                      *)
process_counts(index, file, directory, process) ==
  OfSeconds(IF directory THEN DirectorySecondsOf(file, process)
            ELSE ProcessSecondsOf(index, process))
LocalCounts(q) ==
  IF q.of = "action" THEN counts_of(slot.key, q.service, q.action)
  ELSE process_counts(slot.process, IF slot.processDirectory THEN disk.process[1] ELSE <<>>,
                      slot.processDirectory, q.process)
S3Counts(q) ==
  IF q.of = "action" THEN counts_of(KeyFromFile(archive.key), q.service, q.action)
  ELSE process_counts(NewProcessIndex, archive.process, TRUE, q.process)

open_for_reading(q) ==
  [F |-> FramesOf([slot EXCEPT !.frames = <<>>], disk), cells |-> slot.cells,
   records |-> slot.counts, counts |-> LocalCounts(q), readLen |-> LOCAL_READ_LEN]
open_in_s3(q) ==
  [F |-> archive.frames, cells |-> archive.cells, records |-> archive.counts,
   counts |-> S3Counts(q), readLen |-> S3_READ_LEN]
Opened(q) == IF slot.at = "deleted" THEN open_in_s3(q) ELSE open_for_reading(q)

Estimated(source, s) == estimate(source.counts, source.records[s], s)

(* The records of the hour by the bytes of its files, from the index alone. *)
records_per_read(source) ==
  LET last == last_of(source.cells)
  IN  IF last = NoSecond THEN 0
      ELSE (source.readLen * total(source.records))
             \div ((source.cells[last].frame + 1) * FRAME_LEN)

(* The seconds which may have a match, as runs: read through what is       *)
(* between two of them while it is less than one read.                     *)
Runs(source, from, to, perRead) ==
  LET In(done, s) ==
        CASE source.records[s] = 0 -> done
          [] source.records[s] > 0 /\ Estimated(source, s) = 0 ->
               [done EXCEPT !.gap = @ + source.records[s]]
          [] done.runs # <<>> /\ done.gap < perRead /\ Estimated(source, s) > 0 ->
               [runs |-> [done.runs EXCEPT ![Len(done.runs)][2] = s], gap |-> 0]
          [] OTHER -> [runs |-> Append(done.runs, <<s, s>>), gap |-> 0]
  IN  FoldLeft(In, [runs |-> <<>>, gap |-> 0], [i \in 1 .. to - from + 1 |-> from + i - 1]).runs

(* A walk of the chain from the first entry of the seconds to the first    *)
(* one of a later second; a frame which does not read ends it.             *)
scan_seconds(source, from, to) ==
  LET first == first_from(source.cells, from)
  IN  IF first = NoSecond \/ first > to THEN <<>>
      ELSE RecordsOf(UpTo(WalkFrom(source.F, source.cells[first]), to))
collect(source, run, from, q) ==
  SelectSeq(scan_seconds(source, run[1], run[2]),
            LAMBDA r : time_of(r) >= from /\ matches(q, r))
CollectRuns(source, runs, from, q) ==
  FlattenSeq([i \in DOMAIN runs |-> collect(source, runs[i], from, q)])
Ids(records) == [i \in DOMAIN records |-> records[i].id]

-------------------------------------------------------------------------------
(* What waited is put among what the files gave, unless they gave it too:  *)
(* a record is told by its process, its time, its service and its action.  *)
IdOf(id) == <<Data[id].process, Data[id].time, Data[id].service, Data[id].action>>
Times(ids, id) == Cardinality({i \in DOMAIN ids : IdOf(ids[i]) = IdOf(id)})
add_waiting_WhateverTheFilesGave(ids, waiting) == ids \o waiting
add_waiting(ids, waiting) ==
  LET Alike(i) == Cardinality({j \in 1 .. i : IdOf(waiting[j]) = IdOf(waiting[i])})
      still == {i \in DOMAIN waiting : Alike(i) > Times(ids, waiting[i])}
  IN  ids \o [i \in 1 .. Cardinality(still) |-> waiting[InOrder(still, <)[i]]]

Truncated(ids, limit) == SubSeq(ids, 1, IF Len(ids) < limit THEN Len(ids) ELSE limit)
Latest(ids) == Truncated(SortSeq(ids, LAMBDA a, b : Data[a].time > Data[b].time),
                         LAST_EVENTS_LIMIT)
Oldest(ids) == Truncated(SortSeq(ids, LAMBDA a, b : Data[a].time < Data[b].time),
                         PROCESS_EVENTS_LIMIT)

(* The search has read what it reads. *)
Answered(s, found, missed) ==
  LET all == add_waiting(found, s.waiting)
  IN  [at |-> "answered", query |-> s.query, must |-> s.must, from |-> s.from,
       missed |-> missed,
       found |-> IF s.query.of = "action" THEN Latest(all) ELSE Oldest(all)]

(* What is stored, or waits to be, when the search begins. *)
StoredNow ==
  LET F == CASE slot.at = "open" -> FramesOf(slot, disk)
             [] slot.at = "closed" -> disk.frames
             [] OTHER -> archive.frames
  IN  IF HEAD \in DOMAIN F THEN RecordsOf(Chain(F)) ELSE <<>>
MatchingIds(q, some) == {id \in some : matches(q, AsItCame(id))}

(* The records of the memory: any which were not given to the hour yet,    *)
(* and the ones which are being written.                                   *)
Begin(q) ==
  /\ search = Idle /\ fault = "none"
  /\ \E more \in SUBSET MatchingIds(q, Records \ given) :
       \E waiting \in {more \union MatchingIds(q, writing)} :
         search' = [at |-> "find", query |-> q, waiting |-> InOrder(waiting, <),
                    must |-> waiting \union
                               {r.id : r \in {r \in Range(StoredNow) : matches(q, r)}},
                    found |-> <<>>, from |-> IF q.of = "action" THEN q.from ELSE 0,
                    end |-> SECONDS_PER_HOUR - 1,
                    wanted |-> LAST_EVENTS_LIMIT, planned |-> FALSE, parts |-> <<>>]
  /\ UNCHANGED <<fileVars, archive>>

(* Before a pass the hour is opened when it is closed. *)
Find(full) ==
  /\ search.at = "find"
  /\ search' = [search EXCEPT !.at = "read"]
  /\ IF slot.at = "closed" THEN Open(full) ELSE steps = <<>> /\ UNCHANGED fileVars
  /\ UNCHANGED archive

(* Closed again before the pass has its lock: it finds nothing to read.    *)
NothingToRead == slot.at = "closed" \/ (slot.at = "open" /\ slot.tail = NoFrame)
ReadNothing ==
  /\ search.at = "read" /\ steps = <<>>
  /\ NothingToRead
  /\ search' = Answered(search, search.found, slot.at = "closed")
  /\ UNCHANGED <<fileVars, archive>>

(* How many which may match the next pass is to take in: what is missing,  *)
(* scaled by the share which matched.                                      *)
next_wanted(missing, estimated, matched) ==
  IF matched = 0 THEN 2 * (IF estimated = 0 THEN 1 ELSE estimated)
  ELSE (missing * estimated + matched - 1) \div matched

(* Down from the end of the window until enough may match, and enough is   *)
(* read.                                                                   *)
Sum(Of(_), from, to) == MapThenSumSet(Of, from .. to)
EstimatedIn(source, from, to) == Sum(LAMBDA s : Estimated(source, s), from, to)
WindowStart(source, first, end, wanted, perRead) ==
  Max({s \in first .. end :
         \/ s = first
         \/ /\ EstimatedIn(source, s, end) >= wanted
            /\ Sum(LAMBDA t : source.records[t], s, end) >= perRead})

AfterWindow(first, start, estimated, matched) ==
  LET found == search.found \o Ids(matched)
  IN  IF Len(found) >= LAST_EVENTS_LIMIT \/ start = first
      THEN Answered(search, found, FALSE)
      ELSE [search EXCEPT !.at = "find", !.found = found, !.end = start - 1,
                          !.wanted = next_wanted(LAST_EVENTS_LIMIT - Len(found),
                                                 estimated, Len(matched))]
ReadWindow ==
  /\ search.at = "read" /\ steps = <<>> /\ search.query.of = "action"
  /\ ~NothingToRead
  /\ \E source \in {Opened(search.query)}, first \in {second_of(search.from)} :
     \E perRead \in {records_per_read(source)} :
     \E start \in {WindowStart(source, first, search.end, search.wanted, perRead)} :
       search' = AfterWindow(first, start, EstimatedIn(source, start, search.end),
                   CollectRuns(source, Runs(source, start, search.end, perRead),
                               search.from, search.query))
  /\ UNCHANGED <<fileVars, archive>>

(* The seconds the process index names; all from shortly before the        *)
(* process started to the last one, when it says nothing - all of the      *)
(* hour, when the process did not start in it.                             *)
in_parts_OnlyWhole(runs, most) ==
  FlattenSeq([i \in DOMAIN runs |->
    [p \in 1 .. (runs[i][2] - runs[i][1] + 1) \div most |->
      <<runs[i][1] + (p - 1) * most, runs[i][1] + p * most - 1>>]])
in_parts(runs, most) ==
  FlattenSeq([i \in DOMAIN runs |->
    [p \in 1 .. (runs[i][2] - runs[i][1] + most) \div most |->
      <<runs[i][1] + (p - 1) * most,
        Min({runs[i][1] + p * most - 1, runs[i][2]})>>]])
StartsIn(process) ==
  IF second_of(process) = NoSecond THEN 0
  ELSE second_of(Max({process - PROCESS_START_MARGIN, 0}))
PartsOf(source, process) ==
  LET last == IF last_of(source.cells) = NoSecond THEN 0 ELSE last_of(source.cells)
      runs == CASE source.counts.known ->
                     Runs(source, 0, SECONDS_PER_HOUR - 1, records_per_read(source))
                [] ~source.counts.known /\ StartsIn(process) <= last ->
                     <<<<StartsIn(process), last>>>>
                [] OTHER -> <<>>
  IN  in_parts(runs, PROCESS_SCAN_SECONDS)
Planned(source, process) ==
  [search EXCEPT !.planned = TRUE, !.parts = PartsOf(source, process),
                 !.from = IF source.counts.known THEN 0
                          ELSE StartsIn(process) * MICROS_PER_SECOND]

(* One part; the first of them under the lock the index was asked under.   *)
AfterPart(s, found) ==
  IF Len(s.parts) <= 1 \/ Len(found) >= PROCESS_EVENTS_LIMIT THEN Answered(s, found, FALSE)
  ELSE [s EXCEPT !.at = "find", !.found = found, !.parts = Tail(@)]
ReadPart ==
  /\ search.at = "read" /\ steps = <<>> /\ search.query.of = "process"
  /\ ~NothingToRead
  /\ \E source \in {Opened(search.query)} :
     \E s \in {IF search.planned THEN search ELSE Planned(source, search.query.process)} :
       search' = AfterPart(s, s.found \o
                   (IF s.parts = <<>> THEN <<>>
                    ELSE Ids(collect(source, Head(s.parts), s.from, s.query))))
  /\ UNCHANGED <<fileVars, archive>>

-------------------------------------------------------------------------------
(* The hour is over: its copy is in S3, and its folder is deleted. *)
Upload ==
  /\ slot.at = "open" /\ steps = <<>> /\ fault = "none"
  /\ slot.tail # NoFrame /\ flush(slot, TRUE, TRUE) = <<>>
  /\ \E copy \in {compact_to(FramesOf(slot, disk))} :
       archive' = [at |-> "S3", frames |-> copy.frames, cells |-> copy.cells,
                   counts |-> slot.counts, key |-> disk.key[1], process |-> disk.process[1]]
  /\ slot' = [at |-> "deleted"]
  /\ disk' = NoFiles
  /\ UNCHANGED <<steps, given, writing, durable, dropped, refusals, fault, search>>

(* What happens to the hour meanwhile; an hour which was just asked for is *)
(* not idle, and after the answer nothing more of it matters.              *)
Meanwhile ==
  /\ search.at # "answered"
  /\ \/ \E batches \in Preloaded : Load(batches)
     \/ \E ids \in SUBSET (Records \ given) : Write(ids, TRUE)
     \/ Persist(TRUE, TRUE)
     \/ FlushStep
     \/ slot.at # "deleted" /\ search.at # "read" /\ LetGoIdle
  /\ UNCHANGED <<archive, search>>

SearchInit == Init /\ archive = NotUploaded /\ search = Idle
SearchNext ==
  \/ \E q \in Queries : Begin(q)
  \/ \E full \in BOOLEAN : Find(full)
  \/ ReadNothing \/ ReadWindow \/ ReadPart
  \/ Upload
  \/ Meanwhile
SearchSpec == SearchInit /\ [][SearchNext]_searchVars

-------------------------------------------------------------------------------
Time(id) == Data[id].time
Answer == search.found
IsAnswered(of) == search.at = "answered" /\ search.query.of = of /\ ~search.missed
NothingTwice == \A i, j \in DOMAIN Answer : i # j => Answer[i] # Answer[j]

(* A search by action gives the latest events which match, each once: an   *)
(* event which was stored or waited in memory as it began is left out only *)
(* when the answer is full of later ones - whatever was written, merged,   *)
(* moved to another frame, reopened or uploaded between its passes.        *)
SearchGivesTheLatest ==
  IsAnswered("action") =>
    /\ NothingTwice /\ Len(Answer) <= LAST_EVENTS_LIMIT
    /\ \A i \in DOMAIN Answer : matches(search.query, AsItCame(Answer[i]))
    /\ \A id \in search.must \ Range(Answer) :
         /\ Len(Answer) = LAST_EVENTS_LIMIT
         /\ \A i \in DOMAIN Answer : Time(Answer[i]) >= Time(id)

(* A trace gives every event of its process, and the oldest when they are  *)
(* too many; where the index says nothing, from shortly before the process *)
(* started.                                                                *)
TraceGivesEveryEvent ==
  IsAnswered("process") =>
    /\ NothingTwice /\ Len(Answer) <= PROCESS_EVENTS_LIMIT
    /\ \A id \in {id \in search.must : Time(id) >= search.from} \ Range(Answer) :
         /\ Len(Answer) = PROCESS_EVENTS_LIMIT
         /\ \A i \in DOMAIN Answer : Time(Answer[i]) <= Time(id)
===============================================================================
