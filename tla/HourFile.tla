------------------------------- MODULE HourFile -------------------------------
(***************************************************************************)
(* The files of one hour as their writer keeps them (hour_file.rs): a      *)
(* chain of frames in data files, the cell of every second - where its     *)
(* first entry is - and the two indexes; what a write changes in memory,   *)
(* what a flush puts on the disk one write after another, and what is read *)
(* back when the hour is opened again.                                     *)
(*                                                                         *)
(* A frame is named by a number: the frames of file n start at             *)
(* n * FramesPerFile.  Memory keeps the changed frames; one which was only *)
(* read is the one on the disk.                                            *)
(***************************************************************************)
EXTENDS Frame, HourIndexes

CONSTANTS
  FramesPerFile,    \* data_file_len, in frames
  MAX_DATA_FILES,
  Records,          \* the records the hour may be given
  Preloaded,        \* what an hour has been written with: batches of records
  MaxBatch,         \* the records one write brings at most
  MaxGiven          \* how many of Records it is given in all

(* The hour is given the records of the hour, each of them once. *)
AllRecords == Records \union UNION {UNION Range(batches) : batches \in Preloaded}
ASSUME HourFileAssumption ==
  /\ FramesPerFile \in Nat \ {0} /\ MAX_DATA_FILES \in Nat
  /\ IsFiniteSet(Records) /\ AllRecords \subseteq DOMAIN Data
  /\ \A batches \in Preloaded : batches \in Seq(SUBSET AllRecords)
                               /\ \A i \in DOMAIN batches : IsFiniteSet(batches[i])
                               /\ \A j, k \in DOMAIN batches :
                                    j # k => batches[j] \intersect batches[k] = {}
  /\ \A r \in AllRecords : second_of(Data[r].time) \in Seconds

VARIABLES
  disk,     \* the files of the hour
  slot,     \* the hour in memory: closed, or what HourFile keeps of it
  steps,    \* what the flush under way has still to write
  given,    \* the records the hour was given
  writing   \* the records the flush under way is about

VARIABLES   \* what the properties remember
  durable,  \* the records a complete flush has put on the disk
  dropped,  \* the records which were not written
  refusals, \* why a second was not written
  fault     \* what has gone wrong

fileVars == <<disk, slot, steps, given, writing, durable, dropped, refusals, fault>>

NoCell == [frame |-> NoFrame, offset |-> 0]
NoCells == [s \in Seconds |-> NoCell]
NoCounts == [s \in Seconds |-> 0]
Closed == [at |-> "closed"]
NewHour == [at |-> "open", files |-> <<>>, cells |-> NoCells, counts |-> NoCounts,
            tail |-> NoFrame, last |-> NoSecond, frames |-> <<>>, dirty |-> <<>>,
            clean |-> FALSE, rebuilt |-> FALSE, failure |-> "",
            key |-> NewKeyIndex, keyDirectory |-> FALSE, keyChanged |-> FALSE,
            process |-> NewProcessIndex, processDirectory |-> FALSE,
            processChanged |-> FALSE]
NoFiles == [frames |-> <<>>, lens |-> <<>>, torn |-> FALSE, index |-> <<>>,
            key |-> <<>>, process |-> <<>>]

FileOf(frame)  == frame \div FramesPerFile + 1
IndexIn(frame) == frame % FramesPerFile
FirstOf(file)  == (file - 1) * FramesPerFile

(* The frames which read: the changed ones, and the ones on the disk. *)
FramesOf(h, d) ==
  LET written == {f \in DOMAIN d.frames : /\ FileOf(f) \in DOMAIN h.files
                                          /\ IndexIn(f) < h.files[FileOf(f)].onDisk}
  IN  [f \in DOMAIN h.frames \union written |->
         IF f \in DOMAIN h.frames THEN h.frames[f] ELSE d.frames[f]]

total(counts) == SumFunction(counts)
WithCell(cells) == {s \in Seconds : cells[s] # NoCell}
(* The first second from `second` on with entries, and the last one. *)
first_from(cells, second) ==
  LET later == {s \in WithCell(cells) : s >= second}
  IN  IF later = {} THEN NoSecond ELSE Min(later)
last_of(cells) == IF WithCell(cells) = {} THEN NoSecond ELSE Max(WithCell(cells))

(* The entries of the chain from a place on: where each is; the frame the  *)
(* walk ended in, and whether it was the end of the chain.                 *)
Reads(f, from) == IF IsBoundary(f, from) THEN Cardinality(Reading(f)) ELSE 0
EntriesFrom(frame, f, from) ==
  LET skip == Before(f, from)
  IN  [i \in 1 .. Reads(f, from) - skip |->
        [frame |-> frame, offset |-> OffsetOf(f, skip + i), entry |-> f.entries[skip + i]]]

(* The frames of a chain from one on, until it ends, comes to a frame      *)
(* which does not read, or comes to one of them again.                     *)
Follow(F, frame) ==
  LET path[n \in 0 .. Cardinality(DOMAIN F)] ==
        IF n = 0 THEN <<frame>>
        ELSE LET before == path[n - 1]
                 next   == F[Last(before)].next
             IN  IF next \in DOMAIN F \ Range(before) THEN Append(before, next) ELSE before
  IN  IF frame \in DOMAIN F THEN path[Cardinality(DOMAIN F)] ELSE <<>>

WalkFrom(F, cell) ==
  LET chain == Follow(F, cell.frame)
      From(i) == IF i = 1 THEN cell.offset ELSE FRAME_HEADER_LEN
      IsWhole(i) == Reads(F[chain[i]], From(i)) = Len(F[chain[i]].entries)
      n == Cardinality({i \in DOMAIN chain : \A j \in 1 .. i - 1 : IsWhole(j)})
  IN  IF chain = <<>> THEN [entries |-> <<>>, last |-> NoFrame, ok |-> FALSE]
      ELSE [entries |-> FlattenSeq([i \in 1 .. n |-> EntriesFrom(chain[i], F[chain[i]], From(i))]),
            last    |-> chain[n],
            ok      |-> IsWhole(n) /\ F[chain[n]].next = NoFrame]
Head1 == [frame |-> HEAD, offset |-> FRAME_HEADER_LEN]
Chain(F) == WalkFrom(F, Head1)

(* A walk is over at the first entry of a later second. *)
UpTo(walk, second) ==
  LET end   == (second + 1) * MICROS_PER_SECOND
      later == {i \in DOMAIN walk.entries : walk.entries[i].entry.time >= end}
  IN  IF later = {} THEN walk
      ELSE [walk EXCEPT !.entries = SubSeq(@, 1, Min(later) - 1), !.ok = TRUE]

-------------------------------------------------------------------------------
(* Writing a second into the memory of the hour. *)
mark_dirty(h, frame, f) ==
  [h EXCEPT !.frames = Updated(@, frame, f),
            !.dirty  = IF Contains(@, frame) THEN @ ELSE Append(@, frame)]

(* The cells of a frame in from .. below move by so many bytes. *)
Shift_NotWhatStartsThere(cells, frame, from, below, by) ==
  [s \in Seconds |->
    IF cells[s].frame = frame /\ cells[s].offset > from /\ cells[s].offset < below
    THEN [cells[s] EXCEPT !.offset = @ + by] ELSE cells[s]]
Shift(cells, frame, from, below, by) ==
  [s \in Seconds |->
    IF cells[s].frame = frame /\ cells[s].offset >= from /\ cells[s].offset < below
    THEN [cells[s] EXCEPT !.offset = @ + by] ELSE cells[s]]
Past == FRAME_HEADER_LEN + FRAME_CAPACITY + 1

room_for_frames(h) ==
  LET last == Len(h.files)
      inLast == IF last = 0 THEN 0 ELSE Less(FramesPerFile, h.files[last].count)
  IN  inLast + (MAX_DATA_FILES - last) * FramesPerFile

(* A new frame goes into the last data file until it is full. *)
allocate_frame(h) ==
  LET full  == h.files = <<>> \/ h.files[Len(h.files)].count >= FramesPerFile
      files == IF full THEN Append(h.files, [count |-> 0, onDisk |-> 0]) ELSE h.files
      n     == Len(files)
  IN  [h     |-> [h EXCEPT !.files = [files EXCEPT ![n].count = @ + 1]],
       frame |-> FirstOf(n) + files[n].count]

Fail(h, why) == [h |-> [h EXCEPT !.failure = why], cell |-> NoCell]

insert_into_frame(h, place, entry) ==
  LET f == insert(FramesOf(h, disk)[place.frame], place.offset, <<entry>>)
      moved == [h EXCEPT !.cells = Shift(@, place.frame, place.offset, Past, entry.len)]
  IN  [h |-> mark_dirty(moved, place.frame, f), cell |-> place]

append_frame_NotChained(h, last, entry) ==
  LET new == allocate_frame(h)
      f   == insert(NewFrame, FRAME_HEADER_LEN, <<entry>>)
  IN  IF room_for_frames(h) = 0 THEN Fail(h, "no room for a frame")
      ELSE [h |-> [mark_dirty(new.h, new.frame, f) EXCEPT !.tail = new.frame],
            cell |-> [frame |-> new.frame, offset |-> FRAME_HEADER_LEN]]
append_frame(h, last, entry) ==
  LET new  == allocate_frame(h)
      f    == insert(NewFrame, FRAME_HEADER_LEN, <<entry>>)
      cell == [frame |-> new.frame, offset |-> FRAME_HEADER_LEN]
      chained == IF last = NoFrame THEN mark_dirty(new.h, new.frame, f)
                 ELSE mark_dirty(mark_dirty(new.h, new.frame, f), last,
                        [FramesOf(h, disk)[last] EXCEPT !.next = new.frame])
  IN  IF room_for_frames(h) = 0 THEN Fail(h, "no room for a frame")
      ELSE [h |-> [chained EXCEPT !.tail = new.frame], cell |-> cell]

(* The boundary nearest the middle of the entries, the lower of two; not   *)
(* the one before the first entry.                                         *)
Boundaries(f) == Range(entry_offsets(f)) \ {FRAME_HEADER_LEN}
Halves_AtTheLast(f) == Max(Boundaries(f))
Halves(f) ==
  LET middle == FRAME_HEADER_LEN + used(f) \div 2
      Off(b) == IF b > middle THEN b - middle ELSE middle - b
  IN  CHOOSE b \in Boundaries(f) : \A c \in Boundaries(f) :
        Off(b) < Off(c) \/ (Off(b) = Off(c) /\ b <= c)

Halved(h, F, place, entry, boundary, upperLen, intoNext, new) ==
  LET f     == F[place.frame]
      lower == place.offset <= boundary
      to    == IF intoNext THEN f.next ELSE new.frame
      inTo  == place.offset - boundary + FRAME_HEADER_LEN
      below == split_off(f, boundary)
      above == [entries |-> SplitOffEntries(f, boundary), next |-> f.next]
      \* the entry goes into the half its place is in
      half  == IF lower THEN insert(below, place.offset, <<entry>>) ELSE below
      upper == IF lower THEN above ELSE insert(above, inTo, <<entry>>)
      filled == IF intoNext THEN insert(F[f.next], FRAME_HEADER_LEN, upper.entries) ELSE upper
      Cell(c) ==
        CASE c.frame = place.frame /\ c.offset >= boundary ->
               [frame |-> to, offset |-> c.offset - boundary + FRAME_HEADER_LEN
                  + (IF ~lower /\ c.offset >= place.offset THEN entry.len ELSE 0)]
          [] c.frame = place.frame /\ c.offset < boundary /\ lower
               /\ c.offset >= place.offset -> [c EXCEPT !.offset = @ + entry.len]
          [] intoNext /\ c.frame = to -> [c EXCEPT !.offset = @ + upperLen]
          [] OTHER -> c
      moved == [(IF intoNext THEN h ELSE new.h) EXCEPT
                  !.cells = [s \in Seconds |-> Cell(@[s])],
                  !.tail  = IF f.next = NoFrame THEN to ELSE @]
  IN  [h |-> mark_dirty(mark_dirty(moved, to, filled), place.frame,
                        [half EXCEPT !.next = IF intoNext THEN @ ELSE to]),
       cell |-> IF lower THEN place ELSE [frame |-> to, offset |-> inTo]]

HalvedAt(h, F, place, entry, boundary) ==
  LET f        == F[place.frame]
      lower    == place.offset <= boundary
      lowerLen == boundary - FRAME_HEADER_LEN + (IF lower THEN entry.len ELSE 0)
      upperLen == records_end(f) - boundary + (IF lower THEN 0 ELSE entry.len)
      intoNext == f.next # NoFrame /\ free(F[f.next]) >= upperLen
      fits     == lowerLen <= FRAME_CAPACITY /\ upperLen <= FRAME_CAPACITY
  IN  CASE ~fits -> Fail(h, "an entry fits neither half")
        [] fits /\ ~intoNext /\ room_for_frames(h) = 0 -> Fail(h, "no room for a frame")
        [] OTHER -> Halved(h, F, place, entry, boundary, upperLen, intoNext, allocate_frame(h))

halve_and_insert(h, F, place, entry) ==
  LET f     == F[place.frame]
      reads == f.next \in DOMAIN F \union {NoFrame}
  IN  CASE ~reads -> Fail(h, "the chain does not read")
        [] reads /\ Boundaries(f) = {} -> Fail(h, "a full frame has a single entry")
        [] OTHER -> HalvedAt(h, F, place, entry, Halves(f))

(* Into its frame while it has room, into a new frame at the end of the    *)
(* chain, into one half of the frame when it is full.                      *)
InsertInto(h, F, place, entry) ==
  LET f == F[place.frame]
  IN  CASE entry.len <= free(f) -> insert_into_frame(h, place, entry)
        [] entry.len > free(f) /\ place.offset < records_end(f) ->
             halve_and_insert(h, F, place, entry)
        [] OTHER -> append_frame(h, place.frame, entry)

(* The end of a full frame is the start of the next one. *)
insert_at(h, place, entry) ==
  LET F     == FramesOf(h, disk)
      chain == Follow(F, place.frame)
      At(i) == [frame  |-> chain[i],
                offset |-> IF i = 1 THEN place.offset ELSE FRAME_HEADER_LEN]
      Takes(i) == \/ entry.len <= free(F[chain[i]])
                  \/ At(i).offset < records_end(F[chain[i]])
                  \/ F[chain[i]].next = NoFrame
      taking == {i \in DOMAIN chain : Takes(i)}
  IN  CASE place = NoCell -> append_frame(h, NoFrame, entry)
        [] place # NoCell /\ taking = {} -> Fail(h, "the chain does not read")
        [] OTHER -> InsertInto(h, F, At(Min(taking)), entry)

remove_entry(h, place) ==
  LET f   == FramesOf(h, disk)[place.frame]
      len == f.entries[Before(f, place.offset) + 1].len
  IN  mark_dirty([h EXCEPT !.cells = Shift(@, place.frame, place.offset + 1, Past, -len)],
                 place.frame, remove(f, place.offset))

(* The last entry of the second, when it has one. *)
LastEntry(h, second) ==
  UpTo(WalkFrom(FramesOf(h, disk), h.cells[second]), second)

(* Before the first entry of the nearest later second, or at the end. *)
place_for_new_second(h, second) ==
  LET later == first_from(h.cells, second + 1)
      AtEnd == [frame |-> h.tail, offset |-> records_end(FramesOf(h, disk)[h.tail])]
  IN  CASE h.last > second /\ later # NoSecond -> h.cells[later]
        [] ~(h.last > second /\ later # NoSecond) /\ h.tail # NoFrame -> AtEnd
        [] OTHER -> NoCell

(* The blocks one after another; the first may be the first of its second. *)
InsertBlocks(h, second, place, isFirst, blocks) ==
  LET After(in, i) ==
        [h |-> IF i = 1 /\ isFirst /\ in.h.failure = ""
               THEN [in.h EXCEPT !.cells[second] = in.cell] ELSE in.h,
         place |-> [in.cell EXCEPT !.offset = @ + blocks[i].len]]
      Put(done, i) == IF done.h.failure # "" THEN done
                      ELSE After(insert_at(done.h, done.place, blocks[i]), i)
  IN  FoldLeft(Put, [h |-> h, place |-> place], [i \in DOMAIN blocks |-> i]).h

(* The indexes of the files, read whole when only their directories were,  *)
(* count the records before they are written.                              *)
Indexed(h, second, records) ==
  [h EXCEPT !.key = KeyAddRecords(@, second, records), !.keyChanged = TRUE,
            !.process = ProcessAddRecords(@, second, records), !.processChanged = TRUE,
            !.keyDirectory = FALSE, !.processDirectory = FALSE]

Counted(h, second, removed, came, written) ==
  LET lost == Less(removed + came, written)
  IN  [h EXCEPT !.counts[second] = @ - removed + written,
                !.key     = forget_records(@, lost),
                !.process = forget_records(@, lost),
                !.last    = IF @ < second THEN second ELSE @]
PutBlocks(h, second, place, isFirst, blocks, removed, came) ==
  IF room_for_frames(h) < 2 * Len(blocks) THEN [h EXCEPT !.failure = "no room"]
  ELSE Counted(InsertBlocks(h, second, place, isFirst, blocks),
               second, removed, came, RecordsIn(blocks))

(* Together with the last block of the second when that one reads, after   *)
(* it when it does not.                                                    *)
Merged(h, second, records, at, last) ==
  PutBlocks(remove_entry(h, at), second, at, h.cells[second] = at,
            compress_records(ByTime(last.records \o records)),
            Len(last.records), Len(records))
AfterTheLast(h, second, records, at, last) ==
  PutBlocks(h, second, [at EXCEPT !.offset = @ + last.len], FALSE,
            compress_records(records), 0, Len(records))
Alone(h, second, records) ==
  LET place == place_for_new_second(h, second)
  IN  IF place # NoCell /\ place.frame \notin DOMAIN FramesOf(h, disk)
      THEN [h EXCEPT !.failure = "the chain does not read"]
      ELSE PutBlocks(h, second, place, TRUE, compress_records(records), 0, Len(records))

PutRecords(h, second, records, walk) ==
  LET last == walk.entries[Len(walk.entries)]
      at   == [frame |-> last.frame, offset |-> last.offset]
  IN  CASE h.cells[second] # NoCell /\ ~walk.ok ->
             [h EXCEPT !.failure = "the second does not read"]
        [] h.cells[second] = NoCell \/ (walk.ok /\ walk.entries = <<>>) ->
             Alone(h, second, records)
        [] OTHER -> IF last.entry.reads THEN Merged(h, second, records, at, last.entry)
                    ELSE AfterTheLast(h, second, records, at, last.entry)
write_second(h, second, records) ==
  IF h.failure # "" THEN h
  ELSE PutRecords(Indexed(h, second, records), second, records, LastEntry(h, second))

-------------------------------------------------------------------------------
(* Flushing: what is to be written, in the order it is written.  The index *)
(* is marked dirty first; new frames go out before the changed ones.       *)
IsNew(h, f) == IndexIn(f) >= h.files[FileOf(f)].onDisk
NewFrames(h) == InOrder({f \in Range(h.dirty) : IsNew(h, f)}, <)
ChangedFrames(h) == Those(h.dirty, LAMBDA f : ~IsNew(h, f))

Step(do, frame) == [do |-> do, frame |-> frame]
flush_frames_ChangedFirst(h) ==
  IF h.dirty = <<>> THEN <<>>
  ELSE LET frames == ChangedFrames(h) \o NewFrames(h)
       IN  <<Step("mark", NoFrame)>> \o [i \in DOMAIN frames |-> Step("frame", frames[i])]
             \o <<Step("cells", NoFrame)>>
flush_frames(h) ==
  IF h.dirty = <<>> THEN <<>>
  ELSE LET frames == NewFrames(h) \o ChangedFrames(h)
       IN  <<Step("mark", NoFrame)>> \o [i \in DOMAIN frames |-> Step("frame", frames[i])]
             \o <<Step("cells", NoFrame)>>

(* The key index when it is changed and due, the process index when it was *)
(* not changed for a while; both when they are forced.                     *)
flush(h, due, quiet) ==
  flush_frames(h)
    \o (IF h.keyChanged /\ due THEN <<Step("key", NoFrame)>> ELSE <<>>)
    \o (IF h.processChanged /\ quiet THEN <<Step("process", NoFrame)>> ELSE <<>>)

IndexFile(h) == [clean |-> TRUE, cells |-> h.cells, counts |-> h.counts]
LenOfFile(d, file) == Get(d.lens, file, 0)
Longer(d, h, frame) ==
  [n \in 1 .. Len(h.files) |->
    IF n = FileOf(frame) /\ LenOfFile(d, n) <= IndexIn(frame) THEN IndexIn(frame) + 1
    ELSE LenOfFile(d, n)]

(* What a step writes; a data file is created, empty, as a flush begins.   *)
Written(d, h, step) ==
  CASE step.do = "mark" ->
         [d EXCEPT !.lens  = [n \in 1 .. Len(h.files) |-> LenOfFile(d, n)],
                   !.index = IF @ = <<>> \/ ~h.clean THEN @ ELSE <<[@[1] EXCEPT !.clean = FALSE]>>]
    [] step.do = "frame" ->
         [d EXCEPT !.frames = Updated(@, step.frame, h.frames[step.frame]),
                   !.lens = Longer(d, h, step.frame)]
    [] step.do = "cells" -> [d EXCEPT !.index = <<IndexFile(h)>>]
    [] step.do = "key" -> [d EXCEPT !.key = <<KeyToFile(h.key)>>]
    [] step.do = "process" -> [d EXCEPT !.process = <<ProcessToFile(h.process)>>]

Flushed(h, step) ==
  CASE step.do = "mark" -> [h EXCEPT !.clean = FALSE]
    [] step.do = "frame" -> h
    [] step.do = "cells" ->
         [h EXCEPT !.clean = TRUE, !.dirty = <<>>, !.frames = <<>>,
                   !.files = [n \in DOMAIN h.files |->
                                [count |-> h.files[n].count, onDisk |-> h.files[n].count]]]
    [] step.do = "key" -> [h EXCEPT !.keyChanged = FALSE]
    [] step.do = "process" -> [h EXCEPT !.processChanged = FALSE]

-------------------------------------------------------------------------------
(* Opening the hour from its files. *)
RecordsOf(walk) ==
  LET entries == Those(walk.entries, LAMBDA e : e.entry.reads)
  IN  FlattenSeq([i \in DOMAIN entries |-> entries[i].entry.records])
CellsOf(walk) ==
  [s \in Seconds |->
    LET of == {i \in DOMAIN walk.entries : second_of(walk.entries[i].entry.time) = s}
    IN  IF of = {} THEN NoCell
        ELSE [frame |-> walk.entries[Min(of)].frame, offset |-> walk.entries[Min(of)].offset]]
CountsOf(walk) ==
  LET counted == [i \in DOMAIN walk.entries |-> Len(walk.entries[i].entry.records)]
      Of(s)   == {i \in DOMAIN walk.entries : /\ walk.entries[i].entry.reads
                                              /\ second_of(walk.entries[i].entry.time) = s}
  IN  [s \in Seconds |-> SumFunctionOnSet(counted, Of(s))]

(* Every record of the chain counted again. *)
rebuild_indexes(walk) ==
  LET Add(done, e) ==
        [key |-> KeyAddRecords(done.key, second_of(e.entry.time), e.entry.records),
         process |-> ProcessAddRecords(done.process, second_of(e.entry.time), e.entry.records)]
  IN  FoldLeft(Add, [key |-> NewKeyIndex, process |-> NewProcessIndex],
               Those(walk.entries, LAMBDA e : e.entry.reads))

take_rebuilt(r, key, process, which) ==
  LET WithKey(x) ==
        IF "key" \in which
        THEN [x EXCEPT !.h.key = key, !.h.keyDirectory = FALSE, !.d.key = <<KeyToFile(key)>>]
        ELSE x
      WithProcess(x) ==
        IF "process" \in which
        THEN [x EXCEPT !.h.process = process, !.h.processDirectory = FALSE,
                       !.d.process = <<ProcessToFile(process)>>]
        ELSE x
  IN  WithProcess(WithKey(r))

(* The cells found again by a walk from the head.  What does not read ends *)
(* the chain: the frame keeps its entries before it and is the last one.   *)
(* A frame a file ends inside is cut off; with no head there is nothing.   *)
Ended_StillChained(f) == [f EXCEPT !.entries = SubSeq(@, 1, Cardinality(Reading(f)))]
Ended(f) == [entries |-> SubSeq(f.entries, 1, Cardinality(Reading(f))), next |-> NoFrame]
FilesOfDisk(d) == [n \in DOMAIN d.lens |-> [count |-> d.lens[n], onDisk |-> d.lens[n]]]
EmptyFiles(files) == [n \in DOMAIN files |-> [count |-> 0, onDisk |-> 0]]
NothingFound(h, d) ==
  LET found == [h EXCEPT !.cells = NoCells, !.counts = NoCounts, !.frames = <<>>,
                         !.clean = TRUE, !.rebuilt = TRUE, !.files = EmptyFiles(@)]
  IN  [h |-> found,
       d |-> [d EXCEPT !.torn = FALSE, !.frames = <<>>, !.lens = [n \in DOMAIN @ |-> 0],
                       !.index = <<IndexFile(found)>>],
       indexes |-> rebuild_indexes([entries |-> <<>>])]
Found(h, d, walk) ==
  LET found == [h EXCEPT !.cells = CellsOf(walk), !.counts = CountsOf(walk), !.frames = <<>>,
                         !.clean = TRUE, !.rebuilt = TRUE]
      ended == Updated(d.frames, walk.last, Ended(d.frames[walk.last]))
  IN  [h |-> found,
       d |-> [d EXCEPT !.torn = FALSE, !.frames = IF walk.ok THEN @ ELSE ended,
                       !.index = <<IndexFile(found)>>],
       indexes |-> rebuild_indexes(walk)]
rebuild(h, d) ==
  LET F == FramesOf([h EXCEPT !.frames = <<>>], d)
  IN  IF HEAD \in DOMAIN F THEN Found(h, d, Chain(F)) ELSE NothingFound(h, d)

(* The last frame of the chain: on from the one of the last cell. *)
LastFrame(F, frame) ==
  LET chain == Follow(F, frame)
  IN  IF chain # <<>> /\ F[Last(chain)].next = NoFrame THEN Last(chain) ELSE NoFrame
FrameCount(h) == SumFunction([n \in DOMAIN h.files |-> h.files[n].count])
find_tail(h, d) ==
  LET last == last_of(h.cells)
      tail == LastFrame(FramesOf(h, d), IF last = NoSecond THEN HEAD ELSE h.cells[last].frame)
  IN  [ok |-> FrameCount(h) = 0 \/ tail # NoFrame, tail |-> tail]

WithTail(r) ==
  LET At(found) == [r EXCEPT !.h.tail = found.tail, !.h.last = last_of(r.h.cells),
                             !.h.failure = IF found.ok THEN "" ELSE "the hour does not open"]
  IN  At(find_tail(r.h, r.d))
OpenRebuilt(h, d) ==
  LET Taken(r) == take_rebuilt(WithTail(r), r.indexes.key, r.indexes.process, {"key", "process"})
  IN  Taken(rebuild(h, d))

(* The indexes whose files count the records the index does: whole for an  *)
(* hour to be written, their directories for one which is only read.       *)
WithIndexes(h, d, full) ==
  [h EXCEPT !.key = IF d.key = <<>> THEN @ ELSE KeyFromFile(d.key[1]),
            !.process = IF d.process = <<>> THEN @ ELSE ProcessFromFile(d.process[1]),
            !.keyDirectory = ~full, !.processDirectory = ~full]
Miscounted(h, d) ==
  {i \in {"key", "process"} :
    LET file == IF i = "key" THEN d.key ELSE d.process
    IN  file = <<>> \/ file[1].total # total(h.counts)}

(* What is missing is counted again: by a walk which reads as many records *)
(* as the cells count, or else the cells are found again with it - as they *)
(* are when the end of the chain does not read.                            *)
Recounted(r, d, full, walk, again) ==
  IF \/ r.h.failure # ""
     \/ FrameCount(r.h) > 0 /\ (~walk.ok \/ again.key.total # total(r.h.counts))
  THEN OpenRebuilt([r.h EXCEPT !.failure = ""], d)
  ELSE take_rebuilt([r EXCEPT !.h = WithIndexes(@, d, full)], again.key, again.process,
                    Miscounted(r.h, d))
WithDataOf(r, d, full, walk) ==
  IF r.h.failure = "" /\ Miscounted(r.h, d) = {} THEN [r EXCEPT !.h = WithIndexes(@, d, full)]
  ELSE Recounted(r, d, full, walk, rebuild_indexes(walk))
OpenClean(h, d, full) ==
  LET cells == [h EXCEPT !.cells = d.index[1].cells, !.counts = d.index[1].counts, !.clean = TRUE]
      F     == FramesOf(h, d)
  IN  WithDataOf(WithTail([h |-> cells, d |-> d]), d, full,
                 IF HEAD \in DOMAIN F THEN Chain(F) ELSE [entries |-> <<>>, ok |-> FALSE])

OpenHour(d, full) ==
  LET h == [NewHour EXCEPT !.files = FilesOfDisk(d)]
  IN  CASE d.lens = <<>> -> [h |-> NewHour, d |-> d]
        [] d.lens # <<>> /\ (d.index = <<>> \/ d.torn \/ ~d.index[1].clean) -> OpenRebuilt(h, d)
        [] OTHER -> OpenClean(h, d, full)

-------------------------------------------------------------------------------
(* The records the chain holds, by how it is read: through the memory, or  *)
(* as the files are.                                                       *)
Held == RecordsOf(Chain(FramesOf(slot, disk)))
HoldsAny == slot.at = "open" /\ HEAD \in DOMAIN FramesOf(slot, disk)
IdsHeld == IF HoldsAny THEN {r.id : r \in Range(Held)} ELSE {}
IdsIn(d) == IF HEAD \in DOMAIN d.frames
            THEN {r.id : r \in Range(RecordsOf(Chain(d.frames)))} ELSE {}
Fits(id) == compress_records(<<AsItCame(id)>>) # <<>>

(* The seconds of a batch, one after another; none after one which failed. *)
RecordsAt(ids, second) ==
  ByTime([i \in 1 .. Cardinality({r \in ids : second_of(Data[r].time) = second}) |->
           AsItCame(InOrder({r \in ids : second_of(Data[r].time) = second}, <)[i])])
WriteSeconds(h, ids) ==
  FoldLeft(LAMBDA done, second : write_second(done, second, RecordsAt(ids, second)), h,
           InOrder({second_of(Data[r].time) : r \in ids}, <))

(* All of the steps, one after another. *)
Done(d, h, some) ==
  FoldLeft(LAMBDA done, step : [d |-> Written(done.d, done.h, step), h |-> Flushed(done.h, step)],
           [d |-> d, h |-> h], some)

Init ==
  /\ disk = NoFiles
  /\ slot = NewHour
  /\ steps = <<>>
  /\ given = {}
  /\ writing = {}
  /\ durable = {}
  /\ dropped = {}
  /\ refusals = {}
  /\ fault = "loading"

(* The hour has been written into already. *)
Load(batches) ==
  /\ fault = "loading"
  /\ \E h \in {FoldLeft(WriteSeconds, slot, batches)} :
       \E all \in {Done(disk, h, flush(h, TRUE, TRUE))} :
         /\ h.failure = ""
         /\ disk' = all.d
         /\ slot' = all.h
  /\ given' = UNION Range(batches)
  /\ durable' = IdsIn(disk')
  /\ dropped' = {r \in given' : ~Fits(r)}
  /\ fault' = "none"
  /\ UNCHANGED <<steps, writing, refusals>>

(* A write of the storage: the hour is let go of, as it is, when a second  *)
(* is not written - with what an earlier flush which failed has left in    *)
(* its memory - and flushed otherwise.                                     *)
Refuse(h, ids) ==
  /\ h.failure # ""
  /\ slot' = Closed
  /\ dropped' = dropped \union ids
  /\ refusals' = refusals \union {h.failure}
  /\ fault' = IF slot.dirty = <<>> THEN fault ELSE "split"
  /\ UNCHANGED <<steps, writing>>
Accept(h, ids, due) ==
  /\ h.failure = ""
  /\ slot' = h
  /\ steps' = flush(h, due, FALSE)
  /\ writing' = IF steps' = <<>> THEN {} ELSE ids
  /\ dropped' = dropped \union {r \in ids : ~Fits(r)}
  /\ UNCHANGED <<refusals, fault>>
Write(ids, due) ==
  /\ slot.at = "open" /\ steps = <<>> /\ fault \notin {"loading", "power"}
  /\ ids # {} /\ Cardinality(ids) <= MaxBatch
  /\ Cardinality(ids \union (given \intersect Records)) <= MaxGiven
  /\ \E h \in {WriteSeconds(slot, ids)} : Refuse(h, ids) \/ Accept(h, ids, due)
  /\ given' = given \union ids
  /\ UNCHANGED <<disk, durable>>

(* A tick of the maintenance, or the stop: what is changed is written. *)
Persist(due, quiet) ==
  /\ slot.at = "open" /\ steps = <<>>
  /\ flush(slot, due, quiet) # <<>>
  /\ steps' = flush(slot, due, quiet)
  /\ UNCHANGED <<disk, slot, given, writing, durable, dropped, refusals, fault>>

FlushStep ==
  /\ steps # <<>>
  /\ disk' = Written(disk, slot, Head(steps))
  /\ slot' = Flushed(slot, Head(steps))
  /\ steps' = Tail(steps)
  /\ writing' = IF Tail(steps) = <<>> THEN {} ELSE writing
  /\ durable' = IF Head(steps).do = "cells" THEN IdsIn(disk') ELSE durable
  /\ UNCHANGED <<given, dropped, refusals, fault>>

(* The hour is opened to be written, or to be read. *)
Open(full) ==
  /\ slot.at = "closed"
  /\ \E r \in {OpenHour(disk, full)} :
       /\ disk' = r.d
       /\ slot' = r.h
  /\ UNCHANGED <<steps, given, writing, durable, dropped, refusals, fault>>

(* Between two changed frames the disk has one half of what moved. *)
ChangedLeft == Those(steps, LAMBDA s : s.do = "frame" /\ ~IsNew(slot, s.frame))
IsSplit == /\ ChangedLeft # <<>>
           /\ Len(ChangedLeft) < Len(ChangedFrames(slot))

(* An idle hour is let go of: what a failed flush left in memory with it. *)
LetGoIdle ==
  /\ slot.at = "open" /\ steps = <<>> /\ fault # "loading"
  /\ slot' = Closed
  /\ fault' = IF slot.dirty = <<>> THEN fault ELSE "split"
  /\ UNCHANGED <<disk, steps, given, writing, durable, dropped, refusals>>

-------------------------------------------------------------------------------
(* What goes wrong, once. *)
LoseMemory ==
  /\ slot' = Closed
  /\ steps' = <<>>
  /\ writing' = {}
  /\ UNCHANGED <<given, durable, dropped, refusals>>

(* The process dies between two writes of a flush, or between two flushes. *)
Crash ==
  /\ slot.at = "open" /\ fault = "none"
  /\ fault' = IF IsSplit THEN "split" ELSE "crash"
  /\ disk' = disk
  /\ LoseMemory

(* It dies inside of one: a file ends inside a frame, or a frame has its   *)
(* header and its first entries and what was there before after them.      *)
Torn(f, n) ==
  LET cut  == [f.entries[n] EXCEPT !.records = <<>>, !.reads = FALSE]
      rest == [NotAnEntry EXCEPT !.len = LenOf(f.entries, Len(f.entries)) - LenOf(f.entries, n)]
  IN  [f EXCEPT !.entries = Append(SubSeq(@, 1, n - 1), cut)
                              \o (IF n = Len(f.entries) THEN <<>> ELSE <<rest>>)]
TornWrite ==
  /\ fault = "none" /\ steps # <<>> /\ Head(steps).do = "frame"
  /\ LET frame == Head(steps).frame
         f     == slot.frames[frame]
     IN  \/ /\ IsNew(slot, frame)
            /\ LenOfFile(disk, FileOf(frame)) <= IndexIn(frame)
            /\ disk' = [disk EXCEPT !.torn = TRUE]
            /\ fault' = IF IsSplit THEN "split" ELSE "crash"
         \/ /\ ~IsNew(slot, frame)
            /\ \E n \in DOMAIN f.entries :
                 disk' = [disk EXCEPT !.frames[frame] = Torn(f, n)]
            /\ fault' = "torn"
  /\ LoseMemory

(* The power is lost after a flush which seemed complete: some of its      *)
(* frames never came to the disk, and its indexes did.                     *)
Without(all, lost) ==
  [f \in {f \in DOMAIN all : f \in lost => f \in DOMAIN disk.frames} |->
    IF f \in lost THEN disk.frames[f] ELSE all[f]]
PowerLoss ==
  /\ fault = "none" /\ steps # <<>> /\ Head(steps).do = "mark"
  /\ \E lost \in SUBSET Range(slot.dirty) \ {{}} :
       disk' = LET all == Done(disk, slot, steps).d
               IN  [all EXCEPT !.frames = Without(@, lost)]
  /\ fault' = "power"
  /\ LoseMemory

(* A write of a flush fails: what is changed stays changed in memory, and  *)
(* the records are let go of by the memory of the storage.                 *)
FlushFails ==
  /\ fault = "none" /\ steps # <<>>
  /\ steps' = <<>>
  /\ writing' = {}
  /\ fault' = "failed"
  /\ UNCHANGED <<disk, slot, given, durable, dropped, refusals>>

Works ==
  \/ \E batches \in Preloaded : Load(batches)
  \/ \E ids \in SUBSET (Records \ given), due \in BOOLEAN : Write(ids, due)
  \/ \E due, quiet \in BOOLEAN : Persist(due, quiet)
  \/ FlushStep
  \/ \E full \in BOOLEAN : Open(full)
  \/ LetGoIdle
Fails == Crash \/ TornWrite \/ PowerLoss \/ FlushFails

Next == Works \/ Fails
Spec == Init /\ [][Next]_fileVars

-------------------------------------------------------------------------------
(* What is uploaded (compact_to): the entries of the chain in new frames,  *)
(* each filled before the next one starts, so that the copy is one run.    *)
StartsFrame(copy, e) == free(copy.frames[Len(copy.frames)]) < e.len
CopyPlace_InTheFrameBefore(copy, e) ==
  [frame |-> Len(copy.frames) - 1, offset |-> records_end(copy.frames[Len(copy.frames)])]
CopyPlace(copy, e) ==
  LET n == Len(copy.frames)
  IN  IF StartsFrame(copy, e) THEN [frame |-> n, offset |-> FRAME_HEADER_LEN]
      ELSE [frame |-> n - 1, offset |-> records_end(copy.frames[n])]

compact_to(F) ==
  LET Put(copy, e) ==
        LET n == Len(copy.frames)
            s == second_of(e.time)
        IN  [frames |-> IF StartsFrame(copy, e)
                        THEN Append([copy.frames EXCEPT ![n].next = n],
                                    [NewFrame EXCEPT !.entries = <<e>>])
                        ELSE [copy.frames EXCEPT ![n].entries = Append(@, e)],
             cells |-> IF copy.cells[s] = NoCell
                       THEN [copy.cells EXCEPT ![s] = CopyPlace(copy, e)] ELSE copy.cells]
      all == FoldLeft(LAMBDA copy, at : Put(copy, at.entry),
                      [frames |-> <<NewFrame>>, cells |-> NoCells], Chain(F).entries)
  IN  [frames |-> [f \in 0 .. Len(all.frames) - 1 |-> all.frames[f + 1]], cells |-> all.cells]

-------------------------------------------------------------------------------
(* An hour which was opened over data that the power loss took, and whose  *)
(* indexes happen to count what they should, is not known to be broken.    *)
Sound == slot.at = "open" /\ (fault = "power" => slot.rebuilt)

TypeOK ==
  /\ slot.at \in {"open", "closed"}
  /\ slot.at = "closed" => steps = <<>>
  /\ \A f \in DOMAIN disk.frames : used(disk.frames[f]) <= FRAME_CAPACITY
  /\ given \subseteq AllRecords
  /\ writing \subseteq given /\ dropped \subseteq given
  /\ fault \in {"loading", "none", "crash", "split", "torn", "power", "failed"}

InSeconds(walk) ==
  \A i, j \in DOMAIN walk.entries : i < j =>
    second_of(walk.entries[i].entry.time) <= second_of(walk.entries[j].entry.time)

(* Half of a flush is on the disk, and may have been written on since. *)
HalfFlushed == fault \in {"split", "torn"}

(* The cells of the index agree with the chain - every second's cell is    *)
(* its first entry, its count its records, and the chain is in the order   *)
(* of the seconds - whatever was inserted, halved or moved, and whatever   *)
(* the hour was opened from, half of a flush excepted: then too the chain  *)
(* reads to its end, and its end is the tail.                              *)
CellsAgreeWithTheChain ==
  Sound /\ HoldsAny =>
    LET walk == Chain(FramesOf(slot, disk))
    IN  /\ walk.ok /\ walk.last = slot.tail
        /\ HalfFlushed \/ (slot.cells = CellsOf(walk) /\ slot.counts = CountsOf(walk))
        /\ HalfFlushed \/ fault = "power" \/ InSeconds(walk)
        /\ HalfFlushed \/ \A i \in DOMAIN walk.entries :
             walk.entries[i].entry.reads =>
               \A r \in Range(walk.entries[i].entry.records) :
                 second_of(time_of(r)) = second_of(walk.entries[i].entry.time)

(* What cells.rs says of a cell: "where the first entry of a second is",   *)
(* also of an hour which was found dirty and rebuilt.                      *)
CellsAreFirstEntries ==
  Sound /\ HoldsAny => slot.cells = CellsOf(Chain(FramesOf(slot, disk)))

(* While nothing crashes the chain holds every record the hour was given   *)
(* and did not refuse, once - over merges of a second, blocks cut in two,  *)
(* halved frames, refused writes and flushes which fail.                   *)
HeldOnce == Len(Held) = Cardinality(IdsHeld)
EveryRecordIsHeldOnce ==
  slot.at = "open" /\ fault \in {"none", "failed"} /\ HoldsAny =>
    IdsHeld = given \ dropped /\ HeldOnce

(* The room for the frames of a write is decided before anything changes:  *)
(* a write is refused for that, and never halfway - a full frame can be    *)
(* halved and every entry finds room.                                      *)
RefusedOnlyForRoom == refusals \subseteq {"no room"}

(* An hour opens with what reads of it, whatever the crash left.           *)
HourOpens == slot.at = "open" => slot.failure = ""

(* A crash between the writes of a flush costs no record which an earlier  *)
(* flush put on the disk, and doubles none, unless it comes between two    *)
(* frames one of which gave its entries to the other.                      *)
FlushedSurvives ==
  Sound /\ fault \notin {"split", "torn", "power"} /\ HoldsAny =>
    durable \subseteq IdsHeld /\ HeldOnce

(* What a crash costs: "metrics accepted and not written yet".             *)
CrashCostsWhatWasNotWritten ==
  Sound /\ fault \in {"none", "crash", "split"} => durable \subseteq IdsHeld

(* The indexes in memory count the records of the cells, allow for every   *)
(* record an action has in a second, and name every second a process has   *)
(* events in - over merges, dropped records, too much to index, reopening  *)
(* from the files and rebuilding, half of a flush excepted.                *)
IndexesAgree ==
  Sound /\ HoldsAny /\ ~HalfFlushed =>
    /\ slot.key.total = total(slot.counts) /\ slot.process.total = total(slot.counts)
    /\ slot.key.pairs = PairsOfBoth(slot.key.services, slot.key.actions)
    /\ \A r \in {r \in Range(Held) : NamesAreWhole(r)} :
         LET counts == find(slot.key, Data[r.id].service, Data[r.id].action)
             same   == {x \in Range(Held) :
                          /\ NamesAreWhole(x)
                          /\ Data[x.id].service = Data[r.id].service
                          /\ Data[x.id].action = Data[r.id].action
                          /\ second_of(time_of(x)) = second_of(time_of(r))}
         IN  counts.known => Get(counts.at, second_of(time_of(r)), 0) >= Cardinality(same)
    /\ \A r \in Range(Held) :
         LET seconds == ProcessSecondsOf(slot.process, Data[r.id].process)
         IN  seconds.known => second_of(time_of(r)) \in seconds.at

(* What a search reads of the files of the indexes - a page or two, the    *)
(* packed seconds of one value - is what the whole indexes say.            *)
IndexFilesAnswerAsTheIndexes ==
  slot.at = "open" =>
    /\ \A id \in given : DirectorySecondsOf(ProcessToFile(slot.process), Data[id].process)
                          = ProcessSecondsOf(slot.process, Data[id].process)
    /\ KeyFromFile(KeyToFile(slot.key)) = slot.key

(* The copy which is uploaded is one run of full frames with the entries   *)
(* of the chain in its order, its cells are where they are, and it finds   *)
(* room in the data files of an hour.                                      *)
CopyHoldsTheChain ==
  Sound /\ HoldsAny /\ slot.dirty = <<>> =>
    LET F    == FramesOf(slot, disk)
        copy == compact_to(F)
        walk == Chain(copy.frames)
        EntriesOf(w) == [i \in DOMAIN w.entries |-> w.entries[i].entry]
    IN  /\ walk.ok /\ EntriesOf(walk) = EntriesOf(Chain(F))
        /\ copy.cells = CellsOf(walk)
        /\ \A f \in DOMAIN copy.frames : used(copy.frames[f]) <= FRAME_CAPACITY
        /\ Cardinality(DOMAIN copy.frames) <= MAX_DATA_FILES * FramesPerFile
===============================================================================
