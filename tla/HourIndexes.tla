------------------------------ MODULE HourIndexes ------------------------------
(***************************************************************************)
(* The two indexes of an hour: how many records of each second each action *)
(* of each service has (key_index.rs), and which seconds have events of    *)
(* each process (process_index.rs) - in memory while the hour is written   *)
(* into, and as the directory of a file an hour which is read goes by.     *)
(***************************************************************************)
EXTENDS MetricBlock, FiniteSetsExt, Functions

CONSTANTS
  MAX_SERVICES, MAX_ACTIONS_PER_SERVICE,
  KEY_MAX_PAIRS, PROCESS_MAX_PAIRS,   \* with more an index is let go
  PAIRS_PER_PAGE,     \* of the file of the process index
  READ_LEN            \* what the first read of a file of a key index brings in

ASSUME HourIndexesAssumption ==
  /\ MAX_SERVICES \in Nat /\ MAX_ACTIONS_PER_SERVICE \in Nat
  /\ KEY_MAX_PAIRS \in Nat /\ PROCESS_MAX_PAIRS \in Nat
  /\ PAIRS_PER_PAGE \in Nat \ {0} /\ READ_LEN \in Nat

(* A function with another value at a key, which it may not have had. *)
Updated(f, key, value) ==
  [k \in DOMAIN f \union {key} |-> IF k = key THEN value ELSE f[k]]
Get(f, key, default) == IF key \in DOMAIN f THEN f[key] ELSE default
Less(total, n) == IF total > n THEN total - n ELSE 0

-------------------------------------------------------------------------------
(* The key index: services counts every record under its service, actions  *)
(* under its action; a service with no action is one with too many.        *)
NewKeyIndex == [services |-> <<>>, actions |-> <<>>, total |-> 0, pairs |-> 0]

is_let_go(index) == index.services = <<>> /\ index.total > 0

count_in(byValue, value, second) ==
  LET seconds == Get(byValue, value, <<>>)
  IN  Updated(byValue, value, Updated(seconds, second, Get(seconds, second, 0) + 1))
IsNewPair(byValue, value, second) == second \notin DOMAIN Get(byValue, value, <<>>)
PairsOf(byValue) == SumFunction([v \in DOMAIN byValue |-> Cardinality(DOMAIN byValue[v])])
PairsOfBoth(services, actions) ==
  PairsOf(services) + SumFunction([s \in DOMAIN actions |-> PairsOf(actions[s])])

One(condition) == IF condition THEN 1 ELSE 0

CountService(index, second, service) ==
  [index EXCEPT !.services = count_in(@, service, second),
                !.pairs    = @ + One(IsNewPair(index.services, service, second))]

(* A service which has had too many actions in this hour has none. *)
CountAction(index, isNew, second, service, action) ==
  LET actions == Get(index.actions, service, <<>>)
      With(some, pairs) == [index EXCEPT !.actions = Updated(@, service, some), !.pairs = pairs]
  IN  CASE ~isNew /\ actions = <<>> -> index
        [] (isNew \/ actions # <<>>) /\ action \notin DOMAIN actions
              /\ Cardinality(DOMAIN actions) >= MAX_ACTIONS_PER_SERVICE ->
             With(<<>>, index.pairs - PairsOf(actions))
        [] OTHER -> With(count_in(actions, action, second),
                         index.pairs + One(IsNewPair(actions, action, second)))

(* Nothing is indexed once a record is one too many. *)
LetGo(index) == [NewKeyIndex EXCEPT !.total = index.total]
add_record(index, second, r) ==
  LET service == Data[r.id].service
      isNew   == service \notin DOMAIN index.services
      counted == CountAction(CountService(index, second, service),
                             isNew, second, service, Data[r.id].action)
  IN  IF \/ isNew /\ Cardinality(DOMAIN index.services) >= MAX_SERVICES
         \/ counted.pairs > KEY_MAX_PAIRS
      THEN LetGo(index) ELSE counted

KeyAddRecords(index, second, records) ==
  LET before == [index EXCEPT !.total = @ + Len(records)]
      Add(i, r) == IF is_let_go(i) THEN i ELSE add_record(i, second, r)
      \* a new index has counted the records it is about to look at
      first == IF records = <<>> THEN before ELSE add_record(before, second, Head(records))
  IN  IF is_let_go(index) \/ records = <<>> THEN before
      ELSE FoldLeft(Add, first, Tail(records))

(* What was counted of records which were not written stays counted. *)
forget_records_None(index, n) == index
forget_records(index, n) == [index EXCEPT !.total = Less(@, n)]

(* Where the counts of a search are: of the action, or of the whole service *)
(* when it has too many of them; and nothing is known of an hour which does *)
(* not index.                                                               *)
Unknown == [known |-> FALSE, at |-> <<>>]
Known(seconds) == [known |-> TRUE, at |-> seconds]

find(index, service, action) ==
  LET actions == Get(index.actions, service, <<>>)
  IN  CASE index.services = <<>> -> Unknown
        [] index.services # <<>> /\ service \notin DOMAIN index.services -> Known(<<>>)
        [] service \in DOMAIN index.services /\ actions = <<>> ->
             Known(index.services[service])
        [] OTHER -> Known(Get(actions, action, <<>>))

-------------------------------------------------------------------------------
(* The file of a key index: a directory of every value - where its seconds *)
(* start past the directory, and how many there are - then the seconds of  *)
(* every value, each stepped from the one before.  A position is an entry  *)
(* of the directory or a packed second.                                    *)
pack_seconds(seconds) ==
  LET sorted == InOrder(DOMAIN seconds, <)
  IN  [i \in DOMAIN sorted |->
        [step    |-> IF i = 1 THEN sorted[i] ELSE sorted[i] - sorted[i - 1],
         records |-> seconds[sorted[i]]]]

unpack_seconds(packed) ==
  LET at[i \in 0 .. Len(packed)] == IF i = 0 THEN 0 ELSE at[i - 1] + packed[i].step
  IN  [s \in {at[i] : i \in DOMAIN packed} |->
        packed[CHOOSE i \in DOMAIN packed : at[i] = s].records]

(* The values of the keys: the services, and the actions of each. *)
KeyValues(index) ==
  {<<s>> : s \in DOMAIN index.services}
    \union UNION {{<<s, a>> : a \in DOMAIN index.actions[s]} : s \in DOMAIN index.actions}
SecondsIn(index, kv) ==
  IF Len(kv) = 1 THEN index.services[kv[1]] ELSE index.actions[kv[1]][kv[2]]

Directory(values, packed) ==
  LET start[i \in 1 .. Len(values)] == IF i = 1 THEN 0 ELSE start[i - 1] + Len(packed[i - 1])
  IN  [kv \in Range(values) |->
        LET i == CHOOSE i \in DOMAIN values : values[i] = kv
        IN  [offset |-> start[i], len |-> Len(packed[i])]]
KeyToFile(index) ==
  LET File(values, packed) ==
        [total |-> index.total, keys |-> DOMAIN index.actions,
         directory |-> Directory(values, packed), seconds |-> FlattenSeq(packed)]
      Packed(values) ==
        File(values, [i \in DOMAIN values |-> pack_seconds(SecondsIn(index, values[i]))])
  IN  Packed(FoldSet(LAMBDA kv, s : Append(s, kv), <<>>, KeyValues(index)))

(* The seconds of a value: from what the read of the directory brought in, *)
(* or read from where they are in the file.                                *)
ReadAhead(file) ==
  LET directory == Cardinality(DOMAIN file.directory)
      past == IF READ_LEN > directory THEN READ_LEN - directory ELSE 0
  IN  SubSeq(file.seconds, 1, IF past < Len(file.seconds) THEN past ELSE Len(file.seconds))
KeySecondsOf(file, kv) ==
  LET block == file.directory[kv]
      ahead == ReadAhead(file)
      from  == IF block.offset + block.len <= Len(ahead) THEN ahead ELSE file.seconds
  IN  unpack_seconds(SubSeq(from, block.offset + 1, block.offset + block.len))

(* A search by the directory of the file finds what `find` does. *)
KeyFromFile(file) ==
  LET values == DOMAIN file.directory
      services == [s \in {kv[1] : kv \in {kv \in values : Len(kv) = 1}} |->
                    KeySecondsOf(file, <<s>>)]
      ActionsOf(s) == {kv[2] : kv \in {kv \in values : Len(kv) = 2 /\ kv[1] = s}}
      actions == [s \in file.keys |-> [a \in ActionsOf(s) |-> KeySecondsOf(file, <<s, a>>)]]
  IN  [services |-> services, actions |-> actions, total |-> file.total,
       pairs |-> PairsOfBoth(services, actions)]

-------------------------------------------------------------------------------
(* The process index: a process id is the time its process started, and    *)
(* the second it names itself is not kept - a trace always reads it.       *)
NewProcessIndex == [pairs |-> {}, total |-> 0, letGo |-> FALSE]

ProcessAddRecords(index, second, records) ==
  LET met  == {r \in Range(records) : second_of(Data[r.id].process) # second}
      kept == index.pairs \union {<<Data[r.id].process, second>> : r \in met}
      over == Cardinality(kept) > PROCESS_MAX_PAIRS
  IN  [pairs |-> IF index.letGo \/ over THEN {} ELSE kept,
       total |-> index.total + Len(records),
       letGo |-> index.letGo \/ over]

with_start_second(process, seconds) ==
  seconds \union ({second_of(process)} \ {NoSecond})

ProcessSecondsOf(index, process) ==
  IF index.letGo THEN Unknown
  ELSE Known(with_start_second(process,
         {pair[2] : pair \in {pair \in index.pairs : pair[1] = process}}))

(* Its file: the first pair of each page, then the pairs by process and    *)
(* second.  The pages a process may be in are read.                        *)
PairBefore(a, b) == a[1] < b[1] \/ (a[1] = b[1] /\ a[2] < b[2])
ProcessToFile_LastOfEachPage(index) ==
  LET sorted == InOrder(index.pairs, PairBefore)
  IN  [total |-> index.total, letGo |-> index.letGo, pairs |-> sorted,
       first |-> [p \in 1 .. Len(sorted) \div PAIRS_PER_PAGE |-> sorted[p * PAIRS_PER_PAGE]]]
ProcessToFile(index) ==
  LET sorted == InOrder(index.pairs, PairBefore)
  IN  [total |-> index.total, letGo |-> index.letGo, pairs |-> sorted,
       first |-> [p \in 1 .. (Len(sorted) + PAIRS_PER_PAGE - 1) \div PAIRS_PER_PAGE |->
                   sorted[(p - 1) * PAIRS_PER_PAGE + 1]]]
ProcessFromFile(file) ==
  [pairs |-> Range(file.pairs), total |-> file.total, letGo |-> file.letGo]

partition_point(seq, Holds(_)) ==
  CHOOSE n \in 0 .. Len(seq) : /\ \A i \in 1 .. n : Holds(seq[i])
                               /\ n < Len(seq) => ~Holds(seq[n + 1])

(* The last page that may hold a pair of the process, and the one before   *)
(* the first which starts past its first pair.                             *)
PageRead(file, process) ==
  LET pagesUpTo == partition_point(file.first,
                     LAMBDA pair : ~PairBefore(<<process, SECONDS_PER_HOUR>>, pair))
      fromPage  == Less(partition_point(file.first,
                     LAMBDA pair : ~PairBefore(<<process, 0>>, pair)), 1)
      to        == IF pagesUpTo * PAIRS_PER_PAGE < Len(file.pairs)
                   THEN pagesUpTo * PAIRS_PER_PAGE ELSE Len(file.pairs)
  IN  SubSeq(file.pairs, fromPage * PAIRS_PER_PAGE + 1, to)
DirectorySecondsOf(file, process) ==
  LET read == PageRead(file, process)
      low  == partition_point(read, LAMBDA pair : PairBefore(pair, <<process, 0>>))
      kept == {i \in DOMAIN read : /\ i > low
                                   /\ \A j \in low + 1 .. i : read[j][1] = process}
  IN  IF file.letGo THEN Unknown
      ELSE Known(with_start_second(process, {read[i][2] : i \in kept}))

-------------------------------------------------------------------------------
(* What an index says of a search, second by second: at most how many of   *)
(* the records of the second match.  An index of processes says which      *)
(* seconds, not how many records.                                          *)
counts_of(index, service, action) == find(index, service, action)
OfSeconds(seconds) ==
  IF ~seconds.known THEN Unknown ELSE Known([s \in seconds.at |-> -1])
estimate(counts, records, second) ==
  LET atMost == Get(counts.at, second, 0)
  IN  IF ~counts.known \/ atMost = -1 \/ records < atMost THEN records ELSE atMost
===============================================================================
