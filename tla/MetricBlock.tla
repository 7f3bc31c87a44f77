------------------------------ MODULE MetricBlock ------------------------------
(***************************************************************************)
(* The records of a second as blocks which fit an entry of a frame         *)
(* (metric_block.rs).  A record is [id, text, names, tags]: its free text  *)
(* (fail, success, the values of the tags), its names (the action, the     *)
(* service) and the tags a search does not filter on, each by its length;  *)
(* what is never cut of it is Data[id].core long.  A block takes the sum   *)
(* of the lengths of its records.                                          *)
(***************************************************************************)
EXTENDS Integers, Sequences, SequencesExt, FiniteSets

CONSTANTS
  Data,             \* what each record was when it came
  MICROS_PER_SECOND,
  SECONDS_PER_HOUR,
  RAW_BLOCK_LEN,    \* records are put together up to this length
  MAX_PAYLOAD_LEN,  \* what an entry has room for
  MIN_LEN_TO_CUT    \* a string shorter than this is not cut

ASSUME MetricBlockAssumption ==
  /\ MICROS_PER_SECOND \in Nat \ {0} /\ SECONDS_PER_HOUR \in Nat \ {0}
  /\ RAW_BLOCK_LEN \in Nat /\ MAX_PAYLOAD_LEN \in Nat /\ MIN_LEN_TO_CUT \in Nat \ {0}
  /\ \A id \in DOMAIN Data :
       /\ id \in Int /\ Data[id].time \in Int /\ Data[id].process \in Int
       /\ Data[id].text \in Nat /\ Data[id].names \in Nat /\ Data[id].tags \in Nat
       /\ Data[id].core \in Nat \ {0}

NoTime   == -1
NoSecond == -1
Seconds  == 0 .. SECONDS_PER_HOUR - 1

(* The hour starts at 0: a process id may name any time, or none. *)
second_of(time) ==
  LET second == time \div MICROS_PER_SECOND
  IN  IF second \in Seconds THEN second ELSE NoSecond

AsItCame(id) == [id    |-> id,
                 text  |-> Data[id].text,
                 names |-> Data[id].names,
                 tags  |-> Data[id].tags]

time_of(r) == Data[r.id].time
encoded_len(r) == r.text + r.names + r.tags + Data[r.id].core
RawLen(records) ==
  LET upTo[i \in 0 .. Len(records)] ==
        IF i = 0 THEN 0 ELSE upTo[i - 1] + encoded_len(records[i])
  IN  upTo[Len(records)]

(* The i-th element of a set is the one which i - 1 others come before. *)
InOrder(S, Comes(_, _)) ==
  [i \in 1 .. Cardinality(S) |-> CHOOSE x \in S : Cardinality({y \in S : Comes(y, x)}) = i - 1]

(* The elements of a sequence which pass the test, in its order. *)
Those(seq, Test(_)) ==
  LET places == InOrder({i \in DOMAIN seq : Test(seq[i])}, <)
  IN  [i \in DOMAIN places |-> seq[places[i]]]

(* Those of the same time stay as they come. *)
ByTime(records) ==
  LET Earlier(i, j) == \/ time_of(records[i]) < time_of(records[j])
                       \/ time_of(records[i]) = time_of(records[j]) /\ i < j
      places == InOrder(DOMAIN records, Earlier)
  IN  [i \in DOMAIN records |-> records[places[i]]]

(* The longest string in half: the text first, the names only when no text *)
(* is long, then half of the tags; and nothing when nothing is left.       *)
CanShrink(r) == r.text >= MIN_LEN_TO_CUT \/ r.names >= MIN_LEN_TO_CUT \/ r.tags > 0
shrink(r) ==
  CASE r.text >= MIN_LEN_TO_CUT -> [r EXCEPT !.text = @ \div 2]
    [] r.text < MIN_LEN_TO_CUT /\ r.names >= MIN_LEN_TO_CUT -> [r EXCEPT !.names = @ \div 2]
    [] OTHER -> [r EXCEPT !.tags = @ \div 2]

(* An entry of a frame: the time of its first record, and its block. *)
Entry(records) == [time |-> time_of(Head(records)), len |-> RawLen(records),
                   records |-> records, reads |-> TRUE]

compress_to_entry(records) ==
  IF RawLen(records) <= MAX_PAYLOAD_LEN THEN <<Entry(records)>> ELSE <<>>

(* Alone a record is cut until it fits, while there is something to cut.   *)
CutToFit(r) ==
  LET cut[n \in 0 .. encoded_len(r)] == IF n = 0 THEN r ELSE shrink(cut[n - 1])
      fitting == {n \in 1 .. encoded_len(r) : /\ \A m \in 0 .. n - 1 : CanShrink(cut[m])
                                             /\ compress_to_entry(<<cut[n]>>) # <<>>}
  IN  IF fitting = {} THEN <<>> ELSE compress_to_entry(<<cut[Min(fitting)]>>)

(* A block which does not fit is halved, and each half again. *)
InHalves(part) ==
  LET half == Len(part) \div 2
  IN  IF compress_to_entry(part) # <<>> \/ Len(part) <= 1 THEN <<part>>
      ELSE <<SubSeq(part, 1, half), SubSeq(part, half + 1, Len(part))>>
compress_block(records) ==
  LET parts[n \in 0 .. Len(records)] ==
        IF n = 0 THEN <<records>>
        ELSE LET before == parts[n - 1]
             IN  FlattenSeq([i \in DOMAIN before |-> InHalves(before[i])])
      Fitted(part) ==
        IF compress_to_entry(part) # <<>> THEN compress_to_entry(part) ELSE CutToFit(Head(part))
      all == parts[Len(records)]
  IN  FlattenSeq([i \in DOMAIN all |-> Fitted(all[i])])

(* Blocks of up to RAW_BLOCK_LEN, in the order of the records. *)
compress_records(records) ==
  LET Add(done, r) ==
        IF done.open # <<>> /\ RawLen(done.open) + encoded_len(r) > RAW_BLOCK_LEN
        THEN [blocks |-> done.blocks \o compress_block(done.open), open |-> <<r>>]
        ELSE [done EXCEPT !.open = Append(@, r)]
      all == FoldLeft(Add, [blocks |-> <<>>, open |-> <<>>], records)
  IN  IF all.open = <<>> THEN <<>> ELSE all.blocks \o compress_block(all.open)

RecordsIn(blocks) == SumFunction([i \in DOMAIN blocks |-> Len(blocks[i].records)])

(* What a search compares: a name which was cut is not the name any more. *)
NamesAreWhole(r) == r.names = Data[r.id].names
===============================================================================
