------------------------------ MODULE FileProofs ------------------------------
(***************************************************************************)
(* What is proved of HourFile: that what its files and its memory are made *)
(* of - blocks, frames, chains, cells, indexes - keeps its type and its    *)
(* capacity in every step; so an hour opens from whatever is on the disk,  *)
(* and the files of its indexes answer as the indexes do.                  *)
(***************************************************************************)
EXTENDS HourFile, IndexProofs

-------------------------------------------------------------------------------
(* The records of the hour, the entries of a frame, and the ones a write    *)
(* puts there.                                                              *)
HourRecs == [id : AllRecords, text : Nat, names : Nat, tags : Nat]
Entries ==
  {e \in [time : Int, len : Nat \ {0}, records : Seq(HourRecs), reads : BOOLEAN] :
     /\ IsEntry(e) => e.len <= MAX_PAYLOAD_LEN /\ second_of(e.time) \in Seconds
     /\ e.reads => /\ second_of(e.time) \in Seconds
                   /\ e.records # <<>> /\ e.len = RawLen(e.records)
                   /\ e.time = time_of(e.records[1])}
Blocks == {e \in Entries : e.reads}
NonEmpty == Seq(HourRecs) \ {<<>>}

(* What has no time is of no second. *)
LEMMA NoTimeIsOfNoSecond == second_of(NoTime) \notin Seconds
<1>1. ~(0 <= NoTime \div MICROS_PER_SECOND)
  BY MetricBlockAssumption DEF NoTime
<1> QED
  BY <1>1, MetricBlockAssumption DEF second_of, Seconds, NoSecond

LEMMA StaysIn ==
  ASSUME NEW N \in Nat, NEW A, NEW f, f[0] \in A,
         \A i \in 1 .. N : f[i - 1] \in A => f[i] \in A
  PROVE  \A i \in 0 .. N : f[i] \in A
<1> DEFINE Good == {n \in Nat : n <= N => f[n] \in A}
<1>1. 0 \in Good
  OBVIOUS
<1>2. ASSUME NEW n \in Good PROVE n + 1 \in Good
  <2> SUFFICES ASSUME n + 1 <= N PROVE f[n + 1] \in A
    OBVIOUS
  <2>1. n + 1 \in 1 .. N /\ n + 1 - 1 = n /\ f[n] \in A
    OBVIOUS
  <2> QED
    BY <2>1
<1>3. Good = Nat
  <2> HIDE DEF Good
  <2>1. Good \subseteq Nat
    BY DEF Good
  <2> QED
    BY <1>1, <1>2, <2>1, NatInd
<1> HIDE DEF Good
<1>4. \A n \in 0 .. N : n \in Good /\ n <= N
  BY <1>3
<1> QED
  BY <1>4 DEF Good

(* A record is of the hour, and as long as it is. *)
LEMMA RecordsOfTheHour ==
  ASSUME NEW r \in HourRecs
  PROVE  /\ r \in Recs /\ encoded_len(r) \in Nat \ {0}
         /\ time_of(r) \in Int /\ second_of(time_of(r)) \in Seconds
<1>1. r.id \in AllRecords /\ r.text \in Nat /\ r.names \in Nat /\ r.tags \in Nat
  BY DEF HourRecs
<1>2. r.id \in DOMAIN Data /\ second_of(Data[r.id].time) \in Seconds
  BY <1>1, HourFileAssumption
<1>3. Data[r.id].core \in Nat \ {0} /\ Data[r.id].time \in Int
  BY <1>2, MetricBlockAssumption
<1>4. encoded_len(r) \in Nat \ {0}
  <2>1. encoded_len(r) = r.text + r.names + r.tags + Data[r.id].core
    BY DEF encoded_len
  <2> QED
    BY <1>1, <1>3, <2>1
<1>5. r \in Recs
  BY <1>1, <1>2 DEF HourRecs, Recs
<1> QED
  BY <1>2, <1>3, <1>4, <1>5 DEF time_of

LEMMA RawLengths ==
  ASSUME NEW records \in Seq(HourRecs)
  PROVE  RawLen(records) \in Nat /\ (records # <<>> => RawLen(records) > 0)
<1> DEFINE N == Len(records)
           IsUpTo(f) == f = [i \in 0 .. N |-> IF i = 0 THEN 0 ELSE f[i - 1] + encoded_len(records[i])]
           op == [xa \in (1 .. N) \X Nat |-> xa[2] + encoded_len(records[xa[1]])]
           upTo == CHOOSE f : IsUpTo(f)
<1>1. N \in Nat /\ \A i \in 1 .. N : encoded_len(records[i]) \in Nat \ {0}
  BY RecordsOfTheHour
<1> HIDE DEF N
<1>2. \E f : IsUpTo(f)
  <2>1. op \in [(1 .. N) \X Nat -> Nat]
    BY <1>1
  <2>2. PICK f \in [0 .. N -> Nat] : IsRecursion(f, N, 0, op)
    <3> HIDE DEF op
    <3> QED
      BY <1>1, <2>1, RecursionExists
  <2>3. \A i \in 1 .. N : op[<<i, f[i - 1]>>] = f[i - 1] + encoded_len(records[i])
    <3> TAKE i \in 1 .. N
    <3>1. f[i - 1] \in Nat
      BY <1>1
    <3> QED
      BY <3>1
  <2> HIDE DEF op
  <2>4. f = [i \in 0 .. N |-> IF i = 0 THEN 0 ELSE op[<<i, f[i - 1]>>]]
    BY <2>2 DEF IsRecursion
  <2>5. \A i \in 0 .. N : i # 0 => i \in 1 .. N
    BY <1>1
  <2>6. IsUpTo(f)
    BY <2>3, <2>4, <2>5
  <2> QED
    BY <2>6
<1>3. IsUpTo(upTo)
  <2> HIDE DEF IsUpTo
  <2> QED
    BY <1>2
<1>4. RawLen(records) = upTo[N]
  BY DEF RawLen, N
<1> HIDE DEF upTo
<1>5. upTo[0] = 0 /\ \A i \in 1 .. N : upTo[i] = upTo[i - 1] + encoded_len(records[i])
  BY <1>1, <1>3
<1>6. \A i \in 0 .. N : upTo[i] \in Nat
  <2> DEFINE A == Nat
  <2>1. upTo[0] \in A /\ \A i \in 1 .. N : upTo[i - 1] \in A => upTo[i] \in A
    BY <1>1, <1>5
  <2>2. \A i \in 0 .. N : upTo[i] \in A
    <3> HIDE DEF A
    <3> QED
      BY <1>1, <2>1, StaysIn
  <2> QED
    BY <2>2
<1>7. ASSUME records # <<>> PROVE upTo[N] > 0
  <2>1. N \in 1 .. N /\ N - 1 \in 0 .. N
    BY <1>1, <1>7 DEF N
  <2>2. upTo[N] = upTo[N - 1] + encoded_len(records[N]) /\ upTo[N - 1] \in Nat
    BY <1>5, <1>6, <2>1
  <2> QED
    BY <1>1, <2>1, <2>2
<1> QED
  BY <1>1, <1>4, <1>6, <1>7

LEMMA EntryOfRecords ==
  ASSUME NEW records \in NonEmpty
  PROVE  compress_to_entry(records) \in Seq(Blocks)
<1>1. records \in Seq(HourRecs) /\ records # <<>> /\ Head(records) \in HourRecs
  BY DEF NonEmpty
<1>2. RawLen(records) \in Nat \ {0}
  BY <1>1, RawLengths
<1>3. time_of(Head(records)) \in Int /\ second_of(time_of(Head(records))) \in Seconds
  BY <1>1, RecordsOfTheHour
<1>4. Head(records) = records[1]
  BY <1>1
<1>5. CASE RawLen(records) <= MAX_PAYLOAD_LEN
  <2>1. Entry(records) \in Entries
    BY <1>1, <1>2, <1>3, <1>4, <1>5 DEF Entry, Entries
  <2>2. Entry(records) \in Blocks
    BY <2>1 DEF Blocks, Entry
  <2> QED
    BY <1>5, <2>2 DEF compress_to_entry
<1>6. CASE ~(RawLen(records) <= MAX_PAYLOAD_LEN)
  BY <1>6 DEF compress_to_entry
<1> QED
  BY <1>5, <1>6

(* A record is cut until it fits alone. *)
LEMMA ShrunkIsARecord ==
  ASSUME NEW r \in HourRecs
  PROVE  shrink(r) \in HourRecs
<1>1. r.text \div 2 \in Nat /\ r.names \div 2 \in Nat /\ r.tags \div 2 \in Nat
  BY DEF HourRecs
<1>2. /\ [r EXCEPT !.text = @ \div 2] \in HourRecs
      /\ [r EXCEPT !.names = @ \div 2] \in HourRecs
      /\ [r EXCEPT !.tags = @ \div 2] \in HourRecs
  BY <1>1 DEF HourRecs
<1> QED
  BY <1>2 DEF shrink

LEMMA CutRecords ==
  ASSUME NEW r \in HourRecs
  PROVE  CutToFit(r) \in Seq(Blocks)
<1> DEFINE N == encoded_len(r)
           IsCut(f) == f = [n \in 0 .. N |-> IF n = 0 THEN r ELSE shrink(f[n - 1])]
           op == [xa \in (1 .. N) \X HourRecs |-> shrink(xa[2])]
           cut == CHOOSE f : IsCut(f)
           fitting == {n \in 1 .. N : /\ \A m \in 0 .. n - 1 : CanShrink(cut[m])
                                      /\ compress_to_entry(<<cut[n]>>) # <<>>}
<1>1. N \in Nat
  BY RecordsOfTheHour
<1> HIDE DEF N
<1>2. \E f : IsCut(f)
  <2>1. op \in [(1 .. N) \X HourRecs -> HourRecs]
    BY ShrunkIsARecord
  <2>2. PICK f \in [0 .. N -> HourRecs] : IsRecursion(f, N, r, op)
    <3> HIDE DEF op
    <3> QED
      BY <1>1, <2>1, RecursionExists
  <2>3. \A i \in 1 .. N : op[<<i, f[i - 1]>>] = shrink(f[i - 1])
    <3> TAKE i \in 1 .. N
    <3>1. f[i - 1] \in HourRecs
      BY <1>1
    <3> QED
      BY <3>1
  <2> HIDE DEF op
  <2>4. f = [i \in 0 .. N |-> IF i = 0 THEN r ELSE op[<<i, f[i - 1]>>]]
    BY <2>2 DEF IsRecursion
  <2>5. \A i \in 0 .. N : i # 0 => i \in 1 .. N
    BY <1>1
  <2>6. IsCut(f)
    BY <2>3, <2>4, <2>5
  <2> QED
    BY <2>6
<1>3. IsCut(cut)
  <2> HIDE DEF IsCut
  <2> QED
    BY <1>2
<1>4. CutToFit(r) = IF fitting = {} THEN <<>> ELSE compress_to_entry(<<cut[Min(fitting)]>>)
  BY DEF CutToFit, N
<1> HIDE DEF cut
<1>5. \A i \in 0 .. N : cut[i] \in HourRecs
  <2>1. cut[0] = r /\ \A i \in 1 .. N : cut[i] = shrink(cut[i - 1])
    BY <1>1, <1>3
  <2>2. \A i \in 1 .. N : cut[i - 1] \in HourRecs => cut[i] \in HourRecs
    BY <2>1, ShrunkIsARecord
  <2> QED
    BY <1>1, <2>1, <2>2, StaysIn
<1>6. fitting \subseteq 1 .. N
  OBVIOUS
<1> HIDE DEF fitting
<1>7. CASE fitting = {}
  BY <1>4, <1>7
<1>8. CASE fitting # {}
  <2>1. fitting \subseteq Nat
    BY <1>6
  <2>2. Min(fitting) \in 1 .. N
    BY <1>6, <1>8, <2>1, MinIs
  <2>3. cut[Min(fitting)] \in HourRecs
    BY <1>5, <2>2
  <2>4. <<cut[Min(fitting)]>> \in NonEmpty
    BY <2>3 DEF NonEmpty
  <2> QED
    BY <1>4, <1>8, <2>4, EntryOfRecords
<1> QED
  BY <1>7, <1>8

(* A block is halved until its parts fit. *)
LEMMA HalvesAreParts ==
  ASSUME NEW part \in NonEmpty
  PROVE  InHalves(part) \in Seq(NonEmpty)
<1> DEFINE half == Len(part) \div 2
           below == SubSeq(part, 1, half)
           above == SubSeq(part, half + 1, Len(part))
<1>1. part \in Seq(HourRecs) /\ Len(part) \in Nat /\ part # <<>>
  BY DEF NonEmpty
<1>2. CASE compress_to_entry(part) # <<>> \/ Len(part) <= 1
  BY <1>2 DEF InHalves
<1>3. CASE ~(compress_to_entry(part) # <<>> \/ Len(part) <= 1)
  <2>1. half \in 1 .. Len(part) - 1
    BY <1>1, <1>3
  <2>2. below \in Seq(HourRecs) /\ Len(below) = half
    <3> HIDE DEF half
    <3> QED
      BY <1>1, <2>1
  <2>3. above \in Seq(HourRecs) /\ Len(above) = Len(part) - half
    <3> HIDE DEF half
    <3> QED
      BY <1>1, <2>1, PartIs
  <2>4. below \in NonEmpty /\ above \in NonEmpty
    <3> HIDE DEF below, above, half
    <3>1. Len(below) > 0 /\ Len(above) > 0
      BY <1>1, <2>1, <2>2, <2>3
    <3> QED
      BY <2>2, <2>3, <3>1 DEF NonEmpty
  <2> QED
    BY <1>3, <2>4 DEF InHalves
<1> QED
  BY <1>2, <1>3

LEMMA BlockFits ==
  ASSUME NEW records \in NonEmpty
  PROVE  compress_block(records) \in Seq(Blocks)
<1> DEFINE N == Len(records)
           Parts == Seq(NonEmpty)
           Halved2(before) == FlattenSeq([i \in DOMAIN before |-> InHalves(before[i])])
           IsParts(f) == f = [n \in 0 .. N |-> IF n = 0 THEN <<records>> ELSE Halved2(f[n - 1])]
           op == [xa \in (1 .. N) \X Parts |-> Halved2(xa[2])]
           parts == CHOOSE f : IsParts(f)
           Fitted(part) ==
             IF compress_to_entry(part) # <<>> THEN compress_to_entry(part) ELSE CutToFit(Head(part))
           all == parts[N]
           fitted == [i \in DOMAIN all |-> Fitted(all[i])]
<1>1. N \in Nat
  BY DEF NonEmpty
<1> HIDE DEF N
<1>2. \A before \in Parts : Halved2(before) \in Parts
  <2> TAKE before \in Parts
  <2> DEFINE halves == [i \in DOMAIN before |-> InHalves(before[i])]
  <2>1. DOMAIN before = 1 .. Len(before) /\ Len(before) \in Nat
    OBVIOUS
  <2>2. \A i \in 1 .. Len(before) : InHalves(before[i]) \in Seq(NonEmpty)
    BY HalvesAreParts
  <2>3. halves \in Seq(Seq(NonEmpty))
    BY <2>1, <2>2
  <2> HIDE DEF halves
  <2>4. FlattenSeq(halves) \in Seq(NonEmpty)
    BY <2>3, FlattenType
  <2> QED
    BY <2>4 DEF halves
<1>3. <<records>> \in Parts
  OBVIOUS
<1> HIDE DEF Parts
<1>4. \E f : IsParts(f)
  <2>1. op \in [(1 .. N) \X Parts -> Parts]
    BY <1>2
  <2>2. PICK f \in [0 .. N -> Parts] : IsRecursion(f, N, <<records>>, op)
    <3> HIDE DEF op
    <3> QED
      BY <1>1, <1>3, <2>1, RecursionExists
  <2> HIDE DEF Halved2
  <2>3. \A i \in 1 .. N : op[<<i, f[i - 1]>>] = Halved2(f[i - 1])
    <3> TAKE i \in 1 .. N
    <3>1. f[i - 1] \in Parts
      BY <1>1
    <3> QED
      BY <3>1
  <2> HIDE DEF op
  <2>4. f = [i \in 0 .. N |-> IF i = 0 THEN <<records>> ELSE op[<<i, f[i - 1]>>]]
    BY <2>2 DEF IsRecursion
  <2>5. \A i \in 0 .. N : i # 0 => i \in 1 .. N
    BY <1>1
  <2>6. IsParts(f)
    BY <2>3, <2>4, <2>5
  <2> QED
    BY <2>6
<1>5. IsParts(parts)
  <2> HIDE DEF IsParts
  <2> QED
    BY <1>4
<1>6. compress_block(records) = FlattenSeq(fitted)
  BY DEF compress_block, N
<1> HIDE DEF parts
<1>7. all \in Parts
  <2> HIDE DEF Halved2
  <2>1. parts[0] = <<records>> /\ \A i \in 1 .. N : parts[i] = Halved2(parts[i - 1])
    BY <1>1, <1>5
  <2>2. \A i \in 1 .. N : parts[i - 1] \in Parts => parts[i] \in Parts
    BY <1>2, <2>1
  <2>3. \A i \in 0 .. N : parts[i] \in Parts
    BY <1>1, <1>3, <2>1, <2>2, StaysIn
  <2> QED
    BY <1>1, <2>3
<1> HIDE DEF all
<1>8. fitted \in Seq(Seq(Blocks))
  <2>1. all \in Seq(NonEmpty)
    BY <1>7 DEF Parts
  <2>2. DOMAIN all = 1 .. Len(all) /\ Len(all) \in Nat
    BY <2>1
  <2>3. \A i \in 1 .. Len(all) : Fitted(all[i]) \in Seq(Blocks)
    <3> TAKE i \in 1 .. Len(all)
    <3>1. all[i] \in NonEmpty
      BY <2>1
    <3>2. Head(all[i]) \in HourRecs
      BY <3>1 DEF NonEmpty
    <3> QED
      BY <3>1, <3>2, EntryOfRecords, CutRecords
  <2> HIDE DEF Fitted
  <2> QED
    BY <2>2, <2>3
<1> HIDE DEF fitted
<1> QED
  BY <1>6, <1>8, FlattenType

(* Records as blocks, in the order of their times. *)
LEMMA BlocksFit ==
  ASSUME NEW records \in Seq(HourRecs)
  PROVE  compress_records(records) \in Seq(Blocks)
<1> DEFINE A == [blocks : Seq(Blocks), open : Seq(HourRecs)]
           Add(done, r) ==
             IF done.open # <<>> /\ RawLen(done.open) + encoded_len(r) > RAW_BLOCK_LEN
             THEN [blocks |-> done.blocks \o compress_block(done.open), open |-> <<r>>]
             ELSE [done EXCEPT !.open = Append(@, r)]
           none == [blocks |-> <<>>, open |-> <<>>]
           n == Len(records)
           S == 1 .. n
           IsIter(f) == f = [s \in SUBSET S |-> IF s = {} THEN none
                                                ELSE Add(f[s \ {Max(s)}], records[Max(s)])]
           op == [xa \in S \X A |-> Add(xa[2], records[xa[1]])]
           iter == CHOOSE f : IsIter(f)
           all == iter[1 .. n]
<1>1. n \in Nat /\ DOMAIN records = S /\ \A i \in S : records[i] \in HourRecs
  OBVIOUS
<1>2. none \in A
  OBVIOUS
<1>3. \A a \in A, i \in S : Add(a, records[i]) \in A
  <2> TAKE a \in A, i \in S
  <2>1. CASE a.open # <<>> /\ RawLen(a.open) + encoded_len(records[i]) > RAW_BLOCK_LEN
    <3>1. a.open \in NonEmpty
      BY <2>1 DEF NonEmpty
    <3>2. compress_block(a.open) \in Seq(Blocks)
      BY <3>1, BlockFits
    <3> QED
      BY <1>1, <2>1, <3>2
  <2>2. CASE ~(a.open # <<>> /\ RawLen(a.open) + encoded_len(records[i]) > RAW_BLOCK_LEN)
    <3>1. Append(a.open, records[i]) \in Seq(HourRecs)
      BY <1>1
    <3> DEFINE c == [a EXCEPT !.open = Append(a.open, records[i])]
    <3>2. c \in A
      BY <3>1
    <3> QED
      BY <2>2, <3>2
  <2> QED
    BY <2>1, <2>2
<1> HIDE DEF A, Add, none, n
<1>4. \E f : IsIter(f)
  <2>1. op \in [S \X A -> A]
    BY <1>3
  <2>2. PICK f : IsLeftFold(f, n, A, none, op)
    <3> HIDE DEF op
    <3> QED
      BY <1>1, <1>2, <2>1, LeftFoldExists
  <2>3. \A s \in SUBSET S : s # {} =>
          op[<<Max(s), f[s \ {Max(s)}]>>] = Add(f[s \ {Max(s)}], records[Max(s)])
    <3> TAKE s \in SUBSET S
    <3> HAVE s # {}
    <3>1. Max(s) \in S
      BY <1>1, HighestIs
    <3>2. f[s \ {Max(s)}] \in A
      BY <2>2 DEF IsLeftFold
    <3> QED
      BY <3>1, <3>2
  <2> HIDE DEF op, S
  <2>4. IsIter(f)
    BY <2>2, <2>3 DEF S, IsLeftFold
  <2> QED
    BY <2>4
<1>5. IsIter(iter)
  <2> HIDE DEF IsIter
  <2> QED
    BY <1>4
<1>6. FoldLeft(Add, none, records) = iter[1 .. n]
  BY <1>1 DEF FoldLeft, MapThenFoldSet
<1> HIDE DEF iter
<1>7. iter[1 .. n] \in A
  <2>1. iter[{}] \in A
    BY <1>2, <1>5
  <2>2. \A s \in SUBSET (1 .. n) :
          s # {} /\ iter[s \ {Max(s)}] \in A => iter[s] \in A
    <3> TAKE s \in SUBSET (1 .. n)
    <3> HAVE s # {} /\ iter[s \ {Max(s)}] \in A
    <3>1. iter[s] = Add(iter[s \ {Max(s)}], records[Max(s)])
      BY <1>5
    <3>2. Max(s) \in S
      BY <1>1, HighestIs
    <3> QED
      BY <1>3, <3>1, <3>2
  <2> QED
    BY <1>1, <2>1, <2>2, LeftFoldIn
<1>8. compress_records(records) = IF all.open = <<>> THEN <<>>
                                  ELSE all.blocks \o compress_block(all.open)
  BY <1>6 DEF compress_records, Add, none
<1>9. all.blocks \in Seq(Blocks) /\ all.open \in Seq(HourRecs)
  BY <1>7 DEF A
<1> HIDE DEF all
<1>10. CASE all.open # <<>>
  <2>1. compress_block(all.open) \in Seq(Blocks)
    BY <1>9, <1>10, BlockFits DEF NonEmpty
  <2> QED
    BY <1>8, <1>9, <1>10, <2>1
<1> QED
  BY <1>8, <1>10

EarlierPlace(records) ==
  {p \in (DOMAIN records) \X (DOMAIN records) :
     \/ time_of(records[p[1]]) < time_of(records[p[2]])
     \/ time_of(records[p[1]]) = time_of(records[p[2]]) /\ p[1] < p[2]}

LEMMA SortedByTime ==
  ASSUME NEW records \in Seq(HourRecs)
  PROVE  ByTime(records) \in Seq(HourRecs)
<1> DEFINE S == DOMAIN records
           R == EarlierPlace(records)
           Earlier(i, j) == \/ time_of(records[i]) < time_of(records[j])
                            \/ time_of(records[i]) = time_of(records[j]) /\ i < j
           places == InOrder(S, Earlier)
<1>1. S = 1 .. Len(records) /\ Len(records) \in Nat
  OBVIOUS
<1>2. IsFiniteSet(S)
  BY <1>1, FS_Interval
<1>3. \A i \in S : time_of(records[i]) \in Int
  BY RecordsOfTheHour
<1>4. \A i, j \in S : Earlier(i, j) <=> <<i, j>> \in R
  <2> TAKE i \in S, j \in S
  <2>1. <<i, j>> \in S \X S /\ <<i, j>>[1] = i /\ <<i, j>>[2] = j
    OBVIOUS
  <2> QED
    BY <2>1 DEF EarlierPlace
<1>5. IsOrder(R, S)
  <2>1. \A i \in S : <<i, i>> \notin R
    BY <1>1, <1>3, <1>4
  <2>2. \A i, j \in S : i # j => <<i, j>> \in R \/ <<j, i>> \in R
    BY <1>1, <1>3, <1>4
  <2>3. \A i, j, k \in S : <<i, j>> \in R /\ <<j, k>> \in R => <<i, k>> \in R
    BY <1>1, <1>3, <1>4
  <2> HIDE DEF R, S
  <2> QED
    BY <2>1, <2>2, <2>3 DEF IsOrder
<1>6. places = [i \in 1 .. Cardinality(S) |-> CHOOSE x \in S : RankIn(R, S, x) = i - 1]
  <2>1. \A x \in S : {y \in S : Earlier(y, x)} = {y \in S : <<y, x>> \in R}
    BY <1>4
  <2> DEFINE At(i) == CHOOSE x \in S : Cardinality({y \in S : Earlier(y, x)}) = i - 1
             Ranked(i) == CHOOSE x \in S : RankIn(R, S, x) = i - 1
  <2> HIDE DEF R, S
  <2>2. \A i : At(i) = Ranked(i)
    BY <2>1 DEF RankIn
  <2>3. places = [i \in 1 .. Cardinality(S) |-> At(i)]
    BY DEF InOrder
  <2> HIDE DEF At, Ranked, places
  <2>4. places = [i \in 1 .. Cardinality(S) |-> Ranked(i)]
    BY <2>2, <2>3
  <2> QED
    BY <2>4 DEF Ranked
<1>7. Sorts(places, S, R)
  <2> HIDE DEF R, S, places
  <2> QED
    BY <1>2, <1>5, <1>6, SortedIs
<1> HIDE DEF places
<1>8. \A i \in S : places[i] \in S
  <2>1. Cardinality(S) = Len(records)
    BY <1>1, FS_Interval
  <2>2. Len(places) = Len(records) /\ places \in Seq(S)
    BY <1>7, <2>1 DEF Sorts
  <2> QED
    BY <1>1, <2>2
<1>9. ByTime(records) = [i \in DOMAIN records |-> records[places[i]]]
  BY DEF ByTime, places
<1>10. \A i \in 1 .. Len(records) : records[places[i]] \in HourRecs
  BY <1>1, <1>8
<1> QED
  BY <1>1, <1>9, <1>10

(* What a write brings of a second. *)
LEMMA RecordsOfASecond ==
  ASSUME NEW ids \in SUBSET AllRecords, IsFiniteSet(ids), NEW second \in Int
  PROVE  RecordsAt(ids, second) \in Seq(HourRecs)
<1> DEFINE T == {r \in ids : second_of(Data[r].time) = second}
           order == InOrder(T, <)
           records == [i \in 1 .. Cardinality(T) |-> AsItCame(order[i])]
<1>1. T \in SUBSET Int /\ IsFiniteSet(T)
  <2>1. \A r \in ids : r \in DOMAIN Data
    BY HourFileAssumption
  <2>2. \A r \in ids : r \in Int
    BY <2>1, MetricBlockAssumption
  <2> QED
    BY <2>2, FS_Subset
<1>2. Sorts(order, T, Smaller)
  BY <1>1, NumbersInOrder
<1> HIDE DEF order
<1>3. \A i \in 1 .. Cardinality(T) : order[i] \in AllRecords
  <2>1. order \in Seq(T) /\ Len(order) = Cardinality(T)
    BY <1>2 DEF Sorts
  <2>2. \A i \in 1 .. Cardinality(T) : order[i] \in T
    BY <2>1
  <2> QED
    BY <2>2
<1>4. \A i \in 1 .. Cardinality(T) : AsItCame(order[i]) \in HourRecs
  <2> TAKE i \in 1 .. Cardinality(T)
  <2>1. order[i] \in AllRecords /\ order[i] \in DOMAIN Data
    BY <1>3, HourFileAssumption
  <2>2. /\ Data[order[i]].text \in Nat /\ Data[order[i]].names \in Nat
        /\ Data[order[i]].tags \in Nat
    BY <2>1, MetricBlockAssumption
  <2> QED
    BY <2>1, <2>2 DEF AsItCame, HourRecs
<1>5. Cardinality(T) \in Nat
  BY <1>1, FS_CardinalityType
<1> HIDE DEF T
<1>6. records \in Seq(HourRecs)
  BY <1>4, <1>5
<1>7. RecordsAt(ids, second) = ByTime(records)
  BY DEF RecordsAt, order, T
<1> HIDE DEF records
<1> QED
  BY <1>6, <1>7, SortedByTime

-------------------------------------------------------------------------------
(* The lengths of entries, one after another. *)
LEMMA LengthsAre ==
  ASSUME NEW e \in Seq(Entries)
  PROVE  /\ LenOf(e, 0) = 0
         /\ \A n \in 0 .. Len(e) : LenOf(e, n) \in Nat
         /\ \A n \in 1 .. Len(e) : /\ LenOf(e, n) = LenOf(e, n - 1) + e[n].len
                                   /\ e[n].len \in Nat /\ e[n].len > 0
<1> DEFINE N == Len(e)
           IsUpTo(n, f) == f = [i \in 0 .. n |-> IF i = 0 THEN 0 ELSE f[i - 1] + e[i].len]
           op == [xa \in (1 .. N) \X Nat |-> xa[2] + e[xa[1]].len]
           upTo(n) == CHOOSE f : IsUpTo(n, f)
<1>1. N \in Nat /\ \A i \in 1 .. N : e[i].len \in Nat /\ e[i].len > 0
  BY DEF Entries
<1> HIDE DEF N
<1>2. \E f : IsUpTo(N, f) /\ f \in [0 .. N -> Nat]
  <2>1. op \in [(1 .. N) \X Nat -> Nat]
    BY <1>1
  <2>2. PICK f \in [0 .. N -> Nat] : IsRecursion(f, N, 0, op)
    <3> HIDE DEF op
    <3> QED
      BY <1>1, <2>1, RecursionExists
  <2>3. \A i \in 1 .. N : op[<<i, f[i - 1]>>] = f[i - 1] + e[i].len
    <3> TAKE i \in 1 .. N
    <3>1. f[i - 1] \in Nat
      BY <1>1
    <3> QED
      BY <3>1
  <2> HIDE DEF op
  <2>4. f = [i \in 0 .. N |-> IF i = 0 THEN 0 ELSE op[<<i, f[i - 1]>>]]
    BY <2>2 DEF IsRecursion
  <2>5. \A i \in 0 .. N : i # 0 => i \in 1 .. N
    BY <1>1
  <2>6. IsUpTo(N, f)
    BY <2>3, <2>4, <2>5
  <2> QED
    BY <2>6
<1>3. PICK s : IsUpTo(N, s) /\ s \in [0 .. N -> Nat]
  BY <1>2
<1>4. s[0] = 0 /\ \A i \in 1 .. N : s[i] = s[i - 1] + e[i].len
  BY <1>1, <1>3
<1>5. \A n \in 0 .. N : LenOf(e, n) = s[n]
  <2> TAKE n \in 0 .. N
  <2> DEFINE g == [i \in 0 .. n |-> s[i]]
             f == upTo(n)
  <2>1. IsUpTo(n, g)
    <3>1. \A i \in 0 .. n : g[i] = IF i = 0 THEN 0 ELSE g[i - 1] + e[i].len
      <4> TAKE i \in 0 .. n
      <4>1. CASE i = 0
        BY <1>4, <4>1
      <4>2. CASE i # 0
        <5>1. i \in 1 .. N /\ i - 1 \in 0 .. n
          BY <1>1, <4>2
        <5> QED
          BY <1>4, <4>2, <5>1
      <4> QED
        BY <4>1, <4>2
    <3> QED
      BY <3>1
  <2>2. IsUpTo(n, f)
    <3> HIDE DEF IsUpTo
    <3>1. \E h : IsUpTo(n, h)
      BY <2>1
    <3> QED
      BY <3>1
  <2>3. LenOf(e, n) = f[n]
    BY DEF LenOf
  <2> HIDE DEF f, upTo
  <2>4. n \in Nat /\ n <= N /\ f[0] = 0 /\ \A i \in 1 .. n : f[i] = f[i - 1] + e[i].len
    BY <1>1, <2>2
  <2> DEFINE Good == {i \in Nat : i <= n => f[i] = s[i]}
  <2>5. 0 \in Good
    BY <1>4, <2>4
  <2>6. ASSUME NEW i \in Good PROVE i + 1 \in Good
    <3>1. i \in Nat /\ i + 1 \in Nat /\ i + 1 - 1 = i
      OBVIOUS
    <3> SUFFICES ASSUME i + 1 <= n PROVE f[i + 1] = s[i + 1]
      BY <3>1
    <3>2. i + 1 \in 1 .. n /\ i + 1 \in 1 .. N /\ f[i] = s[i]
      BY <1>1, <2>4, <3>1
    <3>3. f[i + 1] = f[i] + e[i + 1].len
      BY <2>4, <3>1, <3>2
    <3>4. s[i + 1] = s[i] + e[i + 1].len
      BY <1>4, <3>1, <3>2
    <3> QED
      BY <3>2, <3>3, <3>4
  <2>7. Good = Nat
    <3> HIDE DEF Good
    <3>1. Good \subseteq Nat
      BY DEF Good
    <3> QED
      BY <2>5, <2>6, <3>1, NatInd
  <2> HIDE DEF Good
  <2>8. n \in Good
    BY <2>4, <2>7
  <2> QED
    BY <2>3, <2>4, <2>8 DEF Good
<1>6. \A n \in 1 .. N : n \in 0 .. N /\ n - 1 \in 0 .. N
  BY <1>1
<1>7. 0 \in 0 .. N
  BY <1>1
<1>8. LenOf(e, 0) = 0 /\ \A n \in 0 .. N : LenOf(e, n) \in Nat
  BY <1>3, <1>4, <1>5, <1>7
<1>9. \A n \in 1 .. N : LenOf(e, n) = LenOf(e, n - 1) + e[n].len
  BY <1>4, <1>5, <1>6
<1> QED
  BY <1>1, <1>8, <1>9 DEF N

LEMMA LengthsGrow ==
  ASSUME NEW e \in Seq(Entries)
  PROVE  \A n \in 0 .. Len(e) : \A m \in 0 .. n :
           LenOf(e, m) <= LenOf(e, n) /\ (m < n => LenOf(e, m) < LenOf(e, n))
<1> DEFINE N == Len(e)
           Below(n) == \A m \in 0 .. n : LenOf(e, m) <= LenOf(e, n) /\ (m < n => LenOf(e, m) < LenOf(e, n))
           Good == {n \in Nat : n <= N => Below(n)}
<1>1. N \in Nat
  OBVIOUS
<1>2. /\ \A n \in 0 .. N : LenOf(e, n) \in Nat
      /\ \A n \in 1 .. N : LenOf(e, n) = LenOf(e, n - 1) + e[n].len /\ e[n].len \in Nat /\ e[n].len > 0
  BY LengthsAre
<1> HIDE DEF N
<1>3. 0 \in Good
  <2>1. \A m \in 0 .. 0 : m = 0
    OBVIOUS
  <2>2. 0 \in 0 .. N
    BY <1>1
  <2>3. Below(0)
    BY <1>2, <2>1, <2>2
  <2> QED
    BY <2>3
<1>4. ASSUME NEW n \in Good PROVE n + 1 \in Good
  <2>1. n \in Nat /\ (n <= N => Below(n))
    OBVIOUS
  <2> SUFFICES ASSUME n + 1 <= N PROVE Below(n + 1)
    BY <2>1
  <2>2. n \in 0 .. N /\ n + 1 \in 1 .. N /\ Below(n) /\ n + 1 - 1 = n
    BY <1>1, <2>1
  <2>3. LenOf(e, n + 1) = LenOf(e, n) + e[n + 1].len /\ e[n + 1].len \in Nat /\ e[n + 1].len > 0
    BY <1>2, <2>2
  <2>4. LenOf(e, n) \in Nat
    BY <1>2, <2>2
  <2>5. LenOf(e, n) < LenOf(e, n + 1)
    BY <2>3, <2>4
  <2> TAKE m \in 0 .. n + 1
  <2>6. CASE m = n + 1
    BY <2>3, <2>4, <2>6
  <2>7. CASE m # n + 1
    <3>1. m \in 0 .. n /\ m \in 0 .. N
      BY <1>1, <2>2, <2>7
    <3>2. LenOf(e, m) <= LenOf(e, n) /\ LenOf(e, m) \in Nat
      BY <1>2, <2>2, <3>1
    <3> QED
      BY <2>3, <2>4, <2>5, <3>2
  <2> QED
    BY <2>6, <2>7
<1>5. Good = Nat
  <2> HIDE DEF Good
  <2>1. Good \subseteq Nat
    BY DEF Good
  <2> QED
    BY <1>3, <1>4, <2>1, NatInd
<1> HIDE DEF Good
<1>6. \A n \in 0 .. N : n \in Good /\ n <= N
  BY <1>1, <1>5
<1> QED
  BY <1>6 DEF Good, N

Whole(e) == LenOf(e, Len(e))

LEMMA LengthOfPart ==
  ASSUME NEW e \in Seq(Entries), NEW p \in 0 .. Len(e), NEW q \in p .. Len(e)
  PROVE  /\ SubSeq(e, p + 1, q) \in Seq(Entries) /\ Len(SubSeq(e, p + 1, q)) = q - p
         /\ Whole(SubSeq(e, p + 1, q)) = LenOf(e, q) - LenOf(e, p)
<1> DEFINE t == SubSeq(e, p + 1, q)
           Good == {k \in Nat : k <= q - p => LenOf(t, k) = LenOf(e, p + k) - LenOf(e, p)}
<1>1. p \in Nat /\ q \in Nat /\ p <= q /\ q <= Len(e) /\ Len(e) \in Nat /\ q \in 0 .. Len(e)
  OBVIOUS
<1>2. t \in Seq(Entries) /\ Len(t) = q - p /\ \A j \in 1 .. q - p : p + j \in 1 .. Len(e) /\ t[j] = e[p + j]
  <2>1. /\ t \in Seq(Entries) /\ Len(t) = (IF q < p THEN 0 ELSE q - p)
        /\ \A j \in 1 .. q - p : p + j \in 1 .. Len(e) /\ t[j] = e[p + j]
    BY <1>1, PartIs
  <2> QED
    BY <1>1, <2>1
<1> HIDE DEF t
<1>3. /\ \A n \in 0 .. Len(e) : LenOf(e, n) \in Nat
      /\ \A n \in 1 .. Len(e) : LenOf(e, n) = LenOf(e, n - 1) + e[n].len /\ e[n].len \in Nat
  BY LengthsAre
<1>4. /\ LenOf(t, 0) = 0
      /\ \A n \in 1 .. q - p : LenOf(t, n) = LenOf(t, n - 1) + t[n].len
  BY <1>2, LengthsAre
<1>5. 0 \in Good
  <2>1. p \in 0 .. Len(e) /\ p + 0 = p
    BY <1>1
  <2>2. LenOf(e, p) \in Nat
    BY <1>3, <2>1
  <2>3. LenOf(t, 0) = LenOf(e, p + 0) - LenOf(e, p)
    BY <1>4, <2>1, <2>2
  <2> QED
    BY <2>3
<1>6. ASSUME NEW k \in Good PROVE k + 1 \in Good
  <2>1. k \in Nat /\ (k <= q - p => LenOf(t, k) = LenOf(e, p + k) - LenOf(e, p))
    OBVIOUS
  <2> SUFFICES ASSUME k + 1 <= q - p PROVE LenOf(t, k + 1) = LenOf(e, p + (k + 1)) - LenOf(e, p)
    BY <2>1
  <2>2. k + 1 \in 1 .. q - p /\ k + 1 - 1 = k /\ k <= q - p
    BY <1>1, <2>1
  <2>3. p + (k + 1) \in 1 .. Len(e) /\ p + (k + 1) - 1 = p + k /\ p + k \in 0 .. Len(e)
    BY <1>1, <2>1
  <2>4. LenOf(t, k + 1) = LenOf(t, k) + t[k + 1].len
    BY <1>4, <2>2
  <2>5. LenOf(e, p + (k + 1)) = LenOf(e, p + k) + e[p + (k + 1)].len /\ e[p + (k + 1)].len \in Nat
    BY <1>3, <2>3
  <2>6. t[k + 1] = e[p + (k + 1)]
    BY <1>2, <2>2
  <2>7. LenOf(e, p + k) \in Nat /\ LenOf(e, p) \in Nat
    BY <1>1, <1>3, <2>3
  <2>8. LenOf(t, k) = LenOf(e, p + k) - LenOf(e, p)
    BY <2>1, <2>2
  <2> QED
    BY <2>4, <2>5, <2>6, <2>7, <2>8
<1>7. Good = Nat
  <2> HIDE DEF Good
  <2>1. Good \subseteq Nat
    BY DEF Good
  <2> QED
    BY <1>5, <1>6, <2>1, NatInd
<1> HIDE DEF Good
<1>8. q - p \in Good /\ q - p <= q - p /\ p + (q - p) = q
  BY <1>1, <1>7
<1>9. LenOf(t, q - p) = LenOf(e, q) - LenOf(e, p)
  BY <1>8 DEF Good
<1> QED
  BY <1>2, <1>9 DEF Whole, t

LEMMA LengthOfBoth ==
  ASSUME NEW x \in Seq(Entries), NEW y \in Seq(Entries)
  PROVE  x \o y \in Seq(Entries) /\ Whole(x \o y) = Whole(x) + Whole(y)
<1> DEFINE m == Len(x)
           n == Len(y)
           t == x \o y
           X == {k \in Nat : k <= m => LenOf(t, k) = LenOf(x, k)}
           Y == {k \in Nat : k <= n => LenOf(t, m + k) = LenOf(x, m) + LenOf(y, k)}
<1>1. /\ m \in Nat /\ n \in Nat /\ t \in Seq(Entries) /\ Len(t) = m + n
      /\ \A k \in 1 .. m : t[k] = x[k]
      /\ \A k \in 1 .. n : t[m + k] = y[k]
  OBVIOUS
<1>2. /\ LenOf(t, 0) = 0
      /\ \A k \in 1 .. m + n : LenOf(t, k) = LenOf(t, k - 1) + t[k].len
  BY <1>1, LengthsAre
<1>3. /\ LenOf(x, 0) = 0 /\ \A k \in 0 .. m : LenOf(x, k) \in Nat
      /\ \A k \in 1 .. m : LenOf(x, k) = LenOf(x, k - 1) + x[k].len /\ x[k].len \in Nat
  BY <1>1, LengthsAre
<1>4. /\ LenOf(y, 0) = 0 /\ \A k \in 0 .. n : LenOf(y, k) \in Nat
      /\ \A k \in 1 .. n : LenOf(y, k) = LenOf(y, k - 1) + y[k].len /\ y[k].len \in Nat
  BY <1>1, LengthsAre
<1> HIDE DEF m, n, t
<1>5. X = Nat
  <2>1. 0 \in X
    BY <1>2, <1>3
  <2>2. ASSUME NEW k \in X PROVE k + 1 \in X
    <3>1. k \in Nat /\ (k <= m => LenOf(t, k) = LenOf(x, k))
      OBVIOUS
    <3> SUFFICES ASSUME k + 1 <= m PROVE LenOf(t, k + 1) = LenOf(x, k + 1)
      BY <3>1
    <3>2. k + 1 \in 1 .. m /\ k + 1 \in 1 .. m + n /\ k + 1 - 1 = k /\ k <= m
      BY <1>1, <3>1
    <3>3. LenOf(t, k + 1) = LenOf(t, k) + t[k + 1].len
      BY <1>2, <3>2
    <3>4. LenOf(x, k + 1) = LenOf(x, k) + x[k + 1].len
      BY <1>3, <3>2
    <3>5. t[k + 1] = x[k + 1] /\ LenOf(t, k) = LenOf(x, k)
      BY <1>1, <3>1, <3>2
    <3> QED
      BY <3>3, <3>4, <3>5
  <2> HIDE DEF X
  <2>3. X \subseteq Nat
    BY DEF X
  <2> QED
    BY <2>1, <2>2, <2>3, NatInd
<1>6. LenOf(t, m) = LenOf(x, m)
  <2>1. m \in X /\ m <= m
    <3> HIDE DEF X
    <3> QED
      BY <1>1, <1>5
  <2> QED
    BY <2>1
<1>7. Y = Nat
  <2>0. LenOf(x, m) \in Nat
    BY <1>1, <1>3
  <2>1. 0 \in Y
    <3>1. m + 0 = m /\ LenOf(x, m) + 0 = LenOf(x, m)
      BY <1>1, <2>0
    <3> QED
      BY <1>4, <1>6, <3>1
  <2>2. ASSUME NEW k \in Y PROVE k + 1 \in Y
    <3>1. k \in Nat /\ (k <= n => LenOf(t, m + k) = LenOf(x, m) + LenOf(y, k))
      OBVIOUS
    <3> SUFFICES ASSUME k + 1 <= n PROVE LenOf(t, m + (k + 1)) = LenOf(x, m) + LenOf(y, k + 1)
      BY <3>1
    <3>2. k + 1 \in 1 .. n /\ m + (k + 1) \in 1 .. m + n /\ k + 1 - 1 = k /\ m + (k + 1) - 1 = m + k
          /\ k \in 0 .. n
      BY <1>1, <3>1
    <3>3. LenOf(t, m + (k + 1)) = LenOf(t, m + k) + t[m + (k + 1)].len
      <4>1. \A j \in 1 .. m + n : LenOf(t, j) = LenOf(t, j - 1) + t[j].len
        BY <1>2
      <4>2. PICK j : j = m + (k + 1)
        OBVIOUS
      <4>3. j \in 1 .. m + n /\ j - 1 = m + k
        BY <1>1, <3>1, <3>2, <4>2
      <4>4. LenOf(t, j) = LenOf(t, j - 1) + t[j].len
        BY <4>1, <4>3
      <4> QED
        BY <4>2, <4>3, <4>4
    <3>4. LenOf(y, k + 1) = LenOf(y, k) + y[k + 1].len /\ y[k + 1].len \in Nat /\ LenOf(y, k) \in Nat
      BY <1>4, <3>2
    <3>5. t[m + (k + 1)] = y[k + 1]
      BY <1>1, <3>2
    <3>6. LenOf(t, m + k) = LenOf(x, m) + LenOf(y, k)
      BY <3>1, <3>2
    <3> QED
      BY <2>0, <3>3, <3>4, <3>5, <3>6
  <2> HIDE DEF Y
  <2>3. Y \subseteq Nat
    BY DEF Y
  <2> QED
    BY <2>1, <2>2, <2>3, NatInd
<1>8. LenOf(t, m + n) = LenOf(x, m) + LenOf(y, n)
  <2>1. n \in Y /\ n <= n
    <3> HIDE DEF Y
    <3> QED
      BY <1>1, <1>7
  <2> QED
    BY <2>1
<1> QED
  BY <1>1, <1>8 DEF Whole, t, m, n

LEMMA LengthOfOne ==
  ASSUME NEW e \in Entries
  PROVE  <<e>> \in Seq(Entries) /\ Whole(<<e>>) = e.len /\ Whole(<<>>) = 0
<1>1. <<e>> \in Seq(Entries) /\ Len(<<e>>) = 1 /\ <<e>>[1] = e
  OBVIOUS
<1> DEFINE t == <<e>>
<1> HIDE DEF t
<1>7. t \in Seq(Entries) /\ Len(t) = 1 /\ t[1] = e
  BY <1>1 DEF t
<1>8. LenOf(t, 0) = 0 /\ \A n \in 1 .. Len(t) : LenOf(t, n) = LenOf(t, n - 1) + t[n].len
  BY <1>7, LengthsAre
<1>9. 1 \in 1 .. Len(t) /\ 1 - 1 = 0
  BY <1>7
<1>10. LenOf(t, 1) = LenOf(t, 1 - 1) + t[1].len
  BY <1>8, <1>9
<1>2. LenOf(<<e>>, 0) = 0 /\ LenOf(<<e>>, 1) = LenOf(<<e>>, 0) + e.len
  BY <1>7, <1>8, <1>9, <1>10 DEF t
<1>3. e.len \in Nat
  BY DEF Entries
<1>4. Whole(<<e>>) = LenOf(<<e>>, 1)
  BY <1>1 DEF Whole
<1>5. LenOf(<<e>>, 1) = e.len
  BY <1>1, <1>2, <1>3
<1>6. Whole(<<>>) = 0
  <2>1. <<>> \in Seq(Entries) /\ Len(<<>>) = 0
    OBVIOUS
  <2> QED
    BY <2>1, LengthsAre DEF Whole
<1> QED
  BY <1>1, <1>4, <1>5, <1>6

-------------------------------------------------------------------------------
(* The frames: entries, whatever they take; and the ones they fit into. *)
Loose == [entries : Seq(Entries), next : Int]
FrameSet == {f \in Loose : used(f) <= FRAME_CAPACITY}

LEMMA UsedIs ==
  ASSUME NEW f \in Loose
  PROVE  used(f) = Whole(f.entries) /\ used(f) \in Nat /\ f.entries \in Seq(Entries) /\ f.next \in Int
<1>1. f.entries \in Seq(Entries) /\ Len(f.entries) \in 0 .. Len(f.entries)
  BY DEF Loose
<1>2. Whole(f.entries) \in Nat
  BY <1>1, LengthsAre DEF Whole
<1> QED
  BY <1>1, <1>2 DEF used, Whole, Loose

LEMMA NewFrameIs ==
  NewFrame \in FrameSet /\ used(NewFrame) = 0 /\ NotAnEntry \in Entries
<1>1. NewFrame \in Loose /\ NewFrame.entries = <<>>
  BY DEF NewFrame, NoFrame, Loose
<1>2. NotAnEntry \in Entries
  BY DEF NotAnEntry, NoTime, Entries, IsEntry
<1>3. Whole(<<>>) = 0
  BY <1>2, LengthOfOne
<1>4. used(NewFrame) = 0
  BY <1>1, <1>3, UsedIs
<1> QED
  BY <1>1, <1>2, <1>4, FrameAssumption DEF FrameSet

LEMMA BeforeIs ==
  ASSUME NEW f \in Loose, NEW offset \in Int
  PROVE  /\ Before(f, offset) \in 0 .. Len(f.entries)
         /\ \A i \in 1 .. Len(f.entries) :
              Before(f, OffsetOf(f, i)) = i - 1 /\ OffsetOf(f, i) \in Int
<1> DEFINE e == f.entries
           N == Len(e)
           Lower(o) == {i \in DOMAIN e : OffsetOf(f, i) < o}
<1>1. e \in Seq(Entries) /\ N \in Nat /\ DOMAIN e = 1 .. N
  BY DEF Loose
<1>2. IsFiniteSet(1 .. N) /\ Cardinality(1 .. N) = N
  BY <1>1, FS_Interval
<1>3. Before(f, offset) \in 0 .. N
  <2>1. Lower(offset) \in SUBSET (1 .. N)
    BY <1>1
  <2>2. IsFiniteSet(Lower(offset)) /\ Cardinality(Lower(offset)) <= N
    BY <1>2, <2>1, FS_Subset
  <2>3. Cardinality(Lower(offset)) \in Nat
    BY <2>2, FS_CardinalityType
  <2> QED
    BY <1>1, <2>2, <2>3 DEF Before
<1>4. ASSUME NEW i \in 1 .. N
      PROVE  Before(f, OffsetOf(f, i)) = i - 1 /\ OffsetOf(f, i) \in Int
  <2>1. /\ \A n \in 0 .. N : LenOf(e, n) \in Nat
        /\ \A n \in 0 .. N : \A m \in 0 .. n :
             LenOf(e, m) <= LenOf(e, n) /\ (m < n => LenOf(e, m) < LenOf(e, n))
    BY <1>1, LengthsAre, LengthsGrow
  <2>2. \A j \in 1 .. N : OffsetOf(f, j) = FRAME_HEADER_LEN + LenOf(e, j - 1)
                         /\ LenOf(e, j - 1) \in Nat
    BY <1>1, <2>1 DEF OffsetOf
  <2>3. \A j \in 1 .. N : OffsetOf(f, j) < OffsetOf(f, i) <=> j < i
    <3> TAKE j \in 1 .. N
    <3>1. CASE j < i
      <4>1. i - 1 \in 0 .. N /\ j - 1 \in 0 .. i - 1 /\ j - 1 < i - 1
        BY <1>1, <3>1
      <4>2. LenOf(e, j - 1) < LenOf(e, i - 1)
        BY <2>1, <4>1
      <4> QED
        BY <2>2, <3>1, <4>2, FrameAssumption
    <3>2. CASE ~(j < i)
      <4>1. j - 1 \in 0 .. N /\ i - 1 \in 0 .. j - 1
        BY <1>1, <3>2
      <4>2. LenOf(e, i - 1) <= LenOf(e, j - 1)
        BY <2>1, <4>1
      <4> QED
        BY <2>2, <3>2, <4>2, FrameAssumption
    <3> QED
      BY <3>1, <3>2
  <2>4. Lower(OffsetOf(f, i)) = 1 .. i - 1
    <3> DEFINE o == OffsetOf(f, i)
    <3>1. \A j \in 1 .. N : OffsetOf(f, j) < o <=> j < i
      BY <2>3
    <3> HIDE DEF o, e, N
    <3>2. \A j : j \in 1 .. i - 1 <=> j \in 1 .. N /\ j < i
      BY <1>1
    <3>3. Lower(o) = 1 .. i - 1
      BY <1>1, <3>1, <3>2
    <3> QED
      BY <3>3 DEF o
  <2>5. Cardinality(1 .. i - 1) = i - 1
    BY <1>1, FS_Interval
  <2>6. OffsetOf(f, i) \in Int
    BY <2>2, FrameAssumption
  <2> QED
    BY <2>4, <2>5, <2>6 DEF Before
<1> QED
  BY <1>3, <1>4

(* Entries are put into a frame: what does not read is one byte there. *)
LEMMA InsertedIs ==
  ASSUME NEW f \in Loose, NEW offset \in Int, NEW more \in Seq(Entries),
         IsBoundary(f, offset) \/ Whole(more) > 0
  PROVE  /\ insert(f, offset, more) \in Loose
         /\ used(insert(f, offset, more)) <= used(f) + Whole(more)
<1> DEFINE e == f.entries
           N == Len(e)
           n == Before(f, offset)
           g == insert(f, offset, more)
           below == SubSeq(e, 1, n)
           above == SubSeq(e, n + 1, N)
<1>1. e \in Seq(Entries) /\ N \in Nat /\ n \in 0 .. N /\ used(f) = Whole(e) /\ used(f) \in Nat
  <2>1. e \in Seq(Entries) /\ used(f) = Whole(e) /\ used(f) \in Nat
    BY UsedIs
  <2>2. N \in Nat
    BY <2>1
  <2>3. n \in 0 .. N
    BY BeforeIs
  <2> QED
    BY <2>1, <2>2, <2>3
<1>2. Whole(more) \in Nat
  BY LengthsAre DEF Whole
<1>3. /\ \A k \in 0 .. N : LenOf(e, k) \in Nat
      /\ \A k \in 0 .. N : \A m \in 0 .. k :
           LenOf(e, m) <= LenOf(e, k) /\ (m < k => LenOf(e, m) < LenOf(e, k))
  BY <1>1, LengthsAre, LengthsGrow
<1>4. LenOf(e, 0) = 0
  BY <1>1, LengthsAre
<1>5. CASE IsBoundary(f, offset)
  <2>1. g = [f EXCEPT !.entries = below \o more \o above]
    BY <1>5 DEF insert
  <2>2. below \in Seq(Entries) /\ Whole(below) = LenOf(e, n) - LenOf(e, 0)
    <3>1. 0 \in 0 .. N /\ n \in 0 .. N /\ 0 + 1 = 1
      BY <1>1
    <3>2. SubSeq(e, 0 + 1, n) \in Seq(Entries) /\ Whole(SubSeq(e, 0 + 1, n)) = LenOf(e, n) - LenOf(e, 0)
      <4> HIDE DEF e, n, N
      <4> QED
        BY <1>1, <3>1, LengthOfPart DEF N
    <3> QED
      BY <3>2
  <2>3. above \in Seq(Entries) /\ Whole(above) = LenOf(e, N) - LenOf(e, n)
    <3> HIDE DEF e, n, N
    <3>1. n \in 0 .. Len(e) /\ N \in n .. Len(e)
      BY <1>1 DEF N
    <3> QED
      BY <1>1, <3>1, LengthOfPart
  <2> HIDE DEF below, above, g, n
  <2>4. below \o more \in Seq(Entries) /\ Whole(below \o more) = Whole(below) + Whole(more)
    BY <2>2, LengthOfBoth
  <2>5. /\ below \o more \o above \in Seq(Entries)
        /\ Whole(below \o more \o above) = Whole(below \o more) + Whole(above)
    BY <2>3, <2>4, LengthOfBoth
  <2>6. g \in Loose /\ g.entries = below \o more \o above
    BY <2>1, <2>5 DEF Loose
  <2>7. used(g) = Whole(below \o more) + Whole(above)
    BY <2>5, <2>6, UsedIs
  <2>8. Whole(e) = LenOf(e, N) /\ LenOf(e, n) \in Nat /\ LenOf(e, N) \in Nat
    BY <1>1, <1>3 DEF Whole
  <2>9. used(g) = used(f) + Whole(more)
    <3> HIDE DEF e, N
    <3> QED
      BY <1>1, <1>2, <1>4, <2>2, <2>3, <2>4, <2>7, <2>8
  <2> QED
    BY <1>1, <1>2, <2>6, <2>9 DEF g
<1>6. CASE ~IsBoundary(f, offset)
  <2> DEFINE kept == SubSeq(e, 1, n - 1)
  <2>1. g = [f EXCEPT !.entries = Append(kept, NotAnEntry)]
    BY <1>6 DEF insert
  <2>2. kept \in Seq(Entries) /\ Whole(kept) \in Nat /\ Whole(kept) + 1 <= Whole(e) + Whole(more)
    <3>1. CASE n = 0
      <4>1. kept = <<>>
        BY <1>1, <3>1
      <4>2. Whole(<<>>) = 0
        BY NewFrameIs, LengthOfOne
      <4> HIDE DEF kept, e, N, n
      <4> QED
        BY <1>1, <1>2, <1>6, <4>1, <4>2
    <3>2. CASE n # 0
      <4>1. 0 \in 0 .. N /\ n - 1 \in 0 .. N /\ n - 1 \in 0 .. n /\ n - 1 < n /\ 0 + 1 = 1 /\ n \in 0 .. N
            /\ N \in 0 .. N
        BY <1>1, <3>2
      <4>2. SubSeq(e, 0 + 1, n - 1) \in Seq(Entries)
            /\ Whole(SubSeq(e, 0 + 1, n - 1)) = LenOf(e, n - 1) - LenOf(e, 0)
        <5> HIDE DEF e, n, N
        <5> QED
          BY <1>1, <4>1, LengthOfPart DEF N
      <4>3. LenOf(e, n - 1) < LenOf(e, n) /\ LenOf(e, n) <= LenOf(e, N)
        BY <1>1, <1>3, <4>1
      <4>4. LenOf(e, n - 1) \in Nat /\ LenOf(e, n) \in Nat /\ LenOf(e, N) \in Nat
        BY <1>3, <4>1
      <4>5. Whole(e) = LenOf(e, N)
        BY DEF Whole
      <4>6. kept \in Seq(Entries) /\ Whole(kept) = LenOf(e, n - 1) - LenOf(e, 0)
        BY <4>2
      <4> HIDE DEF kept, e, N, n
      <4> QED
        BY <1>2, <1>4, <4>3, <4>4, <4>5, <4>6
    <3> QED
      BY <3>1, <3>2
  <2> HIDE DEF kept, g
  <2>8. NotAnEntry.len = 1
    BY DEF NotAnEntry
  <2>3. Append(kept, NotAnEntry) = kept \o <<NotAnEntry>> /\ NotAnEntry.len = 1
    <3> DEFINE entry == NotAnEntry
    <3>1. entry \in Entries
      BY NewFrameIs
    <3> HIDE DEF entry
    <3>2. Append(kept, entry) = kept \o <<entry>>
      BY <2>2, <3>1
    <3> QED
      BY <2>8, <3>2 DEF entry
  <2>4. <<NotAnEntry>> \in Seq(Entries) /\ Whole(<<NotAnEntry>>) = 1
    BY <2>3, NewFrameIs, LengthOfOne
  <2>5. /\ Append(kept, NotAnEntry) \in Seq(Entries)
        /\ Whole(Append(kept, NotAnEntry)) = Whole(kept) + 1
    BY <2>2, <2>3, <2>4, LengthOfBoth
  <2>6. g \in Loose /\ g.entries = Append(kept, NotAnEntry)
    BY <2>1, <2>5 DEF Loose
  <2>7. used(g) = Whole(kept) + 1
    BY <2>5, <2>6, UsedIs
  <2> QED
    BY <1>1, <2>2, <2>6, <2>7 DEF g
<1> QED
  BY <1>5, <1>6

LEMMA NoEntries == <<>> \in Seq(Entries) /\ Whole(<<>>) = 0
<1>1. Whole(<<>>) = 0
  BY NewFrameIs, LengthOfOne
<1> QED
  BY <1>1

LEMMA PartsOfEntries ==
  ASSUME NEW e \in Seq(Entries), NEW n \in 0 .. Len(e)
  PROVE  /\ SubSeq(e, 1, n) \in Seq(Entries) /\ Whole(SubSeq(e, 1, n)) = LenOf(e, n)
         /\ SubSeq(e, n + 1, Len(e)) \in Seq(Entries)
         /\ Whole(SubSeq(e, n + 1, Len(e))) = Whole(e) - LenOf(e, n)
         /\ LenOf(e, n) \in Nat /\ Whole(e) \in Nat /\ LenOf(e, n) <= Whole(e)
         /\ (n < Len(e) => LenOf(e, n) < Whole(e))
<1> DEFINE N == Len(e)
<1>1. N \in Nat /\ 0 \in 0 .. N /\ n \in 0 .. N /\ N \in n .. N /\ 0 + 1 = 1 /\ N \in 0 .. N
  OBVIOUS
<1>2. LenOf(e, n) \in Nat /\ LenOf(e, N) \in Nat /\ LenOf(e, 0) = 0
  BY <1>1, LengthsAre
<1>3. SubSeq(e, 0 + 1, n) \in Seq(Entries) /\ Whole(SubSeq(e, 0 + 1, n)) = LenOf(e, n) - LenOf(e, 0)
  BY <1>1, LengthOfPart
<1>4. /\ SubSeq(e, n + 1, N) \in Seq(Entries)
      /\ Whole(SubSeq(e, n + 1, N)) = LenOf(e, N) - LenOf(e, n)
  BY <1>1, LengthOfPart
<1>5. LenOf(e, n) <= LenOf(e, N) /\ (n < N => LenOf(e, n) < LenOf(e, N))
  BY <1>1, LengthsGrow
<1>6. Whole(e) = LenOf(e, N)
  BY DEF Whole
<1>7. LenOf(e, n) - LenOf(e, 0) = LenOf(e, n)
  BY <1>2
<1>8. SubSeq(e, 1, n) \in Seq(Entries) /\ Whole(SubSeq(e, 1, n)) = LenOf(e, n)
  BY <1>1, <1>3, <1>7
<1> QED
  BY <1>2, <1>4, <1>5, <1>6, <1>8

(* Other entries in a frame. *)
LEMMA OtherEntries ==
  ASSUME NEW f \in Loose, NEW e \in Seq(Entries)
  PROVE  /\ [f EXCEPT !.entries = e] \in Loose
         /\ used([f EXCEPT !.entries = e]) = Whole(e)
         /\ \A next \in Int : [entries |-> e, next |-> next] \in Loose
                              /\ used([entries |-> e, next |-> next]) = Whole(e)
         /\ \A next \in Int : [f EXCEPT !.next = next] \in Loose
                              /\ used([f EXCEPT !.next = next]) = used(f)
<1>1. /\ [f EXCEPT !.entries = e] \in Loose /\ [f EXCEPT !.entries = e].entries = e
      /\ \A next \in Int : [entries |-> e, next |-> next] \in Loose
      /\ \A next \in Int : [f EXCEPT !.next = next] \in Loose
                           /\ [f EXCEPT !.next = next].entries = f.entries
  BY DEF Loose
<1> QED
  BY <1>1, UsedIs

LEMMA RemovedIs ==
  ASSUME NEW f \in Loose, NEW offset \in Int
  PROVE  remove(f, offset) \in Loose /\ used(remove(f, offset)) <= used(f)
<1> DEFINE e == f.entries
           N == Len(e)
           n == Before(f, offset)
           rest == SubSeq(e, n + 1 + 1, N)
           below == SubSeq(e, 1, n)
<1>1. e \in Seq(Entries) /\ n \in 0 .. N /\ used(f) = Whole(e) /\ N \in Nat
  <2>1. e \in Seq(Entries) /\ used(f) = Whole(e)
    BY UsedIs
  <2> QED
    BY <2>1, BeforeIs
<1>2. remove(f, offset) = [f EXCEPT !.entries = SubSeq(e, 1, n + 1 - 1) \o rest]
  <2>1. RemoveAt(e, n + 1) = SubSeq(e, 1, n + 1 - 1) \o rest
    <3> DEFINE i == n + 1
    <3> HIDE DEF e, n, i
    <3>1. RemoveAt(e, i) = SubSeq(e, 1, i - 1) \o SubSeq(e, i + 1, Len(e))
      BY ZenonT(30) DEF RemoveAt
    <3>2. n \in Nat /\ i = n + 1
      BY <1>1 DEF i
    <3>3. SubSeq(e, 1, i - 1) = SubSeq(e, 1, n + 1 - 1) /\ SubSeq(e, i + 1, Len(e)) = SubSeq(e, n + 1 + 1, N)
      BY <3>2
    <3>4. RemoveAt(e, n + 1) = RemoveAt(e, i)
      BY <3>2
    <3> HIDE DEF N
    <3> QED
      BY <3>1, <3>3, <3>4 DEF N
  <2>2. remove(f, offset) = [f EXCEPT !.entries = RemoveAt(e, n + 1)]
    BY DEF remove
  <2> HIDE DEF e, n, rest
  <2> QED
    BY <2>1, <2>2
<1> HIDE DEF e, n
<1>3. n + 1 - 1 = n
  BY <1>1
<1>4. below \in Seq(Entries) /\ Whole(below) = LenOf(e, n) /\ Whole(e) \in Nat
      /\ LenOf(e, n) \in Nat /\ LenOf(e, n) <= Whole(e)
  BY <1>1, PartsOfEntries
<1>5. rest \in Seq(Entries) /\ Whole(rest) \in Nat /\ LenOf(e, n) + Whole(rest) <= Whole(e)
  <2>1. CASE n < N
    <3>1. n + 1 \in 0 .. N /\ n \in 0 .. n + 1 /\ n < n + 1
      BY <1>1, <2>1
    <3>2. rest \in Seq(Entries) /\ Whole(rest) = Whole(e) - LenOf(e, n + 1)
          /\ LenOf(e, n + 1) \in Nat /\ LenOf(e, n + 1) <= Whole(e)
      BY <1>1, <3>1, PartsOfEntries
    <3>3. LenOf(e, n) <= LenOf(e, n + 1)
      BY <1>1, <3>1, LengthsGrow
    <3> HIDE DEF rest, N
    <3> QED
      BY <1>4, <3>2, <3>3
  <2>2. CASE n = N
    <3>1. rest = <<>>
      BY <1>1, <2>2
    <3>2. Whole(<<>>) = 0 /\ <<>> \in Seq(Entries)
      BY NoEntries
    <3> HIDE DEF rest
    <3> QED
      BY <1>4, <3>1, <3>2
  <2> QED
    BY <1>1, <2>1, <2>2
<1> HIDE DEF below, rest
<1>6. below \o rest \in Seq(Entries) /\ Whole(below \o rest) = Whole(below) + Whole(rest)
  BY <1>4, <1>5, LengthOfBoth
<1>7. remove(f, offset) = [f EXCEPT !.entries = below \o rest]
  BY <1>2, <1>3 DEF below
<1>8. remove(f, offset) \in Loose /\ used(remove(f, offset)) = Whole(below \o rest)
  <2> DEFINE all == below \o rest
  <2>1. all \in Seq(Entries) /\ remove(f, offset) = [f EXCEPT !.entries = all]
    BY <1>6, <1>7
  <2> HIDE DEF all
  <2>2. [f EXCEPT !.entries = all] \in Loose /\ used([f EXCEPT !.entries = all]) = Whole(all)
    BY <2>1, OtherEntries
  <2> QED
    BY <2>1, <2>2 DEF all
<1> QED
  BY <1>1, <1>4, <1>5, <1>6, <1>8

LEMMA SplitIs ==
  ASSUME NEW f \in Loose, NEW i \in 1 .. Len(f.entries)
  PROVE  LET boundary == OffsetOf(f, i)
         IN  /\ split_off(f, boundary) \in Loose
             /\ used(split_off(f, boundary)) = boundary - FRAME_HEADER_LEN
             /\ SplitOffEntries(f, boundary) \in Seq(Entries)
             /\ Whole(SplitOffEntries(f, boundary)) = records_end(f) - boundary
             /\ Whole(SplitOffEntries(f, boundary)) > 0
<1> DEFINE e == f.entries
           N == Len(e)
           b == OffsetOf(f, i)
<1>1. e \in Seq(Entries) /\ used(f) = Whole(e) /\ N \in Nat /\ i - 1 \in 0 .. N /\ i - 1 < N
      /\ i - 1 + 1 = i
  <2>1. e \in Seq(Entries) /\ used(f) = Whole(e)
    BY UsedIs
  <2> QED
    BY <2>1
<1>2. Before(f, b) = i - 1 /\ b \in Int
  BY BeforeIs
<1>3. b = FRAME_HEADER_LEN + LenOf(e, i - 1)
  BY DEF OffsetOf
<1>4. /\ SubSeq(e, 1, i - 1) \in Seq(Entries) /\ Whole(SubSeq(e, 1, i - 1)) = LenOf(e, i - 1)
      /\ SubSeq(e, i - 1 + 1, N) \in Seq(Entries)
      /\ Whole(SubSeq(e, i - 1 + 1, N)) = Whole(e) - LenOf(e, i - 1)
      /\ LenOf(e, i - 1) \in Nat /\ Whole(e) \in Nat /\ LenOf(e, i - 1) < Whole(e)
  BY <1>1, PartsOfEntries
<1>5. split_off(f, b) = [f EXCEPT !.entries = SubSeq(e, 1, i - 1)]
  BY <1>2 DEF split_off
<1>6. SplitOffEntries(f, b) = SubSeq(e, i - 1 + 1, N)
  BY <1>2 DEF SplitOffEntries
<1> HIDE DEF b, e, N
<1>7. split_off(f, b) \in Loose /\ used(split_off(f, b)) = LenOf(e, i - 1)
  BY <1>4, <1>5, OtherEntries
<1>8. LenOf(e, i - 1) = b - FRAME_HEADER_LEN
  BY <1>3, <1>4, FrameAssumption
<1>9. Whole(e) - LenOf(e, i - 1) = records_end(f) - b /\ Whole(e) - LenOf(e, i - 1) > 0
  <2>1. records_end(f) = FRAME_HEADER_LEN + Whole(e)
    BY <1>1 DEF records_end
  <2> QED
    BY <1>3, <1>4, <2>1, FrameAssumption
<1> QED
  BY <1>4, <1>6, <1>7, <1>8, <1>9 DEF b

(* What a write which was torn leaves takes what it was to take. *)
LEMMA TornIs ==
  ASSUME NEW f \in Loose, NEW n \in 1 .. Len(f.entries)
  PROVE  Torn(f, n) \in Loose /\ used(Torn(f, n)) = used(f)
<1> DEFINE e == f.entries
           N == Len(e)
           cut == [e[n] EXCEPT !.records = <<>>, !.reads = FALSE]
           rest == [NotAnEntry EXCEPT !.len = LenOf(e, N) - LenOf(e, n)]
           kept == SubSeq(e, 1, n - 1)
           end == IF n = N THEN <<>> ELSE <<rest>>
<1>1. e \in Seq(Entries) /\ used(f) = Whole(e) /\ N \in Nat /\ e[n] \in Entries
      /\ n - 1 \in 0 .. N /\ n \in 0 .. N /\ n \in 1 .. N
  <2>1. e \in Seq(Entries) /\ used(f) = Whole(e)
    BY UsedIs
  <2> QED
    BY <2>1
<1> HIDE DEF e, N
<1>2. cut \in Entries /\ cut.len = e[n].len
  <2> DEFINE x == e[n]
  <2>1. x \in Entries
    BY <1>1
  <2> HIDE DEF x
  <2> DEFINE c == [x EXCEPT !.records = <<>>, !.reads = FALSE]
  <2>2. x \in [time : Int, len : Nat \ {0}, records : Seq(HourRecs), reads : BOOLEAN]
    BY <2>1 DEF Entries
  <2>3. c \in [time : Int, len : Nat \ {0}, records : Seq(HourRecs), reads : BOOLEAN]
        /\ c.reads = FALSE /\ c.len = x.len /\ c.time = x.time
    <3>1. <<>> \in Seq(HourRecs) /\ FALSE \in BOOLEAN
      OBVIOUS
    <3> QED
      BY <2>2, <3>1
  <2> HIDE DEF c
  <2>4. c \in Entries /\ c.len = x.len
    BY <2>1, <2>3 DEF Entries, IsEntry
  <2> QED
    BY <2>4 DEF c, x
<1>3. kept \in Seq(Entries) /\ Whole(kept) = LenOf(e, n - 1)
  BY <1>1, PartsOfEntries DEF N
<1>4. /\ LenOf(e, n) = LenOf(e, n - 1) + e[n].len /\ e[n].len \in Nat
      /\ LenOf(e, n - 1) \in Nat /\ LenOf(e, n) \in Nat
  BY <1>1, LengthsAre DEF N
<1>5. Whole(e) = LenOf(e, N) /\ Whole(e) \in Nat /\ (n < N => LenOf(e, n) < Whole(e))
  BY <1>1, PartsOfEntries DEF N, Whole
<1>6. end \in Seq(Entries) /\ Whole(end) = Whole(e) - LenOf(e, n)
  <2>1. CASE n = N
    <3>1. Whole(<<>>) = 0 /\ <<>> \in Seq(Entries)
      BY NoEntries
    <3> QED
      BY <1>4, <1>5, <2>1, <3>1
  <2>2. CASE n # N
    <3>1. LenOf(e, N) - LenOf(e, n) \in Nat \ {0}
      BY <1>1, <1>4, <1>5, <2>2
    <3>2. rest \in Entries /\ rest.len = LenOf(e, N) - LenOf(e, n)
      <4> DEFINE len == LenOf(e, N) - LenOf(e, n)
      <4>1. len \in Nat \ {0}
        BY <3>1
      <4> HIDE DEF len
      <4> DEFINE c == [NotAnEntry EXCEPT !.len = len]
      <4>3. c = rest
        BY DEF len
      <4>5. c = [NotAnEntry EXCEPT !.len = len]
        OBVIOUS
      <4> HIDE DEF c
      <4>2. c = [time |-> -1, len |-> len, records |-> <<>>, reads |-> FALSE]
        BY <4>5 DEF NotAnEntry, NoTime
      <4>4. c \in Entries /\ c.len = len
        BY <4>1, <4>2 DEF Entries, IsEntry, NoTime
      <4> HIDE DEF rest
      <4> QED
        BY <4>3, <4>4 DEF len
    <3> HIDE DEF rest
    <3>3. <<rest>> \in Seq(Entries) /\ Whole(<<rest>>) = rest.len
      BY <3>2, LengthOfOne
    <3> QED
      BY <1>5, <2>2, <3>2, <3>3
  <2> QED
    BY <2>1, <2>2
<1> HIDE DEF cut, rest, kept, end
<1>7. Append(kept, cut) = kept \o <<cut>> /\ <<cut>> \in Seq(Entries) /\ Whole(<<cut>>) = cut.len
  <2>1. Append(kept, cut) = kept \o <<cut>>
    BY <1>2, <1>3
  <2> QED
    BY <1>2, <2>1, LengthOfOne
<1>8. Append(kept, cut) \in Seq(Entries) /\ Whole(Append(kept, cut)) = LenOf(e, n)
  <2>1. kept \o <<cut>> \in Seq(Entries) /\ Whole(kept \o <<cut>>) = Whole(kept) + Whole(<<cut>>)
    BY <1>3, <1>7, LengthOfBoth
  <2> QED
    BY <1>2, <1>3, <1>4, <1>7, <2>1
<1>9. /\ Append(kept, cut) \o end \in Seq(Entries)
      /\ Whole(Append(kept, cut) \o end) = Whole(Append(kept, cut)) + Whole(end)
  BY <1>6, <1>8, LengthOfBoth
<1>10. Whole(Append(kept, cut) \o end) = Whole(e)
  BY <1>4, <1>5, <1>6, <1>8, <1>9
<1>11. Torn(f, n) = [f EXCEPT !.entries = Append(kept, cut) \o end]
  BY DEF Torn, cut, rest, kept, end, e, N
<1> QED
  BY <1>1, <1>9, <1>10, <1>11, OtherEntries

LEMMA EndedIs ==
  ASSUME NEW f \in Loose
  PROVE  Ended(f) \in Loose /\ used(Ended(f)) <= used(f) /\ Ended(f).next = NoFrame
<1> DEFINE e == f.entries
           n == Cardinality(Reading(f))
<1>1. e \in Seq(Entries) /\ used(f) = Whole(e)
  BY UsedIs
<1>2. n \in 0 .. Len(e)
  <2>1. DOMAIN e = 1 .. Len(e) /\ Len(e) \in Nat
    BY <1>1
  <2>2. IsFiniteSet(1 .. Len(e)) /\ Cardinality(1 .. Len(e)) = Len(e)
    BY <2>1, FS_Interval
  <2>3. Reading(f) \in SUBSET (1 .. Len(e))
    BY <2>1 DEF Reading
  <2>4. IsFiniteSet(Reading(f)) /\ Cardinality(Reading(f)) <= Len(e)
    BY <2>2, <2>3, FS_Subset
  <2>5. Cardinality(Reading(f)) \in Nat
    BY <2>4, FS_CardinalityType
  <2> QED
    BY <2>1, <2>4, <2>5
<1>3. Ended(f) = [entries |-> SubSeq(e, 1, n), next |-> NoFrame]
  BY DEF Ended
<1> HIDE DEF e, n
<1>4. SubSeq(e, 1, n) \in Seq(Entries) /\ Whole(SubSeq(e, 1, n)) <= Whole(e)
  BY <1>1, <1>2, PartsOfEntries
<1>5. NoFrame \in Int
  BY DEF NoFrame
<1> QED
  <2>1. Ended(f) \in Loose /\ used(Ended(f)) = Whole(SubSeq(e, 1, n))
    BY <1>3, <1>4, <1>5, OtherEntries
  <2>2. Ended(f).next = NoFrame
    BY <1>3
  <2> QED
    BY <1>1, <1>4, <2>1, <2>2

-------------------------------------------------------------------------------
(* The frames of an hour: some numbers, and the frame of each. *)
SomeFrames == {S \in SUBSET Nat : IsFiniteSet(S)}
FrameMaps == UNION {[S -> FrameSet] : S \in SomeFrames}

LEMMA FramesAre ==
  /\ \A F \in FrameMaps : /\ DOMAIN F \in SomeFrames /\ F \in [DOMAIN F -> FrameSet]
                          /\ \A f \in DOMAIN F : F[f] \in FrameSet /\ f \in Nat
  /\ \A S \in SomeFrames : \A F \in [S -> FrameSet] : F \in FrameMaps
  /\ <<>> \in FrameMaps
<1>1. \A F \in FrameMaps : /\ DOMAIN F \in SomeFrames /\ F \in [DOMAIN F -> FrameSet]
                           /\ \A f \in DOMAIN F : F[f] \in FrameSet /\ f \in Nat
  <2> TAKE F \in FrameMaps
  <2>1. PICK S \in SomeFrames : F \in [S -> FrameSet]
    BY DEF FrameMaps
  <2>2. DOMAIN F = S /\ S \in SUBSET Nat
    BY <2>1 DEF SomeFrames
  <2> QED
    BY <2>1, <2>2
<1>2. \A S \in SomeFrames : \A F \in [S -> FrameSet] : F \in FrameMaps
  BY DEF FrameMaps
<1>3. {} \in SomeFrames
  BY FS_EmptySet DEF SomeFrames
<1>4. <<>> \in [{} -> FrameSet]
  OBVIOUS
<1> QED
  BY <1>1, <1>2, <1>3, <1>4

LEMMA FrameIsPut ==
  ASSUME NEW F \in FrameMaps, NEW k \in Nat, NEW f \in FrameSet
  PROVE  Updated(F, k, f) \in FrameMaps /\ DOMAIN Updated(F, k, f) = DOMAIN F \union {k}
<1> DEFINE S == DOMAIN F \union {k}
<1>1. DOMAIN F \in SUBSET Nat /\ IsFiniteSet(DOMAIN F) /\ \A x \in DOMAIN F : F[x] \in FrameSet
  BY FramesAre DEF SomeFrames
<1>2. S \in SomeFrames
  <2>1. IsFiniteSet(S)
    BY <1>1, FS_AddElement
  <2> QED
    BY <1>1, <2>1 DEF SomeFrames
<1>3. Updated(F, k, f) \in [S -> FrameSet]
  BY <1>1 DEF Updated
<1> QED
  BY <1>2, <1>3, FramesAre

LEMMA FramesRead ==
  ASSUME NEW h, NEW d, h.frames \in FrameMaps, d.frames \in FrameMaps
  PROVE  LET F == FramesOf(h, d)
         IN  /\ F \in FrameMaps
             /\ DOMAIN h.frames \subseteq DOMAIN F
             /\ DOMAIN F \subseteq DOMAIN h.frames \union DOMAIN d.frames
             /\ \A f \in DOMAIN F : f \notin DOMAIN h.frames => F[f] = d.frames[f]
<1> DEFINE written == {f \in DOMAIN d.frames : /\ FileOf(f) \in DOMAIN h.files
                                               /\ IndexIn(f) < h.files[FileOf(f)].onDisk}
           S == DOMAIN h.frames \union written
           F == FramesOf(h, d)
<1>1. written \subseteq DOMAIN d.frames
  OBVIOUS
<1>2. F = [f \in S |-> IF f \in DOMAIN h.frames THEN h.frames[f] ELSE d.frames[f]]
  BY DEF FramesOf
<1> HIDE DEF written, F
<1>3. /\ DOMAIN h.frames \in SUBSET Nat /\ IsFiniteSet(DOMAIN h.frames)
      /\ \A x \in DOMAIN h.frames : h.frames[x] \in FrameSet
  BY FramesAre DEF SomeFrames
<1>4. /\ DOMAIN d.frames \in SUBSET Nat /\ IsFiniteSet(DOMAIN d.frames)
      /\ \A x \in DOMAIN d.frames : d.frames[x] \in FrameSet
  BY FramesAre DEF SomeFrames
<1>5. S \in SomeFrames
  <2>1. IsFiniteSet(written)
    BY <1>1, <1>4, FS_Subset
  <2>2. IsFiniteSet(S)
    BY <1>3, <2>1, FS_Union
  <2> QED
    BY <1>1, <1>3, <1>4, <2>2 DEF SomeFrames
<1>6. F \in [S -> FrameSet]
  BY <1>1, <1>2, <1>3, <1>4
<1>7. F \in FrameMaps /\ DOMAIN F = S
  BY <1>5, <1>6, FramesAre
<1>8. \A f \in DOMAIN F : f \notin DOMAIN h.frames => F[f] = d.frames[f]
  BY <1>2
<1>9. DOMAIN h.frames \subseteq DOMAIN F /\ DOMAIN F \subseteq DOMAIN h.frames \union DOMAIN d.frames
  BY <1>1, <1>7
<1> HIDE DEF S
<1> QED
  BY <1>7, <1>8, <1>9 DEF F

-------------------------------------------------------------------------------
(* A chain: frames which read, each once, each going on in the next one. *)
IsChain(F, c) ==
  /\ c # <<>>
  /\ \A i, j \in 1 .. Len(c) : c[i] = c[j] => i = j
  /\ \A i \in 1 .. Len(c) - 1 : F[c[i]].next = c[i + 1]
ChainsFrom(F, frame) == {c \in Seq(DOMAIN F) : IsChain(F, c) /\ c[1] = frame}
OneMore(F, before) ==
  LET next == F[Last(before)].next
  IN  IF next \in DOMAIN F \ Range(before) THEN Append(before, next) ELSE before

LEMMA OneMoreIsAChain ==
  ASSUME NEW F, NEW frame, NEW c \in ChainsFrom(F, frame)
  PROVE  OneMore(F, c) \in ChainsFrom(F, frame)
<1> DEFINE next == F[Last(c)].next
           n == Len(c)
<1>1. c \in Seq(DOMAIN F) /\ IsChain(F, c) /\ c[1] = frame /\ n \in Nat /\ n > 0 /\ Last(c) = c[n]
  BY DEF ChainsFrom, IsChain, Last
<1>2. CASE next \in DOMAIN F \ Range(c)
  <2> DEFINE l == Append(c, next)
  <2>1. l \in Seq(DOMAIN F) /\ Len(l) = n + 1 /\ l[n + 1] = next /\ \A i \in 1 .. n : l[i] = c[i]
    BY <1>1, <1>2
  <2>2. \A i \in 1 .. n : c[i] # next
    BY <1>1, <1>2 DEF Range
  <2>3. OneMore(F, c) = l
    BY <1>2 DEF OneMore
  <2> HIDE DEF l
  <2>4. l # <<>> /\ l[1] = frame
    BY <1>1, <2>1
  <2>5. \A i, j \in 1 .. n + 1 : l[i] = l[j] => i = j
    <3> TAKE i, j \in 1 .. n + 1
    <3> HAVE l[i] = l[j]
    <3>1. CASE i = n + 1 \/ j = n + 1
      BY <1>1, <2>1, <2>2, <3>1
    <3>2. CASE i # n + 1 /\ j # n + 1
      <4>1. i \in 1 .. n /\ j \in 1 .. n
        BY <1>1, <3>2
      <4> QED
        BY <1>1, <2>1, <4>1 DEF IsChain
    <3> QED
      BY <3>1, <3>2
  <2>6. \A i \in 1 .. n : F[l[i]].next = l[i + 1]
    <3> TAKE i \in 1 .. n
    <3>1. CASE i = n
      BY <1>1, <2>1, <3>1
    <3>2. CASE i # n
      <4>1. i \in 1 .. n - 1 /\ i + 1 \in 1 .. n
        BY <1>1, <3>2
      <4> QED
        BY <1>1, <2>1, <4>1 DEF IsChain
    <3> QED
      BY <3>1, <3>2
  <2> QED
    BY <1>1, <2>1, <2>3, <2>4, <2>5, <2>6 DEF ChainsFrom, IsChain
<1>3. CASE ~(next \in DOMAIN F \ Range(c))
  BY <1>3 DEF OneMore
<1> QED
  BY <1>2, <1>3

LEMMA PathExists ==
  ASSUME NEW F \in FrameMaps, NEW frame \in DOMAIN F
  PROVE  \E path : /\ path[0] = <<frame>>
                   /\ \A n \in 1 .. Cardinality(DOMAIN F) : path[n] = OneMore(F, path[n - 1])
                   /\ Follow(F, frame) = path[Cardinality(DOMAIN F)]
                   /\ \A n \in 0 .. Cardinality(DOMAIN F) : path[n] \in ChainsFrom(F, frame)
<1> DEFINE A == ChainsFrom(F, frame)
           N == Cardinality(DOMAIN F)
           IsPath(f) == f = [n \in 0 .. N |-> IF n = 0 THEN <<frame>> ELSE OneMore(F, f[n - 1])]
           op == [xa \in (1 .. N) \X A |-> OneMore(F, xa[2])]
           path == CHOOSE f : IsPath(f)
<1>1. N \in Nat
  BY FramesAre, FS_CardinalityType DEF SomeFrames
<1>2. <<frame>> \in A
  BY DEF ChainsFrom, IsChain
<1>3. \A c \in A : OneMore(F, c) \in A
  BY OneMoreIsAChain
<1> HIDE DEF A, N
<1>4. \E f : IsPath(f)
  <2>1. op \in [(1 .. N) \X A -> A]
    BY <1>3
  <2>2. PICK f \in [0 .. N -> A] : IsRecursion(f, N, <<frame>>, op)
    <3> HIDE DEF op
    <3> QED
      BY <1>1, <1>2, <2>1, RecursionExists
  <2>3. \A i \in 1 .. N : op[<<i, f[i - 1]>>] = OneMore(F, f[i - 1])
    <3> TAKE i \in 1 .. N
    <3>1. f[i - 1] \in A
      BY <1>1
    <3> QED
      BY <3>1
  <2> HIDE DEF op
  <2>4. f = [i \in 0 .. N |-> IF i = 0 THEN <<frame>> ELSE op[<<i, f[i - 1]>>]]
    BY <2>2 DEF IsRecursion
  <2>5. \A i \in 0 .. N : i # 0 => i \in 1 .. N
    BY <1>1
  <2>6. IsPath(f)
    BY <2>3, <2>4, <2>5
  <2> QED
    BY <2>6
<1>5. IsPath(path)
  <2> HIDE DEF IsPath
  <2> QED
    BY <1>4
<1>6. Follow(F, frame) = path[N]
  BY DEF Follow, OneMore, N
<1> HIDE DEF path
<1>7. path[0] = <<frame>> /\ \A n \in 1 .. N : path[n] = OneMore(F, path[n - 1])
  BY <1>1, <1>5
<1>8. \A n \in 0 .. N : path[n] \in A
  <2>1. \A i \in 1 .. N : path[i - 1] \in A => path[i] \in A
    BY <1>3, <1>7
  <2> QED
    BY <1>1, <1>2, <1>7, <2>1, StaysIn
<1> QED
  BY <1>6, <1>7, <1>8 DEF N, A

LEMMA FollowIs ==
  ASSUME NEW F \in FrameMaps, NEW frame \in DOMAIN F
  PROVE  Follow(F, frame) \in ChainsFrom(F, frame)
<1>1. Cardinality(DOMAIN F) \in Nat
  BY FramesAre, FS_CardinalityType DEF SomeFrames
<1> QED
  BY <1>1, PathExists

(* A chain which ends is what following it finds. *)
LEMMA FollowEnds ==
  ASSUME NEW F \in FrameMaps, NEW frame \in DOMAIN F, NEW c \in ChainsFrom(F, frame),
         F[c[Len(c)]].next \notin DOMAIN F
  PROVE  Follow(F, frame) = c
<1> DEFINE N == Cardinality(DOMAIN F)
           k == Len(c)
           To(n) == IF n < k THEN n + 1 ELSE k
<1>1. N \in Nat /\ IsFiniteSet(DOMAIN F)
  BY FramesAre, FS_CardinalityType DEF SomeFrames
<1>2. /\ c \in Seq(DOMAIN F) /\ k \in Nat /\ k > 0 /\ c[1] = frame
      /\ \A i, j \in 1 .. k : c[i] = c[j] => i = j
      /\ \A i \in 1 .. k - 1 : F[c[i]].next = c[i + 1]
  BY DEF ChainsFrom, IsChain
<1>3. k <= N
  <2> DEFINE g == [i \in 1 .. k |-> c[i]]
  <2>1. g \in [1 .. k -> DOMAIN F]
    BY <1>2
  <2>2. \A i, j \in 1 .. k : g[i] = g[j] => i = j
    BY <1>2
  <2> HIDE DEF g
  <2>3. g \in Injection(1 .. k, DOMAIN F)
    BY <2>1, <2>2 DEF Injection, IsInjective
  <2>4. IsFiniteSet(1 .. k) /\ Cardinality(1 .. k) = k
    BY <1>2, FS_Interval
  <2> QED
    BY <1>1, <2>3, <2>4, FS_Injection
<1>4. PICK path : /\ path[0] = <<frame>>
                  /\ \A n \in 1 .. N : path[n] = OneMore(F, path[n - 1])
                  /\ Follow(F, frame) = path[N]
  BY PathExists
<1> HIDE DEF N, k
<1>5. \A n \in 1 .. k : /\ SubSeq(c, 1, n) \in Seq(DOMAIN F) /\ Len(SubSeq(c, 1, n)) = n
                        /\ \A j \in 1 .. n : SubSeq(c, 1, n)[j] = c[j]
  <2> TAKE n \in 1 .. k
  <2> DEFINE D == DOMAIN F
  <2>1. c \in Seq(D) /\ n \in 0 .. Len(c) /\ 0 \in Nat /\ n \in Nat
    BY <1>2 DEF k
  <2>2. D = DOMAIN F
    OBVIOUS
  <2> HIDE DEF D
  <2>3. /\ SubSeq(c, 0 + 1, n) \in Seq(D)
        /\ Len(SubSeq(c, 0 + 1, n)) = IF n < 0 THEN 0 ELSE n - 0
        /\ \A j \in 1 .. n - 0 : SubSeq(c, 0 + 1, n)[j] = c[0 + j]
    BY <2>1, PartIs
  <2> QED
    BY <2>1, <2>2, <2>3
<1>6. SubSeq(c, 1, k) = c
  <2> DEFINE D == DOMAIN F
  <2> HIDE DEF D
  <2>1. c \in Seq(D)
    BY <1>2 DEF D
  <2> QED
    BY <1>5, <1>2, <2>1 DEF k
<1>7. \A n \in 0 .. N : path[n] \in {SubSeq(c, 1, To(n))} /\ n \in Nat
  <2> DEFINE Good == {n \in Nat : n <= N => path[n] = SubSeq(c, 1, To(n))}
  <2>1. 0 \in Good
    <3>1. To(0) = 1 /\ 1 \in 1 .. k
      BY <1>2
    <3>2. SubSeq(c, 1, 1) = <<frame>>
      <4> DEFINE x == SubSeq(c, 1, 1)
                 D == DOMAIN F
      <4> HIDE DEF D
      <4>1. x \in Seq(D) /\ Len(x) = 1 /\ x[1] = c[1]
        BY <1>5, <3>1 DEF D
      <4> HIDE DEF x
      <4>2. x = <<frame>>
        BY <1>2, <4>1
      <4> QED
        BY <4>2 DEF x
    <3> QED
      BY <1>4, <3>1, <3>2
  <2>2. ASSUME NEW n \in Good PROVE n + 1 \in Good
    <3> SUFFICES ASSUME n + 1 <= N PROVE path[n + 1] = SubSeq(c, 1, To(n + 1))
      OBVIOUS
    <3> DEFINE b == SubSeq(c, 1, To(n))
               t == To(n)
    <3>1. path[n] = b /\ n \in Nat /\ t \in 1 .. k
      BY <1>1, <1>2
    <3>2. path[n + 1] = OneMore(F, b)
      <4>1. n + 1 \in 1 .. N /\ n + 1 - 1 = n
        BY <1>1, <3>1
      <4> QED
        <5>1. path[n + 1] = OneMore(F, path[n])
          <6> DEFINE m == n + 1
          <6>1. m \in 1 .. N /\ m - 1 = n
            BY <4>1
          <6> HIDE DEF m
          <6>2. path[m] = OneMore(F, path[m - 1])
            BY <1>4, <6>1
          <6> QED
            BY <6>1, <6>2 DEF m
        <5> QED
          BY <3>1, <5>1
    <3>3. Len(b) = t /\ b \in Seq(DOMAIN F) /\ \A j \in 1 .. t : b[j] = c[j]
      BY <1>5, <3>1
    <3>4. Last(b) = c[t]
      BY <3>1, <3>3 DEF Last
    <3>5. CASE n + 1 < k
      <4>1. t = n + 1 /\ To(n + 1) = n + 2 /\ n + 1 \in 1 .. k - 1 /\ n + 2 \in 1 .. k /\ n + 1 + 1 = n + 2
        BY <1>2, <3>1, <3>5
      <4>2. F[Last(b)].next = c[n + 2]
        BY <1>2, <3>4, <4>1
      <4>3. c[n + 2] \in DOMAIN F /\ \A j \in 1 .. t : c[j] # c[n + 2]
        BY <1>2, <4>1 DEF k
      <4>4. c[n + 2] \notin Range(b)
        BY <3>3, <4>3 DEF Range
      <4>5. OneMore(F, b) = Append(b, c[n + 2])
        BY <4>2, <4>3, <4>4 DEF OneMore
      <4>6. Append(b, c[n + 2]) = SubSeq(c, 1, n + 2)
        <5> HIDE DEF b, t
        <5> DEFINE x == Append(b, c[n + 2])
                   y == SubSeq(c, 1, n + 2)
        <5>1. Len(x) = n + 2 /\ x \in Seq(DOMAIN F) /\ \A j \in 1 .. n + 1 : x[j] = c[j]
          BY <3>1, <3>3, <4>1, <4>3
        <5>2. x[n + 2] = c[n + 2]
          BY <3>1, <3>3, <4>1, <4>3
        <5>3. Len(y) = n + 2 /\ y \in Seq(DOMAIN F) /\ \A j \in 1 .. n + 2 : y[j] = c[j]
          BY <1>5, <4>1
        <5> HIDE DEF x, y
        <5>4. \A j \in 1 .. n + 2 : x[j] = y[j]
          BY <5>1, <5>2, <5>3, <3>1
        <5> QED
          BY <5>1, <5>3, <5>4 DEF x, y
      <4> QED
        BY <3>2, <4>1, <4>5, <4>6
    <3>6. CASE ~(n + 1 < k)
      <4>1. t = k /\ To(n + 1) = k
        BY <1>2, <3>1, <3>6
      <4>2. F[Last(b)].next \notin DOMAIN F
        BY <3>4, <4>1 DEF k
      <4> QED
        BY <3>2, <4>1, <4>2 DEF OneMore
    <3> QED
      BY <3>5, <3>6
  <2>3. Good = Nat
    <3> HIDE DEF Good
    <3>1. Good \subseteq Nat
      BY DEF Good
    <3> QED
      BY <2>1, <2>2, <3>1, NatInd
  <2> HIDE DEF Good
  <2>4. \A n \in 0 .. N : n \in Good /\ n <= N
    BY <1>1, <2>3
  <2> HIDE DEF To
  <2> QED
    BY <2>4 DEF Good
<1>8. path[N] = SubSeq(c, 1, To(N))
  BY <1>1, <1>7 DEF N
<1>9. To(N) = k
  BY <1>1, <1>2, <1>3 DEF N, k
<1> QED
  BY <1>4, <1>6, <1>8, <1>9

-------------------------------------------------------------------------------
(* What a walk finds is where it says. *)
FoundIn(F) ==
  {e \in [frame : DOMAIN F, offset : Int, entry : Entries] :
     \E i \in 1 .. Len(F[e.frame].entries) :
       e.offset = OffsetOf(F[e.frame], i) /\ e.entry = F[e.frame].entries[i]}
FoundAmong(F, frames) == {e \in FoundIn(F) : e.frame \in frames}

LEMMA SeqOfMore ==
  ASSUME NEW A, NEW B, A \subseteq B, NEW s \in Seq(A)
  PROVE  s \in Seq(B)
<1>1. Len(s) \in Nat /\ s = [i \in 1 .. Len(s) |-> s[i]] /\ \A i \in 1 .. Len(s) : s[i] \in B
  OBVIOUS
<1> QED
  BY <1>1

LEMMA EntriesOfFrame ==
  ASSUME NEW F \in FrameMaps, NEW frame \in DOMAIN F, NEW from \in Int
  PROVE  EntriesFrom(frame, F[frame], from) \in Seq(FoundAmong(F, {frame}))
<1> DEFINE f == F[frame]
           skip == Before(f, from)
           reads == Reads(f, from)
           N == Len(f.entries)
<1>1. f \in Loose /\ frame \in Nat /\ N \in Nat /\ DOMAIN f.entries = 1 .. N
      /\ \A i \in 1 .. N : f.entries[i] \in Entries
  <2>1. f \in FrameSet /\ frame \in Nat
    BY FramesAre
  <2>2. f \in Loose
    BY <2>1 DEF FrameSet
  <2> QED
    BY <2>1, <2>2, UsedIs
<1>2. skip \in 0 .. N /\ \A i \in 1 .. N : OffsetOf(f, i) \in Int
  BY <1>1, BeforeIs
<1>3. reads \in 0 .. N
  <2>1. Reading(f) \subseteq 1 .. N
    BY <1>1 DEF Reading
  <2>2. N \in Nat
    BY <1>1
  <2> HIDE DEF N, f, reads
  <2>3. IsFiniteSet(1 .. N) /\ Cardinality(1 .. N) = N
    BY <2>2, FS_Interval
  <2>4. Cardinality(Reading(f)) \in Nat /\ Cardinality(Reading(f)) <= N
    BY <2>1, <2>3, FS_Subset, FS_CardinalityType
  <2>5. Cardinality(Reading(f)) \in 0 .. N /\ 0 \in 0 .. N
    BY <2>2, <2>4
  <2> QED
    BY <2>5 DEF Reads, reads
<1> HIDE DEF skip, reads, f, N
<1> DEFINE n == IF reads < skip THEN 0 ELSE reads - skip
           At(i) == [frame |-> frame, offset |-> OffsetOf(f, skip + i), entry |-> f.entries[skip + i]]
<1>4. 1 .. reads - skip = 1 .. n /\ n \in Nat /\ \A i \in 1 .. n : skip + i \in 1 .. N
  BY <1>1, <1>2, <1>3
<1>5. EntriesFrom(frame, F[frame], from) = [i \in 1 .. n |-> At(i)]
  BY <1>4 DEF EntriesFrom, skip, reads, f
<1>6. \A i \in 1 .. n : At(i) \in FoundAmong(F, {frame})
  <2> TAKE i \in 1 .. n
  <2> DEFINE k == skip + i
  <2>1. k \in 1 .. N
    BY <1>4
  <2> HIDE DEF k
  <2>2. OffsetOf(f, k) \in Int /\ f.entries[k] \in Entries
    BY <1>1, <1>2, <2>1
  <2>3. [frame |-> frame, offset |-> OffsetOf(f, k), entry |-> f.entries[k]] \in FoundIn(F)
    BY <2>1, <2>2 DEF FoundIn, f, N
  <2> QED
    BY <2>3 DEF FoundAmong, k
<1> DEFINE Y == FoundAmong(F, {frame})
<1> HIDE DEF At, n, Y
<1>7. \A i \in 1 .. n : At(i) \in Y
  BY <1>6 DEF Y
<1>8. [i \in 1 .. n |-> At(i)] \in Seq(Y)
  BY <1>4, <1>7
<1> QED
  BY <1>5, <1>8 DEF Y

EndsIn(F, chain, walk, n) ==
  /\ walk.last = chain[n]
  /\ walk.ok => F[chain[n]].next = NoFrame
  /\ walk.entries \in Seq(FoundAmong(F, {chain[i] : i \in 1 .. n}))
Walked(F, cell, walk) ==
  /\ walk \in [entries : Seq(FoundIn(F)), last : Int, ok : BOOLEAN]
  /\ cell.frame \in DOMAIN F =>
       LET chain == Follow(F, cell.frame)
       IN  \E n \in 1 .. Len(chain) : EndsIn(F, chain, walk, n)

LEMMA WalkIs ==
  ASSUME NEW F \in FrameMaps, NEW cell, cell.offset \in Int
  PROVE  Walked(F, cell, WalkFrom(F, cell))
<1>1. CASE cell.frame \notin DOMAIN F
  <2>1. Follow(F, cell.frame) = <<>>
    BY <1>1 DEF Follow
  <2>2. WalkFrom(F, cell) = [entries |-> <<>>, last |-> NoFrame, ok |-> FALSE]
    BY <2>1 DEF WalkFrom
  <2>3. <<>> \in Seq(FoundIn(F)) /\ NoFrame \in Int
    BY DEF NoFrame
  <2> QED
    BY <1>1, <2>2, <2>3 DEF Walked
<1>2. CASE cell.frame \in DOMAIN F
  <2> DEFINE chain == Follow(F, cell.frame)
             From(i) == IF i = 1 THEN cell.offset ELSE FRAME_HEADER_LEN
             IsWhole(i) == Reads(F[chain[i]], From(i)) = Len(F[chain[i]].entries)
             W == {i \in DOMAIN chain : \A j \in 1 .. i - 1 : IsWhole(j)}
             n == Cardinality(W)
             Part(i) == EntriesFrom(chain[i], F[chain[i]], From(i))
             parts == [i \in 1 .. n |-> Part(i)]
             X == FoundAmong(F, {chain[i] : i \in 1 .. n})
             walk == WalkFrom(F, cell)
  <2>1. chain \in Seq(DOMAIN F) /\ chain # <<>>
    BY <1>2, FollowIs DEF ChainsFrom, IsChain
  <2>2. walk = [entries |-> FlattenSeq(parts), last |-> chain[n],
                ok |-> IsWhole(n) /\ F[chain[n]].next = NoFrame]
    BY <2>1 DEF WalkFrom
  <2>3. n \in 1 .. Len(chain)
    <3>1. W \subseteq 1 .. Len(chain) /\ Len(chain) \in Nat
      BY <2>1
    <3>2. IsFiniteSet(1 .. Len(chain)) /\ Cardinality(1 .. Len(chain)) = Len(chain)
      <4> DEFINE k == Len(chain)
      <4>1. k \in Nat
        BY <3>1
      <4> HIDE DEF k
      <4>2. IsFiniteSet(1 .. k) /\ Cardinality(1 .. k) = k
        BY <4>1, FS_Interval
      <4> QED
        BY <4>2 DEF k
    <3>3. IsFiniteSet(W) /\ n \in Nat /\ n <= Len(chain)
      BY <3>1, <3>2, FS_Subset, FS_CardinalityType
    <3>4. 1 \in W
      <4>1. 1 \in DOMAIN chain
        BY <2>1
      <4> QED
        BY <4>1
    <3>5. n # 0
      BY <3>3, <3>4, FS_EmptySet
    <3> QED
      BY <3>1, <3>3, <3>5
  <2> HIDE DEF n, W
  <2>4. \A i \in 1 .. n : Part(i) \in Seq(X)
    <3> TAKE i \in 1 .. n
    <3>1. chain[i] \in DOMAIN F
      BY <2>1, <2>3
    <3>2. From(i) \in Int
      BY FrameAssumption
    <3>3. Part(i) \in Seq(FoundAmong(F, {chain[i]}))
      <4> HIDE DEF From, chain
      <4> QED
        BY <3>1, <3>2, EntriesOfFrame
    <3>4. FoundAmong(F, {chain[i]}) \subseteq X
      BY DEF FoundAmong
    <3> HIDE DEF Part, X
    <3> QED
      BY <3>3, <3>4, SeqOfMore
  <2>5. FlattenSeq(parts) \in Seq(X)
    <3> HIDE DEF Part, X
    <3>1. parts \in Seq(Seq(X))
      BY <2>1, <2>3, <2>4
    <3> QED
      BY <3>1, FlattenType
  <2>6. X \subseteq FoundIn(F)
    BY DEF FoundAmong
  <2> DEFINE all == FlattenSeq(parts)
  <2>7. all \in Seq(FoundIn(F))
    <3> HIDE DEF all, X
    <3>1. all \in Seq(X)
      BY <2>5 DEF all
    <3> QED
      BY <2>6, <3>1, SeqOfMore
  <2> HIDE DEF all
  <2>8. walk = [entries |-> all, last |-> chain[n], ok |-> IsWhole(n) /\ F[chain[n]].next = NoFrame]
    BY <2>2 DEF all
  <2>9. all \in Seq(X)
    BY <2>5 DEF all
  <2> HIDE DEF walk, IsWhole, chain, parts, Part
  <2>10. /\ walk \in [entries : Seq(FoundIn(F)), last : Int, ok : BOOLEAN] /\ walk.entries = all /\ walk.last = chain[n]
         /\ walk.ok => F[chain[n]].next = NoFrame
    <3>1. chain[n] \in Int
      BY <2>1, <2>3, FramesAre
    <3> HIDE DEF X
    <3> QED
      BY <2>7, <2>8, <3>1
  <2>11. n \in 1 .. Len(chain) /\ walk.last = chain[n] /\ (walk.ok => F[chain[n]].next = NoFrame)
         /\ walk.entries \in Seq(FoundAmong(F, {chain[i] : i \in 1 .. n}))
    BY <2>3, <2>9, <2>10
  <2>12. Walked(F, cell, walk)
    <3>1. EndsIn(F, chain, walk, n)
      BY <2>11 DEF EndsIn
    <3> QED
      BY <2>10, <2>11, <3>1 DEF Walked, chain
  <2> QED
    BY <2>12 DEF walk
<1> QED
  BY <1>1, <1>2

(* A walk which is over at a later second is a part of it. *)
LEMMA PartOfAWalk ==
  ASSUME NEW X, NEW walk \in [entries : Seq(X), last : Int, ok : BOOLEAN], NEW second \in Int
  PROVE  UpTo(walk, second) \in [entries : Seq(X), last : Int, ok : BOOLEAN]
<1> DEFINE later == {i \in DOMAIN walk.entries :
                       walk.entries[i].entry.time >= (second + 1) * MICROS_PER_SECOND}
           part == SubSeq(walk.entries, 1, Min(later) - 1)
           cut == [walk EXCEPT !.entries = part, !.ok = TRUE]
<1>1. UpTo(walk, second) = IF later = {} THEN walk ELSE cut
  BY DEF UpTo
<1>2. later \subseteq 1 .. Len(walk.entries) /\ Len(walk.entries) \in Nat /\ later \subseteq Nat
  OBVIOUS
<1> HIDE DEF later
<1>3. CASE later = {}
  BY <1>1, <1>3
<1>4. CASE later # {}
  <2>1. Min(later) \in 1 .. Len(walk.entries)
    <3>1. Min(later) \in later
      BY <1>2, <1>4, MinIs
    <3> QED
      BY <1>2, <3>1
  <2>2. part \in Seq(X)
    <3> DEFINE q == Min(later) - 1
    <3>1. q \in 0 .. Len(walk.entries) /\ 0 \in Nat
      BY <1>2, <2>1
    <3> HIDE DEF q
    <3>2. SubSeq(walk.entries, 0 + 1, q) \in Seq(X)
      BY <3>1, PartIs
    <3> QED
      BY <3>2 DEF q
  <2> HIDE DEF part
  <2>3. cut \in [entries : Seq(X), last : Int, ok : BOOLEAN]
    BY <2>2
  <2> QED
    BY <1>1, <1>4, <2>3
<1> QED
  BY <1>3, <1>4

-------------------------------------------------------------------------------
(* The hour in memory. *)
Places == [frame : Int, offset : Int]
Cells == [Seconds -> Places]
Counts == [Seconds -> Int]
FileCounts == [count : Nat, onDisk : Nat]
Reasons ==
  {"", "no room", "no room for a frame", "an entry fits neither half", "the chain does not read",
   "a full frame has a single entry", "the second does not read", "the hour does not open"}
SlotRecords ==
  [at : {"open"}, files : Seq(FileCounts), cells : Cells, counts : Counts,
   tail : Int, last : Int, frames : FrameMaps, dirty : Seq(Nat),
   clean : BOOLEAN, rebuilt : BOOLEAN, failure : Reasons,
   key : KeyIndexes, keyDirectory : BOOLEAN, keyChanged : BOOLEAN,
   process : ProcessIndexes, processDirectory : BOOLEAN, processChanged : BOOLEAN]
Slots == {h \in SlotRecords : Range(h.dirty) \subseteq DOMAIN h.frames}
Answers == [h : Slots, cell : Places]

LEMMA SlotIs ==
  ASSUME NEW h \in Slots
  PROVE  /\ h.frames \in FrameMaps /\ h.cells \in Cells /\ h.counts \in Counts
         /\ h.files \in Seq(FileCounts) /\ h.tail \in Int /\ h.last \in Int
         /\ h.dirty \in Seq(Nat) /\ Range(h.dirty) \subseteq DOMAIN h.frames
         /\ h.key \in KeyIndexes /\ h.process \in ProcessIndexes /\ h.at = "open"
BY DEF Slots, SlotRecords

LEMMA SlotWith ==
  ASSUME NEW h \in Slots
  PROVE  /\ \A c \in Cells : [h EXCEPT !.cells = c] \in Slots
         /\ \A c \in Counts : [h EXCEPT !.counts = c] \in Slots
         /\ \A s \in Seq(FileCounts) : [h EXCEPT !.files = s] \in Slots
         /\ \A t \in Int : [h EXCEPT !.tail = t] \in Slots /\ [h EXCEPT !.last = t] \in Slots
         /\ \A why \in Reasons : [h EXCEPT !.failure = why] \in Slots
         /\ \A k \in KeyIndexes : [h EXCEPT !.key = k] \in Slots
         /\ \A p \in ProcessIndexes : [h EXCEPT !.process = p] \in Slots
<1>1. ASSUME NEW c \in Cells PROVE [h EXCEPT !.cells = c] \in Slots
  BY DEF Slots, SlotRecords
<1>2. ASSUME NEW c \in Counts PROVE [h EXCEPT !.counts = c] \in Slots
  BY DEF Slots, SlotRecords
<1>3. ASSUME NEW s \in Seq(FileCounts) PROVE [h EXCEPT !.files = s] \in Slots
  BY DEF Slots, SlotRecords
<1>4. ASSUME NEW t \in Int PROVE [h EXCEPT !.tail = t] \in Slots
  BY DEF Slots, SlotRecords
<1>5. ASSUME NEW t \in Int PROVE [h EXCEPT !.last = t] \in Slots
  BY DEF Slots, SlotRecords
<1>6. ASSUME NEW why \in Reasons PROVE [h EXCEPT !.failure = why] \in Slots
  BY DEF Slots, SlotRecords
<1>7. ASSUME NEW k \in KeyIndexes PROVE [h EXCEPT !.key = k] \in Slots
  BY DEF Slots, SlotRecords
<1>8. ASSUME NEW p \in ProcessIndexes PROVE [h EXCEPT !.process = p] \in Slots
  BY DEF Slots, SlotRecords
<1> QED
  BY <1>1, <1>2, <1>3, <1>4, <1>5, <1>6, <1>7, <1>8

LEMMA NoCellIs == NoCell \in Places /\ NoCells \in Cells /\ NoCounts \in Counts
BY DEF NoCell, NoFrame, NoCells, NoCounts, Places, Cells, Counts

LEMMA DirtyIs ==
  ASSUME NEW h \in Slots, NEW frame \in Nat, NEW f \in FrameSet
  PROVE  mark_dirty(h, frame, f) \in Slots
<1> DEFINE frames == Updated(h.frames, frame, f)
           dirty == IF Contains(h.dirty, frame) THEN h.dirty ELSE Append(h.dirty, frame)
           c == [h EXCEPT !.frames = frames, !.dirty = dirty]
<1>1. frames \in FrameMaps /\ DOMAIN frames = DOMAIN h.frames \union {frame}
  BY SlotIs, FrameIsPut
<1>2. dirty \in Seq(Nat) /\ Range(dirty) \subseteq Range(h.dirty) \union {frame}
  <2>1. h.dirty \in Seq(Nat)
    BY SlotIs
  <2> DEFINE l == Append(h.dirty, frame)
  <2>2. /\ l \in Seq(Nat) /\ Len(l) = Len(h.dirty) + 1 /\ l[Len(l)] = frame
        /\ \A i \in 1 .. Len(l) : i # Len(l) => i \in 1 .. Len(h.dirty) /\ l[i] = h.dirty[i]
    BY <2>1
  <2>3. Range(l) \subseteq Range(h.dirty) \union {frame}
    <3> DEFINE s == h.dirty
               k == Len(l)
    <3>1. s \in Seq(Nat) /\ Range(s) = {s[i] : i \in 1 .. Len(s)}
      BY <2>1 DEF Range
    <3> HIDE DEF l, s
    <3>2. Range(l) = {l[i] : i \in 1 .. k}
      BY <2>2 DEF Range
    <3>3. l[k] = frame /\ \A i \in 1 .. k : i # k => i \in 1 .. Len(s) /\ l[i] = s[i]
      BY <2>2 DEF s
    <3> HIDE DEF k
    <3>4. \A i \in 1 .. k : l[i] \in Range(s) \union {frame}
      BY <3>1, <3>3
    <3> QED
      BY <3>2, <3>4 DEF s
  <2> HIDE DEF l
  <2>4. dirty = IF Contains(h.dirty, frame) THEN h.dirty ELSE l
    BY DEF l
  <2> QED
    BY <2>1, <2>2, <2>3, <2>4
<1>3. Range(dirty) \subseteq DOMAIN frames
  BY <1>1, <1>2, SlotIs
<1> HIDE DEF frames, dirty
<1>4. c \in Slots
  BY <1>1, <1>2, <1>3 DEF Slots, SlotRecords
<1> QED
  BY <1>4 DEF mark_dirty, frames, dirty

LEMMA ShiftedIs ==
  ASSUME NEW cells \in Cells, NEW frame, NEW from \in Int, NEW by \in Int
  PROVE  Shift(cells, frame, from, Past, by) \in Cells
<1>1. \A s \in Seconds : cells[s] \in Places
  BY DEF Cells
<1>2. \A p \in Places : [p EXCEPT !.offset = @ + by] \in Places
  BY DEF Places
<1> QED
  BY <1>1, <1>2 DEF Shift, Cells

LEMMA SeqWith ==
  ASSUME NEW X, NEW s \in Seq(X), NEW i \in 1 .. Len(s), NEW x \in X
  PROVE  [s EXCEPT ![i] = x] \in Seq(X)
<1> DEFINE t == [s EXCEPT ![i] = x]
<1>1. Len(s) \in Nat /\ DOMAIN s = 1 .. Len(s) /\ \A j \in 1 .. Len(s) : s[j] \in X
  OBVIOUS
<1>2. t = [j \in 1 .. Len(s) |-> IF j = i THEN x ELSE s[j]]
  BY <1>1
<1> HIDE DEF t
<1>3. t \in Seq(X)
  BY <1>1, <1>2
<1> QED
  BY <1>3 DEF t

LEMMA AllocatedIs ==
  ASSUME NEW h \in Slots
  PROVE  allocate_frame(h).h \in Slots /\ allocate_frame(h).frame \in Nat
<1> DEFINE full == h.files = <<>> \/ h.files[Len(h.files)].count >= FramesPerFile
           files == IF full THEN Append(h.files, [count |-> 0, onDisk |-> 0]) ELSE h.files
           n == Len(files)
           grown == [files EXCEPT ![n].count = @ + 1]
<1>1. h.files \in Seq(FileCounts)
  BY SlotIs
<1>2. [count |-> 0, onDisk |-> 0] \in FileCounts
  BY DEF FileCounts
<1>3. files \in Seq(FileCounts) /\ files # <<>>
  <2> DEFINE none == [count |-> 0, onDisk |-> 0]
             l == Append(h.files, none)
  <2>1. none \in FileCounts
    BY <1>2
  <2> HIDE DEF none, full
  <2>2. l \in Seq(FileCounts) /\ l # <<>>
    BY <1>1, <2>1
  <2>3. ~full => h.files # <<>>
    BY DEF full
  <2> HIDE DEF l
  <2>4. files = IF full THEN l ELSE h.files
    BY DEF l, none
  <2> QED
    BY <1>1, <2>2, <2>3, <2>4
<1>4. allocate_frame(h) = [h |-> [h EXCEPT !.files = grown], frame |-> FirstOf(n) + files[n].count]
  BY DEF allocate_frame
<1> HIDE DEF files
<1>5. n \in Nat /\ n > 0 /\ files[n] \in FileCounts
  BY <1>3
<1>6. grown \in Seq(FileCounts)
  <2> HIDE DEF n
  <2>1. [files[n] EXCEPT !.count = @ + 1] \in FileCounts
    BY <1>5 DEF FileCounts
  <2> DEFINE one == [files[n] EXCEPT !.count = @ + 1]
             g == [files EXCEPT ![n] = one]
  <2>2. grown = g
    OBVIOUS
  <2>3. one \in FileCounts
    BY <2>1
  <2> HIDE DEF one, grown
  <2>4. g \in Seq(FileCounts)
    <3>1. n \in 1 .. Len(files)
      BY <1>3, <1>5 DEF n
    <3> QED
      BY <1>3, <2>3, <3>1, SeqWith
  <2> QED
    BY <2>2, <2>4
<1>7. FirstOf(n) + files[n].count \in Nat
  <2>1. files[n].count \in Nat /\ n - 1 \in Nat
    BY <1>5 DEF FileCounts
  <2>2. \A a \in Nat : a * FramesPerFile \in Nat
    BY HourFileAssumption
  <2>3. (n - 1) * FramesPerFile \in Nat
    <3> DEFINE m == n - 1
    <3>1. m \in Nat
      BY <2>1
    <3> HIDE DEF m
    <3> QED
      BY <2>2, <3>1 DEF m
  <2> QED
    BY <2>1, <2>3 DEF FirstOf
<1> HIDE DEF grown, n
<1>8. [h EXCEPT !.files = grown] \in Slots
  BY <1>6, SlotWith
<1> QED
  BY <1>4, <1>7, <1>8

LEMMA FailIs ==
  ASSUME NEW h \in Slots, NEW why \in Reasons
  PROVE  Fail(h, why) \in Answers
<1>1. [h EXCEPT !.failure = why] \in Slots
  BY SlotWith
<1> QED
  BY <1>1, NoCellIs DEF Fail, Answers

(* A block which has room is put into the frame. *)
LEMMA BlockIs ==
  ASSUME NEW entry \in Blocks
  PROVE  /\ entry \in Entries /\ <<entry>> \in Seq(Entries) /\ Whole(<<entry>>) = entry.len
         /\ entry.len \in Nat /\ entry.len > 0 /\ entry.len <= FRAME_CAPACITY
<1>1. entry \in Entries
  BY DEF Blocks
<1>2. entry.len \in Nat /\ entry.len > 0 /\ IsEntry(entry)
  BY <1>1, NoTimeIsOfNoSecond DEF Blocks, Entries, IsEntry
<1>3. entry.len <= MAX_PAYLOAD_LEN
  BY <1>1, <1>2 DEF Entries
<1>4. entry.len <= FRAME_CAPACITY
  BY <1>2, <1>3, MetricBlockAssumption, FrameAssumption
<1> QED
  BY <1>1, <1>2, <1>4, LengthOfOne

LEMMA EntryIsPut ==
  ASSUME NEW f \in FrameSet, NEW offset \in Int, NEW entry \in Blocks, entry.len <= free(f)
  PROVE  insert(f, offset, <<entry>>) \in FrameSet
<1>1. f \in Loose /\ used(f) <= FRAME_CAPACITY /\ used(f) \in Nat
  BY UsedIs DEF FrameSet
<1>2. <<entry>> \in Seq(Entries) /\ Whole(<<entry>>) = entry.len /\ entry.len > 0 /\ entry.len \in Nat
  BY BlockIs
<1> DEFINE more == <<entry>>
<1> HIDE DEF more
<1>3. more \in Seq(Entries) /\ Whole(more) = entry.len /\ Whole(more) > 0
  BY <1>2 DEF more
<1>4. insert(f, offset, more) \in Loose /\ used(insert(f, offset, more)) <= used(f) + Whole(more)
  BY <1>1, <1>3, InsertedIs
<1>5. used(insert(f, offset, more)) \in Nat
  BY <1>4, UsedIs
<1>6. used(f) + Whole(more) <= FRAME_CAPACITY
  BY <1>1, <1>2, <1>3, FrameAssumption DEF free
<1>7. used(insert(f, offset, more)) <= FRAME_CAPACITY
  BY <1>1, <1>2, <1>3, <1>4, <1>5, <1>6, FrameAssumption
<1> QED
  BY <1>4, <1>7 DEF FrameSet, more

LEMMA InsertedIntoFrame ==
  ASSUME disk.frames \in FrameMaps, NEW h \in Slots, NEW place \in Places, NEW entry \in Blocks,
         place.frame \in DOMAIN FramesOf(h, disk),
         entry.len <= free(FramesOf(h, disk)[place.frame])
  PROVE  insert_into_frame(h, place, entry) \in Answers
<1> DEFINE F == FramesOf(h, disk)
           f == insert(F[place.frame], place.offset, <<entry>>)
           cells == Shift(h.cells, place.frame, place.offset, Past, entry.len)
           moved == [h EXCEPT !.cells = cells]
<1>1. F \in FrameMaps
  BY SlotIs, FramesRead
<1> HIDE DEF F
<1>2. F[place.frame] \in FrameSet /\ place.frame \in Nat
  BY <1>1, FramesAre DEF F
<1>3. f \in FrameSet
  <2>1. place.offset \in Int
    BY DEF Places
  <2>2. entry.len <= free(F[place.frame])
    BY DEF F
  <2> QED
    BY <1>2, <2>1, <2>2, EntryIsPut
<1>4. moved \in Slots
  <2>1. cells \in Cells
    <3>1. h.cells \in Cells /\ place.offset \in Int /\ entry.len \in Int
      <4>1. h.cells \in Cells
        BY SlotIs
      <4>2. entry.len \in Int
        <5>1. entry.len \in Nat
          BY BlockIs
        <5> QED
          BY <5>1
      <4> QED
        BY <4>1, <4>2 DEF Places
    <3> QED
      BY <3>1, ShiftedIs
  <2> HIDE DEF cells
  <2> QED
    BY <2>1, SlotWith
<1> HIDE DEF f, moved
<1>5. mark_dirty(moved, place.frame, f) \in Slots
  BY <1>2, <1>3, <1>4, DirtyIs
<1>6. insert_into_frame(h, place, entry) = [h |-> mark_dirty(moved, place.frame, f), cell |-> place]
  BY DEF insert_into_frame, f, moved, F
<1> QED
  BY <1>5, <1>6 DEF Answers

LEMMA FrameIsAppended ==
  ASSUME disk.frames \in FrameMaps, NEW h \in Slots, NEW last, NEW entry \in Blocks,
         last = NoFrame \/ last \in DOMAIN FramesOf(h, disk)
  PROVE  append_frame(h, last, entry) \in Answers
<1> DEFINE F == FramesOf(h, disk)
           new == allocate_frame(h)
           f == insert(NewFrame, FRAME_HEADER_LEN, <<entry>>)
           cell == [frame |-> new.frame, offset |-> FRAME_HEADER_LEN]
           one == mark_dirty(new.h, new.frame, f)
           both == mark_dirty(one, last, [F[last] EXCEPT !.next = new.frame])
           chained == IF last = NoFrame THEN one ELSE both
<1>1. F \in FrameMaps
  BY SlotIs, FramesRead
<1>2. new.h \in Slots /\ new.frame \in Nat
  BY AllocatedIs
<1>3. append_frame(h, last, entry) =
        IF room_for_frames(h) = 0 THEN Fail(h, "no room for a frame")
        ELSE [h |-> [chained EXCEPT !.tail = new.frame], cell |-> cell]
  BY DEF append_frame
<1> HIDE DEF F, new
<1>4. f \in FrameSet
  <2>1. NewFrame \in FrameSet /\ used(NewFrame) = 0
    BY NewFrameIs
  <2>2. entry.len <= free(NewFrame)
    <3>1. free(NewFrame) = FRAME_CAPACITY - 0
      BY <2>1 DEF free
    <3>2. entry.len <= FRAME_CAPACITY /\ entry.len \in Nat
      BY BlockIs
    <3> QED
      BY <3>1, <3>2, FrameAssumption
  <2>3. FRAME_HEADER_LEN \in Int
    BY FrameAssumption
  <2> QED
    BY <2>1, <2>2, <2>3, EntryIsPut
<1> HIDE DEF f
<1>5. one \in Slots
  BY <1>2, <1>4, DirtyIs
<1> HIDE DEF one
<1>6. chained \in Slots
  <2>1. CASE last = NoFrame
    BY <1>5, <2>1
  <2>2. CASE last # NoFrame
    <3>1. last \in Nat /\ F[last] \in FrameSet
      BY <1>1, <2>2, FramesAre DEF F
    <3>2. [F[last] EXCEPT !.next = new.frame] \in FrameSet
      <4> DEFINE g == F[last]
                 next == new.frame
      <4>1. g \in Loose /\ used(g) <= FRAME_CAPACITY /\ next \in Int
        BY <1>2, <3>1 DEF FrameSet
      <4> HIDE DEF g, next
      <4>2. [g EXCEPT !.next = next] \in Loose /\ used([g EXCEPT !.next = next]) = used(g)
        BY <4>1, NoEntries, OtherEntries
      <4> QED
        BY <4>1, <4>2 DEF FrameSet, g, next
    <3> DEFINE g == [F[last] EXCEPT !.next = new.frame]
    <3> HIDE DEF g
    <3>3. mark_dirty(one, last, g) \in Slots
      BY <1>5, <3>1, <3>2, DirtyIs DEF g
    <3> QED
      BY <2>2, <3>3 DEF g
  <2> QED
    BY <2>1, <2>2
<1> HIDE DEF chained
<1>7. [chained EXCEPT !.tail = new.frame] \in Slots
  <2> DEFINE t == new.frame
  <2>1. t \in Int
    BY <1>2
  <2> HIDE DEF t
  <2>2. [chained EXCEPT !.tail = t] \in Slots
    BY <1>6, <2>1, SlotWith
  <2> QED
    BY <2>2 DEF t
<1>8. cell \in Places
  BY <1>2, FrameAssumption DEF Places
<1> HIDE DEF cell
<1>9. Fail(h, "no room for a frame") \in Answers
  <2>1. "no room for a frame" \in Reasons
    BY DEF Reasons
  <2> QED
    BY <2>1, FailIs
<1>10. [h |-> [chained EXCEPT !.tail = new.frame], cell |-> cell] \in Answers
  BY <1>7, <1>8 DEF Answers
<1> QED
  BY <1>3, <1>9, <1>10

-------------------------------------------------------------------------------
(* A full frame is halved where an entry starts, nearest to its middle. *)
Apart(x, y) == IF x > y THEN x - y ELSE y - x
FromTheMiddle(f, b) == Apart(b, FRAME_HEADER_LEN + used(f) \div 2)

LEMMA HalvesIs ==
  ASSUME NEW f \in Loose, Boundaries(f) # {}
  PROVE  /\ \E i \in 1 .. Len(f.entries) : Halves(f) = OffsetOf(f, i)
         /\ Halves(f) \in Boundaries(f)
         /\ \A b \in Boundaries(f) : FromTheMiddle(f, Halves(f)) <= FromTheMiddle(f, b)
<1> DEFINE B == Boundaries(f)
           middle == FRAME_HEADER_LEN + used(f) \div 2
           Off(b) == IF b > middle THEN b - middle ELSE middle - b
           Nearest(b) == \A c \in B : Off(b) < Off(c) \/ (Off(b) = Off(c) /\ b <= c)
           offs == {Off(b) : b \in B}
           near == {b \in B : Off(b) = Min(offs)}
<1>1. Len(f.entries) \in Nat /\ DOMAIN f.entries = 1 .. Len(f.entries) /\ used(f) \in Nat
  BY UsedIs
<1>2. \A i \in 1 .. Len(f.entries) : OffsetOf(f, i) \in Nat
  <2> TAKE i \in 1 .. Len(f.entries)
  <2> DEFINE m == i - 1
  <2>1. m \in 0 .. Len(f.entries) /\ f.entries \in Seq(Entries)
    BY <1>1, UsedIs
  <2> HIDE DEF m
  <2>2. LenOf(f.entries, m) \in Nat
    BY <2>1, LengthsAre
  <2> QED
    BY <2>2, FrameAssumption DEF OffsetOf, m
<1>3. \A b \in B : \E i \in 1 .. Len(f.entries) : b = OffsetOf(f, i)
  <2>1. Reading(f) \subseteq 1 .. Len(f.entries)
    BY <1>1 DEF Reading
  <2> QED
    BY <2>1 DEF Boundaries, Range, entry_offsets
<1>4. B \subseteq Nat /\ B # {}
  BY <1>2, <1>3
<1>5. middle \in Nat
  BY <1>1, FrameAssumption
<1> HIDE DEF B, middle
<1>6. \A b \in B : Off(b) \in Nat
  BY <1>4, <1>5
<1>7. Halves(f) = CHOOSE b \in B : Nearest(b)
  BY DEF Halves, B, middle
<1> HIDE DEF Off
<1>8. Min(offs) \in offs /\ \A x \in offs : Min(offs) <= x
  <2>1. offs \subseteq Nat /\ offs # {}
    BY <1>4, <1>6
  <2> HIDE DEF offs
  <2> QED
    BY <2>1, MinIs
<1>9. \A b \in B : Off(b) \in offs
  OBVIOUS
<1>10. \A x \in offs : \E b \in B : x = Off(b)
  OBVIOUS
<1> HIDE DEF offs
<1>11. near \subseteq Nat /\ near # {}
  BY <1>4, <1>8, <1>10
<1>12. Min(near) \in near /\ \A x \in near : Min(near) <= x
  <2> HIDE DEF near
  <2> QED
    BY <1>11, MinIs
<1>13. Nearest(Min(near))
  <2> DEFINE m == Min(near)
  <2>1. m \in B /\ Off(m) = Min(offs) /\ \A x \in near : m <= x
    BY <1>12
  <2> HIDE DEF m
  <2>2. \A c \in B : Off(m) < Off(c) \/ (Off(m) = Off(c) /\ m <= c)
    <3> TAKE c \in B
    <3>1. Off(m) <= Off(c) /\ Off(m) \in Nat /\ Off(c) \in Nat
      BY <1>6, <1>8, <1>9, <2>1
    <3>2. CASE Off(m) = Off(c)
      <4>1. c \in near
        BY <2>1, <3>2
      <4> QED
        BY <2>1, <3>2, <4>1
    <3> QED
      BY <3>1, <3>2
  <2> QED
    BY <2>2 DEF m
<1>14. Min(near) \in B
  BY <1>12
<1> HIDE DEF Nearest, near
<1>15. Halves(f) \in B /\ Nearest(Halves(f))
  BY <1>7, <1>13, <1>14
<1>16. \A b \in B : FromTheMiddle(f, Halves(f)) <= FromTheMiddle(f, b)
  <2>1. \A b \in B : FromTheMiddle(f, b) = Off(b)
    BY DEF FromTheMiddle, Apart, Off, middle
  <2>2. \A b \in B : Off(Halves(f)) <= Off(b)
    BY <1>6, <1>15 DEF Nearest
  <2> QED
    BY <1>15, <2>1, <2>2
<1> QED
  BY <1>3, <1>15, <1>16 DEF B

LEMMA StartIsABoundary ==
  ASSUME NEW f \in Loose
  PROVE  IsBoundary(f, FRAME_HEADER_LEN)
<1>1. f.entries \in Seq(Entries) /\ Len(f.entries) \in Nat /\ DOMAIN f.entries = 1 .. Len(f.entries)
  BY UsedIs
<1>2. LenOf(f.entries, 0) = 0
  BY <1>1, LengthsAre
<1>3. CASE Len(f.entries) = 0
  BY <1>2, <1>3, FrameAssumption DEF IsBoundary, records_end, used
<1>4. CASE Len(f.entries) # 0
  <2>1. 1 \in DOMAIN f.entries
    BY <1>1, <1>4
  <2>2. OffsetOf(f, 1) = FRAME_HEADER_LEN
    BY <1>2, FrameAssumption DEF OffsetOf
  <2> QED
    BY <2>1, <2>2 DEF IsBoundary
<1> QED
  BY <1>3, <1>4

(* What is put into a frame with room for it leaves it a frame. *)
LEMMA MoreIsPut ==
  ASSUME NEW f \in Loose, NEW offset \in Int, NEW more \in Seq(Entries), NEW len \in Int,
         IsBoundary(f, offset) \/ Whole(more) > 0, Whole(more) <= len, used(f) + len <= FRAME_CAPACITY
  PROVE  /\ insert(f, offset, more) \in FrameSet
         /\ used(insert(f, offset, more)) <= used(f) + len
<1> DEFINE g == insert(f, offset, more)
<1>1. g \in Loose /\ used(g) <= used(f) + Whole(more)
  BY InsertedIs
<1> HIDE DEF g
<1>2. used(g) \in Nat /\ used(f) \in Nat /\ Whole(more) \in Nat
  <2>1. 0 \in 0 .. Len(more) /\ Len(more) \in 0 .. Len(more)
    OBVIOUS
  <2>2. Whole(more) \in Nat
    BY <2>1, LengthsAre DEF Whole
  <2> QED
    BY <1>1, <2>2, UsedIs
<1>3. used(g) <= used(f) + len /\ used(g) <= FRAME_CAPACITY
  BY <1>1, <1>2, FrameAssumption
<1> QED
  BY <1>1, <1>3 DEF FrameSet, g

(* Each half has room for what it is given: the entry goes into one, and   *)
(* the upper one into a new frame or into the next one.                    *)
LEMMA HalvedIs ==
  ASSUME NEW F \in FrameMaps, NEW h \in Slots, NEW place \in Places, NEW entry \in Blocks,
         place.frame \in DOMAIN F, F[place.frame].next \in DOMAIN F \union {NoFrame},
         NEW i \in 1 .. Len(F[place.frame].entries), NEW boundary,
         boundary = OffsetOf(F[place.frame], i)
  PROVE  HalvedAt(h, F, place, entry, boundary) \in Answers
<1> DEFINE f == F[place.frame]
           lower == place.offset <= boundary
           lowerLen == boundary - FRAME_HEADER_LEN + (IF lower THEN entry.len ELSE 0)
           upperLen == records_end(f) - boundary + (IF lower THEN 0 ELSE entry.len)
           intoNext == f.next # NoFrame /\ free(F[f.next]) >= upperLen
           fits == lowerLen <= FRAME_CAPACITY /\ upperLen <= FRAME_CAPACITY
           new == allocate_frame(h)
           to == IF intoNext THEN f.next ELSE new.frame
           inTo == place.offset - boundary + FRAME_HEADER_LEN
           below == split_off(f, boundary)
           above == [entries |-> SplitOffEntries(f, boundary), next |-> f.next]
           half == IF lower THEN insert(below, place.offset, <<entry>>) ELSE below
           upper == IF lower THEN above ELSE insert(above, inTo, <<entry>>)
           filled == IF intoNext THEN insert(F[f.next], FRAME_HEADER_LEN, upper.entries) ELSE upper
           Cell(c) ==
             CASE c.frame = place.frame /\ c.offset >= boundary ->
                    [frame |-> to, offset |-> c.offset - boundary + FRAME_HEADER_LEN
                       + (IF ~lower /\ c.offset >= place.offset THEN entry.len ELSE 0)]
               [] c.frame = place.frame /\ c.offset < boundary /\ lower
                    /\ c.offset >= place.offset -> [c EXCEPT !.offset = @ + entry.len]
               [] intoNext /\ c.frame = to -> [c EXCEPT !.offset = @ + upperLen]
               [] OTHER -> c
           base == IF intoNext THEN h ELSE new.h
           cells == [s \in Seconds |-> Cell(base.cells[s])]
           tail == IF f.next = NoFrame THEN to ELSE base.tail
           moved == [base EXCEPT !.cells = cells, !.tail = tail]
           kept == [half EXCEPT !.next = IF intoNext THEN half.next ELSE to]
           all == [h |-> mark_dirty(mark_dirty(moved, to, filled), place.frame, kept),
                   cell |-> IF lower THEN place ELSE [frame |-> to, offset |-> inTo]]
<1>1. /\ f \in Loose /\ used(f) <= FRAME_CAPACITY /\ used(f) \in Nat /\ place.frame \in Nat
      /\ f.next \in Int /\ (f.next # NoFrame => f.next \in DOMAIN F /\ f.next \in Nat)
  <2>1. f \in FrameSet /\ place.frame \in Nat /\ f.next \in DOMAIN F \union {NoFrame}
    BY FramesAre
  <2>2. f \in Loose /\ used(f) <= FRAME_CAPACITY
    BY <2>1 DEF FrameSet
  <2> QED
    BY <2>1, <2>2, UsedIs, FramesAre
<1>2. /\ below \in Loose /\ used(below) = boundary - FRAME_HEADER_LEN
      /\ SplitOffEntries(f, boundary) \in Seq(Entries)
      /\ Whole(SplitOffEntries(f, boundary)) = records_end(f) - boundary
  <2>1. i \in 1 .. Len(f.entries) /\ boundary = OffsetOf(f, i)
    OBVIOUS
  <2> HIDE DEF f
  <2> QED
    BY <1>1, <2>1, SplitIs
<1>3. boundary \in Int /\ records_end(f) \in Int /\ place.offset \in Int /\ place.frame \in Int
  <2>1. i \in 1 .. Len(f.entries) /\ boundary = OffsetOf(f, i)
    OBVIOUS
  <2> HIDE DEF f
  <2>2. boundary \in Int
    <3>1. \A j \in 1 .. Len(f.entries) : OffsetOf(f, j) \in Int
      BY <1>1, FrameAssumption, BeforeIs
    <3> QED
      BY <2>1, <3>1
  <2> QED
    BY <1>1, <2>2, FrameAssumption DEF records_end, Places
<1>4. /\ <<entry>> \in Seq(Entries) /\ Whole(<<entry>>) = entry.len /\ entry.len \in Nat /\ entry.len > 0
  BY BlockIs
<1>5. HalvedAt(h, F, place, entry, boundary) =
        CASE ~fits -> Fail(h, "an entry fits neither half")
          [] fits /\ ~intoNext /\ room_for_frames(h) = 0 -> Fail(h, "no room for a frame")
          [] OTHER -> all
  BY DEF HalvedAt, Halved
<1>6. new.h \in Slots /\ new.frame \in Nat
  BY AllocatedIs
<1> HIDE DEF f, new, below
<1>7. above \in Loose /\ used(above) = records_end(f) - boundary
  <2>1. \A e \in Seq(Entries) : \A next \in Int :
          [entries |-> e, next |-> next] \in Loose /\ used([entries |-> e, next |-> next]) = Whole(e)
    BY NewFrameIs, OtherEntries DEF FrameSet
  <2> QED
    BY <1>1, <1>2, <2>1
<1> HIDE DEF above
<1> DEFINE one == <<entry>>
<1> HIDE DEF one
<1>8. one \in Seq(Entries) /\ Whole(one) = entry.len /\ Whole(one) > 0 /\ one = <<entry>>
  BY <1>4 DEF one
<1>9. ASSUME fits
      PROVE  /\ half \in FrameSet
             /\ upper \in FrameSet /\ used(upper) <= upperLen /\ upperLen \in Int
  <2>1. CASE lower
    <3>1. used(below) + entry.len <= FRAME_CAPACITY /\ upperLen = used(above)
      BY <1>2, <1>3, <1>4, <1>7, <1>9, <2>1, FrameAssumption
    <3>2. insert(below, place.offset, one) \in FrameSet
      <4> DEFINE len == entry.len
      <4>1. len \in Int /\ Whole(one) <= len /\ used(below) + len <= FRAME_CAPACITY
        BY <1>4, <1>8, <3>1
      <4> HIDE DEF len
      <4> QED
        BY <1>2, <1>3, <1>8, <4>1, MoreIsPut
    <3>3. above \in FrameSet /\ used(above) \in Nat
      BY <1>7, <1>9, <3>1, UsedIs DEF FrameSet
    <3> QED
      BY <1>3, <1>8, <2>1, <3>1, <3>2, <3>3
  <2>2. CASE ~lower
    <3>1. /\ used(below) <= FRAME_CAPACITY /\ used(above) + entry.len = upperLen
          /\ used(above) + entry.len <= FRAME_CAPACITY
      BY <1>2, <1>3, <1>4, <1>7, <1>9, <2>2, FrameAssumption
    <3>2. insert(above, inTo, one) \in FrameSet /\ used(insert(above, inTo, one)) <= used(above) + entry.len
      <4> DEFINE len == entry.len
      <4>1. len \in Int /\ Whole(one) <= len /\ used(above) + len <= FRAME_CAPACITY /\ inTo \in Int
        BY <1>3, <1>4, <1>8, <3>1, FrameAssumption
      <4>2. entry.len = len
        OBVIOUS
      <4> HIDE DEF len, inTo
      <4> QED
        BY <1>7, <1>8, <4>1, <4>2, MoreIsPut
    <3>3. below \in FrameSet
      BY <1>2, <3>1 DEF FrameSet
    <3>4. upperLen \in Int
      BY <1>3, <1>4
    <3> QED
      BY <1>8, <2>2, <3>1, <3>2, <3>3, <3>4
  <2> QED
    BY <2>1, <2>2
<1>10. to \in Nat
  BY <1>1, <1>6
<1> HIDE DEF half, upper
<1>11. ASSUME fits PROVE filled \in FrameSet
  <2>1. CASE intoNext
    <3> DEFINE g == F[f.next]
               more == upper.entries
    <3>1. f.next \in DOMAIN F
      BY <1>1, <2>1
    <3>2. g \in Loose /\ used(g) \in Nat
      <4>1. g \in FrameSet
        BY <3>1, FramesAre
      <4> QED
        BY <4>1, UsedIs DEF FrameSet
    <3>3. more \in Seq(Entries) /\ Whole(more) <= upperLen /\ upperLen \in Int
      <4>1. upper \in Loose /\ used(upper) <= upperLen /\ upperLen \in Int
        BY <1>9, <1>11 DEF FrameSet
      <4> QED
        BY <4>1, UsedIs
    <3>4. used(g) + upperLen <= FRAME_CAPACITY
      BY <2>1, <3>2, <3>3, FrameAssumption DEF free
    <3> DEFINE len == upperLen
    <3> HIDE DEF g, more, len, upperLen
    <3>5. IsBoundary(g, FRAME_HEADER_LEN) /\ FRAME_HEADER_LEN \in Int
      BY <3>2, StartIsABoundary, FrameAssumption
    <3>6. insert(g, FRAME_HEADER_LEN, more) \in FrameSet
      BY <3>2, <3>3, <3>4, <3>5, MoreIsPut
    <3> QED
      BY <2>1, <3>6 DEF g, more
  <2>2. CASE ~intoNext
    BY <1>9, <1>11, <2>2
  <2> QED
    BY <2>1, <2>2
<1> HIDE DEF filled
<1>12. ASSUME fits PROVE kept \in FrameSet
  <2> DEFINE next == IF intoNext THEN half.next ELSE to
  <2>1. half \in Loose /\ used(half) <= FRAME_CAPACITY
    BY <1>9, <1>12 DEF FrameSet
  <2>2. next \in Int
    BY <1>10, <2>1, UsedIs
  <2> HIDE DEF next, to, fits
  <2>3. [half EXCEPT !.next = next] \in Loose /\ used([half EXCEPT !.next = next]) = used(half)
    BY <2>1, <2>2, NoEntries, OtherEntries
  <2>4. [half EXCEPT !.next = next] \in FrameSet
    BY <2>1, <2>3 DEF FrameSet
  <2> QED
    BY <2>4 DEF next
<1>13. ASSUME fits PROVE cells \in Cells
  <2>1. base.cells \in Cells
    BY <1>6, SlotIs
  <2>2. upperLen \in Int
    BY <1>9, <1>13
  <2> HIDE DEF intoNext, upperLen, base, lower, to, fits
  <2>3. \A c \in Places : Cell(c) \in Places
    <3> TAKE c \in Places
    <3> DEFINE by == IF ~lower /\ c.offset >= place.offset THEN entry.len ELSE 0
               moved1 == [frame |-> to, offset |-> c.offset - boundary + FRAME_HEADER_LEN + by]
               moved2 == [c EXCEPT !.offset = c.offset + entry.len]
               moved3 == [c EXCEPT !.offset = c.offset + upperLen]
    <3>1. c.offset \in Int /\ by \in Int
      BY <1>4 DEF Places
    <3>2. moved1 \in Places
      BY <1>3, <1>10, <3>1, FrameAssumption DEF Places
    <3>3. moved2 \in Places
      BY <1>4, <3>1 DEF Places
    <3>4. moved3 \in Places
      BY <2>2, <3>1 DEF Places
    <3>5. \/ Cell(c) = moved1 \/ Cell(c) = moved2 \/ Cell(c) = moved3 \/ Cell(c) = c
      <4> HIDE DEF moved1, moved2, moved3
      <4>1. Cell(c) =
             CASE c.frame = place.frame /\ c.offset >= boundary -> moved1
               [] c.frame = place.frame /\ c.offset < boundary /\ lower
                    /\ c.offset >= place.offset -> moved2
               [] intoNext /\ c.frame = to -> moved3
               [] OTHER -> c
        BY DEF moved1, moved2, moved3
      <4> HIDE DEF Cell
      <4> QED
        BY <4>1
    <3> HIDE DEF moved1, moved2, moved3, Cell
    <3> QED
      BY <3>2, <3>3, <3>4, <3>5
  <2> HIDE DEF Cell
  <2> QED
    BY <2>1, <2>3 DEF Cells
<1>14. ASSUME fits PROVE moved \in Slots
  <2>1. base \in Slots
    BY <1>6
  <2>2. tail \in Int
    BY <1>10, <2>1, SlotIs
  <2>3. cells \in Cells
    BY <1>13, <1>14
  <2> HIDE DEF base, tail, cells, fits
  <2>4. [base EXCEPT !.cells = cells] \in Slots
    BY <2>1, <2>3, SlotWith
  <2> DEFINE x == [base EXCEPT !.cells = cells]
  <2>5. x \in Slots
    BY <2>4
  <2>6. moved = [x EXCEPT !.tail = tail]
    OBVIOUS
  <2> HIDE DEF x, moved
  <2>7. [x EXCEPT !.tail = tail] \in Slots
    BY <2>2, <2>5, SlotWith
  <2> QED
    BY <2>6, <2>7
<1>15. inTo \in Int
  BY <1>3, FrameAssumption
<1>16. ASSUME fits PROVE all \in Answers
  <2> DEFINE first == mark_dirty(moved, to, filled)
             cell == IF lower THEN place ELSE [frame |-> to, offset |-> inTo]
  <2>1. moved \in Slots /\ filled \in FrameSet /\ kept \in FrameSet
    BY <1>11, <1>12, <1>14, <1>16
  <2>2. cell \in Places
    BY <1>10, <1>15 DEF Places
  <2> HIDE DEF moved, kept, cell, to, fits, lower
  <2>3. first \in Slots
    BY <1>10, <2>1, DirtyIs
  <2> HIDE DEF first
  <2>4. mark_dirty(first, place.frame, kept) \in Slots
    BY <1>1, <2>1, <2>3, DirtyIs
  <2> QED
    BY <2>2, <2>4 DEF Answers, first, cell
<1> HIDE DEF fits, all, intoNext
<1>17. Fail(h, "an entry fits neither half") \in Answers /\ Fail(h, "no room for a frame") \in Answers
  <2>1. "no room for a frame" \in Reasons /\ "an entry fits neither half" \in Reasons
    BY DEF Reasons
  <2> QED
    BY <2>1, FailIs
<1> QED
  BY <1>5, <1>16, <1>17

LEMMA HalvedOrNot ==
  ASSUME disk.frames \in FrameMaps, NEW h \in Slots, NEW place \in Places, NEW entry \in Blocks,
         place.frame \in DOMAIN FramesOf(h, disk)
  PROVE  halve_and_insert(h, FramesOf(h, disk), place, entry) \in Answers
<1> DEFINE F == FramesOf(h, disk)
           f == F[place.frame]
           reads == f.next \in DOMAIN F \union {NoFrame}
<1>1. F \in FrameMaps
  BY SlotIs, FramesRead
<1>2. halve_and_insert(h, F, place, entry) =
        CASE ~reads -> Fail(h, "the chain does not read")
          [] reads /\ Boundaries(f) = {} -> Fail(h, "a full frame has a single entry")
          [] OTHER -> HalvedAt(h, F, place, entry, Halves(f))
  BY DEF halve_and_insert
<1>3. Fail(h, "the chain does not read") \in Answers
      /\ Fail(h, "a full frame has a single entry") \in Answers
  <2>1. "the chain does not read" \in Reasons /\ "a full frame has a single entry" \in Reasons
    BY DEF Reasons
  <2> QED
    BY <2>1, FailIs
<1>4. place.frame \in DOMAIN F
  OBVIOUS
<1> HIDE DEF F
<1>5. f \in Loose
  BY <1>1, <1>4, FramesAre DEF FrameSet
<1>6. CASE reads /\ Boundaries(f) # {}
  <2>1. PICK i \in 1 .. Len(f.entries) : Halves(f) = OffsetOf(f, i)
    <3> HIDE DEF f
    <3> QED
      BY <1>5, <1>6, HalvesIs
  <2> DEFINE boundary == Halves(f)
  <2>2. boundary = OffsetOf(F[place.frame], i) /\ i \in 1 .. Len(F[place.frame].entries)
    BY <2>1
  <2>3. F[place.frame].next \in DOMAIN F \union {NoFrame}
    BY <1>6
  <2> HIDE DEF boundary
  <2>4. HalvedAt(h, F, place, entry, boundary) \in Answers
    BY <1>1, <1>4, <2>2, <2>3, HalvedIs
  <2>5. halve_and_insert(h, F, place, entry) = HalvedAt(h, F, place, entry, boundary)
    <3> HIDE DEF reads, f
    <3> QED
      BY <1>2, <1>6 DEF boundary
  <2> QED
    BY <2>4, <2>5 DEF F
<1>7. CASE ~(reads /\ Boundaries(f) # {})
  <2> HIDE DEF reads, f
  <2> QED
    BY <1>2, <1>3, <1>7 DEF F
<1> QED
  BY <1>6, <1>7

LEMMA EntryIsInserted ==
  ASSUME disk.frames \in FrameMaps, NEW h \in Slots, NEW place \in Places, NEW entry \in Blocks,
         place.frame \in DOMAIN FramesOf(h, disk)
  PROVE  InsertInto(h, FramesOf(h, disk), place, entry) \in Answers
<1> DEFINE F == FramesOf(h, disk)
           f == F[place.frame]
<1>1. CASE entry.len <= free(f)
  <2>1. insert_into_frame(h, place, entry) \in Answers
    BY <1>1, InsertedIntoFrame
  <2>2. InsertInto(h, F, place, entry) = insert_into_frame(h, place, entry)
    <3> DEFINE over == entry.len > free(f) /\ place.offset < records_end(f)
               fits == entry.len <= free(f)
    <3>1. InsertInto(h, F, place, entry) =
            CASE fits -> insert_into_frame(h, place, entry)
              [] over -> halve_and_insert(h, F, place, entry)
              [] OTHER -> append_frame(h, place.frame, entry)
      BY DEF InsertInto
    <3>2. f \in Loose
      <4>1. F \in FrameMaps /\ place.frame \in DOMAIN F
        BY SlotIs, FramesRead
      <4> HIDE DEF F
      <4> QED
        BY <4>1, FramesAre DEF FrameSet
    <3>3. used(f) \in Nat /\ entry.len \in Nat
      <4> HIDE DEF f
      <4>1. used(f) \in Nat
        BY <3>2, UsedIs
      <4>2. entry.len \in Nat
        BY BlockIs
      <4> QED
        BY <4>1, <4>2
    <3>4. fits /\ ~over
      <4> HIDE DEF f
      <4> QED
        BY <1>1, <3>3, FrameAssumption DEF free, f
    <3> HIDE DEF over, fits, F
    <3> QED
      BY <3>1, <3>4
  <2> QED
    BY <2>1, <2>2
<1>2. CASE ~(entry.len <= free(f))
  <2>1. halve_and_insert(h, F, place, entry) \in Answers
    BY HalvedOrNot
  <2>2. append_frame(h, place.frame, entry) \in Answers
    BY FrameIsAppended
  <2>3. \/ InsertInto(h, F, place, entry) = halve_and_insert(h, F, place, entry)
        \/ InsertInto(h, F, place, entry) = append_frame(h, place.frame, entry)
    <3> DEFINE over == entry.len > free(f) /\ place.offset < records_end(f)
               fits == entry.len <= free(f)
    <3>1. InsertInto(h, F, place, entry) =
            CASE fits -> insert_into_frame(h, place, entry)
              [] over -> halve_and_insert(h, F, place, entry)
              [] OTHER -> append_frame(h, place.frame, entry)
      BY DEF InsertInto
    <3>2. ~fits
      BY <1>2
    <3> HIDE DEF over, fits, F
    <3> QED
      BY <3>1, <3>2
  <2> QED
    BY <2>1, <2>2, <2>3
<1> QED
  BY <1>1, <1>2

LEMMA BlockIsInserted ==
  ASSUME disk.frames \in FrameMaps, NEW h \in Slots, NEW place \in Places, NEW entry \in Blocks
  PROVE  insert_at(h, place, entry) \in Answers
<1> DEFINE F == FramesOf(h, disk)
           chain == Follow(F, place.frame)
           At(i) == [frame  |-> chain[i],
                     offset |-> IF i = 1 THEN place.offset ELSE FRAME_HEADER_LEN]
           Takes(i) == \/ entry.len <= free(F[chain[i]])
                       \/ At(i).offset < records_end(F[chain[i]])
                       \/ F[chain[i]].next = NoFrame
           taking == {i \in DOMAIN chain : Takes(i)}
<1>1. insert_at(h, place, entry) =
        CASE place = NoCell -> append_frame(h, NoFrame, entry)
          [] place # NoCell /\ taking = {} -> Fail(h, "the chain does not read")
          [] OTHER -> InsertInto(h, F, At(Min(taking)), entry)
  BY DEF insert_at
<1>2. append_frame(h, NoFrame, entry) \in Answers
  BY FrameIsAppended
<1>3. Fail(h, "the chain does not read") \in Answers
  <2>1. "the chain does not read" \in Reasons
    BY DEF Reasons
  <2> QED
    BY <2>1, FailIs
<1>4. F \in FrameMaps
  BY SlotIs, FramesRead
<1>5. taking \subseteq DOMAIN chain
  OBVIOUS
<1>6. chain \in Seq(DOMAIN F)
  <2>1. CASE place.frame \in DOMAIN F
    <3> HIDE DEF F
    <3> QED
      BY <1>4, <2>1, FollowIs DEF ChainsFrom
  <2>2. CASE place.frame \notin DOMAIN F
    <3>1. chain = <<>>
      BY <2>2 DEF Follow
    <3>2. <<>> \in Seq(DOMAIN F)
      OBVIOUS
    <3> QED
      BY <3>1, <3>2
  <2> QED
    BY <2>1, <2>2
<1> HIDE DEF taking, chain
<1>7. CASE taking # {}
  <2> DEFINE m == Min(taking)
             at == At(m)
  <2>1. m \in DOMAIN chain
    <3>1. taking \subseteq Nat
      BY <1>5, <1>6
    <3>2. m \in taking
      BY <1>7, <3>1, MinIs
    <3> QED
      BY <1>5, <3>2
  <2> HIDE DEF m
  <2>2. chain[m] \in DOMAIN F /\ chain[m] \in Int
    <3>1. chain[m] \in DOMAIN F
      <4> DEFINE D == DOMAIN F
      <4> HIDE DEF D
      <4>1. chain \in Seq(D)
        BY <1>6 DEF D
      <4>2. chain[m] \in D
        BY <2>1, <4>1
      <4> QED
        BY <4>2 DEF D
    <3> HIDE DEF F
    <3> QED
      BY <1>4, <3>1, FramesAre
  <2>3. at \in Places /\ at.frame \in DOMAIN F
    <3>1. place.offset \in Int /\ FRAME_HEADER_LEN \in Int
      BY FrameAssumption DEF Places
    <3> HIDE DEF F
    <3> QED
      BY <2>2, <3>1 DEF Places
  <2>4. At(Min(taking)) = at
    BY DEF m
  <2> HIDE DEF at
  <2>5. InsertInto(h, F, at, entry) \in Answers
    BY <2>3, EntryIsInserted
  <2> HIDE DEF F
  <2>6. \/ insert_at(h, place, entry) = append_frame(h, NoFrame, entry)
        \/ insert_at(h, place, entry) = InsertInto(h, F, at, entry)
    <3>1. insert_at(h, place, entry) =
            CASE place = NoCell -> append_frame(h, NoFrame, entry)
              [] place # NoCell /\ taking = {} -> Fail(h, "the chain does not read")
              [] OTHER -> InsertInto(h, F, at, entry)
      BY <1>1, <2>4
    <3> QED
      BY <1>7, <3>1
  <2> QED
    BY <1>2, <2>5, <2>6
<1>8. CASE taking = {}
  <2> HIDE DEF F
  <2> QED
    BY <1>1, <1>2, <1>3, <1>8
<1> QED
  BY <1>7, <1>8

LEMMA EntryIsRemoved ==
  ASSUME disk.frames \in FrameMaps, NEW h \in Slots, NEW place \in Places,
         place.frame \in DOMAIN FramesOf(h, disk),
         NEW i \in 1 .. Len(FramesOf(h, disk)[place.frame].entries),
         place.offset = OffsetOf(FramesOf(h, disk)[place.frame], i)
  PROVE  remove_entry(h, place) \in Slots
<1> DEFINE F == FramesOf(h, disk)
           f == F[place.frame]
           len == f.entries[Before(f, place.offset) + 1].len
           cells == Shift(h.cells, place.frame, place.offset + 1, Past, -len)
           moved == [h EXCEPT !.cells = cells]
           g == remove(f, place.offset)
<1>1. F \in FrameMaps
  BY SlotIs, FramesRead
<1>2. f \in FrameSet /\ place.frame \in Nat
  <2>1. place.frame \in DOMAIN F
    OBVIOUS
  <2> HIDE DEF F
  <2> QED
    BY <1>1, <2>1, FramesAre
<1>3. i \in 1 .. Len(f.entries) /\ place.offset = OffsetOf(f, i)
  OBVIOUS
<1>4. remove_entry(h, place) = mark_dirty(moved, place.frame, g)
  BY DEF remove_entry
<1> HIDE DEF F, f
<1>5. f \in Loose /\ used(f) <= FRAME_CAPACITY /\ used(f) \in Nat
  BY <1>2, UsedIs DEF FrameSet
<1>6. place.offset \in Int
  BY DEF Places
<1>7. len \in Nat
  <2>1. Before(f, place.offset) = i - 1
    <3>1. \A j \in 1 .. Len(f.entries) : Before(f, OffsetOf(f, j)) = j - 1
      BY <1>5, <1>6, BeforeIs
    <3> QED
      BY <1>3, <3>1
  <2>2. i - 1 + 1 = i
    BY <1>3
  <2>3. f.entries[i] \in Entries
    BY <1>3, <1>5, UsedIs
  <2> QED
    BY <2>1, <2>2, <2>3 DEF Entries
<1> HIDE DEF len
<1>8. cells \in Cells
  <2>1. h.cells \in Cells /\ place.offset + 1 \in Int /\ -len \in Int
    BY <1>6, <1>7, SlotIs
  <2> DEFINE from == place.offset + 1
             by == -len
  <2>2. from \in Int /\ by \in Int
    BY <2>1
  <2> HIDE DEF from, by
  <2>3. Shift(h.cells, place.frame, from, Past, by) \in Cells
    BY <2>1, <2>2, ShiftedIs
  <2> QED
    BY <2>3 DEF from, by
<1>9. g \in FrameSet
  <2>1. g \in Loose /\ used(g) <= used(f)
    BY <1>5, <1>6, RemovedIs
  <2>2. used(g) \in Nat
    BY <2>1, UsedIs
  <2> QED
    BY <1>5, <2>1, <2>2, FrameAssumption DEF FrameSet
<1> HIDE DEF cells, g
<1>10. moved \in Slots
  BY <1>8, SlotWith
<1> HIDE DEF moved
<1> QED
  BY <1>2, <1>4, <1>9, <1>10, DirtyIs

-------------------------------------------------------------------------------
(* The blocks of a second. *)
LEMMA BlocksAreInserted ==
  ASSUME disk.frames \in FrameMaps, NEW h \in Slots, NEW second \in Seconds, NEW place \in Places,
         NEW isFirst, NEW blocks \in Seq(Blocks)
  PROVE  InsertBlocks(h, second, place, isFirst, blocks) \in Slots
<1> DEFINE A == [h : Slots, place : Places]
           After(in, i) ==
             [h |-> IF i = 1 /\ isFirst /\ in.h.failure = ""
                    THEN [in.h EXCEPT !.cells[second] = in.cell] ELSE in.h,
              place |-> [in.cell EXCEPT !.offset = @ + blocks[i].len]]
           Put(done, i) == IF done.h.failure # "" THEN done
                           ELSE After(insert_at(done.h, done.place, blocks[i]), i)
           none == [h |-> h, place |-> place]
           places == [i \in DOMAIN blocks |-> i]
           n == Len(blocks)
           S == 1 .. n
           IsIter(f) == f = [s \in SUBSET S |-> IF s = {} THEN none
                                                ELSE Put(f[s \ {Max(s)}], places[Max(s)])]
           op == [xa \in S \X A |-> Put(xa[2], places[xa[1]])]
           iter == CHOOSE f : IsIter(f)
<1>1. n \in Nat /\ DOMAIN blocks = S /\ (\A i \in S : blocks[i] \in Blocks)
      /\ DOMAIN places = S /\ (\A i \in S : places[i] = i)
  OBVIOUS
<1>2. none \in A
  OBVIOUS
<1>3. \A a \in A, i \in S : Put(a, places[i]) \in A
  <2> TAKE a \in A, i \in S
  <2>1. places[i] = i /\ blocks[i] \in Blocks /\ a.h \in Slots /\ a.place \in Places
    BY <1>1
  <2> HIDE DEF places, S
  <2>2. CASE a.h.failure # ""
    BY <2>2
  <2>3. CASE a.h.failure = ""
    <3> DEFINE in == insert_at(a.h, a.place, blocks[i])
               moved == [in.h EXCEPT !.cells[second] = in.cell]
               next == [in.cell EXCEPT !.offset = @ + blocks[i].len]
    <3>1. in \in Answers
      BY <2>1, BlockIsInserted
    <3>2. in.h \in Slots /\ in.cell \in Places
      BY <3>1 DEF Answers
    <3>3. Put(a, places[i]) = [h |-> IF i = 1 /\ isFirst /\ in.h.failure = "" THEN moved ELSE in.h,
                               place |-> next]
      BY <2>1, <2>3
    <3> HIDE DEF in
    <3>4. moved \in Slots
      <4> DEFINE cells == [in.h.cells EXCEPT ![second] = in.cell]
      <4>1. in.h.cells \in Cells
        BY <3>2, SlotIs
      <4>2. cells \in Cells
        BY <3>2, <4>1 DEF Cells
      <4>3. moved = [in.h EXCEPT !.cells = cells]
        OBVIOUS
      <4> HIDE DEF cells, moved
      <4> QED
        BY <3>2, <4>2, <4>3, SlotWith
    <3>5. next \in Places
      <4>1. blocks[i].len \in Int
        BY <2>1 DEF Blocks, Entries
      <4> QED
        BY <3>2, <4>1 DEF Places
    <3> DEFINE which == IF i = 1 /\ isFirst /\ in.h.failure = "" THEN moved ELSE in.h
    <3>6. which \in Slots
      BY <3>2, <3>4
    <3>7. Put(a, places[i]) = [h |-> which, place |-> next]
      BY <3>3
    <3> HIDE DEF moved, next, Put, which
    <3>8. [h |-> which, place |-> next] \in A
      BY <3>5, <3>6
    <3> QED
      BY <3>7, <3>8
  <2> QED
    BY <2>2, <2>3
<1>4. InsertBlocks(h, second, place, isFirst, blocks) = FoldLeft(Put, none, places).h
  BY DEF InsertBlocks
<1> HIDE DEF A, Put, After, none, n, places
<1>5. \E f : IsIter(f)
  <2>1. op \in [S \X A -> A]
    BY <1>3
  <2>2. PICK f : IsLeftFold(f, n, A, none, op)
    <3> HIDE DEF op
    <3> QED
      BY <1>1, <1>2, <2>1, LeftFoldExists
  <2>3. \A s \in SUBSET S : s # {} =>
          op[<<Max(s), f[s \ {Max(s)}]>>] = Put(f[s \ {Max(s)}], places[Max(s)])
    <3> TAKE s \in SUBSET S
    <3> HAVE s # {}
    <3>1. Max(s) \in S
      BY <1>1, HighestIs
    <3>2. f[s \ {Max(s)}] \in A
      BY <2>2 DEF IsLeftFold
    <3> QED
      BY <3>1, <3>2
  <2> HIDE DEF op, S
  <2>4. IsIter(f)
    BY <2>2, <2>3 DEF S, IsLeftFold
  <2> QED
    BY <2>4
<1>6. IsIter(iter)
  <2> HIDE DEF IsIter
  <2> QED
    BY <1>5
<1>7. FoldLeft(Put, none, places) = iter[1 .. n]
  BY <1>1 DEF FoldLeft, MapThenFoldSet
<1> HIDE DEF iter
<1>8. iter[1 .. n] \in A
  <2>1. iter[{}] \in A
    BY <1>2, <1>6
  <2>2. \A s \in SUBSET (1 .. n) :
          s # {} /\ iter[s \ {Max(s)}] \in A => iter[s] \in A
    <3> TAKE s \in SUBSET (1 .. n)
    <3> HAVE s # {} /\ iter[s \ {Max(s)}] \in A
    <3>1. iter[s] = Put(iter[s \ {Max(s)}], places[Max(s)])
      BY <1>6
    <3>2. Max(s) \in S
      BY <1>1, HighestIs
    <3> QED
      BY <1>3, <3>1, <3>2
  <2> QED
    BY <1>1, <2>1, <2>2, LeftFoldIn
<1> QED
  BY <1>4, <1>7, <1>8 DEF A

LEMMA BlocksAreCounted ==
  ASSUME NEW h \in Slots, NEW second \in Seconds, NEW removed \in Int, NEW came \in Int,
         NEW written \in Int
  PROVE  Counted(h, second, removed, came, written) \in Slots
<1> DEFINE lost == Less(removed + came, written)
           counts == [h.counts EXCEPT ![second] = @ - removed + written]
           key == forget_records(h.key, lost)
           process == forget_records(h.process, lost)
           last == IF h.last < second THEN second ELSE h.last
           c == [h EXCEPT !.counts = counts, !.key = key, !.process = process, !.last = last]
<1>1. lost \in Int
  BY DEF Less
<1>2. counts \in Counts
  <2>1. h.counts \in [Seconds -> Int]
    BY SlotIs DEF Counts
  <2>2. h.counts[second] - removed + written \in Int
    BY <2>1
  <2> QED
    BY <2>1, <2>2 DEF Counts
<1> HIDE DEF lost
<1>3. key \in KeyIndexes
  BY <1>1, SlotIs, RecordsAreForgotten
<1>4. process \in ProcessIndexes
  BY <1>1, SlotIs, RecordsAreForgotten
<1>5. last \in Int
  BY SlotIs DEF Seconds
<1> HIDE DEF counts, key, process, last
<1>6. c \in Slots
  BY <1>2, <1>3, <1>4, <1>5 DEF Slots, SlotRecords
<1> HIDE DEF c
<1>7. Counted(h, second, removed, came, written) = c
  BY DEF Counted, c, counts, key, process, last, lost
<1> QED
  BY <1>6, <1>7

LEMMA BlocksArePut ==
  ASSUME disk.frames \in FrameMaps, NEW h \in Slots, NEW second \in Seconds, NEW place \in Places,
         NEW isFirst, NEW blocks \in Seq(Blocks), NEW removed \in Int, NEW came \in Int
  PROVE  PutBlocks(h, second, place, isFirst, blocks, removed, came) \in Slots
<1> DEFINE written == RecordsIn(blocks)
           after == InsertBlocks(h, second, place, isFirst, blocks)
<1>1. after \in Slots
  BY BlocksAreInserted
<1>2. written \in Int
  <2> DEFINE D == DOMAIN blocks
             lens == [i \in D |-> Len(blocks[i].records)]
  <2>1. D = 1 .. Len(blocks) /\ Len(blocks) \in Nat /\ \A i \in D : blocks[i] \in Blocks
    OBVIOUS
  <2>2. \A i \in D : lens[i] \in Nat
    BY <2>1 DEF Blocks, Entries
  <2>3. DOMAIN lens = D
    OBVIOUS
  <2>4. IsFiniteSet(D)
    BY <2>1, FS_Interval
  <2>5. RecordsIn(blocks) = SumFunctionOnSet(lens, D)
    BY <2>3 DEF RecordsIn, SumFunction
  <2> HIDE DEF lens, D
  <2>6. SumFunctionOnSet(lens, D) \in Nat
    BY <2>2, <2>4, SumIsNat
  <2> QED
    BY <2>5, <2>6
<1> HIDE DEF written, after
<1>3. Counted(after, second, removed, came, written) \in Slots
  BY <1>1, <1>2, BlocksAreCounted
<1>4. [h EXCEPT !.failure = "no room"] \in Slots
  <2>1. "no room" \in Reasons
    BY DEF Reasons
  <2> QED
    BY <2>1, SlotWith
<1> QED
  BY <1>3, <1>4 DEF PutBlocks, written, after

(* Where a new second goes, if it is anywhere. *)
LEMMA PlaceIsFound ==
  ASSUME disk.frames \in FrameMaps, NEW h \in Slots, NEW second \in Seconds, NEW place,
         place = place_for_new_second(h, second),
         place = NoCell \/ place.frame \in DOMAIN FramesOf(h, disk)
  PROVE  place \in Places
<1> DEFINE later == first_from(h.cells, second + 1)
           F == FramesOf(h, disk)
           AtEnd == [frame |-> h.tail, offset |-> records_end(F[h.tail])]
           before == h.last > second /\ later # NoSecond
<1>1. place = CASE before -> h.cells[later]
                [] ~before /\ h.tail # NoFrame -> AtEnd
                [] OTHER -> NoCell
  BY DEF place_for_new_second
<1>2. F \in FrameMaps
  BY SlotIs, FramesRead
<1>3. CASE before
  <2> DEFINE L == {s \in WithCell(h.cells) : s >= second + 1}
  <2>1. later = IF L = {} THEN NoSecond ELSE Min(L)
    BY DEF first_from
  <2>2. L \subseteq Seconds /\ Seconds \subseteq Nat
    BY MetricBlockAssumption DEF WithCell, Seconds
  <2> HIDE DEF L, later
  <2>3. L # {} /\ later = Min(L)
    BY <1>3, <2>1
  <2>4. later \in Seconds
    <3>1. L \subseteq Nat
      BY <2>2
    <3> QED
      BY <2>2, <2>3, <3>1, MinIs
  <2>5. place = h.cells[later]
    BY <1>1, <1>3
  <2>6. h.cells \in [Seconds -> Places]
    BY SlotIs DEF Cells
  <2> QED
    BY <2>4, <2>5, <2>6
<1>4. CASE ~before /\ h.tail # NoFrame
  <2> DEFINE t == h.tail
  <2>1. place = AtEnd
    <3> HIDE DEF before
    <3> QED
      BY <1>1, <1>4
  <2>2. t \in DOMAIN F
    <3>1. place # NoCell
      BY <1>4, <2>1 DEF NoCell
    <3> QED
      BY <2>1, <3>1
  <2>3. t \in Int /\ F[t] \in Loose
    <3> HIDE DEF F
    <3> QED
      BY <1>2, <2>2, FramesAre DEF FrameSet
  <2>4. records_end(F[t]) \in Int
    <3> DEFINE f == F[t]
    <3>1. f \in Loose
      BY <2>3
    <3> HIDE DEF f
    <3>2. used(f) \in Nat
      BY <3>1, UsedIs
    <3> QED
      BY <3>2, FrameAssumption DEF records_end, f
  <2> HIDE DEF F
  <2> QED
    BY <2>1, <2>3, <2>4 DEF Places
<1>5. CASE ~before /\ h.tail = NoFrame
  <2>1. place = NoCell
    <3> HIDE DEF before
    <3> QED
      BY <1>1, <1>5
  <2> QED
    BY <2>1, NoCellIs
<1> HIDE DEF before
<1> QED
  BY <1>3, <1>4, <1>5

LEMMA LastEntryIs ==
  ASSUME disk.frames \in FrameMaps, NEW h \in Slots, NEW second \in Seconds
  PROVE  LastEntry(h, second) \in [entries : Seq(FoundIn(FramesOf(h, disk))), last : Int, ok : BOOLEAN]
<1> DEFINE F == FramesOf(h, disk)
           cell == h.cells[second]
           walk == WalkFrom(F, cell)
           X == FoundIn(F)
<1>1. F \in FrameMaps
  BY SlotIs, FramesRead
<1>2. cell.offset \in Int
  <2>1. h.cells \in [Seconds -> Places]
    BY SlotIs DEF Cells
  <2> QED
    BY <2>1 DEF Places
<1>3. LastEntry(h, second) = UpTo(walk, second)
  BY DEF LastEntry
<1> HIDE DEF F, cell
<1>4. walk \in [entries : Seq(X), last : Int, ok : BOOLEAN]
  BY <1>1, <1>2, WalkIs DEF Walked
<1>5. second \in Int
  BY DEF Seconds
<1> HIDE DEF walk, X
<1>6. UpTo(walk, second) \in [entries : Seq(X), last : Int, ok : BOOLEAN]
  BY <1>4, <1>5, PartOfAWalk
<1> QED
  BY <1>3, <1>6 DEF X, F

LEMMA RecordsAreIndexed ==
  ASSUME NEW h \in Slots, NEW second \in Seconds, NEW records \in Seq(HourRecs)
  PROVE  /\ Indexed(h, second, records) \in Slots
         /\ Indexed(h, second, records).frames = h.frames
         /\ Indexed(h, second, records).files = h.files
<1> DEFINE key == KeyAddRecords(h.key, second, records)
           process == ProcessAddRecords(h.process, second, records)
           c == [h EXCEPT !.key = key, !.keyChanged = TRUE,
                          !.process = process, !.processChanged = TRUE,
                          !.keyDirectory = FALSE, !.processDirectory = FALSE]
<1>1. HourRecs \subseteq Recs
  BY RecordsOfTheHour
<1>2. records \in Seq(Recs)
  BY <1>1, SeqOfMore
<1>3. key \in KeyIndexes
  BY <1>2, SlotIs, RecordsAreCounted
<1>4. process \in ProcessIndexes
  BY <1>2, SlotIs, ProcessesAreCounted
<1>5. Indexed(h, second, records) = c
  BY DEF Indexed
<1> HIDE DEF key, process
<1>6. c \in Slots /\ c.frames = h.frames /\ c.files = h.files
  BY <1>3, <1>4 DEF Slots, SlotRecords
<1> HIDE DEF c
<1> QED
  BY <1>5, <1>6

LEMMA SecondIsAlone ==
  ASSUME disk.frames \in FrameMaps, NEW h \in Slots, NEW second \in Seconds,
         NEW records \in Seq(HourRecs)
  PROVE  Alone(h, second, records) \in Slots
<1> DEFINE place == place_for_new_second(h, second)
           blocks == compress_records(records)
           lost == place # NoCell /\ place.frame \notin DOMAIN FramesOf(h, disk)
<1>1. [h EXCEPT !.failure = "the chain does not read"] \in Slots
  <2>1. "the chain does not read" \in Reasons
    BY DEF Reasons
  <2> QED
    BY <2>1, SlotWith
<1>2. Alone(h, second, records) =
        IF lost THEN [h EXCEPT !.failure = "the chain does not read"]
        ELSE PutBlocks(h, second, place, TRUE, blocks, 0, Len(records))
  BY DEF Alone
<1>3. CASE ~lost
  <2>1. place \in Places
    <3>1. place = NoCell \/ place.frame \in DOMAIN FramesOf(h, disk)
      BY <1>3
    <3>2. place = place_for_new_second(h, second)
      OBVIOUS
    <3> HIDE DEF place
    <3> QED
      BY <3>1, <3>2, PlaceIsFound
  <2>2. blocks \in Seq(Blocks) /\ Len(records) \in Int /\ 0 \in Int
    BY BlocksFit
  <2> HIDE DEF place, blocks, lost
  <2>3. PutBlocks(h, second, place, TRUE, blocks, 0, Len(records)) \in Slots
    BY <2>1, <2>2, BlocksArePut
  <2> QED
    BY <1>2, <1>3, <2>3
<1> HIDE DEF lost
<1> QED
  BY <1>1, <1>2, <1>3

LEMMA SecondIsMerged ==
  ASSUME disk.frames \in FrameMaps, NEW h \in Slots, NEW second \in Seconds,
         NEW records \in Seq(HourRecs), NEW last \in FoundIn(FramesOf(h, disk)), NEW at,
         at = [frame |-> last.frame, offset |-> last.offset]
  PROVE  /\ Merged(h, second, records, at, last.entry) \in Slots
         /\ AfterTheLast(h, second, records, at, last.entry) \in Slots
<1> DEFINE F == FramesOf(h, disk)
           entry == last.entry
<1>1. PICK i \in 1 .. Len(F[last.frame].entries) : last.offset = OffsetOf(F[last.frame], i)
  BY DEF FoundIn
<1>2. /\ at.frame \in DOMAIN F /\ at.frame \in Int /\ at.offset \in Int /\ entry \in Entries
      /\ at \in Places
  <2>1. F \in FrameMaps
    BY SlotIs, FramesRead
  <2>2. last.frame \in DOMAIN F /\ last.offset \in Int /\ entry \in Entries
    BY DEF FoundIn
  <2> HIDE DEF F
  <2>3. last.frame \in Int
    BY <2>1, <2>2, FramesAre
  <2> QED
    BY <2>2, <2>3 DEF Places
<1>3. remove_entry(h, at) \in Slots
  <2>1. /\ at.frame \in DOMAIN FramesOf(h, disk) /\ at \in Places
        /\ i \in 1 .. Len(FramesOf(h, disk)[at.frame].entries)
        /\ at.offset = OffsetOf(FramesOf(h, disk)[at.frame], i)
    BY <1>1, <1>2
  <2> QED
    BY <2>1, EntryIsRemoved
<1>4. entry.records \in Seq(HourRecs) /\ entry.len \in Int
  BY <1>2 DEF Entries
<1> HIDE DEF entry
<1>5. Merged(h, second, records, at, entry) \in Slots
  <2> DEFINE both == ByTime(entry.records \o records)
             blocks == compress_records(both)
             left == remove_entry(h, at)
             isFirst == h.cells[second] = at
             a == Len(entry.records)
             b == Len(records)
  <2>1. entry.records \o records \in Seq(HourRecs)
    BY <1>4
  <2>2. blocks \in Seq(Blocks)
    BY <2>1, SortedByTime, BlocksFit
  <2>3. left \in Slots /\ a \in Int /\ b \in Int
    BY <1>3, <1>4
  <2> HIDE DEF both, blocks, left, isFirst, a, b
  <2>4. PutBlocks(left, second, at, isFirst, blocks, a, b) \in Slots
    BY <1>2, <2>2, <2>3, BlocksArePut
  <2> QED
    BY <2>4 DEF Merged, both, blocks, left, isFirst, a, b
<1>6. AfterTheLast(h, second, records, at, entry) \in Slots
  <2> DEFINE place == [at EXCEPT !.offset = @ + entry.len]
             blocks == compress_records(records)
             b == Len(records)
  <2>1. place \in Places
    BY <1>2, <1>4 DEF Places
  <2>2. blocks \in Seq(Blocks) /\ b \in Int /\ 0 \in Int
    BY BlocksFit
  <2> HIDE DEF place, blocks, b
  <2>3. PutBlocks(h, second, place, FALSE, blocks, 0, b) \in Slots
    BY <2>1, <2>2, BlocksArePut
  <2> QED
    BY <2>3 DEF AfterTheLast, place, blocks, b
<1> QED
  BY <1>5, <1>6 DEF entry

LEMMA SecondIsWritten ==
  ASSUME disk.frames \in FrameMaps, NEW h \in Slots, NEW second \in Seconds,
         NEW records \in Seq(HourRecs)
  PROVE  write_second(h, second, records) \in Slots
<1> DEFINE g == Indexed(h, second, records)
           walk == LastEntry(h, second)
           X == FoundIn(FramesOf(g, disk))
           last == walk.entries[Len(walk.entries)]
           at == [frame |-> last.frame, offset |-> last.offset]
           put == PutRecords(g, second, records, walk)
           fails == g.cells[second] # NoCell /\ ~walk.ok
           alone == g.cells[second] = NoCell \/ (walk.ok /\ walk.entries = <<>>)
           broken == [g EXCEPT !.failure = "the second does not read"]
           more == IF last.entry.reads THEN Merged(g, second, records, at, last.entry)
                   ELSE AfterTheLast(g, second, records, at, last.entry)
<1>1. g \in Slots /\ g.frames = h.frames /\ g.files = h.files
  BY RecordsAreIndexed
<1>2. FramesOf(g, disk) = FramesOf(h, disk)
  BY <1>1 DEF FramesOf
<1>3. walk.entries \in Seq(X) /\ walk.ok \in BOOLEAN
  <2>1. walk \in [entries : Seq(FoundIn(FramesOf(h, disk))), last : Int, ok : BOOLEAN]
    BY LastEntryIs
  <2> HIDE DEF walk
  <2> QED
    BY <1>2, <2>1
<1> HIDE DEF g, walk
<1>4. put = CASE fails -> broken
              [] alone -> Alone(g, second, records)
              [] OTHER -> more
  BY DEF PutRecords
<1>5. broken \in Slots
  <2>1. "the second does not read" \in Reasons
    BY DEF Reasons
  <2> QED
    BY <1>1, <2>1, SlotWith
<1>6. Alone(g, second, records) \in Slots
  BY <1>1, SecondIsAlone
<1>7. ASSUME fails \/ alone PROVE put \in Slots
  <2> HIDE DEF fails, alone, broken, more, put
  <2> QED
    BY <1>4, <1>5, <1>6, <1>7
<1>8. ASSUME ~fails, ~alone PROVE put \in Slots
  <2>1. last \in X
    <3>1. walk.entries # <<>>
      BY <1>3, <1>8
    <3>2. Len(walk.entries) \in Nat /\ Len(walk.entries) > 0
      <4> HIDE DEF X
      <4> QED
        BY <1>3, <3>1
    <3> HIDE DEF X
    <3> QED
      BY <1>3, <3>2
  <2> HIDE DEF last
  <2>2. more \in Slots
    <3> HIDE DEF more
    <3>1. Merged(g, second, records, at, last.entry) \in Slots
          /\ AfterTheLast(g, second, records, at, last.entry) \in Slots
      BY <1>1, <2>1, SecondIsMerged
    <3> QED
      BY <3>1 DEF more
  <2> HIDE DEF fails, alone, broken, more, put
  <2> QED
    BY <1>4, <1>8, <2>2
<1>9. put \in Slots
  BY <1>7, <1>8
<1>10. write_second(h, second, records) = IF h.failure # "" THEN h ELSE put
  BY DEF write_second, g, walk
<1> HIDE DEF put
<1> QED
  BY <1>9, <1>10

(* The seconds of a batch, and the batches an hour has been written with. *)
LEMMA SecondsAreWritten ==
  ASSUME disk.frames \in FrameMaps, NEW h \in Slots, NEW ids \in SUBSET AllRecords, IsFiniteSet(ids)
  PROVE  WriteSeconds(h, ids) \in Slots
<1> DEFINE T == {second_of(Data[r].time) : r \in ids}
           seconds == InOrder(T, <)
           Write1(done, second) == write_second(done, second, RecordsAt(ids, second))
           n == Len(seconds)
           S == 1 .. n
           IsIter(f) == f = [s \in SUBSET S |-> IF s = {} THEN h
                                                ELSE Write1(f[s \ {Max(s)}], seconds[Max(s)])]
           op == [xa \in S \X Slots |-> Write1(xa[2], seconds[xa[1]])]
           iter == CHOOSE f : IsIter(f)
<1>1. T \subseteq Seconds /\ Seconds \subseteq Int
  BY HourFileAssumption DEF Seconds
<1>2. IsFiniteSet(T)
  <2> DEFINE f == [r \in ids |-> second_of(Data[r].time)]
  <2>1. T = {f[r] : r \in ids}
    OBVIOUS
  <2> HIDE DEF f, T
  <2> QED
    BY <2>1, ImageIsFinite
<1>3. WriteSeconds(h, ids) = FoldLeft(Write1, h, seconds)
  BY DEF WriteSeconds
<1> HIDE DEF T
<1>4. Sorts(seconds, T, Smaller)
  BY <1>1, <1>2, NumbersInOrder
<1> HIDE DEF seconds
<1>5. n \in Nat /\ DOMAIN seconds = S /\ \A i \in S : seconds[i] \in Seconds
  <2>1. seconds \in Seq(T)
    BY <1>4 DEF Sorts
  <2>2. n \in Nat /\ DOMAIN seconds = S /\ \A i \in S : seconds[i] \in T
    BY <2>1
  <2> QED
    BY <1>1, <2>2
<1>6. \A a \in Slots, i \in S : Write1(a, seconds[i]) \in Slots
  <2> TAKE a \in Slots, i \in S
  <2>1. seconds[i] \in Seconds /\ seconds[i] \in Int
    BY <1>1, <1>5
  <2>2. RecordsAt(ids, seconds[i]) \in Seq(HourRecs)
    BY <2>1, RecordsOfASecond
  <2> QED
    BY <2>1, <2>2, SecondIsWritten
<1> HIDE DEF Write1, n
<1>7. \E f : IsIter(f)
  <2> DEFINE A == Slots
  <2>1. op \in [S \X A -> A]
    BY <1>6
  <2>2. h \in A
    OBVIOUS
  <2> HIDE DEF A
  <2>3. PICK f : IsLeftFold(f, n, A, h, op)
    <3> HIDE DEF op
    <3> QED
      BY <1>5, <2>1, <2>2, LeftFoldExists
  <2>4. \A s \in SUBSET S : s # {} =>
          op[<<Max(s), f[s \ {Max(s)}]>>] = Write1(f[s \ {Max(s)}], seconds[Max(s)])
    <3> TAKE s \in SUBSET S
    <3> HAVE s # {}
    <3>1. Max(s) \in S
      BY <1>5, HighestIs
    <3>2. f[s \ {Max(s)}] \in Slots
      BY <2>3 DEF IsLeftFold, A
    <3> QED
      BY <3>1, <3>2
  <2> HIDE DEF op, S
  <2>5. IsIter(f)
    BY <2>3, <2>4 DEF S, IsLeftFold
  <2> QED
    BY <2>5
<1>8. IsIter(iter)
  <2> HIDE DEF IsIter
  <2> QED
    BY <1>7
<1>9. FoldLeft(Write1, h, seconds) = iter[1 .. n]
  BY <1>5 DEF FoldLeft, MapThenFoldSet
<1> HIDE DEF iter
<1>10. iter[1 .. n] \in Slots
  <2>1. iter[{}] \in Slots
    BY <1>8
  <2>2. \A s \in SUBSET (1 .. n) :
          s # {} /\ iter[s \ {Max(s)}] \in Slots => iter[s] \in Slots
    <3> TAKE s \in SUBSET (1 .. n)
    <3> HAVE s # {} /\ iter[s \ {Max(s)}] \in Slots
    <3>1. iter[s] = Write1(iter[s \ {Max(s)}], seconds[Max(s)])
      BY <1>8
    <3>2. Max(s) \in S
      BY <1>5, HighestIs
    <3> QED
      BY <1>6, <3>1, <3>2
  <2> QED
    BY <1>5, <2>1, <2>2, LeftFoldIn
<1> QED
  BY <1>3, <1>9, <1>10

LEMMA BatchesAreWritten ==
  ASSUME disk.frames \in FrameMaps, slot \in Slots, NEW batches \in Preloaded
  PROVE  FoldLeft(WriteSeconds, slot, batches) \in Slots
<1> DEFINE n == Len(batches)
           S == 1 .. n
           IsIter(f) == f = [s \in SUBSET S |-> IF s = {} THEN slot
                                                ELSE WriteSeconds(f[s \ {Max(s)}], batches[Max(s)])]
           op == [xa \in S \X Slots |-> WriteSeconds(xa[2], batches[xa[1]])]
           iter == CHOOSE f : IsIter(f)
<1>1. /\ n \in Nat /\ DOMAIN batches = S
      /\ \A i \in S : batches[i] \in SUBSET AllRecords /\ IsFiniteSet(batches[i])
  BY HourFileAssumption
<1>2. \A a \in Slots, i \in S : WriteSeconds(a, batches[i]) \in Slots
  BY <1>1, SecondsAreWritten
<1> HIDE DEF n
<1>3. \E f : IsIter(f)
  <2> DEFINE A == Slots
  <2>1. op \in [S \X A -> A]
    BY <1>2
  <2>2. slot \in A
    OBVIOUS
  <2> HIDE DEF A
  <2>3. PICK f : IsLeftFold(f, n, A, slot, op)
    <3> HIDE DEF op
    <3> QED
      BY <1>1, <2>1, <2>2, LeftFoldExists
  <2>4. \A s \in SUBSET S : s # {} =>
          op[<<Max(s), f[s \ {Max(s)}]>>] = WriteSeconds(f[s \ {Max(s)}], batches[Max(s)])
    <3> TAKE s \in SUBSET S
    <3> HAVE s # {}
    <3>1. Max(s) \in S
      BY <1>1, HighestIs
    <3>2. f[s \ {Max(s)}] \in Slots
      BY <2>3 DEF IsLeftFold, A
    <3> QED
      BY <3>1, <3>2
  <2> HIDE DEF op, S
  <2>5. IsIter(f)
    BY <2>3, <2>4 DEF S, IsLeftFold
  <2> QED
    BY <2>5
<1>4. IsIter(iter)
  <2> HIDE DEF IsIter
  <2> QED
    BY <1>3
<1>5. FoldLeft(WriteSeconds, slot, batches) = iter[1 .. n]
  BY <1>1 DEF FoldLeft, MapThenFoldSet
<1> HIDE DEF iter
<1>6. iter[1 .. n] \in Slots
  <2>1. iter[{}] \in Slots
    BY <1>4
  <2>2. \A s \in SUBSET (1 .. n) :
          s # {} /\ iter[s \ {Max(s)}] \in Slots => iter[s] \in Slots
    <3> TAKE s \in SUBSET (1 .. n)
    <3> HAVE s # {} /\ iter[s \ {Max(s)}] \in Slots
    <3>1. iter[s] = WriteSeconds(iter[s \ {Max(s)}], batches[Max(s)])
      BY <1>4
    <3>2. Max(s) \in S
      BY <1>1, HighestIs
    <3> QED
      BY <1>2, <3>1, <3>2
  <2> QED
    BY <1>1, <2>1, <2>2, LeftFoldIn
<1> QED
  BY <1>5, <1>6

-------------------------------------------------------------------------------
(* The files of the hour, and what a flush still has to write. *)
Maybe(X) == {<<>>} \union {<<x>> : x \in X}
IndexFiles == [clean : BOOLEAN, cells : Cells, counts : Counts]
KeyFiles == {KeyToFile(k) : k \in KeyIndexes}
ProcessFiles == {ProcessToFile(p) : p \in ProcessIndexes}
Disks == [frames : FrameMaps, lens : Seq(Nat), torn : BOOLEAN, index : Maybe(IndexFiles),
          key : Maybe(KeyFiles), process : Maybe(ProcessFiles)]

Steps == [do : {"mark", "frame", "cells", "key", "process"}, frame : Int]
(* A frame is in memory while it is to be written: the cells, which end    *)
(* that, come after the last one.                                          *)
StepsOver(frames) ==
  {s \in Seq(Steps) : \A i \in 1 .. Len(s) : s[i].do = "frame" =>
     /\ s[i].frame \in DOMAIN frames
     /\ \A j \in 1 .. i - 1 : s[j].do # "cells"}

LEMMA MaybeIs ==
  ASSUME NEW X, NEW m \in Maybe(X)
  PROVE  /\ m # <<>> => m[1] \in X
         /\ \A x \in X : <<x>> \in Maybe(X)
         /\ <<>> \in Maybe(X)
BY DEF Maybe

LEMMA LengthsOfFiles ==
  ASSUME NEW d \in Disks, NEW h \in Slots, NEW frame \in Int
  PROVE  /\ [n \in 1 .. Len(h.files) |-> LenOfFile(d, n)] \in Seq(Nat)
         /\ Longer(d, h, frame) \in Seq(Nat)
<1>1. Len(h.files) \in Nat
  BY SlotIs
<1>2. \A n \in Nat : LenOfFile(d, n) \in Nat
  <2>1. d.lens \in Seq(Nat)
    BY DEF Disks
  <2> QED
    BY <2>1 DEF LenOfFile, Get
<1>3. IndexIn(frame) \in Nat
  BY HourFileAssumption DEF IndexIn
<1> DEFINE n == Len(h.files)
           At(i) == IF i = FileOf(frame) /\ LenOfFile(d, i) <= IndexIn(frame) THEN IndexIn(frame) + 1
                    ELSE LenOfFile(d, i)
<1>4. Longer(d, h, frame) = [i \in 1 .. n |-> At(i)]
  BY DEF Longer
<1>5. \A i \in 1 .. n : At(i) \in Nat /\ LenOfFile(d, i) \in Nat
  <2> TAKE i \in 1 .. n
  <2> DEFINE l == LenOfFile(d, i)
             x == IndexIn(frame)
  <2>1. l \in Nat /\ x \in Nat
    <3>1. i \in Nat
      BY <1>1
    <3> QED
      BY <1>2, <1>3, <3>1
  <2>2. At(i) = x + 1 \/ At(i) = l
    OBVIOUS
  <2> HIDE DEF l, x, At
  <2>3. At(i) \in Nat
    BY <2>1, <2>2
  <2> QED
    BY <2>1, <2>3 DEF l
<1> HIDE DEF n, At
<1>6. n \in Nat
  BY <1>1 DEF n
<1>7. [i \in 1 .. n |-> At(i)] \in Seq(Nat)
  BY <1>5, <1>6
<1>8. [i \in 1 .. n |-> LenOfFile(d, i)] \in Seq(Nat)
  BY <1>5, <1>6
<1> QED
  BY <1>4, <1>7, <1>8 DEF n

LEMMA StepIsWritten ==
  ASSUME NEW d \in Disks, NEW h \in Slots, NEW step \in Steps,
         step.do = "frame" => step.frame \in DOMAIN h.frames
  PROVE  Written(d, h, step) \in Disks
<1> DEFINE lens == [n \in 1 .. Len(h.files) |-> LenOfFile(d, n)]
           index == IF d.index = <<>> \/ ~h.clean THEN d.index
                    ELSE <<[d.index[1] EXCEPT !.clean = FALSE]>>
           frames == Updated(d.frames, step.frame, h.frames[step.frame])
           longer == Longer(d, h, step.frame)
           file == <<IndexFile(h)>>
           key == <<KeyToFile(h.key)>>
           process == <<ProcessToFile(h.process)>>
<1>1. /\ step.do \in {"mark", "frame", "cells", "key", "process"} /\ step.frame \in Int
      /\ d.frames \in FrameMaps /\ d.index \in Maybe(IndexFiles)
  BY DEF Steps, Disks
<1>2. lens \in Seq(Nat) /\ longer \in Seq(Nat)
  BY <1>1, LengthsOfFiles
<1>3. CASE step.do = "mark"
  <2>1. index \in Maybe(IndexFiles)
    <3>1. CASE d.index = <<>> \/ ~h.clean
      BY <1>1, <3>1
    <3>2. CASE ~(d.index = <<>> \/ ~h.clean)
      <4>1. d.index[1] \in IndexFiles
        BY <1>1, <3>2, MaybeIs
      <4> DEFINE i == [d.index[1] EXCEPT !.clean = FALSE]
      <4>2. i \in IndexFiles
        BY <4>1 DEF IndexFiles
      <4> HIDE DEF i
      <4>3. <<i>> \in Maybe(IndexFiles)
        BY <4>2 DEF Maybe
      <4> QED
        BY <3>2, <4>3 DEF i
    <3> QED
      BY <3>1, <3>2
  <2>2. Written(d, h, step) = [d EXCEPT !.lens = lens, !.index = index]
    BY <1>3 DEF Written
  <2> HIDE DEF lens, index
  <2>3. [d EXCEPT !.lens = lens, !.index = index] \in Disks
    BY <1>2, <2>1 DEF Disks
  <2> QED
    BY <2>2, <2>3
<1>4. CASE step.do = "frame"
  <2>1. step.frame \in Nat /\ h.frames[step.frame] \in FrameSet
    BY <1>4, SlotIs, FramesAre
  <2>2. frames \in FrameMaps
    BY <1>1, <2>1, FrameIsPut
  <2>3. Written(d, h, step) = [d EXCEPT !.frames = frames, !.lens = longer]
    BY <1>4 DEF Written
  <2> HIDE DEF frames, longer
  <2>4. [d EXCEPT !.frames = frames, !.lens = longer] \in Disks
    BY <1>2, <2>2 DEF Disks
  <2> QED
    BY <2>3, <2>4
<1>5. CASE step.do = "cells"
  <2>1. IndexFile(h) \in IndexFiles
    BY SlotIs DEF IndexFile, IndexFiles
  <2>2. file \in Maybe(IndexFiles)
    BY <2>1 DEF Maybe
  <2>3. Written(d, h, step) = [d EXCEPT !.index = file]
    BY <1>5 DEF Written
  <2> HIDE DEF file
  <2>4. [d EXCEPT !.index = file] \in Disks
    BY <2>2 DEF Disks
  <2> QED
    BY <2>3, <2>4
<1>6. CASE step.do = "key"
  <2>1. KeyToFile(h.key) \in KeyFiles
    BY SlotIs DEF KeyFiles
  <2>2. key \in Maybe(KeyFiles)
    BY <2>1 DEF Maybe
  <2>3. Written(d, h, step) = [d EXCEPT !.key = key]
    BY <1>6 DEF Written
  <2> HIDE DEF key
  <2>4. [d EXCEPT !.key = key] \in Disks
    BY <2>2 DEF Disks
  <2> QED
    BY <2>3, <2>4
<1>7. CASE step.do = "process"
  <2>1. ProcessToFile(h.process) \in ProcessFiles
    BY SlotIs DEF ProcessFiles
  <2>2. process \in Maybe(ProcessFiles)
    BY <2>1 DEF Maybe
  <2>3. Written(d, h, step) = [d EXCEPT !.process = process]
    BY <1>7 DEF Written
  <2> HIDE DEF process
  <2>4. [d EXCEPT !.process = process] \in Disks
    BY <2>2 DEF Disks
  <2> QED
    BY <2>3, <2>4
<1> QED
  BY <1>1, <1>3, <1>4, <1>5, <1>6, <1>7

LEMMA StepIsFlushed ==
  ASSUME NEW h \in Slots, NEW step \in Steps
  PROVE  /\ Flushed(h, step) \in Slots /\ Flushed(h, step).failure = h.failure
         /\ step.do # "cells" => Flushed(h, step).frames = h.frames
<1> DEFINE files == [n \in DOMAIN h.files |-> [count |-> h.files[n].count, onDisk |-> h.files[n].count]]
           marked == [h EXCEPT !.clean = FALSE]
           done == [h EXCEPT !.clean = TRUE, !.dirty = <<>>, !.frames = <<>>, !.files = files]
           keyed == [h EXCEPT !.keyChanged = FALSE]
           processed == [h EXCEPT !.processChanged = FALSE]
<1>1. step.do \in {"mark", "frame", "cells", "key", "process"}
  BY DEF Steps
<1>2. Flushed(h, step) = CASE step.do = "mark" -> marked
                           [] step.do = "frame" -> h
                           [] step.do = "cells" -> done
                           [] step.do = "key" -> keyed
                           [] step.do = "process" -> processed
  BY DEF Flushed
<1>3. marked \in Slots /\ marked.failure = h.failure /\ marked.frames = h.frames
  BY DEF Slots, SlotRecords
<1>4. keyed \in Slots /\ keyed.failure = h.failure /\ keyed.frames = h.frames
  BY DEF Slots, SlotRecords
<1>5. processed \in Slots /\ processed.failure = h.failure /\ processed.frames = h.frames
  BY DEF Slots, SlotRecords
<1>6. files \in Seq(FileCounts)
  <2>1. h.files \in Seq(FileCounts)
    BY SlotIs
  <2>2. Len(h.files) \in Nat /\ DOMAIN h.files = 1 .. Len(h.files)
        /\ \A n \in DOMAIN h.files : h.files[n] \in FileCounts
    BY <2>1
  <2>3. \A n \in DOMAIN h.files : [count |-> h.files[n].count, onDisk |-> h.files[n].count] \in FileCounts
    BY <2>2 DEF FileCounts
  <2> QED
    BY <2>2, <2>3
<1>7. done \in Slots /\ done.failure = h.failure
  <2> DEFINE none == <<>>
  <2>1. none \in FrameMaps
    BY FramesAre
  <2>2. none \in Seq(Nat) /\ Range(none) = {}
    BY DEF Range
  <2> HIDE DEF files, none
  <2> DEFINE c == [h EXCEPT !.clean = TRUE, !.dirty = none, !.frames = none, !.files = files]
  <2>3. c \in SlotRecords /\ c.dirty = none /\ c.failure = h.failure
    BY <1>6, <2>1, <2>2 DEF Slots, SlotRecords
  <2>4. done = c
    BY DEF none
  <2> HIDE DEF c, done
  <2> QED
    BY <2>2, <2>3, <2>4 DEF Slots
<1> HIDE DEF marked, done, keyed, processed
<1> QED
  BY <1>1, <1>2, <1>3, <1>4, <1>5, <1>7

NoFrames == {s \in Seq(Steps) : \A i \in 1 .. Len(s) : s[i].do # "frame"}

LEMMA StepsGoOn ==
  ASSUME NEW frames, NEW s \in StepsOver(frames), NEW t \in NoFrames
  PROVE  s \o t \in StepsOver(frames)
<1> DEFINE m == Len(s)
           n == Len(t)
           l == s \o t
<1>1. s \in Seq(Steps) /\ t \in Seq(Steps) /\ m \in Nat /\ n \in Nat
  BY DEF StepsOver, NoFrames
<1>2. /\ l \in Seq(Steps) /\ Len(l) = m + n
      /\ \A i \in 1 .. m : l[i] = s[i]
      /\ \A i \in 1 .. m + n : i \notin 1 .. m => i - m \in 1 .. n /\ l[i] = t[i - m]
  BY <1>1
<1>3. \A i \in 1 .. n : t[i].do # "frame"
  BY DEF NoFrames
<1>4. \A i \in 1 .. m : s[i].do = "frame" =>
        s[i].frame \in DOMAIN frames /\ \A j \in 1 .. i - 1 : s[j].do # "cells"
  BY DEF StepsOver
<1> HIDE DEF l, m, n
<1>5. \A i \in 1 .. m + n : l[i].do = "frame" =>
        l[i].frame \in DOMAIN frames /\ \A j \in 1 .. i - 1 : l[j].do # "cells"
  <2> TAKE i \in 1 .. m + n
  <2> HAVE l[i].do = "frame"
  <2>1. i \in 1 .. m
    BY <1>2, <1>3
  <2>2. l[i] = s[i] /\ \A j \in 1 .. i - 1 : j \in 1 .. m
    BY <1>1, <1>2, <2>1
  <2>3. s[i].frame \in DOMAIN frames /\ \A j \in 1 .. i - 1 : s[j].do # "cells"
    BY <1>4, <2>1, <2>2
  <2> QED
    BY <1>2, <2>2, <2>3
<1> QED
  BY <1>2, <1>5 DEF StepsOver, l

LEMMA FramesToWrite ==
  ASSUME NEW h \in Slots
  PROVE  NewFrames(h) \in Seq(DOMAIN h.frames) /\ ChangedFrames(h) \in Seq(DOMAIN h.frames)
<1> DEFINE D == DOMAIN h.frames
           R == Range(h.dirty)
           N == {f \in R : IsNew(h, f)}
           changed == {i \in DOMAIN h.dirty : ~IsNew(h, h.dirty[i])}
           places == InOrder(changed, <)
<1>1. h.dirty \in Seq(Nat) /\ R \subseteq D
  BY SlotIs
<1>2. Len(h.dirty) \in Nat /\ DOMAIN h.dirty = 1 .. Len(h.dirty)
  BY <1>1
<1>3. IsFiniteSet(R) /\ R \subseteq Nat /\ \A i \in 1 .. Len(h.dirty) : h.dirty[i] \in R
  <2> DEFINE S == DOMAIN h.dirty
             f == h.dirty
  <2>1. IsFiniteSet(S)
    BY <1>2, FS_Interval
  <2>2. R = {f[x] : x \in S}
    BY DEF Range
  <2>3. \A i \in S : f[i] \in Nat
    BY <1>1
  <2>4. S = 1 .. Len(h.dirty)
    BY <1>2
  <2> HIDE DEF S, f, R
  <2>5. IsFiniteSet(R)
    BY <2>1, <2>2, ImageIsFinite
  <2>6. R \subseteq Nat /\ \A i \in S : f[i] \in R
    BY <2>2, <2>3
  <2> QED
    BY <2>4, <2>5, <2>6 DEF f
<1> HIDE DEF R
<1>4. NewFrames(h) \in Seq(D)
  <2>1. N \subseteq R
    OBVIOUS
  <2>2. NewFrames(h) = InOrder(N, <)
    BY DEF NewFrames, R
  <2> HIDE DEF N
  <2>3. IsFiniteSet(N) /\ N \in SUBSET Int
    <3>1. IsFiniteSet(N)
      BY <1>3, <2>1, FS_Subset
    <3> QED
      BY <1>3, <2>1, <3>1
  <2>4. InOrder(N, <) \in Seq(N)
    BY <2>3, NumbersInOrder DEF Sorts
  <2>5. N \subseteq D
    BY <1>1, <2>1
  <2> HIDE DEF D
  <2> QED
    BY <2>2, <2>4, <2>5, SeqOfMore
<1>5. ChangedFrames(h) \in Seq(D)
  <2>1. h.dirty \in Seq(R)
    <3> DEFINE s == h.dirty
               n == Len(h.dirty)
    <3>1. s = [i \in 1 .. n |-> s[i]] /\ n \in Nat /\ \A i \in 1 .. n : s[i] \in R
      BY <1>1, <1>2, <1>3
    <3> HIDE DEF s, n
    <3>2. s \in Seq(R)
      BY <3>1
    <3> QED
      BY <3>2 DEF s
  <2>2. changed \in SUBSET DOMAIN h.dirty
    OBVIOUS
  <2>3. ChangedFrames(h) = [i \in DOMAIN places |-> h.dirty[places[i]]]
    BY DEF ChangedFrames, Those
  <2> HIDE DEF changed
  <2>4. [i \in DOMAIN places |-> h.dirty[places[i]]] \in Seq(R)
    BY <2>1, <2>2, PlacesInOrder
  <2> HIDE DEF D
  <2> QED
    BY <1>1, <2>3, <2>4, SeqOfMore
<1> QED
  BY <1>4, <1>5

LEMMA FlushIs ==
  ASSUME NEW h \in Slots, NEW due \in BOOLEAN, NEW quiet \in BOOLEAN
  PROVE  flush(h, due, quiet) \in StepsOver(h.frames)
<1> DEFINE frames == NewFrames(h) \o ChangedFrames(h)
           D == DOMAIN h.frames
           n == Len(frames)
           mark == Step("mark", NoFrame)
           some == [i \in DOMAIN frames |-> Step("frame", frames[i])]
           cells == <<Step("cells", NoFrame)>>
           first == <<mark>> \o some
           key == IF h.keyChanged /\ due THEN <<Step("key", NoFrame)>> ELSE <<>>
           process == IF h.processChanged /\ quiet THEN <<Step("process", NoFrame)>> ELSE <<>>
           all == flush_frames(h)
<1>1. frames \in Seq(D)
  <2> HIDE DEF D
  <2>1. NewFrames(h) \in Seq(D) /\ ChangedFrames(h) \in Seq(D)
    BY FramesToWrite DEF D
  <2> QED
    BY <2>1
<1>2. D \subseteq Nat
  BY SlotIs, FramesAre
<1>3. \A what \in {"mark", "cells", "key", "process"} :
        /\ Step(what, NoFrame) \in Steps
        /\ what # "frame" /\ Step(what, NoFrame).do = what
  BY DEF Step, Steps, NoFrame
<1>4. n \in Nat /\ DOMAIN frames = 1 .. n /\ \A i \in 1 .. n : frames[i] \in D
  <2> HIDE DEF D
  <2> QED
    BY <1>1
<1>5. \A f \in D : Step("frame", f) \in Steps /\ Step("frame", f).do = "frame" /\ Step("frame", f).frame = f
  BY <1>2 DEF Step, Steps
<1>6. <<>> \in NoFrames
  <2> DEFINE none == <<>>
  <2>1. none \in Seq(Steps)
    OBVIOUS
  <2>2. \A i \in 1 .. Len(none) : FALSE
    OBVIOUS
  <2> HIDE DEF none
  <2>3. none \in NoFrames
    BY <2>1, <2>2 DEF NoFrames
  <2> QED
    BY <2>3 DEF none
<1>7. \A what \in {"mark", "cells", "key", "process"} : <<Step(what, NoFrame)>> \in NoFrames
  <2> TAKE what \in {"mark", "cells", "key", "process"}
  <2> DEFINE x == Step(what, NoFrame)
  <2>1. x \in Steps /\ x.do # "frame"
    BY <1>3
  <2> HIDE DEF x
  <2>2. <<x>> \in Seq(Steps) /\ Len(<<x>>) = 1 /\ <<x>>[1] = x
    BY <2>1
  <2>3. <<x>> \in NoFrames
    BY <2>1, <2>2 DEF NoFrames
  <2> QED
    BY <2>3 DEF x
<1> HIDE DEF frames, n
<1>8. first \in StepsOver(h.frames)
  <2>1. some \in Seq(Steps) /\ Len(some) = n /\ \A i \in 1 .. n : some[i] = Step("frame", frames[i])
    BY <1>4, <1>5
  <2>2. mark \in Steps /\ mark.do = "mark"
    BY <1>3
  <2> HIDE DEF some, mark
  <2>3. /\ first \in Seq(Steps) /\ Len(first) = n + 1 /\ first[1] = mark
        /\ \A i \in 1 .. n + 1 : i # 1 => i - 1 \in 1 .. n /\ first[i] = some[i - 1]
    BY <1>4, <2>1, <2>2
  <2> HIDE DEF first
  <2>4. \A i \in 1 .. n + 1 : first[i].do # "cells"
                             /\ (first[i].do = "frame" => first[i].frame \in D)
    <3> TAKE i \in 1 .. n + 1
    <3>1. CASE i = 1
      BY <2>2, <2>3, <3>1
    <3>2. CASE i # 1
      <4>1. i - 1 \in 1 .. n /\ first[i] = some[i - 1]
        BY <2>3, <3>2
      <4>2. first[i] = Step("frame", frames[i - 1]) /\ frames[i - 1] \in D
        BY <1>4, <2>1, <4>1
      <4> HIDE DEF D
      <4> QED
        BY <1>5, <4>2
    <3> QED
      BY <3>1, <3>2
  <2>5. \A i \in 1 .. n + 1 : \A j \in 1 .. i - 1 : j \in 1 .. n + 1
    BY <1>4
  <2> QED
    BY <2>3, <2>4, <2>5 DEF StepsOver
<1>9. all \in StepsOver(h.frames)
  <2>1. <<>> \in StepsOver(h.frames)
    <3>1. <<>> \in Seq(Steps) /\ Len(<<>>) = 0
      OBVIOUS
    <3> QED
      BY <3>1 DEF StepsOver
  <2>2. cells \in NoFrames
    BY <1>7
  <2>3. flush_frames(h) = IF h.dirty = <<>> THEN <<>> ELSE first \o cells
    BY DEF flush_frames, frames
  <2> HIDE DEF first, cells
  <2>4. first \o cells \in StepsOver(h.frames)
    BY <1>8, <2>2, StepsGoOn
  <2> QED
    BY <2>1, <2>3, <2>4
<1>10. key \in NoFrames /\ process \in NoFrames
  BY <1>6, <1>7
<1>11. flush(h, due, quiet) = all \o key \o process
  BY DEF flush
<1> HIDE DEF all, key, process
<1>12. all \o key \in StepsOver(h.frames)
  BY <1>9, <1>10, StepsGoOn
<1> DEFINE both == all \o key
<1> HIDE DEF both
<1>13. both \o process \in StepsOver(h.frames)
  BY <1>10, <1>12, StepsGoOn DEF both
<1> QED
  BY <1>11, <1>13 DEF both

(* The states between the steps.                                           *)
Between(g, d, h, some) ==
  /\ g[{}] = [d |-> d, h |-> h] /\ g[1 .. Len(some)] = Done(d, h, some)
  /\ \A i \in 1 .. Len(some) : g[1 .. i] = [d |-> Written(g[1 .. i - 1].d, g[1 .. i - 1].h, some[i]),
                                          h |-> Flushed(g[1 .. i - 1].h, some[i])]
  /\ g[1 .. Len(some)].d \in Disks /\ g[1 .. Len(some)].h \in Slots
  /\ g[1 .. Len(some)].h.failure = h.failure

LEMMA StepsOneByOne ==
  ASSUME NEW d \in Disks, NEW h \in Slots, NEW some \in StepsOver(h.frames)
  PROVE  \E g : Between(g, d, h, some)
<1> DEFINE Do(done, step) == [d |-> Written(done.d, done.h, step), h |-> Flushed(done.h, step)]
           A == {a \in [d : Disks, h : Slots] : a.h.failure = h.failure}
           base == [d |-> d, h |-> h]
           n == Len(some)
           S == 1 .. n
           Ready(a, step) == step.do = "frame" => step.frame \in DOMAIN a.h.frames
           op == [xa \in S \X A |-> IF Ready(xa[2], some[xa[1]]) THEN Do(xa[2], some[xa[1]]) ELSE xa[2]]
           IsIter(f) == f = [s \in SUBSET S |-> IF s = {} THEN base
                                                ELSE Do(f[s \ {Max(s)}], some[Max(s)])]
           iter == CHOOSE f : IsIter(f)
<1>1. /\ n \in Nat /\ DOMAIN some = S /\ \A i \in S : some[i] \in Steps
  BY DEF StepsOver
<1>2. \A i \in S : some[i].do = "frame" =>
        some[i].frame \in DOMAIN h.frames /\ \A j \in 1 .. i - 1 : some[j].do # "cells"
  BY DEF StepsOver
<1>3. base \in A /\ base.h = h
  OBVIOUS
<1>4. \A a \in A, step \in Steps : Ready(a, step) =>
        /\ Do(a, step) \in A
        /\ step.do # "cells" => Do(a, step).h.frames = a.h.frames
  <2> TAKE a \in A, step \in Steps
  <2> HAVE Ready(a, step)
  <2>1. a.d \in Disks /\ a.h \in Slots /\ a.h.failure = h.failure
    OBVIOUS
  <2>2. Written(a.d, a.h, step) \in Disks
    BY <2>1, StepIsWritten
  <2>3. /\ Flushed(a.h, step) \in Slots /\ Flushed(a.h, step).failure = a.h.failure
        /\ step.do # "cells" => Flushed(a.h, step).frames = a.h.frames
    BY <2>1, StepIsFlushed
  <2> QED
    BY <2>1, <2>2, <2>3
<1>5. Done(d, h, some) = FoldLeft(Do, base, some)
  BY DEF Done
<1> HIDE DEF A, Do, base, n
<1>6. PICK same : IsIter(same) /\ \A s \in SUBSET S : same[s] \in A
  <2>1. op \in [S \X A -> A]
    BY <1>1, <1>4
  <2>2. PICK g : IsLeftFold(g, n, A, base, op)
    <3> HIDE DEF op
    <3> QED
      BY <1>1, <1>3, <2>1, LeftFoldExists
  <2>3. \A s \in SUBSET S : g[s] \in A
    BY <2>2 DEF IsLeftFold
  <2>4. \A s \in SUBSET S : s # {} =>
          /\ Max(s) \in S /\ Max(s) \in s
          /\ s \ {Max(s)} \in SUBSET S /\ g[s \ {Max(s)}] \in A
          /\ g[s] = IF Ready(g[s \ {Max(s)}], some[Max(s)]) THEN Do(g[s \ {Max(s)}], some[Max(s)])
                    ELSE g[s \ {Max(s)}]
    <3> TAKE s \in SUBSET S
    <3> HAVE s # {}
    <3>1. Max(s) \in s /\ Max(s) \in S
      BY <1>1, HighestIs
    <3>2. g[s \ {Max(s)}] \in A
      BY <2>3
    <3>3. g[s] = op[<<Max(s), g[s \ {Max(s)}]>>]
      <4> HIDE DEF op
      <4> QED
        BY <2>2 DEF IsLeftFold
    <3> HIDE DEF Ready
    <3> QED
      BY <3>1, <3>2, <3>3
  <2>5. g[{}] = base
    <3> HIDE DEF op
    <3> QED
      BY <2>2 DEF IsLeftFold
  <2> HIDE DEF op
  <2> DEFINE NoCells2(s) == \A i \in s : some[i].do # "cells"
             Good == {s \in SUBSET S : NoCells2(s) => g[s].h.frames = h.frames}
  <2>6. Good = SUBSET S
    <3>1. {} \in Good
      BY <1>3, <2>5
    <3>2. \A s \in SUBSET S : s # {} /\ (\A x \in s : s \ {x} \in Good) => s \in Good
      <4> TAKE s \in SUBSET S
      <4> HAVE s # {} /\ (\A x \in s : s \ {x} \in Good)
      <4> SUFFICES ASSUME NoCells2(s) PROVE g[s].h.frames = h.frames
        OBVIOUS
      <4> DEFINE m == Max(s)
                 before == g[s \ {m}]
      <4>1. m \in s /\ m \in S /\ before \in A
        BY <2>4
      <4>2. before.h.frames = h.frames
        <5>1. s \ {m} \in Good
          BY <4>1
        <5>2. NoCells2(s \ {m})
          OBVIOUS
        <5> HIDE DEF NoCells2
        <5> QED
          BY <5>1, <5>2
      <4>3. some[m] \in Steps /\ some[m].do # "cells"
        BY <1>1, <4>1
      <4>4. g[s] = IF Ready(before, some[m]) THEN Do(before, some[m]) ELSE before
        BY <2>4
      <4> HIDE DEF before, m, Ready
      <4> QED
        BY <1>4, <4>1, <4>2, <4>3, <4>4
    <3>3. Good \in SUBSET (SUBSET S)
      OBVIOUS
    <3>4. IsFiniteSet(S)
      BY <1>1, FS_Interval
    <3> HIDE DEF Good, S
    <3> QED
      BY <3>1, <3>2, <3>3, <3>4, SubsetInd
  <2>7. \A s \in SUBSET S : s # {} => g[s] = Do(g[s \ {Max(s)}], some[Max(s)])
    <3> TAKE s \in SUBSET S
    <3> HAVE s # {}
    <3> DEFINE m == Max(s)
               before == g[s \ {m}]
    <3>1. m \in s /\ m \in S /\ s \ {m} \in SUBSET S
      BY <2>4
    <3>2. g[s] = IF Ready(before, some[m]) THEN Do(before, some[m]) ELSE before
      BY <2>4
    <3>3. Ready(before, some[m])
      <4> SUFFICES ASSUME some[m].do = "frame" PROVE some[m].frame \in DOMAIN before.h.frames
        OBVIOUS
      <4>1. some[m].frame \in DOMAIN h.frames /\ \A j \in 1 .. m - 1 : some[j].do # "cells"
        BY <1>2, <3>1
      <4>2. s \ {m} \subseteq 1 .. m - 1
        <5>1. \A x \in s : x <= m
          <6>1. IsFiniteSet(s) /\ s \subseteq Int
            <7>1. IsFiniteSet(S)
              BY <1>1, FS_Interval
            <7>2. IsFiniteSet(s)
              BY <7>1, FS_Subset
            <7> QED
              BY <1>1, <7>2
          <6> QED
            BY <6>1, MaxIs
        <5> QED
          BY <1>1, <3>1, <5>1
      <4>3. NoCells2(s \ {m})
        BY <4>1, <4>2
      <4>4. before.h.frames = h.frames
        BY <2>6, <3>1, <4>3
      <4> QED
        BY <4>1, <4>4
    <3> HIDE DEF Ready, before, m
    <3>4. g[s] = Do(before, some[m])
      BY <3>2, <3>3
    <3> QED
      BY <3>4 DEF before, m
  <2> HIDE DEF Good, NoCells2
  <2>8. DOMAIN g = SUBSET S /\ g = [s \in DOMAIN g |-> g[s]]
    BY <2>2 DEF IsLeftFold
  <2>9. \A s \in SUBSET S : g[s] = IF s = {} THEN base ELSE Do(g[s \ {Max(s)}], some[Max(s)])
    BY <2>5, <2>7
  <2> HIDE DEF S
  <2>10. IsIter(g)
    BY <2>8, <2>9
  <2> HIDE DEF IsIter
  <2> QED
    BY <2>3, <2>10
<1>7. IsIter(iter)
  <2> HIDE DEF IsIter
  <2> QED
    BY <1>6
<1>8. FoldLeft(Do, base, some) = iter[1 .. n]
  BY <1>1 DEF FoldLeft, MapThenFoldSet
<1> HIDE DEF iter
<1>9. iter[1 .. n] \in A
  <2> DEFINE Good == {s \in SUBSET S : iter[s] = same[s]}
  <2>1. {} \in Good
    BY <1>6, <1>7
  <2>2. \A s \in SUBSET S : s # {} /\ (\A x \in s : s \ {x} \in Good) => s \in Good
    <3> TAKE s \in SUBSET S
    <3> HAVE s # {} /\ (\A x \in s : s \ {x} \in Good)
    <3>1. Max(s) \in s
      BY <1>1, HighestIs
    <3>2. iter[s \ {Max(s)}] = same[s \ {Max(s)}]
      BY <3>1
    <3>3. iter[s] = Do(iter[s \ {Max(s)}], some[Max(s)]) /\ same[s] = Do(same[s \ {Max(s)}], some[Max(s)])
      BY <1>6, <1>7
    <3> QED
      BY <3>2, <3>3
  <2>3. Good \in SUBSET (SUBSET S) /\ S \in SUBSET S
    OBVIOUS
  <2>4. IsFiniteSet(S)
    BY <1>1, FS_Interval
  <2>5. Good = SUBSET S
    <3> HIDE DEF Good, S
    <3> QED
      BY <2>1, <2>2, <2>3, <2>4, SubsetInd
  <2>6. iter[S] = same[S]
    BY <2>3, <2>5
  <2> QED
    BY <1>6, <2>3, <2>6
<1>10. \A i \in S : iter[1 .. i] = Do(iter[1 .. i - 1], some[i])
  <2> TAKE i \in S
  <2> DEFINE s == 1 .. i
  <2>0. i \in Nat /\ i >= 1 /\ i <= n /\ n \in Nat
    BY <1>1
  <2>1. s \in SUBSET S /\ i \in s /\ s # {} /\ s \ {i} = 1 .. i - 1 /\ \A x \in s : x <= i
    <3> HIDE DEF n
    <3>1. s \in SUBSET S /\ i \in s /\ s # {} /\ \A x \in s : x <= i
      BY <2>0
    <3>2. \A x \in Int : x \in s \ {i} <=> x \in 1 .. i - 1
      BY <2>0
    <3>3. s \subseteq Int /\ 1 .. i - 1 \subseteq Int
      BY <2>0
    <3>4. s \ {i} = 1 .. i - 1
      <4> HIDE DEF s
      <4> QED
        BY <3>2, <3>3
    <3> QED
      BY <3>1, <3>4
  <2>2. Max(s) = i
    <3>1. Max(s) \in s /\ Max(s) \in S /\ \A x \in s : x <= Max(s)
      <4>1. IsFiniteSet(s) /\ s \subseteq Int
        <5>1. i \in Int
          BY <1>1
        <5> QED
          BY <5>1, FS_Interval
      <4> QED
        BY <2>1, <4>1, MaxIs
    <3> QED
      BY <1>1, <2>1, <3>1
  <2> HIDE DEF s
  <2>3. iter[s] = Do(iter[s \ {Max(s)}], some[Max(s)])
    BY <1>7, <2>1
  <2> QED
    BY <2>1, <2>2, <2>3 DEF s
<1>11. iter[{}] = base
  BY <1>7
<1>12. Between(iter, d, h, some)
  BY <1>5, <1>8, <1>9, <1>10, <1>11 DEF Between, A, Do, base, n
<1> QED
  BY <1>12

LEMMA StepsAreDone ==
  ASSUME NEW d \in Disks, NEW h \in Slots, NEW some \in StepsOver(h.frames)
  PROVE  /\ Done(d, h, some).d \in Disks /\ Done(d, h, some).h \in Slots
         /\ Done(d, h, some).h.failure = h.failure
<1>1. PICK g : Between(g, d, h, some)
  BY StepsOneByOne
<1> DEFINE last == g[1 .. Len(some)]
<1>2. last = Done(d, h, some) /\ last.d \in Disks /\ last.h \in Slots /\ last.h.failure = h.failure
  BY <1>1 DEF Between
<1> HIDE DEF last
<1> QED
  BY <1>2

-------------------------------------------------------------------------------
(* Opening the hour.  A part of a chain, when the frame it ends with has   *)
(* no next one, is the chain its last frame is found by.                   *)
LEMMA PartOfAChain ==
  ASSUME NEW F \in FrameMaps, NEW G \in FrameMaps, DOMAIN G = DOMAIN F, NEW frame,
         NEW c \in ChainsFrom(F, frame), NEW n \in 1 .. Len(c), NEW i \in 1 .. n,
         \A f \in DOMAIN F : f # c[n] => G[f].next = F[f].next,
         G[c[n]].next = NoFrame
  PROVE  LastFrame(G, c[i]) # NoFrame
<1> DEFINE k == i - 1
           p == SubSeq(c, k + 1, n)
           D == DOMAIN F
           len == n - k
<1>1. /\ c \in Seq(D) /\ Len(c) \in Nat
      /\ \A a, b \in 1 .. Len(c) : c[a] = c[b] => a = b
      /\ \A a \in 1 .. Len(c) - 1 : F[c[a]].next = c[a + 1]
  BY DEF ChainsFrom, IsChain
<1>2. k \in Nat /\ n \in 0 .. Len(c) /\ len \in Nat /\ len > 0 /\ n \in Nat /\ ~(n < k)
  BY <1>1
<1> HIDE DEF k, D, p, len
<1>3. /\ p \in Seq(D) /\ Len(p) = len
      /\ \A j \in 1 .. len : k + j \in 1 .. Len(c) /\ p[j] = c[k + j]
  <2>1. /\ SubSeq(c, k + 1, n) \in Seq(D)
        /\ Len(SubSeq(c, k + 1, n)) = IF n < k THEN 0 ELSE n - k
        /\ \A j \in 1 .. n - k : k + j \in 1 .. Len(c) /\ SubSeq(c, k + 1, n)[j] = c[k + j]
    BY <1>1, <1>2, PartIs
  <2> QED
    BY <1>2, <2>1 DEF p, len
<1>4. p[1] = c[i] /\ c[i] \in D /\ k + 1 = i /\ k + len = n
  <2>1. k + 1 = i /\ k + len = n
    BY <1>2 DEF k, len
  <2> QED
    BY <1>1, <1>2, <1>3, <2>1
<1>5. \A a, b \in 1 .. len : p[a] = p[b] => a = b
  <2> TAKE a, b \in 1 .. len
  <2> HAVE p[a] = p[b]
  <2>1. c[k + a] = c[k + b] /\ k + a \in 1 .. Len(c) /\ k + b \in 1 .. Len(c)
    BY <1>3
  <2> DEFINE x == k + a
             y == k + b
  <2>2. x \in 1 .. Len(c) /\ y \in 1 .. Len(c) /\ c[x] = c[y]
    BY <2>1
  <2> HIDE DEF x, y
  <2>3. x = y
    BY <1>1, <2>2
  <2> QED
    BY <1>2, <2>3 DEF x, y
<1>6. \A j \in 1 .. len - 1 : G[p[j]].next = p[j + 1]
  <2> TAKE j \in 1 .. len - 1
  <2>1. j \in 1 .. len /\ j + 1 \in 1 .. len
    BY <1>2
  <2> DEFINE a == k + j
  <2>2. a \in 1 .. Len(c) - 1 /\ a # n /\ p[j] = c[a] /\ p[j + 1] = c[a + 1]
    <3>1. p[j] = c[k + j] /\ p[j + 1] = c[k + (j + 1)] /\ k + (j + 1) \in 1 .. Len(c) /\ k + j \in 1 .. Len(c)
      BY <1>3, <2>1
    <3>2. k + (j + 1) = k + j + 1
      BY <1>2, <2>1
    <3> QED
      BY <1>1, <1>2, <1>4, <2>1, <3>1, <3>2
  <2> HIDE DEF a
  <2>3. c[a] # c[n] /\ c[a] \in D
    <3>1. a \in 1 .. Len(c) /\ n \in 1 .. Len(c)
      BY <1>1, <2>2
    <3> QED
      BY <1>1, <2>2, <3>1
  <2>4. G[c[a]].next = F[c[a]].next
    BY <2>3 DEF D
  <2> QED
    BY <1>1, <2>2, <2>4
<1>7. p \in ChainsFrom(G, c[i])
  <2>1. p # <<>>
    BY <1>2, <1>3
  <2>2. D = DOMAIN G
    BY DEF D
  <2>3. IsChain(G, p)
    BY <1>3, <1>5, <1>6, <2>1 DEF IsChain
  <2> QED
    BY <1>3, <1>4, <2>2, <2>3 DEF ChainsFrom
<1>8. p[len] = c[n] /\ c[n] \in D
  <2>1. len \in 1 .. len
    BY <1>2
  <2>2. p[len] = c[k + len]
    BY <1>3, <2>1
  <2> QED
    BY <1>1, <1>4, <2>2
<1>9. D \subseteq Nat /\ NoFrame \notin D
  BY FramesAre DEF D, NoFrame
<1>10. Follow(G, c[i]) = p
  <2>1. G[p[Len(p)]].next \notin DOMAIN G
    BY <1>3, <1>8, <1>9 DEF D
  <2>2. c[i] \in DOMAIN G
    BY <1>4 DEF D
  <2> DEFINE frame2 == c[i]
  <2> HIDE DEF frame2
  <2>3. Follow(G, frame2) = p
    BY <1>7, <2>1, <2>2, FollowEnds DEF frame2
  <2> QED
    BY <2>3 DEF frame2
<1>11. Last(p) = c[n] /\ p # <<>>
  BY <1>2, <1>3, <1>8 DEF Last
<1>12. LastFrame(G, c[i]) = c[n]
  BY <1>10, <1>11 DEF LastFrame
<1> QED
  BY <1>8, <1>9, <1>12

LEMMA LastFrameIs ==
  ASSUME NEW F \in FrameMaps, NEW frame
  PROVE  LastFrame(F, frame) \in Int
<1> DEFINE chain == Follow(F, frame)
           D == DOMAIN F
<1>1. LastFrame(F, frame) = IF chain # <<>> /\ F[Last(chain)].next = NoFrame THEN Last(chain) ELSE NoFrame
  BY DEF LastFrame
<1>2. NoFrame \in Int /\ D \subseteq Int
  BY FramesAre DEF NoFrame
<1>3. CASE frame \in DOMAIN F
  <2>1. chain \in Seq(D) /\ chain # <<>>
    BY <1>3, FollowIs DEF ChainsFrom, IsChain
  <2> HIDE DEF chain, D
  <2>2. Last(chain) \in D
    BY <2>1 DEF Last
  <2> QED
    BY <1>1, <1>2, <2>2
<1>4. CASE frame \notin DOMAIN F
  <2>1. chain = <<>>
    BY <1>4 DEF Follow
  <2> QED
    BY <1>1, <1>2, <2>1
<1> QED
  BY <1>3, <1>4

(* What a walk found, counted. *)
LEMMA ThoseWhichRead ==
  ASSUME NEW X, \A e \in X : e.entry \in Entries, NEW entries \in Seq(X)
  PROVE  Those(entries, LAMBDA e : e.entry.reads) \in Seq({e \in X : e.entry.reads})
<1> DEFINE P == {i \in DOMAIN entries : entries[i].entry.reads}
           places == InOrder(P, <)
           Y == {e \in X : e.entry.reads}
           l == [i \in DOMAIN places |-> entries[places[i]]]
<1>1. Those(entries, LAMBDA e : e.entry.reads) = l
  BY DEF Those
<1>2. P \in SUBSET DOMAIN entries
  OBVIOUS
<1>3. \A i \in P : entries[i] \in Y
  OBVIOUS
<1> HIDE DEF P, Y
<1>4. Sorts(places, P, Smaller)
  BY <1>2, PlacesInOrder
<1>5. places \in Seq(P)
  BY <1>4 DEF Sorts
<1> HIDE DEF places
<1>6. Len(places) \in Nat /\ DOMAIN places = 1 .. Len(places) /\ \A i \in 1 .. Len(places) : places[i] \in P
  BY <1>5
<1>7. l \in Seq(Y)
  BY <1>3, <1>6
<1> QED
  BY <1>1, <1>7 DEF Y

LEMMA IndexesAreRebuilt ==
  ASSUME NEW X, \A e \in X : e.entry \in Entries, NEW walk, walk.entries \in Seq(X)
  PROVE  rebuild_indexes(walk) \in [key : KeyIndexes, process : ProcessIndexes]
<1> DEFINE A == [key : KeyIndexes, process : ProcessIndexes]
           Y == {e \in X : e.entry.reads}
           seq == Those(walk.entries, LAMBDA e : e.entry.reads)
           Add(done, e) ==
             [key |-> KeyAddRecords(done.key, second_of(e.entry.time), e.entry.records),
              process |-> ProcessAddRecords(done.process, second_of(e.entry.time), e.entry.records)]
           none == [key |-> NewKeyIndex, process |-> NewProcessIndex]
           n == Len(seq)
           S == 1 .. n
           IsIter(f) == f = [s \in SUBSET S |-> IF s = {} THEN none
                                                ELSE Add(f[s \ {Max(s)}], seq[Max(s)])]
           op == [xa \in S \X A |-> Add(xa[2], seq[xa[1]])]
           iter == CHOOSE f : IsIter(f)
<1>1. seq \in Seq(Y)
  <2> DEFINE entries == walk.entries
  <2>1. entries \in Seq(X)
    OBVIOUS
  <2> HIDE DEF entries
  <2>2. Those(entries, LAMBDA e : e.entry.reads) \in Seq({e \in X : e.entry.reads})
    BY <2>1, ThoseWhichRead
  <2> QED
    BY <2>2 DEF entries
<1>2. none \in A
  <2>1. NewProcessIndex \in ProcessIndexes
    BY FS_EmptySet DEF NewProcessIndex, ProcessIndexes
  <2> QED
    BY <2>1, NewIndexes
<1>3. \A a \in A, e \in Y : Add(a, e) \in A
  <2> TAKE a \in A, e \in Y
  <2> DEFINE second == second_of(e.entry.time)
             records == e.entry.records
  <2>1. second \in Seconds /\ records \in Seq(HourRecs)
    BY DEF Entries
  <2>2. HourRecs \subseteq Recs
    BY RecordsOfTheHour
  <2> HIDE DEF second, records
  <2>3. records \in Seq(Recs)
    BY <2>1, <2>2, SeqOfMore
  <2>4. KeyAddRecords(a.key, second, records) \in KeyIndexes
    BY <2>1, <2>3, RecordsAreCounted
  <2>5. ProcessAddRecords(a.process, second, records) \in ProcessIndexes
    BY <2>1, <2>3, ProcessesAreCounted
  <2> QED
    BY <2>4, <2>5 DEF second, records
<1>4. rebuild_indexes(walk) = FoldLeft(Add, none, seq)
  BY DEF rebuild_indexes
<1> HIDE DEF seq, Add, none, A, Y
<1>5. n \in Nat /\ DOMAIN seq = S /\ \A i \in S : seq[i] \in Y
  BY <1>1
<1> HIDE DEF n
<1>6. \E f : IsIter(f)
  <2>1. op \in [S \X A -> A]
    BY <1>3, <1>5
  <2>2. PICK f : IsLeftFold(f, n, A, none, op)
    <3> HIDE DEF op
    <3> QED
      BY <1>2, <1>5, <2>1, LeftFoldExists
  <2>3. \A s \in SUBSET S : s # {} =>
          op[<<Max(s), f[s \ {Max(s)}]>>] = Add(f[s \ {Max(s)}], seq[Max(s)])
    <3> TAKE s \in SUBSET S
    <3> HAVE s # {}
    <3>1. Max(s) \in S
      BY <1>5, HighestIs
    <3>2. f[s \ {Max(s)}] \in A
      BY <2>2 DEF IsLeftFold
    <3> QED
      BY <3>1, <3>2
  <2> HIDE DEF op, S
  <2>4. IsIter(f)
    BY <2>2, <2>3 DEF S, IsLeftFold
  <2> QED
    BY <2>4
<1>7. IsIter(iter)
  <2> HIDE DEF IsIter
  <2> QED
    BY <1>6
<1>8. FoldLeft(Add, none, seq) = iter[1 .. n]
  BY <1>5 DEF FoldLeft, MapThenFoldSet
<1> HIDE DEF iter
<1>9. iter[1 .. n] \in A
  <2>1. iter[{}] \in A
    BY <1>2, <1>7
  <2>2. \A s \in SUBSET (1 .. n) :
          s # {} /\ iter[s \ {Max(s)}] \in A => iter[s] \in A
    <3> TAKE s \in SUBSET (1 .. n)
    <3> HAVE s # {} /\ iter[s \ {Max(s)}] \in A
    <3>1. iter[s] = Add(iter[s \ {Max(s)}], seq[Max(s)])
      BY <1>7
    <3>2. Max(s) \in S
      BY <1>5, HighestIs
    <3> QED
      BY <1>3, <1>5, <3>1, <3>2
  <2> QED
    BY <1>5, <2>1, <2>2, LeftFoldIn
<1> QED
  BY <1>4, <1>8, <1>9 DEF A

LEMMA RecordsOfAWalk ==
  ASSUME NEW X, \A e \in X : e.entry \in Entries, NEW walk, walk.entries \in Seq(X)
  PROVE  RecordsOf(walk) \in Seq(HourRecs) /\ CountsOf(walk) \in Counts
<1> DEFINE Y == {e \in X : e.entry.reads}
           entries == Those(walk.entries, LAMBDA e : e.entry.reads)
           parts == [i \in DOMAIN entries |-> entries[i].entry.records]
           records == RecordsOf(walk)
<1>1. entries \in Seq(Y)
  <2> DEFINE all == walk.entries
  <2>1. all \in Seq(X)
    OBVIOUS
  <2> HIDE DEF all
  <2>2. Those(all, LAMBDA e : e.entry.reads) \in Seq({e \in X : e.entry.reads})
    BY <2>1, ThoseWhichRead
  <2> QED
    BY <2>2 DEF all
<1>2. records = FlattenSeq(parts)
  BY DEF RecordsOf
<1>3. \A e \in Y : e.entry.records \in Seq(HourRecs)
  BY DEF Entries
<1> HIDE DEF entries, Y
<1>4. Len(entries) \in Nat /\ DOMAIN entries = 1 .. Len(entries)
      /\ \A i \in 1 .. Len(entries) : entries[i] \in Y
  BY <1>1
<1>5. parts \in Seq(Seq(HourRecs))
  BY <1>3, <1>4
<1> HIDE DEF parts
<1>6. records \in Seq(HourRecs)
  BY <1>2, <1>5, FlattenType
<1> DEFINE all == walk.entries
           n == Len(all)
           counted == [i \in DOMAIN all |-> Len(all[i].entry.records)]
           Of(s) == {i \in DOMAIN all : all[i].entry.reads /\ second_of(all[i].entry.time) = s}
<1>7. CountsOf(walk) = [s \in Seconds |-> SumFunctionOnSet(counted, Of(s))]
  BY DEF CountsOf
<1> HIDE DEF records
<1>8. all \in Seq(X)
  OBVIOUS
<1> HIDE DEF all
<1>9. n \in Nat /\ DOMAIN all = 1 .. n /\ \A i \in 1 .. n : all[i].entry \in Entries
  BY <1>8
<1>10. \A i \in DOMAIN counted : counted[i] \in Nat
  <2> TAKE i \in DOMAIN counted
  <2>1. all[i].entry.records \in Seq(HourRecs)
    BY <1>9 DEF Entries
  <2> QED
    BY <2>1
<1>11. IsFiniteSet(1 .. n)
  BY <1>9, FS_Interval
<1>12. \A s \in Seconds : SumFunctionOnSet(counted, Of(s)) \in Int
  <2> TAKE s \in Seconds
  <2>1. Of(s) \subseteq DOMAIN counted /\ Of(s) \subseteq 1 .. n
    BY <1>9
  <2> HIDE DEF Of, counted, n
  <2>2. IsFiniteSet(Of(s))
    BY <1>11, <2>1, FS_Subset
  <2>3. \A i \in Of(s) : counted[i] \in Nat
    BY <1>10, <2>1
  <2>4. SumFunctionOnSet(counted, Of(s)) \in Nat
    BY <2>2, <2>3, SumIsNat
  <2> QED
    BY <2>4
<1> HIDE DEF Of, counted
<1>13. CountsOf(walk) \in Counts
  BY <1>7, <1>12 DEF Counts
<1> QED
  BY <1>6, <1>13 DEF records

(* The cell of a second is in one of the frames the walk went through. *)
LEMMA CellsOfAWalk ==
  ASSUME NEW F \in FrameMaps, NEW frames, NEW walk, walk.entries \in Seq(FoundAmong(F, frames))
  PROVE  /\ CellsOf(walk) \in Cells
         /\ \A s \in Seconds : CellsOf(walk)[s] # NoCell => CellsOf(walk)[s].frame \in frames
<1> DEFINE X == FoundAmong(F, frames)
           entries == walk.entries
           Of(s) == {i \in DOMAIN entries : second_of(entries[i].entry.time) = s}
           At(s) == [frame |-> entries[Min(Of(s))].frame, offset |-> entries[Min(Of(s))].offset]
<1>1. \A e \in X : e.frame \in Int /\ e.offset \in Int /\ e.frame \in frames
  BY FramesAre DEF FoundAmong, FoundIn
<1> HIDE DEF X
<1>2. Len(entries) \in Nat /\ DOMAIN entries = 1 .. Len(entries) /\ \A i \in 1 .. Len(entries) : entries[i] \in X
  BY DEF X
<1>3. CellsOf(walk) = [s \in Seconds |-> IF Of(s) = {} THEN NoCell ELSE At(s)]
  BY DEF CellsOf
<1> HIDE DEF entries
<1>4. \A s \in Seconds : Of(s) # {} => At(s) \in Places /\ At(s).frame \in frames
  <2> TAKE s \in Seconds
  <2> HAVE Of(s) # {}
  <2>1. Of(s) \subseteq Nat /\ Of(s) \subseteq 1 .. Len(entries)
    BY <1>2
  <2> HIDE DEF Of
  <2> DEFINE m == Min(Of(s))
  <2>2. m \in Of(s)
    BY <2>1, MinIs
  <2> HIDE DEF m
  <2>3. entries[m] \in X
    BY <1>2, <2>1, <2>2
  <2> QED
    BY <1>1, <2>3 DEF m, Places
<1> HIDE DEF Of, At
<1> QED
  BY <1>3, <1>4, NoCellIs DEF Cells

LEMMA LastSecondIs ==
  ASSUME NEW cells \in Cells
  PROVE  /\ last_of(cells) \in Int
         /\ last_of(cells) # NoSecond => last_of(cells) \in Seconds /\ cells[last_of(cells)] # NoCell
<1> DEFINE S == WithCell(cells)
<1>1. last_of(cells) = IF S = {} THEN NoSecond ELSE Max(S)
  BY DEF last_of
<1>2. S \subseteq Seconds /\ \A s \in S : cells[s] # NoCell
  BY DEF WithCell
<1> HIDE DEF S
<1>3. Seconds \subseteq Int /\ NoSecond \in Int /\ IsFiniteSet(Seconds)
  <2> DEFINE n == SECONDS_PER_HOUR - 1
  <2>1. n \in Nat
    BY MetricBlockAssumption
  <2> HIDE DEF n
  <2>2. IsFiniteSet(0 .. n)
    BY <2>1, FS_Interval
  <2> QED
    BY <2>1, <2>2 DEF n, Seconds, NoSecond
<1>4. CASE S = {}
  BY <1>1, <1>3, <1>4
<1>5. CASE S # {}
  <2>1. S \subseteq Int
    BY <1>2, <1>3
  <2>2. IsFiniteSet(S)
    BY <1>2, <1>3, FS_Subset
  <2>3. Max(S) \in S
    BY <1>5, <2>1, <2>2, MaxIs
  <2> QED
    BY <1>1, <1>2, <1>3, <1>5, <2>3
<1> QED
  BY <1>4, <1>5

-------------------------------------------------------------------------------
(* An hour under way of being opened: what is in memory, and on the disk. *)
IsOpened(r) == {"h", "d"} \subseteq DOMAIN r /\ r.h \in Slots /\ r.d \in Disks

LEMMA OpenedWith ==
  ASSUME NEW r, IsOpened(r)
  PROVE  /\ \A h \in Slots : /\ IsOpened([r EXCEPT !.h = h]) /\ [r EXCEPT !.h = h].h = h
                             /\ [r EXCEPT !.h = h].d = r.d
         /\ \A d \in Disks : /\ IsOpened([r EXCEPT !.d = d]) /\ [r EXCEPT !.d = d].d = d
                             /\ [r EXCEPT !.d = d].h = r.h
BY DEF IsOpened

LEMMA TailIsFound ==
  ASSUME NEW r, IsOpened(r)
  PROVE  /\ IsOpened(WithTail(r)) /\ WithTail(r).d = r.d
         /\ WithTail(r).h.failure = IF find_tail(r.h, r.d).ok THEN "" ELSE "the hour does not open"
         /\ WithTail(r).h.frames = r.h.frames
<1> DEFINE found == find_tail(r.h, r.d)
           last == last_of(r.h.cells)
           why == IF found.ok THEN "" ELSE "the hour does not open"
           h == [r.h EXCEPT !.tail = found.tail, !.last = last, !.failure = why]
           s == [r EXCEPT !.h.tail = found.tail, !.h.last = last, !.h.failure = why]
<1>1. r.h \in Slots /\ r.d \in Disks /\ "h" \in DOMAIN r /\ "d" \in DOMAIN r
  BY DEF IsOpened
<1>2. last \in Int
  BY <1>1, SlotIs, LastSecondIs
<1>3. found.tail \in Int
  <2>1. FramesOf(r.h, r.d) \in FrameMaps
    BY <1>1, SlotIs, FramesRead DEF Disks
  <2> QED
    BY <2>1, LastFrameIs DEF find_tail
<1>4. why \in Reasons
  BY DEF Reasons
<1>5. WithTail(r) = s
  BY DEF WithTail
<1> HIDE DEF found, last, why
<1>6. h \in Slots /\ h.failure = why /\ h.frames = r.h.frames
  BY <1>1, <1>2, <1>3, <1>4 DEF Slots, SlotRecords
<1>7. s.h = h /\ s.d = r.d /\ DOMAIN s = DOMAIN r
  BY <1>1
<1> HIDE DEF h, s
<1> QED
  BY <1>1, <1>5, <1>6, <1>7 DEF IsOpened, why, found

LEMMA RebuiltIsTaken ==
  ASSUME NEW r, IsOpened(r), NEW key \in KeyIndexes, NEW process \in ProcessIndexes, NEW which
  PROVE  LET t == take_rebuilt(r, key, process, which)
         IN  IsOpened(t) /\ t.h.failure = r.h.failure
<1> DEFINE KeyIn(x) == [x EXCEPT !.h.key = key, !.h.keyDirectory = FALSE, !.d.key = <<KeyToFile(key)>>]
           ProcessIn(x) == [x EXCEPT !.h.process = process, !.h.processDirectory = FALSE,
                                     !.d.process = <<ProcessToFile(process)>>]
           WithKey(x) == IF "key" \in which THEN KeyIn(x) ELSE x
           WithProcess(x) == IF "process" \in which THEN ProcessIn(x) ELSE x
<1>1. ASSUME NEW x, IsOpened(x) PROVE IsOpened(KeyIn(x)) /\ KeyIn(x).h.failure = x.h.failure
  <2> DEFINE file == <<KeyToFile(key)>>
             h == [x.h EXCEPT !.key = key, !.keyDirectory = FALSE]
             d == [x.d EXCEPT !.key = file]
             y == [x EXCEPT !.h.key = key, !.h.keyDirectory = FALSE, !.d.key = file]
  <2>1. x.h \in Slots /\ x.d \in Disks /\ "h" \in DOMAIN x /\ "d" \in DOMAIN x
    BY <1>1 DEF IsOpened
  <2>2. file \in Maybe(KeyFiles)
    BY DEF KeyFiles, Maybe
  <2>3. y = KeyIn(x)
    OBVIOUS
  <2> HIDE DEF file
  <2>4. h \in Slots /\ h.failure = x.h.failure
    BY <2>1 DEF Slots, SlotRecords
  <2>5. d \in Disks
    BY <2>1, <2>2 DEF Disks
  <2>6. y.h = h /\ y.d = d /\ DOMAIN y = DOMAIN x
    BY <2>1
  <2> HIDE DEF y, h, d, KeyIn
  <2> QED
    BY <2>1, <2>3, <2>4, <2>5, <2>6 DEF IsOpened
<1>2. ASSUME NEW x, IsOpened(x) PROVE IsOpened(ProcessIn(x)) /\ ProcessIn(x).h.failure = x.h.failure
  <2> DEFINE file == <<ProcessToFile(process)>>
             h == [x.h EXCEPT !.process = process, !.processDirectory = FALSE]
             d == [x.d EXCEPT !.process = file]
             y == [x EXCEPT !.h.process = process, !.h.processDirectory = FALSE, !.d.process = file]
  <2>1. x.h \in Slots /\ x.d \in Disks /\ "h" \in DOMAIN x /\ "d" \in DOMAIN x
    BY <1>2 DEF IsOpened
  <2>2. file \in Maybe(ProcessFiles)
    BY DEF ProcessFiles, Maybe
  <2>3. y = ProcessIn(x)
    OBVIOUS
  <2> HIDE DEF file
  <2>4. h \in Slots /\ h.failure = x.h.failure
    BY <2>1 DEF Slots, SlotRecords
  <2>5. d \in Disks
    BY <2>1, <2>2 DEF Disks
  <2>6. y.h = h /\ y.d = d /\ DOMAIN y = DOMAIN x
    BY <2>1
  <2> HIDE DEF y, h, d, ProcessIn
  <2> QED
    BY <2>1, <2>3, <2>4, <2>5, <2>6 DEF IsOpened
<1>3. take_rebuilt(r, key, process, which) = WithProcess(WithKey(r))
  BY DEF take_rebuilt
<1> HIDE DEF KeyIn, ProcessIn
<1>4. IsOpened(WithKey(r)) /\ WithKey(r).h.failure = r.h.failure
  BY <1>1
<1> HIDE DEF WithKey
<1>5. IsOpened(WithProcess(WithKey(r))) /\ WithProcess(WithKey(r)).h.failure = WithKey(r).h.failure
  BY <1>2, <1>4
<1> QED
  BY <1>3, <1>4, <1>5

LEMMA NothingIsSummed ==
  ASSUME NEW S, IsFiniteSet(S)
  PROVE  SumFunction([x \in S |-> 0]) = 0
<1> DEFINE none == [x \in S |-> x]
           part == [x \in {} |-> x]
           f == [x \in S |-> Cardinality({e \in {} : part[e] = x})]
<1>1. Cardinality({}) = 0 /\ IsFiniteSet({})
  BY FS_EmptySet
<1>2. \A x \in S : {e \in {} : part[e] = x} = {}
  OBVIOUS
<1>3. {e \in {} : part[e] \in S} = {}
  OBVIOUS
<1>4. f = [x \in S |-> 0]
  BY <1>1, <1>2
<1>5. SumFunctionOnSet(f, S) = Cardinality({e \in {} : part[e] \in S})
  <2> HIDE DEF part
  <2> QED
    BY <1>1, SumOfParts
<1>6. DOMAIN f = S
  OBVIOUS
<1> HIDE DEF f, part
<1>7. SumFunctionOnSet(f, S) = 0
  BY <1>1, <1>3, <1>5
<1> QED
  BY <1>4, <1>6, <1>7 DEF SumFunction

LEMMA NewHourIs ==
  /\ NewHour \in Slots /\ NewHour.failure = "" /\ NewHour.frames = <<>>
  /\ \A s \in Seq(FileCounts) :
       LET h == [NewHour EXCEPT !.files = s]
       IN  h \in Slots /\ h.failure = "" /\ h.frames = <<>>
<1> DEFINE none == <<>>
<1>1. none \in Seq(FileCounts) /\ none \in Seq(Nat) /\ none \in FrameMaps /\ Range(none) = {}
  BY FramesAre DEF Range
<1>2. NewProcessIndex \in ProcessIndexes
  BY FS_EmptySet DEF NewProcessIndex, ProcessIndexes
<1>3. NoFrame \in Int /\ NoSecond \in Int /\ "" \in Reasons
  BY DEF NoFrame, NoSecond, Reasons
<1> DEFINE h == [at |-> "open", files |-> none, cells |-> NoCells, counts |-> NoCounts,
                 tail |-> NoFrame, last |-> NoSecond, frames |-> none, dirty |-> none,
                 clean |-> FALSE, rebuilt |-> FALSE, failure |-> "",
                 key |-> NewKeyIndex, keyDirectory |-> FALSE, keyChanged |-> FALSE,
                 process |-> NewProcessIndex, processDirectory |-> FALSE,
                 processChanged |-> FALSE]
<1>4. NewHour = h
  BY DEF NewHour
<1> HIDE DEF none
<1>5. h \in SlotRecords /\ h.dirty = none /\ h.failure = "" /\ h.frames = none
  BY <1>1, <1>2, <1>3, NoCellIs, NewIndexes DEF SlotRecords
<1> HIDE DEF h
<1>6. h \in Slots
  BY <1>1, <1>5 DEF Slots
<1>7. ASSUME NEW s \in Seq(FileCounts)
      PROVE  LET k == [h EXCEPT !.files = s]
             IN  k \in Slots /\ k.failure = "" /\ k.frames = none
  <2>1. [h EXCEPT !.files = s] \in Slots
    BY <1>6, SlotWith
  <2> QED
    BY <1>5, <1>6, <2>1 DEF Slots, SlotRecords
<1> QED
  BY <1>4, <1>5, <1>6, <1>7 DEF none

LEMMA FilesAreCounted ==
  /\ \A d \in Disks : FilesOfDisk(d) \in Seq(FileCounts)
  /\ \A files \in Seq(FileCounts) :
       /\ EmptyFiles(files) \in Seq(FileCounts)
       /\ SumFunction([n \in DOMAIN EmptyFiles(files) |-> EmptyFiles(files)[n].count]) = 0
<1>1. ASSUME NEW d \in Disks PROVE FilesOfDisk(d) \in Seq(FileCounts)
  <2> DEFINE lens == d.lens
             At(n) == [count |-> lens[n], onDisk |-> lens[n]]
  <2>1. lens \in Seq(Nat)
    BY DEF Disks
  <2>2. FilesOfDisk(d) = [n \in DOMAIN lens |-> At(n)]
    BY DEF FilesOfDisk
  <2> HIDE DEF lens
  <2>3. Len(lens) \in Nat /\ DOMAIN lens = 1 .. Len(lens) /\ \A n \in 1 .. Len(lens) : lens[n] \in Nat
    BY <2>1
  <2>4. \A n \in 1 .. Len(lens) : At(n) \in FileCounts
    BY <2>3 DEF FileCounts
  <2> HIDE DEF At
  <2> QED
    BY <2>2, <2>3, <2>4
<1>2. ASSUME NEW files \in Seq(FileCounts)
      PROVE  /\ EmptyFiles(files) \in Seq(FileCounts)
             /\ SumFunction([n \in DOMAIN EmptyFiles(files) |-> EmptyFiles(files)[n].count]) = 0
  <2> DEFINE S == DOMAIN files
             empty == [count |-> 0, onDisk |-> 0]
             k == Len(files)
  <2>1. EmptyFiles(files) = [n \in S |-> empty]
    BY DEF EmptyFiles
  <2>2. k \in Nat /\ S = 1 .. k
    OBVIOUS
  <2>3. empty \in FileCounts /\ empty.count = 0
    BY DEF FileCounts
  <2> HIDE DEF S, empty, k
  <2>4. IsFiniteSet(S)
    BY <2>2, FS_Interval
  <2>5. EmptyFiles(files) \in Seq(FileCounts)
    BY <2>1, <2>2, <2>3
  <2>6. [n \in DOMAIN EmptyFiles(files) |-> EmptyFiles(files)[n].count] = [n \in S |-> 0]
    BY <2>1, <2>3
  <2> QED
    BY <2>4, <2>5, <2>6, NothingIsSummed
<1> QED
  BY <1>1, <1>2

(* An hour which is being opened has changed no frame yet. *)
LEMMA NothingFoundIs ==
  ASSUME NEW h \in Slots, h.frames = <<>>, NEW d \in Disks
  PROVE  LET r == NothingFound(h, d)
         IN  /\ IsOpened(r) /\ find_tail(r.h, r.d).ok
             /\ r.indexes \in [key : KeyIndexes, process : ProcessIndexes]
<1> DEFINE none == <<>>
           files == EmptyFiles(h.files)
           found == [h EXCEPT !.cells = NoCells, !.counts = NoCounts, !.frames = none,
                              !.clean = TRUE, !.rebuilt = TRUE, !.files = files]
           lens == [n \in DOMAIN d.lens |-> 0]
           index == <<IndexFile(found)>>
           empty == [d EXCEPT !.torn = FALSE, !.frames = none, !.lens = lens, !.index = index]
           indexes == rebuild_indexes([entries |-> none])
           r == [h |-> found, d |-> empty, indexes |-> indexes]
<1>1. NothingFound(h, d) = r
  BY DEF NothingFound
<1>2. none \in FrameMaps /\ none \in Seq({}) /\ Range(none) = {}
  BY FramesAre DEF Range
<1>3. files \in Seq(FileCounts) /\ SumFunction([n \in DOMAIN files |-> files[n].count]) = 0
  BY SlotIs, FilesAreCounted
<1>4. lens \in Seq(Nat)
  <2>1. d.lens \in Seq(Nat)
    BY DEF Disks
  <2> DEFINE k == Len(d.lens)
  <2>2. k \in Nat /\ DOMAIN d.lens = 1 .. k
    BY <2>1
  <2> HIDE DEF k
  <2> QED
    BY <2>2
<1>5. indexes \in [key : KeyIndexes, process : ProcessIndexes]
  <2> DEFINE walk == [entries |-> none]
  <2>1. walk.entries \in Seq({})
    BY <1>2
  <2> HIDE DEF walk, none
  <2>2. rebuild_indexes(walk) \in [key : KeyIndexes, process : ProcessIndexes]
    BY <2>1, IndexesAreRebuilt
  <2> QED
    BY <2>2 DEF walk
<1>6. FrameCount(found) = 0
  <2> HIDE DEF files
  <2>1. found.files = files
    BY DEF Slots, SlotRecords
  <2> QED
    BY <1>3, <2>1 DEF FrameCount
<1> HIDE DEF files, lens, indexes
<1>7. found \in Slots /\ IndexFile(found) \in IndexFiles
  <2>1. h \in SlotRecords /\ Range(h.dirty) \subseteq DOMAIN none
    BY DEF Slots
  <2> HIDE DEF none
  <2>2. found \in SlotRecords /\ found.dirty = h.dirty /\ found.frames = none
    BY <1>2, <1>3, <2>1, NoCellIs DEF SlotRecords
  <2> HIDE DEF found
  <2>3. found \in Slots
    BY <2>1, <2>2 DEF Slots
  <2>4. IndexFile(found) \in IndexFiles
    BY <2>3, SlotIs DEF IndexFile, IndexFiles
  <2> QED
    BY <2>3, <2>4
<1>8. index \in Maybe(IndexFiles)
  <2> HIDE DEF found
  <2> QED
    BY <1>7, MaybeIs DEF Maybe
<1> HIDE DEF found, index
<1>9. empty \in Disks
  <2> HIDE DEF none
  <2> QED
    BY <1>2, <1>4, <1>8 DEF Disks
<1> HIDE DEF empty
<1>10. find_tail(r.h, r.d).ok
  BY <1>6 DEF find_tail
<1>11. IsOpened(r) /\ r.indexes = indexes
  BY <1>7, <1>9 DEF IsOpened
<1> HIDE DEF r
<1> QED
  BY <1>1, <1>5, <1>10, <1>11

(* The frames which read are the same ones after the last one is ended, so *)
(* the tail is found from where any cell of the walk is.                   *)
LEMMA FoundIs ==
  ASSUME NEW h \in Slots, h.frames = <<>>, NEW d \in Disks, HEAD \in DOMAIN FramesOf(h, d)
  PROVE  LET r == Found(h, d, Chain(FramesOf(h, d)))
         IN  /\ IsOpened(r) /\ find_tail(r.h, r.d).ok
             /\ r.indexes \in [key : KeyIndexes, process : ProcessIndexes]
<1> DEFINE none == <<>>
           F == FramesOf(h, d)
           walk == Chain(F)
           chain == Follow(F, HEAD)
           last == walk.last
           cells == CellsOf(walk)
           counts == CountsOf(walk)
           found == [h EXCEPT !.cells = cells, !.counts = counts, !.frames = none,
                              !.clean = TRUE, !.rebuilt = TRUE]
           ended == Updated(d.frames, last, Ended(d.frames[last]))
           frames == IF walk.ok THEN d.frames ELSE ended
           index == <<IndexFile(found)>>
           left == [d EXCEPT !.torn = FALSE, !.frames = frames, !.index = index]
           indexes == rebuild_indexes(walk)
           r == [h |-> found, d |-> left, indexes |-> indexes]
           G == FramesOf(found, left)
           X == FoundIn(F)
<1>1. Found(h, d, Chain(FramesOf(h, d))) = r
  BY DEF Found
<1>2. none \in FrameMaps /\ h.frames = none /\ d.frames \in FrameMaps /\ DOMAIN none = {}
  BY FramesAre DEF Disks
<1>3. /\ F \in FrameMaps /\ DOMAIN F \subseteq DOMAIN d.frames
      /\ \A f \in DOMAIN F : F[f] = d.frames[f]
  <2> HIDE DEF none
  <2> QED
    BY <1>2, FramesRead
<1>4. Walked(F, Head1, walk) /\ Head1.frame = HEAD
  <2>1. Head1.offset \in Int /\ Head1.frame = HEAD
    BY FrameAssumption DEF Head1
  <2> HIDE DEF F
  <2>2. Walked(F, Head1, WalkFrom(F, Head1))
    BY <1>3, <2>1, WalkIs DEF F
  <2> QED
    BY <2>1, <2>2 DEF Chain
<1>5. HEAD \in DOMAIN F
  OBVIOUS
<1> HIDE DEF F, walk, none
<1>6. chain \in ChainsFrom(F, HEAD)
  BY <1>3, <1>5, FollowIs
<1>6a. PICK n \in 1 .. Len(chain) : EndsIn(F, chain, walk, n)
  BY <1>4, <1>5 DEF Walked
<1>7. /\ last = chain[n] /\ n \in 1 .. Len(chain)
      /\ walk.ok => F[chain[n]].next = NoFrame
      /\ walk.entries \in Seq(FoundAmong(F, {chain[i] : i \in 1 .. n}))
  BY <1>6a DEF EndsIn
<1> DEFINE through == {chain[i] : i \in 1 .. n}
<1>8. /\ chain \in Seq(DOMAIN F) /\ chain[1] = HEAD /\ Len(chain) \in Nat /\ 1 \in 1 .. n
      /\ walk \in [entries : Seq(X), last : Int, ok : BOOLEAN]
  BY <1>4, <1>6, <1>7 DEF ChainsFrom, Walked
<1>9. last \in DOMAIN F /\ last \in DOMAIN d.frames /\ last \in Nat /\ F[last] = d.frames[last]
  <2>1. last \in DOMAIN F
    BY <1>7, <1>8
  <2> QED
    BY <1>3, <2>1, FramesAre
<1> HIDE DEF chain
<1>10. /\ cells \in Cells
       /\ \A s \in Seconds : cells[s] # NoCell => cells[s].frame \in through
  <2> HIDE DEF through
  <2> QED
    BY <1>3, <1>7, CellsOfAWalk DEF through
<1>11. counts \in Counts /\ indexes \in [key : KeyIndexes, process : ProcessIndexes]
  <2>1. \A e \in X : e.entry \in Entries
    BY DEF FoundIn
  <2>2. walk.entries \in Seq(X)
    BY <1>8
  <2> HIDE DEF X
  <2> QED
    BY <2>1, <2>2, RecordsOfAWalk, IndexesAreRebuilt
<1> HIDE DEF cells, counts, indexes, through
<1>12. ended \in FrameMaps /\ DOMAIN ended = DOMAIN d.frames
  <2>1. d.frames[last] \in FrameSet
    BY <1>2, <1>9, FramesAre
  <2> DEFINE g == d.frames[last]
  <2> HIDE DEF g
  <2>2. g \in Loose /\ used(g) <= FRAME_CAPACITY /\ used(g) \in Nat
    BY <2>1, UsedIs DEF FrameSet, g
  <2>3. Ended(g) \in Loose /\ used(Ended(g)) <= used(g)
    BY <2>2, EndedIs
  <2>4. used(Ended(g)) \in Nat /\ FRAME_CAPACITY \in Nat
    BY <2>3, UsedIs, FrameAssumption
  <2>5. Ended(g) \in FrameSet
    BY <2>2, <2>3, <2>4 DEF FrameSet
  <2> HIDE DEF last
  <2>6. Updated(d.frames, last, Ended(g)) \in FrameMaps
        /\ DOMAIN Updated(d.frames, last, Ended(g)) = DOMAIN d.frames \union {last}
    BY <1>2, <1>9, <2>5, FrameIsPut
  <2> QED
    BY <1>9, <2>6 DEF g
<1>13. /\ frames \in FrameMaps /\ DOMAIN frames = DOMAIN d.frames
       /\ frames[last].next = NoFrame
       /\ \A f \in DOMAIN d.frames : f # last => frames[f] = d.frames[f]
  <2>1. CASE walk.ok
    BY <1>2, <1>7, <1>9, <2>1
  <2>2. CASE ~walk.ok
    <3>1. frames = ended
      BY <2>2
    <3>2. ended[last] = Ended(d.frames[last]) /\ \A f \in DOMAIN d.frames : f # last => ended[f] = d.frames[f]
      BY <1>9 DEF Updated
    <3>3. Ended(d.frames[last]).next = NoFrame
      BY DEF Ended
    <3> HIDE DEF ended, frames
    <3> QED
      BY <1>12, <3>1, <3>2, <3>3
  <2> QED
    BY <2>1, <2>2
<1> HIDE DEF frames, ended
<1>14. found \in Slots /\ found.files = h.files /\ found.frames = none /\ found.cells = cells
       /\ IndexFile(found) \in IndexFiles
  <2>1. h \in SlotRecords /\ Range(h.dirty) \subseteq DOMAIN none
    BY <1>2 DEF Slots
  <2>2. found \in SlotRecords /\ found.dirty = h.dirty /\ found.frames = none
        /\ found.cells = cells /\ found.files = h.files
    BY <1>2, <1>10, <1>11, <2>1 DEF SlotRecords
  <2> HIDE DEF found
  <2>3. found \in Slots
    BY <2>1, <2>2 DEF Slots
  <2>4. IndexFile(found) \in IndexFiles
    BY <2>3, SlotIs DEF IndexFile, IndexFiles
  <2> QED
    BY <2>2, <2>3, <2>4
<1> HIDE DEF found
<1>15. index \in Maybe(IndexFiles)
  BY <1>14, MaybeIs DEF Maybe
<1> HIDE DEF index
<1>16. left \in Disks /\ left.frames = frames
  BY <1>13, <1>15 DEF Disks
<1> HIDE DEF left
<1>17. G \in FrameMaps /\ DOMAIN G = DOMAIN F /\ \A f \in DOMAIN G : G[f] = frames[f]
  <2>1. G = [f \in {f \in DOMAIN frames : /\ FileOf(f) \in DOMAIN h.files
                                         /\ IndexIn(f) < h.files[FileOf(f)].onDisk} |-> frames[f]]
    BY <1>2, <1>14, <1>16 DEF FramesOf
  <2>2. DOMAIN F = {f \in DOMAIN d.frames : /\ FileOf(f) \in DOMAIN h.files
                                           /\ IndexIn(f) < h.files[FileOf(f)].onDisk}
    BY <1>2 DEF FramesOf, F
  <2>3. G \in FrameMaps
    BY <1>2, <1>13, <1>14, <1>16, FramesRead
  <2> QED
    BY <1>13, <2>1, <2>2, <2>3
<1> HIDE DEF G
<1>18. \A i \in 1 .. n : LastFrame(G, chain[i]) # NoFrame
  <2> TAKE i \in 1 .. n
  <2>1. G[chain[n]].next = NoFrame
    BY <1>7, <1>9, <1>13, <1>17
  <2>2. \A f \in DOMAIN F : f # chain[n] => G[f].next = F[f].next
    BY <1>3, <1>7, <1>13, <1>17
  <2> HIDE DEF last, X
  <2> QED
    BY <1>3, <1>6, <1>7, <1>17, <2>1, <2>2, PartOfAChain
<1>19. find_tail(found, left).ok
  <2> DEFINE second == last_of(cells)
             start == IF second = NoSecond THEN HEAD ELSE cells[second].frame
  <2>1. start \in through
    <3>1. second # NoSecond => second \in Seconds /\ cells[second] # NoCell
      BY <1>10, LastSecondIs
    <3> HIDE DEF second
    <3>2. HEAD \in through
      BY <1>8 DEF through
    <3> QED
      BY <1>10, <3>1, <3>2
  <2> HIDE DEF second
  <2>2. LastFrame(G, start) # NoFrame
    <3> HIDE DEF start
    <3> QED
      BY <1>18, <2>1 DEF through
  <2> QED
    BY <1>14, <2>2 DEF find_tail, G, second
<1>20. IsOpened(r) /\ r.indexes = indexes /\ r.h = found /\ r.d = left
  BY <1>14, <1>16 DEF IsOpened
<1> HIDE DEF r
<1> QED
  BY <1>1, <1>11, <1>19, <1>20

LEMMA RebuiltIs ==
  ASSUME NEW h \in Slots, h.frames = <<>>, NEW d \in Disks
  PROVE  LET r == rebuild(h, d)
         IN  /\ IsOpened(r) /\ find_tail(r.h, r.d).ok
             /\ r.indexes \in [key : KeyIndexes, process : ProcessIndexes]
<1>1. [h EXCEPT !.frames = <<>>] = h
  <2>1. h \in SlotRecords
    BY DEF Slots
  <2> DEFINE none == <<>>
  <2>2. h.frames = none
    OBVIOUS
  <2> HIDE DEF none
  <2>3. [h EXCEPT !.frames = none] = h
    BY <2>1, <2>2 DEF SlotRecords
  <2> QED
    BY <2>3 DEF none
<1> DEFINE F == FramesOf(h, d)
<1>2. rebuild(h, d) = IF HEAD \in DOMAIN F THEN Found(h, d, Chain(F)) ELSE NothingFound(h, d)
  BY <1>1 DEF rebuild
<1>3. CASE HEAD \in DOMAIN F
  <2>1. rebuild(h, d) = Found(h, d, Chain(FramesOf(h, d)))
    BY <1>2, <1>3
  <2> QED
    BY <1>3, <2>1, FoundIs
<1>4. CASE HEAD \notin DOMAIN F
  <2>1. rebuild(h, d) = NothingFound(h, d)
    BY <1>2, <1>4
  <2> QED
    BY <2>1, NothingFoundIs
<1> QED
  BY <1>3, <1>4

LEMMA IndexesAreRead ==
  ASSUME NEW h \in Slots, NEW d \in Disks, NEW full \in BOOLEAN
  PROVE  LET x == WithIndexes(h, d, full)
         IN  x \in Slots /\ x.failure = h.failure
<1> DEFINE key == IF d.key = <<>> THEN h.key ELSE KeyFromFile(d.key[1])
           process == IF d.process = <<>> THEN h.process ELSE ProcessFromFile(d.process[1])
           x == [h EXCEPT !.key = key, !.process = process,
                          !.keyDirectory = ~full, !.processDirectory = ~full]
<1>1. WithIndexes(h, d, full) = x
  BY DEF WithIndexes, Slots, SlotRecords
<1>2. d.key \in Maybe(KeyFiles) /\ d.process \in Maybe(ProcessFiles)
  BY DEF Disks
<1>3. key \in KeyIndexes
  <2>1. CASE d.key = <<>>
    BY <2>1, SlotIs
  <2>2. CASE d.key # <<>>
    <3>1. d.key[1] \in KeyFiles
      BY <1>2, <2>2, MaybeIs
    <3>2. PICK k \in KeyIndexes : d.key[1] = KeyToFile(k)
      BY <3>1 DEF KeyFiles
    <3> QED
      BY <2>2, <3>2, KeyFileIsTheIndex
  <2> QED
    BY <2>1, <2>2
<1>4. process \in ProcessIndexes
  <2>1. CASE d.process = <<>>
    BY <2>1, SlotIs
  <2>2. CASE d.process # <<>>
    <3>1. d.process[1] \in ProcessFiles
      BY <1>2, <2>2, MaybeIs
    <3>2. PICK p \in ProcessIndexes : d.process[1] = ProcessToFile(p)
      BY <3>1 DEF ProcessFiles
    <3> QED
      BY <2>2, <3>2, ProcessFileIsTheIndex
  <2> QED
    BY <2>1, <2>2
<1> HIDE DEF key, process
<1>5. x \in Slots /\ x.failure = h.failure
  BY <1>3, <1>4 DEF Slots, SlotRecords
<1> QED
  BY <1>1, <1>5

LEMMA OpenedRebuilt ==
  ASSUME NEW h \in Slots, h.frames = <<>>, NEW d \in Disks
  PROVE  LET r == OpenRebuilt(h, d)
         IN  IsOpened(r) /\ r.h.failure = ""
<1> DEFINE b == rebuild(h, d)
           t == WithTail(b)
<1>1. /\ IsOpened(b) /\ find_tail(b.h, b.d).ok
      /\ b.indexes \in [key : KeyIndexes, process : ProcessIndexes]
  BY RebuiltIs
<1> HIDE DEF b
<1>2. IsOpened(t) /\ t.h.failure = ""
  BY <1>1, TailIsFound
<1>3. OpenRebuilt(h, d) = take_rebuilt(t, b.indexes.key, b.indexes.process, {"key", "process"})
  BY DEF OpenRebuilt, b
<1> HIDE DEF t
<1>4. b.indexes.key \in KeyIndexes /\ b.indexes.process \in ProcessIndexes
  BY <1>1
<1> DEFINE key == b.indexes.key
           process == b.indexes.process
           which == {"key", "process"}
           o == OpenRebuilt(h, d)
<1>5. key \in KeyIndexes /\ process \in ProcessIndexes /\ o = take_rebuilt(t, key, process, which)
  BY <1>3, <1>4
<1> HIDE DEF key, process, which, o
<1>6. IsOpened(o) /\ o.h.failure = t.h.failure
  BY <1>2, <1>5, RebuiltIsTaken
<1> QED
  BY <1>2, <1>6 DEF o

LEMMA OpenedWithData ==
  ASSUME NEW r, IsOpened(r), r.h.frames = <<>>, NEW full \in BOOLEAN,
         r.h.failure \in {"", "the hour does not open"},
         NEW X, \A e \in X : e.entry \in Entries, NEW walk, walk.entries \in Seq(X)
  PROVE  LET o == WithDataOf(r, r.d, full, walk)
         IN  IsOpened(o) /\ o.h.failure = ""
<1> DEFINE d == r.d
           again == rebuild_indexes(walk)
           with == WithIndexes(r.h, d, full)
           read == [r EXCEPT !.h = with]
           h == [r.h EXCEPT !.failure = ""]
           o == WithDataOf(r, r.d, full, walk)
           counted == \/ r.h.failure # ""
                      \/ FrameCount(r.h) > 0 /\ (~walk.ok \/ again.key.total # total(r.h.counts))
           whole == r.h.failure = "" /\ Miscounted(r.h, d) = {}
           opened == OpenRebuilt(h, d)
           taken == take_rebuilt(read, again.key, again.process, Miscounted(r.h, d))
<1>1. r.h \in Slots /\ d \in Disks /\ "h" \in DOMAIN r
  BY DEF IsOpened
<1>2. again \in [key : KeyIndexes, process : ProcessIndexes]
  BY IndexesAreRebuilt
<1>3. with \in Slots /\ with.failure = r.h.failure
  BY <1>1, IndexesAreRead
<1>4. o = IF whole THEN read ELSE IF counted THEN opened ELSE taken
  BY <1>1 DEF WithDataOf, Recounted
<1> HIDE DEF again, with
<1>5. IsOpened(read) /\ read.h = with
  BY <1>3, OpenedWith
<1>6. IsOpened(opened) /\ opened.h.failure = ""
  <2>1. "" \in Reasons
    BY DEF Reasons
  <2>2. h \in Slots
    BY <1>1, <2>1, SlotWith
  <2>3. h.frames = <<>>
    <3>1. h.frames = r.h.frames
      BY <1>1 DEF Slots, SlotRecords
    <3> QED
      BY <3>1
  <2> HIDE DEF h, d
  <2> QED
    BY <1>1, <2>2, <2>3, OpenedRebuilt
<1> DEFINE lost == Miscounted(r.h, d)
<1> HIDE DEF lost, read
<1>7. IsOpened(taken) /\ taken.h.failure = r.h.failure
  <2>1. again.key \in KeyIndexes /\ again.process \in ProcessIndexes
    BY <1>2
  <2>2. LET t == take_rebuilt(read, again.key, again.process, lost)
        IN  IsOpened(t) /\ t.h.failure = read.h.failure
    BY <1>5, <2>1, RebuiltIsTaken
  <2> QED
    BY <1>3, <1>5, <2>2 DEF lost
<1>8. whole => r.h.failure = ""
  OBVIOUS
<1>9. ~counted => r.h.failure = ""
  OBVIOUS
<1> HIDE DEF whole, counted, opened, taken, o
<1>10. IsOpened(o) /\ o.h.failure = ""
  BY <1>3, <1>4, <1>5, <1>6, <1>7, <1>8, <1>9
<1> QED
  BY <1>10 DEF o

(* An hour opens with what reads of it, from files with whatever frames,   *)
(* cells and indexes.                                                      *)
LEMMA OpenedIs ==
  ASSUME NEW d \in Disks, NEW full \in BOOLEAN
  PROVE  LET r == OpenHour(d, full)
         IN  r.h \in Slots /\ r.d \in Disks /\ r.h.failure = ""
<1> DEFINE h == [NewHour EXCEPT !.files = FilesOfDisk(d)]
           fresh == [h |-> NewHour, d |-> d]
           broken == d.index = <<>> \/ d.torn \/ ~d.index[1].clean
<1>1. h \in Slots /\ h.failure = "" /\ h.frames = <<>>
  BY FilesAreCounted, NewHourIs
<1>2. OpenHour(d, full) = CASE d.lens = <<>> -> fresh
                            [] d.lens # <<>> /\ broken -> OpenRebuilt(h, d)
                            [] OTHER -> OpenClean(h, d, full)
  BY DEF OpenHour
<1>3. fresh.h = NewHour /\ fresh.d = d /\ NewHour \in Slots /\ NewHour.failure = ""
  BY NewHourIs
<1> HIDE DEF h, fresh
<1>4. ~broken => d.index # <<>>
  OBVIOUS
<1> HIDE DEF broken
<1>5. CASE d.lens = <<>>
  <2>1. OpenHour(d, full) = fresh
    BY <1>2, <1>5
  <2> QED
    BY <1>3, <2>1
<1>6. CASE d.lens # <<>> /\ broken
  <2>1. OpenHour(d, full) = OpenRebuilt(h, d)
    BY <1>2, <1>6
  <2>2. IsOpened(OpenRebuilt(h, d)) /\ OpenRebuilt(h, d).h.failure = ""
    BY <1>1, OpenedRebuilt
  <2> QED
    BY <2>1, <2>2 DEF IsOpened
<1>7. CASE d.lens # <<>> /\ ~broken
  <2> DEFINE index == d.index[1]
             cells == [h EXCEPT !.cells = index.cells, !.counts = index.counts, !.clean = TRUE]
             F == FramesOf(h, d)
             both == [h |-> cells, d |-> d]
             r == WithTail(both)
             X == FoundIn(F)
             none == [entries |-> <<>>, ok |-> FALSE]
             walk == IF HEAD \in DOMAIN F THEN Chain(F) ELSE none
             o == WithDataOf(r, r.d, full, walk)
  <2>1. d.index \in Maybe(IndexFiles)
    BY DEF Disks
  <2>2. index \in IndexFiles
    BY <1>4, <1>7, <2>1, MaybeIs
  <2> HIDE DEF index
  <2>3. cells \in Slots /\ cells.failure = "" /\ cells.frames = h.frames
    BY <1>1, <2>2 DEF Slots, SlotRecords, IndexFiles
  <2>4. cells.frames = <<>>
    BY <1>1, <2>3
  <2> HIDE DEF cells
  <2>5. IsOpened(both) /\ both.h = cells /\ both.d = d
    BY <2>3 DEF IsOpened
  <2> HIDE DEF both
  <2>6. IsOpened(r) /\ r.d = d /\ r.h.frames = <<>> /\ r.h.failure \in {"", "the hour does not open"}
    BY <2>4, <2>5, TailIsFound
  <2>7. F \in FrameMaps
    BY <1>1, SlotIs, FramesRead DEF Disks
  <2>8. Head1.offset \in Int
    BY FrameAssumption DEF Head1
  <2> HIDE DEF F, r
  <2>9. walk.entries \in Seq(X)
    <3>1. CASE HEAD \in DOMAIN F
      <4>1. Walked(F, Head1, WalkFrom(F, Head1))
        BY <2>7, <2>8, WalkIs
      <4> QED
        BY <3>1, <4>1 DEF Walked, Chain
    <3>2. CASE HEAD \notin DOMAIN F
      <4>1. walk.entries = <<>>
        BY <3>2
      <4>2. <<>> \in Seq(X)
        OBVIOUS
      <4> QED
        BY <4>1, <4>2
    <3> QED
      BY <3>1, <3>2
  <2>10. OpenHour(d, full) = OpenClean(h, d, full)
    BY <1>2, <1>7
  <2>11. OpenClean(h, d, full) = WithDataOf(r, d, full, walk)
    BY DEF OpenClean, r, both, cells, index, F
  <2> HIDE DEF walk
  <2>12. \A e \in X : e.entry \in Entries
    BY DEF FoundIn
  <2> HIDE DEF X
  <2>13. IsOpened(o) /\ o.h.failure = ""
    BY <2>6, <2>9, <2>12, OpenedWithData
  <2> HIDE DEF o
  <2>14. OpenHour(d, full) = o
    BY <2>6, <2>10, <2>11 DEF o
  <2> QED
    BY <2>13, <2>14 DEF IsOpened
<1> QED
  BY <1>5, <1>6, <1>7

-------------------------------------------------------------------------------
(* What is always so of the files of an hour: frames within their capacity *)
(* on the disk and in memory, indexes which are the file of an index, an   *)
(* hour which is open has opened, and what a flush has still to write is   *)
(* in memory.  Each step of the hour keeps that.                           *)
Faults == {"loading", "none", "crash", "split", "torn", "power", "failed"}
OpenSlots == {h \in Slots : h.failure = ""}
FilesRight == disk \in Disks
SlotRight == slot = Closed \/ slot \in OpenSlots
StepsRight == IF slot = Closed THEN steps = <<>> ELSE steps \in StepsOver(slot.frames)
GivenRight == given \subseteq AllRecords /\ writing \subseteq given /\ dropped \subseteq given
FaultRight ==
  /\ fault \in Faults
  /\ fault = "loading" => slot = NewHour /\ steps = <<>> /\ writing = {} /\ dropped = {}
FileInv == FilesRight /\ SlotRight /\ StepsRight /\ GivenRight /\ FaultRight

LEMMA SlotIsOpen ==
  ASSUME SlotRight
  PROVE  /\ slot.at = "open" <=> slot # Closed
         /\ slot.at = "closed" <=> slot = Closed
         /\ slot # Closed => slot \in Slots /\ slot.failure = "" /\ slot \in OpenSlots
<1>1. Closed.at = "closed" /\ \A h \in Slots : h.at = "open"
  BY SlotIs DEF Closed
<1> QED
  BY <1>1 DEF SlotRight, OpenSlots

LEMMA OpenIsNotClosed ==
  \A h \in Slots : h # Closed /\ (h.failure = "" => h \in OpenSlots)
<1>1. Closed.at = "closed" /\ \A h \in Slots : h.at = "open"
  BY SlotIs DEF Closed
<1> QED
  BY <1>1 DEF OpenSlots

LEMMA NoStepsAreOver ==
  /\ \A frames : <<>> \in StepsOver(frames)
  /\ <<>> \in Seq(Steps)
<1>1. <<>> \in Seq(Steps) /\ Len(<<>>) = 0
  OBVIOUS
<1> QED
  BY <1>1 DEF StepsOver

LEMMA FirstStepIs ==
  ASSUME NEW h \in Slots, NEW s \in StepsOver(h.frames), s # <<>>
  PROVE  /\ Head(s) \in Steps
         /\ Head(s).do = "frame" => Head(s).frame \in DOMAIN h.frames
         /\ Tail(s) \in StepsOver(Flushed(h, Head(s)).frames)
<1> DEFINE n == Len(s)
           t == Tail(s)
           D == DOMAIN h.frames
           G == Flushed(h, Head(s)).frames
<1>1. s \in Seq(Steps) /\ n \in Nat /\ n > 0
  BY DEF StepsOver
<1>2. \A i \in 1 .. n : s[i].do = "frame" =>
        s[i].frame \in DOMAIN h.frames /\ \A j \in 1 .. i - 1 : s[j].do # "cells"
  BY DEF StepsOver
<1>3. /\ Head(s) = s[1] /\ Head(s) \in Steps
      /\ t \in Seq(Steps) /\ Len(t) = n - 1 /\ \A i \in 1 .. n - 1 : t[i] = s[i + 1]
  BY <1>1
<1>4. s[1].do # "cells" => G = h.frames
  BY <1>3, StepIsFlushed
<1> HIDE DEF n, t, G, D
<1>5. 1 \in 1 .. n
  BY <1>1
<1>6. \A i \in 1 .. n - 1 : t[i].do = "frame" =>
        t[i].frame \in DOMAIN G /\ \A j \in 1 .. i - 1 : t[j].do # "cells"
  <2> TAKE i \in 1 .. n - 1
  <2> HAVE t[i].do = "frame"
  <2> DEFINE k == i + 1
  <2>1. k \in 1 .. n /\ t[i] = s[k] /\ 1 \in 1 .. k - 1
        /\ \A j \in 1 .. i - 1 : j + 1 \in 1 .. k - 1 /\ t[j] = s[j + 1]
    BY <1>1, <1>3
  <2> HIDE DEF k
  <2>2. s[k].frame \in DOMAIN h.frames /\ \A j \in 1 .. k - 1 : s[j].do # "cells"
    BY <1>2, <2>1
  <2>3. \A j \in 1 .. i - 1 : t[j].do # "cells"
    <3> TAKE j \in 1 .. i - 1
    <3> DEFINE l == j + 1
    <3>1. l \in 1 .. k - 1 /\ t[j] = s[l]
      BY <2>1
    <3> HIDE DEF l
    <3> QED
      BY <2>2, <3>1
  <2> QED
    BY <1>4, <2>1, <2>2, <2>3
<1>7. t \in StepsOver(G)
  BY <1>3, <1>6 DEF StepsOver
<1> QED
  BY <1>2, <1>3, <1>5, <1>7 DEF t, G

LEMMA FileInit == Init => FileInv
<1> SUFFICES ASSUME Init PROVE FileInv
  OBVIOUS
<1> DEFINE none == <<>>
           d == [frames |-> none, lens |-> none, torn |-> FALSE, index |-> none,
                 key |-> none, process |-> none]
<1>1. disk = d
  BY DEF Init, NoFiles
<1>2. none \in FrameMaps /\ none \in Seq(Nat) /\ none \in Maybe(IndexFiles)
      /\ none \in Maybe(KeyFiles) /\ none \in Maybe(ProcessFiles)
  BY FramesAre DEF Maybe
<1> HIDE DEF none
<1>3. d \in Disks
  BY <1>2 DEF Disks
<1> HIDE DEF d
<1>4. slot = NewHour /\ slot \in OpenSlots
  BY NewHourIs DEF Init, OpenSlots
<1>5. StepsRight
  BY NoStepsAreOver DEF Init, StepsRight
<1> QED
  BY <1>1, <1>3, <1>4, <1>5
  DEF Init, FileInv, FilesRight, SlotRight, GivenRight, FaultRight, Faults

LEMMA LoadKeeps ==
  ASSUME FileInv, NEW batches \in Preloaded, Load(batches)
  PROVE  FileInv'
<1> DEFINE h == FoldLeft(WriteSeconds, slot, batches)
           some == flush(h, TRUE, TRUE)
           all == Done(disk, h, some)
<1>1. fault = "loading" /\ slot = NewHour /\ steps = <<>> /\ writing = {} /\ dropped = {}
  BY DEF Load, FileInv, FaultRight
<1>2. h.failure = "" /\ disk' = all.d /\ slot' = all.h
  BY DEF Load
<1>3. disk \in Disks /\ disk.frames \in FrameMaps /\ slot \in Slots
  BY <1>1, NewHourIs DEF FileInv, FilesRight, Disks
<1>4. h \in Slots
  BY <1>3, BatchesAreWritten
<1> HIDE DEF h
<1>5. some \in StepsOver(h.frames)
  BY <1>4, FlushIs
<1> HIDE DEF some
<1>6. all.d \in Disks /\ all.h \in Slots /\ all.h.failure = ""
  BY <1>2, <1>3, <1>4, <1>5, StepsAreDone
<1> HIDE DEF all
<1>7. slot' \in OpenSlots /\ slot' # Closed
  BY <1>2, <1>6, OpenIsNotClosed
<1>8. FilesRight' /\ SlotRight'
  BY <1>2, <1>6, <1>7 DEF FilesRight, SlotRight
<1>9. StepsRight'
  <2>1. steps' = <<>>
    BY <1>1 DEF Load
  <2> QED
    BY <1>7, <2>1, NoStepsAreOver DEF StepsRight
<1>10. GivenRight'
  <2>1. given' = UNION Range(batches) /\ writing' = writing /\ dropped' \subseteq given'
    BY <1>1 DEF Load
  <2>2. UNION Range(batches) \subseteq AllRecords
    BY DEF AllRecords
  <2> QED
    BY <1>1, <2>1, <2>2 DEF GivenRight, FileInv
<1>11. FaultRight'
  BY DEF Load, FaultRight, Faults
<1> QED
  BY <1>8, <1>9, <1>10, <1>11 DEF FileInv

LEMMA WriteKeeps ==
  ASSUME FileInv, NEW ids \in SUBSET (Records \ given), NEW due \in BOOLEAN, Write(ids, due)
  PROVE  FileInv'
<1> DEFINE h == WriteSeconds(slot, ids)
<1>1. /\ slot.at = "open" /\ steps = <<>> /\ fault # "loading"
      /\ Refuse(h, ids) \/ Accept(h, ids, due)
      /\ given' = given \union ids /\ disk' = disk
  BY DEF Write
<1>2. disk \in Disks /\ disk.frames \in FrameMaps /\ slot \in Slots
  BY <1>1, SlotIsOpen DEF FileInv, FilesRight, Disks
<1>3. ids \in SUBSET AllRecords /\ IsFiniteSet(ids)
  <2>1. ids \subseteq Records /\ IsFiniteSet(Records) /\ Records \subseteq AllRecords
    BY HourFileAssumption DEF AllRecords
  <2>2. IsFiniteSet(ids)
    BY <2>1, FS_Subset
  <2> QED
    BY <2>1, <2>2
<1>4. h \in Slots
  BY <1>2, <1>3, SecondsAreWritten
<1> HIDE DEF h
<1>5. FilesRight'
  BY <1>1, <1>2 DEF FilesRight
<1>6. CASE Refuse(h, ids)
  <2>1. slot' = Closed /\ steps' = <<>> /\ dropped' = dropped \union ids /\ writing' = writing
        /\ fault' \in {fault, "split"}
    BY <1>1, <1>6 DEF Refuse
  <2>2. SlotRight' /\ StepsRight'
    BY <2>1 DEF SlotRight, StepsRight
  <2>3. GivenRight'
    BY <1>1, <1>3, <2>1 DEF FileInv, GivenRight
  <2>4. FaultRight'
    BY <1>1, <2>1 DEF FileInv, FaultRight, Faults
  <2> QED
    BY <1>5, <2>2, <2>3, <2>4 DEF FileInv
<1>7. CASE Accept(h, ids, due)
  <2>1. slot' = h /\ h.failure = "" /\ steps' = flush(h, due, FALSE) /\ writing' \in {{}, ids}
        /\ dropped' \subseteq dropped \union ids /\ fault' = fault
    BY <1>7 DEF Accept
  <2>2. slot' \in OpenSlots /\ slot' # Closed
    BY <1>4, <2>1, OpenIsNotClosed
  <2>3. StepsRight'
    <3>1. flush(h, due, FALSE) \in StepsOver(h.frames)
      BY <1>4, FlushIs
    <3> QED
      BY <2>1, <2>2, <3>1 DEF StepsRight
  <2>4. GivenRight'
    BY <1>1, <1>3, <2>1 DEF FileInv, GivenRight
  <2>5. FaultRight'
    BY <1>1, <2>1 DEF FileInv, FaultRight
  <2> QED
    BY <1>5, <2>2, <2>3, <2>4, <2>5 DEF FileInv, SlotRight
<1> QED
  BY <1>1, <1>6, <1>7

LEMMA PersistKeeps ==
  ASSUME FileInv, NEW due \in BOOLEAN, NEW quiet \in BOOLEAN, Persist(due, quiet)
  PROVE  FileInv'
<1>1. /\ slot.at = "open" /\ steps' = flush(slot, due, quiet) /\ flush(slot, due, quiet) # <<>>
      /\ disk' = disk /\ slot' = slot /\ given' = given /\ writing' = writing
      /\ dropped' = dropped /\ fault' = fault
  BY DEF Persist
<1>2. slot \in Slots /\ slot # Closed
  BY <1>1, SlotIsOpen DEF FileInv
<1>3. steps' \in StepsOver(slot.frames)
  BY <1>1, <1>2, FlushIs
<1>4. fault # "loading"
  <2> SUFFICES ASSUME slot = NewHour PROVE FALSE
    BY DEF FileInv, FaultRight
  <2>1. slot.dirty = <<>> /\ slot.keyChanged = FALSE /\ slot.processChanged = FALSE
    BY DEF NewHour
  <2>2. flush(slot, due, quiet) = <<>> \o <<>> \o <<>>
    BY <2>1 DEF flush, flush_frames
  <2>3. <<>> \o <<>> = <<>>
    OBVIOUS
  <2> QED
    BY <1>1, <2>2, <2>3
<1> QED
  BY <1>1, <1>2, <1>3, <1>4
  DEF FileInv, FilesRight, SlotRight, StepsRight, GivenRight, FaultRight

LEMMA FlushStepKeeps ==
  ASSUME FileInv, FlushStep
  PROVE  FileInv'
<1> DEFINE step == Head(steps)
<1>1. /\ steps # <<>> /\ disk' = Written(disk, slot, step) /\ slot' = Flushed(slot, step)
      /\ steps' = Tail(steps) /\ writing' \in {{}, writing}
      /\ given' = given /\ dropped' = dropped /\ fault' = fault
  BY DEF FlushStep
<1>2. disk \in Disks /\ slot # Closed /\ slot \in Slots /\ slot.failure = ""
      /\ steps \in StepsOver(slot.frames)
  BY <1>1, SlotIsOpen DEF FileInv, FilesRight, StepsRight
<1>3. step \in Steps /\ (step.do = "frame" => step.frame \in DOMAIN slot.frames)
      /\ Tail(steps) \in StepsOver(Flushed(slot, step).frames)
  BY <1>1, <1>2, FirstStepIs
<1> HIDE DEF step
<1>4. FilesRight'
  BY <1>1, <1>2, <1>3, StepIsWritten DEF FilesRight
<1>5. slot' \in OpenSlots /\ slot' # Closed
  <2>1. Flushed(slot, step) \in Slots /\ Flushed(slot, step).failure = slot.failure
    BY <1>2, <1>3, StepIsFlushed
  <2> QED
    BY <1>1, <1>2, <2>1, OpenIsNotClosed
<1>6. StepsRight'
  BY <1>1, <1>3, <1>5 DEF StepsRight
<1>7. GivenRight' /\ FaultRight'
  BY <1>1 DEF FileInv, GivenRight, FaultRight
<1> QED
  BY <1>4, <1>5, <1>6, <1>7 DEF FileInv, SlotRight

LEMMA OpenKeeps ==
  ASSUME FileInv, NEW full \in BOOLEAN, Open(full)
  PROVE  FileInv'
<1> DEFINE r == OpenHour(disk, full)
<1>1. /\ slot.at = "closed" /\ disk' = r.d /\ slot' = r.h /\ steps' = steps /\ given' = given
      /\ writing' = writing /\ dropped' = dropped /\ fault' = fault
  BY DEF Open
<1>2. slot = Closed /\ steps = <<>> /\ disk \in Disks
  BY <1>1, SlotIsOpen DEF FileInv, FilesRight, StepsRight
<1>3. r.h \in Slots /\ r.d \in Disks /\ r.h.failure = ""
  BY <1>2, OpenedIs
<1> HIDE DEF r
<1>4. slot' \in OpenSlots /\ slot' # Closed /\ NewHour # Closed
  BY <1>1, <1>3, OpenIsNotClosed, NewHourIs
<1>5. StepsRight'
  BY <1>1, <1>2, <1>4, NoStepsAreOver DEF StepsRight
<1>6. FaultRight' /\ GivenRight'
  BY <1>1, <1>2, <1>4 DEF FileInv, FaultRight, GivenRight
<1> QED
  BY <1>1, <1>3, <1>4, <1>5, <1>6 DEF FileInv, FilesRight, SlotRight

(* What is in memory is gone: the disk is as it is left. *)
LEMMA LostMemoryIs ==
  ASSUME FileInv, slot' = Closed, steps' = <<>>, writing' \in {{}, writing}, disk' \in Disks,
         given' = given, dropped' = dropped, fault' \in Faults \ {"loading"}
  PROVE  FileInv'
BY DEF FileInv, FilesRight, SlotRight, StepsRight, GivenRight, FaultRight, Faults

LEMMA LetGoIdleKeeps ==
  ASSUME FileInv, LetGoIdle
  PROVE  FileInv'
<1>1. /\ slot' = Closed /\ steps' = <<>> /\ writing' = writing /\ disk' = disk
      /\ given' = given /\ dropped' = dropped /\ fault' \in {fault, "split"} /\ fault # "loading"
  BY DEF LetGoIdle
<1>2. disk' \in Disks /\ fault' \in Faults \ {"loading"}
  BY <1>1 DEF FileInv, FilesRight, FaultRight, Faults
<1> QED
  BY <1>1, <1>2, LostMemoryIs

LEMMA CrashKeeps ==
  ASSUME FileInv, Crash
  PROVE  FileInv'
<1>1. /\ slot' = Closed /\ steps' = <<>> /\ writing' = {} /\ disk' = disk
      /\ given' = given /\ dropped' = dropped /\ fault' \in {"split", "crash"}
  BY DEF Crash, LoseMemory
<1>2. disk' \in Disks /\ fault' \in Faults \ {"loading"}
  BY <1>1 DEF FileInv, FilesRight, Faults
<1> QED
  BY <1>1, <1>2, LostMemoryIs

LEMMA TornWriteKeeps ==
  ASSUME FileInv, TornWrite
  PROVE  FileInv'
<1> DEFINE frame == Head(steps).frame
           f == slot.frames[frame]
           tail == [disk EXCEPT !.torn = TRUE]
<1>1. /\ steps # <<>> /\ Head(steps).do = "frame"
      /\ slot' = Closed /\ steps' = <<>> /\ writing' = {}
      /\ given' = given /\ dropped' = dropped /\ fault' \in {"split", "crash", "torn"}
      /\ \/ disk' = tail
         \/ \E n \in DOMAIN f.entries : disk' = [disk EXCEPT !.frames[frame] = Torn(f, n)]
  BY DEF TornWrite, LoseMemory
<1>2. disk \in Disks /\ disk.frames \in FrameMaps /\ slot \in Slots /\ steps \in StepsOver(slot.frames)
  BY <1>1, SlotIsOpen DEF FileInv, FilesRight, StepsRight, Disks
<1>3. frame \in DOMAIN slot.frames
  BY <1>1, <1>2, FirstStepIs
<1>4. f \in FrameSet /\ frame \in Nat
  BY <1>2, <1>3, SlotIs, FramesAre
<1> HIDE DEF f, frame
<1>5. disk' \in Disks
  <2>1. CASE disk' = tail
    <3>1. tail \in Disks
      BY <1>2 DEF Disks
    <3> QED
      BY <2>1, <3>1
  <2>2. ASSUME NEW n \in DOMAIN f.entries, disk' = [disk EXCEPT !.frames[frame] = Torn(f, n)]
        PROVE  disk' \in Disks
    <3> DEFINE t == Torn(f, n)
               frames == [disk.frames EXCEPT ![frame] = t]
               S == DOMAIN disk.frames
    <3>1. f \in Loose /\ used(f) <= FRAME_CAPACITY /\ Len(f.entries) \in Nat /\ n \in 1 .. Len(f.entries)
      BY <1>4, UsedIs DEF FrameSet
    <3>2. t \in Loose /\ used(t) = used(f)
      BY <3>1, TornIs
    <3> HIDE DEF t
    <3>3. t \in FrameSet
      BY <3>1, <3>2 DEF FrameSet
    <3>4. S \in SomeFrames /\ disk.frames \in [S -> FrameSet]
      BY <1>2, FramesAre
    <3> HIDE DEF S
    <3>5. frames \in [S -> FrameSet]
      BY <3>3, <3>4
    <3>6. frames \in FrameMaps
      BY <3>4, <3>5, FramesAre
    <3>7. disk' = [disk EXCEPT !.frames = frames]
      BY <1>2, <2>2 DEF t, Disks
    <3> HIDE DEF frames
    <3>8. [disk EXCEPT !.frames = frames] \in Disks
      BY <1>2, <3>6 DEF Disks
    <3> QED
      BY <3>7, <3>8
  <2> QED
    BY <1>1, <2>1, <2>2
<1>6. fault' \in Faults \ {"loading"}
  BY <1>1 DEF Faults
<1> QED
  BY <1>1, <1>5, <1>6, LostMemoryIs

LEMMA PowerLossKeeps ==
  ASSUME FileInv, PowerLoss
  PROVE  FileInv'
<1> DEFINE all == Done(disk, slot, steps).d
<1>1. PICK lost \in SUBSET Range(slot.dirty) \ {{}} :
        disk' = [all EXCEPT !.frames = Without(@, lost)]
  BY DEF PowerLoss
<1>2. /\ steps # <<>> /\ slot' = Closed /\ steps' = <<>> /\ writing' = {}
      /\ given' = given /\ dropped' = dropped /\ fault' = "power"
  BY DEF PowerLoss, LoseMemory
<1>3. disk \in Disks /\ disk.frames \in FrameMaps /\ slot \in Slots /\ steps \in StepsOver(slot.frames)
  BY <1>2, SlotIsOpen DEF FileInv, FilesRight, StepsRight, Disks
<1>4. all \in Disks
  BY <1>3, StepsAreDone
<1> HIDE DEF all
<1> DEFINE frames == Without(all.frames, lost)
           S == {f \in DOMAIN all.frames : f \in lost => f \in DOMAIN disk.frames}
<1>5. all.frames \in FrameMaps /\ disk' = [all EXCEPT !.frames = frames]
  BY <1>1, <1>4 DEF Disks
<1>6. frames = [f \in S |-> IF f \in lost THEN disk.frames[f] ELSE all.frames[f]]
  BY DEF Without
<1> HIDE DEF frames
<1>7. S \in SomeFrames /\ frames \in [S -> FrameSet]
  <2>1. S \subseteq DOMAIN all.frames /\ \A f \in S : f \in lost => f \in DOMAIN disk.frames
    OBVIOUS
  <2>2. DOMAIN all.frames \in SUBSET Nat /\ IsFiniteSet(DOMAIN all.frames)
    BY <1>5, FramesAre DEF SomeFrames
  <2> HIDE DEF S
  <2>3. IsFiniteSet(S)
    BY <2>1, <2>2, FS_Subset
  <2>4. S \in SomeFrames
    BY <2>1, <2>2, <2>3 DEF SomeFrames
  <2>5. \A f \in S : (IF f \in lost THEN disk.frames[f] ELSE all.frames[f]) \in FrameSet
    BY <1>3, <1>5, <2>1, FramesAre
  <2> QED
    BY <1>6, <2>4, <2>5
<1> HIDE DEF S
<1>8. frames \in FrameMaps
  BY <1>7, FramesAre
<1>9. disk' \in Disks
  BY <1>4, <1>5, <1>8 DEF Disks
<1>10. fault' \in Faults \ {"loading"}
  BY <1>2 DEF Faults
<1> QED
  BY <1>2, <1>9, <1>10, LostMemoryIs

LEMMA FlushFailsKeeps ==
  ASSUME FileInv, FlushFails
  PROVE  FileInv'
<1>1. /\ slot' = slot /\ disk' = disk /\ steps' = <<>> /\ writing' = {} /\ given' = given
      /\ dropped' = dropped /\ fault' = "failed"
  BY DEF FlushFails
<1> QED
  BY <1>1, NoStepsAreOver
  DEF FileInv, FilesRight, SlotRight, StepsRight, GivenRight, FaultRight, Faults

LEMMA FileStep == FileInv /\ [Next]_fileVars => FileInv'
<1> SUFFICES ASSUME FileInv, [Next]_fileVars PROVE FileInv'
  OBVIOUS
<1>1. CASE UNCHANGED fileVars
  BY <1>1 DEF fileVars, FileInv, FilesRight, SlotRight, StepsRight, GivenRight, FaultRight
<1>2. CASE Works
  BY <1>2, LoadKeeps, WriteKeeps, PersistKeeps, FlushStepKeeps, OpenKeeps, LetGoIdleKeeps
  DEF Works
<1>3. CASE Fails
  BY <1>3, CrashKeeps, TornWriteKeeps, PowerLossKeeps, FlushFailsKeeps DEF Fails
<1> QED
  BY <1>1, <1>2, <1>3 DEF Next

(* No frame of the disk is over its capacity, whatever was inserted,       *)
(* halved, removed, cut at its end, torn or lost; an hour which is not open *)
(* has nothing to flush; and what is written, being written or dropped was *)
(* given.                                                                  *)
THEOREM FileTypesHold == Spec => []TypeOK
<1>1. FileInv => TypeOK
  <2> SUFFICES ASSUME FileInv PROVE TypeOK
    OBVIOUS
  <2>1. slot.at \in {"open", "closed"} /\ (slot.at = "closed" => steps = <<>>)
    BY SlotIsOpen DEF FileInv, StepsRight
  <2>2. \A f \in DOMAIN disk.frames : used(disk.frames[f]) <= FRAME_CAPACITY
    <3>1. disk.frames \in FrameMaps
      BY DEF FileInv, FilesRight, Disks
    <3> QED
      BY <3>1, FramesAre DEF FrameSet
  <2> QED
    BY <2>1, <2>2 DEF FileInv, GivenRight, FaultRight, Faults, TypeOK
<1> QED
  BY FileInit, FileStep, <1>1, PTL DEF Spec

(* An hour opens, from whatever a crash, a torn write, lost power or a     *)
(* flush which failed has left on the disk: its cells, its chain and its   *)
(* indexes are found again, and never refused (open_hour, rebuild).        *)
THEOREM HoursOpen == Spec => []HourOpens
<1>1. FileInv => HourOpens
  BY SlotIsOpen DEF FileInv, HourOpens
<1> QED
  BY FileInit, FileStep, <1>1, PTL DEF Spec

(* What a search reads of the files of the indexes of an hour is what its  *)
(* indexes say, after any writes, merges, flushes, crashes and rebuilds.   *)
THEOREM IndexFilesAnswer == Spec => []IndexFilesAnswerAsTheIndexes
<1>1. FileInv => IndexFilesAnswerAsTheIndexes
  <2> SUFFICES ASSUME FileInv, slot.at = "open"
               PROVE  /\ \A id \in given :
                           DirectorySecondsOf(ProcessToFile(slot.process), Data[id].process)
                             = ProcessSecondsOf(slot.process, Data[id].process)
                      /\ KeyFromFile(KeyToFile(slot.key)) = slot.key
    BY DEF IndexFilesAnswerAsTheIndexes
  <2>1. slot.process \in ProcessIndexes /\ slot.key \in KeyIndexes
    BY SlotIsOpen, SlotIs DEF FileInv
  <2>2. \A id \in given : Data[id].process \in Int
    BY HourFileAssumption, MetricBlockAssumption DEF FileInv, GivenRight
  <2> QED
    BY <2>1, <2>2, DirectoryAnswersAsTheIndex, KeyFileIsTheIndex
<1> QED
  BY FileInit, FileStep, <1>1, PTL DEF Spec
===============================================================================
