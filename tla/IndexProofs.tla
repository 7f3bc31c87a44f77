------------------------------ MODULE IndexProofs ------------------------------
(***************************************************************************)
(* The blocks of records and the indexes of an hour, for any records: what *)
(* a block is made of, what an index holds, and that a search reads of the *)
(* files of the indexes what the whole indexes say.                        *)
(***************************************************************************)
EXTENDS HourIndexes, FoldLemmas

-------------------------------------------------------------------------------
(* InOrder sorts. *)
LEMMA NumbersInOrder ==
  ASSUME NEW S \in SUBSET Int, IsFiniteSet(S)
  PROVE  Sorts(InOrder(S, <), S, Smaller)
<1>1. \A x \in S : {y \in S : y < x} = {y \in S : <<y, x>> \in Smaller}
  BY DEF Smaller
<1>2. InOrder(S, <) =
        [i \in 1 .. Cardinality(S) |-> CHOOSE x \in S : RankIn(Smaller, S, x) = i - 1]
  <2> DEFINE At(i) == CHOOSE x \in S : Cardinality({y \in S : y < x}) = i - 1
             Ranked(i) == CHOOSE x \in S : RankIn(Smaller, S, x) = i - 1
  <2>1. \A i : At(i) = Ranked(i)
    BY <1>1 DEF RankIn
  <2>2. InOrder(S, <) = [i \in 1 .. Cardinality(S) |-> At(i)]
    BY DEF InOrder
  <2> HIDE DEF At, Ranked
  <2>3. InOrder(S, <) = [i \in 1 .. Cardinality(S) |-> Ranked(i)]
    BY <2>1, <2>2
  <2> QED
    BY <2>3 DEF Ranked
<1> QED
  BY <1>2, SmallerIsAnOrder, SortedIs

(* The places which pass a test, in order: what is at them is in order.    *)
LEMMA PlacesInOrder ==
  ASSUME NEW X, NEW seq \in Seq(X), NEW P \in SUBSET DOMAIN seq
  PROVE  LET places == InOrder(P, <)
         IN  /\ Sorts(places, P, Smaller)
             /\ [i \in DOMAIN places |-> seq[places[i]]] \in Seq(X)
<1> DEFINE places == InOrder(P, <)
<1>1. P \in SUBSET Int /\ IsFiniteSet(P)
  <2>1. DOMAIN seq = 1 .. Len(seq) /\ Len(seq) \in Nat
    OBVIOUS
  <2>2. IsFiniteSet(DOMAIN seq)
    BY <2>1, FS_Interval
  <2> QED
    BY <2>1, <2>2, FS_Subset
<1>2. Sorts(places, P, Smaller)
  BY <1>1, NumbersInOrder
<1> HIDE DEF places
<1>3. places \in Seq(P)
  BY <1>2 DEF Sorts
<1>4. [i \in DOMAIN places |-> seq[places[i]]] \in Seq(X)
  <2>1. DOMAIN places = 1 .. Len(places) /\ Len(places) \in Nat
    BY <1>3
  <2>2. \A i \in DOMAIN places : seq[places[i]] \in X
    BY <1>3
  <2> QED
    BY <2>1, <2>2
<1> QED
  BY <1>2, <1>4 DEF places

-------------------------------------------------------------------------------
(* The process index.  Pairs are of the hour, and sorted by process and    *)
(* second.                                                                 *)
Pairs == Int \X Seconds
ProcessIndexes == [pairs : {p \in SUBSET Pairs : IsFiniteSet(p)}, total : Int, letGo : BOOLEAN]

Before2 == {p \in Pairs \X Pairs : PairBefore(p[1], p[2])}

LEMMA PairsInOrder ==
  ASSUME NEW S \in SUBSET Pairs, IsFiniteSet(S)
  PROVE  Sorts(InOrder(S, PairBefore), S, Before2)
<1>1. \A x \in S : {y \in S : PairBefore(y, x)} = {y \in S : <<y, x>> \in Before2}
  BY DEF Before2
<1>2. InOrder(S, PairBefore) =
        [i \in 1 .. Cardinality(S) |-> CHOOSE x \in S : RankIn(Before2, S, x) = i - 1]
  <2>1. \A i : (CHOOSE x \in S : Cardinality({y \in S : PairBefore(y, x)}) = i - 1)
                 = (CHOOSE x \in S : RankIn(Before2, S, x) = i - 1)
    BY <1>1 DEF RankIn
  <2> QED
    <3>1. InOrder(S, PairBefore) =
            [i \in 1 .. Cardinality(S) |->
              CHOOSE x \in S : Cardinality({y \in S : PairBefore(y, x)}) = i - 1]
      BY DEF InOrder
    <3> QED
      BY <2>1, <3>1
<1>3. IsOrder(Before2, S)
  <2>1. Seconds \subseteq Int
    BY DEF Seconds
  <2>2. \A x \in S : x[1] \in Int /\ x[2] \in Int /\ x = <<x[1], x[2]>>
    <3>1. \A x \in Int \X Seconds : x[1] \in Int /\ x[2] \in Seconds /\ x = <<x[1], x[2]>>
      OBVIOUS
    <3> QED
      BY <2>1, <3>1 DEF Pairs
  <2>3. \A x, y \in S : <<x, y>> \in Before2 <=> x[1] < y[1] \/ (x[1] = y[1] /\ x[2] < y[2])
    BY DEF Before2, PairBefore
  <2>4. \A x \in S : <<x, x>> \notin Before2
    BY <2>2, <2>3
  <2>5. ASSUME NEW x \in S, NEW y \in S, x # y PROVE <<x, y>> \in Before2 \/ <<y, x>> \in Before2
    <3>1. x[1] # y[1] \/ x[2] # y[2]
      BY <2>2, <2>5
    <3> QED
      BY <2>2, <2>3, <3>1
  <2>6. \A x, y, z \in S : <<x, y>> \in Before2 /\ <<y, z>> \in Before2 => <<x, z>> \in Before2
    BY <2>2, <2>3
  <2> QED
    BY <2>4, <2>5, <2>6 DEF IsOrder
<1> QED
  BY <1>2, <1>3, SortedIs

(* The longest run from the first on which passes. *)
LEMMA PointExists ==
  ASSUME NEW n \in Nat, NEW H
  PROVE  \E m \in 0 .. n : (\A i \in 1 .. m : i \in H) /\ (m < n => m + 1 \notin H)
<1> DEFINE Point(k, m) == m \in 0 .. k /\ (\A i \in 1 .. m : i \in H) /\ (m < k => m + 1 \notin H)
           Good == {k \in Nat : \E m \in 0 .. k : Point(k, m)}
<1>1. 0 \in Good
  <2>1. Point(0, 0)
    OBVIOUS
  <2> QED
    BY <2>1
<1>2. ASSUME NEW k \in Good PROVE k + 1 \in Good
  <2>1. PICK m \in 0 .. k : Point(k, m)
    OBVIOUS
  <2>2. CASE m = k /\ k + 1 \in H
    <3>1. Point(k + 1, k + 1)
      BY <2>1, <2>2
    <3> QED
      BY <3>1
  <2>3. CASE m < k \/ k + 1 \notin H
    <3>1. Point(k + 1, m)
      BY <2>1, <2>3
    <3> QED
      BY <3>1
  <2> QED
    BY <2>1, <2>2, <2>3
<1>3. Good = Nat
  <2> HIDE DEF Good
  <2>1. Good \subseteq Nat
    BY DEF Good
  <2> QED
    BY <1>1, <1>2, <2>1, NatInd
<1> QED
  BY <1>3

(* A page is as long as the others but for the last. *)
LEMMA PagesAre ==
  ASSUME NEW n \in Nat
  PROVE  LET pages == (n + PAIRS_PER_PAGE - 1) \div PAIRS_PER_PAGE
         IN  /\ pages \in Nat /\ n <= pages * PAIRS_PER_PAGE
             /\ \A p \in 1 .. pages : (p - 1) * PAIRS_PER_PAGE + 1 \in 1 .. n
<1> DEFINE K == PAIRS_PER_PAGE
           pages == (n + K - 1) \div K
<1>1. K \in Nat \ {0}
  BY HourIndexesAssumption
<1> HIDE DEF K
<1>2. pages \in Nat /\ K * pages <= n + K - 1 /\ n + K - 1 < K * pages + K
  BY <1>1
<1> HIDE DEF pages
<1>3. n <= pages * K
  <2>1. n < K * pages + 1
    BY <1>1, <1>2
  <2> QED
    BY <1>1, <1>2, <2>1
<1>4. ASSUME NEW p \in 1 .. pages PROVE (p - 1) * K + 1 \in 1 .. n
  <2>1. (pages - p) * K \in Nat
    BY <1>1, <1>2
  <2>2. (pages - p) * K = K * pages - p * K
    BY <1>1, <1>2
  <2>3. (p - 1) * K = p * K - K /\ (p - 1) * K \in Nat
    BY <1>1, <1>2
  <2>4. p * K \in Nat /\ K * pages \in Nat
    BY <1>1, <1>2
  <2> QED
    BY <1>1, <1>2, <2>1, <2>2, <2>3, <2>4
<1> QED
  BY <1>2, <1>3, <1>4 DEF K, pages

PairsSorted(s, S) ==
  /\ s \in Seq(S) /\ Len(s) \in Nat
  /\ \A x \in S : \E i \in 1 .. Len(s) : s[i] = x
  /\ \A i \in 1 .. Len(s) : s[i] \in S /\ s[i][1] \in Int /\ s[i][2] \in Seconds
  /\ \A i, j \in 1 .. Len(s) :
       i < j => s[i][1] < s[j][1] \/ (s[i][1] = s[j][1] /\ s[i][2] < s[j][2])

LEMMA SortedPairs ==
  ASSUME NEW S \in SUBSET Pairs, IsFiniteSet(S)
  PROVE  PairsSorted(InOrder(S, PairBefore), S)
<1> DEFINE s == InOrder(S, PairBefore)
<1> HIDE DEF s
<1> SUFFICES PairsSorted(s, S)
  BY DEF s
<1>1. Sorts(s, S, Before2)
  BY PairsInOrder DEF s
<1>2. /\ s \in Seq(S) /\ Len(s) \in Nat
      /\ \A x \in S : \E i \in 1 .. Len(s) : s[i] = x
      /\ \A i, j \in 1 .. Len(s) : i < j => <<s[i], s[j]>> \in Before2
  <2>1. Sorts(s, S, Before2) => s \in Seq(S)
    BY DEF Sorts
  <2>2. s \in Seq(S) => Len(s) \in Nat
    OBVIOUS
  <2>3. /\ \A x \in S : \E i \in 1 .. Len(s) : s[i] = x
        /\ \A i, j \in 1 .. Len(s) : i < j => <<s[i], s[j]>> \in Before2
    BY <1>1, Zenon DEF Sorts
  <2> QED
    BY <1>1, <2>1, <2>2, <2>3
<1>3. \A x \in Pairs : x[1] \in Int /\ x[2] \in Seconds
  BY DEF Pairs
<1>4. ASSUME NEW i \in 1 .. Len(s) PROVE s[i] \in S /\ s[i][1] \in Int /\ s[i][2] \in Seconds
  <2>1. s[i] \in S
    BY <1>2
  <2>2. s[i] \in Pairs
    BY <2>1
  <2> QED
    BY <1>3, <2>1, <2>2
<1>5. \A p, q : <<p, q>> \in Before2 => p[1] < q[1] \/ (p[1] = q[1] /\ p[2] < q[2])
  BY DEF Before2, PairBefore
<1> QED
  BY <1>2, <1>4, <1>5 DEF PairsSorted

(* A search by the directory of the file finds the seconds the index has. *)
LEMMA PageHasTheProcess ==
  ASSUME NEW index \in ProcessIndexes, NEW process \in Int, NEW s, NEW from, NEW to,
         s = InOrder(index.pairs, PairBefore),
         PageRead(ProcessToFile(index), process) = SubSeq(s, from, to),
         NEW k \in Nat, from = k + 1, to \in 0 .. Len(s),
         \A i \in 1 .. Len(s) : s[i][1] = process => i \in from .. to
  PROVE  DirectorySecondsOf(ProcessToFile(index), process) = ProcessSecondsOf(index, process)
<1> DEFINE file == ProcessToFile(index)
           read == PageRead(file, process)
           S == index.pairs
           low == partition_point(read, LAMBDA pair : PairBefore(pair, <<process, 0>>))
           kept == {i \in DOMAIN read : /\ i > low
                                        /\ \A j \in low + 1 .. i : read[j][1] = process}
<1>0. Seconds \subseteq Nat
  BY DEF Seconds
<1>1. S \in SUBSET Pairs /\ IsFiniteSet(S)
  BY DEF ProcessIndexes
<1>3. /\ s \in Seq(S) /\ Len(s) \in Nat
      /\ \A x \in S : \E i \in 1 .. Len(s) : s[i] = x
      /\ \A i, j \in 1 .. Len(s) :
           i < j => s[i][1] < s[j][1] \/ (s[i][1] = s[j][1] /\ s[i][2] < s[j][2])
      /\ \A i \in 1 .. Len(s) : s[i] \in S /\ s[i][1] \in Int /\ s[i][2] \in Seconds
  <2>1. PairsSorted(s, S)
    BY <1>1, SortedPairs
  <2> QED
    BY <2>1 DEF PairsSorted
<1>4. \A i \in 1 .. Len(s) : s[i] \in S /\ s[i][1] \in Int /\ s[i][2] \in Nat
  BY <1>0, <1>3
<1>a. \A p : PairBefore(p, <<process, 0>>) <=> p[1] < process \/ (p[1] = process /\ p[2] < 0)
  BY DEF PairBefore
<1> DEFINE n == IF to < from THEN 0 ELSE to - k
<1>b. Len(s) \in Nat /\ to \in Int /\ to <= Len(s) /\ n \in Nat
  BY <1>3
<1>5. /\ read \in Seq(S) /\ Len(read) = n
      /\ \A j \in 1 .. n : k + j \in 1 .. Len(s) /\ read[j] = s[k + j]
  <2>1. read = SubSeq(s, k + 1, to) /\ s \in Seq(S)
    BY <1>3
  <2> HIDE DEF read, S
  <2>2. /\ read \in Seq(S) /\ Len(read) = IF to < k THEN 0 ELSE to - k
        /\ \A j \in 1 .. to - k : k + j \in 1 .. Len(s) /\ read[j] = s[k + j]
    BY <2>1, PartIs
  <2>3. n = (IF to < k THEN 0 ELSE to - k) /\ (n = 0 \/ n = to - k)
    BY <1>b
  <2>4. ASSUME NEW j \in 1 .. n PROVE j \in 1 .. to - k
    BY <2>3
  <2> HIDE DEF n
  <2> QED
    BY <2>2, <2>3, <2>4
<1> HIDE DEF read
<1>6. n \in Nat
  BY <1>b
<1>7. low \in 0 .. n /\ (\A i \in 1 .. low : PairBefore(read[i], <<process, 0>>))
        /\ (low < n => ~PairBefore(read[low + 1], <<process, 0>>))
  <2> DEFINE H == {i \in 1 .. n : PairBefore(read[i], <<process, 0>>)}
  <2>1. PICK m \in 0 .. n : (\A i \in 1 .. m : i \in H) /\ (m < n => m + 1 \notin H)
    <3> HIDE DEF H, n
    <3> QED
      BY <1>6, PointExists
  <2>2. \E c \in 0 .. Len(read) : /\ \A i \in 1 .. c : PairBefore(read[i], <<process, 0>>)
                                  /\ c < Len(read) => ~PairBefore(read[c + 1], <<process, 0>>)
    <3>1. m < n => m + 1 \in 1 .. n
      BY <1>6
    <3>2. \A i \in 1 .. m : PairBefore(read[i], <<process, 0>>)
      BY <2>1
    <3>3. m < n => ~PairBefore(read[m + 1], <<process, 0>>)
      BY <2>1, <3>1
    <3> HIDE DEF n, H
    <3> QED
      BY <1>5, <3>2, <3>3
  <2>3. low = CHOOSE c \in 0 .. Len(read) :
                /\ \A i \in 1 .. c : PairBefore(read[i], <<process, 0>>)
                /\ c < Len(read) => ~PairBefore(read[c + 1], <<process, 0>>)
    BY DEF partition_point
  <2> HIDE DEF low, n
  <2> QED
    BY <1>5, <2>2, <2>3
<1>8. \A j \in 1 .. n : read[j] \in S /\ read[j][1] \in Int /\ read[j][2] \in Nat
  <2> SUFFICES ASSUME NEW j \in 1 .. n
               PROVE  read[j] \in S /\ read[j][1] \in Int /\ read[j][2] \in Nat
    OBVIOUS
  <2>1. k + j \in 1 .. Len(s) /\ read[j] = s[k + j]
    BY <1>5
  <2> QED
    BY <1>4, <2>1
<1>9. \A i, j \in 1 .. n : i < j => read[i][1] <= read[j][1]
  <2> SUFFICES ASSUME NEW i \in 1 .. n, NEW j \in 1 .. n, i < j PROVE read[i][1] <= read[j][1]
    OBVIOUS
  <2>1. /\ k + i \in 1 .. Len(s) /\ read[i] = s[k + i] /\ k + j \in 1 .. Len(s)
        /\ read[j] = s[k + j] /\ k + i < k + j
    BY <1>5, <1>6
  <2>2. ASSUME NEW a \in 1 .. Len(s), NEW b \in 1 .. Len(s), a < b PROVE s[a][1] <= s[b][1]
    <3>1. s[a][1] < s[b][1] \/ (s[a][1] = s[b][1] /\ s[a][2] < s[b][2])
      BY <1>3, <2>2
    <3>2. s[a][1] \in Int /\ s[b][1] \in Int
      BY <1>4
    <3>3. s[a][1] < s[b][1] \/ s[a][1] = s[b][1]
      BY <3>1
    <3>4. \A p, q \in Int : p < q \/ p = q => p <= q
      OBVIOUS
    <3> QED
      BY <3>2, <3>3, <3>4, Zenon
  <2>3. s[k + i][1] <= s[k + j][1]
    BY <2>1, <2>2
  <2> QED
    BY <2>1, <2>3
<1> HIDE DEF low, n
<1>10. kept = {j \in 1 .. n : read[j][1] = process}
  <2>0. DOMAIN read = 1 .. n
    BY <1>5
  <2>1. ASSUME NEW j \in kept PROVE j \in 1 .. n /\ read[j][1] = process
    BY <1>6, <1>7, <2>0
  <2>2. ASSUME NEW j \in 1 .. n, read[j][1] = process PROVE j \in kept
    <3>1. ~PairBefore(read[j], <<process, 0>>)
      BY <1>8, <1>a, <2>2
    <3>2. j > low
      BY <1>7, <3>1
    <3>3. ASSUME NEW i \in low + 1 .. j PROVE read[i][1] = process
      <4>1. i \in 1 .. n /\ low + 1 \in 1 .. n /\ low < n /\ low \in Int
        BY <1>6, <1>7, <3>2
      <4>2. ~PairBefore(read[low + 1], <<process, 0>>)
        BY <1>7, <4>1
      <4>3. read[low + 1][1] >= process
        BY <1>8, <1>a, <4>1, <4>2
      <4>4. read[i][1] >= read[low + 1][1]
        BY <1>8, <1>9, <4>1
      <4>5. read[i][1] <= read[j][1]
        BY <1>8, <1>9, <4>1
      <4> QED
        BY <1>8, <2>2, <4>1, <4>3, <4>4, <4>5
    <3> QED
      BY <2>0, <3>2, <3>3
  <2> QED
    BY <2>0, <2>1, <2>2
<1>11. {read[i][2] : i \in kept} = {pair[2] : pair \in {pair \in S : pair[1] = process}}
  <2>1. ASSUME NEW i \in kept PROVE \E pair \in S : pair[1] = process /\ read[i][2] = pair[2]
    BY <1>8, <1>10
  <2>2. ASSUME NEW pair \in S, pair[1] = process PROVE \E i \in kept : read[i] = pair
    <3>1. PICK i \in 1 .. Len(s) : s[i] = pair
      BY <1>3
    <3>2. i \in from .. to
      BY <2>2, <3>1
    <3>3. i - k \in 1 .. n /\ k + (i - k) = i
      BY <3>2 DEF n
    <3>4. read[i - k] = pair
      BY <1>5, <3>1, <3>3
    <3> QED
      BY <1>10, <2>2, <3>3, <3>4
  <2> HIDE DEF kept, S
  <2> QED
    BY <2>1, <2>2
<1>12. file.letGo = index.letGo
  BY DEF ProcessToFile
<1>13. DirectorySecondsOf(file, process)
         = IF file.letGo THEN Unknown
           ELSE Known(with_start_second(process, {read[i][2] : i \in kept}))
  BY DEF DirectorySecondsOf, low, read
<1> HIDE DEF kept, file
<1> QED
  BY <1>11, <1>12, <1>13 DEF ProcessSecondsOf, file

(* The directory of the file of a process index has the first pair of each  *)
(* page; the search reads the page before the first one which begins later   *)
(* and those which begin with the process, and finds what the index has.     *)
THEOREM DirectoryAnswersAsTheIndex ==
  ASSUME NEW index \in ProcessIndexes, NEW process \in Int
  PROVE  DirectorySecondsOf(ProcessToFile(index), process) = ProcessSecondsOf(index, process)
<1> DEFINE file == ProcessToFile(index)
           S == index.pairs
           s == InOrder(S, PairBefore)
           N == Len(s)
           K == PAIRS_PER_PAGE
           pages == (N + PAIRS_PER_PAGE - 1) \div PAIRS_PER_PAGE
           first == [p \in 1 .. pages |-> s[(p - 1) * K + 1]]
           NotLater(second, seq, m) ==
             /\ m \in 0 .. Len(seq)
             /\ \A p \in 1 .. m : ~PairBefore(<<process, second>>, seq[p])
             /\ m < Len(seq) => PairBefore(<<process, second>>, seq[m + 1])
           upTo == partition_point(file.first,
                     LAMBDA pair : ~PairBefore(<<process, SECONDS_PER_HOUR>>, pair))
           m == partition_point(file.first, LAMBDA pair : ~PairBefore(<<process, 0>>, pair))
           k == Less(m, 1)
           to == IF upTo * K < N THEN upTo * K ELSE N
<1>0. Seconds \subseteq Nat /\ \A x \in Seconds : x < SECONDS_PER_HOUR
  BY MetricBlockAssumption DEF Seconds
<1>1. S \in SUBSET Pairs /\ IsFiniteSet(S)
  BY DEF ProcessIndexes
<1>3. /\ s \in Seq(S) /\ N \in Nat
      /\ \A i, j \in 1 .. N :
           i < j => s[i][1] < s[j][1] \/ (s[i][1] = s[j][1] /\ s[i][2] < s[j][2])
      /\ \A i \in 1 .. N : s[i] \in S /\ s[i][1] \in Int /\ s[i][2] \in Seconds
  <2>1. PairsSorted(s, S)
    BY <1>1, SortedPairs
  <2> QED
    BY <2>1 DEF PairsSorted
<1>4. \A i \in 1 .. N : s[i][1] \in Int /\ s[i][2] \in Seconds
  BY <1>3
<1>a. \A second \in Nat : \A p : PairBefore(<<process, second>>, p)
                                <=> process < p[1] \/ (process = p[1] /\ second < p[2])
  BY DEF PairBefore
<1>5. /\ pages \in Nat /\ N <= pages * K
      /\ \A p \in 1 .. pages : (p - 1) * K + 1 \in 1 .. N
  <2> HIDE DEF N
  <2> QED
    BY <1>3, PagesAre
<1>6. file.first = first /\ file.pairs = s /\ DOMAIN first = 1 .. pages
  BY DEF ProcessToFile
<1>7. K \in Nat \ {0}
  BY HourIndexesAssumption
<1> HIDE DEF N, K, pages
<1>8. Len(first) = pages
  BY <1>5
<1>9. \A second \in Nat : \E n \in 0 .. Len(first) : NotLater(second, first, n)
  <2> SUFFICES ASSUME NEW second \in Nat PROVE \E n \in 0 .. Len(first) : NotLater(second, first, n)
    OBVIOUS
  <2> HIDE DEF first
  <2> DEFINE H == {p \in 1 .. pages : ~PairBefore(<<process, second>>, first[p])}
  <2>1. PICK n \in 0 .. pages : (\A i \in 1 .. n : i \in H) /\ (n < pages => n + 1 \notin H)
    <3> HIDE DEF H
    <3> QED
      BY <1>5, PointExists
  <2>2. n < pages => n + 1 \in 1 .. pages
    BY <1>5
  <2> QED
    BY <1>8, <2>1, <2>2
<1>10. /\ upTo = CHOOSE n \in 0 .. Len(first) : NotLater(SECONDS_PER_HOUR, first, n)
       /\ m = CHOOSE n \in 0 .. Len(first) : NotLater(0, first, n)
  <2> HIDE DEF file
  <2>1. \A seq, second : (CHOOSE n \in 0 .. Len(seq) :
                            /\ \A i \in 1 .. n : ~PairBefore(<<process, second>>, seq[i])
                            /\ n < Len(seq) => ~ ~PairBefore(<<process, second>>, seq[n + 1]))
          = CHOOSE n \in 0 .. Len(seq) : NotLater(second, seq, n)
    OBVIOUS
  <2>2. upTo = CHOOSE n \in 0 .. Len(file.first) : NotLater(SECONDS_PER_HOUR, file.first, n)
    BY <2>1 DEF partition_point
  <2>3. m = CHOOSE n \in 0 .. Len(file.first) : NotLater(0, file.first, n)
    BY <2>1 DEF partition_point
  <2> HIDE DEF NotLater, upTo, m, first
  <2> QED
    BY <1>6, <2>2, <2>3
<1>11. NotLater(SECONDS_PER_HOUR, first, upTo) /\ NotLater(0, first, m)
  <2>1. SECONDS_PER_HOUR \in Nat /\ 0 \in Nat
    BY MetricBlockAssumption
  <2> HIDE DEF NotLater, upTo, m, first
  <2> QED
    BY <1>9, <1>10, <2>1
<1> HIDE DEF upTo, m
<1>12. /\ upTo \in 0 .. pages /\ m \in 0 .. pages
       /\ upTo < pages => PairBefore(<<process, SECONDS_PER_HOUR>>, s[upTo * K + 1])
       /\ \A p \in 1 .. m : ~PairBefore(<<process, 0>>, s[(p - 1) * K + 1])
  <2>1. upTo \in 0 .. pages /\ m \in 0 .. pages
    BY <1>8, <1>11
  <2>2. ASSUME upTo < pages PROVE PairBefore(<<process, SECONDS_PER_HOUR>>, s[upTo * K + 1])
    <3>1. upTo + 1 \in 1 .. pages /\ (upTo + 1) - 1 = upTo
      BY <1>5, <2>1, <2>2
    <3>2. PairBefore(<<process, SECONDS_PER_HOUR>>, first[upTo + 1])
      BY <1>8, <1>11, <2>2
    <3> QED
      BY <3>1, <3>2
  <2>3. ASSUME NEW p \in 1 .. m PROVE ~PairBefore(<<process, 0>>, s[(p - 1) * K + 1])
    <3>1. p \in 1 .. pages
      BY <1>5, <2>1
    <3>2. ~PairBefore(<<process, 0>>, first[p])
      BY <1>11
    <3> QED
      BY <3>1, <3>2
  <2> QED
    BY <2>1, <2>2, <2>3
<1>13. k \in Nat /\ (k = 0 \/ (k = m - 1 /\ m >= 2))
  BY <1>12 DEF Less
<1>14. PageRead(file, process) = SubSeq(s, k * K + 1, to)
  <2> HIDE DEF first, s, file
  <2> QED
    BY <1>6 DEF PageRead, upTo, m, K, N
<1> HIDE DEF first, file, k
<1>15. k * K \in Nat /\ upTo * K \in Nat /\ to \in 0 .. N
  <2>1. upTo \in Nat
    BY <1>5, <1>12
  <2>2. k * K \in Nat /\ upTo * K \in Nat
    BY <1>7, <1>13, <2>1
  <2> QED
    BY <1>3, <2>2
<1>16. ASSUME NEW i \in 1 .. N, s[i][1] = process PROVE i \in k * K + 1 .. to
  <2>0. s[i][2] \in Nat /\ s[i][2] < SECONDS_PER_HOUR /\ SECONDS_PER_HOUR \in Nat
    BY <1>0, <1>4, MetricBlockAssumption
  <2>1. i <= to
    <3>1. CASE upTo = pages
      BY <1>3, <1>5, <1>15, <3>1
    <3>2. CASE upTo < pages
      <4>1. upTo + 1 \in 1 .. pages /\ (upTo + 1) - 1 = upTo
        BY <1>5, <1>12, <3>2
      <4>2. upTo * K + 1 \in 1 .. N
        BY <1>5, <4>1
      <4>3. PairBefore(<<process, SECONDS_PER_HOUR>>, s[upTo * K + 1])
        BY <1>12, <3>2
      <4> DEFINE b == upTo * K + 1
      <4>4. b \in 1 .. N /\ PairBefore(<<process, SECONDS_PER_HOUR>>, s[b])
        BY <4>2, <4>3
      <4>5. b <= upTo * K + 1 /\ upTo * K + 1 <= b
        BY <1>15
      <4> HIDE DEF b
      <4>6. ~(b <= i)
        <5> SUFFICES ASSUME b <= i PROVE FALSE
          OBVIOUS
        <5>1. s[b][1] \in Int /\ s[b][2] \in Nat
          BY <1>0, <1>4, <4>4
        <5>2. b = i \/ s[b][1] < s[i][1] \/ (s[b][1] = s[i][1] /\ s[b][2] < s[i][2])
          BY <1>3, <4>4
        <5>3. process < s[b][1] \/ (process = s[b][1] /\ SECONDS_PER_HOUR < s[b][2])
          BY <1>a, <2>0, <4>4
        <5> QED
          BY <1>16, <2>0, <5>1, <5>2, <5>3
      <4>7. i < b
        BY <4>4, <4>6
      <4> QED
        BY <1>3, <1>15, <4>4, <4>5, <4>7
    <3> QED
      BY <1>5, <1>12, <3>1, <3>2
  <2>2. i >= k * K + 1
    <3>1. CASE k = 0
      <4>1. k * K = 0
        BY <1>7, <3>1
      <4> QED
        BY <4>1
    <3>2. CASE k = m - 1 /\ m >= 2
      <4>1. m \in 1 .. m /\ m \in 1 .. pages
        BY <1>5, <1>12, <3>2
      <4> DEFINE b == k * K + 1
      <4>2. b \in 1 .. N /\ ~PairBefore(<<process, 0>>, s[b])
        BY <1>5, <1>12, <3>2, <4>1
      <4>3. b = k * K + 1
        OBVIOUS
      <4> HIDE DEF b
      <4>4. ~(i < b)
        <5> SUFFICES ASSUME i < b PROVE FALSE
          OBVIOUS
        <5>1. s[b][1] \in Int /\ s[b][2] \in Nat
          BY <1>0, <1>4, <4>2
        <5>2. s[i][1] < s[b][1] \/ (s[i][1] = s[b][1] /\ s[i][2] < s[b][2])
          BY <1>3, <4>2
        <5>3. ~(process < s[b][1] \/ (process = s[b][1] /\ 0 < s[b][2]))
          BY <1>a, <4>2
        <5> QED
          BY <1>16, <2>0, <5>1, <5>2, <5>3
      <4>5. i >= b
        BY <4>2, <4>4
      <4> QED
        BY <4>3, <4>5
    <3> QED
      BY <1>13, <3>1, <3>2
  <2> QED
    BY <1>15, <2>1, <2>2
<1> HIDE DEF to, s
<1> QED
  BY <1>14, <1>15, <1>16, PageHasTheProcess DEF file, s, N
-------------------------------------------------------------------------------
(* What a value of a key has: how many records in which seconds; and the    *)
(* values by their names.                                                   *)
SecondCounts == UNION {[T -> Nat] : T \in SUBSET Seconds}

LEMMA SecondsAreFinite ==
  ASSUME NEW T \in SUBSET Seconds
  PROVE  IsFiniteSet(T) /\ T \in SUBSET Int /\ T \subseteq Nat
<1>1. IsFiniteSet(Seconds) /\ Seconds \subseteq Nat
  BY MetricBlockAssumption, FS_Interval DEF Seconds
<1>2. T \subseteq Nat /\ T \subseteq Int
  BY <1>1
<1>3. IsFiniteSet(T)
  BY <1>1, FS_Subset
<1> QED
  BY <1>2, <1>3

(* What is unpacked is what was packed. *)
LEMMA UnpackedIsPacked ==
  ASSUME NEW f \in SecondCounts
  PROVE  /\ unpack_seconds(pack_seconds(f)) = f
         /\ pack_seconds(f) \in Seq([step : Int, records : Nat])
<1> DEFINE T == DOMAIN f
           sorted == InOrder(T, <)
           N == Len(sorted)
           packed == pack_seconds(f)
           IsAt(a) == a = [i \in 0 .. Len(packed) |-> IF i = 0 THEN 0 ELSE a[i - 1] + packed[i].step]
           at == CHOOSE a : IsAt(a)
<1>1. T \in SUBSET Seconds /\ f \in [T -> Nat]
  BY DEF SecondCounts
<1>2. T \in SUBSET Int /\ IsFiniteSet(T)
  BY <1>1, SecondsAreFinite
<1>3. Sorts(sorted, T, Smaller)
  BY <1>2, NumbersInOrder
<1> HIDE DEF sorted
<1>4. /\ sorted \in Seq(T) /\ N \in Nat /\ DOMAIN sorted = 1 .. N
      /\ \A x \in T : \E i \in 1 .. N : sorted[i] = x
  <2>1. sorted \in Seq(T) /\ \A x \in T : \E i \in 1 .. N : sorted[i] = x
    BY <1>3 DEF Sorts
  <2> QED
    BY <2>1
<1>5. \A i \in 1 .. N : sorted[i] \in T /\ sorted[i] \in Int
  BY <1>2, <1>4
<1> DEFINE StepOf(i) == IF i = 1 THEN sorted[i] ELSE sorted[i] - sorted[i - 1]
<1>6. packed = [i \in 1 .. N |-> [step |-> StepOf(i), records |-> f[sorted[i]]]]
  BY <1>4 DEF pack_seconds, sorted
<1> HIDE DEF packed, N, T
<1>7. \A i \in 1 .. N : StepOf(i) \in Int
  <2> TAKE i \in 1 .. N
  <2>1. CASE i = 1
    BY <1>5, <2>1
  <2>2. CASE i # 1
    <3>1. i - 1 \in 1 .. N
      BY <1>4, <2>2
    <3> QED
      BY <1>5, <2>2, <3>1
  <2> QED
    BY <2>1, <2>2
<1>8. packed \in Seq([step : Int, records : Nat]) /\ Len(packed) = N /\ DOMAIN packed = 1 .. N
  <2>1. \A i \in 1 .. N : f[sorted[i]] \in Nat
    BY <1>1, <1>5
  <2> HIDE DEF StepOf
  <2> QED
    BY <1>4, <1>6, <1>7, <2>1
<1>9. \E a : IsAt(a)
  <2> DEFINE g == [i \in 0 .. N |-> IF i = 0 THEN 0 ELSE sorted[i]]
  <2>1. \A i \in 0 .. N : g[i] = IF i = 0 THEN 0 ELSE g[i - 1] + packed[i].step
    <3> TAKE i \in 0 .. N
    <3>1. CASE i = 0
      BY <3>1
    <3>2. CASE i = 1
      BY <1>4, <1>5, <1>6, <3>2
    <3>3. CASE i # 0 /\ i # 1
      <4>1. i \in 1 .. N /\ i - 1 \in 1 .. N /\ i - 1 # 0
        BY <1>4, <3>3
      <4>2. packed[i].step = sorted[i] - sorted[i - 1]
        BY <1>6, <3>3, <4>1
      <4> QED
        BY <1>5, <3>3, <4>1, <4>2
    <3> QED
      BY <3>1, <3>2, <3>3
  <2>2. IsAt(g)
    BY <1>8, <2>1
  <2> QED
    BY <2>2
<1>10. IsAt(at)
  <2> HIDE DEF IsAt
  <2> QED
    BY <1>9
<1>11. unpack_seconds(packed) = [s \in {at[i] : i \in DOMAIN packed} |->
                                  packed[CHOOSE i \in DOMAIN packed : at[i] = s].records]
  BY DEF unpack_seconds
<1> HIDE DEF at
<1>12. at[0] = 0 /\ \A i \in 1 .. N : at[i] = at[i - 1] + packed[i].step
  BY <1>4, <1>8, <1>10
<1>13. \A i \in 1 .. N : at[i] = sorted[i]
  <2> DEFINE Good == {n \in Nat : n \in 1 .. N => at[n] = sorted[n]}
  <2>1. 0 \in Good
    OBVIOUS
  <2>2. ASSUME NEW n \in Good PROVE n + 1 \in Good
    <3>0. n \in Nat /\ (n \in 1 .. N => at[n] = sorted[n])
      OBVIOUS
    <3> SUFFICES ASSUME n + 1 \in 1 .. N PROVE at[n + 1] = sorted[n + 1]
      BY <3>0
    <3>1. at[n + 1] = at[n] + packed[n + 1].step
      BY <1>12, <3>0
    <3>2. CASE n = 0
      BY <1>5, <1>6, <1>12, <3>1, <3>2
    <3>3. CASE n # 0
      <4>1. n \in 1 .. N /\ n + 1 # 1 /\ (n + 1) - 1 = n
        BY <1>4, <3>0, <3>3
      <4>2. packed[n + 1].step = sorted[n + 1] - sorted[n]
        BY <1>6, <4>1
      <4> QED
        BY <1>5, <3>0, <3>1, <4>1, <4>2
    <3> QED
      BY <3>2, <3>3
  <2> HIDE DEF Good
  <2>3. Good = Nat
    <3>1. Good \subseteq Nat
      BY DEF Good
    <3> QED
      BY <2>1, <2>2, <3>1, NatInd
  <2> QED
    BY <1>4, <2>3 DEF Good
<1>14. {at[i] : i \in DOMAIN packed} = T
  <2>1. ASSUME NEW i \in DOMAIN packed PROVE at[i] \in T
    BY <1>5, <1>8, <1>13
  <2>2. ASSUME NEW x \in T PROVE \E i \in DOMAIN packed : at[i] = x
    <3>1. PICK i \in 1 .. N : sorted[i] = x
      BY <1>4
    <3> QED
      BY <1>8, <1>13, <3>1
  <2> QED
    BY <2>1, <2>2
<1>15. ASSUME NEW s \in T
       PROVE  packed[CHOOSE i \in DOMAIN packed : at[i] = s].records = f[s]
  <2> DEFINE c == CHOOSE i \in DOMAIN packed : at[i] = s
  <2>1. \E i \in DOMAIN packed : at[i] = s
    BY <1>14
  <2>2. c \in DOMAIN packed /\ at[c] = s
    BY <2>1
  <2> HIDE DEF c
  <2>3. c \in 1 .. N /\ sorted[c] = s
    BY <1>8, <1>13, <2>2
  <2>4. packed[c].records = f[s]
    BY <1>6, <2>3
  <2> QED
    BY <2>4 DEF c
<1>16. unpack_seconds(packed) = [s \in T |-> f[s]]
  <2> DEFINE RecordsAt(s) == packed[CHOOSE i \in DOMAIN packed : at[i] = s].records
  <2>1. unpack_seconds(packed) = [s \in {at[i] : i \in DOMAIN packed} |-> RecordsAt(s)]
    BY <1>11
  <2>2. \A s \in T : RecordsAt(s) = f[s]
    BY <1>15
  <2> HIDE DEF RecordsAt
  <2> QED
    BY <1>14, <2>1, <2>2
<1>17. [s \in T |-> f[s]] = f
  BY <1>1
<1> QED
  BY <1>8, <1>16, <1>17 DEF packed

(* The elements of a set in some order, each once. *)
Lists(v, S) ==
  /\ v \in Seq(S)
  /\ \A x \in S : \E i \in 1 .. Len(v) : v[i] = x
  /\ \A i, j \in 1 .. Len(v) : v[i] = v[j] => i = j

LEMMA OneMoreIsListed ==
  ASSUME NEW S, NEW x \in S, NEW v, Lists(v, S \ {x})
  PROVE  Lists(Append(v, x), S)
<1> DEFINE w == Append(v, x)
           n == Len(v)
<1>1. /\ v \in Seq(S \ {x}) /\ n \in Nat
      /\ \A i \in 1 .. n : v[i] \in S \ {x}
  BY DEF Lists
<1>2. /\ w \in Seq(S) /\ Len(w) = n + 1
      /\ \A i \in 1 .. n : w[i] = v[i]
      /\ w[n + 1] = x
  BY <1>1
<1>3. /\ \A y \in S \ {x} : \E i \in 1 .. n : v[i] = y
      /\ \A i, j \in 1 .. n : v[i] = v[j] => i = j
  BY DEF Lists
<1> HIDE DEF w, n
<1>4. ASSUME NEW y \in S PROVE \E i \in 1 .. n + 1 : w[i] = y
  <2>1. CASE y = x
    <3>1. n + 1 \in 1 .. n + 1
      BY <1>1
    <3> QED
      BY <1>2, <2>1, <3>1
  <2>2. CASE y # x
    <3>1. PICK i \in 1 .. n : v[i] = y
      BY <1>3, <2>2
    <3>2. i \in 1 .. n + 1
      BY <1>1
    <3> QED
      BY <1>2, <3>1, <3>2
  <2> QED
    BY <2>1, <2>2
<1>5. ASSUME NEW i \in 1 .. n + 1, NEW j \in 1 .. n + 1, w[i] = w[j] PROVE i = j
  <2>1. CASE i \in 1 .. n /\ j \in 1 .. n
    BY <1>2, <1>3, <1>5, <2>1
  <2>2. CASE i = n + 1 /\ j \in 1 .. n
    BY <1>1, <1>2, <1>5, <2>2
  <2>3. CASE j = n + 1 /\ i \in 1 .. n
    BY <1>1, <1>2, <1>5, <2>3
  <2>4. CASE i = n + 1 /\ j = n + 1
    BY <2>4
  <2> QED
    BY <1>1, <2>1, <2>2, <2>3, <2>4
<1> QED
  BY <1>2, <1>4, <1>5 DEF Lists, w

LEMMA EveryOneIsListed ==
  ASSUME NEW S, IsFiniteSet(S)
  PROVE  Lists(FoldSet(LAMBDA kv, s : Append(s, kv), <<>>, S), S)
<1> DEFINE IsList(f) == f = [s \in SUBSET S |-> IF s = {} THEN <<>> ELSE Append(f[s \ {AnyOf(s)}], AnyOf(s))]
           pick == [s \in SUBSET S |-> AnyOf(s)]
           op == [xn \in S \X Seq(S) |-> Append(xn[2], xn[1])]
           iter == CHOOSE f : IsList(f)
<1>0. \A s \in SUBSET S : s # {} => AnyOf(s) \in s
  BY DEF AnyOf
<1>1. \E f : IsList(f)
  <2>1. op \in [S \X Seq(S) -> Seq(S)] /\ <<>> \in Seq(S)
    <3>1. \A x \in S, v \in Seq(S) : Append(v, x) \in Seq(S)
      OBVIOUS
    <3> QED
      BY <3>1
  <2>2. \A s \in SUBSET S : s # {} => pick[s] \in s
    BY <1>0
  <2>3. PICK f : IsFold(f, S, Seq(S), <<>>, pick, op)
    <3> HIDE DEF op, pick
    <3> QED
      BY <2>1, <2>2, FoldExists
  <2>4. \A s \in SUBSET S : s # {} =>
          op[<<pick[s], f[s \ {pick[s]}]>>] = Append(f[s \ {AnyOf(s)}], AnyOf(s))
    <3> TAKE s \in SUBSET S
    <3> HAVE s # {}
    <3>1. AnyOf(s) \in S /\ pick[s] = AnyOf(s)
      BY <1>0
    <3>2. f[s \ {AnyOf(s)}] \in Seq(S)
      BY <2>3 DEF IsFold
    <3> QED
      BY <3>1, <3>2
  <2> HIDE DEF op, pick
  <2>5. f = [s \in SUBSET S |-> IF s = {} THEN <<>> ELSE op[<<pick[s], f[s \ {pick[s]}]>>]]
    BY <2>3 DEF IsFold
  <2>6. IsList(f)
    BY <2>4, <2>5
  <2> QED
    BY <2>6
<1>2. IsList(iter)
  <2> HIDE DEF IsList
  <2> QED
    BY <1>1
<1>3. FoldSet(LAMBDA kv, s : Append(s, kv), <<>>, S) = iter[S]
  BY DEF FoldSet, MapThenFoldSet, AnyOf
<1> HIDE DEF iter
<1>4. \A s \in SUBSET S : iter[s] = IF s = {} THEN <<>> ELSE Append(iter[s \ {AnyOf(s)}], AnyOf(s))
  BY <1>2
<1> DEFINE Good == {s \in SUBSET S : Lists(iter[s], s)}
<1>5. Good = SUBSET S
  <2>1. {} \in Good
    <3>1. iter[{}] = <<>>
      BY <1>4
    <3>2. Lists(<<>>, {})
      BY DEF Lists
    <3> QED
      BY <3>1, <3>2
  <2>2. ASSUME NEW s \in SUBSET S, s # {}, \A x \in s : s \ {x} \in Good
        PROVE  s \in Good
    <3>1. AnyOf(s) \in s /\ Lists(iter[s \ {AnyOf(s)}], s \ {AnyOf(s)})
      BY <1>0, <2>2
    <3>2. Lists(Append(iter[s \ {AnyOf(s)}], AnyOf(s)), s)
      BY <3>1, OneMoreIsListed
    <3> QED
      BY <1>4, <2>2, <3>2
  <2> HIDE DEF Good
  <2>3. Good \subseteq SUBSET S
    BY DEF Good
  <2> QED
    BY <2>1, <2>2, <2>3, SubsetInd
<1> QED
  BY <1>3, <1>5

(* Where the directory says the seconds of a value are. *)
LEMMA DirectoryIs ==
  ASSUME NEW P, NEW packed \in Seq(Seq(P)), NEW S, NEW values, Lists(values, S),
         Len(values) = Len(packed), NEW start, Starts(start, packed)
  PROVE  /\ DOMAIN Directory(values, packed) = S
         /\ \A i \in 1 .. Len(values) :
              Directory(values, packed)[values[i]] = [offset |-> start[i], len |-> Len(packed[i])]
<1> DEFINE N == Len(values)
           IsStart(f) == f = [i \in 1 .. Len(values) |-> IF i = 1 THEN 0 ELSE f[i - 1] + Len(packed[i - 1])]
           from == CHOOSE f : IsStart(f)
           Place(kv) == CHOOSE i \in DOMAIN values : values[i] = kv
<1>1. /\ values \in Seq(S) /\ N \in Nat /\ DOMAIN values = 1 .. N
      /\ \A x \in S : \E i \in 1 .. N : values[i] = x
      /\ \A i, j \in 1 .. N : values[i] = values[j] => i = j
      /\ \A i \in 1 .. N : values[i] \in S
  <2>1. values \in Seq(S)
    BY DEF Lists
  <2>2. N \in Nat /\ DOMAIN values = 1 .. N /\ \A i \in 1 .. N : values[i] \in S
    BY <2>1
  <2> QED
    BY <2>1, <2>2 DEF Lists
<1>2. /\ start[1] = 0
      /\ \A i \in 1 .. N : start[i + 1] = start[i] + Len(packed[i]) /\ start[i] \in Nat
  <2>1. N = Len(packed) /\ \A i \in 1 .. N : i \in 1 .. N + 1
    BY <1>1
  <2> QED
    BY <2>1 DEF Starts
<1>3. \E f : IsStart(f)
  <2> DEFINE g == [i \in 1 .. N |-> start[i]]
  <2>1. \A i \in 1 .. N : g[i] = IF i = 1 THEN 0 ELSE g[i - 1] + Len(packed[i - 1])
    <3> TAKE i \in 1 .. N
    <3>1. CASE i = 1
      BY <1>2, <3>1
    <3>2. CASE i # 1
      <4>1. i - 1 \in 1 .. N /\ (i - 1) + 1 = i
        BY <1>1, <3>2
      <4>2. start[i] = start[i - 1] + Len(packed[i - 1])
        BY <1>2, <4>1
      <4> QED
        BY <3>2, <4>1, <4>2
    <3> QED
      BY <3>1, <3>2
  <2>2. IsStart(g)
    BY <2>1
  <2> QED
    BY <2>2
<1>4. IsStart(from)
  <2> HIDE DEF IsStart
  <2> QED
    BY <1>3
<1>5. Directory(values, packed)
        = [kv \in Range(values) |-> [offset |-> from[Place(kv)], len |-> Len(packed[Place(kv)])]]
  BY DEF Directory
<1> HIDE DEF from
<1>6. \A i \in 1 .. N : from[i] = IF i = 1 THEN 0 ELSE from[i - 1] + Len(packed[i - 1])
  BY <1>4
<1> HIDE DEF N, IsStart
<1>7. \A i \in 1 .. N : from[i] = start[i]
  <2> DEFINE Good == {n \in Nat : n \in 1 .. N => from[n] = start[n]}
  <2>1. 0 \in Good
    OBVIOUS
  <2>2. ASSUME NEW n \in Good PROVE n + 1 \in Good
    <3>0. n \in Nat /\ (n \in 1 .. N => from[n] = start[n])
      OBVIOUS
    <3> SUFFICES ASSUME n + 1 \in 1 .. N PROVE from[n + 1] = start[n + 1]
      BY <3>0
    <3>1. CASE n = 0
      BY <1>2, <1>6, <3>1
    <3>2. CASE n # 0
      <4>1. n \in 1 .. N /\ n + 1 # 1 /\ (n + 1) - 1 = n
        BY <1>1, <3>0, <3>2
      <4>2. from[n + 1] = from[n] + Len(packed[n])
        BY <1>6, <4>1
      <4> QED
        BY <1>2, <3>0, <4>1, <4>2
    <3> QED
      BY <3>1, <3>2
  <2> HIDE DEF Good
  <2>3. Good = Nat
    <3>1. Good \subseteq Nat
      BY DEF Good
    <3> QED
      BY <2>1, <2>2, <3>1, NatInd
  <2>4. ASSUME NEW i \in 1 .. N PROVE from[i] = start[i]
    <3>1. i \in Good
      BY <1>1, <2>3
    <3> QED
      BY <3>1 DEF Good
  <2> QED
    BY <2>4
<1>8. Range(values) = S
  <2>1. ASSUME NEW x \in Range(values) PROVE x \in S
    BY <1>1 DEF Range
  <2>2. ASSUME NEW x \in S PROVE x \in Range(values)
    BY <1>1 DEF Range
  <2> QED
    BY <2>1, <2>2
<1>9. ASSUME NEW i \in 1 .. N PROVE Place(values[i]) = i
  <2>1. \E j \in DOMAIN values : values[j] = values[i]
    BY <1>1
  <2>2. Place(values[i]) \in DOMAIN values /\ values[Place(values[i])] = values[i]
    BY <2>1
  <2> QED
    BY <1>1, <2>2
<1> HIDE DEF Place
<1>10. ASSUME NEW i \in 1 .. N
       PROVE  Directory(values, packed)[values[i]] = [offset |-> start[i], len |-> Len(packed[i])]
  BY <1>1, <1>5, <1>7, <1>8, <1>9
<1> QED
  BY <1>5, <1>8, <1>10 DEF N

(* The part of the file a value has is in it, and in what was read ahead if *)
(* that is long enough.                                                     *)
LEMMA PartOfFlat ==
  ASSUME NEW P, NEW ss \in Seq(Seq(P)), NEW start, Starts(start, ss), NEW i \in 1 .. Len(ss),
         NEW m \in 0 .. Len(FlattenSeq(ss)), NEW from,
         from = FlattenSeq(ss) \/ (from = SubSeq(FlattenSeq(ss), 1, m) /\ start[i] + Len(ss[i]) <= m)
  PROVE  SubSeq(from, start[i] + 1, start[i] + Len(ss[i])) = ss[i]
<1> DEFINE flat == FlattenSeq(ss)
           p == start[i]
           n == Len(ss[i])
<1>1. /\ flat \in Seq(P)
      /\ \A j \in 1 .. n : p + j \in 1 .. Len(flat) /\ flat[p + j] = ss[i][j]
  BY FlattenIs
<1>2. ss[i] \in Seq(P) /\ n \in Nat /\ p \in Nat
  <2>1. i \in 1 .. Len(ss) + 1 /\ ss[i] \in Seq(P)
    OBVIOUS
  <2>2. start[i] \in Nat
    BY <2>1 DEF Starts
  <2>3. n \in Nat
    BY <2>1
  <2> QED
    BY <2>1, <2>2, <2>3
<1>3. n = 0 \/ p + n <= Len(flat)
  <2>1. n # 0 => n \in 1 .. n
    BY <1>2
  <2> QED
    BY <1>1, <1>2, <2>1
<1>a. flat \in Seq(P) /\ Len(flat) \in Nat /\ m \in 0 .. Len(flat)
  BY <1>1
<1> DEFINE part == SubSeq(from, p + 1, p + n)
<1> HIDE DEF flat, p, n
<1>4. CASE n = 0
  <2>1. ss[i] = <<>>
    BY <1>2, <1>4 DEF n
  <2>2. part = <<>>
    BY <1>2, <1>4
  <2> QED
    BY <2>1, <2>2 DEF p, n
<1>5. CASE n # 0
  <2>1. from \in Seq(P) /\ p + n \in 0 .. Len(from)
          /\ \A j \in 1 .. n : from[p + j] = ss[i][j]
    <3>1. CASE from = flat
      BY <1>1, <1>2, <1>3, <1>5, <1>a, <3>1
    <3>2. CASE from = SubSeq(flat, 1, m) /\ p + n <= m
      <4>1. /\ SubSeq(flat, 0 + 1, m) \in Seq(P)
            /\ Len(SubSeq(flat, 0 + 1, m)) = IF m < 0 THEN 0 ELSE m - 0
            /\ \A j \in 1 .. m - 0 : SubSeq(flat, 0 + 1, m)[j] = flat[0 + j]
        <5>1. 0 \in Nat
          OBVIOUS
        <5> QED
          BY <1>a, <5>1, PartIs
      <4>2. from \in Seq(P) /\ Len(from) = m /\ \A j \in 1 .. m : from[j] = flat[j]
        <5>1. 0 + 1 = 1 /\ m \in Nat /\ m - 0 = m /\ \A j \in 1 .. m : 0 + j = j
          BY <1>a
        <5> QED
          BY <3>2, <4>1, <5>1
      <4>3. \A j \in 1 .. n : p + j \in 1 .. m
        BY <1>2, <1>a, <3>2
      <4> QED
        BY <1>1, <1>2, <1>a, <3>2, <4>2, <4>3
    <3> QED
      BY <3>1, <3>2 DEF flat, p, n
  <2>2. /\ part \in Seq(P) /\ Len(part) = IF p + n < p THEN 0 ELSE (p + n) - p
        /\ \A j \in 1 .. (p + n) - p : part[j] = from[p + j]
    BY <1>2, <2>1, PartIs
  <2>3. Len(part) = n /\ \A j \in 1 .. n : part[j] = ss[i][j]
    <3>1. (p + n) - p = n /\ ~(p + n < p)
      BY <1>2
    <3> QED
      BY <2>1, <2>2, <3>1
  <2> HIDE DEF part
  <2>4. Len(ss[i]) = n
    BY DEF n
  <2>5. part = ss[i]
    BY <1>2, <2>2, <2>3, <2>4
  <2> QED
    BY <2>5 DEF part, p, n
<1> QED
  BY <1>4, <1>5

-------------------------------------------------------------------------------
(* The key indexes: the values, their seconds, and the pairs of both.       *)
ValuesOfKeys == {Data[id].service : id \in DOMAIN Data} \union {Data[id].action : id \in DOMAIN Data}
SomeValues == {V \in SUBSET ValuesOfKeys : IsFiniteSet(V)}
CountTables == UNION {[V -> SecondCounts] : V \in SomeValues}
ActionTables == UNION {[V -> CountTables] : V \in SomeValues}
KeyIndexes ==
  {k \in [services : CountTables, actions : ActionTables, total : Int, pairs : Int] :
     k.pairs = PairsOfBoth(k.services, k.actions)}

LEMMA ImageIsFinite ==
  ASSUME NEW S, IsFiniteSet(S), NEW f
  PROVE  IsFiniteSet({f[x] : x \in S})
<1> DEFINE T == {f[x] : x \in S}
           g == [x \in S |-> f[x]]
<1>1. g \in Surjection(S, T)
  BY DEF Surjection
<1> HIDE DEF T, g
<1>2. IsFiniteSet(T)
  BY <1>1, FS_Surjection
<1> QED
  BY <1>2 DEF T

LEMMA KeysAre ==
  ASSUME NEW k \in KeyIndexes
  PROVE  /\ IsFiniteSet(KeyValues(k))
         /\ \A kv \in KeyValues(k) : SecondsIn(k, kv) \in SecondCounts
<1>1. k.services \in CountTables /\ k.actions \in ActionTables
  BY DEF KeyIndexes
<1>2. PICK V \in SomeValues : k.services \in [V -> SecondCounts]
  BY <1>1 DEF CountTables
<1>3. PICK W \in SomeValues : k.actions \in [W -> CountTables]
  BY <1>1 DEF ActionTables
<1>4. \A s \in W : \E A \in SomeValues : k.actions[s] \in [A -> SecondCounts]
  BY <1>3 DEF CountTables
<1> DEFINE Two(s) == {<<s, a>> : a \in DOMAIN k.actions[s]}
<1>5. IsFiniteSet(V) /\ IsFiniteSet(W) /\ \A s \in W : IsFiniteSet(DOMAIN k.actions[s])
  BY <1>4 DEF SomeValues
<1>6. KeyValues(k) = {<<s>> : s \in V} \union UNION {Two(s) : s \in W}
  BY <1>2, <1>3 DEF KeyValues
<1>7. IsFiniteSet({<<s>> : s \in V})
  <2> DEFINE f == [s \in V |-> <<s>>]
  <2>1. {f[s] : s \in V} = {<<s>> : s \in V}
    OBVIOUS
  <2> HIDE DEF f
  <2>2. IsFiniteSet({f[s] : s \in V})
    BY <1>5, ImageIsFinite
  <2> QED
    BY <2>1, <2>2
<1>8. ASSUME NEW s \in W PROVE IsFiniteSet(Two(s))
  <2> DEFINE A == DOMAIN k.actions[s]
             f == [a \in A |-> <<s, a>>]
  <2>1. {f[a] : a \in A} = Two(s)
    OBVIOUS
  <2>2. IsFiniteSet(A)
    BY <1>5
  <2> HIDE DEF f, A, Two
  <2>3. IsFiniteSet({f[a] : a \in A})
    BY <2>2, ImageIsFinite
  <2> QED
    BY <2>1, <2>3
<1>9. IsFiniteSet({Two(s) : s \in W})
  <2> DEFINE f == [s \in W |-> Two(s)]
  <2>1. {f[s] : s \in W} = {Two(s) : s \in W}
    OBVIOUS
  <2> HIDE DEF f, Two
  <2>2. IsFiniteSet({f[s] : s \in W})
    BY <1>5, ImageIsFinite
  <2> QED
    BY <2>1, <2>2
<1>10. IsFiniteSet(UNION {Two(s) : s \in W})
  <2> HIDE DEF Two
  <2>1. \A T \in {Two(s) : s \in W} : IsFiniteSet(T)
    BY <1>8
  <2> QED
    BY <1>9, <2>1, FS_UNION
<1>11. IsFiniteSet(KeyValues(k))
  <2> HIDE DEF Two
  <2> QED
    BY <1>6, <1>7, <1>10, FS_Union
<1>12. ASSUME NEW kv \in KeyValues(k) PROVE SecondsIn(k, kv) \in SecondCounts
  <2>1. CASE \E s \in V : kv = <<s>>
    BY <1>2, <2>1 DEF SecondsIn
  <2>2. CASE \E s \in W : \E a \in DOMAIN k.actions[s] : kv = <<s, a>>
    <3>1. PICK s \in W : \E a \in DOMAIN k.actions[s] : kv = <<s, a>>
      BY <2>2
    <3>2. PICK a \in DOMAIN k.actions[s] : kv = <<s, a>>
      BY <3>1
    <3>3. Len(kv) = 2 /\ kv[1] = s /\ kv[2] = a
      BY <3>2
    <3>4. k.actions[s][a] \in SecondCounts
      BY <1>4
    <3> QED
      BY <3>3, <3>4 DEF SecondsIn
  <2> QED
    BY <1>6, <2>1, <2>2
<1> QED
  BY <1>11, <1>12

(* What a search reads of the file for a value are the seconds of it. *)
LEMMA ValueIsFound ==
  ASSUME NEW k \in KeyIndexes
  PROVE  LET file == KeyToFile(k)
         IN  /\ file.total = k.total /\ file.keys = DOMAIN k.actions
             /\ DOMAIN file.directory = KeyValues(k)
             /\ \A kv \in KeyValues(k) : KeySecondsOf(file, kv) = SecondsIn(k, kv)
<1> DEFINE P == [step : Int, records : Nat]
           S == KeyValues(k)
           values == FoldSet(LAMBDA kv, s : Append(s, kv), <<>>, S)
           PackedAt(i) == pack_seconds(SecondsIn(k, values[i]))
           packed == [i \in DOMAIN values |-> PackedAt(i)]
           file == KeyToFile(k)
           seconds == FlattenSeq(packed)
<1>1. IsFiniteSet(S) /\ \A kv \in S : SecondsIn(k, kv) \in SecondCounts
  BY KeysAre
<1>2. file = [total |-> k.total, keys |-> DOMAIN k.actions,
              directory |-> Directory(values, packed), seconds |-> seconds]
  BY DEF KeyToFile
<1>3. Lists(values, S)
  <2> HIDE DEF S
  <2> QED
    BY <1>1, EveryOneIsListed
<1> HIDE DEF values, S, file
<1>4. /\ values \in Seq(S) /\ Len(values) \in Nat /\ DOMAIN values = 1 .. Len(values)
      /\ \A i \in 1 .. Len(values) : values[i] \in S
      /\ \A x \in S : \E i \in 1 .. Len(values) : values[i] = x
  <2>1. values \in Seq(S) /\ \A x \in S : \E i \in 1 .. Len(values) : values[i] = x
    BY <1>3 DEF Lists
  <2> QED
    BY <2>1
<1>5. \A i \in 1 .. Len(values) : PackedAt(i) \in Seq(P)
                                  /\ unpack_seconds(PackedAt(i)) = SecondsIn(k, values[i])
  <2> TAKE i \in 1 .. Len(values)
  <2>1. SecondsIn(k, values[i]) \in SecondCounts
    BY <1>1, <1>4
  <2> QED
    BY <2>1, UnpackedIsPacked
<1> HIDE DEF PackedAt, P
<1>6. packed \in Seq(Seq(P)) /\ Len(packed) = Len(values)
        /\ \A i \in 1 .. Len(values) : packed[i] = PackedAt(i)
  BY <1>4, <1>5
<1> HIDE DEF packed
<1>7. PICK start : Starts(start, packed)
  BY <1>6, StartsExist
<1>8. /\ DOMAIN Directory(values, packed) = S
      /\ \A i \in 1 .. Len(values) :
           Directory(values, packed)[values[i]] = [offset |-> start[i], len |-> Len(packed[i])]
  BY <1>3, <1>6, <1>7, DirectoryIs
<1>9. seconds \in Seq(P) /\ Len(seconds) \in Nat
  <2>1. seconds \in Seq(P)
    BY <1>6, FlattenType
  <2> QED
    BY <2>1
<1>10. ASSUME NEW i \in 1 .. Len(values) PROVE KeySecondsOf(file, values[i]) = SecondsIn(k, values[i])
  <2> DEFINE block == [offset |-> start[i], len |-> Len(packed[i])]
             ahead == ReadAhead(file)
             from == IF block.offset + block.len <= Len(ahead) THEN ahead ELSE seconds
             entries == Cardinality(S)
             past == IF READ_LEN > entries THEN READ_LEN - entries ELSE 0
             m == IF past < Len(seconds) THEN past ELSE Len(seconds)
  <2>1. file.directory[values[i]] = block /\ file.seconds = seconds
    BY <1>2, <1>8
  <2>2. ahead = SubSeq(seconds, 1, m)
    BY <1>2, <1>8 DEF ReadAhead
  <2>3. m \in 0 .. Len(seconds)
    <3>1. past \in Nat
      BY <1>1, FS_CardinalityType, HourIndexesAssumption
    <3> HIDE DEF past
    <3> QED
      BY <1>9, <3>1
  <2> HIDE DEF m, ahead
  <2>4. Len(ahead) = m
    <3>1. /\ SubSeq(seconds, 0 + 1, m) \in Seq(P)
          /\ Len(SubSeq(seconds, 0 + 1, m)) = IF m < 0 THEN 0 ELSE m - 0
          /\ \A j \in 1 .. m - 0 : 0 + j \in 1 .. Len(seconds)
                                  /\ SubSeq(seconds, 0 + 1, m)[j] = seconds[0 + j]
      <4>1. 0 \in Nat
        OBVIOUS
      <4> QED
        BY <1>9, <2>3, <4>1, PartIs
    <3>2. 0 + 1 = 1 /\ m - 0 = m /\ ~(m < 0)
      BY <1>9, <2>3
    <3> QED
      BY <2>2, <3>1, <3>2
  <2>5. SubSeq(from, start[i] + 1, start[i] + Len(packed[i])) = packed[i]
    <3>1. i \in 1 .. Len(packed)
      BY <1>6
    <3>2. from = seconds \/ (from = SubSeq(seconds, 1, m) /\ start[i] + Len(packed[i]) <= m)
      BY <2>2, <2>4
    <3> HIDE DEF from
    <3> QED
      BY <1>6, <1>7, <2>3, <3>1, <3>2, PartOfFlat
  <2>6. KeySecondsOf(file, values[i])
          = unpack_seconds(SubSeq(from, block.offset + 1, block.offset + block.len))
    BY <2>1 DEF KeySecondsOf, ahead
  <2>7. block.offset = start[i] /\ block.len = Len(packed[i])
    OBVIOUS
  <2> HIDE DEF from, block
  <2>8. KeySecondsOf(file, values[i]) = unpack_seconds(packed[i])
    BY <2>5, <2>6, <2>7
  <2> QED
    BY <1>5, <1>6, <2>8
<1>11. \A kv \in S : KeySecondsOf(file, kv) = SecondsIn(k, kv)
  BY <1>4, <1>10
<1>12. file.total = k.total /\ file.keys = DOMAIN k.actions /\ DOMAIN file.directory = S
  BY <1>2, <1>8
<1> QED
  BY <1>11, <1>12 DEF S, file

(* The file of a key index - a directory of its values, and their seconds   *)
(* packed one after another - read value by value, by what the first read   *)
(* brought in or past it, is the index.                                     *)
THEOREM KeyFileIsTheIndex ==
  ASSUME NEW k \in KeyIndexes
  PROVE  KeyFromFile(KeyToFile(k)) = k
<1> DEFINE file == KeyToFile(k)
           S == DOMAIN file.directory
           Ones == {kv[1] : kv \in {kv \in S : Len(kv) = 1}}
           ActionsOf(s) == {kv[2] : kv \in {kv \in S : Len(kv) = 2 /\ kv[1] = s}}
           services == [s \in Ones |-> KeySecondsOf(file, <<s>>)]
           actions == [s \in file.keys |-> [a \in ActionsOf(s) |-> KeySecondsOf(file, <<s, a>>)]]
<1>1. /\ file.total = k.total /\ file.keys = DOMAIN k.actions /\ S = KeyValues(k)
      /\ \A kv \in KeyValues(k) : KeySecondsOf(file, kv) = SecondsIn(k, kv)
  BY ValueIsFound
<1>2. KeyFromFile(file) = [services |-> services, actions |-> actions, total |-> file.total,
                           pairs |-> PairsOfBoth(services, actions)]
  BY DEF KeyFromFile
<1>3. KeyValues(k) = {<<s>> : s \in DOMAIN k.services}
                       \union UNION {{<<s, a>> : a \in DOMAIN k.actions[s]} : s \in DOMAIN k.actions}
  BY DEF KeyValues
<1> HIDE DEF file
<1>4. \A s, a : /\ Len(<<s>>) = 1 /\ <<s>>[1] = s
                /\ Len(<<s, a>>) = 2 /\ <<s, a>>[1] = s /\ <<s, a>>[2] = a
  OBVIOUS
<1>5. \A kv \in S : /\ Len(kv) = 1 => \E s \in DOMAIN k.services : kv = <<s>>
                    /\ Len(kv) = 2 => \E s \in DOMAIN k.actions :
                                        \E a \in DOMAIN k.actions[s] : kv = <<s, a>>
  <2> TAKE kv \in S
  <2>1. CASE \E s \in DOMAIN k.services : kv = <<s>>
    BY <1>4, <2>1
  <2>2. CASE \E s \in DOMAIN k.actions : \E a \in DOMAIN k.actions[s] : kv = <<s, a>>
    BY <1>4, <2>2
  <2> QED
    BY <1>1, <1>3, <2>1, <2>2
<1>6. /\ \A s \in DOMAIN k.services : <<s>> \in S
      /\ \A s \in DOMAIN k.actions : \A a \in DOMAIN k.actions[s] : <<s, a>> \in S
  BY <1>1, <1>3
<1>7. k.services \in CountTables /\ k.actions \in ActionTables
      /\ k = [services |-> k.services, actions |-> k.actions, total |-> k.total, pairs |-> k.pairs]
      /\ k.pairs = PairsOfBoth(k.services, k.actions)
  BY DEF KeyIndexes
<1> HIDE DEF S
<1>8. services = k.services
  <2>1. Ones = DOMAIN k.services
    <3>1. ASSUME NEW s \in DOMAIN k.services PROVE s \in Ones
      BY <1>4, <1>6
    <3>2. ASSUME NEW kv \in S, Len(kv) = 1 PROVE kv[1] \in DOMAIN k.services
      BY <1>4, <1>5, <3>2
    <3> QED
      BY <3>1, <3>2
  <2> HIDE DEF Ones
  <2>2. \A s \in DOMAIN k.services : KeySecondsOf(file, <<s>>) = k.services[s]
    BY <1>1, <1>4, <1>6 DEF SecondsIn
  <2>3. k.services = [s \in DOMAIN k.services |-> k.services[s]]
    BY <1>7 DEF CountTables
  <2> QED
    BY <2>1, <2>2, <2>3
<1>9. actions = k.actions
  <2>1. PICK W \in SomeValues : k.actions \in [W -> CountTables]
    BY <1>7 DEF ActionTables
  <2>2. ASSUME NEW s \in W
        PROVE  [a \in ActionsOf(s) |-> KeySecondsOf(file, <<s, a>>)] = k.actions[s]
    <3>1. s \in DOMAIN k.actions
      BY <2>1
    <3>2. ActionsOf(s) = DOMAIN k.actions[s]
      <4>1. ASSUME NEW a \in DOMAIN k.actions[s] PROVE a \in ActionsOf(s)
        <5>1. <<s, a>> \in S /\ Len(<<s, a>>) = 2 /\ <<s, a>>[1] = s /\ <<s, a>>[2] = a
          BY <1>4, <1>6, <3>1
        <5>2. <<s, a>> \in {kv \in S : Len(kv) = 2 /\ kv[1] = s}
          BY <5>1
        <5> QED
          BY <5>1, <5>2
      <4>2. ASSUME NEW kv \in S, Len(kv) = 2, kv[1] = s PROVE kv[2] \in DOMAIN k.actions[s]
        <5>1. PICK t \in DOMAIN k.actions : \E a \in DOMAIN k.actions[t] : kv = <<t, a>>
          BY <1>5, <4>2
        <5>2. PICK a \in DOMAIN k.actions[t] : kv = <<t, a>>
          BY <5>1
        <5> QED
          BY <1>4, <4>2, <5>2
      <4> QED
        BY <4>1, <4>2
    <3> HIDE DEF ActionsOf
    <3>3. \A a \in DOMAIN k.actions[s] : KeySecondsOf(file, <<s, a>>) = k.actions[s][a]
      <4> TAKE a \in DOMAIN k.actions[s]
      <4>1. <<s, a>> \in S
        BY <1>6, <3>1
      <4>2. KeySecondsOf(file, <<s, a>>) = SecondsIn(k, <<s, a>>)
        BY <1>1, <4>1
      <4>3. SecondsIn(k, <<s, a>>) = k.actions[s][a]
        BY <1>4 DEF SecondsIn
      <4> QED
        BY <4>2, <4>3
    <3>4. k.actions[s] \in CountTables
      BY <2>1
    <3>5. k.actions[s] = [a \in DOMAIN k.actions[s] |-> k.actions[s][a]]
      BY <3>4 DEF CountTables
    <3> QED
      BY <3>2, <3>3, <3>5
  <2> HIDE DEF ActionsOf
  <2>3. file.keys = W /\ k.actions = [s \in W |-> k.actions[s]]
    BY <1>1, <2>1
  <2> QED
    BY <2>2, <2>3
<1> HIDE DEF services, actions
<1> QED
  BY <1>1, <1>2, <1>7, <1>8, <1>9 DEF file

-------------------------------------------------------------------------------
(* What the indexes count stays what they are: sums of what was put at one  *)
(* place.                                                                   *)
LEMMA SumOfSame ==
  ASSUME NEW S, IsFiniteSet(S), NEW f, NEW g, \A x \in S : f[x] \in Nat /\ g[x] = f[x]
  PROVE  SumFunctionOnSet(g, S) = SumFunctionOnSet(f, S)
<1>1. \A x \in S : f[x] \in Nat /\ g[x] \in Nat /\ f[x] <= g[x] /\ g[x] <= f[x]
  OBVIOUS
<1>2. SumFunctionOnSet(f, S) <= SumFunctionOnSet(g, S)
  BY <1>1, SumGrows
<1>3. SumFunctionOnSet(g, S) <= SumFunctionOnSet(f, S)
  BY <1>1, SumGrows
<1>4. SumFunctionOnSet(f, S) \in Nat /\ SumFunctionOnSet(g, S) \in Nat
  BY <1>1, SumIsNat
<1> QED
  BY <1>2, <1>3, <1>4

LEMMA SumOfUpdated ==
  ASSUME NEW D, IsFiniteSet(D), NEW f \in [D -> Nat], NEW k, NEW v \in Nat
  PROVE  /\ SumFunction(f) \in Nat
         /\ SumFunction(Updated(f, k, v)) = SumFunction(f) - Get(f, k, 0) + v
         /\ Get(f, k, 0) \in Nat /\ Get(f, k, 0) <= SumFunction(f)
<1> DEFINE E == D \union {k}
           g == Updated(f, k, v)
           R == D \ {k}
<1>1. IsFiniteSet(E) /\ IsFiniteSet(R) /\ E \ {k} = R
  BY FS_AddElement, FS_RemoveElement
<1>2. g = [x \in E |-> IF x = k THEN v ELSE f[x]]
  BY DEF Updated
<1>3. DOMAIN g = E /\ g[k] = v /\ k \in E /\ \A x \in R : g[x] = f[x]
  BY <1>2
<1>4. \A x \in E : g[x] \in Nat
  BY <1>2
<1>5. SumFunction(g) = SumFunctionOnSet(g, E) /\ SumFunction(f) = SumFunctionOnSet(f, D)
  BY <1>3 DEF SumFunction
<1> HIDE DEF E, g, R
<1>6. SumFunctionOnSet(g, E) = g[k] + SumFunctionOnSet(g, E \ {k})
  BY <1>1, <1>3, <1>4, SumAdd
<1>7. \A x \in R : f[x] \in Nat
  BY DEF R
<1>8. SumFunctionOnSet(g, R) = SumFunctionOnSet(f, R)
  BY <1>1, <1>3, <1>7, SumOfSame
<1>9. SumFunctionOnSet(f, R) \in Nat /\ SumFunctionOnSet(f, D) \in Nat
  BY <1>1, <1>7, SumIsNat
<1> DEFINE sumF == SumFunctionOnSet(f, D)
           sumG == SumFunctionOnSet(g, E)
           rest == SumFunctionOnSet(f, R)
           old == Get(f, k, 0)
<1>10. sumF = old + rest /\ old \in Nat
  <2>1. CASE k \in D
    <3>1. sumF = f[k] + SumFunctionOnSet(f, D \ {k})
      BY <2>1, SumAdd
    <3>2. old = f[k] /\ f[k] \in Nat
      BY <2>1 DEF Get
    <3>3. sumF = f[k] + rest
      BY <3>1 DEF R
    <3> QED
      BY <3>2, <3>3
  <2>2. CASE k \notin D
    <3>1. old = 0 /\ R = D
      BY <2>2 DEF Get, R
    <3>2. sumF = rest
      BY <3>1
    <3> HIDE DEF sumF, rest, old
    <3>3. rest \in Nat
      BY <1>9 DEF rest
    <3> QED
      BY <3>1, <3>2, <3>3
  <2> QED
    BY <2>1, <2>2
<1>11. sumG = v + rest
  BY <1>1, <1>3, <1>6, <1>8
<1>12. sumF \in Nat /\ rest \in Nat
  BY <1>9
<1> HIDE DEF sumF, sumG, rest, old
<1>13. sumG = sumF - old + v /\ old <= sumF
  BY <1>10, <1>11, <1>12
<1>14. SumFunction(f) = sumF /\ SumFunction(Updated(f, k, v)) = sumG
  BY <1>5 DEF sumF, sumG, g
<1>15. old = Get(f, k, 0)
  BY DEF old
<1> QED
  BY <1>10, <1>12, <1>13, <1>14, <1>15

(* A second more of a value. *)
LEMMA ValueIsCounted ==
  ASSUME NEW b \in CountTables, NEW value \in ValuesOfKeys, NEW second \in Seconds
  PROVE  /\ PairsOf(b) \in Nat
         /\ count_in(b, value, second) \in CountTables
         /\ PairsOf(count_in(b, value, second)) = PairsOf(b) + One(IsNewPair(b, value, second))
<1>1. PICK V \in SomeValues : b \in [V -> SecondCounts]
  BY DEF CountTables
<1> DEFINE seconds == Get(b, value, <<>>)
           more == Updated(seconds, second, Get(seconds, second, 0) + 1)
           c == count_in(b, value, second)
           sizes == [v \in V |-> Cardinality(DOMAIN b[v])]
<1>2. IsFiniteSet(V) /\ V \subseteq ValuesOfKeys
  BY DEF SomeValues
<1>3. \A f \in SecondCounts : DOMAIN f \in SUBSET Seconds /\ f \in [DOMAIN f -> Nat]
                             /\ Cardinality(DOMAIN f) \in Nat
  <2> TAKE f \in SecondCounts
  <2>1. DOMAIN f \in SUBSET Seconds /\ f \in [DOMAIN f -> Nat]
    BY DEF SecondCounts
  <2> QED
    BY <2>1, SecondsAreFinite, FS_CardinalityType
<1>4. seconds \in SecondCounts
  <2>1. <<>> \in [{} -> Nat]
    OBVIOUS
  <2>2. <<>> \in SecondCounts
    BY <2>1 DEF SecondCounts
  <2> QED
    BY <1>1, <2>2 DEF Get
<1> HIDE DEF seconds
<1>5. DOMAIN more = DOMAIN seconds \union {second} /\ more \in SecondCounts
  <2>1. DOMAIN more = DOMAIN seconds \union {second}
    BY DEF Updated
  <2>2. \A s \in DOMAIN more : more[s] \in Nat
    <3>1. Get(seconds, second, 0) \in Nat
      BY <1>3, <1>4 DEF Get
    <3> QED
      BY <1>3, <1>4, <3>1 DEF Updated
  <2>3. more = [s \in DOMAIN more |-> more[s]]
    BY DEF Updated
  <2>4. DOMAIN more \in SUBSET Seconds
    BY <1>3, <1>4, <2>1
  <2> HIDE DEF more
  <2>5. more \in [DOMAIN more -> Nat]
    BY <2>2, <2>3
  <2> QED
    BY <2>1, <2>4, <2>5 DEF SecondCounts
<1>6. c = Updated(b, value, more)
  BY DEF count_in, seconds
<1> HIDE DEF more, c
<1>7. c \in [V \union {value} -> SecondCounts] /\ V \union {value} \in SomeValues
  <2>1. IsFiniteSet(V \union {value})
    BY <1>2, FS_AddElement
  <2>2. c \in [V \union {value} -> SecondCounts]
    BY <1>1, <1>5, <1>6 DEF Updated
  <2> QED
    BY <1>2, <2>1, <2>2 DEF SomeValues
<1>8. sizes \in [V -> Nat]
  BY <1>1, <1>3
<1> DEFINE n == Cardinality(DOMAIN more)
<1>9. n \in Nat
  BY <1>3, <1>5
<1>10. [v \in DOMAIN c |-> Cardinality(DOMAIN c[v])] = Updated(sizes, value, n)
  <2>1. DOMAIN c = V \union {value}
    BY <1>7
  <2>2. \A v \in V \union {value} : c[v] = IF v = value THEN more ELSE b[v]
    BY <1>1, <1>6 DEF Updated
  <2>3. Updated(sizes, value, n) = [v \in V \union {value} |-> IF v = value THEN n ELSE sizes[v]]
    BY DEF Updated
  <2>4. \A v \in V \union {value} :
          Cardinality(DOMAIN c[v]) = IF v = value THEN n ELSE sizes[v]
    BY <2>2
  <2> HIDE DEF sizes, n
  <2> QED
    BY <2>1, <2>3, <2>4
<1>11. PairsOf(c) = SumFunction(Updated(sizes, value, n)) /\ PairsOf(b) = SumFunction(sizes)
  <2>1. [v \in DOMAIN b |-> Cardinality(DOMAIN b[v])] = sizes
    BY <1>1
  <2> HIDE DEF sizes, n
  <2> QED
    BY <1>10, <2>1 DEF PairsOf
<1>12. n = Get(sizes, value, 0) + One(IsNewPair(b, value, second))
  <2>1. IsFiniteSet(DOMAIN seconds)
    BY <1>3, <1>4, SecondsAreFinite
  <2>2. n = IF second \in DOMAIN seconds THEN Cardinality(DOMAIN seconds)
            ELSE Cardinality(DOMAIN seconds) + 1
    BY <1>5, <2>1, FS_AddElement
  <2>3. IsNewPair(b, value, second) <=> second \notin DOMAIN seconds
    BY DEF IsNewPair, seconds
  <2>4. Get(sizes, value, 0) = Cardinality(DOMAIN seconds)
    <3>1. CASE value \in V
      BY <1>1, <3>1 DEF Get, seconds
    <3>2. CASE value \notin V
      <4>1. seconds = <<>> /\ Get(sizes, value, 0) = 0
        BY <1>1, <3>2 DEF Get, seconds
      <4>2. DOMAIN seconds = {}
        BY <4>1
      <4> QED
        BY <4>1, <4>2, FS_EmptySet
    <3> QED
      BY <3>1, <3>2
  <2>5. Cardinality(DOMAIN seconds) \in Nat
    BY <1>3, <1>4
  <2> HIDE DEF n, sizes
  <2> QED
    BY <2>2, <2>3, <2>4, <2>5 DEF One
<1> HIDE DEF n, sizes
<1>13. /\ SumFunction(sizes) \in Nat /\ Get(sizes, value, 0) \in Nat
       /\ SumFunction(Updated(sizes, value, n)) = SumFunction(sizes) - Get(sizes, value, 0) + n
  BY <1>2, <1>8, <1>9, SumOfUpdated
<1>14. One(IsNewPair(b, value, second)) \in Nat
  BY DEF One
<1>15. PairsOf(b) \in Nat /\ PairsOf(c) = PairsOf(b) + One(IsNewPair(b, value, second))
  BY <1>11, <1>12, <1>13, <1>14
<1> QED
  BY <1>7, <1>15 DEF CountTables, c

(* What a table counts is a number; an empty one counts nothing. *)
LEMMA PairsAreCounted ==
  ASSUME NEW b \in CountTables
  PROVE  PairsOf(b) \in Nat
<1> DEFINE sizes == [v \in DOMAIN b |-> Cardinality(DOMAIN b[v])]
<1>1. PICK V \in SomeValues : b \in [V -> SecondCounts]
  BY DEF CountTables
<1>2. \A v \in V : IsFiniteSet(DOMAIN b[v]) /\ Cardinality(DOMAIN b[v]) \in Nat
  <2> TAKE v \in V
  <2>1. DOMAIN b[v] \in SUBSET Seconds
    BY <1>1 DEF SecondCounts
  <2> QED
    BY <2>1, SecondsAreFinite, FS_CardinalityType
<1>3. DOMAIN sizes = V /\ IsFiniteSet(V) /\ \A v \in V : sizes[v] \in Nat
  BY <1>1, <1>2 DEF SomeValues
<1> HIDE DEF sizes
<1>4. SumFunction(sizes) \in Nat
  BY <1>3, SumIsNat DEF SumFunction
<1> QED
  BY <1>4 DEF PairsOf, sizes

LEMMA NothingIsCounted ==
  <<>> \in CountTables /\ <<>> \in ActionTables /\ PairsOf(<<>>) = 0 /\ PairsOfBoth(<<>>, <<>>) = 0
<1>1. {} \in SomeValues
  BY FS_EmptySet DEF SomeValues
<1>2. <<>> \in [{} -> SecondCounts] /\ <<>> \in [{} -> CountTables]
  OBVIOUS
<1>3. DOMAIN <<>> = {}
  OBVIOUS
<1>4. PairsOf(<<>>) = 0
  <2> DEFINE none == [v \in DOMAIN <<>> |-> Cardinality(DOMAIN <<>>[v])]
  <2>1. DOMAIN none = {}
    BY <1>3
  <2> HIDE DEF none
  <2>2. SumFunction(none) = 0
    BY <2>1, SumOfNone DEF SumFunction
  <2> QED
    BY <2>2 DEF PairsOf, none
<1>5. SumFunction([s \in DOMAIN <<>> |-> PairsOf(<<>>[s])]) = 0
  <2> DEFINE none == [s \in DOMAIN <<>> |-> PairsOf(<<>>[s])]
  <2>1. DOMAIN none = {}
    BY <1>3
  <2> HIDE DEF none
  <2>2. SumFunction(none) = 0
    BY <2>1, SumOfNone DEF SumFunction
  <2> QED
    BY <2>2 DEF none
<1>6. PairsOfBoth(<<>>, <<>>) = 0
  BY <1>4, <1>5 DEF PairsOfBoth
<1> QED
  BY <1>1, <1>2, <1>4, <1>6 DEF CountTables, ActionTables

LEMMA ActionsAreNumbers ==
  ASSUME NEW a \in ActionTables
  PROVE  SumFunction([s \in DOMAIN a |-> PairsOf(a[s])]) \in Nat
<1> DEFINE sizes == [s \in DOMAIN a |-> PairsOf(a[s])]
<1>1. PICK V \in SomeValues : a \in [V -> CountTables]
  BY DEF ActionTables
<1>2. \A s \in V : PairsOf(a[s]) \in Nat
  BY <1>1, PairsAreCounted
<1>3. DOMAIN sizes = V /\ IsFiniteSet(V) /\ \A v \in V : sizes[v] \in Nat
  BY <1>1, <1>2 DEF SomeValues
<1> HIDE DEF sizes
<1>4. SumFunction(sizes) \in Nat
  BY <1>3, SumIsNat DEF SumFunction
<1> QED
  BY <1>4 DEF sizes

(* Another table of actions for a service. *)
LEMMA ActionsAreCounted ==
  ASSUME NEW a \in ActionTables, NEW service \in ValuesOfKeys, NEW some \in CountTables,
         NEW services \in CountTables
  PROVE  /\ Get(a, service, <<>>) \in CountTables
         /\ Updated(a, service, some) \in ActionTables
         /\ PairsOfBoth(services, Updated(a, service, some))
              = PairsOfBoth(services, a) - PairsOf(Get(a, service, <<>>)) + PairsOf(some)
<1>1. PICK V \in SomeValues : a \in [V -> CountTables]
  BY DEF ActionTables
<1> DEFINE b == Updated(a, service, some)
           sizes == [s \in V |-> PairsOf(a[s])]
           n == PairsOf(some)
<1>2. IsFiniteSet(V) /\ V \subseteq ValuesOfKeys
  BY DEF SomeValues
<1>3. sizes \in [V -> Nat] /\ n \in Nat /\ PairsOf(services) \in Nat
  <2>1. \A t \in CountTables : PairsOf(t) \in Nat
    BY PairsAreCounted
  <2> QED
    BY <1>1, <2>1
<1>4. Get(a, service, <<>>) \in CountTables /\ Get(sizes, service, 0) = PairsOf(Get(a, service, <<>>))
  BY <1>1, NothingIsCounted DEF Get
<1>5. b = [s \in V \union {service} |-> IF s = service THEN some ELSE a[s]]
  BY <1>1 DEF Updated
<1>6. b \in ActionTables
  <2>1. V \union {service} \in SomeValues
    <3>1. IsFiniteSet(V \union {service})
      BY <1>2, FS_AddElement
    <3> QED
      BY <1>2, <3>1 DEF SomeValues
  <2>2. b \in [V \union {service} -> CountTables]
    BY <1>1, <1>5
  <2> HIDE DEF b
  <2> QED
    BY <2>1, <2>2 DEF ActionTables
<1>7. [s \in DOMAIN b |-> PairsOf(b[s])] = Updated(sizes, service, n)
  <2>1. DOMAIN b = V \union {service}
    BY <1>5
  <2>2. \A s \in V \union {service} : PairsOf(b[s]) = IF s = service THEN n ELSE sizes[s]
    BY <1>5
  <2>3. Updated(sizes, service, n) = [s \in V \union {service} |-> IF s = service THEN n ELSE sizes[s]]
    BY DEF Updated
  <2> HIDE DEF b, sizes, n
  <2> QED
    BY <2>1, <2>2, <2>3
<1>8. [s \in DOMAIN a |-> PairsOf(a[s])] = sizes
  BY <1>1
<1> HIDE DEF b, sizes, n
<1>9. /\ PairsOfBoth(services, b) = PairsOf(services) + SumFunction(Updated(sizes, service, n))
      /\ PairsOfBoth(services, a) = PairsOf(services) + SumFunction(sizes)
  BY <1>7, <1>8 DEF PairsOfBoth
<1>10. /\ SumFunction(sizes) \in Nat /\ Get(sizes, service, 0) \in Nat
       /\ SumFunction(Updated(sizes, service, n)) = SumFunction(sizes) - Get(sizes, service, 0) + n
  BY <1>2, <1>3, SumOfUpdated
<1>11. PairsOfBoth(services, b) = PairsOfBoth(services, a) - Get(sizes, service, 0) + n
  BY <1>3, <1>9, <1>10
<1> QED
  BY <1>4, <1>6, <1>11 DEF b, n

(* The same for a service more. *)
LEMMA ServiceIsCounted ==
  ASSUME NEW k \in KeyIndexes, NEW second \in Seconds, NEW service \in ValuesOfKeys
  PROVE  CountService(k, second, service) \in KeyIndexes
<1> DEFINE c == CountService(k, second, service)
           services == count_in(k.services, service, second)
           one == One(IsNewPair(k.services, service, second))
<1>1. /\ k \in [services : CountTables, actions : ActionTables, total : Int, pairs : Int]
      /\ k.pairs = PairsOfBoth(k.services, k.actions)
  BY DEF KeyIndexes
<1>2. /\ PairsOf(k.services) \in Nat /\ services \in CountTables
      /\ PairsOf(services) = PairsOf(k.services) + one
  BY <1>1, ValueIsCounted
<1>3. one \in Nat
  BY DEF One
<1>4. c = [k EXCEPT !.services = services, !.pairs = k.pairs + one]
  BY <1>1 DEF CountService
<1>5. SumFunction([s \in DOMAIN k.actions |-> PairsOf(k.actions[s])]) \in Nat
  BY <1>1, ActionsAreNumbers
<1> HIDE DEF c, services, one
<1>6. /\ c.services = services /\ c.actions = k.actions /\ c.pairs = k.pairs + one
      /\ c \in [services : CountTables, actions : ActionTables, total : Int, pairs : Int]
  <2>1. k.pairs + one \in Int
    BY <1>1, <1>3
  <2>2. c = [services |-> services, actions |-> k.actions, total |-> k.total, pairs |-> k.pairs + one]
    BY <1>1, <1>4
  <2> QED
    BY <1>1, <1>2, <2>1, <2>2
<1>7. PairsOfBoth(services, k.actions) = PairsOfBoth(k.services, k.actions) + one
  <2> DEFINE sum == SumFunction([s \in DOMAIN k.actions |-> PairsOf(k.actions[s])])
  <2>1. sum \in Nat
    BY <1>5
  <2>2. /\ PairsOfBoth(services, k.actions) = PairsOf(services) + sum
        /\ PairsOfBoth(k.services, k.actions) = PairsOf(k.services) + sum
    BY DEF PairsOfBoth
  <2> HIDE DEF sum
  <2> QED
    BY <1>2, <1>3, <2>1, <2>2
<1> QED
  BY <1>1, <1>6, <1>7 DEF KeyIndexes, c

LEMMA ActionsAreGiven ==
  ASSUME NEW k \in KeyIndexes, NEW service \in ValuesOfKeys, NEW some \in CountTables,
         NEW pairs, pairs = k.pairs - PairsOf(Get(k.actions, service, <<>>)) + PairsOf(some)
  PROVE  [k EXCEPT !.actions = Updated(@, service, some), !.pairs = pairs] \in KeyIndexes
<1> DEFINE b == Updated(k.actions, service, some)
<1>1. /\ k \in [services : CountTables, actions : ActionTables, total : Int, pairs : Int]
      /\ k.pairs = PairsOfBoth(k.services, k.actions)
  BY DEF KeyIndexes
<1>2. /\ b \in ActionTables /\ PairsOfBoth(k.services, b) = pairs
      /\ Get(k.actions, service, <<>>) \in CountTables
  BY <1>1, ActionsAreCounted
<1>3. pairs \in Int
  <2>1. PairsOf(Get(k.actions, service, <<>>)) \in Nat /\ PairsOf(some) \in Nat
    BY <1>2, PairsAreCounted
  <2> QED
    BY <1>1, <2>1
<1>4. [k EXCEPT !.actions = b, !.pairs = pairs] =
        [services |-> k.services, actions |-> b, total |-> k.total, pairs |-> pairs]
  <2> HIDE DEF b
  <2> DEFINE c == [k EXCEPT !.actions = b, !.pairs = pairs]
  <2>1. k \in [services : CountTables, actions : ActionTables, total : Int, pairs : Int]
    BY <1>1
  <2>2. c = [k EXCEPT !.actions = b, !.pairs = pairs]
    OBVIOUS
  <2> HIDE DEF c
  <2>3. c = [services |-> k.services, actions |-> b, total |-> k.total, pairs |-> pairs]
    BY <2>1, <2>2
  <2> QED
    BY <2>2, <2>3
<1>6. [k EXCEPT !.actions = Updated(@, service, some), !.pairs = pairs]
        = [k EXCEPT !.actions = b, !.pairs = pairs]
  OBVIOUS
<1> HIDE DEF b
<1>5. [services |-> k.services, actions |-> b, total |-> k.total, pairs |-> pairs] \in KeyIndexes
  BY <1>1, <1>2, <1>3 DEF KeyIndexes
<1> QED
  BY <1>4, <1>5, <1>6

(* What an index counts of the actions of a service. *)
LEMMA ActionIsCounted ==
  ASSUME NEW k \in KeyIndexes, NEW isNew \in BOOLEAN, NEW second \in Seconds,
         NEW service \in ValuesOfKeys, NEW action \in ValuesOfKeys
  PROVE  CountAction(k, isNew, second, service, action) \in KeyIndexes
<1> DEFINE c == CountAction(k, isNew, second, service, action)
           actions == Get(k.actions, service, <<>>)
           one == One(IsNewPair(actions, action, second))
           With(some, pairs) ==
             [k EXCEPT !.actions = Updated(@, service, some), !.pairs = pairs]
<1>1. /\ k \in [services : CountTables, actions : ActionTables, total : Int, pairs : Int]
      /\ k.pairs = PairsOfBoth(k.services, k.actions)
  BY DEF KeyIndexes
<1>2. actions \in CountTables
  BY <1>1, NothingIsCounted, ActionsAreCounted
<1>3. \A some \in CountTables :
        With(some, k.pairs - PairsOf(actions) + PairsOf(some)) \in KeyIndexes
  BY <1>1, ActionsAreGiven
<1>4. CASE ~isNew /\ actions = <<>>
  BY <1>4 DEF CountAction
<1>5. CASE ~(~isNew /\ actions = <<>>) /\ action \notin DOMAIN actions
             /\ Cardinality(DOMAIN actions) >= MAX_ACTIONS_PER_SERVICE
  <2>1. c = With(<<>>, k.pairs - PairsOf(actions))
    BY <1>5 DEF CountAction
  <2>2. k.pairs - PairsOf(actions) + PairsOf(<<>>) = k.pairs - PairsOf(actions)
    <3>1. PairsOf(actions) \in Nat /\ PairsOf(<<>>) = 0 /\ k.pairs \in Int
      BY <1>1, <1>2, PairsAreCounted, NothingIsCounted
    <3> QED
      BY <3>1
  <2> QED
    BY <1>3, <2>1, <2>2, NothingIsCounted
<1>6. CASE /\ ~(~isNew /\ actions = <<>>)
           /\ ~(action \notin DOMAIN actions
                  /\ Cardinality(DOMAIN actions) >= MAX_ACTIONS_PER_SERVICE)
  <2>1. c = With(count_in(actions, action, second), k.pairs + one)
    BY <1>6 DEF CountAction
  <2>2. /\ count_in(actions, action, second) \in CountTables
        /\ PairsOf(count_in(actions, action, second)) = PairsOf(actions) + one
        /\ PairsOf(actions) \in Nat
    BY <1>2, ValueIsCounted
  <2>3. k.pairs - PairsOf(actions) + PairsOf(count_in(actions, action, second)) = k.pairs + one
    <3>1. one \in Nat /\ k.pairs \in Int
      BY <1>1 DEF One
    <3> HIDE DEF one, actions
    <3> QED
      BY <2>2, <3>1
  <2> QED
    BY <1>3, <2>1, <2>2, <2>3
<1> QED
  BY <1>4, <1>5, <1>6

(* The records of the hour, by what an index asks of them. *)
Recs == [id : DOMAIN Data, text : Nat, names : Nat, tags : Nat]

LEMMA NewIndexes ==
  /\ NewKeyIndex \in KeyIndexes
  /\ \A k \in KeyIndexes, n \in Int : [k EXCEPT !.total = n] \in KeyIndexes
<1>1. NewKeyIndex \in KeyIndexes
  BY NothingIsCounted DEF NewKeyIndex, KeyIndexes
<1>2. \A k \in KeyIndexes, n \in Int : [k EXCEPT !.total = n] \in KeyIndexes
  <2> TAKE k \in KeyIndexes, n \in Int
  <2>1. /\ k \in [services : CountTables, actions : ActionTables, total : Int, pairs : Int]
        /\ k.pairs = PairsOfBoth(k.services, k.actions)
    BY DEF KeyIndexes
  <2>2. [k EXCEPT !.total = n] =
          [services |-> k.services, actions |-> k.actions, total |-> n, pairs |-> k.pairs]
    BY <2>1
  <2> QED
    BY <2>1, <2>2 DEF KeyIndexes
<1> QED
  BY <1>1, <1>2

LEMMA RecordIsCounted ==
  ASSUME NEW k \in KeyIndexes, NEW second \in Seconds, NEW r \in Recs
  PROVE  add_record(k, second, r) \in KeyIndexes
<1> DEFINE service == Data[r.id].service
           action == Data[r.id].action
           isNew == service \notin DOMAIN k.services
           counted == CountAction(CountService(k, second, service), isNew, second, service, action)
<1>1. service \in ValuesOfKeys /\ action \in ValuesOfKeys
  <2>1. r.id \in DOMAIN Data
    BY DEF Recs
  <2> QED
    BY <2>1 DEF ValuesOfKeys
<1>2. CountService(k, second, service) \in KeyIndexes
  BY <1>1, ServiceIsCounted
<1>3. counted \in KeyIndexes
  BY <1>1, <1>2, ActionIsCounted
<1>4. LetGo(k) \in KeyIndexes
  <2>1. k.total \in Int
    BY DEF KeyIndexes
  <2> QED
    BY <2>1, NewIndexes DEF LetGo
<1>5. add_record(k, second, r) = counted \/ add_record(k, second, r) = LetGo(k)
  BY DEF add_record
<1> QED
  BY <1>3, <1>4, <1>5

LEMMA RecordsAreCounted ==
  ASSUME NEW k \in KeyIndexes, NEW second \in Seconds, NEW records \in Seq(Recs)
  PROVE  KeyAddRecords(k, second, records) \in KeyIndexes
<1> DEFINE before == [k EXCEPT !.total = @ + Len(records)]
           Add(i, r) == IF is_let_go(i) THEN i ELSE add_record(i, second, r)
           first == IF records = <<>> THEN before ELSE add_record(before, second, Head(records))
           t == Tail(records)
           n == Len(t)
           S == 1 .. n
           IsIter(f) == f = [s \in SUBSET S |-> IF s = {} THEN first
                                                ELSE Add(f[s \ {Max(s)}], t[Max(s)])]
           op == [xa \in S \X KeyIndexes |-> Add(xa[2], t[xa[1]])]
           iter == CHOOSE f : IsIter(f)
<1>1. k \in [services : CountTables, actions : ActionTables, total : Int, pairs : Int]
  BY DEF KeyIndexes
<1>2. before \in KeyIndexes
  <2>1. k.total + Len(records) \in Int
    BY <1>1
  <2> QED
    BY <2>1, NewIndexes
<1>3. SUFFICES ASSUME records # <<>> PROVE KeyAddRecords(k, second, records) \in KeyIndexes
  BY <1>2 DEF KeyAddRecords
<1>4. t \in Seq(Recs) /\ n \in Nat /\ DOMAIN t = S /\ Head(records) \in Recs
  BY <1>3
<1>5. first \in KeyIndexes
  BY <1>2, <1>3, <1>4, RecordIsCounted
<1>6. \A a \in KeyIndexes, i \in S : Add(a, t[i]) \in KeyIndexes
  <2> TAKE a \in KeyIndexes, i \in S
  <2>1. t[i] \in Recs
    BY <1>4
  <2> QED
    BY <2>1, RecordIsCounted
<1> HIDE DEF before, first, t, n, Add
<1>7. \E f : IsIter(f)
  <2>1. op \in [S \X KeyIndexes -> KeyIndexes]
    BY <1>6
  <2>2. PICK f : IsLeftFold(f, n, KeyIndexes, first, op)
    <3> HIDE DEF op
    <3> QED
      BY <1>4, <1>5, <2>1, LeftFoldExists
  <2>3. \A s \in SUBSET S : s # {} =>
          op[<<Max(s), f[s \ {Max(s)}]>>] = Add(f[s \ {Max(s)}], t[Max(s)])
    <3> TAKE s \in SUBSET S
    <3> HAVE s # {}
    <3>1. Max(s) \in S
      BY <1>4, HighestIs
    <3>2. f[s \ {Max(s)}] \in KeyIndexes
      BY <2>2 DEF IsLeftFold
    <3> QED
      BY <3>1, <3>2
  <2> HIDE DEF op, S
  <2>4. IsIter(f)
    BY <2>2, <2>3 DEF S, IsLeftFold
  <2> QED
    BY <2>4
<1>8. IsIter(iter)
  <2> HIDE DEF IsIter
  <2> QED
    BY <1>7
<1>9. FoldLeft(Add, first, t) = iter[1 .. n]
  BY <1>4 DEF FoldLeft, MapThenFoldSet
<1> HIDE DEF iter
<1>10. iter[1 .. n] \in KeyIndexes
  <2>1. iter[{}] \in KeyIndexes
    BY <1>5, <1>8
  <2>2. \A s \in SUBSET (1 .. n) :
          s # {} /\ iter[s \ {Max(s)}] \in KeyIndexes => iter[s] \in KeyIndexes
    <3> TAKE s \in SUBSET (1 .. n)
    <3> HAVE s # {} /\ iter[s \ {Max(s)}] \in KeyIndexes
    <3>1. iter[s] = Add(iter[s \ {Max(s)}], t[Max(s)])
      BY <1>8
    <3>2. Max(s) \in S
      BY <1>4, HighestIs
    <3> QED
      BY <1>6, <3>1, <3>2
  <2> QED
    BY <1>4, <2>1, <2>2, LeftFoldIn
<1> QED
  BY <1>2, <1>9, <1>10 DEF KeyAddRecords, before, first, t, Add

(* Records which were not written are forgotten.                            *)
LEMMA RecordsAreForgotten ==
  ASSUME NEW n \in Int
  PROVE  /\ \A k \in KeyIndexes : forget_records(k, n) \in KeyIndexes
         /\ \A p \in ProcessIndexes : forget_records(p, n) \in ProcessIndexes
<1>1. \A t \in Int : Less(t, n) \in Int
  BY DEF Less
<1>2. \A k \in KeyIndexes : forget_records(k, n) \in KeyIndexes
  <2> TAKE k \in KeyIndexes
  <2>1. k.total \in Int
    BY DEF KeyIndexes
  <2> QED
    BY <1>1, <2>1, NewIndexes DEF forget_records
<1>3. \A p \in ProcessIndexes : forget_records(p, n) \in ProcessIndexes
  BY <1>1 DEF forget_records, ProcessIndexes
<1> QED
  BY <1>2, <1>3

(* The seconds of the processes of more records. *)
LEMMA ProcessesAreCounted ==
  ASSUME NEW p \in ProcessIndexes, NEW second \in Seconds, NEW records \in Seq(Recs)
  PROVE  ProcessAddRecords(p, second, records) \in ProcessIndexes
<1> DEFINE met == {r \in Range(records) : second_of(Data[r.id].process) # second}
           pairOf == [r \in met |-> <<Data[r.id].process, second>>]
           more == {pairOf[r] : r \in met}
           kept == p.pairs \union {<<Data[r.id].process, second>> : r \in met}
           over == Cardinality(kept) > PROCESS_MAX_PAIRS
           q == ProcessAddRecords(p, second, records)
<1>1. /\ p.pairs \subseteq Pairs /\ IsFiniteSet(p.pairs) /\ p.total \in Int /\ p.letGo \in BOOLEAN
  BY DEF ProcessIndexes
<1>2. IsFiniteSet(met) /\ \A r \in met : r \in Recs
  <2>1. Range(records) = {records[i] : i \in DOMAIN records}
    BY DEF Range
  <2>2. DOMAIN records = 1 .. Len(records) /\ Len(records) \in Nat
    OBVIOUS
  <2>3. IsFiniteSet(DOMAIN records)
    BY <2>2, FS_Interval
  <2>4. IsFiniteSet(Range(records))
    BY <2>1, <2>3, ImageIsFinite
  <2>5. \A r \in Range(records) : r \in Recs
    BY <2>1
  <2>6. met \in SUBSET Range(records)
    OBVIOUS
  <2> QED
    BY <2>4, <2>5, FS_Subset
<1>3. \A r \in met : pairOf[r] \in Pairs
  <2> TAKE r \in met
  <2>1. r.id \in DOMAIN Data
    BY <1>2 DEF Recs
  <2>2. Data[r.id].process \in Int
    BY <2>1, MetricBlockAssumption
  <2> QED
    BY <2>2 DEF Pairs
<1>4. IsFiniteSet(more) /\ more \subseteq Pairs
  <2> HIDE DEF pairOf, met
  <2> QED
    BY <1>2, <1>3, ImageIsFinite
<1>5. kept = p.pairs \union more
  <2>1. {<<Data[r.id].process, second>> : r \in met} = more
    OBVIOUS
  <2> QED
    BY <2>1
<1> HIDE DEF more, pairOf, met
<1>6. IsFiniteSet(kept) /\ kept \subseteq Pairs
  BY <1>1, <1>4, <1>5, FS_Union
<1>7. q = [pairs |-> IF p.letGo \/ over THEN {} ELSE kept,
           total |-> p.total + Len(records), letGo |-> p.letGo \/ over]
  BY DEF ProcessAddRecords, met
<1> HIDE DEF kept, over, q
<1>8. IsFiniteSet({})
  BY FS_EmptySet
<1>9. q \in ProcessIndexes
  <2> DEFINE pairs == IF p.letGo \/ over THEN {} ELSE kept
  <2>1. pairs \in {s \in SUBSET Pairs : IsFiniteSet(s)}
    BY <1>6, <1>8
  <2>2. p.total + Len(records) \in Int /\ (p.letGo \/ over) \in BOOLEAN
    BY <1>1
  <2> HIDE DEF pairs
  <2>3. q = [pairs |-> pairs, total |-> p.total + Len(records), letGo |-> p.letGo \/ over]
    BY <1>7 DEF pairs
  <2> QED
    BY <2>1, <2>2, <2>3 DEF ProcessIndexes
<1> QED
  BY <1>9 DEF q

(* The file of a process index holds it: the index is read whole from it.   *)
THEOREM ProcessFileIsTheIndex ==
  ASSUME NEW p \in ProcessIndexes
  PROVE  ProcessFromFile(ProcessToFile(p)) = p
<1> DEFINE sorted == InOrder(p.pairs, PairBefore)
<1>1. p \in [pairs : SUBSET Pairs, total : Int, letGo : BOOLEAN] /\ IsFiniteSet(p.pairs)
  BY DEF ProcessIndexes
<1>2. Sorts(sorted, p.pairs, Before2)
  BY <1>1, PairsInOrder
<1> HIDE DEF sorted
<1>3. Range(sorted) = p.pairs
  BY <1>2 DEF Sorts, Range
<1>4. ProcessFromFile(ProcessToFile(p)) = [pairs |-> p.pairs, total |-> p.total, letGo |-> p.letGo]
  BY <1>3 DEF ProcessFromFile, ProcessToFile, sorted
<1> QED
  BY <1>1, <1>4
===============================================================================
