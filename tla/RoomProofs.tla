------------------------------- MODULE RoomProofs -------------------------------
(***************************************************************************)
(* The hour as a whole: whatever is written, flushed, torn, lost and       *)
(* rebuilt in whatever order, the chain of a usable handle is in order,    *)
(* stands in its files, and no write of it is refused for anything but     *)
(* room on the disk.                                                       *)
(***************************************************************************)
EXTENDS ChainProofs

-------------------------------------------------------------------------------
(* A frame of the chain reads whole from a border on.                      *)
LEMMA WholeReads ==
  ASSUME NEW f \in WholeFrames, NEW from, IsBoundary(f, from)
  PROVE  Reads(f, from) = Len(f.entries)
BY WholeFrameIs DEF Reads

LEMMA BorderIsABoundary ==
  ASSUME NEW F \in FrameMaps, NEW c, NEW S, NEW W, IsLaid(F, c, S, W), NEW i \in 1 .. Len(c),
         NEW m \in S[i] .. S[i + 1], NEW f, f = F[c[i]], NEW x, x = BorderOf(S, W, i, m)
  PROVE  IsBoundary(f, x)
<1>1. /\ f \in WholeFrames /\ Len(f.entries) = S[i + 1] - S[i] /\ S[i] \in Nat /\ S[i + 1] \in Nat
      /\ S[i] <= S[i + 1] /\ records_end(f) = BorderOf(S, W, i, S[i + 1])
      /\ x = OffsetOf(f, m - S[i] + 1)
  BY FrameInLaid
<1>2. CASE m = S[i + 1]
  BY <1>1, <1>2 DEF IsBoundary
<1>3. CASE m # S[i + 1]
  <2> DEFINE n == m - S[i] + 1
  <2>1. n \in 1 .. Len(f.entries)
    BY <1>1, <1>3
  <2>2. n \in DOMAIN f.entries /\ OffsetOf(f, n) = x
    BY <1>1, <2>1, WholeFrameIs
  <2> HIDE DEF n
  <2> QED
    BY <2>2 DEF IsBoundary
<1> QED
  BY <1>2, <1>3

(* A walk from a cell which stands in the chain comes to the end of it.    *)
LEMMA StandingReads ==
  ASSUME NEW F \in FrameMaps, NEW c, NEW S, NEW W, IsLaid(F, c, S, W),
         NEW x, NEW m, NEW st, StandsAt(c, S, W, x, m, st)
  PROVE  /\ WalkFrom(F, x).ok /\ WalkFrom(F, x).last = c[Len(c)]
         /\ WalkFrom(F, x).entries \in Seq(FoundAmong(F, {c[j] : j \in 1 .. Len(c)}))
<1>1. PICK i \in 1 .. Len(c) : /\ m \in S[i] .. S[i + 1] /\ x = PlaceOf(c, S, W, i, m)
                               /\ x.frame = c[i] /\ x.offset = BorderOf(S, W, i, m)
  BY StandingIs
<1> DEFINE N == Len(c)
           l == N - i + 1
           p == SubSeq(c, i, N)
           chain == Follow(F, x.frame)
           From(n) == IF n = 1 THEN x.offset ELSE FRAME_HEADER_LEN
           IsWhole(n) == Reads(F[chain[n]], From(n)) = Len(F[chain[n]].entries)
           n == Cardinality({j \in DOMAIN chain : \A k \in 1 .. j - 1 : IsWhole(k)})
           X == FoundAmong(F, {c[j] : j \in 1 .. N})
           walk == WalkFrom(F, x)
<1>2. /\ chain = p /\ Len(p) = l /\ DOMAIN p = 1 .. l /\ \A j \in 1 .. l : p[j] = c[i + j - 1]
  <2> DEFINE q == SubSeq(c, i, Len(c))
  <2>1. q = SubSeq(c, i, Len(c))
    OBVIOUS
  <2> HIDE DEF q
  <2>2. FollowedFrom(F, c, i, q)
    BY <1>1, <2>1, FollowLaid
  <2> QED
    BY <1>1, <2>1, <2>2 DEF FollowedFrom
<1>3. N \in Nat /\ i \in 1 .. N /\ l \in Nat /\ l >= 1 /\ \A j \in 1 .. l : i + j - 1 \in 1 .. N
  BY LaidIs
<1> HIDE DEF p, l, N, chain
<1>4. \A j \in 1 .. l : IsWhole(j)
  <2> TAKE j \in 1 .. l
  <2> DEFINE a == i + j - 1
             f == F[c[a]]
  <2>1. a \in 1 .. Len(c) /\ chain[j] = c[a]
    BY <1>2, <1>3 DEF N
  <2>2. f \in WholeFrames
    BY <2>1, FrameInLaid
  <2>3. CASE j = 1
    <3>1. a = i /\ From(j) = BorderOf(S, W, i, m)
      BY <1>1, <1>3, <2>3
    <3> DEFINE b == From(j)
               g == F[c[i]]
    <3>2. b = BorderOf(S, W, i, m) /\ f = g
      BY <3>1
    <3> HIDE DEF a, From, b
    <3>3. IsBoundary(g, b)
      BY <1>1, <3>2, BorderIsABoundary
    <3> HIDE DEF f, g
    <3>4. Reads(f, b) = Len(f.entries)
      BY <2>2, <3>2, <3>3, WholeReads
    <3> QED
      BY <2>1, <3>4 DEF b, f
  <2>4. CASE j # 1
    <3>1. From(j) = FRAME_HEADER_LEN
      BY <2>4
    <3> HIDE DEF From, a
    <3>2. IsBoundary(f, FRAME_HEADER_LEN)
      <4> HIDE DEF f
      <4> QED
        BY <2>2, WholeFrameIs, StartIsABoundary
    <3>3. Reads(f, FRAME_HEADER_LEN) = Len(f.entries)
      BY <2>2, <3>2, WholeReads
    <3> QED
      BY <2>1, <3>1, <3>3
  <2> QED
    BY <2>3, <2>4
<1>5. n = l
  <2>1. {j \in DOMAIN chain : \A k \in 1 .. j - 1 : IsWhole(k)} = 1 .. l
    <3> HIDE DEF IsWhole
    <3> QED
      BY <1>2, <1>3, <1>4
  <2>2. Cardinality(1 .. l) = l
    BY <1>3, FS_Interval
  <2> QED
    BY <2>1, <2>2
<1>6. chain[l] = c[N] /\ chain # <<>> /\ l \in 1 .. l
  <2>1. l \in 1 .. l /\ i + l - 1 = N
    BY <1>3 DEF l
  <2> QED
    BY <1>2, <2>1
<1>7. F[c[N]].next = NoFrame
  <2>1. N \in 1 .. N
    BY <1>3
  <2>2. F[c[N]].next = NextIn(c, N)
    BY <2>1 DEF IsLaid, N
  <2> QED
    BY <2>2 DEF NextIn, N
<1>8. walk.last = chain[n] /\ walk.ok = (IsWhole(n) /\ F[chain[n]].next = NoFrame)
  BY <1>6 DEF WalkFrom, chain
<1> HIDE DEF n, walk
<1>9. walk.ok /\ walk.last = c[N]
  <2>1. IsWhole(n)
    <3> HIDE DEF IsWhole
    <3> QED
      BY <1>4, <1>5, <1>6
  <2> QED
    BY <1>5, <1>6, <1>7, <1>8, <2>1
<1>10. walk.entries \in Seq(X)
  <2>1. x.offset \in Int /\ x.frame \in DOMAIN F
    BY StandingIs
  <2>2. Walked(F, x, walk)
    BY <2>1, WalkIs DEF walk
  <2>3. PICK q \in 1 .. Len(chain) : EndsIn(F, chain, walk, q)
    BY <2>1, <2>2 DEF Walked, chain
  <2> DEFINE Y == FoundAmong(F, {chain[j] : j \in 1 .. q})
             V == FoundAmong(F, {c[j] : j \in 1 .. N})
  <2>4. walk.entries \in Seq(Y)
    BY <2>3 DEF EndsIn
  <2>5. \A j \in 1 .. q : chain[j] = c[i + j - 1] /\ i + j - 1 \in 1 .. N
    BY <1>2, <1>3, <2>3
  <2>6. Y \subseteq V
    BY <2>5 DEF FoundAmong
  <2> HIDE DEF Y, V
  <2>7. walk.entries \in Seq(V)
    BY <2>4, <2>6, SeqOfMore
  <2> QED
    BY <2>7 DEF V
<1> QED
  BY <1>9, <1>10 DEF walk, N

(* What a walk found in the chain stands in it, with an entry behind it.   *)
LEMMA FoundStands ==
  ASSUME NEW F \in FrameMaps, NEW c, NEW S, NEW W, IsLaid(F, c, S, W),
         NEW last \in FoundAmong(F, {c[j] : j \in 1 .. Len(c)})
  PROVE  \E i \in 1 .. Len(c) : \E k \in S[i] .. S[i + 1] - 1 :
           /\ last.frame = c[i] /\ last.offset = BorderOf(S, W, i, k) /\ last.entry = W[k + 1]
           /\ last.offset = OffsetOf(F[c[i]], k - S[i] + 1) /\ k \in 0 .. Len(W) - 1 /\ k \in Nat
<1>1. PICK i \in 1 .. Len(c) : last.frame = c[i]
  BY DEF FoundAmong
<1> DEFINE f == F[c[i]]
<1>2. PICK j \in 1 .. Len(f.entries) : last.offset = OffsetOf(f, j) /\ last.entry = f.entries[j]
  BY <1>1 DEF FoundAmong, FoundIn
<1>3. /\ Len(f.entries) = S[i + 1] - S[i] /\ S[i] \in Nat /\ S[i + 1] \in Nat /\ S[i] <= S[i + 1]
      /\ \A m \in S[i] .. S[i + 1] : BorderOf(S, W, i, m) = OffsetOf(f, m - S[i] + 1)
      /\ IsPart(f.entries, W, S[i], S[i + 1])
  BY FrameInLaid
<1>4. S[i + 1] <= Len(W) /\ Len(W) \in Nat
  BY LaidIs
<1> DEFINE k == S[i] + j - 1
<1>5. k \in S[i] .. S[i + 1] - 1 /\ k \in S[i] .. S[i + 1] /\ k - S[i] + 1 = j /\ k \in Nat
      /\ k \in 0 .. Len(W) - 1 /\ k + 1 = S[i] + j
  <2> DEFINE a == S[i]
             b == S[i + 1]
             w == Len(W)
  <2>1. j \in 1 .. b - a /\ a \in Nat /\ b \in Nat /\ b <= w /\ w \in Nat /\ k = a + j - 1
    BY <1>2, <1>3, <1>4
  <2> HIDE DEF a, b, w, k
  <2>2. k \in a .. b - 1 /\ k \in a .. b /\ k - a + 1 = j /\ k \in Nat /\ k \in 0 .. w - 1 /\ k + 1 = a + j
    BY <2>1
  <2> QED
    BY <2>2 DEF a, b, w
<1> HIDE DEF k, f
<1>6. last.offset = BorderOf(S, W, i, k)
  BY <1>2, <1>3, <1>5
<1>7. last.entry = W[k + 1]
  BY <1>2, <1>3, <1>5 DEF IsPart
<1>8. last.offset = OffsetOf(f, k - S[i] + 1)
  BY <1>2, <1>5
<1> QED
  BY <1>1, <1>5, <1>6, <1>7, <1>8 DEF f

-------------------------------------------------------------------------------
(* An hour in memory as it should be: its chain is laid out over its       *)
(* frames, every cell stands in it, and it starts with the head, or a      *)
(* second has a cell; an hour without a chain has no frame.                *)
Standing(cells, c, S, W) ==
  \A s \in Seconds : cells[s] = NoCell \/ \E m : StandsAt(c, S, W, cells[s], m, FALSE)
FromHead(cells, c) == c # <<>> => c[1] = HEAD \/ \E s \in Seconds : cells[s] # NoCell
NoneWithout(F, c) == c = <<>> => DOMAIN F = {}
HourRight(h, d, c, S, W) ==
  /\ MemoryRight(h, d, c, S, W) /\ Standing(h.cells, c, S, W) /\ FromHead(h.cells, c)
  /\ NoneWithout(FramesOf(h, d), c)
HourIsRight(h, d) == \E c, S, W : HourRight(h, d, c, S, W)
NoRoom(h) == h.failure = "no room"
IsClean(d) == d.index # <<>> /\ d.index[1].clean
(* A chain which is marked as changed in memory is so in the index file.   *)
Marks(h, d) == h.clean \/ ~IsClean(d)
IsWritten(h) == (NotFailed(h) /\ HourIsRight(h, disk) /\ Marks(h, disk)) \/ NoRoom(h)

LEMMA StandsLoosely ==
  ASSUME NEW c, NEW S, NEW W, NEW x, NEW m, NEW st, StandsAt(c, S, W, x, m, st)
  PROVE  StandsAt(c, S, W, x, m, FALSE)
BY DEF StandsAt

LEMMA AllPutIsRight ==
  ASSUME disk.frames \in FrameMaps, NEW h, NEW c, NEW S, NEW W, HourRight(h, disk, c, S, W),
         NEW k, NEW blocks \in Seq(Blocks), Len(blocks) # 0, NEW second \in Seconds,
         NEW isFirst \in BOOLEAN, isFirst \/ c # <<>>, NEW g,
         AllPut(h, c, S, W, k, blocks, second, isFirst, g)
  PROVE  HourIsRight(g, disk) /\ Beside(g) = Beside(h)
<1> DEFINE n == Len(blocks)
           new == NewSecond(second, isFirst, n)
<1>1. PICK done : done.h = g /\ BlocksAt(h, c, S, W, k, blocks, n, second, isFirst, done)
  BY DEF AllPut
<1>2. PICK b, T, V : ChainBlocksAt(h, c, S, W, k, blocks, n, second, isFirst, done, b, T, V)
  BY <1>1 DEF BlocksAt
<1>3. /\ MemoryRight(g, disk, b, T, V)
      /\ CellsPushedBy(h.cells, g.cells, c, S, W, k, n, new, b, T, V)
      /\ c # <<>> => b # <<>> /\ b[1] = c[1]
  BY <1>1, <1>2 DEF ChainBlocksAt
<1>4. Beside(g) = Beside(h)
  BY <1>1 DEF BlocksAt
<1>5. new = (IF isFirst THEN {second} ELSE {}) /\ new \subseteq Seconds
  <2>1. n > 0
    OBVIOUS
  <2> QED
    BY <2>1 DEF NewSecond
<1> HIDE DEF new, n
<1>6. /\ \A s \in Seconds \ new :
           /\ h.cells[s] = NoCell => g.cells[s] = NoCell
           /\ \A m, st : StandsAt(c, S, W, h.cells[s], m, st) =>
                \E q : StandsAt(b, T, V, g.cells[s], q, st) /\ PushedBy(m, k, st, n, q)
      /\ \A s \in new : StandsAt(b, T, V, g.cells[s], k, TRUE)
  BY <1>3 DEF CellsPushedBy
<1>7. Standing(g.cells, b, T, V)
  <2>1. ASSUME NEW s \in Seconds
        PROVE  g.cells[s] = NoCell \/ \E m : StandsAt(b, T, V, g.cells[s], m, FALSE)
    <3>1. CASE s \in new
      BY <1>6, <3>1, StandsLoosely
    <3>2. CASE s \notin new
      <4>1. h.cells[s] = NoCell \/ \E m : StandsAt(c, S, W, h.cells[s], m, FALSE)
        BY DEF HourRight, Standing
      <4> QED
        BY <1>6, <3>2, <4>1
    <3> QED
      BY <3>1, <3>2
  <2> QED
    BY <2>1 DEF Standing
<1>8. FromHead(g.cells, b)
  <2>0. IsLaid(FramesOf(g, disk), b, T, V) /\ FramesOf(g, disk) \in FrameMaps
        /\ IsLaid(FramesOf(h, disk), c, S, W) /\ FramesOf(h, disk) \in FrameMaps
    BY <1>3, MemoryIs DEF HourRight
  <2>1. CASE isFirst
    <3>1. StandsAt(b, T, V, g.cells[second], k, TRUE)
      BY <1>5, <1>6, <2>1
    <3>2. g.cells[second] # NoCell
      BY <2>0, <3>1, StandingIs
    <3> QED
      BY <3>2 DEF FromHead
  <2>2. CASE ~isFirst
    <3>1. c # <<>> /\ b[1] = c[1] /\ new = {}
      BY <1>3, <1>5, <2>2
    <3>2. CASE c[1] = HEAD
      BY <3>1, <3>2 DEF FromHead
    <3>3. CASE c[1] # HEAD
      <4>1. PICK s \in Seconds : h.cells[s] # NoCell
        BY <3>1, <3>3 DEF HourRight, FromHead
      <4>2. PICK m : StandsAt(c, S, W, h.cells[s], m, FALSE)
        BY <4>1 DEF HourRight, Standing
      <4>3. PICK q : StandsAt(b, T, V, g.cells[s], q, FALSE)
        BY <1>6, <3>1, <4>2
      <4>4. g.cells[s] # NoCell
        BY <2>0, <4>3, StandingIs
      <4> QED
        BY <4>4 DEF FromHead
    <3> QED
      BY <3>2, <3>3
  <2> QED
    BY <2>1, <2>2
<1>9. NoneWithout(FramesOf(g, disk), b)
  <2>1. n > 0 /\ b # <<>>
    BY <1>2 DEF ChainBlocksAt, n
  <2> QED
    BY <2>1 DEF NoneWithout
<1> QED
  BY <1>3, <1>4, <1>7, <1>8, <1>9 DEF HourIsRight, HourRight

LEMMA NoBlocksToPut ==
  ASSUME disk.frames \in FrameMaps, NEW h \in Slots, NEW second \in Seconds, NEW place \in Places,
         NEW isFirst, NEW blocks \in Seq(Blocks), Len(blocks) = 0
  PROVE  InsertBlocks(h, second, place, isFirst, blocks) = h
<1>1. PICK f : OneByOne(f, h, second, place, isFirst, blocks)
  BY BlocksOneByOne
<1> QED
  BY <1>1 DEF OneByOne

(* What is beside the frames does not move them.                           *)
SameFrames(g, h) ==
  g.frames = h.frames /\ g.dirty = h.dirty /\ g.files = h.files /\ g.cells = h.cells /\ g.tail = h.tail
LEMMA RightWith ==
  ASSUME disk.frames \in FrameMaps, NEW h, NEW c, NEW S, NEW W, HourRight(h, disk, c, S, W),
         NEW g \in Slots, SameFrames(g, h)
  PROVE  HourRight(g, disk, c, S, W) /\ FramesOf(g, disk) = FramesOf(h, disk)
<1>1. MemoryFits(h, disk)
  BY DEF HourRight, MemoryRight
<1>2. MemoryFits(g, disk) /\ FramesOf(g, disk) = FramesOf(h, disk)
  BY <1>1, FitsWith DEF SameFrames
<1> QED
  BY <1>2 DEF HourRight, MemoryRight, SameFrames

LEMMA CountedFrames ==
  ASSUME NEW h \in Slots, NEW second \in Seconds, NEW removed \in Int, NEW came \in Int,
         NEW written \in Int, NEW g, g = Counted(h, second, removed, came, written)
  PROVE  g \in Slots /\ SameFrames(g, h) /\ g.failure = h.failure /\ g.clean = h.clean
<1>1. g \in Slots
  BY BlocksAreCounted
<1> DEFINE lost == Less(removed + came, written)
           counts == [h.counts EXCEPT ![second] = @ - removed + written]
           key == forget_records(h.key, lost)
           process == forget_records(h.process, lost)
           last == IF h.last < second THEN second ELSE h.last
<1>2. g = [h EXCEPT !.counts = counts, !.key = key, !.process = process, !.last = last]
  BY DEF Counted
<1> HIDE DEF counts, key, process, last
<1>3. SameFrames(g, h) /\ g.failure = h.failure /\ g.clean = h.clean
  BY <1>2 DEF Slots, SlotRecords, SameFrames
<1> QED
  BY <1>1, <1>3

-------------------------------------------------------------------------------
(* The last block of a second is taken out of its frame: what is behind it *)
(* moves down, and a new block may be put where it was.                    *)
CellsPulled(x, y, c, S, W, k, T, V) ==
  \A s \in Seconds :
    /\ x[s] = NoCell => y[s] = NoCell
    /\ \A m, st : StandsAt(c, S, W, x[s], m, st) =>
         \E n : StandsAt(c, T, V, y[s], n, st /\ m # k) /\ PulledBack(m, k, n)
TakenFrom(h, c, S, W, i, k, at, g) ==
  /\ MemoryRight(g, disk, c, OneLessFrom(S, i), TakenOut(W, k))
  /\ g.files = h.files /\ Beside(g) = Beside(h)
  /\ StandsAt(c, OneLessFrom(S, i), TakenOut(W, k), at, k, FALSE)
  /\ CellsPulled(h.cells, g.cells, c, S, W, k, OneLessFrom(S, i), TakenOut(W, k))

LEMMA TakeOut ==
  ASSUME disk.frames \in FrameMaps, NEW h, NEW c, NEW S, NEW W, MemoryRight(h, disk, c, S, W),
         NEW i \in 1 .. Len(c), NEW k \in S[i] .. S[i + 1] - 1,
         NEW at, at = PlaceOf(c, S, W, i, k), NEW g, g = remove_entry(h, at)
  PROVE  TakenFrom(h, c, S, W, i, k, at, g)
<1> DEFINE F == FramesOf(h, disk)
           f == F[c[i]]
           j == k - S[i] + 1
           o == BorderOf(S, W, i, k)
           len == W[k + 1].len
           by == 0 - len
           cells == Shift(h.cells, c[i], o + 1, Past, by)
           moved == [h EXCEPT !.cells = cells]
           less == remove(f, o)
           T == OneLessFrom(S, i)
           V == TakenOut(W, k)
           G == FramesOf(g, disk)
<1>1. /\ h \in Slots /\ MemoryFits(h, disk) /\ F \in FrameMaps /\ IsLaid(F, c, S, W)
      /\ W \in Seq(Entries) /\ Len(W) \in Nat
      /\ \A n \in DOMAIN F : n \in Nat /\ InFiles(h.files, n)
      /\ h.cells \in Cells /\ h.tail = IF c = <<>> THEN NoFrame ELSE c[Len(c)]
  BY MemoryIs DEF MemoryRight
<1>2. /\ c[i] \in DOMAIN F /\ c[i] \in Nat /\ f \in WholeFrames
      /\ Len(f.entries) = S[i + 1] - S[i] /\ S[i] \in Nat /\ S[i + 1] \in Nat /\ S[i] <= S[i + 1]
      /\ \A m \in S[i] .. S[i + 1] : BorderOf(S, W, i, m) = OffsetOf(f, m - S[i] + 1)
      /\ IsPart(f.entries, W, S[i], S[i + 1])
  <2> HIDE DEF F
  <2> QED
    BY <1>1, FrameInLaid
<1>3. S[i + 1] <= Len(W)
  <2> HIDE DEF F
  <2> QED
    BY <1>1, LaidIs
<1>4. /\ j \in 1 .. Len(f.entries) /\ k \in S[i] .. S[i + 1] /\ k \in Nat /\ j - 1 = k - S[i]
      /\ S[i] + j = k + 1 /\ k \in 0 .. Len(W) - 1 /\ k + 1 \in 1 .. Len(W) /\ S[i] <= k /\ k <= S[i + 1] - 1
  <2> DEFINE a == S[i]
             b == S[i + 1]
             w == Len(W)
  <2>1. /\ k \in a .. b - 1 /\ a \in Nat /\ b \in Nat /\ b <= w /\ w \in Nat /\ Len(f.entries) = b - a
        /\ j = k - a + 1
    BY <1>1, <1>2, <1>3
  <2> HIDE DEF a, b, w, j, f
  <2>2. j \in 1 .. b - a /\ k \in a .. b /\ k \in Nat /\ j - 1 = k - a
        /\ a + j = k + 1 /\ k \in 0 .. w - 1 /\ k + 1 \in 1 .. w /\ a <= k /\ k <= b - 1
    BY <2>1
  <2> QED
    BY <2>1, <2>2 DEF a, b, w
<1> HIDE DEF F, j
<1>5. o = OffsetOf(f, j) /\ o \in Int
  <2>1. o = OffsetOf(f, j)
    BY <1>2, <1>4 DEF j
  <2>2. o \in Int
    BY <1>1, <1>4, BordersOfLaid
  <2> QED
    BY <2>1, <2>2
<1>6. f.entries[j] = W[k + 1] /\ len \in Nat /\ f \in FrameSet /\ f \in Loose
  <2>1. f.entries[j] = W[S[i] + j]
    BY <1>2, <1>4 DEF IsPart
  <2>2. W[k + 1] \in Entries
    BY <1>1, <1>4
  <2>3. len \in Nat
    BY <2>2 DEF Entries
  <2> QED
    BY <1>2, <1>4, <2>1, <2>3, WholeFrameIs
<1>7. /\ less = [f EXCEPT !.entries = TakenOut(f.entries, k - S[i])]
      /\ Before(f, o) + 1 = j
  <2> DEFINE q == f
  <2>1. q \in Loose /\ j \in 1 .. Len(q.entries) /\ o = OffsetOf(q, j)
    BY <1>4, <1>5, <1>6
  <2> HIDE DEF q, o
  <2>2. remove(q, o) = [q EXCEPT !.entries = TakenOut(q.entries, j - 1)]
    BY <2>1, TakenFromBorder
  <2>3. Before(q, o) = j - 1 /\ j - 1 + 1 = j
    <3>1. 0 \in Int
      OBVIOUS
    <3>2. \A n \in 1 .. Len(q.entries) : Before(q, OffsetOf(q, n)) = n - 1
      BY <2>1, <3>1, BeforeIs
    <3>3. j \in Int
      BY <2>1
    <3> QED
      BY <2>1, <3>2, <3>3
  <2> QED
    BY <1>4, <2>2, <2>3 DEF q
<1>8. at.frame = c[i] /\ at.offset = o
  BY DEF PlaceOf
<1>9. g = mark_dirty(moved, c[i], less)
  <2>1. f.entries[Before(f, o) + 1].len = len
    BY <1>6, <1>7
  <2>2. -len = by
    BY <1>6
  <2>3. g = mark_dirty([h EXCEPT !.cells = Shift(@, at.frame, at.offset + 1, Past,
                                                 -(FramesOf(h, disk)[at.frame].entries[Before(FramesOf(h, disk)[at.frame], at.offset) + 1].len))],
                       at.frame, remove(FramesOf(h, disk)[at.frame], at.offset))
    BY DEF remove_entry
  <2> HIDE DEF len, by, o
  <2> QED
    BY <1>8, <2>1, <2>2, <2>3 DEF F
<1>10. less \in FrameSet /\ less.next = f.next /\ less.entries = TakenOut(f.entries, k - S[i])
  <2> DEFINE q == f
             x == TakenOut(q.entries, k - S[i])
  <2>1. q \in Loose /\ used(q) <= FRAME_CAPACITY /\ used(q) \in Nat
    BY <1>2, <1>6, WholeFrameIs
  <2>2. less = remove(q, o) /\ less = [q EXCEPT !.entries = x]
    BY <1>7
  <2> HIDE DEF q, o, less, x
  <2>3. less \in Loose /\ used(less) <= used(q)
    BY <1>5, <2>1, <2>2, RemovedIs
  <2>4. used(less) \in Nat
    BY <2>3, UsedIs
  <2>5. less \in FrameSet
    BY <2>1, <2>3, <2>4, FrameAssumption DEF FrameSet
  <2>6. less.next = q.next /\ less.entries = x
    BY <2>1, <2>2 DEF Loose
  <2> QED
    BY <2>5, <2>6 DEF q, x
<1> HIDE DEF less, by
<1>11. cells \in Cells
  <2> DEFINE from == o + 1
  <2>1. from \in Int /\ by \in Int /\ h.cells \in Cells
    BY <1>1, <1>5, <1>6 DEF by
  <2> HIDE DEF from, o
  <2>2. Shift(h.cells, c[i], from, Past, by) \in Cells
    BY <2>1, ShiftedIs
  <2> QED
    BY <2>2 DEF from
<1>12. /\ MemoryFits(moved, disk) /\ FramesOf(moved, disk) = F /\ moved.cells = cells
       /\ moved.files = h.files /\ moved.tail = h.tail /\ Beside(moved) = Beside(h)
  <2> HIDE DEF cells
  <2> DEFINE q == moved
  <2>1. q = [h EXCEPT !.cells = cells]
    OBVIOUS
  <2> HIDE DEF q
  <2>2. MemoryRight(q, disk, c, S, W) /\ q.cells = cells /\ q.files = h.files /\ Beside(q) = Beside(h)
        /\ q.frames = h.frames /\ q.dirty = h.dirty /\ q.tail = h.tail
    BY <1>11, <2>1, OtherCells
  <2>3. q \in Slots /\ MemoryFits(q, disk)
    BY <2>2, MemoryIs
  <2>4. FramesOf(q, disk) = FramesOf(h, disk)
    BY <1>1, <2>2, <2>3, FitsWith
  <2> QED
    BY <2>2, <2>3, <2>4 DEF q, F
<1> HIDE DEF moved
<1>13. /\ MemoryFits(g, disk) /\ G = Updated(F, c[i], less)
       /\ g.files = h.files /\ g.cells = cells /\ g.tail = h.tail /\ Beside(g) = Beside(h)
  <2>1. InFiles(moved.files, c[i])
    BY <1>1, <1>2, <1>12
  <2> DEFINE q == mark_dirty(moved, c[i], less)
  <2>2. /\ MemoryFits(q, disk) /\ FramesOf(q, disk) = Updated(FramesOf(moved, disk), c[i], less)
        /\ q.files = moved.files /\ q.cells = moved.cells /\ q.tail = moved.tail /\ Beside(q) = Beside(moved)
    BY <1>2, <1>10, <1>12, <2>1, MarkedFits
  <2> HIDE DEF q, cells
  <2>3. g = q
    BY <1>9 DEF q
  <2> QED
    BY <1>12, <2>2, <2>3
<1>14. /\ Others(F, G, {c[i]}) /\ G[c[i]].next = f.next
       /\ G[c[i]].entries = TakenOut(f.entries, k - S[i])
  BY <1>2, <1>10, <1>13 DEF Updated, Others
<1> HIDE DEF G
<1>15. TakenWith(G, c, S, W, i, k)
  BY <1>1, <1>4, <1>14, TakeFromLaid
<1>16. /\ IsLaid(G, c, T, V) /\ T[i] = S[i] /\ T[i + 1] = S[i + 1] - 1
       /\ PlaceOf(c, T, V, i, k) = PlaceOf(c, S, W, i, k)
       /\ \A x, m, st : StandsAt(c, S, W, x, m, st) =>
            \E n : /\ StandsAt(c, T, V, MovedCell(x, c[i], o + 1, by), n, st /\ m # k)
                   /\ PulledBack(m, k, n)
  BY <1>15 DEF TakenWith, by, len
<1> HIDE DEF T, V, o
<1>17. StandsAt(c, T, V, at, k, FALSE)
  BY <1>4, <1>16 DEF StandsAt
<1>18. CellsPulled(h.cells, g.cells, c, S, W, k, T, V)
  <2> SUFFICES ASSUME NEW s \in Seconds
               PROVE  /\ h.cells[s] = NoCell => g.cells[s] = NoCell
                      /\ \A m, st : StandsAt(c, S, W, h.cells[s], m, st) =>
                           \E n : StandsAt(c, T, V, g.cells[s], n, st /\ m # k) /\ PulledBack(m, k, n)
    BY DEF CellsPulled
  <2> DEFINE x == h.cells
             from == o + 1
             y == c[i]
  <2>1. x \in Cells /\ y \in Nat /\ IsLaid(F, c, S, W) /\ F \in FrameMaps
    BY <1>1, <1>2
  <2>2. g.cells = Shift(x, y, from, Past, by)
    BY <1>13
  <2> HIDE DEF x, from, y, cells
  <2>3. x[s] = NoCell => g.cells[s] = NoCell
    BY <2>1, <2>2, ShiftMoves
  <2>4. ASSUME NEW m, NEW st, StandsAt(c, S, W, x[s], m, st)
        PROVE  \E n : StandsAt(c, T, V, g.cells[s], n, st /\ m # k) /\ PulledBack(m, k, n)
    <3>1. g.cells[s] = MovedCell(x[s], y, from, by)
      BY <2>1, <2>2, <2>4, ShiftMoves
    <3> QED
      BY <1>16, <2>4, <3>1 DEF y, from
  <2> QED
    BY <2>3, <2>4 DEF x
<1>19. MemoryRight(g, disk, c, T, V)
  BY <1>1, <1>13, <1>16 DEF MemoryRight, G
<1> QED
  BY <1>13, <1>17, <1>18, <1>19 DEF TakenFrom, T, V

-------------------------------------------------------------------------------
(* Blocks which find room leave the hour as it should be; blocks which do  *)
(* not are refused before anything changes.                                *)
LEMMA RecordsAreInt ==
  ASSUME NEW blocks \in Seq(Blocks)
  PROVE  RecordsIn(blocks) \in Int
<1> DEFINE D == DOMAIN blocks
           lens == [i \in D |-> Len(blocks[i].records)]
<1>1. D = 1 .. Len(blocks) /\ Len(blocks) \in Nat /\ \A i \in D : blocks[i] \in Blocks
  OBVIOUS
<1>2. \A i \in D : lens[i] \in Nat
  BY <1>1 DEF Blocks, Entries
<1>3. DOMAIN lens = D
  OBVIOUS
<1>4. IsFiniteSet(D)
  BY <1>1, FS_Interval
<1>5. RecordsIn(blocks) = SumFunctionOnSet(lens, D)
  BY <1>3 DEF RecordsIn, SumFunction
<1> HIDE DEF lens, D
<1>6. SumFunctionOnSet(lens, D) \in Nat
  BY <1>2, <1>4, SumIsNat
<1> QED
  BY <1>5, <1>6

LEMMA PutBlocksIsRight ==
  ASSUME disk.frames \in FrameMaps, NEW h, NEW c, NEW S, NEW W, HourRight(h, disk, c, S, W),
         NEW k, NEW place \in Places, Aims(c, S, W, place, k), NEW blocks \in Seq(Blocks),
         NEW second \in Seconds, NEW isFirst \in BOOLEAN, isFirst \/ c # <<>>, NotFailed(h),
         Marks(h, disk),
         NEW removed \in Int, NEW came \in Int,
         NEW r, r = PutBlocks(h, second, place, isFirst, blocks, removed, came)
  PROVE  IsWritten(r)
<1> DEFINE n == Len(blocks)
           g == InsertBlocks(h, second, place, isFirst, blocks)
           room == room_for_frames(h)
           written == RecordsIn(blocks)
<1>1. /\ MemoryRight(h, disk, c, S, W) /\ h \in Slots /\ room \in Nat /\ n \in Nat
  BY MemoryIs DEF HourRight
<1>2. CASE room < 2 * n
  <2>1. r = [h EXCEPT !.failure = "no room"]
    BY <1>2 DEF PutBlocks
  <2>2. r.failure = "no room"
    BY <1>1, <2>1 DEF Slots, SlotRecords
  <2> QED
    BY <2>2 DEF IsWritten, NoRoom
<1>3. CASE ~(room < 2 * n)
  <2>1. r = Counted(g, second, removed, came, written)
    BY <1>3 DEF PutBlocks
  <2>2. room >= n
    <3> HIDE DEF room, n
    <3> QED
      BY <1>1, <1>3
  <2>3. HourIsRight(g, disk) /\ Beside(g) = Beside(h) /\ g \in Slots
    <3>1. CASE n = 0
      <4>1. g = h
        <5>1. blocks = <<>>
          BY <3>1
        <5> QED
          BY <1>1, <5>1, NoBlocksToPut
      <4> HIDE DEF g
      <4> QED
        BY <1>1, <4>1 DEF HourIsRight
    <3>2. CASE n # 0
      <4> DEFINE q == g
      <4>1. q = InsertBlocks(h, second, place, isFirst, blocks) /\ q \in Slots
        BY <1>1, BlocksAreInserted
      <4> HIDE DEF q
      <4>2. AllPut(h, c, S, W, k, blocks, second, isFirst, q)
        BY <1>1, <2>2, <4>1, BlocksAllPut
      <4>3. HourIsRight(q, disk) /\ Beside(q) = Beside(h)
        BY <3>2, <4>2, AllPutIsRight
      <4> QED
        BY <4>1, <4>3 DEF q
    <3> QED
      BY <3>1, <3>2
  <2>4. written \in Int
    BY RecordsAreInt
  <2> HIDE DEF g, written
  <2>5. r \in Slots /\ SameFrames(r, g) /\ r.failure = g.failure /\ r.clean = g.clean
    BY <2>1, <2>3, <2>4, CountedFrames
  <2>6. HourIsRight(r, disk)
    BY <2>3, <2>5, RightWith DEF HourIsRight
  <2>7. NotFailed(r)
    <3>1. Beside(g).failure = g.failure /\ Beside(h).failure = h.failure
      BY DEF Beside
    <3>2. r.failure = h.failure
      BY <2>3, <2>5, <3>1
    <3> QED
      BY <3>2 DEF NotFailed
  <2>8. Marks(r, disk)
    <3>1. Beside(g).clean = g.clean /\ Beside(h).clean = h.clean
      BY DEF Beside
    <3>2. r.clean = h.clean
      BY <2>3, <2>5, <3>1
    <3> QED
      BY <3>2 DEF Marks
  <2> QED
    BY <2>6, <2>7, <2>8 DEF IsWritten
<1> QED
  BY <1>2, <1>3

(* What is read of a second whose cell stands in the chain.                *)
LEMMA LastEntryStands ==
  ASSUME disk.frames \in FrameMaps, NEW h, NEW c, NEW S, NEW W, HourRight(h, disk, c, S, W),
         NEW second \in Seconds, h.cells[second] # NoCell,
         NEW walk, walk = LastEntry(h, second), NEW F, F = FramesOf(h, disk)
  PROVE  walk.ok /\ walk.entries \in Seq(FoundAmong(F, {c[j] : j \in 1 .. Len(c)}))
<1> DEFINE X == FoundAmong(F, {c[j] : j \in 1 .. Len(c)})
           x == h.cells[second]
           all == WalkFrom(F, x)
<1>1. F \in FrameMaps /\ IsLaid(F, c, S, W)
  BY MemoryIs DEF HourRight
<1>2. PICK m : StandsAt(c, S, W, x, m, FALSE)
  BY DEF HourRight, Standing
<1> HIDE DEF x
<1>3. all.ok /\ all.entries \in Seq(X)
  BY <1>1, <1>2, StandingReads
<1>4. all \in [entries : Seq(FoundIn(F)), last : Int, ok : BOOLEAN]
  <2>1. x.offset \in Int
    BY <1>1, <1>2, StandingIs
  <2>2. Walked(F, x, WalkFrom(F, x))
    BY <1>1, <2>1, WalkIs
  <2> QED
    BY <2>2 DEF Walked
<1> HIDE DEF all, X
<1>5. all \in [entries : Seq(X), last : Int, ok : BOOLEAN]
  BY <1>3, <1>4
<1>6. walk = UpTo(all, second)
  BY DEF LastEntry, all, x
<1>7. second \in Int
  BY DEF Seconds
<1>8. UpTo(all, second) \in [entries : Seq(X), last : Int, ok : BOOLEAN]
  BY <1>5, <1>7, PartOfAWalk
<1>9. UpTo(all, second).ok
  <2> DEFINE end == (second + 1) * MICROS_PER_SECOND
             later == {i \in DOMAIN all.entries : all.entries[i].entry.time >= end}
             part == SubSeq(all.entries, 1, Min(later) - 1)
  <2>1. UpTo(all, second) = IF later = {} THEN all ELSE [all EXCEPT !.entries = part, !.ok = TRUE]
    BY DEF UpTo
  <2> HIDE DEF later, part
  <2> QED
    BY <1>3, <1>5, <2>1
<1> QED
  BY <1>6, <1>8, <1>9 DEF X

(* A new second goes before the next one which has entries, or to the end. *)
LEMMA NewSecondAims ==
  ASSUME disk.frames \in FrameMaps, NEW h, NEW c, NEW S, NEW W, HourRight(h, disk, c, S, W),
         NEW second \in Seconds, NEW place, place = place_for_new_second(h, second)
  PROVE  /\ \E k : Aims(c, S, W, place, k)
         /\ place \in Places
         /\ place # NoCell => place.frame \in DOMAIN FramesOf(h, disk)
<1> DEFINE later == first_from(h.cells, second + 1)
           F == FramesOf(h, disk)
           N == Len(c)
           t == h.tail
           AtEnd == [frame |-> t, offset |-> records_end(F[t])]
           before == h.last > second /\ later # NoSecond
<1>1. /\ h \in Slots /\ F \in FrameMaps /\ IsLaid(F, c, S, W)
      /\ h.tail = IF c = <<>> THEN NoFrame ELSE c[Len(c)]
  BY MemoryIs DEF HourRight, MemoryRight
<1>2. place = CASE before -> h.cells[later]
                [] ~before /\ t # NoFrame -> AtEnd
                [] OTHER -> NoCell
  BY DEF place_for_new_second
<1> HIDE DEF F
<1>3. ASSUME NEW m, StandsAt(c, S, W, place, m, FALSE)
      PROVE  /\ \E k : Aims(c, S, W, place, k)
             /\ place \in Places
             /\ place # NoCell => place.frame \in DOMAIN F
  BY <1>1, <1>3, StandingIs DEF Aims
<1>4. CASE before
  <2> DEFINE L == {s \in WithCell(h.cells) : s >= second + 1}
  <2>1. later = IF L = {} THEN NoSecond ELSE Min(L)
    BY DEF first_from
  <2>2. L \subseteq Seconds /\ Seconds \subseteq Nat /\ \A s \in L : h.cells[s] # NoCell
    BY MetricBlockAssumption DEF WithCell, Seconds
  <2> HIDE DEF L, later
  <2>3. L # {} /\ later = Min(L)
    BY <1>4, <2>1
  <2>4. later \in L
    <3>1. L \subseteq Nat
      BY <2>2
    <3> QED
      BY <2>3, <3>1, MinIs
  <2>5. place = h.cells[later]
    BY <1>2, <1>4
  <2>6. PICK m : StandsAt(c, S, W, h.cells[later], m, FALSE)
    BY <2>2, <2>4 DEF HourRight, Standing
  <2> QED
    BY <1>3, <2>5, <2>6 DEF F
<1>5. CASE ~before /\ t # NoFrame
  <2>1. place = AtEnd
    <3> HIDE DEF before, AtEnd, t
    <3> QED
      BY <1>2, <1>5
  <2>2. c # <<>> /\ t = c[N] /\ N \in 1 .. Len(c)
    <3>1. N \in Nat /\ c \in Seq(DOMAIN F)
      BY <1>1, LaidIs DEF IsLaid
    <3>2. c # <<>> /\ t = c[N]
      BY <1>1, <1>5
    <3> QED
      BY <3>1, <3>2
  <2>3. /\ records_end(F[c[N]]) = BorderOf(S, W, N, S[N + 1]) /\ S[N] \in Nat /\ S[N + 1] \in Nat
        /\ S[N] <= S[N + 1]
    BY <1>1, <2>2, FrameInLaid
  <2>4. place = PlaceOf(c, S, W, N, S[N + 1])
    BY <2>1, <2>2, <2>3 DEF PlaceOf
  <2>5. StandsAt(c, S, W, place, S[N + 1], FALSE)
    BY <2>2, <2>3, <2>4 DEF StandsAt
  <2> QED
    BY <1>3, <2>5 DEF F
<1>6. CASE ~before /\ t = NoFrame
  <2>1. place = NoCell
    <3> HIDE DEF before
    <3> QED
      BY <1>2, <1>6
  <2>2. c = <<>>
    <3> SUFFICES ASSUME c # <<>> PROVE FALSE
      OBVIOUS
    <3>1. N \in Nat /\ c \in Seq(DOMAIN F)
      BY <1>1, LaidIs DEF IsLaid
    <3>2. N \in 1 .. N
      BY <3>1
    <3>3. c[N] \in Nat
      BY <1>1, <3>2, FrameInLaid
    <3> QED
      BY <1>1, <1>6, <3>3 DEF NoFrame
  <2>3. Aims(c, S, W, place, 0)
    BY <2>1, <2>2 DEF Aims
  <2> QED
    BY <2>1, <2>3, NoCellIs
<1> HIDE DEF before
<1> QED
  BY <1>4, <1>5, <1>6

-------------------------------------------------------------------------------
(* A write of a second is refused for want of room, or leaves the hour as  *)
(* it should be.                                                           *)
TakenRight(h, c, T, V, k, at, g) ==
  /\ HourRight(g, disk, c, T, V) /\ StandsAt(c, T, V, at, k, FALSE)
  /\ c # <<>> /\ Beside(g) = Beside(h)

LEMMA TakenIsRight ==
  ASSUME disk.frames \in FrameMaps, NEW h, NEW c, NEW S, NEW W, HourRight(h, disk, c, S, W),
         NEW i \in 1 .. Len(c), NEW k, NEW at, NEW g, TakenFrom(h, c, S, W, i, k, at, g)
  PROVE  TakenRight(h, c, OneLessFrom(S, i), TakenOut(W, k), k, at, g)
<1> DEFINE T == OneLessFrom(S, i)
           V == TakenOut(W, k)
<1>0. TakenFrom(h, c, S, W, i, k, at, g)
  OBVIOUS
<1>1. /\ MemoryRight(g, disk, c, T, V) /\ StandsAt(c, T, V, at, k, FALSE)
      /\ CellsPulled(h.cells, g.cells, c, S, W, k, T, V) /\ Beside(g) = Beside(h)
  BY <1>0 DEF TakenFrom
<1> HIDE DEF T, V
<1>2. ASSUME NEW s \in Seconds
      PROVE  /\ h.cells[s] = NoCell => g.cells[s] = NoCell
             /\ h.cells[s] # NoCell => \E n : StandsAt(c, T, V, g.cells[s], n, FALSE)
  <2>1. CASE h.cells[s] = NoCell
    BY <1>1, <2>1 DEF CellsPulled
  <2>2. CASE h.cells[s] # NoCell
    <3>1. PICK m : StandsAt(c, S, W, h.cells[s], m, FALSE)
      BY <2>2 DEF HourRight, Standing
    <3>2. PICK n : StandsAt(c, T, V, g.cells[s], n, FALSE /\ m # k)
      BY <1>1, <3>1 DEF CellsPulled
    <3>3. StandsAt(c, T, V, g.cells[s], n, FALSE)
      BY <3>2, StandsLoosely
    <3> QED
      BY <2>2, <3>3
  <2> QED
    BY <2>1, <2>2
<1>3. Standing(g.cells, c, T, V)
  BY <1>2 DEF Standing
<1>4. ASSUME NEW s \in Seconds, h.cells[s] # NoCell
      PROVE  g.cells[s] # NoCell
  <2>1. PICK n : StandsAt(c, T, V, g.cells[s], n, FALSE)
    BY <1>2, <1>4
  <2>2. IsLaid(FramesOf(g, disk), c, T, V) /\ FramesOf(g, disk) \in FrameMaps
    BY <1>1, MemoryIs
  <2> QED
    BY <2>1, <2>2, StandingIs
<1>5. FromHead(g.cells, c)
  BY <1>4 DEF HourRight, FromHead
<1>6. c # <<>>
  <2>1. Len(<<>>) = 0
    OBVIOUS
  <2> QED
    BY <2>1
<1>7. NoneWithout(FramesOf(g, disk), c)
  BY <1>6 DEF NoneWithout
<1> QED
  BY <1>1, <1>3, <1>5, <1>6, <1>7 DEF HourRight, TakenRight, T, V

LEMMA IndexedSame ==
  ASSUME NEW h \in Slots, NEW second \in Seconds, NEW records \in Seq(HourRecs),
         NEW g, g = Indexed(h, second, records)
  PROVE  g \in Slots /\ SameFrames(g, h) /\ g.failure = h.failure /\ g.clean = h.clean
<1> DEFINE key == KeyAddRecords(h.key, second, records)
           process == ProcessAddRecords(h.process, second, records)
<1>1. g \in Slots
  BY RecordsAreIndexed
<1>2. g = [h EXCEPT !.key = key, !.keyChanged = TRUE,
                    !.process = process, !.processChanged = TRUE,
                    !.keyDirectory = FALSE, !.processDirectory = FALSE]
  BY DEF Indexed
<1> HIDE DEF key, process
<1>3. SameFrames(g, h) /\ g.failure = h.failure /\ g.clean = h.clean
  BY <1>2 DEF Slots, SlotRecords, SameFrames
<1> QED
  BY <1>1, <1>3

LEMMA AloneIsRight ==
  ASSUME disk.frames \in FrameMaps, NEW h, HourIsRight(h, disk), NotFailed(h), Marks(h, disk),
         NEW second \in Seconds, NEW records \in Seq(HourRecs), NEW r, r = Alone(h, second, records)
  PROVE  IsWritten(r)
<1>1. PICK c, S, W : HourRight(h, disk, c, S, W)
  BY DEF HourIsRight
<1> DEFINE place == place_for_new_second(h, second)
           blocks == compress_records(records)
           none == 0
           came == Len(records)
<1>2. place = place_for_new_second(h, second)
  OBVIOUS
<1>3. r = IF place # NoCell /\ place.frame \notin DOMAIN FramesOf(h, disk)
          THEN [h EXCEPT !.failure = "the chain does not read"]
          ELSE PutBlocks(h, second, place, TRUE, blocks, none, came)
  BY DEF Alone
<1>4. blocks \in Seq(Blocks) /\ none \in Int /\ came \in Int
  BY BlocksFit
<1> HIDE DEF place, blocks, none, came
<1>5. /\ \E k : Aims(c, S, W, place, k)
      /\ place \in Places
      /\ place # NoCell => place.frame \in DOMAIN FramesOf(h, disk)
  BY <1>1, <1>2, NewSecondAims
<1>6. PICK k : Aims(c, S, W, place, k)
  BY <1>5
<1> DEFINE isFirst == TRUE
<1>7. r = PutBlocks(h, second, place, isFirst, blocks, none, came)
  BY <1>3, <1>5
<1>8. isFirst \in BOOLEAN /\ (isFirst \/ c # <<>>)
  OBVIOUS
<1> HIDE DEF isFirst
<1> QED
  BY <1>1, <1>4, <1>5, <1>6, <1>7, <1>8, PutBlocksIsRight

LEMMA MergedIsRight ==
  ASSUME disk.frames \in FrameMaps, NEW h, NEW c, NEW S, NEW W, HourRight(h, disk, c, S, W),
         NotFailed(h), Marks(h, disk), NEW second \in Seconds, NEW records \in Seq(HourRecs),
         NEW last \in FoundAmong(FramesOf(h, disk), {c[j] : j \in 1 .. Len(c)}),
         NEW at, at = [frame |-> last.frame, offset |-> last.offset],
         NEW r, r = Merged(h, second, records, at, last.entry)
  PROVE  IsWritten(r)
<1> DEFINE F == FramesOf(h, disk)
<1>1. MemoryRight(h, disk, c, S, W) /\ F \in FrameMaps /\ IsLaid(F, c, S, W) /\ W \in Seq(Entries)
  BY MemoryIs DEF HourRight
<1> HIDE DEF F
<1>2. PICK i \in 1 .. Len(c) : \E k \in S[i] .. S[i + 1] - 1 :
           /\ last.frame = c[i] /\ last.offset = BorderOf(S, W, i, k) /\ last.entry = W[k + 1]
           /\ k \in 0 .. Len(W) - 1
  <2>1. last \in FoundAmong(F, {c[j] : j \in 1 .. Len(c)})
    BY DEF F
  <2> QED
    BY <1>1, <2>1, FoundStands
<1>3. PICK k \in S[i] .. S[i + 1] - 1 :
           /\ last.frame = c[i] /\ last.offset = BorderOf(S, W, i, k) /\ last.entry = W[k + 1]
           /\ k \in 0 .. Len(W) - 1
  BY <1>2
<1>4. at = PlaceOf(c, S, W, i, k)
  BY <1>3 DEF PlaceOf
<1> DEFINE g == remove_entry(h, at)
           T == OneLessFrom(S, i)
           V == TakenOut(W, k)
<1>5. g = remove_entry(h, at) /\ T = OneLessFrom(S, i) /\ V = TakenOut(W, k)
  OBVIOUS
<1> HIDE DEF g, T, V
<1>6. TakenFrom(h, c, S, W, i, k, at, g)
  BY <1>1, <1>4, <1>5, TakeOut
<1>7. /\ HourRight(g, disk, c, T, V) /\ StandsAt(c, T, V, at, k, FALSE)
      /\ c # <<>> /\ Beside(g) = Beside(h)
  <2>1. TakenRight(h, c, OneLessFrom(S, i), TakenOut(W, k), k, at, g)
    BY <1>6, TakenIsRight
  <2> QED
    BY <1>5, <2>1 DEF TakenRight
<1>8. NotFailed(g) /\ Marks(g, disk)
  <2>1. Beside(g).failure = g.failure /\ Beside(h).failure = h.failure
        /\ Beside(g).clean = g.clean /\ Beside(h).clean = h.clean
    BY DEF Beside
  <2> QED
    BY <1>7, <2>1 DEF NotFailed, Marks
<1> DEFINE entry == last.entry
           both == ByTime(entry.records \o records)
           blocks == compress_records(both)
           isFirst == h.cells[second] = at
           a == Len(entry.records)
           b == Len(records)
<1>9. entry \in Entries
  <2>1. k + 1 \in 1 .. Len(W) /\ entry = W[k + 1]
    <3>1. Len(W) \in Nat
      BY <1>1
    <3> QED
      BY <1>3, <3>1
  <2> QED
    BY <1>1, <2>1
<1>10. blocks \in Seq(Blocks) /\ a \in Int /\ b \in Int
  <2>1. entry.records \in Seq(HourRecs)
    BY <1>9 DEF Entries
  <2>2. entry.records \o records \in Seq(HourRecs)
    BY <2>1
  <2> QED
    <3>1. both \in Seq(HourRecs)
      BY <2>2, SortedByTime
    <3>2. a \in Int /\ b \in Int
      BY <2>1
    <3> HIDE DEF both, a, b
    <3>3. blocks \in Seq(Blocks)
      BY <3>1, BlocksFit
    <3> QED
      BY <3>2, <3>3
<1>11. r = PutBlocks(g, second, at, isFirst, blocks, a, b)
  BY <1>5 DEF Merged
<1>12. isFirst \in BOOLEAN
  OBVIOUS
<1>13. at \in Places /\ Aims(c, T, V, at, k)
  <2>1. IsLaid(FramesOf(g, disk), c, T, V) /\ FramesOf(g, disk) \in FrameMaps
    BY <1>7, MemoryIs DEF HourRight
  <2> QED
    BY <1>7, <2>1, StandingIs DEF Aims
<1> HIDE DEF entry, both, blocks, isFirst, a, b
<1>14. isFirst \/ c # <<>>
  BY <1>7
<1> QED
  BY <1>7, <1>8, <1>10, <1>11, <1>12, <1>13, <1>14, PutBlocksIsRight

-------------------------------------------------------------------------------
LEMMA AfterTheLastIsRight ==
  ASSUME disk.frames \in FrameMaps, NEW h, NEW c, NEW S, NEW W, HourRight(h, disk, c, S, W),
         NotFailed(h), Marks(h, disk), NEW second \in Seconds, NEW records \in Seq(HourRecs),
         NEW last \in FoundAmong(FramesOf(h, disk), {c[j] : j \in 1 .. Len(c)}),
         NEW at, at = [frame |-> last.frame, offset |-> last.offset],
         NEW r, r = AfterTheLast(h, second, records, at, last.entry)
  PROVE  IsWritten(r)
<1> DEFINE F == FramesOf(h, disk)
<1>1. MemoryRight(h, disk, c, S, W) /\ F \in FrameMaps /\ IsLaid(F, c, S, W) /\ W \in Seq(Entries)
  BY MemoryIs DEF HourRight
<1> HIDE DEF F
<1>2. PICK i \in 1 .. Len(c) : \E k \in S[i] .. S[i + 1] - 1 :
           /\ last.frame = c[i] /\ last.offset = BorderOf(S, W, i, k) /\ last.entry = W[k + 1]
           /\ k \in 0 .. Len(W) - 1 /\ k \in Nat
  <2>1. last \in FoundAmong(F, {c[j] : j \in 1 .. Len(c)})
    BY DEF F
  <2> QED
    BY <1>1, <2>1, FoundStands
<1>3. PICK k \in S[i] .. S[i + 1] - 1 :
           /\ last.frame = c[i] /\ last.offset = BorderOf(S, W, i, k) /\ last.entry = W[k + 1]
           /\ k \in 0 .. Len(W) - 1 /\ k \in Nat
  BY <1>2
<1> DEFINE n == k + 1
           entry == last.entry
           place == [at EXCEPT !.offset = @ + entry.len]
           blocks == compress_records(records)
           none == 0
           b == Len(records)
           isFirst == FALSE
<1>4. S[i] \in Nat /\ S[i + 1] \in Nat /\ Len(W) \in Nat /\ S[i + 1] <= Len(W)
  BY <1>1, LaidIs
<1>5. n \in Nat /\ S[i] <= n /\ n <= S[i + 1] /\ n \in 1 .. Len(W) /\ S[i] \in 0 .. Len(W)
      /\ k \in 0 .. Len(W) /\ n = k + 1
  BY SMTT(30), <1>3, <1>4
<1>6. entry \in Entries /\ entry.len \in Nat /\ entry = W[n]
  <2>1. W[n] \in Entries /\ entry = W[n]
    BY <1>1, <1>3, <1>5
  <2> QED
    BY <2>1 DEF Entries
<1>7. BorderOf(S, W, i, n) = BorderOf(S, W, i, k) + entry.len /\ BorderOf(S, W, i, k) \in Int
  <2> DEFINE x == LenOf(W, k)
             y == LenOf(W, n)
             z == LenOf(W, S[i])
  <2>1. x \in Nat /\ z \in Nat
    BY <1>1, <1>5, LengthsAre
  <2>2. y = x + entry.len
    <3>1. \A m \in 1 .. Len(W) : LenOf(W, m) = LenOf(W, m - 1) + W[m].len
      BY <1>1, LengthsAre
    <3>2. n - 1 = k
      BY <1>5
    <3> HIDE DEF n
    <3> QED
      BY <1>5, <1>6, <3>1, <3>2
  <2>3. BorderOf(S, W, i, n) = FRAME_HEADER_LEN + y - z /\ BorderOf(S, W, i, k) = FRAME_HEADER_LEN + x - z
    BY DEF BorderOf
  <2> DEFINE a == BorderOf(S, W, i, n)
             o == BorderOf(S, W, i, k)
             l == entry.len
             H == FRAME_HEADER_LEN
  <2>4. l \in Nat /\ H \in Int /\ a = H + y - z /\ o = H + x - z /\ y = x + l
    BY <1>6, <2>2, <2>3, FrameAssumption
  <2> HIDE DEF x, y, z, a, o, l, H, n, entry
  <2>5. a = o + l /\ o \in Int
    BY <2>1, <2>4
  <2> QED
    BY <2>5 DEF a, o, l
<1>8. place = PlaceOf(c, S, W, i, n)
  <2> HIDE DEF n, entry
  <2> QED
    BY <1>3, <1>7 DEF PlaceOf
<1>9. StandsAt(c, S, W, place, n, FALSE)
  <2> HIDE DEF n, place
  <2> QED
    BY <1>5, <1>8 DEF StandsAt
<1>10. blocks \in Seq(Blocks) /\ b \in Int /\ none \in Int /\ isFirst \in BOOLEAN /\ c # <<>>
  <2>1. c # <<>>
    <3>1. Len(<<>>) = 0
      OBVIOUS
    <3> QED
      BY <3>1
  <2> QED
    BY <2>1, BlocksFit
<1>11. r = PutBlocks(h, second, place, isFirst, blocks, none, b)
  BY DEF AfterTheLast
<1> HIDE DEF n, entry, place, blocks, none, b, isFirst
<1>12. place \in Places /\ Aims(c, S, W, place, n)
  BY <1>1, <1>9, StandingIs DEF Aims
<1>13. isFirst \/ c # <<>>
  BY <1>10
<1> QED
  BY <1>10, <1>11, <1>12, <1>13, PutBlocksIsRight

LEMMA SecondIsRight ==
  ASSUME disk.frames \in FrameMaps, NEW h, IsWritten(h), NEW second \in Seconds,
         NEW records \in Seq(HourRecs), NEW r, r = write_second(h, second, records)
  PROVE  IsWritten(r)
<1> DEFINE g == Indexed(h, second, records)
           walk == LastEntry(h, second)
           last == walk.entries[Len(walk.entries)]
           at == [frame |-> last.frame, offset |-> last.offset]
           fails == g.cells[second] # NoCell /\ ~walk.ok
           alone == g.cells[second] = NoCell \/ (walk.ok /\ walk.entries = <<>>)
           broken == [g EXCEPT !.failure = "the second does not read"]
           more == IF last.entry.reads THEN Merged(g, second, records, at, last.entry)
                   ELSE AfterTheLast(g, second, records, at, last.entry)
           put == CASE fails -> broken
                    [] alone -> Alone(g, second, records)
                    [] OTHER -> more
<1>1. r = IF h.failure # "" THEN h ELSE put
  BY DEF write_second, PutRecords
<1>2. CASE h.failure # ""
  <2>1. r = h
    BY <1>1, <1>2
  <2> QED
    BY <2>1
<1>3. CASE h.failure = ""
  <2>1. r = put
    BY <1>1, <1>3
  <2>2. NotFailed(h) /\ HourIsRight(h, disk) /\ Marks(h, disk)
    BY <1>3 DEF IsWritten, NotFailed, NoRoom
  <2>3. PICK c, S, W : HourRight(h, disk, c, S, W)
    BY <2>2 DEF HourIsRight
  <2>4. h \in Slots
    BY <2>3, MemoryIs DEF HourRight
  <2>5. g \in Slots /\ SameFrames(g, h) /\ g.failure = h.failure /\ g.clean = h.clean
    <3> DEFINE q == g
    <3>1. q = Indexed(h, second, records)
      OBVIOUS
    <3> HIDE DEF q
    <3>2. q \in Slots /\ SameFrames(q, h) /\ q.failure = h.failure /\ q.clean = h.clean
      BY <2>4, <3>1, IndexedSame
    <3> QED
      BY <3>2 DEF q
  <2> HIDE DEF g
  <2>6. HourRight(g, disk, c, S, W) /\ FramesOf(g, disk) = FramesOf(h, disk)
    BY <2>3, <2>5, RightWith
  <2>7. NotFailed(g) /\ HourIsRight(g, disk) /\ g.cells = h.cells /\ Marks(g, disk)
    BY <2>2, <2>5, <2>6 DEF NotFailed, Marks, HourIsRight, SameFrames
  <2> DEFINE F == FramesOf(h, disk)
             X == FoundAmong(F, {c[j] : j \in 1 .. Len(c)})
  <2>8. g.cells[second] # NoCell => walk.ok /\ walk.entries \in Seq(X)
    <3> DEFINE w == walk
    <3>1. w = LastEntry(h, second) /\ F = FramesOf(h, disk)
      OBVIOUS
    <3> HIDE DEF w, F
    <3>2. h.cells[second] # NoCell => w.ok /\ w.entries \in Seq(FoundAmong(F, {c[j] : j \in 1 .. Len(c)}))
      BY <2>3, <3>1, LastEntryStands
    <3> QED
      BY <2>7, <3>2 DEF w, F
  <2> HIDE DEF walk, X
  <2>9. ~fails
    BY <2>8
  <2>10. CASE alone
    <3> DEFINE q == Alone(g, second, records)
    <3>1. r = q
      <4> HIDE DEF q, broken, more
      <4> QED
        BY <2>1, <2>9, <2>10 DEF q
    <3>2. q = Alone(g, second, records)
      OBVIOUS
    <3> HIDE DEF q
    <3>3. IsWritten(q)
      BY <2>7, <3>2, AloneIsRight
    <3> QED
      BY <3>1, <3>3
  <2>11. CASE ~alone
    <3>1. r = more
      <4> HIDE DEF broken, more
      <4> QED
        BY <2>1, <2>9, <2>11
    <3>2. last \in X
      <4>1. walk.entries \in Seq(X) /\ walk.entries # <<>>
        BY <2>8, <2>11
      <4> DEFINE z == walk.entries
      <4>2. Len(z) \in 1 .. Len(z)
        BY <4>1
      <4> HIDE DEF z
      <4>3. z[Len(z)] \in X
        BY <4>1, <4>2 DEF z
      <4> QED
        BY <4>3 DEF z
    <3>3. last \in FoundAmong(FramesOf(g, disk), {c[j] : j \in 1 .. Len(c)})
      BY <2>6, <3>2 DEF X
    <3>4. at = [frame |-> last.frame, offset |-> last.offset]
      OBVIOUS
    <3> DEFINE one == Merged(g, second, records, at, last.entry)
               two == AfterTheLast(g, second, records, at, last.entry)
    <3>5. r = one \/ r = two
      <4> HIDE DEF last, at
      <4> QED
        BY <3>1
    <3> HIDE DEF last, at
    <3>6. CASE r = one
      BY <2>6, <2>7, <3>3, <3>4, <3>6, MergedIsRight
    <3>7. CASE r = two
      BY <2>6, <2>7, <3>3, <3>4, <3>7, AfterTheLastIsRight
    <3> QED
      BY <3>5, <3>6, <3>7
  <2> QED
    BY <2>10, <2>11
<1> QED
  BY <1>2, <1>3

-------------------------------------------------------------------------------
(* The seconds of a batch, and the batches, one after another.             *)
WrittenSlots == {h \in Slots : IsWritten(h)}

LEMMA SecondIsIn ==
  ASSUME disk.frames \in FrameMaps, NEW h \in WrittenSlots, NEW second \in Seconds,
         NEW records \in Seq(HourRecs)
  PROVE  write_second(h, second, records) \in WrittenSlots
<1> DEFINE r == write_second(h, second, records)
<1>1. h \in Slots /\ IsWritten(h)
  BY DEF WrittenSlots
<1>2. r \in Slots
  BY <1>1, SecondIsWritten
<1>3. r = write_second(h, second, records)
  OBVIOUS
<1> HIDE DEF r
<1>4. IsWritten(r)
  BY <1>1, <1>3, SecondIsRight
<1> QED
  BY <1>2, <1>4 DEF r, WrittenSlots

LEMMA BatchIsIn ==
  ASSUME disk.frames \in FrameMaps, NEW h \in WrittenSlots, NEW ids \in SUBSET AllRecords,
         IsFiniteSet(ids)
  PROVE  WriteSeconds(h, ids) \in WrittenSlots
<1> DEFINE T == {second_of(Data[r].time) : r \in ids}
           seconds == InOrder(T, <)
           Write1(done, second) == write_second(done, second, RecordsAt(ids, second))
           n == Len(seconds)
           S == 1 .. n
           A == WrittenSlots
           IsIter(f) == f = [s \in SUBSET S |-> IF s = {} THEN h
                                                ELSE Write1(f[s \ {Max(s)}], seconds[Max(s)])]
           op == [xa \in S \X A |-> Write1(xa[2], seconds[xa[1]])]
           iter == CHOOSE f : IsIter(f)
<1>1. T \subseteq Seconds /\ Seconds \subseteq Int
  BY HourFileAssumption DEF Seconds
<1>2. IsFiniteSet(T)
  <2> DEFINE f == [r \in ids |-> second_of(Data[r].time)]
  <2>1. T = {f[r] : r \in ids}
    OBVIOUS
  <2> HIDE DEF f, T
  <2> QED
    BY <2>1, ImageIsFinite
<1>3. WriteSeconds(h, ids) = FoldLeft(Write1, h, seconds)
  BY DEF WriteSeconds
<1> HIDE DEF T
<1>4. Sorts(seconds, T, Smaller)
  BY <1>1, <1>2, NumbersInOrder
<1> HIDE DEF seconds
<1>5. n \in Nat /\ DOMAIN seconds = S /\ \A i \in S : seconds[i] \in Seconds
  <2>1. seconds \in Seq(T)
    BY <1>4 DEF Sorts
  <2>2. n \in Nat /\ DOMAIN seconds = S /\ \A i \in S : seconds[i] \in T
    BY <2>1
  <2> QED
    BY <1>1, <2>2
<1>6. \A a \in A, i \in S : Write1(a, seconds[i]) \in A
  <2> TAKE a \in A, i \in S
  <2>1. seconds[i] \in Seconds /\ seconds[i] \in Int
    BY <1>1, <1>5
  <2>2. RecordsAt(ids, seconds[i]) \in Seq(HourRecs)
    BY <2>1, RecordsOfASecond
  <2> QED
    BY <2>1, <2>2, SecondIsIn
<1>0. h \in A
  OBVIOUS
<1> HIDE DEF Write1, n, A
<1>7. \E f : IsIter(f)
  <2>1. op \in [S \X A -> A]
    BY <1>6
  <2>3. PICK f : IsLeftFold(f, n, A, h, op)
    <3> HIDE DEF op
    <3> QED
      BY <1>0, <1>5, <2>1, LeftFoldExists
  <2>4. \A s \in SUBSET S : s # {} =>
          op[<<Max(s), f[s \ {Max(s)}]>>] = Write1(f[s \ {Max(s)}], seconds[Max(s)])
    <3> TAKE s \in SUBSET S
    <3> HAVE s # {}
    <3>1. Max(s) \in S
      BY <1>5, HighestIs
    <3>2. f[s \ {Max(s)}] \in A
      BY <2>3 DEF IsLeftFold
    <3> QED
      BY <3>1, <3>2
  <2> HIDE DEF op, S
  <2>5. IsIter(f)
    BY <2>3, <2>4 DEF S, IsLeftFold
  <2> QED
    BY <2>5
<1>8. IsIter(iter)
  <2> HIDE DEF IsIter
  <2> QED
    BY <1>7
<1>9. FoldLeft(Write1, h, seconds) = iter[1 .. n]
  BY <1>5 DEF FoldLeft, MapThenFoldSet
<1> HIDE DEF iter
<1>10. iter[1 .. n] \in A
  <2>1. iter[{}] \in A
    BY <1>0, <1>8
  <2>2. \A s \in SUBSET (1 .. n) :
          s # {} /\ iter[s \ {Max(s)}] \in A => iter[s] \in A
    <3> TAKE s \in SUBSET (1 .. n)
    <3> HAVE s # {} /\ iter[s \ {Max(s)}] \in A
    <3>1. iter[s] = Write1(iter[s \ {Max(s)}], seconds[Max(s)])
      BY <1>8
    <3>2. Max(s) \in S
      BY <1>5, HighestIs
    <3> QED
      BY <1>6, <3>1, <3>2
  <2> QED
    BY <1>5, <2>1, <2>2, LeftFoldIn
<1> QED
  BY <1>3, <1>9, <1>10 DEF A

LEMMA BatchesAreIn ==
  ASSUME disk.frames \in FrameMaps, slot \in WrittenSlots, NEW batches \in Preloaded
  PROVE  FoldLeft(WriteSeconds, slot, batches) \in WrittenSlots
<1> DEFINE n == Len(batches)
           S == 1 .. n
           A == WrittenSlots
           IsIter(f) == f = [s \in SUBSET S |-> IF s = {} THEN slot
                                                ELSE WriteSeconds(f[s \ {Max(s)}], batches[Max(s)])]
           op == [xa \in S \X A |-> WriteSeconds(xa[2], batches[xa[1]])]
           iter == CHOOSE f : IsIter(f)
<1>1. /\ n \in Nat /\ DOMAIN batches = S
      /\ \A i \in S : batches[i] \in SUBSET AllRecords /\ IsFiniteSet(batches[i])
  BY HourFileAssumption
<1>2. \A a \in A, i \in S : WriteSeconds(a, batches[i]) \in A
  BY <1>1, BatchIsIn
<1>0. slot \in A
  OBVIOUS
<1> HIDE DEF n, A
<1>3. \E f : IsIter(f)
  <2>1. op \in [S \X A -> A]
    BY <1>2
  <2>3. PICK f : IsLeftFold(f, n, A, slot, op)
    <3> HIDE DEF op
    <3> QED
      BY <1>0, <1>1, <2>1, LeftFoldExists
  <2>4. \A s \in SUBSET S : s # {} =>
          op[<<Max(s), f[s \ {Max(s)}]>>] = WriteSeconds(f[s \ {Max(s)}], batches[Max(s)])
    <3> TAKE s \in SUBSET S
    <3> HAVE s # {}
    <3>1. Max(s) \in S
      BY <1>1, HighestIs
    <3>2. f[s \ {Max(s)}] \in A
      BY <2>3 DEF IsLeftFold
    <3> QED
      BY <3>1, <3>2
  <2> HIDE DEF op, S
  <2>5. IsIter(f)
    BY <2>3, <2>4 DEF S, IsLeftFold
  <2> QED
    BY <2>5
<1>4. IsIter(iter)
  <2> HIDE DEF IsIter
  <2> QED
    BY <1>3
<1>5. FoldLeft(WriteSeconds, slot, batches) = iter[1 .. n]
  BY <1>1 DEF FoldLeft, MapThenFoldSet
<1> HIDE DEF iter
<1>6. iter[1 .. n] \in A
  <2>1. iter[{}] \in A
    BY <1>0, <1>4
  <2>2. \A s \in SUBSET (1 .. n) :
          s # {} /\ iter[s \ {Max(s)}] \in A => iter[s] \in A
    <3> TAKE s \in SUBSET (1 .. n)
    <3> HAVE s # {} /\ iter[s \ {Max(s)}] \in A
    <3>1. iter[s] = WriteSeconds(iter[s \ {Max(s)}], batches[Max(s)])
      BY <1>4
    <3>2. Max(s) \in S
      BY <1>1, HighestIs
    <3> QED
      BY <1>2, <3>1, <3>2
  <2> QED
    BY <1>1, <2>1, <2>2, LeftFoldIn
<1> QED
  BY <1>5, <1>6 DEF A

-------------------------------------------------------------------------------
(* Frames which read whole, each naming the next one, are laid out.        *)
LaidUpTo(F, c, n, S, W) ==
  /\ W \in Seq(Entries) /\ \A i \in 1 .. Len(W) : IsEntry(W[i])
  /\ S \in Seq(Nat) /\ Len(S) = n + 1 /\ S[1] = 0 /\ S[n + 1] = Len(W)
  /\ \A i \in 1 .. n : /\ S[i] <= S[i + 1] /\ S[i + 1] <= Len(W)
                       /\ IsPart(F[c[i]].entries, W, S[i], S[i + 1])

LEMMA PartOfMore ==
  ASSUME NEW W \in Seq(Entries), NEW E \in Seq(Entries), NEW p \in Nat, NEW q \in Nat,
         q <= Len(W), NEW D, IsPart(D, W, p, q)
  PROVE  IsPart(D, W \o E, p, q)
<1> DEFINE V == W \o E
           N == Len(W)
<1>1. N \in Nat /\ \A i \in 1 .. N : V[i] = W[i]
  OBVIOUS
<1>2. D \in Seq(Entries) /\ Len(D) = q - p /\ \A j \in 1 .. q - p : D[j] = W[p + j]
  BY DEF IsPart
<1> HIDE DEF V
<1>3. \A j \in 1 .. q - p : p + j \in 1 .. N
  OBVIOUS
<1>4. IsPart(D, V, p, q)
  BY <1>1, <1>2, <1>3 DEF IsPart
<1> QED
  BY <1>4 DEF V

LEMMA OneMoreLaid ==
  ASSUME NEW F, NEW c, NEW n \in Nat, NEW S, NEW W, LaidUpTo(F, c, n, S, W),
         NEW f \in WholeFrames, f = F[c[n + 1]]
  PROVE  \E T, V : LaidUpTo(F, c, n + 1, T, V)
<1> DEFINE E == f.entries
           l == Len(E)
           N == Len(W)
           V == W \o E
           T == Append(S, N + l)
<1>1. /\ W \in Seq(Entries) /\ (\A i \in 1 .. N : IsEntry(W[i]))
      /\ S \in Seq(Nat) /\ Len(S) = n + 1 /\ S[1] = 0 /\ S[n + 1] = N
      /\ \A i \in 1 .. n : /\ S[i] <= S[i + 1] /\ S[i + 1] <= N
                           /\ IsPart(F[c[i]].entries, W, S[i], S[i + 1])
  BY DEF LaidUpTo
<1>2. E \in Seq(Entries) /\ l \in Nat /\ N \in Nat /\ \A i \in 1 .. l : IsEntry(E[i])
  BY <1>1, WholeFrameIs DEF WholeFrames
<1>3. /\ V \in Seq(Entries) /\ Len(V) = N + l
      /\ \A i \in 1 .. N : V[i] = W[i]
      /\ \A i \in 1 .. l : V[N + i] = E[i]
  <2>1. W \in Seq(Entries)
    BY <1>1
  <2> QED
    BY <1>2, <2>1, BothAre
<1>4. \A i \in 1 .. N + l : IsEntry(V[i])
  <2> TAKE i \in 1 .. N + l
  <2>1. CASE i <= N
    <3>1. i \in 1 .. N
      BY <1>2, <2>1
    <3> QED
      BY <1>1, <1>3, <3>1
  <2>2. CASE i > N
    <3>1. i - N \in 1 .. l /\ N + (i - N) = i
      BY <1>2, <2>2
    <3>2. V[N + (i - N)] = E[i - N]
      BY <1>3, <3>1
    <3> QED
      BY <1>2, <3>1, <3>2
  <2> QED
    BY <1>2, <2>1, <2>2
<1>5. /\ T \in Seq(Nat) /\ Len(T) = n + 2 /\ T[n + 2] = N + l
      /\ \A i \in 1 .. n + 1 : T[i] = S[i]
  <2> DEFINE x == N + l
  <2>1. x \in Nat /\ S \in Seq(Nat) /\ Len(S) = n + 1
    BY <1>1, <1>2
  <2> HIDE DEF x
  <2>2. Append(S, x) \in Seq(Nat) /\ Len(Append(S, x)) = n + 2 /\ Append(S, x)[n + 2] = x
        /\ \A i \in 1 .. n + 1 : Append(S, x)[i] = S[i]
    BY <2>1
  <2> QED
    BY <2>2 DEF x
<1>6. \A i \in 1 .. n + 1 : S[i] \in Nat
  BY <1>1
<1> HIDE DEF T
<1>7. \A i \in 1 .. n + 1 : /\ T[i] <= T[i + 1] /\ T[i + 1] <= N + l
                            /\ IsPart(F[c[i]].entries, V, T[i], T[i + 1])
  <2> TAKE i \in 1 .. n + 1
  <2>1. CASE i <= n
    <3>1. i \in 1 .. n /\ i + 1 \in 1 .. n + 1 /\ T[i] = S[i] /\ T[i + 1] = S[i + 1]
      BY <1>5, <2>1
    <3> DEFINE p == S[i]
               q == S[i + 1]
               D == F[c[i]].entries
    <3>2. p \in Nat /\ q \in Nat /\ p <= q /\ q <= N /\ IsPart(D, W, p, q)
      BY <1>1, <1>6, <3>1
    <3> HIDE DEF p, q, D
    <3>3. IsPart(D, V, p, q)
      BY <1>1, <1>2, <3>2, PartOfMore
    <3>4. q <= N + l
      BY <1>2, <3>2
    <3> QED
      BY <3>1, <3>2, <3>3, <3>4 DEF p, q, D
  <2>2. CASE i = n + 1
    <3>1. T[i] = N /\ T[i + 1] = N + l
      <4>1. i + 1 = n + 2 /\ n + 1 \in 1 .. n + 1
        BY <2>2
      <4> QED
        BY <1>1, <1>5, <2>2, <4>1
    <3>2. F[c[i]].entries = E
      BY <2>2
    <3> HIDE DEF V, E
    <3>3. N + l - N = l /\ N <= N + l
      BY <1>2
    <3>4. IsPart(E, V, N, N + l)
      BY <1>2, <1>3, <3>3 DEF IsPart
    <3> QED
      BY <3>1, <3>2, <3>3, <3>4
  <2> QED
    BY <2>1, <2>2
<1>8. T[1] = 0
  <2>1. 1 \in 1 .. n + 1
    OBVIOUS
  <2> QED
    BY <1>1, <1>5, <2>1
<1> HIDE DEF V
<1>9. LaidUpTo(F, c, n + 1, T, V)
  <2>1. n + 1 + 1 = n + 2
    OBVIOUS
  <2> QED
    BY <1>3, <1>4, <1>5, <1>7, <1>8, <2>1 DEF LaidUpTo
<1> QED
  BY <1>9

LEMMA WholeChainIsLaid ==
  ASSUME NEW F, NEW c \in Seq(DOMAIN F),
         \A i, j \in 1 .. Len(c) : c[i] = c[j] => i = j,
         \A i \in 1 .. Len(c) : F[c[i]] \in WholeFrames /\ F[c[i]].next = NextIn(c, i)
  PROVE  \E S, W : IsLaid(F, c, S, W)
<1> DEFINE N == Len(c)
           Good == {n \in Nat : n <= N => \E S, W : LaidUpTo(F, c, n, S, W)}
<1>0. N \in Nat
  OBVIOUS
<1>1. 0 \in Good
  <2>1. LaidUpTo(F, c, 0, <<0>>, <<>>)
    <3> DEFINE none == <<>>
               S == <<0>>
    <3>1. none \in Seq(Entries) /\ Len(none) = 0
      OBVIOUS
    <3>2. S \in Seq(Nat) /\ Len(S) = 1 /\ S[1] = 0
      OBVIOUS
    <3> HIDE DEF none, S
    <3>3. LaidUpTo(F, c, 0, S, none)
      BY <3>1, <3>2 DEF LaidUpTo
    <3> QED
      BY <3>3 DEF none, S
  <2> QED
    BY <2>1
<1>2. \A n \in Good : n + 1 \in Good
  <2> TAKE n \in Good
  <2>1. n \in Nat
    OBVIOUS
  <2> SUFFICES ASSUME n + 1 <= N PROVE \E S, W : LaidUpTo(F, c, n + 1, S, W)
    BY <2>1
  <2>2. PICK S, W : LaidUpTo(F, c, n, S, W)
    BY <1>0, <2>1
  <2> DEFINE f == F[c[n + 1]]
  <2>3. f \in WholeFrames /\ f = F[c[n + 1]]
    BY <1>0, <2>1
  <2> HIDE DEF f, Good, N
  <2> QED
    BY <2>1, <2>2, <2>3, OneMoreLaid
<1>3. Good = Nat
  <2> HIDE DEF Good
  <2>1. Good \in SUBSET Nat
    BY DEF Good
  <2> QED
    BY <1>1, <1>2, <2>1, NatInd
<1>4. N \in Good
  BY <1>0, <1>3
<1>5. PICK S, W : LaidUpTo(F, c, N, S, W)
  BY <1>0, <1>4
<1>6. IsLaid(F, c, S, W)
  BY <1>5 DEF LaidUpTo, IsLaid
<1> QED
  BY <1>6

-------------------------------------------------------------------------------
(* The end of a chain is found from any of its cells, and from the head.   *)
LEMMA NoLastSecond ==
  ASSUME NEW cells \in Cells, last_of(cells) = NoSecond, NEW s \in Seconds
  PROVE  cells[s] = NoCell
<1> SUFFICES ASSUME cells[s] # NoCell PROVE FALSE
  OBVIOUS
<1> DEFINE X == WithCell(cells)
<1>1. s \in X /\ X \subseteq Seconds
  BY DEF WithCell
<1>2. last_of(cells) = IF X = {} THEN NoSecond ELSE Max(X)
  BY DEF last_of
<1> HIDE DEF X
<1>3. Seconds \subseteq Nat /\ IsFiniteSet(Seconds)
  <2> DEFINE n == SECONDS_PER_HOUR - 1
  <2>1. n \in Nat
    BY MetricBlockAssumption
  <2> HIDE DEF n
  <2>2. IsFiniteSet(0 .. n)
    BY <2>1, FS_Interval
  <2> QED
    BY <2>1, <2>2 DEF n, Seconds
<1>4. Max(X) \in X
  <2>1. X \subseteq Int /\ X # {}
    BY <1>1, <1>3
  <2>2. IsFiniteSet(X)
    BY <1>1, <1>3, FS_Subset
  <2> QED
    BY <2>1, <2>2, MaxIs
<1>5. Max(X) \in Nat /\ X # {}
  BY <1>1, <1>3, <1>4
<1> QED
  BY <1>2, <1>5 DEF NoSecond

LEMMA EndOfLaid ==
  ASSUME NEW F \in FrameMaps, NEW c, NEW S, NEW W, IsLaid(F, c, S, W), NEW i \in 1 .. Len(c)
  PROVE  LastFrame(F, c[i]) = c[Len(c)]
<1> DEFINE N == Len(c)
           p == SubSeq(c, i, N)
           x == c[i]
           q == Follow(F, x)
<1>1. N \in Nat /\ c \in Seq(DOMAIN F) /\ N \in 1 .. N
  BY LaidIs DEF IsLaid
<1>2. FollowedFrom(F, c, i, p)
  BY FollowLaid
<1>3. q = p /\ Len(p) = N - i + 1 /\ \A n \in 1 .. N - i + 1 : p[n] = c[i + n - 1]
  BY <1>2 DEF FollowedFrom
<1> HIDE DEF p
<1>4. Len(q) \in 1 .. N /\ i + Len(q) - 1 = N
  BY <1>1, <1>3
<1>5. q[Len(q)] = c[N]
  BY <1>1, <1>3, <1>4
<1>6. F[c[N]].next = NoFrame
  BY <1>1, FramesOfLaid DEF NextIn
<1>7. q # <<>>
  BY <1>4
<1>8. LastFrame(F, x) = IF q # <<>> /\ F[Last(q)].next = NoFrame THEN Last(q) ELSE NoFrame
  BY DEF LastFrame
<1> HIDE DEF q, x, N
<1>9. Last(q) = c[N]
  BY <1>5 DEF Last
<1> QED
  BY <1>6, <1>7, <1>8, <1>9 DEF x, N

LEMMA TailOfLaid ==
  ASSUME NEW F \in FrameMaps, NEW c, NEW S, NEW W, IsLaid(F, c, S, W), NEW cells \in Cells,
         Standing(cells, c, S, W), FromHead(cells, c), NoneWithout(F, c),
         NEW last, last = last_of(cells),
         NEW frame, frame = IF last = NoSecond THEN HEAD ELSE cells[last].frame
  PROVE  LastFrame(F, frame) = IF c = <<>> THEN NoFrame ELSE c[Len(c)]
<1>1. Len(c) \in Nat /\ c \in Seq(DOMAIN F)
  BY LaidIs DEF IsLaid
<1>2. ASSUME NEW s \in Seconds, cells[s] # NoCell
      PROVE  \E i \in 1 .. Len(c) : cells[s].frame = c[i]
  <2>1. PICK m : StandsAt(c, S, W, cells[s], m, FALSE)
    BY <1>2 DEF Standing
  <2> DEFINE x == cells[s]
             st == FALSE
  <2>2. StandsAt(c, S, W, x, m, st)
    BY <2>1
  <2> HIDE DEF x, st
  <2>3. \E i \in 1 .. Len(c) : x.frame = c[i]
    <3>1. \E i \in 1 .. Len(c) : /\ m \in S[i] .. S[i + 1] /\ x = PlaceOf(c, S, W, i, m)
                                  /\ x.frame = c[i] /\ x.offset = BorderOf(S, W, i, m)
      BY <2>2, StandingIs
    <3> QED
      BY <3>1
  <2> QED
    BY <2>3 DEF x
<1>3. CASE c = <<>>
  <2>1. last = NoSecond
    <3> SUFFICES ASSUME last # NoSecond PROVE FALSE
      OBVIOUS
    <3>1. last \in Seconds /\ cells[last] # NoCell
      BY LastSecondIs
    <3>2. PICK i \in 1 .. Len(c) : cells[last].frame = c[i]
      BY <1>2, <3>1
    <3>3. Len(c) = 0
      BY <1>3
    <3> QED
      BY <3>2, <3>3
  <2>2. Follow(F, frame) = <<>>
    <3>1. DOMAIN F = {}
      BY <1>3 DEF NoneWithout
    <3> QED
      BY <3>1 DEF Follow
  <2> QED
    BY <1>3, <2>2 DEF LastFrame
<1>4. CASE c # <<>>
  <2>1. \E i \in 1 .. Len(c) : frame = c[i]
    <3>1. CASE last = NoSecond
      <4>1. \A s \in Seconds : cells[s] = NoCell
        BY <3>1, NoLastSecond
      <4>2. c[1] = HEAD /\ 1 \in 1 .. Len(c)
        BY <1>1, <1>4, <4>1 DEF FromHead
      <4> QED
        BY <3>1, <4>2
    <3>2. CASE last # NoSecond
      <4>1. last \in Seconds /\ cells[last] # NoCell
        BY <3>2, LastSecondIs
      <4> QED
        BY <1>2, <3>2, <4>1
    <3> QED
      BY <3>1, <3>2
  <2>2. PICK i \in 1 .. Len(c) : frame = c[i]
    BY <2>1
  <2>3. LastFrame(F, c[i]) = c[Len(c)]
    BY EndOfLaid
  <2> QED
    BY <1>4, <2>2, <2>3
<1> QED
  BY <1>3, <1>4

-------------------------------------------------------------------------------
(* What is right of the files of an hour: every frame is in a file, the    *)
(* files are as many and as long as they may be, and the cells of an index *)
(* which is not marked stand in the chain of the frames.                   *)
FilesHold(d) ==
  /\ Len(d.lens) <= MAX_DATA_FILES
  /\ \A n \in 1 .. Len(d.lens) : d.lens[n] <= FramesPerFile
  /\ \A f \in DOMAIN d.frames : FileOf(f) \in DOMAIN d.lens /\ IndexIn(f) < d.lens[FileOf(f)]
  /\ d.lens = <<>> => d.index = <<>>
CellsFit(cells, F, c, S, W) ==
  IsLaid(F, c, S, W) /\ Standing(cells, c, S, W) /\ FromHead(cells, c) /\ NoneWithout(F, c)
CellsHold(cells, F) == \E c, S, W : CellsFit(cells, F, c, S, W)
DiskRight(d) == FilesHold(d) /\ (IsClean(d) => CellsHold(d.index[1].cells, d.frames))

(* The memory of an hour over its files, before any frame changes.         *)
FreshOver(h, d) == h \in Slots /\ DOMAIN h.frames = {} /\ h.files = FilesOfDisk(d)

LEMMA NoFramesYet ==
  ASSUME NEW h \in Slots, DOMAIN h.frames = {}
  PROVE  Range(h.dirty) = DOMAIN h.frames
BY SlotIs

LEMMA FreshFits ==
  ASSUME NEW d \in Disks, FilesHold(d), NEW h, FreshOver(h, d)
  PROVE  MemoryFits(h, d) /\ FramesOf(h, d) = d.frames
<1> DEFINE lens == d.lens
           N == Len(lens)
<1>1. /\ h \in Slots /\ DOMAIN h.frames = {} /\ h.files = [n \in DOMAIN lens |-> [count |-> lens[n], onDisk |-> lens[n]]]
      /\ lens \in Seq(Nat) /\ d.frames \in FrameMaps
  BY DEF FreshOver, FilesOfDisk, Disks
<1>2. N \in Nat /\ DOMAIN lens = 1 .. N
  BY <1>1
<1> HIDE DEF N
<1>3. Len(h.files) = N /\ DOMAIN h.files = 1 .. N
      /\ \A n \in 1 .. N : h.files[n].count = lens[n] /\ h.files[n].onDisk = lens[n]
  BY <1>1, <1>2
<1>4. FilesFit(h.files)
  <2>1. N <= MAX_DATA_FILES /\ \A n \in 1 .. N : lens[n] <= FramesPerFile
    BY DEF FilesHold, N
  <2> QED
    BY <1>3, <2>1 DEF FilesFit
<1>5. \A f \in DOMAIN d.frames : FileOf(f) \in 1 .. N /\ IndexIn(f) < lens[FileOf(f)]
  BY <1>2 DEF FilesHold
<1>6. Shown(h, d) /\ \A f \in DOMAIN h.frames \union DOMAIN d.frames : InFiles(h.files, f)
  BY <1>1, <1>3, <1>5 DEF Shown, InFiles
<1>7. MemoryFits(h, d)
  BY <1>1, <1>4, <1>6, NoFramesYet DEF MemoryFits
<1>8. FramesOf(h, d) = Over(h.frames, d.frames)
  BY <1>1, <1>7, FramesShown
<1>9. Over(h.frames, d.frames) = d.frames
  <2>1. d.frames = [f \in DOMAIN d.frames |-> d.frames[f]]
    BY <1>1, FramesAre
  <2>2. Over(h.frames, d.frames) = [f \in DOMAIN d.frames |-> d.frames[f]]
    BY <1>1 DEF Over
  <2> QED
    BY <2>1, <2>2
<1> QED
  BY <1>7, <1>8, <1>9

(* What is beside the frames does not move them, on the disk either.       *)
LEMMA RightOn ==
  ASSUME NEW d, d.frames \in FrameMaps, NEW h, NEW c, NEW S, NEW W, HourRight(h, d, c, S, W),
         NEW g \in Slots, SameFrames(g, h), NEW e, e.frames = d.frames
  PROVE  HourRight(g, e, c, S, W) /\ FramesOf(g, e) = FramesOf(h, d)
<1>1. MemoryFits(h, d)
  BY DEF HourRight, MemoryRight
<1>2. MemoryFits(g, d) /\ FramesOf(g, d) = FramesOf(h, d)
  BY <1>1, FitsWith DEF SameFrames
<1>3. MemoryFits(g, e) /\ FramesOf(g, e) = FramesOf(g, d)
  <2>1. FramesOf(g, e) = FramesOf(g, d)
    BY DEF FramesOf
  <2>2. MemoryFits(g, e)
    BY <1>2 DEF MemoryFits, Shown
  <2> QED
    BY <2>1, <2>2
<1> QED
  BY <1>2, <1>3 DEF HourRight, MemoryRight, SameFrames

(* What is found of the end of the chain leaves the rest as it was.        *)
LEMMA TailKeeps ==
  ASSUME NEW r, IsOpened(r), NEW t, t = WithTail(r)
  PROVE  /\ IsOpened(t) /\ t.d = r.d
         /\ t.h.frames = r.h.frames /\ t.h.files = r.h.files /\ t.h.rebuilt = r.h.rebuilt
         /\ t.h.failure = "" => find_tail(r.h, r.d).ok
<1> DEFINE found == find_tail(r.h, r.d)
           last == last_of(r.h.cells)
           why == IF found.ok THEN "" ELSE "the hour does not open"
           h == [r.h EXCEPT !.tail = found.tail, !.last = last, !.failure = why]
           s == [r EXCEPT !.h.tail = found.tail, !.h.last = last, !.h.failure = why]
<1>1. r.h \in Slots /\ "h" \in DOMAIN r
  BY DEF IsOpened
<1>2. IsOpened(t) /\ t.d = r.d /\ t.h.failure = why
  BY TailIsFound
<1>3. t = s
  BY DEF WithTail
<1>4. why = "" => found.ok
  OBVIOUS
<1> HIDE DEF found, last, why
<1>5. h.frames = r.h.frames /\ h.files = r.h.files /\ h.rebuilt = r.h.rebuilt
  BY <1>1 DEF Slots, SlotRecords
<1>6. s.h = h
  BY <1>1
<1> HIDE DEF h, s
<1> QED
  BY <1>2, <1>3, <1>4, <1>5, <1>6 DEF found

(* The end of the chain is found again.                                    *)
LEMMA TailIsTaken ==
  ASSUME NEW r, IsOpened(r), MemoryFits(r.h, r.d), NEW c, NEW S, NEW W,
         CellsFit(r.h.cells, FramesOf(r.h, r.d), c, S, W), NEW t, t = WithTail(r)
  PROVE  /\ IsOpened(t) /\ t.d = r.d /\ HourRight(t.h, t.d, c, S, W)
         /\ t.h.clean = r.h.clean /\ t.h.frames = r.h.frames /\ t.h.files = r.h.files
         /\ t.h.rebuilt = r.h.rebuilt
<1> DEFINE F == FramesOf(r.h, r.d)
           found == find_tail(r.h, r.d)
           last == last_of(r.h.cells)
           frame == IF last = NoSecond THEN HEAD ELSE r.h.cells[last].frame
           why == IF found.ok THEN "" ELSE "the hour does not open"
           h == [r.h EXCEPT !.tail = found.tail, !.last = last, !.failure = why]
           s == [r EXCEPT !.h.tail = found.tail, !.h.last = last, !.h.failure = why]
<1>1. r.h \in Slots /\ r.d \in Disks /\ "h" \in DOMAIN r /\ "d" \in DOMAIN r
  BY DEF IsOpened
<1>2. r.d.frames \in FrameMaps /\ r.h.cells \in Cells
  BY <1>1, SlotIs DEF Disks
<1>3. IsOpened(WithTail(r)) /\ WithTail(r).d = r.d
  BY TailIsFound
<1>4. found.tail = LastFrame(F, frame)
  BY DEF find_tail
<1>5. WithTail(r) = s
  BY DEF WithTail
<1>6. F \in FrameMaps
  BY <1>2, FramesShown
<1>7. IsLaid(F, c, S, W) /\ Standing(r.h.cells, c, S, W) /\ FromHead(r.h.cells, c) /\ NoneWithout(F, c)
  BY DEF CellsFit
<1> HIDE DEF F
<1> DEFINE cells == r.h.cells
<1>8. LastFrame(F, frame) = IF c = <<>> THEN NoFrame ELSE c[Len(c)]
  <2>1. cells \in Cells /\ Standing(cells, c, S, W) /\ FromHead(cells, c)
        /\ last = last_of(cells) /\ frame = IF last = NoSecond THEN HEAD ELSE cells[last].frame
    BY <1>2, <1>7
  <2> HIDE DEF cells, last, frame
  <2> QED
    BY <1>6, <1>7, <2>1, TailOfLaid
<1> HIDE DEF found, last, why, frame
<1>9. /\ h.tail = found.tail /\ h.cells = r.h.cells /\ h.frames = r.h.frames /\ h.files = r.h.files
      /\ h.dirty = r.h.dirty /\ h.clean = r.h.clean /\ h.rebuilt = r.h.rebuilt
  BY <1>1 DEF Slots, SlotRecords
<1>10. s.h = h
  BY <1>1
<1> HIDE DEF h, s
<1>11. t.h = h /\ t.d = r.d /\ IsOpened(t) /\ h \in Slots
  <2>1. t.h = h /\ t.d = r.d /\ IsOpened(t)
    BY <1>3, <1>5, <1>10
  <2> QED
    BY <2>1 DEF IsOpened
<1>12. MemoryFits(h, r.d) /\ FramesOf(h, r.d) = F
  BY <1>2, <1>9, <1>11, FitsWith DEF F
<1>13. HourRight(h, r.d, c, S, W)
  BY <1>4, <1>7, <1>8, <1>9, <1>12 DEF HourRight, MemoryRight
<1> QED
  BY <1>9, <1>11, <1>13

-------------------------------------------------------------------------------
(* What a walk from the head reads: whole frames, and of the last one what *)
(* is before the bytes which are no entry.                                 *)
LEMMA FirstOnes ==
  ASSUME NEW N \in Nat, NEW X \in SUBSET Nat, X \subseteq 1 .. N,
         \A k \in X : \A j \in 1 .. k : j \in X
  PROVE  Cardinality(X) \in 0 .. N /\ X = 1 .. Cardinality(X)
<1>1. ASSUME NEW m \in Nat, m <= N, X = 1 .. m
      PROVE  Cardinality(X) \in 0 .. N /\ X = 1 .. Cardinality(X)
  <2>1. Cardinality(1 .. m) = m
    BY FS_Interval
  <2> QED
    BY <1>1, <2>1
<1>2. CASE X = 1 .. N
  BY <1>1, <1>2
<1>3. CASE X # 1 .. N
  <2> DEFINE Y == (1 .. N) \ X
             l == Min(Y)
  <2>1. Y # {} /\ Y \subseteq Nat
    <3>1. \E y \in 1 .. N : y \notin X
      BY <1>3, X \subseteq 1 .. N, Zenon
    <3>2. Y \subseteq 1 .. N /\ 1 .. N \subseteq Nat
      OBVIOUS
    <3> QED
      BY <3>1, <3>2, Zenon
  <2>2. l \in Y /\ \A y \in Y : l <= y
    <3> HIDE DEF Y
    <3> QED
      BY <2>1, MinIs
  <2> HIDE DEF l
  <2>3. l \in 1 .. N /\ l \notin X
    BY <2>2
  <2>4. \A k \in 1 .. N : k < l => k \in X
    BY <2>2, <2>3
  <2>5. \A k \in X : k < l
    BY <2>3
  <2> DEFINE m == l - 1
  <2>6. m \in Nat /\ m <= N /\ m + 1 = l
    BY <2>3
  <2> HIDE DEF m
  <2>8. \A k \in X : k \in 1 .. m
    <3> TAKE k \in X
    <3>1. k \in 1 .. N /\ k < l
      BY <2>5
    <3> QED
      BY <3>1, <2>6
  <2>9. \A k \in 1 .. m : k \in X
    <3> TAKE k \in 1 .. m
    <3>1. k \in 1 .. N /\ k < l
      BY <2>6
    <3> QED
      BY <3>1, <2>4
  <2>10. X = 1 .. m
    BY <2>8, <2>9, Zenon
  <2>7. m \in Nat /\ m <= N /\ X = 1 .. m
    BY <2>6, <2>10
  <2> QED
    BY <1>1, <2>7
<1> QED
  BY <1>2, <1>3

LEMMA ReadingIs ==
  ASSUME NEW f \in Loose
  PROVE  /\ Cardinality(Reading(f)) \in 0 .. Len(f.entries)
         /\ Reading(f) = 1 .. Cardinality(Reading(f))
<1> DEFINE N == Len(f.entries)
           X == Reading(f)
<1>1. N \in Nat /\ DOMAIN f.entries = 1 .. N
  BY UsedIs
<1>2. X \in SUBSET Nat /\ X \subseteq 1 .. N
  BY <1>1 DEF Reading
<1>3. \A k \in X : \A j \in 1 .. k : j \in X
  <2> TAKE k \in X
  <2> TAKE j \in 1 .. k
  <2>1. k \in 1 .. N /\ \A i \in 1 .. k : IsEntry(f.entries[i])
    BY <1>1 DEF Reading
  <2>2. j \in 1 .. N /\ \A i \in 1 .. j : i \in 1 .. k
    BY <1>1, <2>1
  <2> QED
    BY <1>1, <2>1, <2>2 DEF Reading
<1> HIDE DEF N, X
<1>4. Cardinality(X) \in 0 .. N /\ X = 1 .. Cardinality(X)
  BY <1>1, <1>2, <1>3, FirstOnes
<1> QED
  BY <1>4 DEF N, X

LEMMA EndedFrame ==
  ASSUME NEW f \in FrameSet
  PROVE  /\ Ended(f) \in WholeFrames /\ Ended(f).next = NoFrame
         /\ \A k \in Reading(f) : /\ k \in 1 .. Len(Ended(f).entries)
                                  /\ Ended(f).entries[k] = f.entries[k]
                                  /\ OffsetOf(Ended(f), k) = OffsetOf(f, k)
<1> DEFINE e == f.entries
           m == Cardinality(Reading(f))
           g == Ended(f)
           none == 0
           P == SubSeq(e, 1, m)
<1>1. f \in Loose /\ used(f) <= FRAME_CAPACITY /\ used(f) \in Nat /\ e \in Seq(Entries)
  BY UsedIs DEF FrameSet
<1>2. m \in 0 .. Len(e) /\ Reading(f) = 1 .. m
  BY <1>1, ReadingIs
<1>3. g = [entries |-> P, next |-> NoFrame]
  BY DEF Ended
<1>4. g \in FrameSet
  <2>1. g \in Loose /\ used(g) <= used(f)
    BY <1>1, EndedIs
  <2>2. used(g) \in Nat /\ FRAME_CAPACITY \in Nat
    BY <2>1, UsedIs, FrameAssumption
  <2> QED
    BY <1>1, <2>1, <2>2 DEF FrameSet
<1>5. \A k \in 1 .. m : IsEntry(e[k])
  <2> TAKE k \in 1 .. m
  <2>1. k \in Reading(f) /\ k \in 1 .. k
    BY <1>2
  <2> QED
    BY <2>1 DEF Reading
<1> HIDE DEF e, m, g
<1>6. /\ P \in Seq(Entries) /\ Len(P) = m
      /\ \A n \in 1 .. m : P[n] = e[n]
      /\ \A n \in 0 .. m : LenOf(P, n) = LenOf(e, n)
  <2> DEFINE Q == SubSeq(e, none + 1, m)
  <2>1. none \in 0 .. Len(e) /\ m \in none .. Len(e) /\ Q = P
    BY <1>1, <1>2
  <2> HIDE DEF none, P
  <2>2. /\ Q \in Seq(Entries) /\ Len(Q) = m - none
        /\ \A n \in 1 .. m - none : Q[n] = e[none + n]
        /\ \A n \in 0 .. m - none : LenOf(Q, n) = LenOf(e, none + n) - LenOf(e, none)
    BY <1>1, <2>1, PartLengths
  <2> HIDE DEF Q
  <2>3. LenOf(e, 0) = 0 /\ \A n \in 0 .. m : LenOf(e, n) \in Nat
    BY <1>1, <1>2, LengthsAre
  <2>4. m - none = m /\ \A n \in 0 .. m : none + n = n
    BY <1>2 DEF none
  <2>5. \A n \in 0 .. m : LenOf(Q, n) = LenOf(e, n)
    <3> TAKE n \in 0 .. m
    <3>1. LenOf(Q, n) = LenOf(e, n) - LenOf(e, none)
      BY <2>2, <2>4
    <3> QED
      BY <2>3, <3>1 DEF none
  <2>6. \A n \in 1 .. m : Q[n] = e[n]
    <3> TAKE n \in 1 .. m
    <3>1. n \in 0 .. m
      OBVIOUS
    <3> QED
      BY <2>2, <2>4, <3>1
  <2> QED
    BY <2>1, <2>2, <2>4, <2>5, <2>6
<1> HIDE DEF P
<1>7. g.entries = P /\ g.next = NoFrame
  BY <1>3
<1>8. g \in WholeFrames
  BY <1>4, <1>5, <1>6, <1>7 DEF WholeFrames
<1>9. \A k \in 1 .. m : /\ k \in 1 .. Len(P) /\ P[k] = e[k]
                        /\ OffsetOf(g, k) = OffsetOf(f, k)
  <2> TAKE k \in 1 .. m
  <2>1. k - 1 \in 0 .. m
    BY <1>2
  <2>2. LenOf(P, k - 1) = LenOf(e, k - 1)
    BY <1>6, <2>1
  <2>3. OffsetOf(g, k) = OffsetOf(f, k)
    BY <1>7, <2>2 DEF OffsetOf, e
  <2> QED
    BY <1>6, <2>3
<1> QED
  BY <1>2, <1>7, <1>8, <1>9 DEF e, g

-------------------------------------------------------------------------------
(* What is read of frames from their start: the entries before what is no  *)
(* entry.                                                                  *)
ReadAmong(F, frames) ==
  {e \in FoundAmong(F, frames) :
     \E k \in Reading(F[e.frame]) :
       e.offset = OffsetOf(F[e.frame], k) /\ e.entry = F[e.frame].entries[k]}

LEMMA StartReads ==
  ASSUME NEW f \in Loose
  PROVE  /\ Before(f, FRAME_HEADER_LEN) = 0
         /\ Reads(f, FRAME_HEADER_LEN) = Cardinality(Reading(f))
<1> DEFINE j == 1
<1>1. j \in 1 .. Len(f.entries) + 1
  BY UsedIs
<1>2. OffsetOf(f, 1) = FRAME_HEADER_LEN
      /\ \A i \in 1 .. Len(f.entries) + 1 : Before(f, OffsetOf(f, i)) = i - 1
  BY BordersAre
<1>3. OffsetOf(f, j) = FRAME_HEADER_LEN /\ j - 1 = 0
  BY <1>2
<1> HIDE DEF j
<1>4. Before(f, FRAME_HEADER_LEN) = 0
  BY <1>1, <1>2, <1>3
<1>5. IsBoundary(f, FRAME_HEADER_LEN)
  BY StartIsABoundary
<1> QED
  BY <1>4, <1>5 DEF Reads

LEMMA EntriesRead ==
  ASSUME NEW F \in FrameMaps, NEW frame \in DOMAIN F
  PROVE  EntriesFrom(frame, F[frame], FRAME_HEADER_LEN) \in Seq(ReadAmong(F, {frame}))
<1> DEFINE f == F[frame]
           from == FRAME_HEADER_LEN
           m == Cardinality(Reading(f))
           At(i) == [frame |-> frame, offset |-> OffsetOf(f, i), entry |-> f.entries[i]]
           X == ReadAmong(F, {frame})
           s == EntriesFrom(frame, f, from)
           Y == FoundAmong(F, {frame})
<1>1. f \in Loose
  <2>1. f \in FrameSet
    BY FramesAre
  <2> QED
    BY <2>1 DEF FrameSet
<1>2. Before(f, from) = 0 /\ Reads(f, from) = m
  BY <1>1, StartReads
<1>3. m \in 0 .. Len(f.entries) /\ Reading(f) = 1 .. m
  BY <1>1, ReadingIs
<1>4. s \in Seq(Y)
  <2>1. from \in Int
    BY FrameAssumption
  <2> QED
    BY <2>1, EntriesOfFrame
<1> HIDE DEF from, m, f
<1>5. s = [i \in 1 .. m |-> At(i)]
  <2> DEFINE none == Before(f, from)
             reads == Reads(f, from)
  <2>1. s = [i \in 1 .. reads - none |->
               [frame |-> frame, offset |-> OffsetOf(f, none + i), entry |-> f.entries[none + i]]]
    BY DEF EntriesFrom
  <2>2. none = 0 /\ reads = m /\ m \in Nat
    BY <1>1, <1>2, <1>3, UsedIs
  <2> HIDE DEF none, reads, s
  <2>3. reads - none = m /\ \A i \in 1 .. m : none + i = i
    BY <2>2
  <2> QED
    BY <2>1, <2>3
<1> HIDE DEF s, Y
<1>6. m \in Nat /\ Len(s) = m /\ \A i \in 1 .. m : s[i] = At(i) /\ s[i] \in Y
  <2>1. m \in Nat
    BY <1>1, <1>3, UsedIs
  <2> HIDE DEF At
  <2>2. Len(s) = m /\ \A i \in 1 .. m : s[i] = At(i)
    BY <1>5, <2>1
  <2>3. \A i \in 1 .. Len(s) : s[i] \in Y
    BY <1>4
  <2> QED
    BY <2>1, <2>2, <2>3
<1>7. \A i \in 1 .. m : s[i] \in X
  <2> TAKE i \in 1 .. m
  <2>1. i \in Reading(f) /\ s[i] \in Y /\ s[i].frame = frame
        /\ s[i].offset = OffsetOf(f, i) /\ s[i].entry = f.entries[i]
    BY <1>3, <1>6
  <2> QED
    BY <2>1 DEF ReadAmong, Y, f
<1> HIDE DEF X, At
<1>8. s \in Seq(X)
  BY <1>5, <1>6, <1>7
<1> QED
  BY <1>8 DEF s, f, from, X

LEMMA WholeFrameReads ==
  ASSUME NEW f \in FrameSet, Reads(f, FRAME_HEADER_LEN) = Len(f.entries)
  PROVE  f \in WholeFrames
<1>1. f \in Loose
  BY DEF FrameSet
<1>2. Cardinality(Reading(f)) = Len(f.entries) /\ Reading(f) = 1 .. Cardinality(Reading(f))
  BY <1>1, StartReads, ReadingIs
<1>3. \A k \in 1 .. Len(f.entries) : IsEntry(f.entries[k])
  <2> TAKE k \in 1 .. Len(f.entries)
  <2>1. k \in Reading(f)
    BY <1>2
  <2>2. k \in 1 .. k
    BY <1>1, UsedIs
  <2> QED
    BY <2>1, <2>2 DEF Reading
<1> QED
  BY <1>3 DEF WholeFrames

(* A walk from the head: the frames before the last one read whole, and so *)
(* does the last one when the walk is right.                               *)
HeadWalked(F, chain, walk, n) ==
  /\ walk.last = chain[n]
  /\ \A j \in 1 .. n - 1 : F[chain[j]] \in WholeFrames
  /\ walk.ok => F[chain[n]] \in WholeFrames /\ F[chain[n]].next = NoFrame
  /\ walk.entries \in Seq(ReadAmong(F, {chain[i] : i \in 1 .. n}))
LEMMA HeadWalk ==
  ASSUME NEW F \in FrameMaps, HEAD \in DOMAIN F, NEW chain, chain = Follow(F, HEAD),
         NEW walk, walk = Chain(F)
  PROVE  /\ chain \in ChainsFrom(F, HEAD) /\ chain \in Seq(DOMAIN F) /\ Len(chain) \in Nat
         /\ \E n \in 1 .. Len(chain) : HeadWalked(F, chain, walk, n)
<1> DEFINE IsWhole(i) == Reads(F[chain[i]], FRAME_HEADER_LEN) = Len(F[chain[i]].entries)
           W == {i \in DOMAIN chain : \A j \in 1 .. i - 1 : IsWhole(j)}
           n == Cardinality(W)
           N == Len(chain)
           Part(i) == EntriesFrom(chain[i], F[chain[i]], FRAME_HEADER_LEN)
           parts == [i \in 1 .. n |-> Part(i)]
           X == ReadAmong(F, {chain[i] : i \in 1 .. n})
<1>1. chain \in ChainsFrom(F, HEAD)
  BY FollowIs
<1>2. chain \in Seq(DOMAIN F) /\ chain # <<>> /\ N \in Nat /\ DOMAIN chain = 1 .. N /\ N >= 1
  BY <1>1 DEF ChainsFrom, IsChain
<1>3. walk = [entries |-> FlattenSeq(parts), last |-> chain[n],
              ok |-> IsWhole(n) /\ F[chain[n]].next = NoFrame]
  <2>1. Head1.frame = HEAD /\ Head1.offset = FRAME_HEADER_LEN
    BY DEF Head1
  <2> QED
    BY <1>2, <2>1 DEF Chain, WalkFrom
<1> HIDE DEF N, IsWhole
<1>4. n \in 0 .. N /\ W = 1 .. n
  <2>1. W \in SUBSET Nat /\ W \subseteq 1 .. N
    BY <1>2
  <2>2. \A k \in W : \A j \in 1 .. k : j \in W
    <3> TAKE k \in W
    <3> TAKE j \in 1 .. k
    <3>1. k \in 1 .. N /\ j \in 1 .. N /\ \A i \in 1 .. k - 1 : IsWhole(i)
      BY <1>2
    <3>2. \A i \in 1 .. j - 1 : i \in 1 .. k - 1
      BY <1>2, <3>1
    <3>3. \A i \in 1 .. j - 1 : IsWhole(i)
      BY <3>1, <3>2
    <3> QED
      BY <1>2, <3>1, <3>3
  <2> HIDE DEF W
  <2> QED
    BY <1>2, <2>1, <2>2, FirstOnes
<1>5. 1 \in W
  BY <1>2
<1>6. n \in 1 .. N /\ n \in W /\ n \in Nat
  <2> HIDE DEF n, W
  <2> QED
    BY <1>2, <1>4, <1>5
<1>7. \A j \in 1 .. n - 1 : IsWhole(j)
  <2> DEFINE k == n
  <2>1. k \in W
    BY <1>6
  <2>2. \A j \in 1 .. k - 1 : IsWhole(j)
    <3> HIDE DEF k
    <3> QED
      BY <2>1
  <2> QED
    BY <2>2
<1> HIDE DEF n, W
<1>8. \A j \in 1 .. N : IsWhole(j) => F[chain[j]] \in WholeFrames
  <2> TAKE j \in 1 .. N
  <2> DEFINE f == F[chain[j]]
  <2>1. f \in FrameSet
    BY <1>2, FramesAre
  <2>2. IsWhole(j) => Reads(f, FRAME_HEADER_LEN) = Len(f.entries)
    BY DEF IsWhole
  <2> HIDE DEF f
  <2>3. IsWhole(j) => f \in WholeFrames
    BY <2>1, <2>2, WholeFrameReads
  <2> QED
    BY <2>3 DEF f
<1>9. \A i \in 1 .. n : Part(i) \in Seq(X)
  <2> TAKE i \in 1 .. n
  <2>1. chain[i] \in DOMAIN F
    BY <1>2, <1>6
  <2>2. Part(i) \in Seq(ReadAmong(F, {chain[i]}))
    <3> DEFINE frame == chain[i]
    <3> HIDE DEF frame
    <3>1. EntriesFrom(frame, F[frame], FRAME_HEADER_LEN) \in Seq(ReadAmong(F, {frame}))
      BY <2>1, EntriesRead DEF frame
    <3> QED
      BY <3>1 DEF frame
  <2>3. ReadAmong(F, {chain[i]}) \subseteq X
    BY DEF ReadAmong, FoundAmong
  <2> HIDE DEF Part, X
  <2> QED
    BY <2>2, <2>3, SeqOfMore
<1> HIDE DEF Part, X
<1>10. FlattenSeq(parts) \in Seq(X)
  <2>1. parts \in Seq(Seq(X))
    BY <1>6, <1>9
  <2> QED
    BY <2>1, FlattenType
<1> HIDE DEF parts
<1>11. /\ walk.last = chain[n] /\ walk.entries = FlattenSeq(parts)
       /\ walk.ok => IsWhole(n) /\ F[chain[n]].next = NoFrame
  <2> DEFINE ok == IsWhole(n) /\ F[chain[n]].next = NoFrame
             all == FlattenSeq(parts)
             last == chain[n]
  <2>1. walk = [entries |-> all, last |-> last, ok |-> ok]
    BY <1>3
  <2>2. ok => IsWhole(n) /\ F[chain[n]].next = NoFrame
    OBVIOUS
  <2> HIDE DEF ok, all, last
  <2>3. walk.last = last /\ walk.entries = all /\ walk.ok = ok
    BY <2>1
  <2> QED
    BY <2>2, <2>3 DEF all, last
<1>12. \A j \in 1 .. n - 1 : F[chain[j]] \in WholeFrames
  <2> TAKE j \in 1 .. n - 1
  <2>1. j \in 1 .. N
    BY <1>2, <1>6
  <2> QED
    BY <1>7, <1>8, <2>1
<1>13. HeadWalked(F, chain, walk, n)
  BY <1>6, <1>8, <1>10, <1>11, <1>12 DEF HeadWalked, X
<1> QED
  BY <1>1, <1>2, <1>6, <1>13 DEF N

-------------------------------------------------------------------------------
(* What a rebuild leaves of the frames: the walk from the head is laid out *)
(* once its last frame is ended, and the cells are where its entries are.  *)
EndedAfter(F, walk, G) ==
  /\ G \in FrameMaps /\ DOMAIN G = DOMAIN F
  /\ walk.ok => G = F
  /\ ~walk.ok => /\ G[walk.last] = Ended(F[walk.last])
                 /\ \A f \in DOMAIN F : f # walk.last => G[f] = F[f]

LEMMA EndedFrameOf ==
  ASSUME NEW F \in FrameMaps, NEW walk, walk.last \in DOMAIN F, NEW G, EndedAfter(F, walk, G),
         NEW f \in DOMAIN F, NEW k \in Reading(F[f])
  PROVE  /\ k \in 1 .. Len(G[f].entries) /\ G[f].entries[k] = F[f].entries[k]
         /\ OffsetOf(G[f], k) = OffsetOf(F[f], k)
<1> DEFINE g == F[f]
<1>1. g \in FrameSet
  BY FramesAre
<1>2. k \in 1 .. Len(g.entries)
  <2>1. g \in Loose
    BY <1>1 DEF FrameSet
  <2>2. DOMAIN g.entries = 1 .. Len(g.entries)
    BY <2>1, UsedIs
  <2> QED
    BY <2>2 DEF Reading
<1>3. CASE G[f] = g
  BY <1>2, <1>3
<1>4. CASE G[f] = Ended(g)
  <2>1. k \in Reading(g)
    OBVIOUS
  <2> HIDE DEF g
  <2>2. /\ k \in 1 .. Len(Ended(g).entries) /\ Ended(g).entries[k] = g.entries[k]
        /\ OffsetOf(Ended(g), k) = OffsetOf(g, k)
    BY <1>1, <2>1, EndedFrame
  <2> QED
    BY <1>4, <2>2 DEF g
<1> QED
  BY <1>3, <1>4 DEF EndedAfter

LEMMA ReadIsFound ==
  ASSUME NEW F \in FrameMaps, NEW walk, walk.last \in DOMAIN F, NEW G, EndedAfter(F, walk, G),
         NEW C, NEW e \in ReadAmong(F, C)
  PROVE  e \in FoundAmong(G, C)
<1>1. e \in FoundIn(F) /\ e.frame \in C
  BY DEF ReadAmong, FoundAmong
<1>2. PICK k \in Reading(F[e.frame]) :
        e.offset = OffsetOf(F[e.frame], k) /\ e.entry = F[e.frame].entries[k]
  BY DEF ReadAmong
<1>3. e \in [frame : DOMAIN F, offset : Int, entry : Entries] /\ e.frame \in DOMAIN F
  BY <1>1 DEF FoundIn
<1> DEFINE f == e.frame
<1>4. f \in DOMAIN F /\ k \in Reading(F[f])
  BY <1>2, <1>3
<1> HIDE DEF f
<1>5. /\ k \in 1 .. Len(G[f].entries) /\ G[f].entries[k] = F[f].entries[k]
      /\ OffsetOf(G[f], k) = OffsetOf(F[f], k)
  BY <1>4, EndedFrameOf
<1>6. DOMAIN G = DOMAIN F
  BY DEF EndedAfter
<1>7. e \in [frame : DOMAIN G, offset : Int, entry : Entries]
  BY <1>3, <1>6
<1>8. e.offset = OffsetOf(G[e.frame], k) /\ e.entry = G[e.frame].entries[k]
      /\ k \in 1 .. Len(G[e.frame].entries)
  BY <1>2, <1>5 DEF f
<1>9. e \in FoundIn(G)
  BY <1>7, <1>8 DEF FoundIn
<1> QED
  BY <1>1, <1>9 DEF FoundAmong

(* The cells of a walk stand where it found the entries.                   *)
LEMMA CellsOfWalkStand ==
  ASSUME NEW F \in FrameMaps, NEW c, NEW S, NEW W, IsLaid(F, c, S, W),
         NEW walk, walk.entries \in Seq(FoundAmong(F, {c[j] : j \in 1 .. Len(c)}))
  PROVE  Standing(CellsOf(walk), c, S, W)
<1> DEFINE C == {c[j] : j \in 1 .. Len(c)}
           X == FoundAmong(F, C)
           cells == CellsOf(walk)
<1>1. SUFFICES ASSUME NEW s \in Seconds, cells[s] # NoCell
               PROVE  \E m : StandsAt(c, S, W, cells[s], m, FALSE)
  BY DEF Standing
<1> DEFINE of == {i \in DOMAIN walk.entries : second_of(walk.entries[i].entry.time) = s}
           e == walk.entries[Min(of)]
<1>2. of # {} /\ cells[s] = [frame |-> e.frame, offset |-> e.offset]
  BY <1>1 DEF CellsOf
<1>3. of \subseteq Nat /\ of \subseteq 1 .. Len(walk.entries)
  <2>1. DOMAIN walk.entries = 1 .. Len(walk.entries) /\ Len(walk.entries) \in Nat
    OBVIOUS
  <2> QED
    BY <2>1
<1> HIDE DEF of
<1>4. Min(of) \in 1 .. Len(walk.entries)
  <2>1. Min(of) \in of
    BY <1>2, <1>3, MinIs
  <2> QED
    BY <1>3, <2>1
<1>5. e \in X
  BY <1>4
<1> HIDE DEF e, cells, X
<1>6. e \in FoundAmong(F, {c[j] : j \in 1 .. Len(c)})
  BY <1>5 DEF X
<1>7. PICK i \in 1 .. Len(c) : \E k \in S[i] .. S[i + 1] - 1 :
        e.frame = c[i] /\ e.offset = BorderOf(S, W, i, k) /\ k \in Nat
  <2>1. \E i \in 1 .. Len(c) : \E k \in S[i] .. S[i + 1] - 1 :
           /\ e.frame = c[i] /\ e.offset = BorderOf(S, W, i, k) /\ e.entry = W[k + 1]
           /\ e.offset = OffsetOf(F[c[i]], k - S[i] + 1) /\ k \in 0 .. Len(W) - 1 /\ k \in Nat
    BY <1>6, FoundStands
  <2> QED
    BY <2>1
<1>8. PICK k \in S[i] .. S[i + 1] - 1 :
        e.frame = c[i] /\ e.offset = BorderOf(S, W, i, k) /\ k \in Nat
  BY <1>7
<1>9. cells[s] = PlaceOf(c, S, W, i, k)
  BY <1>2, <1>8 DEF PlaceOf
<1>10. S[i] <= k /\ k <= S[i + 1]
  <2>1. S[i] \in Nat /\ S[i + 1] \in Nat
    BY FrameInLaid
  <2> QED
    BY <1>8, <2>1
<1> QED
  BY <1>8, <1>9, <1>10 DEF StandsAt

LEMMA StartOf ==
  ASSUME NEW D, NEW c \in Seq(D), NEW n \in 1 .. Len(c), NEW p, p = SubSeq(c, 1, n)
  PROVE  p \in Seq(D) /\ Len(p) = n /\ \A i \in 1 .. n : p[i] = c[i]
BY PartIs

LEMMA WalkIsLaid ==
  ASSUME NEW F \in FrameMaps, HEAD \in DOMAIN F, NEW walk, walk = Chain(F),
         NEW G, EndedAfter(F, walk, G)
  PROVE  CellsHold(CellsOf(walk), G)
<1> DEFINE chain == Follow(F, HEAD)
<1>1. /\ chain \in ChainsFrom(F, HEAD) /\ chain \in Seq(DOMAIN F) /\ Len(chain) \in Nat
      /\ \E n \in 1 .. Len(chain) : HeadWalked(F, chain, walk, n)
  BY HeadWalk
<1> HIDE DEF chain
<1>2. PICK n \in 1 .. Len(chain) : HeadWalked(F, chain, walk, n)
  BY <1>1
<1>3. /\ walk.last = chain[n]
      /\ \A j \in 1 .. n - 1 : F[chain[j]] \in WholeFrames
      /\ walk.ok => F[chain[n]] \in WholeFrames /\ F[chain[n]].next = NoFrame
      /\ walk.entries \in Seq(ReadAmong(F, {chain[i] : i \in 1 .. n}))
  BY <1>2 DEF HeadWalked
<1>3a. walk.last \in DOMAIN F
  BY <1>1, <1>2, <1>3
<1>4. /\ \A i, j \in 1 .. Len(chain) : chain[i] = chain[j] => i = j
      /\ \A i \in 1 .. Len(chain) - 1 : F[chain[i]].next = chain[i + 1]
      /\ chain[1] = HEAD
  BY <1>1 DEF ChainsFrom, IsChain
<1> DEFINE c == SubSeq(chain, 1, n)
<1>5. c \in Seq(DOMAIN F) /\ Len(c) = n /\ \A i \in 1 .. n : c[i] = chain[i]
  BY <1>1, <1>2, StartOf
<1>6. n \in Nat /\ n >= 1 /\ n <= Len(chain) /\ \A i \in 1 .. n : i \in 1 .. Len(chain)
  BY <1>1, <1>2
<1> HIDE DEF c
<1>7. G \in FrameMaps /\ DOMAIN G = DOMAIN F
  BY DEF EndedAfter
<1>8. \A i \in 1 .. n : G[c[i]] \in WholeFrames /\ G[c[i]].next = NextIn(c, i)
  <2> TAKE i \in 1 .. n
  <2>1. c[i] = chain[i] /\ chain[i] \in DOMAIN F
    BY <1>1, <1>5, <1>6
  <2>2. CASE i # n
    <3>1. i \in 1 .. n - 1 /\ i \in 1 .. Len(chain) - 1 /\ i + 1 \in 1 .. n
      BY <1>1, <1>6, <2>2
    <3>2. chain[i] # walk.last
      BY <1>3, <1>4, <1>6, <2>2
    <3>3. G[chain[i]] = F[chain[i]]
      BY <2>1, <3>2 DEF EndedAfter
    <3>4. F[chain[i]] \in WholeFrames /\ F[chain[i]].next = chain[i + 1] /\ c[i + 1] = chain[i + 1]
      BY <1>3, <1>4, <1>5, <3>1
    <3>5. NextIn(c, i) = chain[i + 1]
      BY <1>5, <2>2, <3>4 DEF NextIn
    <3> QED
      BY <2>1, <3>3, <3>4, <3>5
  <2>3. CASE i = n
    <3>1. NextIn(c, i) = NoFrame
      BY <1>5, <2>3 DEF NextIn
    <3>2. CASE walk.ok
      <4>1. G = F
        BY <3>2 DEF EndedAfter
      <4> QED
        BY <1>3, <2>1, <2>3, <3>1, <3>2, <4>1
    <3>3. CASE ~walk.ok
      <4> DEFINE f == F[walk.last]
      <4>1. f \in FrameSet /\ G[walk.last] = Ended(f)
        BY <1>3a, <3>3, FramesAre DEF EndedAfter
      <4> HIDE DEF f
      <4>2. Ended(f) \in WholeFrames /\ Ended(f).next = NoFrame
        BY <4>1, EndedFrame
      <4> QED
        BY <1>3, <2>1, <2>3, <3>1, <4>1, <4>2
    <3> QED
      BY <3>2, <3>3
  <2> QED
    BY <2>2, <2>3
<1>9. \A i, j \in 1 .. Len(c) : c[i] = c[j] => i = j
  BY <1>4, <1>5, <1>6
<1>10. PICK S, W : IsLaid(G, c, S, W)
  <2>1. c \in Seq(DOMAIN G) /\ \A i \in 1 .. Len(c) : G[c[i]] \in WholeFrames /\ G[c[i]].next = NextIn(c, i)
    BY <1>5, <1>7, <1>8
  <2> QED
    BY <1>9, <2>1, WholeChainIsLaid
<1>11. walk.entries \in Seq(FoundAmong(G, {c[j] : j \in 1 .. Len(c)}))
  <2> DEFINE C == {chain[i] : i \in 1 .. n}
             A == ReadAmong(F, C)
             B == FoundAmong(G, C)
  <2>1. {c[j] : j \in 1 .. Len(c)} = C
    BY <1>5
  <2> HIDE DEF C
  <2>2. A \subseteq B
    BY <1>3a, ReadIsFound
  <2>3. walk.entries \in Seq(A)
    BY <1>3 DEF C
  <2> HIDE DEF A, B
  <2>4. walk.entries \in Seq(B)
    BY <2>2, <2>3, SeqOfMore
  <2> QED
    BY <2>1, <2>4 DEF B
<1>12. Standing(CellsOf(walk), c, S, W)
  BY <1>7, <1>10, <1>11, CellsOfWalkStand
<1>13. c # <<>> /\ c[1] = HEAD
  BY <1>4, <1>5, <1>6
<1>14. CellsFit(CellsOf(walk), G, c, S, W)
  BY <1>10, <1>12, <1>13 DEF CellsFit, FromHead, NoneWithout
<1> QED
  BY <1>14 DEF CellsHold

-------------------------------------------------------------------------------
(* An hour whose cells were found again: its files hold what they should,  *)
(* and the index which is written has the cells found.                     *)
FoundAgain(r) ==
  /\ IsOpened(r) /\ FreshOver(r.h, r.d) /\ FilesHold(r.d)
  /\ r.h.clean /\ r.h.rebuilt /\ r.h.frames = <<>>
  /\ r.d.index # <<>> /\ r.d.index[1].cells = r.h.cells
  /\ CellsHold(r.h.cells, r.d.frames)

LEMMA NothingFits ==
  CellsFit(NoCells, <<>>, <<>>, <<0>>, <<>>)
<1> DEFINE c == <<>>
           F == <<>>
           S == <<0>>
           W == <<>>
           one == Len(c) + 1
<1>1. c \in Seq(DOMAIN F) /\ Len(c) = 0 /\ W \in Seq(Entries) /\ Len(W) = 0 /\ c = <<>>
  OBVIOUS
<1>2. S \in Seq(Nat) /\ Len(S) = 1 /\ S[1] = 0
  OBVIOUS
<1>3. IsLaid(F, c, S, W)
  <2> HIDE DEF c, F, S, W
  <2> QED
    BY <1>1, <1>2 DEF IsLaid
<1>4. Standing(NoCells, c, S, W)
  <2>1. \A s \in Seconds : NoCells[s] = NoCell
    BY DEF NoCells
  <2> QED
    BY <2>1 DEF Standing
<1>5. FromHead(NoCells, c) /\ NoneWithout(F, c)
  BY DEF FromHead, NoneWithout
<1>6. CellsFit(NoCells, F, c, S, W)
  <2> HIDE DEF c, F, S, W
  <2> QED
    BY <1>3, <1>4, <1>5 DEF CellsFit
<1> QED
  BY <1>6

LEMMA NothingHolds ==
  CellsHold(NoCells, <<>>)
BY NothingFits DEF CellsHold

LEMMA NothingFoundAgain ==
  ASSUME NEW d \in Disks, FilesHold(d), d.lens # <<>>, NEW h, FreshOver(h, d), h.frames = <<>>,
         NEW r, r = NothingFound(h, d)
  PROVE  FoundAgain(r)
<1> DEFINE none == <<>>
           files == EmptyFiles(h.files)
           found == [h EXCEPT !.cells = NoCells, !.counts = NoCounts, !.frames = none,
                              !.clean = TRUE, !.rebuilt = TRUE, !.files = files]
           lens == [n \in DOMAIN d.lens |-> 0]
           file == IndexFile(found)
           index == <<file>>
           empty == [d EXCEPT !.torn = FALSE, !.frames = none, !.lens = lens, !.index = index]
           N == Len(d.lens)
<1>1. r.h = found /\ r.d = empty
  BY DEF NothingFound
<1>2. IsOpened(r)
  <2>1. h \in Slots
    BY DEF FreshOver
  <2> QED
    BY <2>1, NothingFoundIs
<1>3. h \in SlotRecords /\ h.files = FilesOfDisk(d) /\ d.lens \in Seq(Nat)
  BY DEF FreshOver, Slots, Disks
<1>4. N \in Nat /\ DOMAIN d.lens = 1 .. N /\ N # 0
  BY <1>3
<1> HIDE DEF N
<1>5. DOMAIN h.files = 1 .. N
  BY <1>3, <1>4 DEF FilesOfDisk
<1>6. files = [n \in 1 .. N |-> [count |-> 0, onDisk |-> 0]]
  BY <1>5 DEF EmptyFiles
<1>7. lens = [n \in 1 .. N |-> 0]
  BY <1>4
<1> HIDE DEF files, lens
<1>8. lens \in Seq(Nat) /\ Len(lens) = N /\ DOMAIN lens = 1 .. N /\ lens # <<>>
      /\ \A n \in 1 .. N : lens[n] = 0
  BY <1>4, <1>7
<1>9. found.files = files /\ found.cells = NoCells /\ found.frames = none /\ found.clean /\ found.rebuilt
  BY <1>3 DEF SlotRecords
<1>10. file.cells = found.cells
  BY DEF IndexFile
<1> HIDE DEF found, file
<1>11. index # <<>> /\ index[1] = file
  OBVIOUS
<1> HIDE DEF index
<1>12. empty.frames = none /\ empty.lens = lens /\ empty.index = index
  BY DEF Disks
<1> HIDE DEF empty
<1>13. FilesOfDisk(empty) = files
  BY <1>6, <1>8, <1>12 DEF FilesOfDisk
<1>14. DOMAIN none = {}
  OBVIOUS
<1> HIDE DEF none
<1>15. FreshOver(r.h, r.d)
  BY <1>1, <1>2, <1>9, <1>13, <1>14 DEF FreshOver, IsOpened
<1>16. FilesHold(r.d)
  <2>1. N <= MAX_DATA_FILES /\ FramesPerFile \in Nat
    BY HourFileAssumption DEF FilesHold, N
  <2> QED
    BY <1>1, <1>8, <1>12, <1>14, <2>1 DEF FilesHold
<1>17. CellsHold(r.h.cells, r.d.frames)
  BY <1>1, <1>9, <1>12, NothingHolds DEF none
<1> QED
  BY <1>1, <1>2, <1>9, <1>10, <1>11, <1>12, <1>15, <1>16, <1>17 DEF FoundAgain, none

LEMMA FoundFoundAgain ==
  ASSUME NEW d \in Disks, FilesHold(d), d.lens # <<>>, NEW h, FreshOver(h, d), h.frames = <<>>,
         HEAD \in DOMAIN d.frames, NEW r, r = Found(h, d, Chain(d.frames))
  PROVE  FoundAgain(r)
<1> DEFINE none == <<>>
           F == d.frames
           walk == Chain(F)
           last == walk.last
           cells == CellsOf(walk)
           counts == CountsOf(walk)
           found == [h EXCEPT !.cells = cells, !.counts = counts, !.frames = none,
                              !.clean = TRUE, !.rebuilt = TRUE]
           ended == Updated(F, last, Ended(F[last]))
           frames == IF walk.ok THEN F ELSE ended
           file == IndexFile(found)
           index == <<file>>
           left == [d EXCEPT !.torn = FALSE, !.frames = frames, !.index = index]
<1>1. r.h = found /\ r.d = left
  BY DEF Found
<1>2. h \in Slots /\ h \in SlotRecords /\ h.files = FilesOfDisk(d) /\ F \in FrameMaps
  BY DEF FreshOver, Slots, Disks
<1>3. FramesOf(h, d) = F
  BY FreshFits
<1>4. IsOpened(r)
  <2>1. HEAD \in DOMAIN FramesOf(h, d) /\ r = Found(h, d, Chain(FramesOf(h, d)))
    BY <1>3
  <2> HIDE DEF F
  <2> QED
    BY <1>2, <2>1, FoundIs
<1>5. last \in DOMAIN F
  <2> DEFINE chain == Follow(F, HEAD)
             w == walk
  <2>1. chain = Follow(F, HEAD) /\ w = Chain(F) /\ HEAD \in DOMAIN F
    OBVIOUS
  <2> HIDE DEF chain, w, F
  <2>2. chain \in Seq(DOMAIN F) /\ \E n \in 1 .. Len(chain) : HeadWalked(F, chain, w, n)
    BY <1>2, <2>1, HeadWalk
  <2>3. \E n \in 1 .. Len(chain) : w.last = chain[n]
    BY <2>2 DEF HeadWalked
  <2>4. w.last \in DOMAIN F
    BY <2>2, <2>3
  <2> QED
    BY <2>4 DEF w
<1> HIDE DEF F, walk
<1>6. EndedAfter(F, walk, frames)
  <2>1. F[last] \in FrameSet /\ last \in Nat
    BY <1>2, <1>5, FramesAre
  <2> DEFINE f == F[last]
             g == Ended(f)
  <2>2. g \in FrameSet
    <3> HIDE DEF f
    <3>1. f \in FrameSet
      BY <2>1 DEF f
    <3>2. g \in WholeFrames
      BY <3>1, EndedFrame
    <3> QED
      BY <3>2 DEF WholeFrames
  <2>3. ended = Updated(F, last, g)
    OBVIOUS
  <2> HIDE DEF g
  <2>4. ended \in FrameMaps /\ DOMAIN ended = DOMAIN F \union {last}
    <3> DEFINE x == last
               put == Updated(F, x, g)
    <3>1. x \in Nat /\ put = ended
      BY <2>1, <2>3
    <3> HIDE DEF x
    <3>2. put \in FrameMaps /\ DOMAIN put = DOMAIN F \union {x}
      BY <1>2, <2>2, <3>1, FrameIsPut
    <3> HIDE DEF put, ended
    <3> QED
      BY <3>1, <3>2 DEF x
  <2>5. ended[last] = g /\ \A x \in DOMAIN F : x # last => ended[x] = F[x]
    BY <1>5, <2>3 DEF Updated
  <2> HIDE DEF ended
  <2>6. DOMAIN ended = DOMAIN F
    BY <1>5, <2>4
  <2> QED
    BY <1>2, <2>4, <2>5, <2>6 DEF EndedAfter, g
<1> HIDE DEF frames, last
<1>7. CellsHold(cells, frames)
  <2>1. HEAD \in DOMAIN F /\ walk = Chain(F)
    BY DEF F, walk
  <2> QED
    BY <1>2, <1>6, <2>1, WalkIsLaid
<1> HIDE DEF cells, counts
<1>8. DOMAIN frames = DOMAIN d.frames
  BY <1>6 DEF EndedAfter, F
<1>9. found.files = h.files /\ found.cells = cells /\ found.frames = none /\ found.clean /\ found.rebuilt
  BY <1>2 DEF SlotRecords
<1>10. file.cells = found.cells
  BY DEF IndexFile
<1> HIDE DEF found, file
<1>11. index # <<>> /\ index[1] = file
  OBVIOUS
<1> HIDE DEF index
<1>12. left.frames = frames /\ left.lens = d.lens /\ left.index = index
  BY DEF Disks
<1> HIDE DEF left
<1>13. FilesOfDisk(left) = h.files
  BY <1>2, <1>12 DEF FilesOfDisk
<1>14. DOMAIN none = {}
  OBVIOUS
<1> HIDE DEF none
<1>15. FreshOver(r.h, r.d)
  BY <1>1, <1>4, <1>9, <1>13, <1>14 DEF FreshOver, IsOpened
<1>16. FilesHold(r.d)
  BY <1>1, <1>8, <1>12 DEF FilesHold
<1> QED
  BY <1>1, <1>4, <1>7, <1>9, <1>10, <1>11, <1>12, <1>15, <1>16 DEF FoundAgain, none

(* Whatever the frames of the files are, a rebuild leaves a chain of whole *)
(* frames whose cells stand where their seconds start to be found.         *)
LEMMA RebuildFinds ==
  ASSUME NEW d \in Disks, FilesHold(d), d.lens # <<>>, NEW h, FreshOver(h, d), h.frames = <<>>,
         NEW r, r = rebuild(h, d)
  PROVE  FoundAgain(r)
<1>1. [h EXCEPT !.frames = <<>>] = h
  <2>1. h \in SlotRecords
    BY DEF Slots, FreshOver
  <2> DEFINE none == <<>>
  <2>2. h.frames = none
    OBVIOUS
  <2> HIDE DEF none
  <2>3. [h EXCEPT !.frames = none] = h
    BY <2>1, <2>2 DEF SlotRecords
  <2> QED
    BY <2>3 DEF none
<1>2. FramesOf(h, d) = d.frames
  BY FreshFits
<1>3. r = IF HEAD \in DOMAIN d.frames THEN Found(h, d, Chain(d.frames)) ELSE NothingFound(h, d)
  BY <1>1, <1>2 DEF rebuild
<1> QED
  BY <1>3, NothingFoundAgain, FoundFoundAgain

-------------------------------------------------------------------------------
(* An hour which was opened: its memory and its files are as they should   *)
(* be, and an index which is not marked is not known to be dirty.          *)
OpenedRight(r) ==
  IsOpened(r) /\ HourIsRight(r.h, r.d) /\ DiskRight(r.d) /\ (IsClean(r.d) => r.h.clean)
OpenedAlike(u, t) ==
  /\ SameFrames(u.h, t.h) /\ u.h.clean = t.h.clean /\ u.h.rebuilt = t.h.rebuilt
  /\ u.d.frames = t.d.frames /\ u.d.lens = t.d.lens /\ u.d.index = t.d.index

LEMMA AlikeRight ==
  ASSUME NEW t, OpenedRight(t), NEW u, IsOpened(u), OpenedAlike(u, t)
  PROVE  OpenedRight(u)
<1>1. HourIsRight(t.h, t.d) /\ t.d \in Disks /\ u.h \in Slots
  BY DEF OpenedRight, IsOpened
<1>2. t.d.frames \in FrameMaps
  BY <1>1 DEF Disks
<1>3. HourIsRight(u.h, u.d)
  <2>1. PICK c, S, W : HourRight(t.h, t.d, c, S, W)
    BY <1>1 DEF HourIsRight
  <2> DEFINE h == t.h
             d == t.d
             g == u.h
             e == u.d
  <2>2. d.frames \in FrameMaps /\ HourRight(h, d, c, S, W) /\ g \in Slots /\ SameFrames(g, h)
        /\ e.frames = d.frames
    BY <1>1, <1>2, <2>1 DEF OpenedAlike
  <2> HIDE DEF h, d, g, e
  <2>3. HourRight(g, e, c, S, W)
    BY <2>2, RightOn
  <2> QED
    BY <2>3 DEF HourIsRight, g, e
<1>4. DiskRight(u.d) /\ (IsClean(u.d) => u.h.clean)
  BY DEF OpenedRight, OpenedAlike, DiskRight, FilesHold, IsClean
<1> QED
  BY <1>3, <1>4 DEF OpenedRight

LEMMA RebuiltAlike ==
  ASSUME NEW r, IsOpened(r), NEW key, NEW process, NEW which,
         NEW t, t = take_rebuilt(r, key, process, which)
  PROVE  OpenedAlike(t, r)
<1> DEFINE KeyIn(x) == [x EXCEPT !.h.key = key, !.h.keyDirectory = FALSE, !.d.key = <<KeyToFile(key)>>]
           ProcessIn(x) == [x EXCEPT !.h.process = process, !.h.processDirectory = FALSE,
                                     !.d.process = <<ProcessToFile(process)>>]
           WithKey(x) == IF "key" \in which THEN KeyIn(x) ELSE x
           WithProcess(x) == IF "process" \in which THEN ProcessIn(x) ELSE x
           Has(x) ==
             /\ {"h", "d"} \subseteq DOMAIN x
             /\ {"frames", "dirty", "files", "cells", "tail", "clean", "rebuilt"} \subseteq DOMAIN x.h
             /\ {"frames", "lens", "index"} \subseteq DOMAIN x.d
<1>1. ASSUME NEW x, Has(x) PROVE Has(KeyIn(x)) /\ OpenedAlike(KeyIn(x), x)
  <2> DEFINE h == [x.h EXCEPT !.key = key, !.keyDirectory = FALSE]
             file == <<KeyToFile(key)>>
             d == [x.d EXCEPT !.key = file]
             y == [x EXCEPT !.h.key = key, !.h.keyDirectory = FALSE, !.d.key = file]
  <2>1. y.h = h /\ y.d = d /\ DOMAIN y = DOMAIN x /\ y = KeyIn(x)
    BY <1>1
  <2>2. /\ h.frames = x.h.frames /\ h.dirty = x.h.dirty /\ h.files = x.h.files
        /\ h.cells = x.h.cells /\ h.tail = x.h.tail /\ h.clean = x.h.clean
        /\ h.rebuilt = x.h.rebuilt /\ DOMAIN h = DOMAIN x.h
    BY <1>1
  <2> HIDE DEF file
  <2>3. d.frames = x.d.frames /\ d.lens = x.d.lens /\ d.index = x.d.index /\ DOMAIN d = DOMAIN x.d
    BY <1>1
  <2> HIDE DEF y, h, d, KeyIn
  <2> QED
    BY <1>1, <2>1, <2>2, <2>3 DEF OpenedAlike, SameFrames
<1>2. ASSUME NEW x, Has(x) PROVE Has(ProcessIn(x)) /\ OpenedAlike(ProcessIn(x), x)
  <2> DEFINE h == [x.h EXCEPT !.process = process, !.processDirectory = FALSE]
             file == <<ProcessToFile(process)>>
             d == [x.d EXCEPT !.process = file]
             y == [x EXCEPT !.h.process = process, !.h.processDirectory = FALSE, !.d.process = file]
  <2>1. y.h = h /\ y.d = d /\ DOMAIN y = DOMAIN x /\ y = ProcessIn(x)
    BY <1>2
  <2>2. /\ h.frames = x.h.frames /\ h.dirty = x.h.dirty /\ h.files = x.h.files
        /\ h.cells = x.h.cells /\ h.tail = x.h.tail /\ h.clean = x.h.clean
        /\ h.rebuilt = x.h.rebuilt /\ DOMAIN h = DOMAIN x.h
    BY <1>2
  <2> HIDE DEF file
  <2>3. d.frames = x.d.frames /\ d.lens = x.d.lens /\ d.index = x.d.index /\ DOMAIN d = DOMAIN x.d
    BY <1>2
  <2> HIDE DEF y, h, d, ProcessIn
  <2> QED
    BY <1>2, <2>1, <2>2, <2>3 DEF OpenedAlike, SameFrames
<1>3. t = WithProcess(WithKey(r))
  BY DEF take_rebuilt
<1>4. Has(r)
  BY DEF IsOpened, Slots, SlotRecords, Disks
<1> HIDE DEF KeyIn, ProcessIn, Has
<1>5. \A x : OpenedAlike(x, x)
  BY DEF OpenedAlike, SameFrames
<1>6. Has(WithKey(r)) /\ OpenedAlike(WithKey(r), r)
  BY <1>1, <1>4, <1>5
<1> HIDE DEF WithKey
<1>7. OpenedAlike(WithProcess(WithKey(r)), WithKey(r))
  BY <1>2, <1>5, <1>6
<1> HIDE DEF WithProcess
<1> QED
  BY <1>3, <1>6, <1>7 DEF OpenedAlike, SameFrames

LEMMA IndexesAlike ==
  ASSUME NEW h \in Slots, NEW d, NEW full, NEW x, x = WithIndexes(h, d, full)
  PROVE  SameFrames(x, h) /\ x.clean = h.clean /\ x.rebuilt = h.rebuilt
<1> DEFINE key == IF d.key = <<>> THEN h.key ELSE KeyFromFile(d.key[1])
           process == IF d.process = <<>> THEN h.process ELSE ProcessFromFile(d.process[1])
           y == [h EXCEPT !.key = key, !.process = process,
                          !.keyDirectory = ~full, !.processDirectory = ~full]
<1>1. x = y
  BY DEF WithIndexes, Slots, SlotRecords
<1> HIDE DEF key, process
<1>2. SameFrames(y, h) /\ y.clean = h.clean /\ y.rebuilt = h.rebuilt
  BY DEF Slots, SlotRecords, SameFrames
<1> QED
  BY <1>1, <1>2

(* The cells found again, the tail found from them, and the indexes taken. *)
LEMMA TailIsRight ==
  ASSUME NEW b, IsOpened(b), FreshOver(b.h, b.d), DiskRight(b.d), b.h.clean,
         CellsHold(b.h.cells, b.d.frames), NEW t, t = WithTail(b)
  PROVE  OpenedRight(t) /\ t.d = b.d /\ FreshOver(t.h, t.d) /\ t.h.rebuilt = b.h.rebuilt
<1>1. b.h \in Slots /\ b.d \in Disks /\ FilesHold(b.d)
  BY DEF IsOpened, DiskRight
<1>2. MemoryFits(b.h, b.d) /\ FramesOf(b.h, b.d) = b.d.frames
  <2> DEFINE h == b.h
             d == b.d
  <2>1. d \in Disks /\ FilesHold(d) /\ FreshOver(h, d)
    BY <1>1
  <2> HIDE DEF h, d
  <2>2. MemoryFits(h, d) /\ FramesOf(h, d) = d.frames
    BY <2>1, FreshFits
  <2> QED
    BY <2>2 DEF h, d
<1>3. PICK c, S, W : CellsFit(b.h.cells, FramesOf(b.h, b.d), c, S, W)
  BY <1>2 DEF CellsHold
<1>4. /\ IsOpened(t) /\ t.d = b.d /\ HourRight(t.h, t.d, c, S, W)
      /\ t.h.clean = b.h.clean /\ t.h.frames = b.h.frames /\ t.h.files = b.h.files
      /\ t.h.rebuilt = b.h.rebuilt
  BY <1>2, <1>3, TailIsTaken
<1>5. OpenedRight(t)
  BY <1>4 DEF OpenedRight, HourIsRight
<1>6. FreshOver(t.h, t.d)
  BY <1>4 DEF FreshOver, IsOpened
<1> QED
  BY <1>4, <1>5, <1>6

LEMMA OpenRebuiltIsRight ==
  ASSUME NEW d \in Disks, FilesHold(d), d.lens # <<>>, NEW h, FreshOver(h, d), h.frames = <<>>,
         NEW r, r = OpenRebuilt(h, d)
  PROVE  OpenedRight(r) /\ r.h.rebuilt
<1> DEFINE b == rebuild(h, d)
           t == WithTail(b)
           key == b.indexes.key
           process == b.indexes.process
           which == {"key", "process"}
<1>1. FoundAgain(b)
  BY RebuildFinds
<1>2. b.indexes \in [key : KeyIndexes, process : ProcessIndexes]
  <2>1. h \in Slots
    BY DEF FreshOver
  <2> QED
    BY <2>1, RebuiltIs
<1>3. r = take_rebuilt(t, key, process, which)
  BY DEF OpenRebuilt
<1>4. key \in KeyIndexes /\ process \in ProcessIndexes
  BY <1>2
<1> HIDE DEF b, key, process, which
<1>5. DiskRight(b.d)
  BY <1>1 DEF FoundAgain, DiskRight
<1>6. IsOpened(b) /\ FreshOver(b.h, b.d) /\ b.h.clean /\ b.h.rebuilt /\ CellsHold(b.h.cells, b.d.frames)
  BY <1>1 DEF FoundAgain
<1>7. OpenedRight(t) /\ t.h.rebuilt
  BY <1>5, <1>6, TailIsRight
<1>8. IsOpened(t)
  BY <1>7 DEF OpenedRight
<1> HIDE DEF t
<1>9. IsOpened(r)
  BY <1>3, <1>4, <1>8, RebuiltIsTaken
<1>10. OpenedAlike(r, t)
  BY <1>3, <1>8, RebuiltAlike
<1>11. OpenedRight(r)
  BY <1>7, <1>9, <1>10, AlikeRight
<1> QED
  BY <1>7, <1>10, <1>11 DEF OpenedAlike

-------------------------------------------------------------------------------
(* The indexes are read, or counted again, or everything is found again.   *)
IsFoundAgain(o) == OpenedRight(o) /\ o.h.rebuilt
IsTaken(o, t) == IsOpened(o) /\ OpenedAlike(o, t) /\ t.h.failure = ""

LEMMA DataIsFound ==
  ASSUME NEW r, IsOpened(r), FilesHold(r.d), FreshOver(r.h, r.d), r.h.frames = <<>>, r.d.lens # <<>>,
         NEW full \in BOOLEAN, NEW X, \A e \in X : e.entry \in Entries,
         NEW walk, walk.entries \in Seq(X), NEW o, o = WithDataOf(r, r.d, full, walk)
  PROVE  IsFoundAgain(o) \/ IsTaken(o, r)
<1> DEFINE d == r.d
           again == rebuild_indexes(walk)
           with == WithIndexes(r.h, d, full)
           read == [r EXCEPT !.h = with]
           h == [r.h EXCEPT !.failure = ""]
           counted == \/ r.h.failure # ""
                      \/ FrameCount(r.h) > 0 /\ (~walk.ok \/ again.key.total # total(r.h.counts))
           whole == r.h.failure = "" /\ Miscounted(r.h, d) = {}
           opened == OpenRebuilt(h, d)
           lost == Miscounted(r.h, d)
           key == again.key
           process == again.process
           taken == take_rebuilt(read, key, process, lost)
<1>1. r.h \in Slots /\ d \in Disks /\ "h" \in DOMAIN r
  BY DEF IsOpened
<1>2. again \in [key : KeyIndexes, process : ProcessIndexes]
  BY IndexesAreRebuilt
<1>3. with \in Slots /\ SameFrames(with, r.h) /\ with.clean = r.h.clean /\ with.rebuilt = r.h.rebuilt
  BY <1>1, IndexesAreRead, IndexesAlike
<1>4. o = IF whole THEN read ELSE IF counted THEN opened ELSE taken
  BY <1>1 DEF WithDataOf, Recounted
<1>5. key \in KeyIndexes /\ process \in ProcessIndexes
  BY <1>2
<1>6. whole \/ ~counted => r.h.failure = ""
  OBVIOUS
<1> HIDE DEF again, with, whole, counted, key, process, lost
<1>7. IsOpened(read) /\ OpenedAlike(read, r)
  <2>1. IsOpened(read) /\ read.h = with /\ read.d = r.d
    BY <1>1, <1>3, OpenedWith
  <2> HIDE DEF read
  <2> QED
    BY <1>3, <2>1 DEF OpenedAlike
<1> HIDE DEF read
<1>8. IsOpened(taken) /\ OpenedAlike(taken, r)
  <2>1. IsOpened(taken)
    BY <1>5, <1>7, RebuiltIsTaken
  <2> HIDE DEF taken
  <2>2. OpenedAlike(taken, read)
    BY <1>7, RebuiltAlike DEF taken
  <2> QED
    BY <1>7, <2>1, <2>2 DEF OpenedAlike, SameFrames
<1>9. IsFoundAgain(opened)
  <2>1. "" \in Reasons
    BY DEF Reasons
  <2>2. h \in Slots
    BY <1>1, <2>1, SlotWith
  <2>3. h.frames = r.h.frames /\ h.files = r.h.files
    BY <1>1 DEF Slots, SlotRecords
  <2> HIDE DEF h
  <2>4. FreshOver(h, d) /\ h.frames = <<>>
    BY <2>2, <2>3 DEF FreshOver
  <2>5. FilesHold(d) /\ d.lens # <<>>
    OBVIOUS
  <2> HIDE DEF opened, d
  <2> QED
    BY <1>1, <2>4, <2>5, OpenRebuiltIsRight DEF opened, IsFoundAgain
<1> HIDE DEF opened, taken
<1> QED
  BY <1>4, <1>6, <1>7, <1>8, <1>9 DEF IsTaken

(* The cells of an index which is not marked, over the frames of the files.*)
CellsTaken(b, d) ==
  /\ IsOpened(b) /\ FreshOver(b.h, b.d) /\ b.d = d
  /\ b.h.clean /\ b.h.cells = d.index[1].cells /\ b.h.frames = <<>>

LEMMA OpenCleanIs ==
  ASSUME NEW d \in Disks, FilesHold(d), IsClean(d), d.lens # <<>>,
         NEW h, FreshOver(h, d), h.frames = <<>>, NEW full \in BOOLEAN,
         NEW o, o = OpenClean(h, d, full)
  PROVE  \E b : /\ CellsTaken(b, d) /\ b.h.rebuilt = h.rebuilt
                /\ IsFoundAgain(o) \/ IsTaken(o, WithTail(b))
<1> DEFINE index == d.index[1]
           cells == [h EXCEPT !.cells = index.cells, !.counts = index.counts, !.clean = TRUE]
           F == FramesOf(h, d)
           both == [h |-> cells, d |-> d]
           r == WithTail(both)
           X == FoundIn(F)
           none == [entries |-> <<>>, ok |-> FALSE]
           walk == IF HEAD \in DOMAIN F THEN Chain(F) ELSE none
<1>1. h \in Slots
  BY DEF FreshOver
<1>2. index \in IndexFiles
  <2>1. d.index \in Maybe(IndexFiles) /\ d.index # <<>>
    BY DEF Disks, IsClean
  <2> QED
    BY <2>1, MaybeIs
<1> HIDE DEF index
<1>3. /\ cells \in Slots /\ cells.frames = h.frames /\ cells.files = h.files
      /\ cells.clean /\ cells.cells = index.cells /\ cells.rebuilt = h.rebuilt
  BY <1>1, <1>2 DEF Slots, SlotRecords, IndexFiles
<1>4. o = WithDataOf(r, d, full, walk)
  BY DEF OpenClean, index
<1> HIDE DEF cells
<1>5. IsOpened(both) /\ both.h = cells /\ both.d = d
  BY <1>3 DEF IsOpened
<1> HIDE DEF both
<1>6. CellsTaken(both, d) /\ both.h.rebuilt = h.rebuilt
  BY <1>3, <1>5 DEF CellsTaken, FreshOver, FilesOfDisk, index
<1>7. /\ IsOpened(r) /\ r.d = d /\ r.h.frames = both.h.frames /\ r.h.files = both.h.files
  <2> DEFINE b == both
             t == r
  <2>1. IsOpened(b) /\ t = WithTail(b)
    BY <1>5
  <2> HIDE DEF b, t
  <2>2. IsOpened(t) /\ t.d = b.d /\ t.h.frames = b.h.frames /\ t.h.files = b.h.files
    BY <2>1, TailKeeps
  <2> QED
    BY <1>5, <2>2 DEF b, t
<1>8. r.h.frames = <<>> /\ FreshOver(r.h, r.d) /\ FilesHold(r.d)
  BY <1>3, <1>5, <1>7 DEF FreshOver, IsOpened
<1>9. F \in FrameMaps
  BY <1>1, SlotIs, FramesRead DEF Disks
<1>10. Head1.offset \in Int
  BY FrameAssumption DEF Head1
<1> HIDE DEF F, r
<1>11. walk.entries \in Seq(X)
  <2>1. CASE HEAD \in DOMAIN F
    <3>1. Walked(F, Head1, WalkFrom(F, Head1))
      BY <1>9, <1>10, WalkIs
    <3> QED
      BY <2>1, <3>1 DEF Walked, Chain
  <2>2. CASE HEAD \notin DOMAIN F
    <3>1. walk.entries = <<>>
      BY <2>2
    <3>2. <<>> \in Seq(X)
      OBVIOUS
    <3> QED
      BY <3>1, <3>2
  <2> QED
    BY <2>1, <2>2
<1>12. \A e \in X : e.entry \in Entries
  BY DEF FoundIn
<1> HIDE DEF walk, X
<1>13. r.d.lens # <<>> /\ o = WithDataOf(r, r.d, full, walk)
  BY <1>4, <1>7
<1>14. IsFoundAgain(o) \/ IsTaken(o, r)
  BY <1>7, <1>8, <1>11, <1>12, <1>13, DataIsFound
<1> QED
  BY <1>6, <1>14 DEF r

LEMMA OpenCleanIsRight ==
  ASSUME NEW d \in Disks, DiskRight(d), IsClean(d), d.lens # <<>>,
         NEW h, FreshOver(h, d), h.frames = <<>>, NEW full \in BOOLEAN,
         NEW o, o = OpenClean(h, d, full)
  PROVE  OpenedRight(o)
<1>1. PICK b : CellsTaken(b, d) /\ (IsFoundAgain(o) \/ IsTaken(o, WithTail(b)))
  BY OpenCleanIs DEF DiskRight
<1> DEFINE t == WithTail(b)
<1>2. OpenedRight(t)
  <2>1. /\ IsOpened(b) /\ FreshOver(b.h, b.d) /\ DiskRight(b.d) /\ b.h.clean
        /\ CellsHold(b.h.cells, b.d.frames)
    BY <1>1 DEF CellsTaken, DiskRight
  <2> QED
    BY <2>1, TailIsRight
<1> HIDE DEF t
<1>3. CASE IsTaken(o, t)
  BY <1>2, <1>3, AlikeRight DEF IsTaken
<1> QED
  BY <1>1, <1>3 DEF IsFoundAgain, t

LEMMA NoFramesAtAll ==
  ASSUME NEW F \in FrameMaps, DOMAIN F = {}
  PROVE  F = <<>>
<1>1. F = [f \in DOMAIN F |-> F[f]]
  BY FramesAre
<1> QED
  BY <1>1

(* An hour none of whose files there is yet. *)
LEMMA NewHourIsRight ==
  ASSUME NEW d \in Disks, FilesHold(d), d.lens = <<>>, NEW r, r = [h |-> NewHour, d |-> d]
  PROVE  OpenedRight(r)
<1> DEFINE h == NewHour
           c == <<>>
           S == <<0>>
           W == <<>>
           none == <<>>
<1>1. h \in Slots /\ h.frames = none
  BY NewHourIs
<1>2. h.files = none /\ h.cells = NoCells /\ h.tail = NoFrame
  BY DEF NewHour
<1>3. DOMAIN none = {} /\ FilesOfDisk(d) = none
  BY DEF FilesOfDisk
<1>4. d.frames \in FrameMaps /\ DOMAIN d.frames = {}
  <2>1. DOMAIN d.lens = {}
    OBVIOUS
  <2> QED
    BY <2>1 DEF FilesHold, Disks
<1>5. d.frames = none
  BY <1>4, NoFramesAtAll
<1>6. DiskRight(d) /\ ~IsClean(d)
  BY DEF DiskRight, IsClean, FilesHold
<1>7. CellsFit(NoCells, none, c, S, W)
  BY NothingFits
<1>8. h.tail = IF c = <<>> THEN NoFrame ELSE c[Len(c)]
  BY <1>2
<1> HIDE DEF h, none, c, S, W
<1>9. FreshOver(h, d)
  BY <1>1, <1>2, <1>3 DEF FreshOver
<1>10. MemoryFits(h, d) /\ FramesOf(h, d) = d.frames
  BY <1>9, FreshFits
<1>11. HourRight(h, d, c, S, W)
  BY <1>2, <1>5, <1>7, <1>8, <1>10 DEF HourRight, MemoryRight, CellsFit
<1>12. r.h = h /\ r.d = d /\ IsOpened(r)
  BY <1>1 DEF IsOpened, h
<1> QED
  BY <1>6, <1>11, <1>12 DEF OpenedRight, HourIsRight

(* What is opened over the files of an hour.                               *)
FreshHour(d) == [NewHour EXCEPT !.files = FilesOfDisk(d)]

LEMMA FreshIs ==
  ASSUME NEW d \in Disks
  PROVE  FreshOver(FreshHour(d), d) /\ FreshHour(d).frames = <<>> /\ ~FreshHour(d).rebuilt
<1> DEFINE h == FreshHour(d)
<1>1. FilesOfDisk(d) \in Seq(FileCounts)
  BY FilesAreCounted
<1>2. h \in Slots /\ h.frames = <<>>
  BY <1>1, NewHourIs DEF FreshHour
<1>3. h.files = FilesOfDisk(d) /\ ~h.rebuilt
  BY DEF FreshHour, NewHour
<1>4. DOMAIN h.frames = {}
  BY <1>2
<1> HIDE DEF h
<1> QED
  BY <1>2, <1>3, <1>4 DEF FreshOver, h

LEMMA OpenHourIs ==
  ASSUME NEW d \in Disks, NEW full \in BOOLEAN, NEW r, r = OpenHour(d, full)
  PROVE  /\ d.lens = <<>> => r = [h |-> NewHour, d |-> d]
         /\ d.lens # <<>> /\ (~IsClean(d) \/ d.torn) => r = OpenRebuilt(FreshHour(d), d)
         /\ d.lens # <<>> /\ IsClean(d) /\ ~d.torn => r = OpenClean(FreshHour(d), d, full)
<1> DEFINE h == FreshHour(d)
           fresh == [h |-> NewHour, d |-> d]
           broken == d.index = <<>> \/ d.torn \/ ~d.index[1].clean
<1>1. r = CASE d.lens = <<>> -> fresh
            [] d.lens # <<>> /\ broken -> OpenRebuilt(h, d)
            [] OTHER -> OpenClean(h, d, full)
  BY DEF OpenHour, FreshHour
<1>2. broken <=> ~IsClean(d) \/ d.torn
  BY DEF IsClean
<1> HIDE DEF h, broken
<1> QED
  BY <1>1, <1>2 DEF h

(* An hour whose index is not marked opens with a chain in order when its  *)
(* cells stand in the chain of the frames; with no index, or with a marked *)
(* one, it does whatever the frames are.                                   *)
LEMMA OpenedIsRight ==
  ASSUME NEW d \in Disks, DiskRight(d), NEW full \in BOOLEAN, NEW r, r = OpenHour(d, full)
  PROVE  OpenedRight(r)
<1> DEFINE h == FreshHour(d)
<1>1. FreshOver(h, d) /\ h.frames = <<>> /\ FilesHold(d)
  BY FreshIs DEF DiskRight
<1> HIDE DEF h
<1>2. CASE d.lens = <<>>
  BY <1>1, <1>2, OpenHourIs, NewHourIsRight
<1>3. CASE d.lens # <<>> /\ (~IsClean(d) \/ d.torn)
  <2>1. r = OpenRebuilt(h, d)
    BY <1>3, OpenHourIs DEF h
  <2> QED
    BY <1>1, <1>3, <2>1, OpenRebuiltIsRight
<1>4. CASE d.lens # <<>> /\ IsClean(d) /\ ~d.torn
  <2>1. r = OpenClean(h, d, full)
    BY <1>4, OpenHourIs DEF h
  <2> QED
    BY <1>1, <1>4, <2>1, OpenCleanIsRight
<1> QED
  BY <1>2, <1>3, <1>4

(* The end of the chain does not read from the last cell of the index, in  *)
(* an hour which has frames.                                               *)
EndIsLost(d) == ~find_tail([FreshHour(d) EXCEPT !.cells = d.index[1].cells], d).ok

LEMMA EndIsLostFor ==
  ASSUME NEW d \in Disks, FilesHold(d), IsClean(d), NEW b, CellsTaken(b, d)
  PROVE  EndIsLost(d) <=> ~find_tail(b.h, d).ok
<1> DEFINE g == [FreshHour(d) EXCEPT !.cells = d.index[1].cells]
           h == b.h
<1>1. h \in Slots /\ FreshOver(h, d) /\ h.cells = d.index[1].cells /\ h.files = FilesOfDisk(d)
  BY DEF CellsTaken, FreshOver
<1>2. g \in Slots /\ g.frames = FreshHour(d).frames /\ g.files = FreshHour(d).files
      /\ g.cells = d.index[1].cells
  <2>1. FreshHour(d) \in Slots
    BY FreshIs DEF FreshOver
  <2>2. d.index[1].cells \in Cells
    <3>1. h.cells \in Cells
      BY <1>1, SlotIs
    <3> QED
      BY <1>1, <3>1
  <2> QED
    BY <2>1, <2>2 DEF Slots, SlotRecords
<1> HIDE DEF g, h
<1>3. FreshOver(g, d) /\ g.files = FilesOfDisk(d)
  BY <1>2, FreshIs DEF FreshOver
<1>4. FramesOf(g, d) = d.frames /\ FramesOf(h, d) = d.frames
  BY <1>1, <1>3, FreshFits
<1>5. find_tail(g, d).ok <=> find_tail(h, d).ok
  BY <1>1, <1>2, <1>3, <1>4 DEF find_tail, FrameCount
<1> QED
  BY <1>5 DEF EndIsLost, g, h

(* Whatever frames the files of an hour still hold, those lost with the    *)
(* power left out, and whether or not its index is marked: an hour which   *)
(* is found again has a chain in order and cells which stand in it, by     *)
(* ending the frame at which the walk from the head stops, and it is found *)
(* again whenever its index is missing, torn or marked, and also when it   *)
(* is not marked and the end of the chain does not read from it            *)
(* (HourFile::open, find_tail, rebuild).                                   *)
THEOREM FoundAgainIsRight ==
  ASSUME NEW d \in Disks, FilesHold(d), NEW full \in BOOLEAN, NEW r, r = OpenHour(d, full)
  PROVE  /\ r.h.rebuilt => OpenedRight(r)
         /\ d.lens # <<>> /\ (~IsClean(d) \/ d.torn \/ EndIsLost(d)) => r.h.rebuilt
<1> DEFINE h == FreshHour(d)
<1>1. FreshOver(h, d) /\ h.frames = <<>> /\ ~h.rebuilt
  BY FreshIs
<1> HIDE DEF h
<1>2. CASE d.lens = <<>>
  BY <1>2, OpenHourIs, NewHourIsRight
<1>3. CASE d.lens # <<>> /\ (~IsClean(d) \/ d.torn)
  <2>1. r = OpenRebuilt(h, d)
    BY <1>3, OpenHourIs DEF h
  <2> QED
    BY <1>1, <1>3, <2>1, OpenRebuiltIsRight
<1>4. CASE d.lens # <<>> /\ IsClean(d) /\ ~d.torn
  <2>1. r = OpenClean(h, d, full)
    BY <1>4, OpenHourIs DEF h
  <2>2. PICK b : /\ CellsTaken(b, d) /\ b.h.rebuilt = h.rebuilt
                 /\ IsFoundAgain(r) \/ IsTaken(r, WithTail(b))
    BY <1>1, <1>4, <2>1, OpenCleanIs
  <2>3. CASE IsFoundAgain(r)
    BY <2>3 DEF IsFoundAgain
  <2>4. CASE IsTaken(r, WithTail(b))
    <3> DEFINE t == WithTail(b)
    <3>1. IsOpened(b) /\ b.d = d
      BY <2>2 DEF CellsTaken
    <3>2. t.h.rebuilt = b.h.rebuilt /\ (t.h.failure = "" => find_tail(b.h, b.d).ok)
      BY <3>1, TailKeeps
    <3> HIDE DEF t
    <3>3. r.h.rebuilt = t.h.rebuilt /\ t.h.failure = ""
      BY <2>4 DEF IsTaken, OpenedAlike, t
    <3>4. ~r.h.rebuilt
      BY <1>1, <2>2, <3>2, <3>3
    <3>5. ~EndIsLost(d)
      BY <1>4, <2>2, <3>1, <3>2, <3>3, EndIsLostFor
    <3> QED
      BY <1>4, <3>4, <3>5
  <2> QED
    BY <2>2, <2>3, <2>4
<1> QED
  BY <1>2, <1>3, <1>4

-------------------------------------------------------------------------------
(* A flush under way: the hour and its files are as they should be, the    *)
(* index is marked first, the frames are written while it is marked, and   *)
(* the cells only when every changed frame is on the disk.                 *)
IsMark(step)  == step.do = "mark"
IsFrame(step) == step.do = "frame"
IsCells(step) == step.do = "cells"
IsLate(step)  == step.do \in {"key", "process"}
OnDisk(h, d, f) == f \in DOMAIN d.frames /\ d.frames[f] = h.frames[f]
StepsFit(h, d, s) ==
  /\ \A i \in 1 .. Len(s) : IsMark(s[i]) => i = 1
  /\ \A i \in 1 .. Len(s) : \A j \in 1 .. i - 1 :
       IsCells(s[j]) \/ IsLate(s[j]) => IsLate(s[i])
  /\ \A i \in 1 .. Len(s) : ~IsLate(s[i]) => DOMAIN h.frames # {}
  /\ s # <<>> => IsMark(s[1]) \/ IsLate(s[1]) \/ ~h.clean
  /\ \A i \in 1 .. Len(s) : IsCells(s[i]) => \A f \in DOMAIN h.frames :
       (\E j \in 1 .. i - 1 : IsFrame(s[j]) /\ s[j].frame = f) \/ OnDisk(h, d, f)
HeldRight(d, h) == HourIsRight(h, d) /\ DiskRight(d) /\ Marks(h, d)
FlushRight(d, h, s) ==
  d \in Disks /\ h \in Slots /\ s \in StepsOver(h.frames) /\ HeldRight(d, h) /\ StepsFit(h, d, s)

LEMMA StepIsOne ==
  ASSUME NEW step \in Steps
  PROVE  /\ IsMark(step) \/ IsFrame(step) \/ IsCells(step) \/ IsLate(step)
         /\ ~(IsMark(step) /\ IsFrame(step)) /\ ~(IsMark(step) /\ IsCells(step))
         /\ ~(IsMark(step) /\ IsLate(step)) /\ ~(IsFrame(step) /\ IsCells(step))
         /\ ~(IsFrame(step) /\ IsLate(step)) /\ ~(IsCells(step) /\ IsLate(step))
BY DEF Steps, IsMark, IsFrame, IsCells, IsLate

LEMMA FilesGrow ==
  ASSUME NEW d \in Disks, FilesHold(d), NEW h, MemoryFits(h, d), NEW e \in Disks,
         h.files # <<>>, Len(e.lens) = Len(h.files),
         \A n \in 1 .. Len(h.files) : e.lens[n] >= LenOfFile(d, n) /\ e.lens[n] <= FramesPerFile,
         \A f \in DOMAIN e.frames : f \in DOMAIN d.frames
            \/ (FileOf(f) \in DOMAIN h.files /\ IndexIn(f) < e.lens[FileOf(f)])
  PROVE  FilesHold(e)
<1> DEFINE N == Len(h.files)
<1>1. h \in Slots /\ FilesFit(h.files)
      /\ \A f \in DOMAIN d.frames : FileOf(f) \in DOMAIN h.files
  BY DEF MemoryFits, InFiles
<1>2. N \in Nat /\ DOMAIN h.files = 1 .. N /\ N # 0 /\ N <= MAX_DATA_FILES
  <2>1. h.files \in Seq(FileCounts)
    BY <1>1, SlotIs
  <2> QED
    BY <1>1, <2>1 DEF FilesFit
<1>3. e.lens \in Seq(Nat) /\ d.lens \in Seq(Nat) /\ d.frames \in FrameMaps
  BY DEF Disks
<1>4. DOMAIN e.lens = 1 .. N /\ e.lens # <<>> /\ \A n \in 1 .. N : e.lens[n] \in Nat
  BY <1>2, <1>3
<1>5. ASSUME NEW f \in DOMAIN e.frames
      PROVE  FileOf(f) \in DOMAIN e.lens /\ IndexIn(f) < e.lens[FileOf(f)]
  <2>1. CASE f \in DOMAIN d.frames
    <3> DEFINE n == FileOf(f)
               m == IndexIn(f)
    <3>1. n \in 1 .. N /\ n \in DOMAIN d.lens /\ m < d.lens[n]
      BY <1>1, <1>2, <2>1 DEF FilesHold
    <3>2. LenOfFile(d, n) = d.lens[n] /\ d.lens[n] \in Nat
      BY <1>3, <3>1 DEF LenOfFile, Get
    <3>3. m \in Int
      <4>1. f \in Nat
        BY <1>3, <2>1, FramesAre
      <4> QED
        BY <4>1, HourFileAssumption DEF IndexIn
    <3> HIDE DEF n, m
    <3>4. m < e.lens[n]
      BY <1>4, <3>1, <3>2, <3>3
    <3> QED
      BY <1>4, <3>1, <3>4 DEF n, m
  <2>2. CASE f \notin DOMAIN d.frames
    BY <1>2, <1>4, <2>2
  <2> QED
    BY <2>1, <2>2
<1> QED
  BY <1>2, <1>4, <1>5 DEF FilesHold

LEMMA LensMarked ==
  ASSUME NEW d \in Disks, FilesHold(d), NEW n \in Nat
  PROVE  LenOfFile(d, n) \in Nat /\ LenOfFile(d, n) <= FramesPerFile
<1>1. d.lens \in Seq(Nat) /\ FramesPerFile \in Nat
  BY HourFileAssumption DEF Disks
<1>2. CASE n \in DOMAIN d.lens
  <2>1. LenOfFile(d, n) = d.lens[n] /\ n \in 1 .. Len(d.lens)
    BY <1>1, <1>2 DEF LenOfFile, Get
  <2> QED
    BY <1>1, <2>1 DEF FilesHold
<1>3. CASE n \notin DOMAIN d.lens
  <2>1. LenOfFile(d, n) = 0
    BY <1>3 DEF LenOfFile, Get
  <2> QED
    BY <1>1, <2>1
<1> QED
  BY <1>2, <1>3

LEMMA FilesOfFrames ==
  ASSUME NEW d, NEW h, MemoryFits(h, d), DOMAIN h.frames # {}
  PROVE  h.files # <<>> /\ Len(h.files) \in Nat /\ DOMAIN h.files = 1 .. Len(h.files)
<1>1. PICK f \in DOMAIN h.frames : FileOf(f) \in DOMAIN h.files
  BY DEF MemoryFits, InFiles
<1>2. h.files \in Seq(FileCounts)
  BY SlotIs DEF MemoryFits
<1> QED
  BY <1>1, <1>2

(* The index is marked, and the files which are new are there.             *)
LEMMA MarkIsRight ==
  ASSUME NEW d \in Disks, NEW h \in Slots, HeldRight(d, h), NEW step \in Steps, IsMark(step),
         DOMAIN h.frames # {}
  PROVE  HeldRight(Written(d, h, step), Flushed(h, step))
<1> DEFINE lens == [n \in 1 .. Len(h.files) |-> LenOfFile(d, n)]
           index == IF d.index = <<>> \/ ~h.clean THEN d.index
                    ELSE <<[d.index[1] EXCEPT !.clean = FALSE]>>
           e == Written(d, h, step)
           g == Flushed(h, step)
<1>1. PICK c, S, W : HourRight(h, d, c, S, W)
  BY DEF HeldRight, HourIsRight
<1>2. MemoryFits(h, d) /\ FilesHold(d) /\ Marks(h, d) /\ d.frames \in FrameMaps
  BY <1>1 DEF HeldRight, HourRight, MemoryRight, DiskRight, Disks
<1>3. e = [d EXCEPT !.lens = lens, !.index = index]
  BY DEF IsMark, Written
<1>4. e \in Disks /\ g \in Slots
  <2>1. ~IsFrame(step)
    BY StepIsOne
  <2>2. step.do = "frame" => step.frame \in DOMAIN h.frames
    BY <2>1 DEF IsFrame
  <2> QED
    BY <2>2, StepIsWritten, StepIsFlushed
<1>5. ~IsClean(e)
  <2>1. CASE d.index = <<>> \/ ~h.clean
    <3>1. ~IsClean(d)
      BY <1>2, <2>1 DEF Marks, IsClean
    <3>2. e.index = d.index
      BY <1>3, <2>1 DEF Disks
    <3> QED
      BY <3>1, <3>2 DEF IsClean
  <2>2. CASE ~(d.index = <<>> \/ ~h.clean)
    <3> DEFINE i == [d.index[1] EXCEPT !.clean = FALSE]
    <3>1. d.index[1] \in IndexFiles
      BY <2>2, MaybeIs DEF Disks
    <3>2. i.clean = FALSE
      BY <3>1 DEF IndexFiles
    <3> HIDE DEF i
    <3>3. e.index = <<i>>
      BY <1>3, <2>2 DEF Disks, i
    <3> QED
      BY <3>2, <3>3 DEF IsClean
  <2> QED
    BY <2>1, <2>2
<1>6. e.lens = lens /\ e.frames = d.frames
  BY <1>3 DEF Disks
<1>7. g = [h EXCEPT !.clean = FALSE]
  BY DEF IsMark, Flushed
<1>8. SameFrames(g, h)
  BY <1>7 DEF SameFrames, Slots, SlotRecords
<1> HIDE DEF e, g, index
<1>9. HourIsRight(g, e)
  BY <1>1, <1>2, <1>4, <1>6, <1>8, RightOn DEF HourIsRight
<1>10. FilesHold(e)
  <2>1. h.files # <<>> /\ Len(h.files) \in Nat
    BY <1>2, FilesOfFrames
  <2>2. \A n \in 1 .. Len(h.files) : LenOfFile(d, n) \in Nat /\ LenOfFile(d, n) <= FramesPerFile
    BY <1>2, <2>1, LensMarked
  <2>3. Len(e.lens) = Len(h.files) /\ \A n \in 1 .. Len(h.files) : e.lens[n] = LenOfFile(d, n)
    BY <1>6, <2>1
  <2>4. \A n \in 1 .. Len(h.files) : e.lens[n] >= LenOfFile(d, n) /\ e.lens[n] <= FramesPerFile
    BY <2>2, <2>3
  <2>5. \A f \in DOMAIN e.frames : f \in DOMAIN d.frames
            \/ (FileOf(f) \in DOMAIN h.files /\ IndexIn(f) < e.lens[FileOf(f)])
    BY <1>6
  <2> HIDE DEF lens
  <2> QED
    BY <1>2, <1>4, <2>1, <2>3, <2>4, <2>5, FilesGrow
<1> QED
  BY <1>5, <1>9, <1>10 DEF HeldRight, DiskRight, Marks, e, g

(* A changed frame is written: what reads of the hour stays as it is.      *)
LEMMA OverWritten ==
  ASSUME NEW F \in FrameMaps, NEW G \in FrameMaps, NEW f \in DOMAIN F
  PROVE  Over(F, Updated(G, f, F[f])) = Over(F, G)
<1> DEFINE U == Updated(G, f, F[f])
<1>1. DOMAIN U = DOMAIN G \union {f} /\ \A x \in DOMAIN G : x # f => U[x] = G[x]
  BY DEF Updated
<1> HIDE DEF U
<1>2. DOMAIN F \union DOMAIN U = DOMAIN F \union DOMAIN G
  BY <1>1
<1>3. \A x \in DOMAIN F \union DOMAIN G :
        (IF x \in DOMAIN F THEN F[x] ELSE U[x]) = (IF x \in DOMAIN F THEN F[x] ELSE G[x])
  BY <1>1
<1> QED
  BY <1>2, <1>3 DEF Over, U

LEMMA LensWithFrame ==
  ASSUME NEW d \in Disks, FilesHold(d), NEW h \in Slots, NEW frame \in Nat
  PROVE  LET lens == Longer(d, h, frame)
         IN  /\ Len(lens) = Len(h.files)
             /\ \A n \in 1 .. Len(h.files) : lens[n] >= LenOfFile(d, n) /\ lens[n] <= FramesPerFile
             /\ FileOf(frame) \in DOMAIN h.files => IndexIn(frame) < lens[FileOf(frame)]
<1> DEFINE lens == Longer(d, h, frame)
           N == Len(h.files)
           m == IndexIn(frame)
           At(n) == IF n = FileOf(frame) /\ LenOfFile(d, n) <= m THEN m + 1 ELSE LenOfFile(d, n)
<1>1. N \in Nat /\ DOMAIN h.files = 1 .. N
  <2>1. h.files \in Seq(FileCounts)
    BY SlotIs
  <2> QED
    BY <2>1
<1>2. m \in Nat /\ m + 1 <= FramesPerFile /\ FramesPerFile \in Nat
  BY HourFileAssumption DEF IndexIn
<1>3. lens = [n \in 1 .. N |-> At(n)]
  BY DEF Longer
<1> HIDE DEF lens, m
<1>4. ASSUME NEW n \in 1 .. N
      PROVE  /\ At(n) >= LenOfFile(d, n) /\ At(n) <= FramesPerFile
             /\ n = FileOf(frame) => m < At(n)
  <2> DEFINE l == LenOfFile(d, n)
  <2>1. l \in Nat /\ l <= FramesPerFile
    <3>1. n \in Nat
      BY <1>1
    <3> QED
      BY <3>1, LensMarked
  <2>2. At(n) = IF n = FileOf(frame) /\ l <= m THEN m + 1 ELSE l
    OBVIOUS
  <2> HIDE DEF l, At
  <2> QED
    BY <1>2, <2>1, <2>2 DEF l
<1> HIDE DEF At, N
<1>5. Len(lens) = N /\ \A n \in 1 .. N : lens[n] = At(n)
  BY <1>1, <1>3
<1> QED
  BY <1>1, <1>4, <1>5 DEF lens, N, m

LEMMA FrameIsRight ==
  ASSUME NEW d \in Disks, NEW h \in Slots, HeldRight(d, h), NEW step \in Steps, IsFrame(step),
         step.frame \in DOMAIN h.frames, ~h.clean
  PROVE  HeldRight(Written(d, h, step), Flushed(h, step))
<1> DEFINE frame == step.frame
           frames == Updated(d.frames, frame, h.frames[frame])
           lens == Longer(d, h, frame)
           e == Written(d, h, step)
<1>1. PICK c, S, W : HourRight(h, d, c, S, W)
  BY DEF HeldRight, HourIsRight
<1>2. MemoryFits(h, d) /\ FilesHold(d) /\ Marks(h, d) /\ d.frames \in FrameMaps
  BY <1>1 DEF HeldRight, HourRight, MemoryRight, DiskRight, Disks
<1>3. h.frames \in FrameMaps /\ frame \in Nat /\ h.frames[frame] \in FrameSet
  BY SlotIs, FramesAre
<1>4. e = [d EXCEPT !.frames = frames, !.lens = lens]
  BY DEF IsFrame, Written
<1>5. e \in Disks
  BY StepIsWritten
<1>6. Flushed(h, step) = h
  BY DEF IsFrame, Flushed
<1>7. DOMAIN frames = DOMAIN d.frames \union {frame} /\ frames \in FrameMaps
  BY <1>2, <1>3, FrameIsPut
<1>8. Over(h.frames, frames) = Over(h.frames, d.frames)
  BY <1>2, <1>3, OverWritten
<1> HIDE DEF frames, lens
<1>9. e.frames = frames /\ e.lens = lens /\ e.index = d.index
  BY <1>4 DEF Disks
<1> HIDE DEF e
<1>10. MemoryFits(h, e)
  <2>1. InFiles(h.files, frame)
    BY <1>2 DEF MemoryFits
  <2> QED
    BY <1>2, <1>7, <1>9, <2>1 DEF MemoryFits, Shown
<1>11. FramesOf(h, e) = FramesOf(h, d)
  BY <1>2, <1>7, <1>8, <1>9, <1>10, FramesShown
<1>12. HourIsRight(h, e)
  BY <1>1, <1>10, <1>11 DEF HourIsRight, HourRight, MemoryRight
<1>13. ~IsClean(e)
  BY <1>2, <1>9 DEF Marks, IsClean
<1>14. FilesHold(e)
  <2>1. h.files # <<>>
    BY <1>2, FilesOfFrames
  <2>2. FileOf(frame) \in DOMAIN h.files
    BY <1>2 DEF MemoryFits, InFiles
  <2>3. /\ Len(e.lens) = Len(h.files)
        /\ \A n \in 1 .. Len(h.files) : e.lens[n] >= LenOfFile(d, n) /\ e.lens[n] <= FramesPerFile
        /\ IndexIn(frame) < e.lens[FileOf(frame)]
    BY <1>2, <1>3, <1>9, <2>2, LensWithFrame DEF lens
  <2>4. \A f \in DOMAIN e.frames : f \in DOMAIN d.frames
            \/ (FileOf(f) \in DOMAIN h.files /\ IndexIn(f) < e.lens[FileOf(f)])
    BY <1>7, <1>9, <2>2, <2>3
  <2> HIDE DEF frame
  <2> QED
    BY <1>2, <1>5, <2>1, <2>3, <2>4, FilesGrow
<1> QED
  BY <1>6, <1>12, <1>13, <1>14 DEF HeldRight, DiskRight, Marks, e

(* The cells are written: memory and disk are the same hour.               *)
LEMMA OverTheSame ==
  ASSUME NEW F \in FrameMaps, NEW G \in FrameMaps,
         \A f \in DOMAIN F : f \in DOMAIN G /\ G[f] = F[f]
  PROVE  Over(F, G) = G
<1>1. DOMAIN F \union DOMAIN G = DOMAIN G /\ G = [f \in DOMAIN G |-> G[f]]
  BY FramesAre
<1>2. \A f \in DOMAIN G : (IF f \in DOMAIN F THEN F[f] ELSE G[f]) = G[f]
  OBVIOUS
<1> QED
  BY <1>1, <1>2 DEF Over

LEMMA CellsAreRight ==
  ASSUME NEW d \in Disks, NEW h \in Slots, HeldRight(d, h), NEW step \in Steps, IsCells(step),
         DOMAIN h.frames # {}, \A f \in DOMAIN h.frames : OnDisk(h, d, f)
  PROVE  HeldRight(Written(d, h, step), Flushed(h, step))
<1> DEFINE none == <<>>
           files == [n \in DOMAIN h.files |-> [count |-> h.files[n].count, onDisk |-> h.files[n].count]]
           index == IndexFile(h)
           file == <<index>>
           e == Written(d, h, step)
           g == Flushed(h, step)
<1>1. PICK c, S, W : HourRight(h, d, c, S, W)
  BY DEF HeldRight, HourIsRight
<1>2. MemoryFits(h, d) /\ FilesHold(d) /\ d.frames \in FrameMaps /\ h.frames \in FrameMaps
  BY <1>1, SlotIs DEF HeldRight, HourRight, MemoryRight, DiskRight, Disks
<1>3. e \in Disks /\ g \in Slots
  <2>1. ~IsFrame(step)
    BY StepIsOne
  <2>2. step.do = "frame" => step.frame \in DOMAIN h.frames
    BY <2>1 DEF IsFrame
  <2> QED
    BY <2>2, StepIsWritten, StepIsFlushed
<1>4. e = [d EXCEPT !.index = file]
  BY DEF IsCells, Written
<1>5. g = [h EXCEPT !.clean = TRUE, !.dirty = none, !.frames = none, !.files = files]
  BY DEF IsCells, Flushed
<1>6. index.cells = h.cells
  BY DEF IndexFile
<1>7. DOMAIN none = {} /\ Range(none) = {}
  BY DEF Range
<1>8. Len(h.files) \in Nat /\ DOMAIN h.files = 1 .. Len(h.files)
  BY <1>2, FilesOfFrames
<1>9. /\ Len(files) = Len(h.files) /\ DOMAIN files = DOMAIN h.files
      /\ \A n \in 1 .. Len(h.files) : files[n].count = h.files[n].count /\ files[n].onDisk = h.files[n].count
  BY <1>8
<1> HIDE DEF none, files, index
<1>10. e.frames = d.frames /\ e.lens = d.lens /\ e.index[1] = index /\ e.index # <<>>
  BY <1>4 DEF Disks
<1>11. /\ g.clean = TRUE /\ g.dirty = none /\ g.frames = none /\ g.files = files
       /\ g.cells = h.cells /\ g.tail = h.tail
  BY <1>5 DEF Slots, SlotRecords
<1> HIDE DEF e, g
<1>12. FramesOf(h, d) = d.frames
  <2>1. Over(h.frames, d.frames) = d.frames
    BY <1>2, OverTheSame DEF OnDisk
  <2> QED
    BY <1>2, <2>1, FramesShown
<1>13. MemoryFits(g, e)
  <2>1. FilesFit(g.files)
    BY <1>2, <1>9, <1>11 DEF MemoryFits, FilesFit
  <2>2. \A f \in DOMAIN d.frames : InFiles(h.files, f)
    BY <1>2 DEF MemoryFits
  <2>3. \A f \in DOMAIN d.frames : InFiles(g.files, f)
          /\ FileOf(f) \in DOMAIN g.files /\ IndexIn(f) < g.files[FileOf(f)].onDisk
    BY <1>8, <1>9, <1>11, <2>2 DEF InFiles
  <2> QED
    BY <1>3, <1>7, <1>10, <1>11, <2>1, <2>3 DEF MemoryFits, Shown
<1>14. FramesOf(g, e) = d.frames
  <2>1. Over(none, d.frames) = d.frames
    <3>1. none \in FrameMaps
      BY FramesAre DEF none
    <3> QED
      BY <1>2, <1>7, <3>1, OverTheSame
  <2>2. e.frames \in FrameMaps
    BY <1>2, <1>10
  <2>3. FramesOf(g, e) = Over(g.frames, e.frames)
    BY <1>13, <2>2, FramesShown
  <2> QED
    BY <1>10, <1>11, <2>1, <2>3
<1>15. HourRight(g, e, c, S, W)
  BY <1>1, <1>11, <1>12, <1>13, <1>14 DEF HourRight, MemoryRight
<1>16. CellsFit(h.cells, d.frames, c, S, W)
  BY <1>1, <1>12 DEF HourRight, MemoryRight, CellsFit
<1>17. FilesHold(e)
  <2>1. d.lens # <<>>
    <3>1. PICK f \in DOMAIN h.frames : f \in DOMAIN d.frames
      BY DEF OnDisk
    <3>2. FileOf(f) \in DOMAIN d.lens
      BY <1>2, <3>1 DEF FilesHold
    <3> QED
      BY <3>2
  <2> QED
    BY <1>2, <1>10, <2>1 DEF FilesHold
<1> QED
  BY <1>6, <1>10, <1>11, <1>15, <1>16, <1>17
  DEF HeldRight, HourIsRight, DiskRight, CellsHold, Marks, e, g

(* The indexes are written.                                                *)
LEMMA IndexIsRight ==
  ASSUME NEW d \in Disks, NEW h \in Slots, HeldRight(d, h), NEW step \in Steps, IsLate(step)
  PROVE  HeldRight(Written(d, h, step), Flushed(h, step))
<1> DEFINE key == <<KeyToFile(h.key)>>
           process == <<ProcessToFile(h.process)>>
           e == Written(d, h, step)
           g == Flushed(h, step)
<1>1. PICK c, S, W : HourRight(h, d, c, S, W)
  BY DEF HeldRight, HourIsRight
<1>2. d.frames \in FrameMaps
  BY DEF Disks
<1>3. g \in Slots
  BY StepIsFlushed
<1>4. e.frames = d.frames /\ e.lens = d.lens /\ e.index = d.index
  <2>1. e = [d EXCEPT !.key = key] \/ e = [d EXCEPT !.process = process]
    BY DEF IsLate, Written
  <2> HIDE DEF key, process, e
  <2> QED
    BY <2>1 DEF Disks
<1>5. SameFrames(g, h) /\ g.clean = h.clean
  <2>1. g = [h EXCEPT !.keyChanged = FALSE] \/ g = [h EXCEPT !.processChanged = FALSE]
    BY DEF IsLate, Flushed
  <2> HIDE DEF g
  <2> QED
    BY <2>1 DEF SameFrames, Slots, SlotRecords
<1> HIDE DEF e, g
<1>6. HourIsRight(g, e)
  BY <1>1, <1>2, <1>3, <1>4, <1>5, RightOn DEF HourIsRight
<1> QED
  BY <1>4, <1>5, <1>6 DEF HeldRight, DiskRight, FilesHold, IsClean, Marks, e, g

-------------------------------------------------------------------------------
(* Every step of a flush leaves the hour and its files as they should be.  *)
LEMMA StepHeldRight ==
  ASSUME NEW d, NEW h, NEW s, FlushRight(d, h, s), s # <<>>
  PROVE  HeldRight(Written(d, h, Head(s)), Flushed(h, Head(s)))
<1> DEFINE step == Head(s)
<1>1. d \in Disks /\ h \in Slots /\ s \in StepsOver(h.frames) /\ HeldRight(d, h) /\ StepsFit(h, d, s)
  BY DEF FlushRight
<1>2. step \in Steps /\ step = s[1] /\ 1 \in 1 .. Len(s)
      /\ (step.do = "frame" => step.frame \in DOMAIN h.frames)
  <2>1. s \in Seq(Steps)
    BY <1>1 DEF StepsOver
  <2>2. 1 \in 1 .. Len(s) /\ step = s[1]
    BY <2>1
  <2> QED
    BY <1>1, <2>2, FirstStepIs
<1>3. /\ IsMark(step) \/ IsLate(step) \/ ~h.clean
      /\ ~IsLate(step) => DOMAIN h.frames # {}
      /\ IsCells(step) => \A f \in DOMAIN h.frames :
           (\E j \in 1 .. 1 - 1 : IsFrame(s[j]) /\ s[j].frame = f) \/ OnDisk(h, d, f)
  <2> HIDE DEF step
  <2> QED
    BY <1>1, <1>2 DEF StepsFit
<1> HIDE DEF step
<1>4. IsCells(step) => \A f \in DOMAIN h.frames : OnDisk(h, d, f)
  BY <1>3
<1>5. IsMark(step) \/ IsFrame(step) \/ IsCells(step) \/ IsLate(step)
  BY <1>2, StepIsOne
<1>6. ~(IsMark(step) /\ IsLate(step)) /\ ~(IsFrame(step) /\ IsLate(step)) /\ ~(IsCells(step) /\ IsLate(step))
      /\ ~(IsFrame(step) /\ IsMark(step))
  BY <1>2, StepIsOne
<1>7. CASE IsMark(step)
  BY <1>1, <1>2, <1>3, <1>6, <1>7, MarkIsRight DEF step
<1>8. CASE IsFrame(step)
  <2>1. step.frame \in DOMAIN h.frames
    BY <1>2, <1>8 DEF IsFrame
  <2> QED
    BY <1>1, <1>2, <1>3, <1>6, <1>8, <2>1, FrameIsRight DEF step
<1>9. CASE IsCells(step)
  BY <1>1, <1>2, <1>3, <1>4, <1>6, <1>9, CellsAreRight DEF step
<1>10. CASE IsLate(step)
  BY <1>1, <1>2, <1>10, IndexIsRight DEF step
<1> QED
  BY <1>5, <1>7, <1>8, <1>9, <1>10

LEMMA FramesKept ==
  ASSUME NEW d \in Disks, NEW h \in Slots, NEW step \in Steps, ~IsCells(step),
         step.do = "frame" => step.frame \in DOMAIN h.frames
  PROVE  LET e == Written(d, h, step)
             g == Flushed(h, step)
         IN  /\ g.frames = h.frames
             /\ \A f \in DOMAIN h.frames : OnDisk(h, d, f) \/ (IsFrame(step) /\ step.frame = f)
                   => OnDisk(g, e, f)
             /\ IsMark(step) => ~g.clean
             /\ IsFrame(step) => g.clean = h.clean
<1> DEFINE e == Written(d, h, step)
           g == Flushed(h, step)
           frames == Updated(d.frames, step.frame, h.frames[step.frame])
           lens == Longer(d, h, step.frame)
<1>1. g.frames = h.frames
  <2>1. step.do # "cells"
    BY DEF IsCells
  <2> QED
    BY <2>1, StepIsFlushed
<1>2. IsFrame(step) => g = h /\ e = [d EXCEPT !.frames = frames, !.lens = lens]
  BY DEF IsFrame, Flushed, Written
<1>3. ~IsFrame(step) => e.frames = d.frames
  <2> DEFINE l == [n \in 1 .. Len(h.files) |-> LenOfFile(d, n)]
             index == IF d.index = <<>> \/ ~h.clean THEN d.index
                      ELSE <<[d.index[1] EXCEPT !.clean = FALSE]>>
             key == <<KeyToFile(h.key)>>
             process == <<ProcessToFile(h.process)>>
  <2>1. ~IsFrame(step) => \/ e = [d EXCEPT !.lens = l, !.index = index]
                          \/ e = [d EXCEPT !.key = key] \/ e = [d EXCEPT !.process = process]
    BY StepIsOne DEF IsMark, IsCells, IsLate, Written
  <2> HIDE DEF e, l, index, key, process
  <2> QED
    BY <2>1 DEF Disks
<1>4. IsMark(step) => ~g.clean
  <2>1. IsMark(step) => g = [h EXCEPT !.clean = FALSE]
    BY DEF IsMark, Flushed
  <2> HIDE DEF g
  <2> QED
    BY <2>1 DEF Slots, SlotRecords
<1> HIDE DEF frames, lens
<1>5. IsFrame(step) => e.frames = frames
  <2> HIDE DEF e
  <2> QED
    BY <1>2 DEF Disks
<1> HIDE DEF e, g
<1>6. ASSUME NEW f \in DOMAIN h.frames, OnDisk(h, d, f) \/ (IsFrame(step) /\ step.frame = f)
      PROVE  OnDisk(g, e, f)
  <2>1. CASE IsFrame(step)
    BY <1>1, <1>5, <1>6, <2>1 DEF OnDisk, frames, Updated
  <2>2. CASE ~IsFrame(step)
    BY <1>1, <1>3, <1>6, <2>2 DEF OnDisk
  <2> QED
    BY <2>1, <2>2
<1> QED
  BY <1>1, <1>2, <1>4, <1>6 DEF e, g

LEMMA StepsFitOn ==
  ASSUME NEW d, NEW h, NEW s, FlushRight(d, h, s), s # <<>>
  PROVE  StepsFit(Flushed(h, Head(s)), Written(d, h, Head(s)), Tail(s))
<1> DEFINE step == Head(s)
           t == Tail(s)
           n == Len(s)
           e == Written(d, h, step)
           g == Flushed(h, step)
<1>1. d \in Disks /\ h \in Slots /\ s \in StepsOver(h.frames) /\ StepsFit(h, d, s)
  BY DEF FlushRight
<1>2. /\ s \in Seq(Steps) /\ n \in Nat /\ n > 0 /\ step = s[1] /\ \A i \in 1 .. n : s[i] \in Steps
      /\ t \in Seq(Steps) /\ Len(t) = n - 1 /\ \A i \in 1 .. n - 1 : t[i] = s[i + 1]
  <2>1. s \in Seq(Steps)
    BY <1>1 DEF StepsOver
  <2> QED
    BY <2>1
<1>3. step.do = "frame" => step.frame \in DOMAIN h.frames
  BY <1>1, FirstStepIs
<1> HIDE DEF t, n, step
<1>4. 1 \in 1 .. n /\ step \in Steps
  BY <1>2
<1>5. /\ \A i \in 1 .. n : IsMark(s[i]) => i = 1
      /\ \A i \in 1 .. n : \A j \in 1 .. i - 1 : IsCells(s[j]) \/ IsLate(s[j]) => IsLate(s[i])
      /\ \A i \in 1 .. n : ~IsLate(s[i]) => DOMAIN h.frames # {}
      /\ IsMark(s[1]) \/ IsLate(s[1]) \/ ~h.clean
      /\ \A i \in 1 .. n : IsCells(s[i]) => \A f \in DOMAIN h.frames :
           (\E j \in 1 .. i - 1 : IsFrame(s[j]) /\ s[j].frame = f) \/ OnDisk(h, d, f)
  BY <1>1 DEF StepsFit, n
<1>6. \A i \in 1 .. n - 1 : i + 1 \in 1 .. n /\ i + 1 # 1 /\ 1 \in 1 .. (i + 1) - 1
                            /\ i \in Nat /\ \A j \in 1 .. i - 1 : j + 1 \in 1 .. (i + 1) - 1 /\ j \in 1 .. n - 1
  BY <1>2
<1>7. \A i \in 1 .. n - 1 : t[i] \in Steps /\ ~IsMark(t[i])
        /\ (IsCells(step) \/ IsLate(step) => IsLate(t[i]))
  <2> TAKE i \in 1 .. n - 1
  <2> DEFINE k == i + 1
  <2>1. k \in 1 .. n /\ k # 1 /\ 1 \in 1 .. k - 1 /\ t[i] = s[k]
    BY <1>2, <1>6
  <2> HIDE DEF k
  <2> QED
    BY <1>2, <1>5, <2>1
<1>8. \A i \in 1 .. n - 1 : \A j \in 1 .. i - 1 : IsCells(t[j]) \/ IsLate(t[j]) => IsLate(t[i])
  <2> TAKE i \in 1 .. n - 1
  <2> TAKE j \in 1 .. i - 1
  <2> DEFINE k == i + 1
             l == j + 1
  <2>1. k \in 1 .. n /\ t[i] = s[k] /\ l \in 1 .. k - 1 /\ t[j] = s[l]
    BY <1>2, <1>6
  <2> HIDE DEF k, l
  <2> QED
    BY <1>5, <2>1
<1>9. \A x \in Steps : ~(IsCells(x) /\ IsLate(x))
  BY StepIsOne
<1> HIDE DEF e, g
<1>10. CASE IsCells(step) \/ IsLate(step)
  <2>1. \A i \in 1 .. n - 1 : IsLate(t[i]) /\ ~IsMark(t[i]) /\ ~IsCells(t[i])
    BY <1>7, <1>9, <1>10
  <2>2. t # <<>> => 1 \in 1 .. n - 1
    <3>1. t = <<>> \/ Len(t) > 0
      BY <1>2
    <3> QED
      BY <1>2, <3>1
  <2> QED
    BY <1>2, <2>1, <2>2 DEF StepsFit, t, e, g, step
<1>11. CASE ~(IsCells(step) \/ IsLate(step))
  <2>1. /\ g.frames = h.frames
        /\ \A f \in DOMAIN h.frames : OnDisk(h, d, f) \/ (IsFrame(step) /\ step.frame = f)
              => OnDisk(g, e, f)
        /\ IsMark(step) => ~g.clean
        /\ IsFrame(step) => g.clean = h.clean
    BY <1>1, <1>3, <1>4, <1>11, FramesKept DEF e, g
  <2>2. ~g.clean
    <3>1. IsMark(step) \/ IsFrame(step)
      BY <1>4, <1>11, StepIsOne
    <3>2. ~(IsFrame(step) /\ IsMark(step))
      BY <1>4, StepIsOne
    <3> QED
      BY <1>2, <1>5, <1>11, <2>1, <3>1, <3>2
  <2>3. \A i \in 1 .. n - 1 : ~IsLate(t[i]) => DOMAIN g.frames # {}
    <3> TAKE i \in 1 .. n - 1
    <3> DEFINE k == i + 1
    <3>1. k \in 1 .. n /\ t[i] = s[k]
      BY <1>2, <1>6
    <3> HIDE DEF k
    <3> QED
      BY <1>5, <2>1, <3>1
  <2>4. \A i \in 1 .. n - 1 : IsCells(t[i]) => \A f \in DOMAIN g.frames :
           (\E j \in 1 .. i - 1 : IsFrame(t[j]) /\ t[j].frame = f) \/ OnDisk(g, e, f)
    <3> TAKE i \in 1 .. n - 1
    <3> HAVE IsCells(t[i])
    <3> TAKE f \in DOMAIN g.frames
    <3> DEFINE k == i + 1
    <3>1. k \in 1 .. n /\ t[i] = s[k] /\ k - 1 = i /\ i \in Nat
      BY <1>2, <1>6
    <3> HIDE DEF k
    <3>2. (\E j \in 1 .. k - 1 : IsFrame(s[j]) /\ s[j].frame = f) \/ OnDisk(h, d, f)
      BY <1>5, <2>1, <3>1
    <3>3. CASE OnDisk(h, d, f)
      BY <2>1, <3>3
    <3>4. ASSUME NEW j \in 1 .. k - 1, IsFrame(s[j]) /\ s[j].frame = f
          PROVE  (\E q \in 1 .. i - 1 : IsFrame(t[q]) /\ t[q].frame = f) \/ OnDisk(g, e, f)
      <4>1. CASE j = 1
        BY <1>2, <2>1, <3>4, <4>1
      <4>2. CASE j # 1
        <5> DEFINE q == j - 1
        <5>1. q \in 1 .. i - 1 /\ q \in 1 .. n - 1 /\ q + 1 = j
          BY <3>1, <4>2, <1>6
        <5> HIDE DEF q
        <5>2. t[q] = s[j]
          BY <1>2, <5>1
        <5> QED
          BY <3>4, <5>1, <5>2
      <4> QED
        BY <4>1, <4>2
    <3> QED
      BY <3>2, <3>3, <3>4
  <2> QED
    BY <1>2, <1>7, <1>8, <2>2, <2>3, <2>4 DEF StepsFit, t, e, g, step
<1> QED
  BY <1>10, <1>11

LEMMA StepIsRight ==
  ASSUME NEW d, NEW h, NEW s, FlushRight(d, h, s), s # <<>>
  PROVE  FlushRight(Written(d, h, Head(s)), Flushed(h, Head(s)), Tail(s))
<1> DEFINE step == Head(s)
<1>1. d \in Disks /\ h \in Slots /\ s \in StepsOver(h.frames)
  BY DEF FlushRight
<1>2. /\ step \in Steps /\ (step.do = "frame" => step.frame \in DOMAIN h.frames)
      /\ Tail(s) \in StepsOver(Flushed(h, step).frames)
  BY <1>1, FirstStepIs
<1> HIDE DEF step
<1>3. Written(d, h, step) \in Disks /\ Flushed(h, step) \in Slots
  BY <1>1, <1>2, StepIsWritten, StepIsFlushed
<1>4. HeldRight(Written(d, h, step), Flushed(h, step))
  BY StepHeldRight DEF step
<1>5. StepsFit(Flushed(h, step), Written(d, h, step), Tail(s))
  BY StepsFitOn DEF step
<1> QED
  BY <1>2, <1>3, <1>4, <1>5 DEF FlushRight, step

-------------------------------------------------------------------------------
(* All of the steps of a flush, one after another.                         *)
LEMMA DoneIsRight ==
  ASSUME NEW d, NEW h, NEW some, FlushRight(d, h, some)
  PROVE  HeldRight(Done(d, h, some).d, Done(d, h, some).h)
<1> DEFINE n == Len(some)
           Rest(k) == SubSeq(some, k + 1, n)
<1>1. d \in Disks /\ h \in Slots /\ some \in StepsOver(h.frames)
  BY DEF FlushRight
<1>2. PICK g : Between(g, d, h, some)
  BY <1>1, StepsOneByOne
<1>3. some \in Seq(Steps) /\ n \in Nat
  BY <1>1 DEF StepsOver
<1> DEFINE At(k) == g[1 .. k]
<1>4. /\ g[{}] = [d |-> d, h |-> h] /\ At(n) = Done(d, h, some)
      /\ \A i \in 1 .. n : At(i) = [d |-> Written(At(i - 1).d, At(i - 1).h, some[i]),
                                    h |-> Flushed(At(i - 1).h, some[i])]
  BY <1>2 DEF Between
<1>5. At(0) = [d |-> d, h |-> h]
  <2>1. 1 .. 0 = {}
    OBVIOUS
  <2> QED
    BY <1>4, <2>1
<1>6. Rest(0) = some
  BY <1>3
<1>7. \A k \in Nat : k < n => /\ Rest(k) # <<>> /\ Head(Rest(k)) = some[k + 1]
                              /\ Tail(Rest(k)) = Rest(k + 1)
                              /\ k + 1 \in 1 .. n /\ (k + 1) - 1 = k
  <2> TAKE k \in Nat
  <2> HAVE k < n
  <2> DEFINE l == Rest(k)
             m == n - k
             t == Rest(k + 1)
  <2>1. /\ l \in Seq(Steps) /\ Len(l) = m /\ \A i \in 1 .. m : l[i] = some[k + i]
        /\ t \in Seq(Steps) /\ Len(t) = m - 1 /\ \A i \in 1 .. m - 1 : t[i] = some[k + 1 + i]
        /\ m \in Nat /\ m > 0
    BY <1>3
  <2>2. k + 1 \in 1 .. n /\ (k + 1) - 1 = k
    BY <1>3
  <2> HIDE DEF l, t, m
  <2>3. l # <<>> /\ Head(l) = l[1] /\ 1 \in 1 .. m /\ l[1] = some[k + 1]
    BY <2>1
  <2>4. Tail(l) = t
    <3>1. /\ Tail(l) \in Seq(Steps) /\ Len(Tail(l)) = m - 1
          /\ \A i \in 1 .. m - 1 : Tail(l)[i] = l[i + 1]
      BY <2>1, <2>3
    <3>2. \A i \in 1 .. m - 1 : Tail(l)[i] = t[i]
      <4> TAKE i \in 1 .. m - 1
      <4>1. i + 1 \in 1 .. m /\ k + (i + 1) = k + 1 + i
        BY <2>1
      <4> QED
        BY <2>1, <3>1, <4>1
    <3> DEFINE q == Tail(l)
               z == m - 1
    <3>3. q \in Seq(Steps) /\ t \in Seq(Steps) /\ Len(q) = z /\ Len(t) = z /\ \A i \in 1 .. z : q[i] = t[i]
      BY <2>1, <3>1, <3>2
    <3> HIDE DEF q, z
    <3>4. q = [i \in 1 .. z |-> q[i]] /\ t = [i \in 1 .. z |-> t[i]]
      BY <3>3
    <3>5. q = t
      BY <3>3, <3>4
    <3> QED
      BY <3>5 DEF q
  <2> QED
    BY <2>2, <2>3, <2>4 DEF l, t
<1> HIDE DEF Rest, n
<1> DEFINE Good == {k \in Nat : k <= n => FlushRight(At(k).d, At(k).h, Rest(k))}
<1>8. 0 \in Good
  BY <1>5, <1>6
<1> HIDE DEF At
<1>9. \A k \in Good : k + 1 \in Good
  <2> TAKE k \in Good
  <2> SUFFICES ASSUME k + 1 <= n PROVE FlushRight(At(k + 1).d, At(k + 1).h, Rest(k + 1))
    OBVIOUS
  <2>1. k \in Nat /\ k < n /\ k <= n
    BY <1>3
  <2> DEFINE b == At(k).d
             x == At(k).h
             s == Rest(k)
  <2>2. FlushRight(b, x, s)
    BY <2>1
  <2>3. s # <<>> /\ Head(s) = some[k + 1] /\ Tail(s) = Rest(k + 1) /\ k + 1 \in 1 .. n /\ (k + 1) - 1 = k
    BY <1>7, <2>1
  <2>4. At(k + 1).d = Written(b, x, Head(s)) /\ At(k + 1).h = Flushed(x, Head(s))
    BY <1>4, <2>3
  <2> HIDE DEF b, x, s
  <2>5. FlushRight(Written(b, x, Head(s)), Flushed(x, Head(s)), Tail(s))
    BY <2>2, <2>3, StepIsRight
  <2> QED
    BY <2>3, <2>4, <2>5
<1>10. Good = Nat
  <2>1. Good \in SUBSET Nat
    OBVIOUS
  <2> HIDE DEF Good
  <2> QED
    BY <1>8, <1>9, <2>1, NatInd
<1>11. FlushRight(At(n).d, At(n).h, Rest(n))
  BY <1>3, <1>10
<1> QED
  BY <1>4, <1>11 DEF FlushRight

(* Every frame which is changed is written.                                *)
LEMMA ChangedAreWritten ==
  ASSUME NEW h \in Slots, NEW f \in Range(h.dirty)
  PROVE  \/ \E i \in DOMAIN NewFrames(h) : NewFrames(h)[i] = f
         \/ \E i \in DOMAIN ChangedFrames(h) : ChangedFrames(h)[i] = f
<1> DEFINE R == Range(h.dirty)
           new == {x \in R : IsNew(h, x)}
           changed == {i \in DOMAIN h.dirty : ~IsNew(h, h.dirty[i])}
           places == InOrder(changed, <)
<1>1. h.dirty \in Seq(Nat) /\ Len(h.dirty) \in Nat /\ DOMAIN h.dirty = 1 .. Len(h.dirty)
  BY SlotIs
<1>2. PICK p \in DOMAIN h.dirty : h.dirty[p] = f
  BY DEF Range
<1>3. CASE IsNew(h, f)
  <2>1. IsFiniteSet(new) /\ new \in SUBSET Int
    <3> DEFINE S == DOMAIN h.dirty
               q == h.dirty
    <3>1. IsFiniteSet(S)
      BY <1>1, FS_Interval
    <3>2. R = {q[x] : x \in S} /\ \A x \in S : q[x] \in Nat
      BY <1>1 DEF Range
    <3> HIDE DEF S, q, R
    <3>3. IsFiniteSet(R)
      BY <3>1, <3>2, ImageIsFinite
    <3>4. R \subseteq Nat
      BY <3>2
    <3>5. new \subseteq R
      OBVIOUS
    <3> HIDE DEF new
    <3>6. IsFiniteSet(new)
      BY <3>3, <3>5, FS_Subset
    <3> QED
      BY <3>4, <3>5, <3>6
  <2>2. NewFrames(h) = InOrder(new, <)
    BY DEF NewFrames
  <2>3. f \in new
    BY <1>3
  <2> DEFINE l == InOrder(new, <)
  <2> HIDE DEF new
  <2>4. Sorts(l, new, Smaller)
    BY <2>1, NumbersInOrder
  <2> HIDE DEF l
  <2>5. l \in Seq(new) /\ \E i \in 1 .. Len(l) : l[i] = f
    BY <2>3, <2>4 DEF Sorts
  <2>6. DOMAIN l = 1 .. Len(l)
    BY <2>5
  <2> QED
    BY <2>2, <2>5, <2>6 DEF l
<1>4. CASE ~IsNew(h, f)
  <2>1. p \in changed
    BY <1>2, <1>4
  <2>2. IsFiniteSet(changed) /\ changed \in SUBSET Int
    <3>1. changed \subseteq 1 .. Len(h.dirty)
      BY <1>1
    <3> HIDE DEF changed
    <3>2. IsFiniteSet(1 .. Len(h.dirty)) /\ 1 .. Len(h.dirty) \subseteq Int
      BY <1>1, FS_Interval
    <3>3. IsFiniteSet(changed)
      BY <3>1, <3>2, FS_Subset
    <3> QED
      BY <3>1, <3>2, <3>3
  <2>3. ChangedFrames(h) = [i \in DOMAIN places |-> h.dirty[places[i]]]
    BY DEF ChangedFrames, Those
  <2> HIDE DEF changed
  <2>4. Sorts(places, changed, Smaller)
    BY <2>2, NumbersInOrder
  <2> HIDE DEF places
  <2>5. places \in Seq(changed) /\ \E i \in 1 .. Len(places) : places[i] = p
    BY <2>1, <2>4 DEF Sorts
  <2>6. DOMAIN places = 1 .. Len(places)
    BY <2>5
  <2>7. PICK i \in DOMAIN places : places[i] = p
    BY <2>5, <2>6
  <2>8. i \in DOMAIN ChangedFrames(h) /\ ChangedFrames(h)[i] = f
    BY <1>2, <2>3, <2>7
  <2> QED
    BY <2>8
<1> QED
  BY <1>3, <1>4

(* The first steps of a flush: the mark, the frames and the cells.         *)
Lates == {s \in Seq(Steps) : \A i \in 1 .. Len(s) : IsLate(s[i])}
MarksFramesCells(all, n, D) ==
  /\ all \in Seq(Steps) /\ n \in Nat /\ Len(all) = n + 2
  /\ IsMark(all[1]) /\ IsCells(all[n + 2])
  /\ \A i \in 2 .. n + 1 : IsFrame(all[i])
  /\ \A f \in D : \E i \in 2 .. n + 1 : all[i].frame = f

LEMMA FlushStarts ==
  ASSUME NEW h \in Slots, Range(h.dirty) = DOMAIN h.frames, h.dirty # <<>>
  PROVE  \E n : MarksFramesCells(flush_frames(h), n, DOMAIN h.frames)
<1> DEFINE new == NewFrames(h)
           changed == ChangedFrames(h)
           frames == new \o changed
           D == DOMAIN h.frames
           n == Len(frames)
           mark == Step("mark", NoFrame)
           some == [i \in DOMAIN frames |-> Step("frame", frames[i])]
           cells == Step("cells", NoFrame)
           all == (<<mark>> \o some) \o <<cells>>
<1>1. flush_frames(h) = all
  BY DEF flush_frames
<1>2. new \in Seq(D) /\ changed \in Seq(D) /\ D \subseteq Nat
  BY FramesToWrite, SlotIs, FramesAre
<1>3. \A f \in D : (\E i \in DOMAIN new : new[i] = f) \/ (\E i \in DOMAIN changed : changed[i] = f)
  BY ChangedAreWritten
<1> HIDE DEF new, changed, D
<1>4. n \in Nat /\ DOMAIN frames = 1 .. n /\ \A i \in 1 .. n : frames[i] \in D
  <2>1. frames \in Seq(D)
    BY <1>2
  <2> QED
    BY <2>1
<1>5. \A f \in D : \E i \in 1 .. n : frames[i] = f
  <2> TAKE f \in D
  <2>1. ASSUME NEW i \in DOMAIN new, new[i] = f PROVE i \in 1 .. n /\ frames[i] = f
    BY <1>2, <2>1
  <2>2. ASSUME NEW i \in DOMAIN changed, changed[i] = f
        PROVE  Len(new) + i \in 1 .. n /\ frames[Len(new) + i] = f
    BY <1>2, <2>2
  <2> QED
    BY <1>3, <2>1, <2>2
<1>6. mark \in Steps /\ cells \in Steps /\ IsMark(mark) /\ IsCells(cells)
  BY DEF Step, Steps, NoFrame, IsMark, IsCells
<1>7. \A f \in D : Step("frame", f) \in Steps /\ IsFrame(Step("frame", f)) /\ Step("frame", f).frame = f
  BY <1>2 DEF Step, Steps, IsFrame
<1> HIDE DEF frames, n, mark, cells
<1>8. /\ some \in Seq(Steps) /\ Len(some) = n
      /\ \A i \in 1 .. n : IsFrame(some[i]) /\ some[i].frame = frames[i]
  <2>1. \A i \in 1 .. n : some[i] = Step("frame", frames[i]) /\ some[i] \in Steps
    BY <1>4, <1>7
  <2>2. some \in Seq(Steps) /\ Len(some) = n
    BY <1>4, <2>1
  <2> QED
    BY <1>4, <1>7, <2>1, <2>2
<1> HIDE DEF some
<1>9. /\ all \in Seq(Steps) /\ Len(all) = n + 2 /\ all[1] = mark /\ all[n + 2] = cells
      /\ \A i \in 1 .. n : all[i + 1] = some[i]
  BY <1>4, <1>6, <1>8
<1> HIDE DEF all
<1>10. \A i \in 2 .. n + 1 : IsFrame(all[i])
  <2> TAKE i \in 2 .. n + 1
  <2> DEFINE j == i - 1
  <2>1. j \in 1 .. n /\ j + 1 = i
    BY <1>4
  <2> HIDE DEF j
  <2> QED
    BY <1>8, <1>9, <2>1
<1>11. \A f \in D : \E i \in 2 .. n + 1 : all[i].frame = f
  <2> TAKE f \in D
  <2>1. PICK j \in 1 .. n : frames[j] = f
    BY <1>5
  <2>2. j + 1 \in 2 .. n + 1 /\ all[j + 1] = some[j] /\ some[j].frame = f
    BY <1>4, <1>8, <1>9, <2>1
  <2> QED
    BY <2>2
<1>12. MarksFramesCells(all, n, D)
  BY <1>4, <1>6, <1>9, <1>10, <1>11 DEF MarksFramesCells
<1> QED
  BY <1>1, <1>12 DEF D

LEMMA LateFits ==
  ASSUME NEW h, NEW d, NEW s \in Lates
  PROVE  StepsFit(h, d, s)
<1>1. s \in Seq(Steps) /\ \A i \in 1 .. Len(s) : s[i] \in Steps /\ IsLate(s[i])
  BY DEF Lates
<1>2. \A i \in 1 .. Len(s) : ~IsMark(s[i]) /\ ~IsCells(s[i])
  BY <1>1, StepIsOne
<1>3. s # <<>> => 1 \in 1 .. Len(s)
  BY <1>1
<1> QED
  BY <1>1, <1>2, <1>3 DEF StepsFit

LEMMA WholeFlushFits ==
  ASSUME NEW h, NEW d, NEW n, NEW all, MarksFramesCells(all, n, DOMAIN h.frames),
         DOMAIN h.frames # {}, NEW late \in Lates
  PROVE  StepsFit(h, d, all \o late)
<1> DEFINE s == all \o late
           m == n + 2
           l == Len(late)
<1>1. /\ all \in Seq(Steps) /\ n \in Nat /\ Len(all) = m
      /\ IsMark(all[1]) /\ IsCells(all[m]) /\ \A i \in 2 .. n + 1 : IsFrame(all[i])
      /\ \A f \in DOMAIN h.frames : \E i \in 2 .. n + 1 : all[i].frame = f
  BY DEF MarksFramesCells
<1>2. late \in Seq(Steps) /\ \A i \in 1 .. l : IsLate(late[i])
  BY DEF Lates
<1>3. /\ s \in Seq(Steps) /\ Len(s) = m + l /\ l \in Nat /\ s # <<>>
      /\ \A i \in 1 .. m : s[i] = all[i]
      /\ \A i \in 1 .. m + l : i > m => i - m \in 1 .. l /\ s[i] = late[i - m]
  BY <1>1, <1>2
<1>4. \A x \in Steps : /\ ~(IsMark(x) /\ IsFrame(x)) /\ ~(IsMark(x) /\ IsCells(x))
                       /\ ~(IsMark(x) /\ IsLate(x)) /\ ~(IsFrame(x) /\ IsCells(x))
                       /\ ~(IsFrame(x) /\ IsLate(x)) /\ ~(IsCells(x) /\ IsLate(x))
  BY StepIsOne
<1> HIDE DEF s, l
<1>5. \A i \in 1 .. m + l : s[i] \in Steps
  BY <1>3
<1>6. /\ IsMark(s[1])
      /\ \A i \in 1 .. m + l : i # 1 /\ i < m => IsFrame(s[i])
      /\ IsCells(s[m])
      /\ \A i \in 1 .. m + l : i > m => IsLate(s[i])
  <2>1. 1 \in 1 .. m /\ m \in 1 .. m
    BY <1>1
  <2>2. \A i \in 1 .. m + l : i # 1 /\ i < m => i \in 2 .. n + 1 /\ i \in 1 .. m
    BY <1>1, <1>3
  <2> HIDE DEF m
  <2> QED
    BY <1>1, <1>2, <1>3, <2>1, <2>2
<1>7. m \in Nat /\ l \in Nat /\ m >= 2 /\ n + 1 = m - 1
  BY <1>1, <1>3
<1> HIDE DEF m
<1>8. \A i \in 1 .. m + l : IsMark(s[i]) => i = 1
  <2> TAKE i \in 1 .. m + l
  <2>1. i = 1 \/ (i # 1 /\ i < m) \/ i = m \/ i > m
    BY <1>7
  <2> QED
    BY <1>4, <1>5, <1>6, <2>1
<1>9. \A i \in 1 .. m + l : \A j \in 1 .. i - 1 : IsCells(s[j]) \/ IsLate(s[j]) => IsLate(s[i])
  <2> TAKE i \in 1 .. m + l
  <2> TAKE j \in 1 .. i - 1
  <2>1. j \in 1 .. m + l /\ (j = 1 \/ (j # 1 /\ j < m) \/ j >= m) /\ (j >= m => i > m)
    BY <1>7
  <2> QED
    BY <1>4, <1>5, <1>6, <2>1
<1>10. \A i \in 1 .. m + l : IsCells(s[i]) => \A f \in DOMAIN h.frames :
           (\E j \in 1 .. i - 1 : IsFrame(s[j]) /\ s[j].frame = f) \/ OnDisk(h, d, f)
  <2> TAKE i \in 1 .. m + l
  <2> HAVE IsCells(s[i])
  <2> TAKE f \in DOMAIN h.frames
  <2>1. i = m
    <3>1. i = 1 \/ (i # 1 /\ i < m) \/ i = m \/ i > m
      BY <1>7
    <3> QED
      BY <1>4, <1>5, <1>6, <3>1
  <2>2. PICK j \in 2 .. n + 1 : all[j].frame = f
    BY <1>1
  <2>3. j \in 1 .. i - 1 /\ j \in 1 .. m /\ j \in 1 .. m + l /\ j # 1 /\ j < m
    BY <1>1, <1>7, <2>1
  <2>4. s[j].frame = f /\ IsFrame(s[j])
    BY <1>3, <1>6, <2>2, <2>3
  <2> QED
    BY <2>3, <2>4
<1>11. Len(s) = m + l
  BY <1>3
<1> QED
  BY <1>6, <1>8, <1>9, <1>10, <1>11 DEF StepsFit, s

LEMMA FlushFits ==
  ASSUME NEW d \in Disks, NEW h \in Slots, HeldRight(d, h), NEW due \in BOOLEAN, NEW quiet \in BOOLEAN
  PROVE  FlushRight(d, h, flush(h, due, quiet))
<1> DEFINE all == flush_frames(h)
           key == IF h.keyChanged /\ due THEN <<Step("key", NoFrame)>> ELSE <<>>
           process == IF h.processChanged /\ quiet THEN <<Step("process", NoFrame)>> ELSE <<>>
           late == key \o process
           s == flush(h, due, quiet)
<1>1. s \in StepsOver(h.frames)
  BY FlushIs
<1>2. s = (all \o key) \o process
  BY DEF flush
<1>3. Step("key", NoFrame) \in Steps /\ IsLate(Step("key", NoFrame))
      /\ Step("process", NoFrame) \in Steps /\ IsLate(Step("process", NoFrame))
  BY DEF Step, Steps, NoFrame, IsLate
<1>4. \A x \in Steps : IsLate(x) => <<x>> \in Lates
  <2> TAKE x \in Steps
  <2> HAVE IsLate(x)
  <2>1. <<x>> \in Seq(Steps) /\ Len(<<x>>) = 1 /\ <<x>>[1] = x
    OBVIOUS
  <2> QED
    BY <2>1 DEF Lates
<1>5. <<>> \in Lates
  <2>1. <<>> \in Seq(Steps) /\ Len(<<>>) = 0
    OBVIOUS
  <2> QED
    BY <2>1 DEF Lates
<1>6. key \in Lates /\ process \in Lates
  BY <1>3, <1>4, <1>5
<1> HIDE DEF key, process, all, s
<1>7. late \in Lates
  <2> DEFINE a == Len(key)
             b == Len(process)
  <2>1. key \in Seq(Steps) /\ process \in Seq(Steps) /\ a \in Nat /\ b \in Nat
        /\ (\A i \in 1 .. a : IsLate(key[i])) /\ (\A i \in 1 .. b : IsLate(process[i]))
    BY <1>6 DEF Lates
  <2>2. /\ late \in Seq(Steps) /\ Len(late) = a + b
        /\ \A i \in 1 .. a + b : IF i <= a THEN i \in 1 .. a /\ late[i] = key[i]
                                 ELSE i - a \in 1 .. b /\ late[i] = process[i - a]
    BY <2>1
  <2> HIDE DEF late, a, b
  <2>3. \A i \in 1 .. Len(late) : IsLate(late[i])
    BY <2>1, <2>2
  <2> QED
    BY <2>2, <2>3 DEF Lates
<1>8. Range(h.dirty) = DOMAIN h.frames
  BY DEF HeldRight, HourIsRight, HourRight, MemoryRight, MemoryFits
<1>9. StepsFit(h, d, s)
  <2>0. key \in Seq(Steps) /\ process \in Seq(Steps)
    BY <1>6 DEF Lates
  <2>1. CASE h.dirty = <<>>
    <3>1. all = <<>>
      BY <2>1 DEF all, flush_frames
    <3>2. s = late
      BY <1>2, <2>0, <3>1
    <3> HIDE DEF late
    <3> QED
      BY <1>7, <3>2, LateFits
  <2>2. CASE h.dirty # <<>>
    <3>1. PICK n : MarksFramesCells(all, n, DOMAIN h.frames)
      BY <1>8, <2>2, FlushStarts DEF all
    <3>2. all \in Seq(Steps)
      BY <3>1 DEF MarksFramesCells
    <3>3. s = all \o late
      BY <1>2, <2>0, <3>2
    <3>4. DOMAIN h.frames # {}
      <4>1. h.dirty \in Seq(Nat)
        BY SlotIs
      <4>2. 1 \in DOMAIN h.dirty
        BY <2>2, <4>1
      <4> QED
        BY <1>8, <4>2 DEF Range
    <3> HIDE DEF late
    <3> QED
      BY <1>7, <3>1, <3>3, <3>4, WholeFlushFits
  <2> QED
    BY <2>1, <2>2
<1> QED
  BY <1>1, <1>9 DEF FlushRight, s

-------------------------------------------------------------------------------
(* Nothing of an hour which was just opened is changed.                    *)
LEMMA RebuiltIsBare ==
  ASSUME NEW h \in Slots, h.frames = <<>>, NEW d \in Disks, NEW r, r = OpenRebuilt(h, d)
  PROVE  r.h.frames = <<>>
<1> DEFINE b == rebuild(h, d)
           t == WithTail(b)
           F == FramesOf([h EXCEPT !.frames = <<>>], d)
           none == <<>>
           key == b.indexes.key
           process == b.indexes.process
           which == {"key", "process"}
<1>1. b.h.frames = none
  <2>1. b = Found(h, d, Chain(F)) \/ b = NothingFound(h, d)
    BY DEF rebuild
  <2>2. Found(h, d, Chain(F)).h.frames = none
    <3> DEFINE cells == CellsOf(Chain(F))
               counts == CountsOf(Chain(F))
    <3>1. Found(h, d, Chain(F)).h = [h EXCEPT !.cells = cells, !.counts = counts, !.frames = none,
                                              !.clean = TRUE, !.rebuilt = TRUE]
      BY DEF Found
    <3> HIDE DEF cells, counts, none
    <3> QED
      BY <3>1 DEF Slots, SlotRecords
  <2>3. NothingFound(h, d).h.frames = none
    <3> DEFINE files == EmptyFiles(h.files)
    <3>1. NothingFound(h, d).h = [h EXCEPT !.cells = NoCells, !.counts = NoCounts, !.frames = none,
                                           !.clean = TRUE, !.rebuilt = TRUE, !.files = files]
      BY DEF NothingFound, Slots, SlotRecords
    <3> HIDE DEF files, none
    <3> QED
      BY <3>1 DEF Slots, SlotRecords
  <2> HIDE DEF b
  <2> QED
    BY <2>1, <2>2, <2>3
<1>2. IsOpened(b) /\ find_tail(b.h, b.d).ok
  BY RebuiltIs
<1>3. r = take_rebuilt(t, key, process, which)
  BY DEF OpenRebuilt
<1> HIDE DEF b, key, process, which
<1>4. IsOpened(t) /\ t.h.frames = none
  BY <1>1, <1>2, TailIsFound
<1> HIDE DEF t
<1>5. OpenedAlike(r, t)
  BY <1>3, <1>4, RebuiltAlike
<1> QED
  BY <1>4, <1>5 DEF OpenedAlike, SameFrames

LEMMA DataIsBare ==
  ASSUME NEW r, IsOpened(r), r.h.frames = <<>>, NEW full \in BOOLEAN, NEW walk,
         NEW o, o = WithDataOf(r, r.d, full, walk)
  PROVE  o.h.frames = <<>>
<1> DEFINE d == r.d
           again == rebuild_indexes(walk)
           with == WithIndexes(r.h, d, full)
           read == [r EXCEPT !.h = with]
           h == [r.h EXCEPT !.failure = ""]
           counted == \/ r.h.failure # ""
                      \/ FrameCount(r.h) > 0 /\ (~walk.ok \/ again.key.total # total(r.h.counts))
           whole == r.h.failure = "" /\ Miscounted(r.h, d) = {}
           opened == OpenRebuilt(h, d)
           lost == Miscounted(r.h, d)
           key == again.key
           process == again.process
           taken == take_rebuilt(read, key, process, lost)
<1>1. r.h \in Slots /\ d \in Disks /\ "h" \in DOMAIN r
  BY DEF IsOpened
<1>2. with \in Slots /\ SameFrames(with, r.h)
  BY <1>1, IndexesAreRead, IndexesAlike
<1>3. o = IF whole THEN read ELSE IF counted THEN opened ELSE taken
  BY <1>1 DEF WithDataOf, Recounted
<1> HIDE DEF again, with, whole, counted, key, process, lost
<1>4. IsOpened(read) /\ read.h.frames = <<>>
  <2>1. IsOpened(read) /\ read.h = with
    BY <1>2, OpenedWith
  <2> HIDE DEF read
  <2> QED
    BY <1>2, <2>1 DEF SameFrames
<1> HIDE DEF read
<1>5. taken.h.frames = <<>>
  <2> DEFINE q == taken
  <2>1. q = take_rebuilt(read, key, process, lost)
    OBVIOUS
  <2> HIDE DEF q
  <2>2. OpenedAlike(q, read)
    BY <1>4, <2>1, RebuiltAlike
  <2>3. q.h.frames = <<>>
    BY <1>4, <2>2 DEF OpenedAlike, SameFrames
  <2> QED
    BY <2>3 DEF q
<1>6. opened.h.frames = <<>>
  <2>1. "" \in Reasons
    BY DEF Reasons
  <2>2. h \in Slots
    BY <1>1, <2>1, SlotWith
  <2>3. h.frames = r.h.frames
    BY <1>1 DEF Slots, SlotRecords
  <2> HIDE DEF h, d
  <2> QED
    BY <1>1, <2>2, <2>3, RebuiltIsBare
<1> HIDE DEF opened, taken
<1> QED
  BY <1>3, <1>4, <1>5, <1>6

LEMMA OpenedIsBare ==
  ASSUME NEW d \in Disks, NEW full \in BOOLEAN, NEW r, r = OpenHour(d, full)
  PROVE  r.h.frames = <<>> /\ r.h.dirty = <<>>
<1> DEFINE h == [NewHour EXCEPT !.files = FilesOfDisk(d)]
           fresh == [h |-> NewHour, d |-> d]
           broken == d.index = <<>> \/ d.torn \/ ~d.index[1].clean
           cells == [h EXCEPT !.cells = d.index[1].cells, !.counts = d.index[1].counts, !.clean = TRUE]
           F == FramesOf(h, d)
           both == [h |-> cells, d |-> d]
           t == WithTail(both)
           none == [entries |-> <<>>, ok |-> FALSE]
           walk == IF HEAD \in DOMAIN F THEN Chain(F) ELSE none
<1>1. h \in Slots /\ h.frames = <<>>
  BY FilesAreCounted, NewHourIs
<1>2. r = CASE d.lens = <<>> -> fresh
            [] d.lens # <<>> /\ broken -> OpenRebuilt(h, d)
            [] OTHER -> OpenClean(h, d, full)
  BY DEF OpenHour
<1>3. ~broken => d.index # <<>>
  OBVIOUS
<1>4. fresh.h.frames = <<>>
  BY DEF NewHour
<1> HIDE DEF h, fresh, broken
<1>5. r.h.frames = <<>>
  <2>1. CASE d.lens = <<>>
    <3>1. r = fresh
      BY <1>2, <2>1
    <3> QED
      BY <1>4, <3>1
  <2>2. CASE d.lens # <<>> /\ broken
    <3>1. r = OpenRebuilt(h, d)
      BY <1>2, <2>2
    <3> QED
      BY <1>1, <3>1, RebuiltIsBare
  <2>3. CASE d.lens # <<>> /\ ~broken
    <3>1. r = OpenClean(h, d, full)
      BY <1>2, <2>3
    <3>2. r = WithDataOf(t, d, full, walk)
      BY <3>1 DEF OpenClean
    <3>3. d.index[1] \in IndexFiles
      BY <1>3, <2>3, MaybeIs DEF Disks
    <3>4. cells \in Slots /\ cells.frames = h.frames
      BY <1>1, <3>3 DEF Slots, SlotRecords, IndexFiles
    <3> HIDE DEF cells
    <3>5. IsOpened(both) /\ both.h = cells /\ both.d = d
      BY <3>4 DEF IsOpened
    <3> HIDE DEF both
    <3>6. IsOpened(t) /\ t.d = d /\ t.h.frames = <<>>
      BY <1>1, <3>4, <3>5, TailIsFound
    <3> HIDE DEF t, walk
    <3> QED
      BY <3>2, <3>6, DataIsBare
  <2> QED
    BY <2>1, <2>2, <2>3
<1>6. r.h.dirty = <<>>
  <2>1. r.h \in Slots
    BY OpenedIs
  <2>2. r.h.dirty \in Seq(Nat) /\ Range(r.h.dirty) \subseteq DOMAIN r.h.frames
    BY <2>1, SlotIs
  <2> DEFINE s == r.h.dirty
  <2>3. s \in Seq(Nat) /\ Range(s) = {}
    BY <1>5, <2>2
  <2> HIDE DEF s
  <2>4. s = <<>>
    <3>1. DOMAIN s = {}
      BY <2>3 DEF Range
    <3> QED
      BY <2>3, <3>1
  <2> QED
    BY <2>4 DEF s
<1> QED
  BY <1>5, <1>6

-------------------------------------------------------------------------------
(* What is always so of the chain of an hour and of its files, until power *)
(* is lost: the memory, the disk and what a flush under way has still to   *)
(* write are as they should be.  After that nothing of the hour changes.   *)
IsPower == fault = "power"
PowerRight == IsPower /\ slot # Closed => slot.dirty = <<>>
ChainRight == ~IsPower => DiskRight(disk) /\ (slot # Closed => FlushRight(disk, slot, steps))
ChainInv == FileInv /\ RefusedOnlyForRoom /\ PowerRight /\ ChainRight

LEMMA NothingToDo ==
  ASSUME NEW d \in Disks, NEW h \in Slots, HeldRight(d, h)
  PROVE  FlushRight(d, h, <<>>)
<1> DEFINE none == <<>>
<1>1. none \in Lates
  <2>1. <<>> \in Seq(Steps) /\ Len(<<>>) = 0
    OBVIOUS
  <2> QED
    BY <2>1 DEF Lates
<1>2. none \in StepsOver(h.frames)
  BY NoStepsAreOver
<1> HIDE DEF none
<1>3. StepsFit(h, d, none)
  BY <1>1, LateFits
<1>4. FlushRight(d, h, none)
  BY <1>2, <1>3 DEF FlushRight
<1> QED
  BY <1>4 DEF none

LEMMA OpenedIsHeld ==
  ASSUME NEW r, OpenedRight(r)
  PROVE  r.d \in Disks /\ r.h \in Slots /\ DiskRight(r.d) /\ FlushRight(r.d, r.h, <<>>)
<1>1. r.d \in Disks /\ r.h \in Slots /\ HeldRight(r.d, r.h) /\ DiskRight(r.d)
  BY DEF OpenedRight, IsOpened, HeldRight, Marks
<1> QED
  BY <1>1, NothingToDo

LEMMA ChainInit == Init => ChainInv
<1> SUFFICES ASSUME Init PROVE ChainInv
  OBVIOUS
<1>1. FileInv
  BY FileInit
<1> DEFINE r == [h |-> NewHour, d |-> disk]
<1>2. disk \in Disks /\ FilesHold(disk) /\ disk.lens = <<>>
  <2>1. disk.frames = <<>> /\ disk.lens = <<>> /\ disk.index = <<>>
    BY DEF Init, NoFiles
  <2>2. 0 <= MAX_DATA_FILES /\ Len(<<>>) = 0 /\ DOMAIN <<>> = {}
    BY HourFileAssumption
  <2>3. FilesHold(disk)
    BY <2>1, <2>2 DEF FilesHold
  <2> QED
    BY <1>1, <2>1, <2>3 DEF FileInv, FilesRight
<1>3. r.h = NewHour /\ r.d = disk
  OBVIOUS
<1>4. OpenedRight(r)
  <2> DEFINE x == r
  <2>1. x = [h |-> NewHour, d |-> disk]
    OBVIOUS
  <2> HIDE DEF x
  <2>2. OpenedRight(x)
    BY <1>2, <2>1, NewHourIsRight
  <2> QED
    BY <2>2 DEF x
<1> HIDE DEF r
<1>5. DiskRight(disk) /\ FlushRight(disk, NewHour, <<>>)
  BY <1>3, <1>4, OpenedIsHeld
<1>6. slot = NewHour /\ steps = <<>> /\ refusals = {} /\ ~IsPower
  BY DEF Init, IsPower
<1> QED
  BY <1>1, <1>5, <1>6 DEF ChainInv, RefusedOnlyForRoom, PowerRight, ChainRight

LEMMA OpenIsWritten ==
  ASSUME ChainInv, slot # Closed, ~IsPower
  PROVE  /\ disk \in Disks /\ disk.frames \in FrameMaps /\ slot \in Slots /\ DiskRight(disk)
         /\ FlushRight(disk, slot, steps) /\ HeldRight(disk, slot) /\ slot \in WrittenSlots
<1>1. FileInv /\ DiskRight(disk) /\ FlushRight(disk, slot, steps)
  BY DEF ChainInv, ChainRight
<1>2. slot \in Slots /\ slot.failure = "" /\ disk \in Disks
  BY <1>1, SlotIsOpen DEF FileInv, FilesRight
<1>3. NotFailed(slot)
  BY <1>2 DEF NotFailed
<1>4. HeldRight(disk, slot)
  BY <1>1 DEF FlushRight
<1> QED
  BY <1>1, <1>2, <1>3, <1>4 DEF HeldRight, IsWritten, WrittenSlots, Disks

(* A hour which was written is refused for want of room, or as it should   *)
(* be.                                                                     *)
LEMMA WrittenEnds ==
  ASSUME NEW h \in WrittenSlots, DiskRight(disk)
  PROVE  /\ h \in Slots
         /\ h.failure # "" => h.failure = "no room"
         /\ h.failure = "" => HeldRight(disk, h)
<1>1. h \in Slots /\ IsWritten(h)
  BY DEF WrittenSlots
<1> QED
  BY <1>1 DEF IsWritten, NotFailed, NoRoom, HeldRight

LEMMA LoadRight ==
  ASSUME ChainInv, NEW batches \in Preloaded, Load(batches)
  PROVE  ChainInv'
<1> DEFINE h == FoldLeft(WriteSeconds, slot, batches)
           due == TRUE
           some == flush(h, due, due)
           all == Done(disk, h, some)
<1>0. FileInv /\ FileInv'
  BY LoadKeeps DEF ChainInv
<1>1. fault = "loading" /\ slot = NewHour /\ steps = <<>>
  BY <1>0 DEF Load, FileInv, FaultRight
<1>2. /\ h.failure = "" /\ disk' = all.d /\ slot' = all.h
      /\ steps' = steps /\ refusals' = refusals /\ fault' = "none"
  BY DEF Load
<1>3. slot # Closed /\ ~IsPower
  BY <1>1, NewHourIs, OpenIsNotClosed DEF IsPower
<1>4. disk \in Disks /\ disk.frames \in FrameMaps /\ DiskRight(disk) /\ slot \in WrittenSlots
  BY <1>3, OpenIsWritten
<1>5. h \in WrittenSlots
  BY <1>4, BatchesAreIn
<1> HIDE DEF h
<1>6. h \in Slots /\ HeldRight(disk, h)
  BY <1>2, <1>4, <1>5, WrittenEnds
<1>7. due \in BOOLEAN
  OBVIOUS
<1> HIDE DEF due
<1>8. FlushRight(disk, h, some)
  BY <1>4, <1>6, <1>7, FlushFits
<1>9. some \in StepsOver(h.frames)
  BY <1>8 DEF FlushRight
<1> HIDE DEF some
<1>10. HeldRight(all.d, all.h)
  BY <1>8, DoneIsRight
<1>11. all.d \in Disks /\ all.h \in Slots
  BY <1>4, <1>6, <1>9, StepsAreDone
<1> HIDE DEF all
<1>12. FlushRight(disk', slot', steps') /\ DiskRight(disk')
  <2>1. FlushRight(all.d, all.h, <<>>)
    BY <1>10, <1>11, NothingToDo
  <2> QED
    BY <1>1, <1>2, <1>10, <2>1 DEF HeldRight
<1>13. PowerRight' /\ ChainRight'
  BY <1>2, <1>12 DEF PowerRight, ChainRight, IsPower
<1> QED
  BY <1>0, <1>2, <1>13 DEF ChainInv, RefusedOnlyForRoom

LEMMA WriteRight ==
  ASSUME ChainInv, NEW ids \in SUBSET (Records \ given), NEW due \in BOOLEAN, Write(ids, due)
  PROVE  ChainInv'
<1> DEFINE h == WriteSeconds(slot, ids)
           quiet == FALSE
<1>0. FileInv /\ FileInv'
  BY WriteKeeps DEF ChainInv
<1>1. /\ slot.at = "open" /\ steps = <<>> /\ fault \notin {"loading", "power"}
      /\ Refuse(h, ids) \/ Accept(h, ids, due)
      /\ disk' = disk
  BY DEF Write
<1>2. slot # Closed /\ ~IsPower
  BY <1>1 DEF Closed, IsPower
<1>3. disk \in Disks /\ disk.frames \in FrameMaps /\ DiskRight(disk) /\ slot \in WrittenSlots
  BY <1>2, OpenIsWritten
<1>4. ids \in SUBSET AllRecords /\ IsFiniteSet(ids)
  <2>1. ids \subseteq Records /\ IsFiniteSet(Records) /\ Records \subseteq AllRecords
    BY HourFileAssumption DEF AllRecords
  <2>2. IsFiniteSet(ids)
    BY <2>1, FS_Subset
  <2> QED
    BY <2>1, <2>2
<1>5. h \in WrittenSlots
  BY <1>3, <1>4, BatchIsIn
<1> HIDE DEF h
<1>6. /\ h \in Slots
      /\ h.failure # "" => h.failure = "no room"
      /\ h.failure = "" => HeldRight(disk, h)
  BY <1>3, <1>5, WrittenEnds
<1>7. CASE Refuse(h, ids)
  <2>1. slot' = Closed /\ refusals' = refusals \union {"no room"} /\ fault' \in {fault, "split"}
    BY <1>6, <1>7 DEF Refuse
  <2>2. PowerRight' /\ ChainRight'
    BY <1>1, <1>3, <2>1 DEF PowerRight, ChainRight
  <2> QED
    BY <1>0, <2>1, <2>2 DEF ChainInv, RefusedOnlyForRoom
<1>8. CASE Accept(h, ids, due)
  <2>1. slot' = h /\ h.failure = "" /\ steps' = flush(h, due, FALSE)
        /\ refusals' = refusals /\ fault' = fault
    BY <1>8 DEF Accept
  <2>2. steps' = flush(h, due, quiet) /\ quiet \in BOOLEAN
    BY <2>1
  <2> HIDE DEF quiet
  <2>3. HeldRight(disk, h)
    BY <1>6, <2>1
  <2>4. FlushRight(disk, h, flush(h, due, quiet))
    BY <1>3, <1>6, <2>2, <2>3, FlushFits
  <2>5. PowerRight' /\ ChainRight'
    BY <1>1, <1>2, <1>3, <2>1, <2>2, <2>4 DEF PowerRight, ChainRight, IsPower
  <2> QED
    BY <1>0, <2>1, <2>5 DEF ChainInv, RefusedOnlyForRoom
<1> QED
  BY <1>1, <1>7, <1>8

LEMMA PersistRight ==
  ASSUME ChainInv, NEW due \in BOOLEAN, NEW quiet \in BOOLEAN, Persist(due, quiet)
  PROVE  ChainInv'
<1>0. FileInv'
  BY PersistKeeps DEF ChainInv
<1>1. /\ slot.at = "open" /\ steps' = flush(slot, due, quiet)
      /\ disk' = disk /\ slot' = slot /\ refusals' = refusals /\ fault' = fault
  BY DEF Persist
<1>2. slot # Closed
  BY <1>1 DEF Closed
<1>3. ASSUME ~IsPower PROVE DiskRight(disk) /\ FlushRight(disk, slot, flush(slot, due, quiet))
  <2>1. disk \in Disks /\ slot \in Slots /\ DiskRight(disk) /\ HeldRight(disk, slot)
    BY <1>2, <1>3, OpenIsWritten
  <2> QED
    BY <2>1, FlushFits
<1>4. PowerRight' /\ ChainRight'
  BY <1>1, <1>2, <1>3 DEF ChainInv, PowerRight, ChainRight, IsPower
<1> QED
  BY <1>0, <1>1, <1>4 DEF ChainInv, RefusedOnlyForRoom

LEMMA StepKeepsUnchanged ==
  ASSUME NEW h \in Slots, h.dirty = <<>>, NEW step \in Steps
  PROVE  Flushed(h, step).dirty = <<>>
<1> DEFINE files == [n \in DOMAIN h.files |-> [count |-> h.files[n].count, onDisk |-> h.files[n].count]]
           none == <<>>
           g == Flushed(h, step)
<1>1. \/ g = h \/ g = [h EXCEPT !.clean = FALSE]
      \/ g = [h EXCEPT !.clean = TRUE, !.dirty = none, !.frames = none, !.files = files]
      \/ g = [h EXCEPT !.keyChanged = FALSE] \/ g = [h EXCEPT !.processChanged = FALSE]
  BY DEF Flushed, Steps
<1>2. h.dirty = none
  OBVIOUS
<1> HIDE DEF files, none, g
<1>3. g.dirty = none
  BY <1>1, <1>2 DEF Slots, SlotRecords
<1> QED
  BY <1>3 DEF g, none

LEMMA FlushStepRight ==
  ASSUME ChainInv, FlushStep
  PROVE  ChainInv'
<1>0. FileInv /\ FileInv'
  BY FlushStepKeeps DEF ChainInv
<1>1. /\ steps # <<>> /\ disk' = Written(disk, slot, Head(steps)) /\ slot' = Flushed(slot, Head(steps))
      /\ steps' = Tail(steps) /\ refusals' = refusals /\ fault' = fault
  BY DEF FlushStep
<1>2. slot # Closed /\ slot \in Slots /\ Head(steps) \in Steps
  <2>1. slot # Closed /\ slot \in Slots /\ steps \in StepsOver(slot.frames)
    BY <1>0, <1>1, SlotIsOpen DEF FileInv, StepsRight
  <2> QED
    BY <1>1, <2>1, FirstStepIs
<1>3. PowerRight'
  <2>1. ASSUME IsPower PROVE slot'.dirty = <<>>
    <3>1. slot.dirty = <<>>
      BY <1>2, <2>1 DEF ChainInv, PowerRight
    <3> DEFINE step == Head(steps)
    <3>2. step \in Steps /\ slot' = Flushed(slot, step)
      BY <1>1, <1>2
    <3> HIDE DEF step
    <3> QED
      BY <1>2, <3>1, <3>2, StepKeepsUnchanged
  <2> QED
    BY <1>1, <2>1 DEF PowerRight, IsPower
<1>4. ChainRight'
  <2>1. ASSUME ~IsPower PROVE FlushRight(disk', slot', steps')
    <3>1. FlushRight(disk, slot, steps)
      BY <1>2, <2>1 DEF ChainInv, ChainRight
    <3> DEFINE d == disk
               h == slot
               s == steps
    <3>2. FlushRight(d, h, s) /\ s # <<>>
      BY <1>1, <3>1
    <3> HIDE DEF d, h, s
    <3>3. FlushRight(Written(d, h, Head(s)), Flushed(h, Head(s)), Tail(s))
      BY <3>2, StepIsRight
    <3> QED
      BY <1>1, <3>3 DEF d, h, s
  <2>2. FlushRight(disk', slot', steps') => DiskRight(disk')
    BY DEF FlushRight, HeldRight
  <2>3. ~IsPower' => FlushRight(disk', slot', steps') /\ DiskRight(disk')
    BY <1>1, <2>1, <2>2 DEF IsPower
  <2> QED
    BY <2>3 DEF ChainRight
<1> QED
  BY <1>0, <1>1, <1>3, <1>4 DEF ChainInv, RefusedOnlyForRoom

LEMMA OpenRight ==
  ASSUME ChainInv, NEW full \in BOOLEAN, Open(full)
  PROVE  ChainInv'
<1> DEFINE r == OpenHour(disk, full)
<1>0. FileInv /\ FileInv'
  BY OpenKeeps DEF ChainInv
<1>1. /\ slot.at = "closed" /\ disk' = r.d /\ slot' = r.h /\ steps' = steps
      /\ refusals' = refusals /\ fault' = fault
  BY DEF Open
<1>2. steps = <<>> /\ disk \in Disks
  BY <1>0, <1>1, SlotIsOpen DEF FileInv, FilesRight, StepsRight
<1>3. r = OpenHour(disk, full)
  OBVIOUS
<1> HIDE DEF r
<1>4. r.h.dirty = <<>>
  BY <1>2, <1>3, OpenedIsBare
<1>5. ASSUME ~IsPower PROVE DiskRight(r.d) /\ FlushRight(r.d, r.h, <<>>)
  <2>1. DiskRight(disk)
    BY <1>5 DEF ChainInv, ChainRight
  <2>2. OpenedRight(r)
    BY <1>2, <1>3, <2>1, OpenedIsRight
  <2> QED
    BY <2>2, OpenedIsHeld
<1>6. PowerRight' /\ ChainRight'
  BY <1>1, <1>2, <1>4, <1>5 DEF PowerRight, ChainRight, IsPower
<1> QED
  BY <1>0, <1>1, <1>6 DEF ChainInv, RefusedOnlyForRoom

(* The memory is let go of.                                                *)
LEMMA ClosedRight ==
  ASSUME FileInv', RefusedOnlyForRoom, slot' = Closed, refusals' = refusals,
         ~IsPower' => DiskRight(disk')
  PROVE  ChainInv'
BY DEF ChainInv, RefusedOnlyForRoom, PowerRight, ChainRight

LEMMA LetGoIdleRight ==
  ASSUME ChainInv, LetGoIdle
  PROVE  ChainInv'
<1>0. FileInv'
  BY LetGoIdleKeeps DEF ChainInv
<1>1. /\ slot.at = "open" /\ slot' = Closed /\ disk' = disk /\ refusals' = refusals
      /\ fault' = IF slot.dirty = <<>> THEN fault ELSE "split"
  BY DEF LetGoIdle
<1>2. slot # Closed
  BY <1>1 DEF Closed
<1>3. IsPower => fault' = fault
  BY <1>1, <1>2 DEF ChainInv, PowerRight
<1>4. ~IsPower' => DiskRight(disk')
  BY <1>1, <1>3 DEF ChainInv, ChainRight, IsPower
<1> QED
  BY <1>0, <1>1, <1>4, ClosedRight DEF ChainInv

LEMMA CrashRight ==
  ASSUME ChainInv, Crash
  PROVE  ChainInv'
<1>0. FileInv'
  BY CrashKeeps DEF ChainInv
<1>1. slot' = Closed /\ disk' = disk /\ refusals' = refusals /\ fault = "none"
  BY DEF Crash, LoseMemory
<1>2. DiskRight(disk')
  BY <1>1 DEF ChainInv, ChainRight, IsPower
<1> QED
  BY <1>0, <1>1, <1>2, ClosedRight DEF ChainInv

LEMMA TornWriteRight ==
  ASSUME ChainInv, TornWrite
  PROVE  ChainInv'
<1> DEFINE frame == Head(steps).frame
           f == slot.frames[frame]
           tail == [disk EXCEPT !.torn = TRUE]
<1>0. FileInv /\ FileInv'
  BY TornWriteKeeps DEF ChainInv
<1>1. /\ steps # <<>> /\ Head(steps).do = "frame" /\ fault = "none"
      /\ slot' = Closed /\ refusals' = refusals
      /\ \/ disk' = tail
         \/ \E n \in DOMAIN f.entries : disk' = [disk EXCEPT !.frames[frame] = Torn(f, n)]
  BY DEF TornWrite, LoseMemory
<1>2. slot # Closed /\ ~IsPower
  BY <1>0, <1>1 DEF FileInv, StepsRight, IsPower
<1>3. disk \in Disks /\ DiskRight(disk) /\ FlushRight(disk, slot, steps) /\ HeldRight(disk, slot)
  BY <1>2, OpenIsWritten
<1>4. ~IsClean(disk)
  <2>1. steps \in Seq(Steps) /\ StepsFit(slot, disk, steps)
    BY <1>3 DEF FlushRight, StepsOver
  <2>2. Head(steps) = steps[1] /\ steps[1] \in Steps
    BY <1>1, <2>1
  <2>3. IsFrame(steps[1])
    BY <1>1, <2>2 DEF IsFrame
  <2>4. ~IsMark(steps[1]) /\ ~IsLate(steps[1])
    BY <2>2, <2>3, StepIsOne
  <2>5. ~slot.clean
    BY <1>1, <2>1, <2>4 DEF StepsFit
  <2> QED
    BY <1>3, <2>5 DEF HeldRight, Marks
<1>5. DOMAIN disk'.frames = DOMAIN disk.frames /\ disk'.lens = disk.lens /\ disk'.index = disk.index
  <2>1. CASE disk' = tail
    BY <1>3, <2>1 DEF Disks
  <2>2. ASSUME NEW n \in DOMAIN f.entries, disk' = [disk EXCEPT !.frames[frame] = Torn(f, n)]
        PROVE  DOMAIN disk'.frames = DOMAIN disk.frames /\ disk'.lens = disk.lens
               /\ disk'.index = disk.index
    <3> DEFINE t == Torn(f, n)
               frames == [disk.frames EXCEPT ![frame] = t]
    <3>1. disk' = [disk EXCEPT !.frames = frames]
      BY <1>3, <2>2 DEF Disks
    <3>2. DOMAIN frames = DOMAIN disk.frames
      OBVIOUS
    <3> HIDE DEF frames
    <3> QED
      BY <1>3, <3>1, <3>2 DEF Disks
  <2> QED
    BY <1>1, <2>1, <2>2
<1> HIDE DEF tail, f, frame
<1>6. DiskRight(disk')
  BY <1>3, <1>4, <1>5 DEF DiskRight, FilesHold, IsClean
<1> QED
  BY <1>0, <1>1, <1>6, ClosedRight DEF ChainInv

LEMMA PowerLossRight ==
  ASSUME ChainInv, PowerLoss
  PROVE  ChainInv'
<1>0. FileInv'
  BY PowerLossKeeps DEF ChainInv
<1>1. slot' = Closed /\ refusals' = refusals /\ fault' = "power"
  BY DEF PowerLoss, LoseMemory
<1>2. IsPower'
  BY <1>1 DEF IsPower
<1> QED
  BY <1>0, <1>1, <1>2, ClosedRight DEF ChainInv

LEMMA FlushFailsRight ==
  ASSUME ChainInv, FlushFails
  PROVE  ChainInv'
<1>0. FileInv /\ FileInv'
  BY FlushFailsKeeps DEF ChainInv
<1>1. /\ fault = "none" /\ steps # <<>> /\ slot' = slot /\ disk' = disk /\ steps' = <<>>
      /\ refusals' = refusals /\ fault' = "failed"
  BY DEF FlushFails
<1>2. slot # Closed /\ ~IsPower /\ ~IsPower'
  BY <1>0, <1>1 DEF FileInv, StepsRight, IsPower
<1>3. disk \in Disks /\ slot \in Slots /\ DiskRight(disk) /\ HeldRight(disk, slot)
  BY <1>2, OpenIsWritten
<1>4. FlushRight(disk, slot, <<>>)
  BY <1>3, NothingToDo
<1>5. PowerRight' /\ ChainRight'
  BY <1>1, <1>2, <1>3, <1>4 DEF PowerRight, ChainRight
<1> QED
  BY <1>0, <1>1, <1>5 DEF ChainInv, RefusedOnlyForRoom

LEMMA ChainStep == ChainInv /\ [Next]_fileVars => ChainInv'
<1> SUFFICES ASSUME ChainInv, [Next]_fileVars PROVE ChainInv'
  OBVIOUS
<1>1. CASE UNCHANGED fileVars
  <2>1. /\ disk' = disk /\ slot' = slot /\ steps' = steps /\ refusals' = refusals /\ fault' = fault
    BY <1>1 DEF fileVars
  <2>2. FileInv'
    BY <1>1, FileStep DEF ChainInv
  <2> QED
    BY <2>1, <2>2 DEF ChainInv, RefusedOnlyForRoom, PowerRight, ChainRight, IsPower
<1>2. CASE Works
  BY <1>2, LoadRight, WriteRight, PersistRight, FlushStepRight, OpenRight, LetGoIdleRight
  DEF Works
<1>3. CASE Fails
  BY <1>3, CrashRight, TornWriteRight, PowerLossRight, FlushFailsRight DEF Fails
<1> QED
  BY <1>1, <1>2, <1>3 DEF Next

(* A write of an hour is refused for want of room, before anything of it   *)
(* changes, and for no other reason: whatever was inserted, merged, halved *)
(* and removed, and whatever a crash, a torn write, a flush which failed   *)
(* or lost power left on the disk, the cell of a second leads to its       *)
(* entries, a full frame can be halved, and every entry finds room         *)
(* (write_second, insert_at, halve_and_insert).                            *)
THEOREM WritesAreRefusedOnlyForRoom == Spec => []RefusedOnlyForRoom
<1>1. ChainInv => RefusedOnlyForRoom
  BY DEF ChainInv
<1> QED
  BY ChainInit, ChainStep, <1>1, PTL DEF Spec
================================================================================
