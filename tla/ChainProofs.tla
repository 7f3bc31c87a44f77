------------------------------ MODULE ChainProofs ------------------------------
(***************************************************************************)
(* The chain of blocks of an hour, for any files and any frames: what a    *)
(* walk along the files meets, where a frame goes, and what a split moves. *)
(* The blocks of a second are put one behind another where they are aimed; *)
(* whatever frames are halved or appended under them on the way, what they *)
(* leave is a chain laid out in order, with those blocks at that place and *)
(* every cell leading to the entry it led to. Only what is said of one     *)
(* such write is here; that every write the program makes is such a one is *)
(* said in RoomProofs.                                                     *)
(***************************************************************************)
EXTENDS FileProofs

-------------------------------------------------------------------------------
(* One element put into a sequence behind k others, and the one behind k   *)
(* others taken out of it.                                                 *)
PutIn(W, k, e) ==
  [n \in 1 .. Len(W) + 1 |-> IF n <= k THEN W[n] ELSE IF n = k + 1 THEN e ELSE W[n - 1]]
TakenOut(W, k) ==
  [n \in 1 .. Len(W) - 1 |-> IF n <= k THEN W[n] ELSE W[n + 1]]

LEMMA CountUp ==
  ASSUME NEW N \in Nat, NEW S \in SUBSET Nat, 0 \in S, \A n \in S : n < N => n + 1 \in S
  PROVE  0 .. N \subseteq S
<1> DEFINE Good == {n \in Nat : n <= N => n \in S}
<1>1. 0 \in Good
  OBVIOUS
<1>2. \A n \in Good : n + 1 \in Good
  OBVIOUS
<1>3. Good = Nat
  <2> HIDE DEF Good
  <2>1. Good \in SUBSET Nat
    BY DEF Good
  <2> QED
    BY <1>1, <1>2, <2>1, NatInd
<1> QED
  BY <1>3

LEMMA PutInIs ==
  ASSUME NEW X, NEW W \in Seq(X), NEW k \in 0 .. Len(W), NEW e \in X
  PROVE  LET P == PutIn(W, k, e)
         IN  /\ P \in Seq(X) /\ Len(P) = Len(W) + 1
             /\ \A n \in 1 .. k : P[n] = W[n]
             /\ P[k + 1] = e
             /\ \A n \in k + 2 .. Len(W) + 1 : P[n] = W[n - 1]
<1> DEFINE L == Len(W)
           At(n) == IF n <= k THEN W[n] ELSE IF n = k + 1 THEN e ELSE W[n - 1]
           P == [n \in 1 .. L + 1 |-> At(n)]
<1>1. L \in Nat /\ k \in Int /\ k <= L /\ k >= 0 /\ \A n \in 1 .. L : W[n] \in X
  OBVIOUS
<1>2. PutIn(W, k, e) = P
  BY DEF PutIn
<1> HIDE DEF L
<1>3. \A n \in 1 .. L + 1 : At(n) \in X
  <2> TAKE n \in 1 .. L + 1
  <2>1. CASE n <= k
    BY <1>1, <2>1
  <2>2. CASE n = k + 1
    BY <1>1, <2>2
  <2>3. CASE n > k + 1
    <3>1. n - 1 \in 1 .. L /\ ~(n <= k) /\ n # k + 1
      BY <1>1, <2>3
    <3> QED
      BY <1>1, <3>1
  <2> QED
    BY <1>1, <2>1, <2>2, <2>3
<1>4. /\ \A n \in 1 .. k : At(n) = W[n] /\ n \in 1 .. L + 1
      /\ At(k + 1) = e /\ k + 1 \in 1 .. L + 1
      /\ \A n \in k + 2 .. L + 1 : At(n) = W[n - 1] /\ n \in 1 .. L + 1
  BY <1>1
<1> HIDE DEF At
<1>5. P \in Seq(X) /\ Len(P) = L + 1
  BY <1>1, <1>3
<1>6. \A n \in 1 .. L + 1 : P[n] = At(n)
  OBVIOUS
<1> HIDE DEF P
<1> QED
  BY <1>2, <1>4, <1>5, <1>6 DEF L

LEMMA TakenOutIs ==
  ASSUME NEW X, NEW W \in Seq(X), NEW k \in 0 .. Len(W) - 1
  PROVE  LET P == TakenOut(W, k)
         IN  /\ P \in Seq(X) /\ Len(P) = Len(W) - 1
             /\ \A n \in 1 .. k : P[n] = W[n]
             /\ \A n \in k + 1 .. Len(W) - 1 : P[n] = W[n + 1]
<1> DEFINE L == Len(W)
           At(n) == IF n <= k THEN W[n] ELSE W[n + 1]
           P == [n \in 1 .. L - 1 |-> At(n)]
<1>1. L \in Nat /\ L - 1 \in Nat /\ k \in Int /\ k <= L - 1 /\ k >= 0 /\ \A n \in 1 .. L : W[n] \in X
  OBVIOUS
<1>2. TakenOut(W, k) = P
  BY DEF TakenOut
<1> HIDE DEF L
<1>3. \A n \in 1 .. L - 1 : At(n) \in X
  BY <1>1
<1>4. /\ \A n \in 1 .. k : At(n) = W[n] /\ n \in 1 .. L - 1
      /\ \A n \in k + 1 .. L - 1 : At(n) = W[n + 1] /\ n \in 1 .. L - 1
  BY <1>1
<1> HIDE DEF At
<1>5. P \in Seq(X) /\ Len(P) = L - 1
  BY <1>1, <1>3
<1>6. \A n \in 1 .. L - 1 : P[n] = At(n)
  OBVIOUS
<1> HIDE DEF P
<1> QED
  BY <1>2, <1>4, <1>5, <1>6 DEF L

(* Stretches of entries of the same lengths are of the same length. *)
Alike(x, p, y, q, m) == \A n \in 1 .. m : x[p + n].len = y[q + n].len

LEMMA SameLengths ==
  ASSUME NEW u \in Seq(Entries), NEW v \in Seq(Entries),
         NEW p \in Nat, NEW q \in Nat, NEW m \in Nat, p + m <= Len(u), q + m <= Len(v),
         Alike(u, p, v, q, m)
  PROVE  \A n \in 0 .. m : LenOf(u, p + n) - LenOf(u, p) = LenOf(v, q + n) - LenOf(v, q)
<1> DEFINE a(n) == LenOf(u, n)
           b(n) == LenOf(v, n)
           Good == {n \in Nat : n <= m => a(p + n) - a(p) = b(q + n) - b(q)}
<1>1. /\ \A n \in 0 .. Len(u) : a(n) \in Nat
      /\ \A n \in 1 .. Len(u) : a(n) = a(n - 1) + u[n].len /\ u[n].len \in Nat
      /\ \A n \in 0 .. Len(v) : b(n) \in Nat
      /\ \A n \in 1 .. Len(v) : b(n) = b(n - 1) + v[n].len /\ v[n].len \in Nat
      /\ Len(u) \in Nat /\ Len(v) \in Nat
  <2>1. /\ \A n \in 0 .. Len(u) : LenOf(u, n) \in Nat
        /\ \A n \in 1 .. Len(u) : LenOf(u, n) = LenOf(u, n - 1) + u[n].len /\ u[n].len \in Nat
    BY LengthsAre
  <2>2. /\ \A n \in 0 .. Len(v) : LenOf(v, n) \in Nat
        /\ \A n \in 1 .. Len(v) : LenOf(v, n) = LenOf(v, n - 1) + v[n].len /\ v[n].len \in Nat
    BY LengthsAre
  <2>3. Len(u) \in Nat /\ Len(v) \in Nat
    OBVIOUS
  <2> QED
    BY <2>1, <2>2, <2>3
<1> HIDE DEF a, b
<1>2. 0 \in Good
  <2>1. p + 0 = p /\ q + 0 = q /\ p \in 0 .. Len(u) /\ q \in 0 .. Len(v)
    BY <1>1
  <2>2. a(p) - a(p) = 0 /\ b(q) - b(q) = 0
    BY <1>1, <2>1
  <2> QED
    BY <2>1, <2>2
<1>3. \A n \in Good : n + 1 \in Good
  <2> TAKE n \in Good
  <2>0. n \in Nat /\ p + (n + 1) = p + n + 1 /\ q + (n + 1) = q + n + 1
    OBVIOUS
  <2> SUFFICES ASSUME n + 1 <= m PROVE a(p + n + 1) - a(p) = b(q + n + 1) - b(q)
    BY <2>0
  <2>1. /\ p + n + 1 \in 1 .. Len(u) /\ q + n + 1 \in 1 .. Len(v) /\ n + 1 \in 1 .. m
        /\ p + n \in 0 .. Len(u) /\ q + n \in 0 .. Len(v) /\ p \in 0 .. Len(u) /\ q \in 0 .. Len(v)
        /\ p + n + 1 - 1 = p + n /\ q + n + 1 - 1 = q + n
        /\ p + (n + 1) = p + n + 1 /\ q + (n + 1) = q + n + 1
    BY <1>1
  <2>2. u[p + n + 1].len = v[q + n + 1].len
    BY <2>1 DEF Alike
  <2>3. a(p + n + 1) = a(p + n) + u[p + n + 1].len /\ b(q + n + 1) = b(q + n) + v[q + n + 1].len
    BY <1>1, <2>1
  <2>4. a(p + n) - a(p) = b(q + n) - b(q)
    <3>1. n <= m
      BY <2>0
    <3> QED
      BY <3>1
  <2>5. a(p + n) \in Nat /\ a(p) \in Nat /\ b(q + n) \in Nat /\ b(q) \in Nat /\ u[p + n + 1].len \in Nat
    BY <1>1, <2>1
  <2> DEFINE A0 == a(p)
             A1 == a(p + n)
             A2 == a(p + n + 1)
             B0 == b(q)
             B1 == b(q + n)
             B2 == b(q + n + 1)
             l == v[q + n + 1].len
  <2>6. /\ A2 = A1 + l /\ B2 = B1 + l /\ A1 - A0 = B1 - B0
        /\ A0 \in Nat /\ A1 \in Nat /\ B0 \in Nat /\ B1 \in Nat /\ l \in Nat
    BY <2>2, <2>3, <2>4, <2>5
  <2> HIDE DEF A0, A1, A2, B0, B1, B2, l
  <2>7. A2 - A0 = B2 - B0
    BY <2>6
  <2> QED
    BY <2>7 DEF A0, A1, A2, B0, B1, B2
<1>4. Good = Nat
  <2> HIDE DEF Good
  <2>1. Good \in SUBSET Nat
    BY DEF Good
  <2> QED
    BY <1>2, <1>3, <2>1, NatInd
<1> HIDE DEF Good
<1>5. \A n \in 0 .. m : a(p + n) - a(p) = b(q + n) - b(q)
  <2> TAKE n \in 0 .. m
  <2>1. n \in Nat /\ n <= m
    OBVIOUS
  <2>2. n \in Good
    BY <1>4, <2>1
  <2> QED
    BY <2>1, <2>2 DEF Good
<1> QED
  BY <1>5 DEF a, b

LEMMA SameStart ==
  ASSUME NEW u \in Seq(Entries), NEW v \in Seq(Entries), NEW m \in Nat, m <= Len(u), m <= Len(v),
         \A n \in 1 .. m : u[n] = v[n]
  PROVE  \A n \in 0 .. m : LenOf(u, n) = LenOf(v, n)
<1>1. Alike(u, 0, v, 0, m)
  <2>1. \A n \in 1 .. m : u[0 + n] = u[n] /\ v[0 + n] = v[n]
    OBVIOUS
  <2> QED
    BY <2>1 DEF Alike
<1>2. 0 \in Nat /\ 0 + m <= Len(u) /\ 0 + m <= Len(v)
  OBVIOUS
<1>3. \A n \in 0 .. m : LenOf(u, 0 + n) - LenOf(u, 0) = LenOf(v, 0 + n) - LenOf(v, 0)
  <2>1. \A p, q \in Nat : p + m <= Len(u) /\ q + m <= Len(v) /\ Alike(u, p, v, q, m)
          => \A n \in 0 .. m : LenOf(u, p + n) - LenOf(u, p) = LenOf(v, q + n) - LenOf(v, q)
    <3> TAKE p, q \in Nat
    <3> HAVE p + m <= Len(u) /\ q + m <= Len(v) /\ Alike(u, p, v, q, m)
    <3> QED
      BY SameLengths
  <2> QED
    BY <1>1, <1>2, <2>1
<1>4. LenOf(u, 0) = 0 /\ LenOf(v, 0) = 0
  BY LengthsAre
<1>5. \A n \in 0 .. m : LenOf(u, n) \in Nat /\ LenOf(v, n) \in Nat
  BY LengthsAre
<1> QED
  BY <1>3, <1>4, <1>5

LEMMA PutInLengths ==
  ASSUME NEW W \in Seq(Entries), NEW k \in 0 .. Len(W), NEW e \in Entries
  PROVE  LET P == PutIn(W, k, e)
         IN  /\ \A n \in 0 .. k : LenOf(P, n) = LenOf(W, n)
             /\ \A n \in k + 1 .. Len(W) + 1 : LenOf(P, n) = LenOf(W, n - 1) + e.len
<1> DEFINE P == PutIn(W, k, e)
<1>1. /\ P \in Seq(Entries) /\ Len(P) = Len(W) + 1
      /\ \A n \in 1 .. k : P[n] = W[n]
      /\ P[k + 1] = e
      /\ \A n \in k + 2 .. Len(W) + 1 : P[n] = W[n - 1]
  <2> DEFINE X == Entries
  <2>1. W \in Seq(X) /\ e \in X
    OBVIOUS
  <2> HIDE DEF X
  <2>2. P \in Seq(X) /\ \A n \in 1 .. k : P[n] = W[n]
    BY <2>1, PutInIs
  <2>3. P[k + 1] = e /\ Len(P) = Len(W) + 1
    BY <2>1, PutInIs
  <2>4. \A n \in k + 2 .. Len(W) + 1 : P[n] = W[n - 1]
    BY <2>1, PutInIs
  <2> QED
    BY <2>2, <2>3, <2>4 DEF X
<1> HIDE DEF P
<1>2. Len(W) \in Nat /\ k \in Nat /\ k <= Len(W)
  OBVIOUS
<1>3. /\ \A n \in 0 .. Len(P) : LenOf(P, n) \in Nat
      /\ \A n \in 1 .. Len(P) : LenOf(P, n) = LenOf(P, n - 1) + P[n].len /\ P[n].len \in Nat
      /\ LenOf(P, 0) = 0 /\ LenOf(W, 0) = 0
      /\ \A n \in 0 .. Len(W) : LenOf(W, n) \in Nat
  BY <1>1, LengthsAre
<1>4. \A n \in 0 .. k : LenOf(P, n) = LenOf(W, n)
  <2>1. Alike(P, 0, W, 0, k)
    <3>1. \A n \in 1 .. k : P[0 + n] = P[n] /\ W[0 + n] = W[n]
      OBVIOUS
    <3> QED
      BY <1>1, <3>1 DEF Alike
  <2>2. \A n \in 0 .. k : LenOf(P, 0 + n) - LenOf(P, 0) = LenOf(W, 0 + n) - LenOf(W, 0)
    <3>1. 0 + k <= Len(P) /\ 0 + k <= Len(W) /\ 0 \in Nat /\ k \in Nat /\ P \in Seq(Entries)
      BY <1>1, <1>2
    <3> QED
      BY ZenonT(60), <2>1, <3>1, SameLengths
  <2>3. \A n \in 0 .. k : n \in 0 .. Len(P) /\ n \in 0 .. Len(W) /\ 0 + n = n
    BY <1>1, <1>2
  <2> QED
    BY <1>3, <2>2, <2>3
<1>5. LenOf(P, k + 1) = LenOf(W, k) + e.len
  <2>1. k + 1 \in 1 .. Len(P) /\ k + 1 - 1 = k /\ k \in 0 .. k
    BY <1>1, <1>2
  <2>2. LenOf(P, k + 1) = LenOf(P, k) + P[k + 1].len
    <3>1. LenOf(P, k + 1) = LenOf(P, k + 1 - 1) + P[k + 1].len
      BY <1>3, <2>1
    <3> QED
      BY <2>1, <3>1
  <2>3. P[k + 1] = e /\ LenOf(P, k) = LenOf(W, k)
    BY <1>1, <1>4, <2>1
  <2> QED
    BY <2>2, <2>3
<1>6. \A n \in k + 1 .. Len(W) + 1 : LenOf(P, n) = LenOf(W, n - 1) + e.len
  <2> DEFINE m == Len(W) - k
  <2>1. Alike(P, k + 1, W, k, m)
    <3> SUFFICES \A n \in 1 .. m : P[k + 1 + n].len = W[k + n].len
      BY DEF Alike
    <3> TAKE n \in 1 .. m
    <3>1. k + 1 + n \in k + 2 .. Len(W) + 1 /\ k + 1 + n - 1 = k + n
      BY <1>2
    <3> QED
      BY <1>1, <3>1
  <2>2. m \in Nat /\ k + 1 \in Nat /\ k + 1 + m <= Len(P) /\ k + m <= Len(W)
    BY <1>1, <1>2
  <2>3. \A n \in 0 .. m : LenOf(P, k + 1 + n) - LenOf(P, k + 1) = LenOf(W, k + n) - LenOf(W, k)
    <3> DEFINE l == k + 1
    <3>1. P \in Seq(Entries) /\ k \in Nat
      BY <1>1, <1>2
    <3>2. l \in Nat /\ m \in Nat
      BY <2>2
    <3>3. l + m <= Len(P) /\ k + m <= Len(W)
      BY <2>2
    <3>4. Alike(P, l, W, k, m)
      BY <2>1
    <3>5. \A n \in 0 .. m : LenOf(P, l + n) - LenOf(P, l) = LenOf(W, k + n) - LenOf(W, k)
      <4> HIDE DEF m, l
      <4> QED
        BY <3>1, <3>2, <3>3, <3>4, SameLengths
    <3> QED
      BY <3>5
  <2> TAKE n \in k + 1 .. Len(W) + 1
  <2>4. n - k - 1 \in 0 .. m /\ k + 1 + (n - k - 1) = n /\ k + (n - k - 1) = n - 1
    BY <1>2
  <2>5. LenOf(P, n) - LenOf(P, k + 1) = LenOf(W, n - 1) - LenOf(W, k)
    BY <2>3, <2>4
  <2>6. LenOf(P, n) \in Nat /\ LenOf(W, n - 1) \in Nat /\ LenOf(W, k) \in Nat /\ e.len \in Nat
    <3>1. n \in 0 .. Len(P) /\ n - 1 \in 0 .. Len(W) /\ k \in 0 .. Len(W) /\ k + 1 \in 1 .. Len(P)
      BY <1>1, <1>2
    <3> QED
      BY <1>1, <1>3, <3>1
  <2> QED
    BY SMTT(30), <1>5, <2>5, <2>6
<1> QED
  BY <1>4, <1>6 DEF P

LEMMA TakenOutLengths ==
  ASSUME NEW W \in Seq(Entries), NEW k \in 0 .. Len(W) - 1
  PROVE  LET P == TakenOut(W, k)
         IN  /\ \A n \in 0 .. k : LenOf(P, n) = LenOf(W, n)
             /\ \A n \in k .. Len(W) - 1 : LenOf(P, n) = LenOf(W, n + 1) - W[k + 1].len
<1> DEFINE P == TakenOut(W, k)
<1>1. /\ P \in Seq(Entries) /\ Len(P) = Len(W) - 1
      /\ \A n \in 1 .. k : P[n] = W[n]
      /\ \A n \in k + 1 .. Len(W) - 1 : P[n] = W[n + 1]
  BY TakenOutIs
<1> HIDE DEF P
<1>2. Len(W) \in Nat /\ k \in Nat /\ k + 1 <= Len(W)
  OBVIOUS
<1>3. /\ \A n \in 0 .. Len(P) : LenOf(P, n) \in Nat
      /\ LenOf(P, 0) = 0 /\ LenOf(W, 0) = 0
      /\ \A n \in 0 .. Len(W) : LenOf(W, n) \in Nat
      /\ \A n \in 1 .. Len(W) : LenOf(W, n) = LenOf(W, n - 1) + W[n].len /\ W[n].len \in Nat
  BY <1>1, LengthsAre
<1>4. \A n \in 0 .. k : LenOf(P, n) = LenOf(W, n)
  <2>1. Alike(P, 0, W, 0, k)
    <3>1. \A n \in 1 .. k : P[0 + n] = P[n] /\ W[0 + n] = W[n]
      OBVIOUS
    <3> QED
      BY <1>1, <3>1 DEF Alike
  <2>2. \A n \in 0 .. k : LenOf(P, 0 + n) - LenOf(P, 0) = LenOf(W, 0 + n) - LenOf(W, 0)
    <3>1. 0 + k <= Len(P) /\ 0 + k <= Len(W) /\ 0 \in Nat /\ k \in Nat /\ P \in Seq(Entries)
      BY <1>1, <1>2
    <3> QED
      BY ZenonT(60), <2>1, <3>1, SameLengths
  <2>3. \A n \in 0 .. k : n \in 0 .. Len(P) /\ n \in 0 .. Len(W) /\ 0 + n = n
    BY <1>1, <1>2
  <2> QED
    BY <1>3, <2>2, <2>3
<1>6. \A n \in k .. Len(W) - 1 : LenOf(P, n) = LenOf(W, n + 1) - W[k + 1].len
  <2> DEFINE m == Len(W) - 1 - k
  <2>1. Alike(P, k, W, k + 1, m)
    <3> SUFFICES \A n \in 1 .. m : P[k + n].len = W[k + 1 + n].len
      BY DEF Alike
    <3> TAKE n \in 1 .. m
    <3>1. k + n \in k + 1 .. Len(W) - 1 /\ k + n + 1 = k + 1 + n
      BY <1>2
    <3> QED
      BY <1>1, <3>1
  <2>2. m \in Nat /\ k + 1 \in Nat /\ k + m <= Len(P) /\ k + 1 + m <= Len(W)
    BY <1>1, <1>2
  <2>3. \A n \in 0 .. m : LenOf(P, k + n) - LenOf(P, k) = LenOf(W, k + 1 + n) - LenOf(W, k + 1)
    <3> DEFINE l == k + 1
    <3>1. P \in Seq(Entries) /\ k \in Nat
      BY <1>1, <1>2
    <3>2. l \in Nat /\ m \in Nat
      BY <2>2
    <3>3. l + m <= Len(W) /\ k + m <= Len(P)
      BY <2>2
    <3>4. Alike(P, k, W, l, m)
      BY <2>1
    <3>5. \A n \in 0 .. m : LenOf(P, k + n) - LenOf(P, k) = LenOf(W, l + n) - LenOf(W, l)
      <4> HIDE DEF m, l
      <4> QED
        BY <3>1, <3>2, <3>3, <3>4, SameLengths
    <3> QED
      BY <3>5
  <2> TAKE n \in k .. Len(W) - 1
  <2>4. n - k \in 0 .. m /\ k + (n - k) = n /\ k + 1 + (n - k) = n + 1
    BY <1>2
  <2>5. LenOf(P, n) - LenOf(P, k) = LenOf(W, n + 1) - LenOf(W, k + 1)
    BY <2>3, <2>4
  <2>6. /\ LenOf(P, n) \in Nat /\ LenOf(W, n + 1) \in Nat /\ LenOf(W, k) \in Nat
        /\ LenOf(P, k) = LenOf(W, k) /\ LenOf(W, k + 1) = LenOf(W, k) + W[k + 1].len
        /\ W[k + 1].len \in Nat
    <3>1. /\ n \in 0 .. Len(P) /\ n + 1 \in 0 .. Len(W) /\ k \in 0 .. Len(W) /\ k + 1 \in 1 .. Len(W)
          /\ k \in 0 .. k /\ k + 1 - 1 = k
      BY <1>1, <1>2
    <3> QED
      BY <1>3, <1>4, <3>1
  <2> DEFINE A0 == LenOf(P, n)
             A1 == LenOf(W, n + 1)
             B0 == LenOf(W, k)
             l == W[k + 1].len
  <2>7. A0 - B0 = A1 - (B0 + l) /\ A0 \in Nat /\ A1 \in Nat /\ B0 \in Nat /\ l \in Nat
    BY <2>5, <2>6
  <2> HIDE DEF A0, A1, B0, l
  <2>8. A0 = A1 - l
    BY <2>7
  <2> QED
    BY <2>8 DEF A0, A1, l
<1> QED
  BY <1>4, <1>6 DEF P

LEMMA PartLengths ==
  ASSUME NEW e \in Seq(Entries), NEW p \in 0 .. Len(e), NEW q \in p .. Len(e)
  PROVE  LET P == SubSeq(e, p + 1, q)
         IN  /\ P \in Seq(Entries) /\ Len(P) = q - p
             /\ \A n \in 1 .. q - p : P[n] = e[p + n]
             /\ \A n \in 0 .. q - p : LenOf(P, n) = LenOf(e, p + n) - LenOf(e, p)
<1> DEFINE P == SubSeq(e, p + 1, q)
<1>1. P \in Seq(Entries) /\ Len(P) = q - p
  BY LengthOfPart
<1>2. \A n \in 1 .. q - p : P[n] = e[p + n]
  OBVIOUS
<1> HIDE DEF P
<1>3. \A n \in 0 .. q - p : LenOf(P, 0 + n) - LenOf(P, 0) = LenOf(e, p + n) - LenOf(e, p)
  <2>1. Alike(P, 0, e, p, q - p)
    <3>1. \A n \in 1 .. q - p : P[0 + n] = P[n]
      OBVIOUS
    <3> QED
      BY <1>2, <3>1 DEF Alike
  <2>2. q - p \in Nat /\ 0 + (q - p) <= Len(P) /\ p + (q - p) <= Len(e) /\ p \in Nat
    BY <1>1
  <2> QED
    BY <1>1, <2>1, <2>2, SameLengths
<1>4. LenOf(P, 0) = 0 /\ \A n \in 0 .. q - p : LenOf(P, n) \in Nat /\ 0 + n = n
  BY <1>1, LengthsAre
<1>5. \A n \in 0 .. q - p : LenOf(P, n) = LenOf(e, p + n) - LenOf(e, p)
  BY <1>3, <1>4
<1> QED
  BY <1>1, <1>2, <1>5 DEF P

LEMMA BothLengths ==
  ASSUME NEW Y \in Seq(Entries), NEW Z \in Seq(Entries)
  PROVE  LET P == Y \o Z
         IN  /\ P \in Seq(Entries) /\ Len(P) = Len(Y) + Len(Z)
             /\ \A n \in 1 .. Len(Y) : P[n] = Y[n]
             /\ \A n \in 1 .. Len(Z) : P[Len(Y) + n] = Z[n]
             /\ \A n \in 0 .. Len(Y) : LenOf(P, n) = LenOf(Y, n)
             /\ \A n \in 0 .. Len(Z) : LenOf(P, Len(Y) + n) = Whole(Y) + LenOf(Z, n)
<1> DEFINE P == Y \o Z
           a == Len(Y)
           b == Len(Z)
<1>1. /\ P \in Seq(Entries) /\ Len(P) = a + b /\ a \in Nat /\ b \in Nat
      /\ \A n \in 1 .. a : P[n] = Y[n]
      /\ \A n \in 1 .. b : P[a + n] = Z[n]
  OBVIOUS
<1>2. /\ \A n \in 0 .. a + b : LenOf(P, n) \in Nat
      /\ \A n \in 0 .. a : LenOf(Y, n) \in Nat
      /\ \A n \in 0 .. b : LenOf(Z, n) \in Nat
      /\ LenOf(P, 0) = 0 /\ LenOf(Y, 0) = 0 /\ LenOf(Z, 0) = 0
  BY <1>1, LengthsAre
<1> HIDE DEF P
<1>3. \A n \in 0 .. a : LenOf(P, n) = LenOf(Y, n)
  <2>1. a \in Nat /\ a <= Len(P) /\ a <= Len(Y) /\ P \in Seq(Entries)
    BY <1>1
  <2>2. \A n \in 1 .. a : P[n] = Y[n]
    BY <1>1
  <2> HIDE DEF a, b
  <2> QED
    BY <2>1, <2>2, SameStart
<1>4. \A n \in 0 .. b : LenOf(P, a + n) = Whole(Y) + LenOf(Z, n)
  <2>1. Alike(P, a, Z, 0, b)
    <3> HIDE DEF a, b
    <3>1. \A n \in 1 .. b : Z[0 + n] = Z[n]
      BY <1>1
    <3> QED
      BY <1>1, <3>1 DEF Alike
  <2>2. \A n \in 0 .. b : LenOf(P, a + n) - LenOf(P, a) = LenOf(Z, 0 + n) - LenOf(Z, 0)
    <3>1. /\ a + b <= Len(P) /\ 0 + b <= Len(Z) /\ P \in Seq(Entries)
          /\ a \in Nat /\ b \in Nat /\ 0 \in Nat
      BY <1>1
    <3> HIDE DEF a, b
    <3> QED
      BY <2>1, <3>1, SameLengths
  <2>3. \A n \in 0 .. b : 0 + n = n /\ a + n \in 0 .. a + b
    BY <1>1
  <2>4. LenOf(P, a) = Whole(Y) /\ a \in 0 .. a + b
    BY <1>1, <1>3 DEF Whole
  <2> HIDE DEF a, b
  <2> QED
    BY <1>2, <2>2, <2>3, <2>4
<1> QED
  BY <1>1, <1>3, <1>4 DEF P

-------------------------------------------------------------------------------
(* The borders of the entries of a frame: before each of them, and the end. *)
LEMMA BothAre ==
  ASSUME NEW A \in Seq(Entries), NEW B \in Seq(Entries), NEW a \in Nat, NEW b \in Nat,
         Len(A) = a, Len(B) = b
  PROVE  /\ A \o B \in Seq(Entries) /\ Len(A \o B) = a + b
         /\ \A n \in 1 .. a : (A \o B)[n] = A[n]
         /\ \A n \in 1 .. b : (A \o B)[a + n] = B[n]
OBVIOUS

LEMMA OffsetsAre ==
  ASSUME NEW f \in Loose, NEW j \in 1 .. Len(f.entries) + 1
  PROVE  /\ OffsetOf(f, j) = FRAME_HEADER_LEN + LenOf(f.entries, j - 1)
         /\ LenOf(f.entries, j - 1) \in Nat
         /\ OffsetOf(f, j) \in Int /\ OffsetOf(f, j) >= FRAME_HEADER_LEN
<1>1. f.entries \in Seq(Entries)
  BY DEF Loose
<1>2. j - 1 \in 0 .. Len(f.entries)
  BY <1>1
<1>3. LenOf(f.entries, j - 1) \in Nat
  BY <1>1, <1>2, LengthsAre
<1> QED
  BY <1>3, FrameAssumption DEF OffsetOf

LEMMA BordersGrow ==
  ASSUME NEW f \in Loose
  PROVE  \A j, k \in 1 .. Len(f.entries) + 1 :
           /\ j < k <=> OffsetOf(f, j) < OffsetOf(f, k)
           /\ j = k <=> OffsetOf(f, j) = OffsetOf(f, k)
<1>1. f.entries \in Seq(Entries) /\ Len(f.entries) \in Nat
  BY DEF Loose
<1>2. ASSUME NEW j \in 1 .. Len(f.entries) + 1, NEW k \in 1 .. Len(f.entries) + 1, j < k
      PROVE  OffsetOf(f, j) < OffsetOf(f, k)
  <2>1. k - 1 \in 0 .. Len(f.entries) /\ j - 1 \in 0 .. k - 1 /\ j - 1 < k - 1
    BY <1>1, <1>2
  <2>2. LenOf(f.entries, j - 1) < LenOf(f.entries, k - 1)
    BY <1>1, <2>1, LengthsGrow
  <2>3. /\ OffsetOf(f, j) = FRAME_HEADER_LEN + LenOf(f.entries, j - 1)
        /\ OffsetOf(f, k) = FRAME_HEADER_LEN + LenOf(f.entries, k - 1)
        /\ LenOf(f.entries, j - 1) \in Nat /\ LenOf(f.entries, k - 1) \in Nat
    BY OffsetsAre
  <2> QED
    BY <2>2, <2>3, FrameAssumption
<1> TAKE j, k \in 1 .. Len(f.entries) + 1
<1>3. OffsetOf(f, j) \in Int /\ OffsetOf(f, k) \in Int
  BY OffsetsAre
<1>4. j < k => OffsetOf(f, j) < OffsetOf(f, k)
  BY <1>2
<1>5. k < j => OffsetOf(f, k) < OffsetOf(f, j)
  BY <1>2
<1>6. j \in Int /\ k \in Int
  BY <1>1
<1>7. j < k \/ j = k \/ k < j
  BY <1>6
<1> QED
  BY <1>3, <1>4, <1>5, <1>6, <1>7

LEMMA BordersAre ==
  ASSUME NEW f \in Loose
  PROVE  /\ OffsetOf(f, 1) = FRAME_HEADER_LEN
         /\ OffsetOf(f, Len(f.entries) + 1) = records_end(f)
         /\ \A j \in 1 .. Len(f.entries) + 1 :
              /\ Before(f, OffsetOf(f, j)) = j - 1
              /\ IsBoundary(f, OffsetOf(f, j))
<1> DEFINE N == Len(f.entries)
<1>1. f.entries \in Seq(Entries) /\ N \in Nat /\ DOMAIN f.entries = 1 .. N
  BY DEF Loose
<1>2. OffsetOf(f, 1) = FRAME_HEADER_LEN
  <2>1. LenOf(f.entries, 0) = 0
    BY <1>1, LengthsAre
  <2> QED
    BY <2>1, FrameAssumption DEF OffsetOf
<1>3. OffsetOf(f, N + 1) = records_end(f)
  <2>1. N + 1 - 1 = N
    BY <1>1
  <2> QED
    BY <2>1 DEF OffsetOf, records_end, used
<1>4. \A j \in 1 .. N : Before(f, OffsetOf(f, j)) = j - 1
  <2>1. \A i \in 1 .. Len(f.entries) : Before(f, OffsetOf(f, i)) = i - 1
    <3>1. 0 \in Int
      OBVIOUS
    <3> QED
      BY <3>1, BeforeIs
  <2> QED
    BY <2>1
<1>5. Before(f, OffsetOf(f, N + 1)) = N
  <2>1. \A i \in 1 .. N : OffsetOf(f, i) < OffsetOf(f, N + 1)
    <3> TAKE i \in 1 .. N
    <3>1. i \in 1 .. N + 1 /\ N + 1 \in 1 .. N + 1 /\ i < N + 1
      BY <1>1
    <3> QED
      BY <3>1, BordersGrow
  <2>2. {i \in DOMAIN f.entries : OffsetOf(f, i) < OffsetOf(f, N + 1)} = 1 .. N
    BY <1>1, <2>1
  <2>3. Cardinality(1 .. N) = N
    BY <1>1, FS_Interval
  <2> QED
    BY <2>2, <2>3 DEF Before
<1>6. \A j \in 1 .. N + 1 : Before(f, OffsetOf(f, j)) = j - 1
  <2> TAKE j \in 1 .. N + 1
  <2>1. j \in 1 .. N \/ j = N + 1
    BY <1>1
  <2>2. N + 1 - 1 = N
    BY <1>1
  <2> QED
    BY <1>4, <1>5, <2>1, <2>2
<1>7. \A j \in 1 .. N + 1 : IsBoundary(f, OffsetOf(f, j))
  <2> TAKE j \in 1 .. N + 1
  <2>1. j \in 1 .. N \/ j = N + 1
    BY <1>1
  <2> QED
    BY <1>1, <1>3, <2>1 DEF IsBoundary
<1> QED
  BY <1>2, <1>3, <1>6, <1>7

Joins(D, A, B, a, b) ==
  /\ D \in Seq(Entries) /\ Len(D) = a + b
  /\ \A n \in 1 .. a : D[n] = A[n]
  /\ \A n \in 1 .. b : D[a + n] = B[n]
LEMMA BothJoined ==
  ASSUME NEW A \in Seq(Entries), NEW B \in Seq(Entries), NEW a \in Nat, NEW b \in Nat,
         Len(A) = a, Len(B) = b, NEW D, D = A \o B
  PROVE  Joins(D, A, B, a, b)
<1>1. A \o B \in Seq(Entries) /\ Len(A \o B) = a + b
  OBVIOUS
<1>2. \A n \in 1 .. a : (A \o B)[n] = A[n]
  OBVIOUS
<1>3. \A n \in 1 .. b : (A \o B)[a + n] = B[n]
  OBVIOUS
<1> QED
  BY <1>1, <1>2, <1>3 DEF Joins

(* What is put at a border and taken from one. *)
LEMMA PutAtBorder ==
  ASSUME NEW f \in Loose, NEW j \in 1 .. Len(f.entries) + 1, NEW e \in Entries
  PROVE  insert(f, OffsetOf(f, j), <<e>>) = [f EXCEPT !.entries = PutIn(f.entries, j - 1, e)]
<1> DEFINE W == f.entries
           L == Len(W)
           k == j - 1
           A == SubSeq(W, 1, k)
           B == SubSeq(W, k + 1, L)
           R == A \o <<e>> \o B
<1>1. W \in Seq(Entries) /\ L \in Nat /\ k \in 0 .. L /\ k \in Nat
  BY DEF Loose
<1>2. Before(f, OffsetOf(f, j)) = k /\ IsBoundary(f, OffsetOf(f, j))
  BY BordersAre
<1>3. insert(f, OffsetOf(f, j), <<e>>) = [f EXCEPT !.entries = R]
  BY <1>2 DEF insert
<1>4. R = PutIn(W, k, e)
  <2> HIDE DEF W, L, k
  <2>1. A \in Seq(Entries) /\ Len(A) = k /\ \A n \in 1 .. k : A[n] = W[n]
    BY <1>1 DEF L
  <2>2. B \in Seq(Entries) /\ Len(B) = L - k /\ \A n \in 1 .. L - k : B[n] = W[k + n]
    BY <1>1 DEF L
  <2> DEFINE E == <<e>>
  <2>3. E \in Seq(Entries) /\ Len(E) = 1 /\ E[1] = e
    OBVIOUS
  <2> DEFINE C == A \o E
  <2> HIDE DEF A, B, E
  <2>4. C \in Seq(Entries) /\ Len(C) = k + 1 /\ (\A n \in 1 .. k : C[n] = A[n]) /\ C[k + 1] = E[1]
    <3>1. 1 \in Nat /\ 1 \in 1 .. 1 /\ k \in Nat
      BY <1>1
    <3>2. (\A n \in 1 .. 1 : C[k + n] = E[n]) /\ C \in Seq(Entries) /\ Len(C) = k + 1
      BY <2>1, <2>3, <3>1, BothAre
    <3>3. \A n \in 1 .. k : C[n] = A[n]
      BY <2>1, <2>3, <3>1, BothAre
    <3> QED
      BY <3>1, <3>2, <3>3
  <2> HIDE DEF C
  <2> DEFINE D == C \o B
  <2>5. /\ D \in Seq(Entries) /\ Len(D) = L + 1
        /\ \A n \in 1 .. k + 1 : D[n] = C[n]
        /\ \A n \in 1 .. L - k : D[k + 1 + n] = B[n]
    <3> DEFINE p == k + 1
               q == L - k
    <3>1. /\ p \in Nat /\ q \in Nat /\ p + q = L + 1 /\ p = k + 1
          /\ 1 .. p = 1 .. k + 1 /\ 1 .. q = 1 .. L - k
      BY <1>1
    <3>2. C \in Seq(Entries) /\ B \in Seq(Entries) /\ Len(C) = p /\ Len(B) = q /\ D = C \o B
      BY <2>2, <2>4
    <3> HIDE DEF p, q, D, R
    <3>3. Joins(D, C, B, p, q)
      BY <3>1, <3>2, BothJoined
    <3> QED
      BY <3>1, <3>3 DEF Joins
  <2>6. R = D
    BY DEF C, D, E
  <2> HIDE DEF D, R
  <2>7. \A n \in 1 .. L + 1 : D[n] = IF n <= k THEN W[n] ELSE IF n = k + 1 THEN e ELSE W[n - 1]
    <3> TAKE n \in 1 .. L + 1
    <3>1. CASE n <= k
      <4>1. n \in 1 .. k /\ n \in 1 .. k + 1
        BY <1>1, <3>1
      <4> QED
        BY <2>1, <2>4, <2>5, <3>1, <4>1
    <3>2. CASE n = k + 1
      <4>1. n \in 1 .. k + 1 /\ ~(n <= k)
        BY <1>1, <3>2
      <4> QED
        BY <2>3, <2>4, <2>5, <3>2, <4>1
    <3>3. CASE n > k + 1
      <4>1. n - k - 1 \in 1 .. L - k /\ k + 1 + (n - k - 1) = n /\ ~(n <= k) /\ n # k + 1
        BY <1>1, <3>3
      <4>2. k + (n - k - 1) = n - 1
        BY <1>1
      <4> QED
        BY <2>2, <2>5, <4>1, <4>2
    <3> QED
      BY <1>1, <3>1, <3>2, <3>3
  <2>8. D = [n \in 1 .. L + 1 |-> IF n <= k THEN W[n] ELSE IF n = k + 1 THEN e ELSE W[n - 1]]
    <3>1. DOMAIN D = 1 .. L + 1 /\ D = [n \in DOMAIN D |-> D[n]]
      BY <2>5
    <3> QED
      BY <2>7, <3>1
  <2> QED
    BY <2>6, <2>8 DEF PutIn, L
<1> QED
  BY <1>3, <1>4

LEMMA TakenFromBorder ==
  ASSUME NEW f \in Loose, NEW j \in 1 .. Len(f.entries)
  PROVE  remove(f, OffsetOf(f, j)) = [f EXCEPT !.entries = TakenOut(f.entries, j - 1)]
<1> DEFINE W == f.entries
           L == Len(W)
           k == j - 1
           A == SubSeq(W, 1, k)
           B == SubSeq(W, j + 1, L)
           R == A \o B
<1>1. W \in Seq(Entries) /\ L \in Nat /\ k \in 0 .. L - 1 /\ k \in Nat /\ j = k + 1 /\ k + 1 - 1 = k
  BY DEF Loose
<1>2. Before(f, OffsetOf(f, j)) = k
  BY <1>1, BordersAre
<1>3. remove(f, OffsetOf(f, j)) = [f EXCEPT !.entries = R]
  <2>1. RemoveAt(W, k + 1) = R
    BY <1>1 DEF RemoveAt
  <2> QED
    BY <1>2, <2>1 DEF remove
<1>4. R = TakenOut(W, k)
  <2> HIDE DEF W, L, k
  <2>1. A \in Seq(Entries) /\ Len(A) = k /\ \A n \in 1 .. k : A[n] = W[n]
    BY <1>1 DEF L
  <2>2. B \in Seq(Entries) /\ Len(B) = L - k - 1 /\ \A n \in 1 .. L - k - 1 : B[n] = W[k + 1 + n]
    BY <1>1 DEF L
  <2> HIDE DEF A, B
  <2>5. /\ R \in Seq(Entries) /\ Len(R) = L - 1
        /\ \A n \in 1 .. k : R[n] = A[n]
        /\ \A n \in 1 .. L - k - 1 : R[k + n] = B[n]
    <3>1. k \in Nat /\ L - k - 1 \in Nat /\ k + (L - k - 1) = L - 1
      BY <1>1
    <3>2. R \in Seq(Entries) /\ Len(R) = k + (L - k - 1)
      BY <2>1, <2>2, <3>1, BothAre
    <3>3. \A n \in 1 .. k : R[n] = A[n]
      BY <2>1, <2>2, <3>1, BothAre
    <3>4. \A n \in 1 .. L - k - 1 : R[k + n] = B[n]
      BY ZenonT(60), <2>1, <2>2, <3>1, BothAre
    <3> QED
      BY <3>1, <3>2, <3>3, <3>4
  <2> HIDE DEF R
  <2>7. \A n \in 1 .. L - 1 : R[n] = IF n <= k THEN W[n] ELSE W[n + 1]
    <3> TAKE n \in 1 .. L - 1
    <3>1. CASE n <= k
      <4>1. n \in 1 .. k
        BY <1>1, <3>1
      <4> QED
        BY <2>1, <2>5, <3>1, <4>1
    <3>3. CASE n > k
      <4>1. n - k \in 1 .. L - k - 1 /\ k + (n - k) = n /\ ~(n <= k) /\ k + 1 + (n - k) = n + 1
        BY <1>1, <3>3
      <4> QED
        BY <2>2, <2>5, <4>1
    <3> QED
      BY <1>1, <3>1, <3>3
  <2>8. R = [n \in 1 .. L - 1 |-> IF n <= k THEN W[n] ELSE W[n + 1]]
    <3>1. DOMAIN R = 1 .. L - 1 /\ R = [n \in DOMAIN R |-> R[n]]
      BY <2>5
    <3> QED
      BY <2>7, <3>1
  <2> QED
    BY <2>8 DEF TakenOut, L
<1> QED
  BY <1>3, <1>4

LEMMA SplitAtBorder ==
  ASSUME NEW f \in Loose, NEW j \in 1 .. Len(f.entries) + 1
  PROVE  /\ split_off(f, OffsetOf(f, j)) = [f EXCEPT !.entries = SubSeq(f.entries, 1, j - 1)]
         /\ SplitOffEntries(f, OffsetOf(f, j)) = SubSeq(f.entries, j, Len(f.entries))
<1>1. Before(f, OffsetOf(f, j)) = j - 1 /\ j - 1 + 1 = j
  <2>1. Len(f.entries) \in Nat
    BY DEF Loose
  <2> QED
    BY <2>1, BordersAre
<1> QED
  BY <1>1 DEF split_off, SplitOffEntries

LEMMA PutBeforeAll ==
  ASSUME NEW f \in Loose, NEW more \in Seq(Entries)
  PROVE  insert(f, FRAME_HEADER_LEN, more) = [f EXCEPT !.entries = more \o f.entries]
<1> DEFINE W == f.entries
<1>1. W \in Seq(Entries) /\ Len(W) \in Nat /\ 1 \in 1 .. Len(W) + 1 /\ 1 - 1 = 0
  BY DEF Loose
<1>2. Before(f, FRAME_HEADER_LEN) = 0 /\ IsBoundary(f, FRAME_HEADER_LEN)
  <2>1. OffsetOf(f, 1) = FRAME_HEADER_LEN
    BY BordersAre
  <2>2. Before(f, OffsetOf(f, 1)) = 1 - 1 /\ IsBoundary(f, OffsetOf(f, 1))
    BY <1>1, BordersAre
  <2> QED
    BY <1>1, <2>1, <2>2
<1>3. SubSeq(W, 1, 0) = <<>> /\ SubSeq(W, 0 + 1, Len(W)) = W
  BY <1>1
<1>4. <<>> \o more = more
  OBVIOUS
<1> QED
  BY <1>2, <1>3, <1>4 DEF insert

(* A frame every entry of which reads, and is as long as an entry may be. *)
WholeFrames == {f \in FrameSet : \A i \in 1 .. Len(f.entries) : IsEntry(f.entries[i])}

LEMMA WholeFrameIs ==
  ASSUME NEW f \in WholeFrames
  PROVE  /\ f \in FrameSet /\ f \in Loose /\ f.entries \in Seq(Entries) /\ f.next \in Int
         /\ Len(f.entries) \in Nat /\ DOMAIN f.entries = 1 .. Len(f.entries)
         /\ Reading(f) = 1 .. Len(f.entries)
         /\ Cardinality(Reading(f)) = Len(f.entries)
         /\ used(f) \in Nat /\ used(f) <= FRAME_CAPACITY /\ free(f) = FRAME_CAPACITY - used(f)
         /\ records_end(f) = FRAME_HEADER_LEN + used(f)
<1>1. f \in FrameSet /\ f \in Loose
  BY DEF WholeFrames, FrameSet
<1>2. /\ f.entries \in Seq(Entries) /\ f.next \in Int /\ used(f) \in Nat
      /\ Len(f.entries) \in Nat /\ DOMAIN f.entries = 1 .. Len(f.entries)
  BY <1>1, UsedIs
<1>3. Reading(f) = 1 .. Len(f.entries)
  <2>1. \A i \in 1 .. Len(f.entries) : \A j \in 1 .. i : j \in 1 .. Len(f.entries)
    BY <1>2
  <2> QED
    BY <1>2, <2>1 DEF Reading, WholeFrames
<1>4. Cardinality(1 .. Len(f.entries)) = Len(f.entries)
  BY SMTT(30), <1>2, FS_Interval
<1> QED
  BY <1>1, <1>2, <1>3, <1>4 DEF FrameSet, free, records_end

-------------------------------------------------------------------------------
(* The entries E of a frame are the ones of the chain W behind p of them,   *)
(* up to the q-th.                                                         *)
IsPart(E, W, p, q) ==
  /\ E \in Seq(Entries) /\ Len(E) = q - p
  /\ \A j \in 1 .. q - p : E[j] = W[p + j]

LEMMA PartOffsets ==
  ASSUME NEW W \in Seq(Entries), NEW p \in Nat, NEW q \in Nat, p <= q, q <= Len(W),
         NEW E, IsPart(E, W, p, q), NEW m \in p .. q
  PROVE  /\ LenOf(E, m - p) = LenOf(W, m) - LenOf(W, p)
         /\ LenOf(W, m) \in Nat /\ LenOf(W, p) \in Nat /\ m - p \in 0 .. Len(E)
<1> DEFINE l == q - p
           n == m - p
<1>1. /\ l \in Nat /\ n \in 0 .. l /\ Len(W) \in Nat /\ p + l <= Len(W) /\ 0 \in Nat
      /\ 0 + n = n /\ p + n = m /\ m \in 0 .. Len(W) /\ p \in 0 .. Len(W)
  OBVIOUS
<1>2. E \in Seq(Entries) /\ Len(E) = l /\ 0 + l <= Len(E)
  BY <1>1 DEF IsPart
<1>3. Alike(E, 0, W, p, l)
  <2>1. \A j \in 1 .. l : 0 + j = j
    OBVIOUS
  <2> QED
    BY <2>1 DEF IsPart, Alike
<1>4. \A j \in 0 .. l : LenOf(E, 0 + j) - LenOf(E, 0) = LenOf(W, p + j) - LenOf(W, p)
  <2> DEFINE z == 0
  <2>1. /\ z \in Nat /\ z + l <= Len(E) /\ Alike(E, z, W, p, l)
        /\ E \in Seq(Entries) /\ l \in Nat /\ p + l <= Len(W)
    BY <1>1, <1>2, <1>3
  <2> HIDE DEF z, l
  <2>2. \A j \in 0 .. l : LenOf(E, z + j) - LenOf(E, z) = LenOf(W, p + j) - LenOf(W, p)
    BY <2>1, SameLengths
  <2> QED
    BY <2>2 DEF z
<1>5. LenOf(E, 0) = 0 /\ LenOf(E, n) \in Nat /\ LenOf(W, m) \in Nat /\ LenOf(W, p) \in Nat
  <2>1. n \in 0 .. Len(E)
    BY <1>1, <1>2
  <2> QED
    BY <1>1, <1>2, <2>1, LengthsAre
<1>6. LenOf(E, 0 + n) - LenOf(E, 0) = LenOf(W, p + n) - LenOf(W, p)
  BY <1>1, <1>4
<1>7. LenOf(E, n) = LenOf(W, m) - LenOf(W, p)
  BY <1>1, <1>5, <1>6
<1> QED
  BY <1>1, <1>2, <1>5, <1>7

LEMMA EntriesPutIn ==
  ASSUME NEW W \in Seq(Entries), NEW k \in 0 .. Len(W), NEW e \in Entries
  PROVE  LET P == PutIn(W, k, e)
         IN  /\ P \in Seq(Entries) /\ Len(P) = Len(W) + 1
             /\ \A n \in 1 .. k : P[n] = W[n]
             /\ P[k + 1] = e
             /\ \A n \in k + 1 .. Len(W) : P[n + 1] = W[n]
<1> DEFINE X == Entries
<1>1. W \in Seq(X) /\ e \in X
  OBVIOUS
<1> HIDE DEF X
<1>2. PutIn(W, k, e) \in Seq(X) /\ Len(PutIn(W, k, e)) = Len(W) + 1
  BY <1>1, PutInIs
<1>3. (\A n \in 1 .. k : PutIn(W, k, e)[n] = W[n]) /\ PutIn(W, k, e)[k + 1] = e
  BY <1>1, PutInIs
<1>4. \A n \in k + 1 .. Len(W) : PutIn(W, k, e)[n + 1] = W[n]
  <2> TAKE n \in k + 1 .. Len(W)
  <2>1. n + 1 \in 1 .. Len(W) + 1 /\ ~(n + 1 <= k) /\ n + 1 # k + 1 /\ n + 1 - 1 = n
    BY <1>1
  <2> QED
    BY <2>1 DEF PutIn
<1> QED
  BY <1>2, <1>3, <1>4 DEF X

LEMMA PartPut ==
  ASSUME NEW W \in Seq(Entries), NEW p \in Nat, NEW q \in Nat, p <= q, q <= Len(W),
         NEW E, IsPart(E, W, p, q), NEW k \in p .. q, NEW e \in Entries
  PROVE  IsPart(PutIn(E, k - p, e), PutIn(W, k, e), p, q + 1)
<1> DEFINE l == k - p
           L == Len(W)
           n == Len(E)
           D == PutIn(E, l, e)
           V == PutIn(W, k, e)
<1>1. /\ E \in Seq(Entries) /\ n = q - p /\ l \in 0 .. n /\ k \in 0 .. L /\ L \in Nat /\ n \in Nat
      /\ k = p + l /\ l \in Nat /\ q = p + n
      /\ \A j \in 1 .. q - p : E[j] = W[p + j]
  BY DEF IsPart
<1>2. /\ V \in Seq(Entries) /\ Len(V) = L + 1 /\ V[k + 1] = e
      /\ \A m \in 1 .. k : V[m] = W[m]
      /\ \A m \in k + 1 .. L : V[m + 1] = W[m]
  <2> HIDE DEF l, n
  <2> QED
    BY <1>1, EntriesPutIn
<1>3. /\ D \in Seq(Entries) /\ Len(D) = n + 1 /\ D[l + 1] = e
      /\ \A m \in 1 .. l : D[m] = E[m]
      /\ \A m \in l + 1 .. n : D[m + 1] = E[m]
  <2>1. E \in Seq(Entries) /\ l \in 0 .. Len(E)
    BY <1>1
  <2> HIDE DEF l, L
  <2>2. D \in Seq(Entries) /\ Len(D) = n + 1 /\ D[l + 1] = e
    BY <2>1, EntriesPutIn
  <2>3. \A m \in 1 .. l : D[m] = E[m]
    BY <2>1, EntriesPutIn
  <2>4. \A m \in l + 1 .. n : D[m + 1] = E[m]
    BY <2>1, EntriesPutIn
  <2> QED
    BY <2>2, <2>3, <2>4
<1> HIDE DEF D, V, l, L, n
<1>4. \A j \in 1 .. n + 1 : D[j] = V[p + j]
  <2> TAKE j \in 1 .. n + 1
  <2>1. CASE j <= l
    <3>1. j \in 1 .. l /\ j \in 1 .. q - p /\ p + j \in 1 .. k
      BY <1>1, <2>1
    <3> QED
      BY <1>1, <1>2, <1>3, <3>1
  <2>2. CASE j = l + 1
    <3>1. p + j = k + 1
      BY <1>1, <2>2
    <3> QED
      BY <1>2, <1>3, <2>2, <3>1
  <2>3. CASE j > l + 1
    <3>1. j - 1 \in l + 1 .. n /\ j - 1 \in 1 .. q - p /\ p + (j - 1) \in k + 1 .. L
          /\ j - 1 + 1 = j /\ p + (j - 1) + 1 = p + j
      BY <1>1, <2>3 DEF L
    <3>2. D[j - 1 + 1] = E[j - 1] /\ V[p + (j - 1) + 1] = W[p + (j - 1)] /\ E[j - 1] = W[p + (j - 1)]
      BY <1>1, <1>2, <1>3, <3>1
    <3> QED
      BY <3>1, <3>2
  <2> QED
    BY <1>1, <2>1, <2>2, <2>3
<1>5. q + 1 - p = n + 1
  BY <1>1
<1>6. IsPart(D, V, p, q + 1)
  BY <1>3, <1>4, <1>5 DEF IsPart
<1> QED
  BY <1>6 DEF D, V, l

LEMMA PartBesidePut ==
  ASSUME NEW W \in Seq(Entries), NEW p \in Nat, NEW q \in Nat, p <= q, q <= Len(W),
         NEW E, IsPart(E, W, p, q), NEW k \in 0 .. Len(W), NEW e \in Entries
  PROVE  /\ k <= p => IsPart(E, PutIn(W, k, e), p + 1, q + 1)
         /\ q <= k => IsPart(E, PutIn(W, k, e), p, q)
<1> DEFINE L == Len(W)
           V == PutIn(W, k, e)
<1>1. E \in Seq(Entries) /\ Len(E) = q - p /\ L \in Nat /\ \A j \in 1 .. q - p : E[j] = W[p + j]
  BY DEF IsPart
<1>2. /\ \A m \in 1 .. k : V[m] = W[m]
      /\ \A m \in k + 1 .. L : V[m + 1] = W[m]
  BY EntriesPutIn
<1> HIDE DEF V
<1>3. ASSUME k <= p PROVE IsPart(E, V, p + 1, q + 1)
  <2>1. \A j \in 1 .. q - p : p + j \in k + 1 .. L /\ p + j + 1 = p + 1 + j
    BY <1>3
  <2>2. \A j \in 1 .. q - p : E[j] = V[p + 1 + j]
    BY <1>1, <1>2, <2>1
  <2>3. q + 1 - (p + 1) = q - p
    OBVIOUS
  <2> QED
    BY <1>1, <2>2, <2>3 DEF IsPart
<1>4. ASSUME q <= k PROVE IsPart(E, V, p, q)
  <2>1. \A j \in 1 .. q - p : p + j \in 1 .. k
    BY <1>4
  <2> QED
    BY <1>1, <1>2, <2>1 DEF IsPart
<1> QED
  BY <1>3, <1>4 DEF V

LEMMA EntriesTakenOut ==
  ASSUME NEW W \in Seq(Entries), NEW k \in 0 .. Len(W) - 1
  PROVE  LET P == TakenOut(W, k)
         IN  /\ P \in Seq(Entries) /\ Len(P) = Len(W) - 1
             /\ \A n \in 1 .. k : P[n] = W[n]
             /\ \A n \in k + 1 .. Len(W) - 1 : P[n] = W[n + 1]
BY TakenOutIs

LEMMA PartTaken ==
  ASSUME NEW W \in Seq(Entries), NEW p \in Nat, NEW q \in Nat, p <= q, q <= Len(W),
         NEW E, IsPart(E, W, p, q), NEW k \in p .. q - 1
  PROVE  IsPart(TakenOut(E, k - p), TakenOut(W, k), p, q - 1)
<1> DEFINE l == k - p
           L == Len(W)
           n == Len(E)
           D == TakenOut(E, l)
           V == TakenOut(W, k)
<1>1. /\ E \in Seq(Entries) /\ n = q - p /\ l \in 0 .. n - 1 /\ k \in 0 .. L - 1 /\ L \in Nat /\ n \in Nat
      /\ k = p + l /\ l \in Nat /\ q = p + n
      /\ \A j \in 1 .. q - p : E[j] = W[p + j]
  BY DEF IsPart
<1>2. /\ \A m \in 1 .. k : V[m] = W[m]
      /\ \A m \in k + 1 .. L - 1 : V[m] = W[m + 1]
  <2> HIDE DEF l, n
  <2> QED
    BY <1>1, EntriesTakenOut
<1>3. /\ D \in Seq(Entries) /\ Len(D) = n - 1
      /\ \A m \in 1 .. l : D[m] = E[m]
      /\ \A m \in l + 1 .. n - 1 : D[m] = E[m + 1]
  <2> HIDE DEF l, L
  <2> QED
    BY <1>1, EntriesTakenOut
<1> HIDE DEF D, V, l, L, n
<1>4. \A j \in 1 .. n - 1 : D[j] = V[p + j]
  <2> TAKE j \in 1 .. n - 1
  <2>1. CASE j <= l
    <3>1. j \in 1 .. l
      BY <1>1, <2>1
    <3>2. j \in 1 .. q - p
      BY <1>1
    <3>3. p + j \in 1 .. k
      BY <1>1, <3>1
    <3> QED
      BY <1>1, <1>2, <1>3, <3>1, <3>2, <3>3
  <2>3. CASE j > l
    <3>1. j \in l + 1 .. n - 1 /\ j + 1 \in 1 .. q - p /\ p + j \in k + 1 .. L - 1
          /\ p + (j + 1) = p + j + 1
      BY <1>1, <2>3 DEF L
    <3>2. D[j] = E[j + 1] /\ V[p + j] = W[p + j + 1] /\ E[j + 1] = W[p + (j + 1)]
      BY <1>1, <1>2, <1>3, <3>1
    <3> QED
      BY <3>1, <3>2
  <2> QED
    BY <1>1, <2>1, <2>3
<1>5. q - 1 - p = n - 1
  BY <1>1
<1>6. IsPart(D, V, p, q - 1)
  BY <1>3, <1>4, <1>5 DEF IsPart
<1> QED
  BY <1>6 DEF D, V, l

LEMMA PartBesideTaken ==
  ASSUME NEW W \in Seq(Entries), NEW p \in Nat, NEW q \in Nat, p <= q, q <= Len(W),
         NEW E, IsPart(E, W, p, q), NEW k \in 0 .. Len(W) - 1
  PROVE  /\ k < p => IsPart(E, TakenOut(W, k), p - 1, q - 1)
         /\ q <= k => IsPart(E, TakenOut(W, k), p, q)
<1> DEFINE L == Len(W)
           V == TakenOut(W, k)
<1>1. E \in Seq(Entries) /\ Len(E) = q - p /\ L \in Nat /\ \A j \in 1 .. q - p : E[j] = W[p + j]
  BY DEF IsPart
<1>2. /\ \A m \in 1 .. k : V[m] = W[m]
      /\ \A m \in k + 1 .. L - 1 : V[m] = W[m + 1]
  BY EntriesTakenOut
<1> HIDE DEF V
<1>3. ASSUME k < p PROVE IsPart(E, V, p - 1, q - 1)
  <2>1. \A j \in 1 .. q - p : p - 1 + j \in k + 1 .. L - 1 /\ p - 1 + j + 1 = p + j
    BY <1>3
  <2>2. \A j \in 1 .. q - p : E[j] = V[p - 1 + j]
    BY <1>1, <1>2, <2>1
  <2>3. q - 1 - (p - 1) = q - p
    OBVIOUS
  <2> QED
    BY <1>1, <2>2, <2>3 DEF IsPart
<1>4. ASSUME q <= k PROVE IsPart(E, V, p, q)
  <2>1. \A j \in 1 .. q - p : p + j \in 1 .. k
    BY <1>4
  <2> QED
    BY <1>1, <1>2, <2>1 DEF IsPart
<1> QED
  BY <1>3, <1>4 DEF V

LEMMA PartCut ==
  ASSUME NEW W \in Seq(Entries), NEW p \in Nat, NEW q \in Nat, p <= q, q <= Len(W),
         NEW E, IsPart(E, W, p, q), NEW b \in p .. q
  PROVE  /\ IsPart(SubSeq(E, 1, b - p), W, p, b)
         /\ IsPart(SubSeq(E, b - p + 1, Len(E)), W, b, q)
<1> DEFINE n == Len(E)
           l == b - p
           A == SubSeq(E, 1, l)
           B == SubSeq(E, l + 1, n)
<1>1. /\ E \in Seq(Entries) /\ n = q - p /\ l \in 0 .. n /\ n \in Nat /\ l \in Nat
      /\ b = p + l /\ q = p + n /\ \A j \in 1 .. n : E[j] = W[p + j]
  BY DEF IsPart
<1> HIDE DEF l
<1>2. A \in Seq(Entries) /\ Len(A) = l /\ \A j \in 1 .. l : A[j] = E[j]
  BY <1>1 DEF n
<1>3. B \in Seq(Entries) /\ Len(B) = n - l /\ \A j \in 1 .. n - l : B[j] = E[l + j]
  <2>1. l \in 0 .. Len(E) /\ n \in l .. Len(E) /\ E \in Seq(Entries)
    BY <1>1
  <2> HIDE DEF n
  <2> QED
    BY <2>1, PartLengths
<1> HIDE DEF A, B, n
<1>4. IsPart(A, W, p, b)
  <2>1. b - p = l /\ \A j \in 1 .. l : j \in 1 .. n
    BY <1>1
  <2> QED
    BY <1>1, <1>2, <2>1 DEF IsPart
<1>5. IsPart(B, W, b, q)
  <2>1. q - b = n - l /\ \A j \in 1 .. n - l : l + j \in 1 .. n /\ p + (l + j) = b + j
    BY <1>1
  <2>2. \A j \in 1 .. n - l : B[j] = W[b + j]
    BY <1>1, <1>3, <2>1
  <2> QED
    BY <1>3, <2>1, <2>2 DEF IsPart
<1> QED
  BY <1>4, <1>5 DEF A, B, l, n

LEMMA PartsJoined ==
  ASSUME NEW W, NEW p \in Nat, NEW q \in Nat, NEW r \in Nat, p <= q, q <= r,
         NEW E, IsPart(E, W, p, q), NEW D, IsPart(D, W, q, r)
  PROVE  IsPart(E \o D, W, p, r)
<1> DEFINE a == q - p
           b == r - q
           C == E \o D
<1>1. /\ E \in Seq(Entries) /\ Len(E) = a /\ \A j \in 1 .. a : E[j] = W[p + j]
      /\ D \in Seq(Entries) /\ Len(D) = b /\ \A j \in 1 .. b : D[j] = W[q + j]
      /\ a \in Nat /\ b \in Nat /\ a + b = r - p /\ q = p + a
  BY DEF IsPart
<1> HIDE DEF a, b
<1>0. E \in Seq(Entries) /\ D \in Seq(Entries) /\ Len(E) = a /\ Len(D) = b /\ a \in Nat /\ b \in Nat
  BY <1>1
<1>2. C \in Seq(Entries) /\ Len(C) = a + b
  BY <1>0, BothAre
<1>3. \A j \in 1 .. a : C[j] = E[j]
  BY <1>0, BothAre
<1>4. \A j \in 1 .. b : C[a + j] = D[j]
  BY <1>0
<1> HIDE DEF C
<1>5. \A j \in 1 .. a + b : C[j] = W[p + j]
  <2> TAKE j \in 1 .. a + b
  <2>1. CASE j <= a
    <3>1. j \in 1 .. a
      BY <1>1, <2>1
    <3> QED
      BY <1>1, <1>3, <3>1
  <2>2. CASE j > a
    <3>1. j - a \in 1 .. b /\ a + (j - a) = j /\ q + (j - a) = p + j
      BY <1>1, <2>2
    <3>2. C[a + (j - a)] = D[j - a] /\ D[j - a] = W[q + (j - a)]
      BY <1>1, <1>4, <3>1
    <3> QED
      BY <3>1, <3>2
  <2> QED
    BY <1>1, <2>1, <2>2
<1> QED
  BY <1>1, <1>2, <1>5 DEF IsPart, C

-------------------------------------------------------------------------------
(* A chain laid out: its frames c, all of its entries W in their order, and *)
(* how many of them come before each frame, S.                             *)
NextIn(c, i) == IF i = Len(c) THEN NoFrame ELSE c[i + 1]
IsLaid(F, c, S, W) ==
  /\ c \in Seq(DOMAIN F)
  /\ \A i, j \in 1 .. Len(c) : c[i] = c[j] => i = j
  /\ W \in Seq(Entries) /\ \A n \in 1 .. Len(W) : IsEntry(W[n])
  /\ S \in Seq(Nat) /\ Len(S) = Len(c) + 1 /\ S[1] = 0 /\ S[Len(c) + 1] = Len(W)
  /\ \A i \in 1 .. Len(c) : /\ S[i] <= S[i + 1]
                            /\ IsPart(F[c[i]].entries, W, S[i], S[i + 1])
                            /\ F[c[i]].next = NextIn(c, i)

(* Where m entries of the chain are before, in its i-th frame; a cell which *)
(* stands there, and, when it starts, has an entry behind it.              *)
BorderOf(S, W, i, m) == FRAME_HEADER_LEN + LenOf(W, m) - LenOf(W, S[i])
PlaceOf(c, S, W, i, m) == [frame |-> c[i], offset |-> BorderOf(S, W, i, m)]
StandsAt(c, S, W, x, m, starts) ==
  \E i \in 1 .. Len(c) :
    /\ m \in Nat /\ S[i] <= m /\ m <= S[i + 1]
    /\ starts => m < S[i + 1]
    /\ x = PlaceOf(c, S, W, i, m)

Others(F, G, X) == DOMAIN F \subseteq DOMAIN G /\ \A f \in DOMAIN F : f \notin X => G[f] = F[f]

LEMMA LaidIs ==
  ASSUME NEW F, NEW c, NEW S, NEW W, IsLaid(F, c, S, W)
  PROVE  /\ Len(c) \in Nat /\ Len(W) \in Nat /\ W \in Seq(Entries)
         /\ \A i \in 1 .. Len(c) + 1 : S[i] \in Nat /\ S[i] <= Len(W)
         /\ \A i \in 1 .. Len(c) : S[i] <= S[i + 1] /\ i + 1 \in 1 .. Len(c) + 1 /\ i \in 1 .. Len(c) + 1
         /\ \A i, k \in 1 .. Len(c) + 1 : i <= k => S[i] <= S[k]
<1> DEFINE N == Len(c)
<1>1. /\ N \in Nat /\ S \in Seq(Nat) /\ Len(S) = N + 1 /\ Len(W) = S[N + 1] /\ W \in Seq(Entries)
      /\ \A i \in 1 .. N : S[i] <= S[i + 1]
  <2>1. c \in Seq(DOMAIN F)
    BY DEF IsLaid
  <2>2. Len(c) \in Nat
    BY <2>1
  <2>3. /\ S \in Seq(Nat) /\ Len(S) = Len(c) + 1 /\ Len(W) = S[Len(c) + 1] /\ W \in Seq(Entries)
        /\ \A i \in 1 .. Len(c) : S[i] <= S[i + 1]
    <3> HIDE DEF N
    <3> QED
      BY DEF IsLaid
  <2> QED
    BY <2>2, <2>3
<1> HIDE DEF N
<1>2. \A i \in 1 .. N + 1 : S[i] \in Nat
  BY <1>1
<1>3. \A i \in 1 .. N + 1 : \A m \in 0 .. N + 1 - i : S[i] <= S[i + m]
  <2> TAKE i \in 1 .. N + 1
  <2> DEFINE M == N + 1 - i
             G == {m \in 0 .. M : S[i] <= S[i + m]}
  <2>1. M \in Nat /\ i \in Nat
    BY <1>1
  <2>2. 0 \in G
    <3>1. i + 0 = i /\ S[i] \in Nat /\ 0 \in 0 .. M
      BY <1>2, <2>1
    <3> QED
      BY <3>1
  <2>3. \A m \in G : m < M => m + 1 \in G
    <3> TAKE m \in G
    <3> HAVE m < M
    <3>1. /\ i + m \in 1 .. N /\ i + (m + 1) = i + m + 1 /\ m + 1 \in 0 .. M
          /\ i + m \in 1 .. N + 1 /\ i + m + 1 \in 1 .. N + 1
      BY <1>1, <2>1
    <3>2. S[i + m + 1] >= S[i + m] /\ S[i + m + 1] \in Nat /\ S[i + m] \in Nat /\ S[i] \in Nat
      BY <1>1, <1>2, <3>1
    <3>3. S[i] <= S[i + m]
      OBVIOUS
    <3>4. S[i] <= S[i + m + 1]
      BY <3>2, <3>3
    <3> QED
      BY <3>1, <3>4
  <2> HIDE DEF G, M
  <2>4. G \in SUBSET Nat
    BY <2>1 DEF G
  <2>5. 0 .. M \subseteq G
    BY <2>1, <2>2, <2>3, <2>4, CountUp
  <2> QED
    BY <2>5 DEF G, M
<1>4. \A i, k \in 1 .. N + 1 : i <= k => S[i] <= S[k]
  <2> TAKE i, k \in 1 .. N + 1
  <2> HAVE i <= k
  <2>1. k - i \in 0 .. N + 1 - i /\ i + (k - i) = k
    BY <1>1
  <2> QED
    BY <1>3, <2>1
<1>5. \A i \in 1 .. N + 1 : S[i] <= Len(W)
  <2> TAKE i \in 1 .. N + 1
  <2>1. N + 1 \in 1 .. N + 1 /\ i <= N + 1
    BY <1>1
  <2> QED
    BY <1>1, <1>4, <2>1
<1>6. Len(W) \in Nat /\ \A i \in 1 .. N : i + 1 \in 1 .. N + 1 /\ i \in 1 .. N + 1
  BY <1>1
<1> QED
  BY <1>1, <1>2, <1>4, <1>5, <1>6 DEF N

LEMMA BordersOfLaid ==
  ASSUME NEW F, NEW c, NEW S, NEW W, IsLaid(F, c, S, W),
         NEW i \in 1 .. Len(c), NEW m \in S[i] .. S[i + 1]
  PROVE  /\ S[i] \in Nat /\ S[i + 1] \in Nat /\ m \in Nat /\ m \in 0 .. Len(W)
         /\ LenOf(W, m) \in Nat /\ LenOf(W, S[i]) \in Nat
         /\ BorderOf(S, W, i, m) \in Int
         /\ BorderOf(S, W, i, S[i]) = FRAME_HEADER_LEN
         /\ \A n \in S[i] .. S[i + 1] : m < n => BorderOf(S, W, i, m) < BorderOf(S, W, i, n)
<1>1. /\ S[i] \in Nat /\ S[i + 1] \in Nat /\ S[i] <= S[i + 1] /\ S[i + 1] <= Len(W)
      /\ Len(W) \in Nat /\ W \in Seq(Entries)
  BY LaidIs
<1>2. m \in Nat /\ m \in 0 .. Len(W) /\ S[i] \in 0 .. Len(W)
  BY <1>1
<1>3. LenOf(W, m) \in Nat /\ LenOf(W, S[i]) \in Nat
  BY <1>1, <1>2, LengthsAre
<1>4. BorderOf(S, W, i, m) \in Int /\ BorderOf(S, W, i, S[i]) = FRAME_HEADER_LEN
  BY <1>3, FrameAssumption DEF BorderOf
<1>5. ASSUME NEW n \in S[i] .. S[i + 1], m < n
      PROVE  BorderOf(S, W, i, m) < BorderOf(S, W, i, n)
  <2>1. n \in 0 .. Len(W)
    BY <1>1
  <2>2. LenOf(W, m) < LenOf(W, n) /\ LenOf(W, n) \in Nat
    BY <1>1, <1>2, <1>5, <2>1, LengthsAre, LengthsGrow
  <2> QED
    BY <1>3, <2>2, FrameAssumption DEF BorderOf
<1> QED
  BY <1>1, <1>2, <1>3, <1>4, <1>5

(* The counts of the frames behind the i-th, when it holds one entry more.  *)
OneMoreFrom(S, i) == [n \in 1 .. Len(S) |-> IF n <= i THEN S[n] ELSE S[n] + 1]
(* The cells of a frame from an offset on move by so many bytes.            *)
MovedCell(x, frame, from, by) ==
  IF x.frame = frame /\ x.offset >= from THEN [x EXCEPT !.offset = @ + by] ELSE x
(* How many entries come before a cell when one more is put behind k.       *)
PushedOn(m, k, starts, n) ==
  /\ m < k => n = m
  /\ m > k => n = m + 1
  /\ m = k => n = m \/ n = m + 1
  /\ m = k /\ starts => n = m + 1

LEMMA PutLengths ==
  ASSUME NEW W \in Seq(Entries), NEW k \in 0 .. Len(W), NEW e \in Entries
  PROVE  /\ \A m \in 0 .. k : LenOf(PutIn(W, k, e), m) = LenOf(W, m)
         /\ \A m \in k .. Len(W) : LenOf(PutIn(W, k, e), m + 1) = LenOf(W, m) + e.len
<1>1. \A m \in k .. Len(W) : m + 1 \in k + 1 .. Len(W) + 1 /\ m + 1 - 1 = m
  OBVIOUS
<1> QED
  BY <1>1, PutInLengths

LaidWith(G, c, S, W, i, k, e) ==
  LET T == OneMoreFrom(S, i)
      V == PutIn(W, k, e)
  IN  /\ IsLaid(G, c, T, V)
      /\ T[i] = S[i] /\ T[i + 1] = S[i + 1] + 1
      /\ PlaceOf(c, T, V, i, k) = PlaceOf(c, S, W, i, k)
      /\ BorderOf(T, V, i, k + 1) = BorderOf(S, W, i, k) + e.len
      /\ \A x, m, st : StandsAt(c, S, W, x, m, st) =>
           \E n : /\ StandsAt(c, T, V, MovedCell(x, c[i], BorderOf(S, W, i, k), e.len), n, st)
                  /\ PushedOn(m, k, st, n)
LEMMA PutIntoLaid ==
  ASSUME NEW F, NEW c, NEW S, NEW W, IsLaid(F, c, S, W),
         NEW i \in 1 .. Len(c), NEW k \in S[i] .. S[i + 1],
         NEW e \in Entries, IsEntry(e),
         NEW G, Others(F, G, {c[i]}), G[c[i]].next = F[c[i]].next,
         G[c[i]].entries = PutIn(F[c[i]].entries, k - S[i], e)
  PROVE  LaidWith(G, c, S, W, i, k, e)
<1> DEFINE N == Len(c)
           T == OneMoreFrom(S, i)
           V == PutIn(W, k, e)
           L == Len(W)
           from == BorderOf(S, W, i, k)
<1>1. /\ N \in Nat /\ L \in Nat /\ W \in Seq(Entries) /\ i \in 1 .. N
      /\ \A n \in 1 .. N + 1 : S[n] \in Nat /\ S[n] <= L
      /\ \A n \in 1 .. N : S[n] <= S[n + 1] /\ n + 1 \in 1 .. N + 1 /\ n \in 1 .. N + 1
      /\ \A n, m \in 1 .. N + 1 : n <= m => S[n] <= S[m]
  BY LaidIs
<1>2. /\ S \in Seq(Nat) /\ Len(S) = N + 1 /\ S[1] = 0 /\ S[N + 1] = L
      /\ \A n \in 1 .. L : IsEntry(W[n])
      /\ \A n, m \in 1 .. N : c[n] = c[m] => n = m
      /\ \A n \in 1 .. N : IsPart(F[c[n]].entries, W, S[n], S[n + 1]) /\ F[c[n]].next = NextIn(c, n)
  BY DEF IsLaid
<1>3. k \in Nat /\ k \in 0 .. L /\ S[i] <= k /\ k <= S[i + 1] /\ S[i] \in Nat /\ S[i + 1] \in Nat
  BY <1>1
<1>4. /\ V \in Seq(Entries) /\ Len(V) = L + 1 /\ V[k + 1] = e
      /\ \A n \in 1 .. k : V[n] = W[n]
      /\ \A n \in k + 1 .. L : V[n + 1] = W[n]
  BY <1>1, <1>3, EntriesPutIn
<1>5. /\ \A m \in 0 .. k : LenOf(V, m) = LenOf(W, m)
      /\ \A m \in k .. L : LenOf(V, m + 1) = LenOf(W, m) + e.len
      /\ \A m \in 0 .. L : LenOf(W, m) \in Nat
      /\ e.len \in Nat
  <2>1. e.len \in Nat
    BY DEF Entries
  <2> QED
    BY <1>1, <1>3, <2>1, PutLengths, LengthsAre
<1>6. /\ T \in Seq(Nat) /\ Len(T) = N + 1
      /\ \A n \in 1 .. N + 1 : T[n] = IF n <= i THEN S[n] ELSE S[n] + 1
  <2> DEFINE At(n) == IF n <= i THEN S[n] ELSE S[n] + 1
  <2>1. T = [n \in 1 .. N + 1 |-> At(n)]
    BY <1>2 DEF OneMoreFrom
  <2>2. \A n \in 1 .. N + 1 : At(n) \in Nat
    BY <1>1
  <2> HIDE DEF At, T, N
  <2>3. T \in Seq(Nat) /\ Len(T) = N + 1 /\ \A n \in 1 .. N + 1 : T[n] = At(n)
    BY <1>1, <2>1, <2>2
  <2> QED
    BY <2>3 DEF At
<1>7. i \in Nat /\ i >= 1 /\ i <= N /\ i + 1 \in 1 .. N + 1 /\ i \in 1 .. N + 1
  BY <1>1
<1>8. T[i] = S[i] /\ T[i + 1] = S[i + 1] + 1
  BY <1>6, <1>7
<1> HIDE DEF T, V, N, L, from
<1>9. \A n \in 1 .. L + 1 : IsEntry(V[n])
  <2> TAKE n \in 1 .. L + 1
  <2>1. CASE n <= k
    <3>1. n \in 1 .. k /\ n \in 1 .. L
      BY <1>1, <1>3, <2>1
    <3> QED
      BY <1>2, <1>4, <3>1
  <2>2. CASE n = k + 1
    BY <1>4, <2>2
  <2>3. CASE n > k + 1
    <3>1. n - 1 \in k + 1 .. L /\ n - 1 + 1 = n /\ n - 1 \in 1 .. L
      BY <1>1, <1>3, <2>3
    <3>2. V[n - 1 + 1] = W[n - 1] /\ IsEntry(W[n - 1])
      BY <1>2, <1>4, <3>1
    <3> QED
      BY <3>1, <3>2
  <2> QED
    BY <1>1, <1>3, <2>1, <2>2, <2>3
<1>10. \A n \in 1 .. N : n # i => G[c[n]] = F[c[n]]
  <2> TAKE n \in 1 .. N
  <2> HAVE n # i
  <2>1. c[n] # c[i] /\ c[n] \in DOMAIN F
    <3>1. c \in Seq(DOMAIN F)
      BY DEF IsLaid
    <3>2. c[n] # c[i]
      BY <1>1, <1>2
    <3>3. n \in 1 .. Len(c)
      BY DEF N
    <3>4. c[n] \in DOMAIN F
      BY <3>1, <3>3
    <3> QED
      BY <3>2, <3>4
  <2> QED
    BY <2>1 DEF Others
<1>11. ASSUME NEW n \in 1 .. N
       PROVE  /\ T[n] <= T[n + 1]
              /\ IsPart(G[c[n]].entries, V, T[n], T[n + 1])
              /\ G[c[n]].next = NextIn(c, n)
  <2>1. /\ n \in 1 .. N + 1 /\ n + 1 \in 1 .. N + 1 /\ S[n] \in Nat /\ S[n + 1] \in Nat
        /\ S[n] <= S[n + 1] /\ S[n + 1] <= L /\ n \in Nat
        /\ IsPart(F[c[n]].entries, W, S[n], S[n + 1]) /\ F[c[n]].next = NextIn(c, n)
    <3>1. /\ n \in 1 .. N + 1 /\ n + 1 \in 1 .. N + 1 /\ S[n] \in Nat /\ S[n + 1] \in Nat
          /\ S[n] <= S[n + 1] /\ S[n + 1] <= L /\ n \in Nat
      BY <1>1
    <3>2. IsPart(F[c[n]].entries, W, S[n], S[n + 1]) /\ F[c[n]].next = NextIn(c, n)
      BY <1>2
    <3> QED
      BY <3>1, <3>2
  <2>2. /\ T[n] = (IF n <= i THEN S[n] ELSE S[n] + 1)
        /\ T[n + 1] = IF n + 1 <= i THEN S[n + 1] ELSE S[n + 1] + 1
    BY <1>6, <2>1
  <2>3. CASE n < i
    <3>1. T[n] = S[n] /\ T[n + 1] = S[n + 1] /\ S[n + 1] <= S[i] /\ G[c[n]] = F[c[n]]
      BY <1>1, <1>7, <1>10, <2>1, <2>2, <2>3
    <3>2. S[n + 1] <= k
      BY <1>3, <2>1, <3>1
    <3> DEFINE E == F[c[n]].entries
               p == S[n]
               q == S[n + 1]
    <3>3. p \in Nat /\ q \in Nat /\ p <= q /\ q <= Len(W) /\ q <= k /\ IsPart(E, W, p, q)
          /\ k \in 0 .. Len(W) /\ W \in Seq(Entries)
      BY <1>1, <1>3, <2>1, <3>2 DEF L
    <3>4. IsPart(E, PutIn(W, k, e), p, q)
      <4> HIDE DEF E, p, q
      <4> QED
        BY <3>3, PartBesidePut
    <3> QED
      BY <2>1, <3>1, <3>4 DEF V
  <2>4. CASE n = i
    <3> DEFINE E == F[c[i]].entries
               p == S[i]
               q == S[i + 1]
    <3>3. p \in Nat /\ q \in Nat /\ p <= q /\ q <= Len(W) /\ IsPart(E, W, p, q)
          /\ k \in p .. q /\ W \in Seq(Entries)
      BY <1>1, <1>3, <2>1, <2>4 DEF L
    <3>4. IsPart(PutIn(E, k - p, e), PutIn(W, k, e), p, q + 1)
      <4> HIDE DEF E, p, q
      <4> QED
        BY <3>3, PartPut
    <3>5. T[n] <= T[n + 1]
      BY <1>3, <1>8, <2>4
    <3> QED
      BY <1>8, <2>1, <2>4, <3>4, <3>5 DEF V
  <2>5. CASE n > i
    <3>1. T[n] = S[n] + 1 /\ T[n + 1] = S[n + 1] + 1 /\ S[i + 1] <= S[n] /\ G[c[n]] = F[c[n]]
      BY <1>1, <1>7, <1>10, <2>1, <2>2, <2>5
    <3>2. k <= S[n]
      BY <1>3, <2>1, <3>1
    <3> DEFINE E == F[c[n]].entries
               p == S[n]
               q == S[n + 1]
    <3>3. p \in Nat /\ q \in Nat /\ p <= q /\ q <= Len(W) /\ k <= p /\ IsPart(E, W, p, q)
          /\ k \in 0 .. Len(W) /\ W \in Seq(Entries)
      BY <1>1, <1>3, <2>1, <3>2 DEF L
    <3>4. IsPart(E, PutIn(W, k, e), p + 1, q + 1)
      <4> HIDE DEF E, p, q
      <4> QED
        BY <3>3, PartBesidePut
    <3> QED
      BY <2>1, <3>1, <3>4 DEF V
  <2> QED
    BY <1>7, <2>1, <2>3, <2>4, <2>5
<1>12. IsLaid(G, c, T, V)
  <2>1. c \in Seq(DOMAIN G)
    <3>1. c \in Seq(DOMAIN F) /\ DOMAIN F \subseteq DOMAIN G
      BY DEF IsLaid, Others
    <3> QED
      BY <3>1
  <2>2. T[1] = 0 /\ T[N + 1] = Len(V)
    <3>1. 1 \in 1 .. N + 1 /\ N + 1 \in 1 .. N + 1 /\ 1 <= i /\ ~(N + 1 <= i)
      BY <1>1, <1>7
    <3> QED
      BY <1>2, <1>4, <1>6, <3>1
  <2> QED
    BY <1>2, <1>4, <1>6, <1>9, <1>11, <2>1, <2>2 DEF IsLaid, N
<1>13. PlaceOf(c, T, V, i, k) = PlaceOf(c, S, W, i, k) /\ BorderOf(T, V, i, k + 1) = from + e.len
  <2>1. /\ LenOf(V, k) = LenOf(W, k) /\ LenOf(V, k + 1) = LenOf(W, k) + e.len
        /\ LenOf(V, S[i]) = LenOf(W, S[i]) /\ LenOf(W, k) \in Nat /\ LenOf(W, S[i]) \in Nat
    <3>1. k \in 0 .. k /\ S[i] \in 0 .. k /\ k \in k .. L /\ k \in 0 .. L /\ S[i] \in 0 .. L
      BY <1>1, <1>3
    <3> QED
      BY <1>5, <3>1
  <2> QED
    BY <1>5, <1>8, <2>1, FrameAssumption DEF PlaceOf, BorderOf, from
<1>14. ASSUME NEW x, NEW m, NEW st, StandsAt(c, S, W, x, m, st)
       PROVE  \E n : StandsAt(c, T, V, MovedCell(x, c[i], from, e.len), n, st) /\ PushedOn(m, k, st, n)
  <2> DEFINE y == MovedCell(x, c[i], from, e.len)
  <2>1. PICK p \in 1 .. N : /\ m \in Nat /\ S[p] <= m /\ m <= S[p + 1]
                            /\ st => m < S[p + 1]
                            /\ x = PlaceOf(c, S, W, p, m)
    BY <1>14 DEF StandsAt, N
  <2>2. /\ p \in Nat /\ p \in 1 .. N + 1 /\ p + 1 \in 1 .. N + 1 /\ S[p] \in Nat /\ S[p + 1] \in Nat
        /\ S[p + 1] <= L /\ m \in 0 .. L /\ S[p] \in 0 .. L
        /\ LenOf(W, m) \in Nat /\ LenOf(W, S[p]) \in Nat
    <3>1. /\ p \in Nat /\ p \in 1 .. N + 1 /\ p + 1 \in 1 .. N + 1 /\ S[p] \in Nat /\ S[p + 1] \in Nat
          /\ S[p + 1] <= L /\ S[p] <= L
      BY <1>1
    <3>2. m \in 0 .. L /\ S[p] \in 0 .. L
      BY <1>1, <2>1, <3>1
    <3> QED
      BY <1>5, <3>1, <3>2
  <2>3. /\ T[p] = (IF p <= i THEN S[p] ELSE S[p] + 1)
        /\ T[p + 1] = IF p + 1 <= i THEN S[p + 1] ELSE S[p + 1] + 1
    BY <1>6, <2>2
  <2>4. p # i => y = x
    <3>1. p # i => c[p] # c[i]
      BY <1>1, <1>2
    <3>2. x.frame = c[p]
      BY <2>1 DEF PlaceOf
    <3> QED
      BY <3>1, <3>2 DEF MovedCell
  <2>5. CASE p < i
    <3>1. T[p] = S[p] /\ T[p + 1] = S[p + 1] /\ S[p + 1] <= S[i]
      BY <1>1, <1>7, <2>2, <2>3, <2>5
    <3>2. m <= k /\ (st => m < k) /\ S[p] <= k
      BY SMTT(30), <1>3, <2>1, <2>2, <3>1
    <3>3. LenOf(V, m) = LenOf(W, m) /\ LenOf(V, S[p]) = LenOf(W, S[p])
      <4>1. m \in 0 .. k /\ S[p] \in 0 .. k
        BY <2>1, <2>2, <3>2
      <4> QED
        BY <1>5, <4>1
    <3>4. y = PlaceOf(c, T, V, p, m)
      BY <2>1, <2>2, <2>4, <2>5, <1>7, <3>1, <3>3 DEF PlaceOf, BorderOf
    <3>5. StandsAt(c, T, V, y, m, st)
      BY <2>1, <3>1, <3>4 DEF StandsAt, N
    <3>6. PushedOn(m, k, st, m)
      BY <1>3, <2>1, <3>2 DEF PushedOn
    <3> QED
      BY <3>5, <3>6
  <2>6. CASE p > i
    <3>1. T[p] = S[p] + 1 /\ T[p + 1] = S[p + 1] + 1 /\ S[i + 1] <= S[p]
      BY SMTT(30), <1>1, <1>7, <2>2, <2>3, <2>6
    <3>2. k <= m /\ k <= S[p]
      BY <1>3, <2>1, <2>2, <3>1
    <3>3. LenOf(V, m + 1) = LenOf(W, m) + e.len /\ LenOf(V, S[p] + 1) = LenOf(W, S[p]) + e.len
      <4>1. m \in k .. L /\ S[p] \in k .. L
        BY <1>3, <2>1, <2>2, <3>2
      <4> QED
        BY <1>5, <4>1
    <3>4. y = PlaceOf(c, T, V, p, m + 1)
      <4>1. BorderOf(T, V, p, m + 1) = BorderOf(S, W, p, m)
        BY <1>5, <2>2, <3>1, <3>3, FrameAssumption DEF BorderOf
      <4> QED
        BY <2>1, <2>4, <2>2, <2>6, <1>7, <4>1 DEF PlaceOf
    <3>5. StandsAt(c, T, V, y, m + 1, st)
      <4>1. m + 1 \in Nat /\ T[p] <= m + 1 /\ m + 1 <= T[p + 1] /\ (st => m + 1 < T[p + 1])
        <5>0. /\ m \in Nat /\ S[p] <= m /\ m <= S[p + 1] /\ S[p] \in Nat /\ S[p + 1] \in Nat
              /\ T[p] = S[p] + 1 /\ T[p + 1] = S[p + 1] + 1
          BY <2>1, <2>2, <3>1
        <5>1. m + 1 \in Nat /\ T[p] <= m + 1 /\ m + 1 <= T[p + 1]
          BY <5>0
        <5>2. m < S[p + 1] => m + 1 < T[p + 1]
          BY <5>0
        <5> QED
          BY <2>1, <5>1, <5>2
      <4> QED
        BY <3>4, <4>1 DEF StandsAt, N
    <3>6. PushedOn(m, k, st, m + 1)
      BY <1>3, <2>1, <3>2 DEF PushedOn
    <3> QED
      BY <3>5, <3>6
  <2>7. CASE p = i
    <3>1. /\ x.frame = c[i] /\ x.offset = BorderOf(S, W, i, m) /\ BorderOf(S, W, i, m) \in Int
          /\ from \in Int /\ x = PlaceOf(c, S, W, i, m) /\ m \in S[i] .. S[i + 1]
          /\ (m < k => BorderOf(S, W, i, m) < from)
          /\ (k < m => from < BorderOf(S, W, i, m))
      <4>1. m \in S[i] .. S[i + 1] /\ i \in 1 .. Len(c)
        BY <2>1, <2>2, <2>7
      <4>2. /\ BorderOf(S, W, i, m) \in Int
            /\ (m < k => BorderOf(S, W, i, m) < BorderOf(S, W, i, k))
        BY <4>1, BordersOfLaid
      <4>3. /\ BorderOf(S, W, i, k) \in Int
            /\ (k < m => BorderOf(S, W, i, k) < BorderOf(S, W, i, m))
        BY <4>1, BordersOfLaid
      <4> QED
        BY <2>1, <2>7, <4>1, <4>2, <4>3 DEF PlaceOf, from
    <3>2. CASE m < k
      <4>1. y = x
        BY <3>1, <3>2 DEF MovedCell
      <4>2. LenOf(V, m) = LenOf(W, m) /\ LenOf(V, S[i]) = LenOf(W, S[i])
        <5>1. m \in 0 .. k /\ S[i] \in 0 .. k
          BY <1>3, <2>1, <3>2
        <5> QED
          BY <1>5, <5>1
      <4>3. y = PlaceOf(c, T, V, i, m)
        BY <1>8, <3>1, <4>1, <4>2 DEF PlaceOf, BorderOf
      <4>4. T[i] <= m /\ m <= T[i + 1] /\ m < T[i + 1]
        BY <1>3, <1>8, <2>1, <2>7
      <4>5. StandsAt(c, T, V, y, m, st)
        BY <1>1, <2>1, <4>3, <4>4 DEF StandsAt, N
      <4>6. PushedOn(m, k, st, m)
        BY <1>3, <2>1, <3>2 DEF PushedOn
      <4> QED
        BY <4>5, <4>6
    <3>3. CASE m >= k
      <4>1. y = [x EXCEPT !.offset = @ + e.len]
        <5>1. BorderOf(S, W, i, m) >= from
          <6>1. m = k \/ k < m
            BY <1>3, <2>1, <3>3
          <6>2. m = k => BorderOf(S, W, i, m) = from
            BY DEF from
          <6> QED
            BY <3>1, <6>1, <6>2
        <5> QED
          BY <3>1, <5>1 DEF MovedCell
      <4>2. LenOf(V, m + 1) = LenOf(W, m) + e.len /\ LenOf(V, S[i]) = LenOf(W, S[i])
        <5>1. m \in k .. L /\ S[i] \in 0 .. k
          BY <1>3, <2>1, <2>2, <3>3
        <5> QED
          BY <1>5, <5>1
      <4>3. BorderOf(T, V, i, m + 1) = BorderOf(S, W, i, m) + e.len
        BY <1>5, <1>8, <2>2, <2>7, <4>2, FrameAssumption DEF BorderOf
      <4>4. y = PlaceOf(c, T, V, i, m + 1)
        BY <3>1, <4>1, <4>3 DEF PlaceOf
      <4>5. m + 1 \in Nat /\ T[i] <= m + 1 /\ m + 1 <= T[i + 1] /\ (st => m + 1 < T[i + 1])
        BY <1>3, <1>8, <2>1, <2>7
      <4>6. StandsAt(c, T, V, y, m + 1, st)
        BY <1>1, <4>4, <4>5 DEF StandsAt, N
      <4>7. PushedOn(m, k, st, m + 1)
        BY <1>3, <2>1, <3>3 DEF PushedOn
      <4> QED
        BY <4>6, <4>7
    <3> QED
      BY <1>3, <2>1, <3>2, <3>3
  <2> QED
    BY <1>7, <2>2, <2>5, <2>6, <2>7
<1> QED
  BY <1>8, <1>12, <1>13, <1>14 DEF T, V, from, LaidWith

-------------------------------------------------------------------------------
(* The frames of a chain, whatever its cells are.                          *)
LEMMA FramesOfLaid ==
  ASSUME NEW F, NEW c, NEW S, NEW W, IsLaid(F, c, S, W), NEW n \in 1 .. Len(c)
  PROVE  /\ c[n] \in DOMAIN F /\ F[c[n]].next = NextIn(c, n)
         /\ IsPart(F[c[n]].entries, W, S[n], S[n + 1])
         /\ \A m \in 1 .. Len(c) : c[m] = c[n] => m = n
<1>1. c \in Seq(DOMAIN F)
  BY DEF IsLaid
<1>2. c[n] \in DOMAIN F
  BY <1>1
<1>3. /\ F[c[n]].next = NextIn(c, n)
      /\ IsPart(F[c[n]].entries, W, S[n], S[n + 1])
      /\ \A m \in 1 .. Len(c) : c[m] = c[n] => m = n
  BY DEF IsLaid
<1> QED
  BY <1>2, <1>3

(* The counts of the frames behind the i-th, when it holds one entry less.  *)
OneLessFrom(S, i) == [n \in 1 .. Len(S) |-> IF n <= i THEN S[n] ELSE S[n] - 1]
PulledBack(m, k, n) == (m <= k => n = m) /\ (m > k => n = m - 1)

TakenWith(G, c, S, W, i, k) ==
  LET T == OneLessFrom(S, i)
      V == TakenOut(W, k)
      by == 0 - W[k + 1].len
  IN  /\ IsLaid(G, c, T, V)
      /\ T[i] = S[i] /\ T[i + 1] = S[i + 1] - 1
      /\ PlaceOf(c, T, V, i, k) = PlaceOf(c, S, W, i, k)
      /\ \A x, m, st : StandsAt(c, S, W, x, m, st) =>
           \E n : /\ StandsAt(c, T, V, MovedCell(x, c[i], BorderOf(S, W, i, k) + 1, by), n,
                              st /\ m # k)
                  /\ PulledBack(m, k, n)
LEMMA TakeFromLaid ==
  ASSUME NEW F, NEW c, NEW S, NEW W, IsLaid(F, c, S, W),
         NEW i \in 1 .. Len(c), NEW k \in S[i] .. S[i + 1] - 1,
         NEW G, Others(F, G, {c[i]}), G[c[i]].next = F[c[i]].next,
         G[c[i]].entries = TakenOut(F[c[i]].entries, k - S[i])
  PROVE  TakenWith(G, c, S, W, i, k)
<1> DEFINE N == Len(c)
           T == OneLessFrom(S, i)
           V == TakenOut(W, k)
           L == Len(W)
           by == 0 - W[k + 1].len
           from == BorderOf(S, W, i, k)
<1>1. /\ N \in Nat /\ L \in Nat /\ W \in Seq(Entries) /\ i \in 1 .. N
      /\ \A n \in 1 .. N + 1 : S[n] \in Nat /\ S[n] <= L
      /\ \A n \in 1 .. N : S[n] <= S[n + 1] /\ n + 1 \in 1 .. N + 1 /\ n \in 1 .. N + 1
      /\ \A n, m \in 1 .. N + 1 : n <= m => S[n] <= S[m]
  BY LaidIs
<1>2. /\ S \in Seq(Nat) /\ Len(S) = N + 1 /\ S[1] = 0 /\ S[N + 1] = L
      /\ \A n \in 1 .. L : IsEntry(W[n])
      /\ \A n, m \in 1 .. N : c[n] = c[m] => n = m
      /\ \A n \in 1 .. N : IsPart(F[c[n]].entries, W, S[n], S[n + 1]) /\ F[c[n]].next = NextIn(c, n)
  BY DEF IsLaid
<1>3. /\ k \in Nat /\ k \in 0 .. L - 1 /\ S[i] <= k /\ k + 1 <= S[i + 1]
      /\ S[i] \in Nat /\ S[i + 1] \in Nat /\ k + 1 \in 1 .. L
  BY SMTT(30), <1>1
<1>4. /\ V \in Seq(Entries) /\ Len(V) = L - 1
      /\ \A n \in 1 .. k : V[n] = W[n]
      /\ \A n \in k + 1 .. L - 1 : V[n] = W[n + 1]
  BY <1>1, <1>3, EntriesTakenOut
<1>5. /\ \A m \in 0 .. k : LenOf(V, m) = LenOf(W, m)
      /\ \A m \in k + 1 .. L : LenOf(V, m - 1) = LenOf(W, m) + by
      /\ \A m \in 0 .. L : LenOf(W, m) \in Nat
      /\ by \in Int
  <2>1. W[k + 1].len \in Nat
    BY <1>1, <1>3, LengthsAre
  <2>2. /\ \A m \in 0 .. k : LenOf(V, m) = LenOf(W, m)
        /\ \A m \in k .. L - 1 : LenOf(V, m) = LenOf(W, m + 1) - W[k + 1].len
    BY <1>1, <1>3, TakenOutLengths
  <2>3. \A m \in 0 .. L : LenOf(W, m) \in Nat
    BY <1>1, LengthsAre
  <2>4. \A m \in k + 1 .. L : LenOf(V, m - 1) = LenOf(W, m) + by
    <3> TAKE m \in k + 1 .. L
    <3>1. m - 1 \in k .. L - 1 /\ m - 1 + 1 = m /\ m \in 0 .. L
      BY <1>1, <1>3
    <3>2. LenOf(V, m - 1) = LenOf(W, m) - W[k + 1].len /\ LenOf(W, m) \in Nat
      BY <2>2, <2>3, <3>1
    <3> QED
      BY <2>1, <3>2
  <2> QED
    BY <2>1, <2>2, <2>3, <2>4
<1>7. i \in Nat /\ i >= 1 /\ i <= N /\ i + 1 \in 1 .. N + 1 /\ i \in 1 .. N + 1
  BY <1>1
<1>6. /\ T \in Seq(Nat) /\ Len(T) = N + 1
      /\ \A n \in 1 .. N + 1 : T[n] = IF n <= i THEN S[n] ELSE S[n] - 1
      /\ \A n \in i + 1 .. N + 1 : S[n] >= k + 1
  <2> DEFINE At(n) == IF n <= i THEN S[n] ELSE S[n] - 1
  <2>1. T = [n \in 1 .. N + 1 |-> At(n)]
    BY <1>2 DEF OneLessFrom
  <2>2. \A n \in i + 1 .. N + 1 : S[n] >= k + 1 /\ S[n] \in Nat
    <3> TAKE n \in i + 1 .. N + 1
    <3>1. n \in 1 .. N + 1 /\ i + 1 <= n
      BY <1>7
    <3>2. S[i + 1] <= S[n] /\ S[n] \in Nat
      BY <1>1, <1>7, <3>1
    <3> QED
      BY <1>3, <3>2
  <2>3. \A n \in 1 .. N + 1 : At(n) \in Nat
    <3> TAKE n \in 1 .. N + 1
    <3>1. CASE n <= i
      BY <1>1, <3>1
    <3>2. CASE ~(n <= i)
      <4>1. n \in i + 1 .. N + 1
        BY <1>7, <3>2
      <4> QED
        BY <1>3, <2>2, <3>2, <4>1
    <3> QED
      BY <3>1, <3>2
  <2> HIDE DEF At, T, N
  <2>4. T \in Seq(Nat) /\ Len(T) = N + 1 /\ \A n \in 1 .. N + 1 : T[n] = At(n)
    BY <1>1, <2>1, <2>3
  <2> QED
    BY <2>2, <2>4 DEF At
<1>8. T[i] = S[i] /\ T[i + 1] = S[i + 1] - 1
  BY <1>6, <1>7
<1> HIDE DEF T, V, N, L, from, by
<1>9. \A n \in 1 .. L - 1 : IsEntry(V[n])
  <2> TAKE n \in 1 .. L - 1
  <2>1. CASE n <= k
    <3>1. n \in 1 .. k /\ n \in 1 .. L
      BY <1>1, <1>3, <2>1
    <3> QED
      BY <1>2, <1>4, <3>1
  <2>3. CASE n > k
    <3>1. n \in k + 1 .. L - 1 /\ n + 1 \in 1 .. L
      BY <1>1, <1>3, <2>3
    <3> QED
      BY <1>2, <1>4, <3>1
  <2> QED
    BY <1>1, <1>3, <2>1, <2>3
<1>10. \A n \in 1 .. N : n # i => G[c[n]] = F[c[n]]
  <2> TAKE n \in 1 .. N
  <2> HAVE n # i
  <2>1. c[n] # c[i]
    BY <1>1, <1>2
  <2>2. c[n] \in DOMAIN F
    BY FramesOfLaid DEF N
  <2> QED
    BY <2>1, <2>2 DEF Others
<1>11. ASSUME NEW n \in 1 .. N
       PROVE  /\ T[n] <= T[n + 1]
              /\ IsPart(G[c[n]].entries, V, T[n], T[n + 1])
              /\ G[c[n]].next = NextIn(c, n)
  <2>1. /\ n \in 1 .. N + 1 /\ n + 1 \in 1 .. N + 1 /\ S[n] \in Nat /\ S[n + 1] \in Nat
        /\ S[n] <= S[n + 1] /\ S[n + 1] <= L /\ n \in Nat
        /\ IsPart(F[c[n]].entries, W, S[n], S[n + 1]) /\ F[c[n]].next = NextIn(c, n)
    <3>1. /\ n \in 1 .. N + 1 /\ n + 1 \in 1 .. N + 1 /\ S[n] \in Nat /\ S[n + 1] \in Nat
          /\ S[n] <= S[n + 1] /\ S[n + 1] <= L /\ n \in Nat
      BY <1>1
    <3>2. IsPart(F[c[n]].entries, W, S[n], S[n + 1]) /\ F[c[n]].next = NextIn(c, n)
      BY <1>2
    <3> QED
      BY <3>1, <3>2
  <2>2. /\ T[n] = (IF n <= i THEN S[n] ELSE S[n] - 1)
        /\ T[n + 1] = IF n + 1 <= i THEN S[n + 1] ELSE S[n + 1] - 1
    BY <1>6, <2>1
  <2>3. CASE n < i
    <3>1. T[n] = S[n] /\ T[n + 1] = S[n + 1] /\ S[n + 1] <= S[i] /\ G[c[n]] = F[c[n]]
      BY <1>1, <1>7, <1>10, <2>1, <2>2, <2>3
    <3>2. S[n + 1] <= k
      BY <1>3, <2>1, <3>1
    <3> DEFINE E == F[c[n]].entries
               p == S[n]
               q == S[n + 1]
    <3>3. p \in Nat /\ q \in Nat /\ p <= q /\ q <= Len(W) /\ q <= k /\ IsPart(E, W, p, q)
          /\ k \in 0 .. Len(W) - 1 /\ W \in Seq(Entries)
      BY <1>1, <1>3, <2>1, <3>2 DEF L
    <3>4. IsPart(E, TakenOut(W, k), p, q)
      <4> HIDE DEF E, p, q
      <4> QED
        BY <3>3, PartBesideTaken
    <3> QED
      BY <2>1, <3>1, <3>4 DEF V
  <2>4. CASE n = i
    <3> DEFINE E == F[c[i]].entries
               p == S[i]
               q == S[i + 1]
    <3>3. p \in Nat /\ q \in Nat /\ p <= q /\ q <= Len(W) /\ IsPart(E, W, p, q)
          /\ k \in p .. q - 1 /\ W \in Seq(Entries)
      BY <1>1, <1>3, <2>1, <2>4 DEF L
    <3>4. IsPart(TakenOut(E, k - p), TakenOut(W, k), p, q - 1)
      <4> HIDE DEF E, p, q
      <4> QED
        BY <3>3, PartTaken
    <3>5. T[n] <= T[n + 1]
      BY <1>3, <1>8, <2>4
    <3> QED
      BY <1>8, <2>1, <2>4, <3>4, <3>5 DEF V
  <2>5. CASE n > i
    <3>1. T[n] = S[n] - 1 /\ T[n + 1] = S[n + 1] - 1 /\ S[i + 1] <= S[n] /\ G[c[n]] = F[c[n]]
      BY <1>1, <1>7, <1>10, <2>1, <2>2, <2>5
    <3>2. k < S[n]
      BY <1>3, <2>1, <3>1
    <3> DEFINE E == F[c[n]].entries
               p == S[n]
               q == S[n + 1]
    <3>3. p \in Nat /\ q \in Nat /\ p <= q /\ q <= Len(W) /\ k < p /\ IsPart(E, W, p, q)
          /\ k \in 0 .. Len(W) - 1 /\ W \in Seq(Entries)
      BY <1>1, <1>3, <2>1, <3>2 DEF L
    <3>4. IsPart(E, TakenOut(W, k), p - 1, q - 1)
      <4> HIDE DEF E, p, q
      <4> QED
        BY <3>3, PartBesideTaken
    <3> QED
      BY <2>1, <3>1, <3>4 DEF V
  <2> QED
    BY <1>7, <2>1, <2>3, <2>4, <2>5
<1>12. IsLaid(G, c, T, V)
  <2>1. c \in Seq(DOMAIN G)
    <3>1. c \in Seq(DOMAIN F) /\ DOMAIN F \subseteq DOMAIN G
      BY DEF IsLaid, Others
    <3> QED
      BY <3>1
  <2>2. T[1] = 0 /\ T[N + 1] = Len(V)
    <3>1. 1 \in 1 .. N + 1 /\ N + 1 \in 1 .. N + 1 /\ 1 <= i /\ ~(N + 1 <= i)
      BY <1>1, <1>7
    <3> QED
      BY <1>2, <1>4, <1>6, <3>1
  <2> QED
    BY <1>2, <1>4, <1>6, <1>9, <1>11, <2>1, <2>2 DEF IsLaid, N
<1>13. PlaceOf(c, T, V, i, k) = PlaceOf(c, S, W, i, k)
  <2>1. LenOf(V, k) = LenOf(W, k) /\ LenOf(V, S[i]) = LenOf(W, S[i])
    <3>1. k \in 0 .. k /\ S[i] \in 0 .. k
      BY <1>1, <1>3
    <3> QED
      BY <1>5, <3>1
  <2> QED
    BY <1>8, <2>1 DEF PlaceOf, BorderOf
<1>14. ASSUME NEW x, NEW m, NEW st, StandsAt(c, S, W, x, m, st)
       PROVE  \E n : /\ StandsAt(c, T, V, MovedCell(x, c[i], from + 1, by), n, st /\ m # k)
                     /\ PulledBack(m, k, n)
  <2> DEFINE y == MovedCell(x, c[i], from + 1, by)
             ss == st /\ m # k
  <2>1. PICK p \in 1 .. N : /\ m \in Nat /\ S[p] <= m /\ m <= S[p + 1]
                            /\ st => m < S[p + 1]
                            /\ x = PlaceOf(c, S, W, p, m)
    BY <1>14 DEF StandsAt, N
  <2>0. m \in Nat /\ S[p] <= m /\ m <= S[p + 1]
    BY <2>1
  <2>2. /\ p \in Nat /\ p \in 1 .. N + 1 /\ p + 1 \in 1 .. N + 1 /\ S[p] \in Nat /\ S[p + 1] \in Nat
        /\ S[p + 1] <= L /\ m \in 0 .. L /\ S[p] \in 0 .. L
        /\ LenOf(W, m) \in Nat /\ LenOf(W, S[p]) \in Nat
    <3>1. /\ p \in Nat /\ p \in 1 .. N + 1 /\ p + 1 \in 1 .. N + 1 /\ S[p] \in Nat /\ S[p + 1] \in Nat
          /\ S[p + 1] <= L /\ S[p] <= L
      BY <1>1
    <3>2. m \in 0 .. L /\ S[p] \in 0 .. L
      BY <1>1, <2>0, <3>1
    <3> QED
      BY <1>5, <3>1, <3>2
  <2>3. /\ T[p] = (IF p <= i THEN S[p] ELSE S[p] - 1)
        /\ T[p + 1] = IF p + 1 <= i THEN S[p + 1] ELSE S[p + 1] - 1
    BY <1>6, <2>2
  <2>4. p # i => y = x
    <3>1. p # i => c[p] # c[i]
      BY <1>1, <1>2
    <3>2. x.frame = c[p]
      BY <2>1 DEF PlaceOf
    <3> QED
      BY <3>1, <3>2 DEF MovedCell
  <2>5. CASE p < i
    <3>1. T[p] = S[p] /\ T[p + 1] = S[p + 1] /\ S[p + 1] <= S[i]
      BY <1>1, <1>7, <2>2, <2>3, <2>5
    <3>0. /\ k \in Nat /\ S[i] \in Nat /\ S[i] <= k /\ S[p] \in Nat /\ S[p + 1] \in Nat
          /\ S[p + 1] <= S[i] /\ m \in Nat /\ S[p] <= m /\ m <= S[p + 1]
      BY <1>3, <2>0, <2>2, <3>1
    <3>2. m <= k /\ S[p] <= k
      BY <3>0
    <3>3. LenOf(V, m) = LenOf(W, m) /\ LenOf(V, S[p]) = LenOf(W, S[p])
      <4>1. m \in 0 .. k /\ S[p] \in 0 .. k
        BY <2>0, <2>2, <3>2
      <4> QED
        BY <1>5, <4>1
    <3>4. y = PlaceOf(c, T, V, p, m)
      BY <2>1, <2>2, <2>4, <2>5, <1>7, <3>1, <3>3 DEF PlaceOf, BorderOf
    <3>5. StandsAt(c, T, V, y, m, ss)
      BY <2>1, <3>1, <3>4 DEF StandsAt, N
    <3>6. PulledBack(m, k, m)
      BY <1>3, <2>0, <3>2 DEF PulledBack
    <3> QED
      BY <3>5, <3>6
  <2>6. CASE p > i
    <3>9. i + 1 <= p /\ ~(p <= i) /\ ~(p + 1 <= i)
      BY <1>7, <2>2, <2>6
    <3>8. S[i + 1] <= S[p]
      BY <1>1, <1>7, <2>2, <3>9
    <3>1. T[p] = S[p] - 1 /\ T[p + 1] = S[p + 1] - 1 /\ S[i + 1] <= S[p]
      BY <2>3, <3>8, <3>9
    <3>0. /\ k \in Nat /\ S[i + 1] \in Nat /\ k + 1 <= S[i + 1] /\ S[p] \in Nat
          /\ S[i + 1] <= S[p] /\ m \in Nat /\ S[p] <= m
      BY <1>3, <2>0, <2>2, <3>1
    <3>2. k + 1 <= m /\ k + 1 <= S[p]
      BY <3>0
    <3>3. LenOf(V, m - 1) = LenOf(W, m) + by /\ LenOf(V, S[p] - 1) = LenOf(W, S[p]) + by
      <4>1. m \in k + 1 .. L /\ S[p] \in k + 1 .. L
        BY <1>3, <2>0, <2>2, <3>2
      <4> QED
        BY <1>5, <4>1
    <3>4. y = PlaceOf(c, T, V, p, m - 1)
      <4>1. BorderOf(T, V, p, m - 1) = BorderOf(S, W, p, m)
        BY <1>5, <2>2, <3>1, <3>3, FrameAssumption DEF BorderOf
      <4> QED
        BY <2>1, <2>4, <2>2, <2>6, <1>7, <4>1 DEF PlaceOf
    <3>5. StandsAt(c, T, V, y, m - 1, ss)
      <4>0. /\ m \in Nat /\ S[p] <= m /\ m <= S[p + 1] /\ S[p] \in Nat /\ S[p + 1] \in Nat
            /\ T[p] = S[p] - 1 /\ T[p + 1] = S[p + 1] - 1 /\ k + 1 <= m /\ k \in Nat
        BY <1>3, <2>0, <2>2, <3>1, <3>2
      <4>1. m - 1 \in Nat /\ T[p] <= m - 1 /\ m - 1 <= T[p + 1]
        BY SMTT(30), <4>0
      <4>2. m < S[p + 1] => m - 1 < T[p + 1]
        BY <2>0, <2>2, <3>1
      <4>3. ss => m - 1 < T[p + 1]
        BY <2>1, <4>2
      <4> QED
        BY <3>4, <4>1, <4>3 DEF StandsAt, N
    <3>6. PulledBack(m, k, m - 1)
      BY <1>3, <2>0, <3>2 DEF PulledBack
    <3> QED
      BY <3>5, <3>6
  <2>7. CASE p = i
    <3>1. /\ x.frame = c[i] /\ x.offset = BorderOf(S, W, i, m) /\ BorderOf(S, W, i, m) \in Int
          /\ from \in Int /\ x = PlaceOf(c, S, W, i, m) /\ m \in S[i] .. S[i + 1]
          /\ (m < k => BorderOf(S, W, i, m) < from)
          /\ (k < m => from < BorderOf(S, W, i, m))
      <4>1. m \in S[i] .. S[i + 1] /\ i \in 1 .. Len(c) /\ k \in S[i] .. S[i + 1]
        BY <1>3, <2>0, <2>2, <2>7
      <4>2. /\ BorderOf(S, W, i, m) \in Int
            /\ (m < k => BorderOf(S, W, i, m) < BorderOf(S, W, i, k))
        BY <4>1, BordersOfLaid
      <4>3. /\ BorderOf(S, W, i, k) \in Int
            /\ (k < m => BorderOf(S, W, i, k) < BorderOf(S, W, i, m))
        BY <4>1, BordersOfLaid
      <4> QED
        BY <2>1, <2>7, <4>1, <4>2, <4>3 DEF PlaceOf, from
    <3>2. CASE m <= k
      <4>1. y = x
        <5>1. BorderOf(S, W, i, m) <= from
          <6>1. m = k \/ m < k
            BY <1>3, <2>0, <3>2
          <6>2. m = k => BorderOf(S, W, i, m) = from
            BY DEF from
          <6> QED
            BY <3>1, <6>1, <6>2
        <5>2. ~(x.offset >= from + 1)
          BY <3>1, <5>1
        <5> QED
          BY <5>2 DEF MovedCell
      <4>2. LenOf(V, m) = LenOf(W, m) /\ LenOf(V, S[i]) = LenOf(W, S[i])
        <5>1. m \in 0 .. k /\ S[i] \in 0 .. k
          BY <1>3, <2>0, <3>2
        <5> QED
          BY <1>5, <5>1
      <4>3. y = PlaceOf(c, T, V, i, m)
        BY <1>8, <3>1, <4>1, <4>2 DEF PlaceOf, BorderOf
      <4>4. T[i] <= m /\ m <= T[i + 1] /\ (m # k => m < T[i + 1])
        BY <1>3, <1>8, <2>0, <2>7, <3>2
      <4>5. StandsAt(c, T, V, y, m, ss)
        BY <1>1, <2>0, <4>3, <4>4 DEF StandsAt, N
      <4>6. PulledBack(m, k, m)
        BY <1>3, <2>0, <3>2 DEF PulledBack
      <4> QED
        BY <4>5, <4>6
    <3>3. CASE m > k
      <4>1. y = [x EXCEPT !.offset = @ + by]
        <5>1. BorderOf(S, W, i, m) >= from + 1
          BY <3>1, <3>3
        <5> QED
          BY <3>1, <5>1 DEF MovedCell
      <4>2. LenOf(V, m - 1) = LenOf(W, m) + by /\ LenOf(V, S[i]) = LenOf(W, S[i])
        <5>1. m \in k + 1 .. L /\ S[i] \in 0 .. k
          BY <1>3, <2>0, <2>2, <3>3
        <5> QED
          BY <1>5, <5>1
      <4>3. BorderOf(T, V, i, m - 1) = BorderOf(S, W, i, m) + by
        BY <1>5, <1>8, <2>2, <2>7, <4>2, FrameAssumption DEF BorderOf
      <4>4. y = PlaceOf(c, T, V, i, m - 1)
        BY <3>1, <4>1, <4>3 DEF PlaceOf
      <4>5. m - 1 \in Nat /\ T[i] <= m - 1 /\ m - 1 <= T[i + 1] /\ (m < S[i + 1] => m - 1 < T[i + 1])
        BY <1>3, <1>8, <2>0, <2>7, <3>3
      <4>6. ss => m - 1 < T[i + 1]
        BY <2>1, <2>7, <4>5
      <4>7. StandsAt(c, T, V, y, m - 1, ss)
        BY <1>1, <4>4, <4>5, <4>6 DEF StandsAt, N
      <4>8. PulledBack(m, k, m - 1)
        BY <1>3, <2>0, <3>3 DEF PulledBack
      <4> QED
        BY <4>7, <4>8
    <3> QED
      BY <1>3, <2>0, <3>2, <3>3
  <2> QED
    BY <1>7, <2>2, <2>5, <2>6, <2>7
<1> QED
  BY <1>8, <1>12, <1>13, <1>14 DEF T, V, from, by, TakenWith

-------------------------------------------------------------------------------
(* A frame of the chain which is cut in two.                               *)
LEMMA PutInPlaces ==
  ASSUME NEW X, NEW W \in Seq(X), NEW k \in 0 .. Len(W), NEW e \in X
  PROVE  LET P == PutIn(W, k, e)
         IN  /\ P \in Seq(X) /\ Len(P) = Len(W) + 1
             /\ \A n \in 1 .. k : P[n] = W[n]
             /\ P[k + 1] = e
             /\ \A n \in k + 1 .. Len(W) : P[n + 1] = W[n]
<1>2. PutIn(W, k, e) \in Seq(X) /\ Len(PutIn(W, k, e)) = Len(W) + 1
  BY PutInIs
<1>3. (\A n \in 1 .. k : PutIn(W, k, e)[n] = W[n]) /\ PutIn(W, k, e)[k + 1] = e
  BY PutInIs
<1>4. \A n \in k + 1 .. Len(W) : PutIn(W, k, e)[n + 1] = W[n]
  <2> TAKE n \in k + 1 .. Len(W)
  <2>1. n + 1 \in 1 .. Len(W) + 1 /\ ~(n + 1 <= k) /\ n + 1 # k + 1 /\ n + 1 - 1 = n
    OBVIOUS
  <2> QED
    BY <2>1 DEF PutIn
<1> QED
  BY <1>2, <1>3, <1>4

(* The cells of a frame from the border on go with what they are of.        *)
SplitCell(x, frame, boundary, to) ==
  IF x.frame = frame /\ x.offset >= boundary
  THEN [frame |-> to, offset |-> x.offset - boundary + FRAME_HEADER_LEN] ELSE x

CutWith(G, c, S, W, i, b, new) ==
  LET d == PutIn(c, i, new)
      T == PutIn(S, i, b)
  IN  /\ IsLaid(G, d, T, W)
      /\ Len(d) = Len(c) + 1 /\ d[i] = c[i] /\ d[i + 1] = new
      /\ T[i] = S[i] /\ T[i + 1] = b /\ T[i + 2] = S[i + 1]
      /\ \A x, m, st : StandsAt(c, S, W, x, m, st) =>
           StandsAt(d, T, W, SplitCell(x, c[i], BorderOf(S, W, i, b), new), m, st)
      /\ b = S[i + 1] => \A x, m, st : StandsAt(c, S, W, x, m, st) => StandsAt(d, T, W, x, m, st)
LEMMA SplitLaid ==
  ASSUME NEW F, NEW c, NEW S, NEW W, IsLaid(F, c, S, W),
         NEW i \in 1 .. Len(c), NEW b \in S[i] .. S[i + 1],
         NEW G, NEW new, new \notin DOMAIN F, new \in DOMAIN G, Others(F, G, {c[i]}),
         G[c[i]].next = new, G[new].next = F[c[i]].next,
         IsPart(G[c[i]].entries, W, S[i], b), IsPart(G[new].entries, W, b, S[i + 1])
  PROVE  CutWith(G, c, S, W, i, b, new)
<1> DEFINE N == Len(c)
           d == PutIn(c, i, new)
           T == PutIn(S, i, b)
           at == BorderOf(S, W, i, b)
<1>1. /\ N \in Nat /\ W \in Seq(Entries) /\ i \in 1 .. N
      /\ \A n \in 1 .. N + 1 : S[n] \in Nat
      /\ \A n \in 1 .. N : S[n] <= S[n + 1] /\ n + 1 \in 1 .. N + 1 /\ n \in 1 .. N + 1
  BY LaidIs
<1>2. /\ S \in Seq(Nat) /\ Len(S) = N + 1 /\ S[1] = 0 /\ S[N + 1] = Len(W)
      /\ \A n \in 1 .. Len(W) : IsEntry(W[n])
  BY DEF IsLaid
<1>3. /\ b \in Nat /\ S[i] <= b /\ b <= S[i + 1] /\ S[i] \in Nat /\ S[i + 1] \in Nat
      /\ i \in Nat /\ i >= 1 /\ i <= N
  BY <1>1
<1>4. /\ d \in Seq(DOMAIN G) /\ Len(d) = N + 1
      /\ \A n \in 1 .. i : d[n] = c[n]
      /\ d[i + 1] = new
      /\ \A n \in i + 1 .. N : d[n + 1] = c[n]
  <2> DEFINE X == DOMAIN G
  <2>1. c \in Seq(X)
    <3>1. c \in Seq(DOMAIN F) /\ DOMAIN F \subseteq X
      BY DEF IsLaid, Others
    <3> QED
      BY <3>1
  <2>2. i \in 0 .. Len(c) /\ new \in X
    BY <1>3
  <2> HIDE DEF X, N
  <2>3. PutIn(c, i, new) \in Seq(X) /\ Len(PutIn(c, i, new)) = Len(c) + 1
    BY <2>1, <2>2, PutInPlaces
  <2>4. (\A n \in 1 .. i : PutIn(c, i, new)[n] = c[n]) /\ PutIn(c, i, new)[i + 1] = new
    BY <2>1, <2>2, PutInPlaces
  <2>5. \A n \in i + 1 .. Len(c) : PutIn(c, i, new)[n + 1] = c[n]
    BY <2>1, <2>2, PutInPlaces
  <2> QED
    BY <2>3, <2>4, <2>5 DEF X, N
<1>5. /\ T \in Seq(Nat) /\ Len(T) = N + 2
      /\ \A n \in 1 .. i : T[n] = S[n]
      /\ T[i + 1] = b
      /\ \A n \in i + 1 .. N + 1 : T[n + 1] = S[n]
  <2> DEFINE X == Nat
  <2>1. i \in 0 .. Len(S) /\ S \in Seq(X) /\ b \in X
    BY <1>1, <1>2, <1>3
  <2> HIDE DEF X, N
  <2>2. PutIn(S, i, b) \in Seq(X) /\ Len(PutIn(S, i, b)) = Len(S) + 1
    BY <2>1, PutInPlaces
  <2>3. (\A n \in 1 .. i : PutIn(S, i, b)[n] = S[n]) /\ PutIn(S, i, b)[i + 1] = b
    BY <2>1, PutInPlaces
  <2>4. \A n \in i + 1 .. Len(S) : PutIn(S, i, b)[n + 1] = S[n]
    BY <2>1, PutInPlaces
  <2>5. Len(S) = N + 1 /\ Len(S) + 1 = N + 2
    BY <1>1, <1>2
  <2> HIDE DEF T
  <2>6. T = PutIn(S, i, b)
    BY DEF T
  <2> QED
    BY <2>2, <2>3, <2>4, <2>5, <2>6 DEF X
<1> HIDE DEF N, d, T, at
<1>6. /\ i + 1 \in i + 1 .. N + 1 /\ i + 1 \in 1 .. N + 1 /\ i \in 1 .. N + 1 /\ i \in 1 .. i
      /\ i + 1 + 1 = i + 2 /\ N + 1 \in Nat
  BY <1>1, <1>3
<1>7. T[i] = S[i] /\ T[i + 2] = S[i + 1] /\ d[i] = c[i]
  BY <1>4, <1>5, <1>6
<1>8. /\ \A n \in 1 .. N : c[n] \in DOMAIN F /\ c[n] # new
      /\ \A n \in 1 .. N : n # i => c[n] # c[i] /\ G[c[n]] = F[c[n]]
      /\ \A n \in 1 .. N : IsPart(F[c[n]].entries, W, S[n], S[n + 1]) /\ F[c[n]].next = NextIn(c, n)
      /\ \A n, m \in 1 .. N : c[n] = c[m] => n = m
  <2>1. \A n \in 1 .. Len(c) : /\ c[n] \in DOMAIN F
                              /\ F[c[n]].next = NextIn(c, n)
                              /\ IsPart(F[c[n]].entries, W, S[n], S[n + 1])
    BY FramesOfLaid
  <2>2. \A n, m \in 1 .. Len(c) : c[n] = c[m] => n = m
    BY DEF IsLaid
  <2>3. \A n \in 1 .. N : n # i => c[n] # c[i]
    BY <1>1, <2>2 DEF N
  <2> QED
    BY <2>1, <2>2, <2>3 DEF Others, N
(* What stands before the cut, and what stands behind it.                  *)
<1>9. ASSUME NEW j \in 1 .. N + 1
      PROVE  \/ j < i /\ j \in 1 .. N /\ d[j] = c[j] /\ d[j + 1] = c[j + 1] /\ T[j] = S[j] /\ T[j + 1] = S[j + 1]
             \/ j = i
             \/ j = i + 1
             \/ /\ j > i + 1 /\ j - 1 \in 1 .. N /\ j - 1 > i /\ d[j] = c[j - 1]
                /\ T[j] = S[j - 1] /\ T[j + 1] = S[j - 1 + 1]
                /\ j - 1 < N => d[j + 1] = c[j - 1 + 1]
  <2>1. CASE j < i
    <3>1. j \in 1 .. i /\ j + 1 \in 1 .. i /\ j \in 1 .. N
      BY <1>1, <1>3, <2>1
    <3> QED
      BY <1>4, <1>5, <2>1, <3>1
  <2>2. CASE j > i + 1
    <3>1. /\ j - 1 \in i + 1 .. N /\ j \in i + 1 .. N + 1 /\ j - 1 + 1 = j /\ j - 1 \in 1 .. N
          /\ j - 1 > i /\ j - 1 \in i + 1 .. N + 1 /\ (j - 1 < N => j \in i + 1 .. N)
      BY <1>1, <1>3, <2>2
    <3>2. d[j - 1 + 1] = c[j - 1] /\ T[j - 1 + 1] = S[j - 1] /\ T[j + 1] = S[j]
      BY <1>4, <1>5, <3>1
    <3>3. j - 1 < N => d[j + 1] = c[j]
      BY <1>4, <3>1
    <3> QED
      BY <2>2, <3>1, <3>2, <3>3
  <2> QED
    BY <1>1, <1>3, <2>1, <2>2
<1>10. ASSUME NEW j \in 1 .. N + 1
       PROVE  /\ T[j] <= T[j + 1]
              /\ IsPart(G[d[j]].entries, W, T[j], T[j + 1])
              /\ G[d[j]].next = NextIn(d, j)
  <2>1. CASE j < i
    <3>1. j \in 1 .. N /\ d[j] = c[j] /\ d[j + 1] = c[j + 1] /\ T[j] = S[j] /\ T[j + 1] = S[j + 1]
      BY <1>3, <1>9, <2>1
    <3>2. j # i /\ j # N /\ j # N + 1
      BY <1>1, <1>3, <2>1
    <3>3. NextIn(c, j) = NextIn(d, j)
      BY <1>4, <3>1, <3>2 DEF NextIn, N
    <3> QED
      BY SMTT(30), <1>1, <1>8, <3>1, <3>2, <3>3
  <2>2. CASE j = i
    <3>1. i # N + 1
      BY <1>1, <1>3
    <3>2. NextIn(d, i) = new
      BY <1>4, <3>1 DEF NextIn
    <3> QED
      BY <1>3, <1>5, <1>7, <2>2, <3>2
  <2>3. CASE j = i + 1
    <3>1. F[c[i]].next = NextIn(c, i)
      BY <1>1, <1>8
    <3>2. NextIn(d, i + 1) = NextIn(c, i)
      <4>1. CASE i = N
        BY <1>4, <4>1 DEF NextIn, N
      <4>2. CASE i # N
        <5>1. i + 1 \in i + 1 .. N /\ i + 1 # N + 1
          BY <1>1, <1>3, <4>2
        <5> QED
          BY <1>4, <4>2, <5>1 DEF NextIn, N
      <4> QED
        BY <4>1, <4>2
    <3> QED
      BY <1>3, <1>4, <1>5, <1>6, <1>7, <2>3, <3>1, <3>2
  <2>4. CASE j > i + 1
    <3>1. /\ j - 1 \in 1 .. N /\ j - 1 > i /\ d[j] = c[j - 1]
          /\ T[j] = S[j - 1] /\ T[j + 1] = S[j - 1 + 1]
          /\ j - 1 < N => d[j + 1] = c[j - 1 + 1]
      BY <1>3, <1>9, <2>4
    <3>9. j \in Nat /\ j - 1 <= N
      BY <1>1
    <3>2. j - 1 # i /\ (j - 1 = N <=> j = N + 1) /\ (j - 1 # N => j - 1 < N)
      <4>1. j \in Int /\ i \in Int /\ N \in Int /\ j > i + 1 /\ j - 1 <= N
        BY <1>1, <2>4, <3>9
      <4> QED
        BY <4>1
    <3>3. NextIn(c, j - 1) = NextIn(d, j)
      BY <1>4, <3>1, <3>2 DEF NextIn, N
    <3> QED
      BY SMTT(30), <1>1, <1>8, <3>1, <3>2, <3>3
  <2> QED
    BY <1>1, <1>3, <2>1, <2>2, <2>3, <2>4
<1>11. \A j, l \in 1 .. N + 1 : d[j] = d[l] => j = l
  <2> DEFINE from(j) == IF j <= i THEN j ELSE j - 1
  <2>1. \A j \in 1 .. N + 1 : j # i + 1 => from(j) \in 1 .. N /\ d[j] = c[from(j)]
    <3> TAKE j \in 1 .. N + 1
    <3> HAVE j # i + 1
    <3>1. CASE j <= i
      <4>1. j \in 1 .. i /\ j \in 1 .. N
        BY <1>1, <1>3, <3>1
      <4> QED
        BY <1>4, <3>1, <4>1
    <3>2. CASE ~(j <= i)
      <4>1. j - 1 \in i + 1 .. N /\ j - 1 + 1 = j /\ j - 1 \in 1 .. N
        BY <1>1, <1>3, <3>2
      <4> QED
        BY <1>4, <3>2, <4>1
    <3> QED
      BY <3>1, <3>2
  <2>2. \A j, l \in 1 .. N + 1 : j # i + 1 /\ l # i + 1 /\ from(j) = from(l) => j = l
    <3> TAKE j, l \in 1 .. N + 1
    <3> HAVE j # i + 1 /\ l # i + 1 /\ from(j) = from(l)
    <3>1. j \in Nat /\ l \in Nat
      BY <1>1
    <3>2. (j <= i \/ j > i + 1) /\ (l <= i \/ l > i + 1)
      BY <1>3, <3>1
    <3> QED
      BY <1>3, <3>1, <3>2
  <2> TAKE j, l \in 1 .. N + 1
  <2> HAVE d[j] = d[l]
  <2> HIDE DEF from
  <2>3. CASE j = i + 1
    <3>1. l # i + 1 => d[l] # new
      BY <1>8, <2>1
    <3>2. d[j] = new
      BY <1>4, <2>3
    <3> QED
      BY <2>3, <3>1, <3>2
  <2>4. CASE l = i + 1
    <3>1. j # i + 1 => d[j] # new
      BY <1>8, <2>1
    <3>2. d[l] = new
      BY <1>4, <2>4
    <3> QED
      BY <2>4, <3>1, <3>2
  <2>5. CASE j # i + 1 /\ l # i + 1
    <3>1. /\ from(j) \in 1 .. N /\ d[j] = c[from(j)]
          /\ from(l) \in 1 .. N /\ d[l] = c[from(l)]
      BY <2>1, <2>5
    <3>2. from(j) = from(l)
      BY <1>8, <3>1
    <3> QED
      BY <2>2, <2>5, <3>2
  <2> QED
    BY <2>3, <2>4, <2>5
<1>12. IsLaid(G, d, T, W)
  <2>1. T[1] = 0 /\ T[N + 2] = Len(W)
    <3>1. 1 \in 1 .. i /\ N + 1 \in i + 1 .. N + 1 /\ N + 1 + 1 = N + 2
      BY <1>1, <1>3
    <3> QED
      BY <1>2, <1>5, <3>1
  <2>2. Len(d) = N + 1 /\ Len(T) = Len(d) + 1 /\ Len(d) + 1 = N + 2
    BY SMTT(30), <1>1, <1>4, <1>5
  <2> QED
    BY <1>1, <1>2, <1>4, <1>5, <1>10, <1>11, <2>1, <2>2 DEF IsLaid
<1>13. ASSUME NEW x, NEW m, NEW st, StandsAt(c, S, W, x, m, st)
       PROVE  /\ StandsAt(d, T, W, SplitCell(x, c[i], at, new), m, st)
              /\ b = S[i + 1] => StandsAt(d, T, W, x, m, st)
  <2> DEFINE y == SplitCell(x, c[i], at, new)
  <2>1. PICK p \in 1 .. N : /\ m \in Nat /\ S[p] <= m /\ m <= S[p + 1]
                            /\ st => m < S[p + 1]
                            /\ x = PlaceOf(c, S, W, p, m)
    BY <1>13 DEF StandsAt, N
  <2>0. m \in Nat /\ S[p] <= m /\ m <= S[p + 1] /\ p \in Nat /\ x.frame = c[p]
    BY <1>1, <2>1 DEF PlaceOf
  <2>2. ASSUME NEW z, NEW l \in 1 .. N + 1, T[l] <= m, m <= T[l + 1], st => m < T[l + 1],
               z = PlaceOf(d, T, W, l, m)
        PROVE  StandsAt(d, T, W, z, m, st)
    BY <1>4, <2>0, <2>2 DEF StandsAt
  <2>3. ASSUME p # i PROVE y = x
    <3>1. c[p] # c[i]
      BY <1>8, <2>3
    <3> QED
      BY <2>0, <3>1 DEF SplitCell
  <2>4. CASE p < i
    <3>1. p \in 1 .. N + 1 /\ p # i
      BY <1>1, <1>3, <2>0, <2>4
    <3>2. d[p] = c[p] /\ T[p] = S[p] /\ T[p + 1] = S[p + 1]
      BY <1>3, <1>9, <2>0, <2>4, <3>1
    <3>3. x = PlaceOf(d, T, W, p, m) /\ y = x
      BY <2>1, <2>3, <3>1, <3>2 DEF PlaceOf, BorderOf
    <3> QED
      BY <2>1, <2>2, <3>1, <3>2, <3>3
  <2>5. CASE p > i
    <3>1. p + 1 \in 1 .. N + 1 /\ p # i /\ p + 1 > i + 1 /\ p + 1 - 1 = p
      BY SMTT(30), <1>1, <1>3, <2>0, <2>5
    <3>2. d[p + 1] = c[p] /\ T[p + 1] = S[p] /\ T[p + 1 + 1] = S[p + 1]
      <4>0. p \in Nat /\ p <= N /\ i \in Nat /\ N \in Nat /\ i < p
        BY <1>1, <1>3, <2>0, <2>5
      <4>1. p \in i + 1 .. N /\ p \in i + 1 .. N + 1 /\ p + 1 \in i + 1 .. N + 1
        BY <4>0
      <4> QED
        BY <1>4, <1>5, <4>1
    <3>3. x = PlaceOf(d, T, W, p + 1, m) /\ y = x
      BY <2>1, <2>3, <3>1, <3>2 DEF PlaceOf, BorderOf
    <3> QED
      BY <2>1, <2>2, <3>1, <3>2, <3>3
  <2>6. CASE p = i
    <3>1. /\ x.frame = c[i] /\ x.offset = BorderOf(S, W, i, m) /\ BorderOf(S, W, i, m) \in Int
          /\ at \in Int /\ x = PlaceOf(c, S, W, i, m)
          /\ (m < b => BorderOf(S, W, i, m) < at)
          /\ (b < m => at < BorderOf(S, W, i, m))
      <4>1. m \in S[i] .. S[i + 1] /\ i \in 1 .. Len(c) /\ b \in S[i] .. S[i + 1]
        BY <1>3, <2>0, <2>6
      <4>2. /\ BorderOf(S, W, i, m) \in Int
            /\ (m < b => BorderOf(S, W, i, m) < BorderOf(S, W, i, b))
        BY <4>1, BordersOfLaid
      <4>3. /\ BorderOf(S, W, i, b) \in Int
            /\ (b < m => BorderOf(S, W, i, b) < BorderOf(S, W, i, m))
        BY <4>1, BordersOfLaid
      <4> QED
        BY <2>1, <2>6, <4>1, <4>2, <4>3 DEF PlaceOf, at
    <3>2. x = PlaceOf(d, T, W, i, m)
      BY <1>7, <3>1 DEF PlaceOf, BorderOf
    <3>3. CASE m < b
      <4>1. y = x
        BY <3>1, <3>3 DEF SplitCell
      <4>2. T[i] <= m /\ m <= T[i + 1] /\ (st => m < T[i + 1])
        BY <1>3, <1>5, <1>7, <2>0, <2>6, <3>3
      <4> QED
        BY <1>6, <2>2, <3>2, <4>1, <4>2
    <3>4. CASE m >= b
      <4>1. y = [frame |-> new, offset |-> BorderOf(S, W, i, m) - at + FRAME_HEADER_LEN]
        <5>1. BorderOf(S, W, i, m) >= at
          <6>1. m = b \/ b < m
            BY <1>3, <2>0, <3>4
          <6>2. m = b => BorderOf(S, W, i, m) = at
            BY DEF at
          <6> QED
            BY <3>1, <6>1, <6>2
        <5> QED
          BY <3>1, <5>1 DEF SplitCell
      <4>2. /\ LenOf(W, m) \in Nat /\ LenOf(W, b) \in Nat /\ LenOf(W, S[i]) \in Nat
        <5>1. m \in S[i] .. S[i + 1] /\ i \in 1 .. Len(c) /\ b \in S[i] .. S[i + 1]
          BY <1>3, <2>0, <2>6
        <5>2. LenOf(W, m) \in Nat /\ LenOf(W, S[i]) \in Nat
          BY <5>1, BordersOfLaid
        <5>3. LenOf(W, b) \in Nat
          BY <5>1, BordersOfLaid
        <5> QED
          BY <5>2, <5>3
      <4>3. BorderOf(T, W, i + 1, m) = BorderOf(S, W, i, m) - at + FRAME_HEADER_LEN
        BY SMTT(30), <1>5, <4>2, FrameAssumption DEF BorderOf, at
      <4>4. y = PlaceOf(d, T, W, i + 1, m)
        BY <1>4, <4>1, <4>3 DEF PlaceOf
      <4>5. T[i + 1] <= m /\ m <= T[i + 1 + 1] /\ (st => m < T[i + 1 + 1])
        BY <1>5, <1>6, <1>7, <2>1, <2>6, <3>4
      <4>6. StandsAt(d, T, W, y, m, st)
        BY <1>6, <2>2, <4>4, <4>5
      <4>7. ASSUME b = S[i + 1] PROVE StandsAt(d, T, W, x, m, st)
        <5>1. T[i] <= m /\ m <= T[i + 1] /\ (st => m < T[i + 1])
          BY <1>5, <1>7, <2>1, <2>6, <4>7
        <5> QED
          BY <1>6, <2>2, <3>2, <5>1
      <4> QED
        BY <4>6, <4>7
    <3>5. m < b \/ m >= b
      BY <1>3, <2>0
    <3>6. m < b => y = x
      BY <3>1 DEF SplitCell
    <3> QED
      BY <3>3, <3>4, <3>5, <3>6
  <2> QED
    BY <1>3, <2>0, <2>4, <2>5, <2>6
<1> QED
  BY <1>4, <1>5, <1>7, <1>12, <1>13 DEF d, T, at, N, CutWith

-------------------------------------------------------------------------------
(* What is behind a border of a frame goes to the start of the next one.    *)
NextCell(x, frame, boundary, to, by) ==
  IF x.frame = frame /\ x.offset >= boundary
  THEN [frame |-> to, offset |-> x.offset - boundary + FRAME_HEADER_LEN]
  ELSE IF x.frame = to THEN [x EXCEPT !.offset = @ + by] ELSE x

NextWith(G, c, S, W, i, b, by) ==
  LET T == [S EXCEPT ![i + 1] = b]
  IN  /\ IsLaid(G, c, T, W)
      /\ T[i] = S[i] /\ T[i + 1] = b /\ T[i + 2] = S[i + 2]
      /\ \A x, m, st : StandsAt(c, S, W, x, m, st) =>
           StandsAt(c, T, W, NextCell(x, c[i], BorderOf(S, W, i, b), c[i + 1], by), m, st)
LEMMA NextLaid ==
  ASSUME NEW F, NEW c, NEW S, NEW W, IsLaid(F, c, S, W),
         NEW i \in 1 .. Len(c), i # Len(c), NEW b \in S[i] .. S[i + 1],
         NEW G, Others(F, G, {c[i], c[i + 1]}),
         G[c[i]].next = F[c[i]].next, G[c[i + 1]].next = F[c[i + 1]].next,
         IsPart(G[c[i]].entries, W, S[i], b), IsPart(G[c[i + 1]].entries, W, b, S[i + 2]),
         NEW by, by = LenOf(W, S[i + 1]) - LenOf(W, b)
  PROVE  NextWith(G, c, S, W, i, b, by)
<1> DEFINE N == Len(c)
           T == [S EXCEPT ![i + 1] = b]
           at == BorderOf(S, W, i, b)
<1>1. /\ N \in Nat /\ W \in Seq(Entries) /\ i \in 1 .. N
      /\ \A n \in 1 .. N + 1 : S[n] \in Nat
      /\ \A n \in 1 .. N : S[n] <= S[n + 1] /\ n + 1 \in 1 .. N + 1 /\ n \in 1 .. N + 1
  BY LaidIs
<1>2. /\ S \in Seq(Nat) /\ Len(S) = N + 1 /\ S[1] = 0 /\ S[N + 1] = Len(W)
      /\ \A n \in 1 .. Len(W) : IsEntry(W[n])
      /\ \A n, m \in 1 .. N : c[n] = c[m] => n = m
  BY DEF IsLaid
<1>3. /\ b \in Nat /\ S[i] <= b /\ b <= S[i + 1] /\ S[i] \in Nat /\ S[i + 1] \in Nat
      /\ i \in Nat /\ i >= 1 /\ i < N /\ i + 1 \in 1 .. N /\ i + 2 \in 1 .. N + 1 /\ i + 1 + 1 = i + 2
      /\ i + 1 \in 1 .. N + 1 /\ i \in 1 .. N + 1
  BY <1>1
<1>4. /\ T \in Seq(Nat) /\ Len(T) = N + 1 /\ T[i + 1] = b
      /\ \A n \in 1 .. N + 1 : n # i + 1 => T[n] = S[n]
  BY <1>1, <1>2, <1>3
<1> HIDE DEF N, T, at
<1>5. T[i] = S[i] /\ T[i + 2] = S[i + 2] /\ S[i + 1] <= S[i + 2] /\ S[i + 2] \in Nat
  <2>1. i # i + 1 /\ i + 2 # i + 1
    BY <1>3
  <2>2. S[i + 1] <= S[i + 1 + 1]
    BY <1>1, <1>3
  <2> QED
    BY <1>1, <1>3, <1>4, <2>1, <2>2
<1>6. ASSUME NEW n \in 1 .. N
      PROVE  /\ c[n] \in DOMAIN F /\ F[c[n]].next = NextIn(c, n)
             /\ IsPart(F[c[n]].entries, W, S[n], S[n + 1])
             /\ n # i /\ n # i + 1 => c[n] # c[i] /\ c[n] # c[i + 1] /\ G[c[n]] = F[c[n]]
  <2>1. /\ c[n] \in DOMAIN F /\ F[c[n]].next = NextIn(c, n)
        /\ IsPart(F[c[n]].entries, W, S[n], S[n + 1])
    BY FramesOfLaid DEF N
  <2>2. n # i /\ n # i + 1 => c[n] # c[i] /\ c[n] # c[i + 1]
    BY <1>1, <1>2, <1>3
  <2> QED
    BY <2>1, <2>2 DEF Others
<1>7. ASSUME NEW n \in 1 .. N
      PROVE  /\ T[n] <= T[n + 1]
             /\ IsPart(G[c[n]].entries, W, T[n], T[n + 1])
             /\ G[c[n]].next = NextIn(c, n)
  <2>1. CASE n = i
    BY <1>1, <1>3, <1>4, <1>5, <1>6, <2>1
  <2>2. CASE n = i + 1
    <3>1. T[n] <= T[n + 1]
      BY <1>3, <1>4, <1>5, <2>2
    <3>2. IsPart(G[c[n]].entries, W, T[n], T[n + 1])
      BY <1>3, <1>4, <1>5, <2>2
    <3> QED
      BY <1>3, <1>6, <2>2, <3>1, <3>2
  <2>3. CASE n # i /\ n # i + 1
    <3>1. n \in 1 .. N + 1 /\ n + 1 \in 1 .. N + 1 /\ n + 1 # i + 1
      BY <1>1, <1>3, <2>3
    <3> QED
      BY <1>1, <1>4, <1>6, <2>3, <3>1
  <2> QED
    BY <2>1, <2>2, <2>3
<1>8. IsLaid(G, c, T, W)
  <2>1. c \in Seq(DOMAIN G)
    <3>1. c \in Seq(DOMAIN F) /\ DOMAIN F \subseteq DOMAIN G
      BY DEF IsLaid, Others
    <3> QED
      BY <3>1
  <2>2. T[1] = 0 /\ T[N + 1] = Len(W)
    <3>1. 1 \in 1 .. N + 1 /\ N + 1 \in 1 .. N + 1 /\ 1 # i + 1 /\ N + 1 # i + 1
      BY <1>1, <1>3
    <3> QED
      BY <1>2, <1>4, <3>1
  <2> QED
    BY <1>1, <1>2, <1>4, <1>7, <2>1, <2>2 DEF IsLaid, N
<1>9. ASSUME NEW x, NEW m, NEW st, StandsAt(c, S, W, x, m, st)
      PROVE  StandsAt(c, T, W, NextCell(x, c[i], at, c[i + 1], by), m, st)
  <2> DEFINE y == NextCell(x, c[i], at, c[i + 1], by)
  <2>1. PICK p \in 1 .. N : /\ m \in Nat /\ S[p] <= m /\ m <= S[p + 1]
                            /\ st => m < S[p + 1]
                            /\ x = PlaceOf(c, S, W, p, m)
    BY <1>9 DEF StandsAt, N
  <2>0. m \in Nat /\ S[p] <= m /\ m <= S[p + 1] /\ p \in Nat /\ x.frame = c[p]
    BY <1>1, <2>1 DEF PlaceOf
  <2>2. ASSUME NEW z, NEW l \in 1 .. N, T[l] <= m, m <= T[l + 1], st => m < T[l + 1],
               z = PlaceOf(c, T, W, l, m)
        PROVE  StandsAt(c, T, W, z, m, st)
    BY <2>0, <2>2 DEF StandsAt, N
  <2>4. CASE p # i /\ p # i + 1
    <3>1. p \in 1 .. N + 1 /\ p + 1 \in 1 .. N + 1 /\ p + 1 # i + 1
      BY <1>1, <1>3, <2>0, <2>4
    <3>2. T[p] = S[p] /\ T[p + 1] = S[p + 1]
      BY <1>4, <2>4, <3>1
    <3>3. y = x
      <4>1. c[p] # c[i] /\ c[p] # c[i + 1]
        BY <1>6, <2>4
      <4> QED
        BY <2>0, <4>1 DEF NextCell
    <3>4. x = PlaceOf(c, T, W, p, m)
      BY <2>1, <3>2 DEF PlaceOf, BorderOf
    <3> QED
      BY <2>1, <2>2, <3>2, <3>3, <3>4
  <2>5. CASE p = i + 1
    <3>1. c[i + 1] # c[i]
      BY <1>1, <1>2, <1>3
    <3>2. x.frame = c[i + 1] /\ x.offset = BorderOf(S, W, i + 1, m)
      BY <2>1, <2>5 DEF PlaceOf
    <3>3. y = [frame |-> c[i + 1], offset |-> BorderOf(S, W, i + 1, m) + by]
      BY <2>1, <2>5, <3>1, <3>2 DEF NextCell, PlaceOf
    <3>4. LenOf(W, m) \in Nat /\ LenOf(W, S[i + 1]) \in Nat /\ LenOf(W, b) \in Nat
      <4>1. m \in S[i + 1] .. S[i + 1 + 1] /\ i + 1 \in 1 .. Len(c)
        BY <1>1, <1>3, <1>5, <2>0, <2>5 DEF N
      <4>2. LenOf(W, m) \in Nat /\ LenOf(W, S[i + 1]) \in Nat
        BY <4>1, BordersOfLaid
      <4>3. LenOf(W, b) \in Nat
        BY BordersOfLaid
      <4> QED
        BY <4>2, <4>3
    <3>5. BorderOf(T, W, i + 1, m) = BorderOf(S, W, i + 1, m) + by
      BY <1>4, <3>4, FrameAssumption DEF BorderOf
    <3>6. y = PlaceOf(c, T, W, i + 1, m)
      BY <3>3, <3>5 DEF PlaceOf
    <3>7. T[i + 1] <= m /\ m <= T[i + 1 + 1] /\ (st => m < T[i + 1 + 1])
      <4>1. /\ m \in Nat /\ S[i + 1] <= m /\ m <= S[i + 2] /\ S[i + 1 + 1] = S[i + 2] /\ T[i + 1 + 1] = S[i + 2]
        BY <1>3, <1>5, <2>0, <2>5
      <4>2. T[i + 1] <= m
        BY <1>3, <1>4, <4>1
      <4>3. st => m < S[i + 2]
        BY <2>1, <2>5, <4>1
      <4> QED
        BY <4>1, <4>2, <4>3
    <3> QED
      BY <1>3, <2>2, <3>6, <3>7
  <2>6. CASE p = i
    <3>1. /\ x.frame = c[i] /\ x.offset = BorderOf(S, W, i, m) /\ BorderOf(S, W, i, m) \in Int
          /\ at \in Int /\ x = PlaceOf(c, S, W, i, m)
          /\ (m < b => BorderOf(S, W, i, m) < at)
          /\ (b < m => at < BorderOf(S, W, i, m))
      <4>1. m \in S[i] .. S[i + 1] /\ i \in 1 .. Len(c) /\ b \in S[i] .. S[i + 1]
        BY <1>3, <2>0, <2>6
      <4>2. /\ BorderOf(S, W, i, m) \in Int
            /\ (m < b => BorderOf(S, W, i, m) < BorderOf(S, W, i, b))
        BY <4>1, BordersOfLaid
      <4>3. /\ BorderOf(S, W, i, b) \in Int
            /\ (b < m => BorderOf(S, W, i, b) < BorderOf(S, W, i, m))
        BY <4>1, BordersOfLaid
      <4> QED
        BY <2>1, <2>6, <4>1, <4>2, <4>3 DEF PlaceOf, at
    <3>2. x = PlaceOf(c, T, W, i, m)
      BY <1>5, <3>1 DEF PlaceOf, BorderOf
    <3>3. CASE m < b
      <4>1. y = x
        <5>1. ~(x.offset >= at) /\ c[i] # c[i + 1]
          <6>1. ~(x.offset >= at)
            BY <3>1, <3>3
          <6>2. i # i + 1
            BY <1>3
          <6> QED
            BY <1>1, <1>2, <1>3, <6>1, <6>2
        <5> QED
          BY <3>1, <5>1 DEF NextCell
      <4>2. T[i] <= m /\ m <= T[i + 1] /\ m < T[i + 1]
        <5>1. S[i] <= m /\ m \in Nat
          BY <2>0, <2>6
        <5> QED
          BY <1>3, <1>4, <1>5, <3>3, <5>1
      <4> QED
        BY <1>1, <2>2, <3>2, <4>1, <4>2
    <3>4. CASE m >= b
      <4>1. y = [frame |-> c[i + 1], offset |-> BorderOf(S, W, i, m) - at + FRAME_HEADER_LEN]
        <5>1. BorderOf(S, W, i, m) >= at
          <6>1. m = b \/ b < m
            BY <1>3, <2>0, <3>4
          <6>2. m = b => BorderOf(S, W, i, m) = at
            BY DEF at
          <6> QED
            BY <3>1, <6>1, <6>2
        <5> QED
          BY <3>1, <5>1 DEF NextCell
      <4>2. /\ LenOf(W, m) \in Nat /\ LenOf(W, b) \in Nat /\ LenOf(W, S[i]) \in Nat
        <5>1. m \in S[i] .. S[i + 1] /\ i \in 1 .. Len(c) /\ b \in S[i] .. S[i + 1]
          BY <1>3, <2>0, <2>6
        <5>2. LenOf(W, m) \in Nat /\ LenOf(W, S[i]) \in Nat
          BY <5>1, BordersOfLaid
        <5>3. LenOf(W, b) \in Nat
          BY <5>1, BordersOfLaid
        <5> QED
          BY <5>2, <5>3
      <4>3. BorderOf(T, W, i + 1, m) = BorderOf(S, W, i, m) - at + FRAME_HEADER_LEN
        BY SMTT(30), <1>4, <4>2, FrameAssumption DEF BorderOf, at
      <4>4. y = PlaceOf(c, T, W, i + 1, m)
        BY <4>1, <4>3 DEF PlaceOf
      <4>5. T[i + 1] <= m /\ m <= T[i + 1 + 1] /\ (st => m < T[i + 1 + 1])
        <5>1. m \in Nat /\ m <= S[i + 1] /\ (st => m < S[i + 1]) /\ T[i + 1 + 1] = S[i + 2]
          BY <1>3, <1>5, <2>0, <2>1, <2>6
        <5>2. T[i + 1] <= m /\ m <= S[i + 2] /\ (m < S[i + 1] => m < S[i + 2])
          BY SMTT(30), <1>3, <1>4, <1>5, <3>4, <5>1
        <5> QED
          BY <5>1, <5>2
      <4> QED
        BY <1>3, <2>2, <4>4, <4>5
    <3>5. m < b \/ m >= b
      BY <1>3, <2>0
    <3> QED
      BY <3>3, <3>4, <3>5
  <2> QED
    BY <2>4, <2>5, <2>6
<1> QED
  BY <1>4, <1>5, <1>8, <1>9 DEF T, at, NextWith

(* The first entry of an hour.                                             *)
LEMMA FirstLaid ==
  ASSUME NEW F, NEW S, NEW W, IsLaid(F, <<>>, S, W),
         NEW e \in Entries, IsEntry(e), NEW G, NEW new \in DOMAIN G,
         G[new].next = NoFrame, G[new].entries = <<e>>
  PROVE  /\ IsLaid(G, <<new>>, <<0, 1>>, <<e>>)
         /\ W = <<>> /\ PutIn(W, 0, e) = <<e>>
<1>1. W = <<>>
  <2>1. S[1] = 0 /\ S[Len(<<>>) + 1] = Len(W) /\ W \in Seq(Entries)
    BY DEF IsLaid
  <2>2. Len(<<>>) + 1 = 1
    OBVIOUS
  <2>3. Len(W) = 0
    BY <2>1, <2>2
  <2> QED
    BY <2>1, <2>3
<1>2. PutIn(W, 0, e) = <<e>>
  <2>1. Len(W) = 0 /\ 1 .. 0 + 1 = {1}
    BY <1>1
  <2>2. PutIn(W, 0, e) = [n \in {1} |-> e]
    BY <2>1 DEF PutIn
  <2> QED
    BY <2>2
<1> DEFINE c == <<new>>
           T == <<0, 1>>
           V == <<e>>
<1>3. /\ c \in Seq(DOMAIN G) /\ Len(c) = 1 /\ c[1] = new
      /\ T \in Seq(Nat) /\ Len(T) = 2 /\ T[1] = 0 /\ T[2] = 1
      /\ V \in Seq(Entries) /\ Len(V) = 1 /\ V[1] = e
  OBVIOUS
<1> HIDE DEF c, T, V
<1>4. 1 + 1 = 2 /\ 1 .. 1 = {1} /\ 0 + 1 = 1 /\ 1 - 0 = 1 /\ 0 <= 1
  OBVIOUS
<1>5. IsPart(G[new].entries, V, 0, 1)
  <2>1. G[new].entries = V
    BY DEF V
  <2> QED
    BY <1>3, <1>4, <2>1 DEF IsPart
<1>6. NextIn(c, 1) = NoFrame
  BY <1>3 DEF NextIn
<1>7. IsLaid(G, c, T, V)
  BY <1>3, <1>4, <1>5, <1>6 DEF IsLaid
<1> QED
  BY <1>1, <1>2, <1>7 DEF c, T, V

-------------------------------------------------------------------------------
(* The frame of a place in a file is the one of that file, at that place.  *)
LEMMA MoreTimes ==
  ASSUME NEW a \in Int, NEW b \in Int, NEW k \in Nat, a < b
  PROVE  a * k + k <= b * k
<1>1. (b - a - 1) * k >= 0
  <2>1. b - a - 1 \in Nat
    OBVIOUS
  <2> DEFINE n == b - a - 1
  <2>2. n \in Nat
    BY <2>1
  <2> HIDE DEF n
  <2>3. n * k >= 0
    BY <2>2
  <2> QED
    BY <2>3 DEF n
<1>2. (b - a - 1) * k = b * k - a * k - k
  OBVIOUS
<1> QED
  BY <1>1, <1>2

LEMMA PlaceInFile ==
  ASSUME NEW a \in Nat, NEW b \in Nat \ {0}, NEW k \in Nat, k < b
  PROVE  (a * b + k) \div b = a /\ (a * b + k) % b = k
<1> DEFINE x == a * b + k
           q == x \div b
           r == x % b
<1>1. x \in Nat /\ x = b * q + r /\ r \in 0 .. b - 1 /\ q \in Int
  OBVIOUS
<1> HIDE DEF q, r
<1>2. q * b + r = a * b + k
  BY <1>1
<1>3. ~(q < a)
  <2> SUFFICES ASSUME q < a PROVE FALSE
    OBVIOUS
  <2>1. q * b + b <= a * b
    BY <1>1, MoreTimes
  <2> QED
    BY <1>1, <1>2, <2>1
<1>4. ~(a < q)
  <2> SUFFICES ASSUME a < q PROVE FALSE
    OBVIOUS
  <2>1. a * b + b <= q * b
    BY <1>1, MoreTimes
  <2> QED
    BY <1>1, <1>2, <2>1
<1>5. q = a
  BY <1>1, <1>3, <1>4
<1>6. r = k
  BY <1>1, <1>2, <1>5
<1> QED
  BY <1>5, <1>6 DEF q, r

-------------------------------------------------------------------------------
(* The frames in memory over the ones of the disk: every frame of the disk *)
(* is changed or was written, every frame is in a file, and the files are  *)
(* as many and as long as they may be.                                     *)
Over(A, B) == [f \in DOMAIN A \union DOMAIN B |-> IF f \in DOMAIN A THEN A[f] ELSE B[f]]
InFiles(files, f) == FileOf(f) \in DOMAIN files /\ IndexIn(f) < files[FileOf(f)].count
Shown(h, d) ==
  \A f \in DOMAIN d.frames : f \notin DOMAIN h.frames =>
    FileOf(f) \in DOMAIN h.files /\ IndexIn(f) < h.files[FileOf(f)].onDisk
FilesFit(files) ==
  Len(files) <= MAX_DATA_FILES /\ \A n \in 1 .. Len(files) : files[n].count <= FramesPerFile
MemoryFits(h, d) ==
  /\ h \in Slots /\ Range(h.dirty) = DOMAIN h.frames
  /\ Shown(h, d) /\ FilesFit(h.files)
  /\ \A f \in DOMAIN h.frames \union DOMAIN d.frames : InFiles(h.files, f)
(* What putting an entry into the frames leaves as it is.                  *)
Beside(h) ==
  [last |-> h.last, counts |-> h.counts, failure |-> h.failure, key |-> h.key,
   process |-> h.process, clean |-> h.clean, rebuilt |-> h.rebuilt,
   keyDirectory |-> h.keyDirectory, keyChanged |-> h.keyChanged,
   processDirectory |-> h.processDirectory, processChanged |-> h.processChanged]

LEMMA FramesShown ==
  ASSUME NEW h, NEW d, d.frames \in FrameMaps, MemoryFits(h, d)
  PROVE  /\ FramesOf(h, d) = Over(h.frames, d.frames)
         /\ FramesOf(h, d) \in FrameMaps
         /\ DOMAIN FramesOf(h, d) = DOMAIN h.frames \union DOMAIN d.frames
<1> DEFINE written == {f \in DOMAIN d.frames : /\ FileOf(f) \in DOMAIN h.files
                                                /\ IndexIn(f) < h.files[FileOf(f)].onDisk}
<1>1. DOMAIN h.frames \union written = DOMAIN h.frames \union DOMAIN d.frames
  BY DEF MemoryFits, Shown
<1>2. FramesOf(h, d) = [f \in DOMAIN h.frames \union written |->
                          IF f \in DOMAIN h.frames THEN h.frames[f] ELSE d.frames[f]]
  BY DEF FramesOf
<1>3. h.frames \in FrameMaps
  BY SlotIs DEF MemoryFits
<1> HIDE DEF written
<1>4. FramesOf(h, d) = Over(h.frames, d.frames)
  BY <1>1, <1>2 DEF Over
<1>5. FramesOf(h, d) \in FrameMaps
  BY <1>3, FramesRead
<1> QED
  BY <1>4, <1>5 DEF Over

(* A frame which is put into memory. *)
LEMMA MarkedParts ==
  ASSUME NEW h \in Slots, NEW frame, NEW f
  PROVE  LET g == mark_dirty(h, frame, f)
         IN  /\ g.frames = Updated(h.frames, frame, f) /\ g.files = h.files
             /\ g.cells = h.cells /\ g.tail = h.tail /\ Beside(g) = Beside(h)
             /\ g.dirty = IF Contains(h.dirty, frame) THEN h.dirty ELSE Append(h.dirty, frame)
BY DEF mark_dirty, Slots, SlotRecords, Beside

LEMMA DirtyWith ==
  ASSUME NEW s \in Seq(Nat), NEW frame \in Nat
  PROVE  Range(IF Contains(s, frame) THEN s ELSE Append(s, frame)) = Range(s) \union {frame}
<1>1. CASE Contains(s, frame)
  BY <1>1 DEF Contains, Range
<1>2. CASE ~Contains(s, frame)
  <2> DEFINE l == Append(s, frame)
  <2>1. /\ DOMAIN l = 1 .. Len(s) + 1 /\ l[Len(s) + 1] = frame /\ Len(s) \in Nat
        /\ \A i \in 1 .. Len(s) : l[i] = s[i] /\ i \in 1 .. Len(s) + 1
        /\ DOMAIN s = 1 .. Len(s)
    OBVIOUS
  <2> HIDE DEF l
  <2>2. \A i \in 1 .. Len(s) + 1 : i \in 1 .. Len(s) \/ i = Len(s) + 1
    BY <2>1
  <2>3. Len(s) + 1 \in 1 .. Len(s) + 1
    BY <2>1
  <2>4. Range(l) = Range(s) \union {frame}
    BY <2>1, <2>2, <2>3 DEF Range
  <2> QED
    BY <1>2, <2>4 DEF l
<1> QED
  BY <1>1, <1>2

LEMMA MarkedFits ==
  ASSUME NEW h, NEW d, d.frames \in FrameMaps, MemoryFits(h, d),
         NEW frame \in Nat, InFiles(h.files, frame), NEW f \in FrameSet
  PROVE  LET g == mark_dirty(h, frame, f)
         IN  /\ MemoryFits(g, d) /\ FramesOf(g, d) = Updated(FramesOf(h, d), frame, f)
             /\ g.files = h.files /\ g.cells = h.cells /\ g.tail = h.tail /\ Beside(g) = Beside(h)
<1> DEFINE g == mark_dirty(h, frame, f)
<1>1. h \in Slots /\ g \in Slots
  BY DirtyIs DEF MemoryFits
<1>2. /\ g.frames = Updated(h.frames, frame, f) /\ g.files = h.files
      /\ g.cells = h.cells /\ g.tail = h.tail /\ Beside(g) = Beside(h)
      /\ g.dirty = IF Contains(h.dirty, frame) THEN h.dirty ELSE Append(h.dirty, frame)
  BY <1>1, MarkedParts
<1>3. h.dirty \in Seq(Nat)
  BY <1>1, SlotIs
<1>4. DOMAIN g.frames = DOMAIN h.frames \union {frame}
  BY <1>2 DEF Updated
<1>5. Range(g.dirty) = DOMAIN g.frames
  <2>1. Range(g.dirty) = Range(h.dirty) \union {frame}
    BY <1>2, <1>3, DirtyWith
  <2> QED
    BY <1>4, <2>1 DEF MemoryFits
<1> HIDE DEF g
<1>6. MemoryFits(g, d)
  BY <1>1, <1>2, <1>4, <1>5 DEF MemoryFits, Shown
<1>7. FramesOf(g, d) = Over(g.frames, d.frames) /\ FramesOf(h, d) = Over(h.frames, d.frames)
  BY <1>6, FramesShown
<1>8. Over(g.frames, d.frames) = Updated(Over(h.frames, d.frames), frame, f)
  <2>1. DOMAIN g.frames \union DOMAIN d.frames = DOMAIN Over(h.frames, d.frames) \union {frame}
    BY <1>4 DEF Over
  <2>2. ASSUME NEW x \in DOMAIN g.frames \union DOMAIN d.frames
        PROVE  (IF x \in DOMAIN g.frames THEN g.frames[x] ELSE d.frames[x])
               = (IF x = frame THEN f ELSE Over(h.frames, d.frames)[x])
    <3>1. x \in DOMAIN g.frames => g.frames[x] = IF x = frame THEN f ELSE h.frames[x]
      BY <1>2, <1>4 DEF Updated
    <3>2. x # frame => x \in DOMAIN h.frames \union DOMAIN d.frames
      BY <1>4
    <3>3. x # frame => Over(h.frames, d.frames)[x]
                        = IF x \in DOMAIN h.frames THEN h.frames[x] ELSE d.frames[x]
      BY <3>2 DEF Over
    <3> QED
      BY <1>4, <3>1, <3>3
  <2> QED
    BY <2>1, <2>2 DEF Over, Updated
<1> QED
  BY <1>2, <1>6, <1>7, <1>8 DEF g

(* Other cells, another tail: the frames are the same. *)
LEMMA FitsWith ==
  ASSUME NEW h, NEW d, d.frames \in FrameMaps, MemoryFits(h, d), NEW g \in Slots,
         g.frames = h.frames, g.dirty = h.dirty, g.files = h.files
  PROVE  MemoryFits(g, d) /\ FramesOf(g, d) = FramesOf(h, d)
<1>1. MemoryFits(g, d)
  BY DEF MemoryFits, Shown
<1> QED
  BY <1>1, FramesShown

(* A frame which is allocated is none there was, and in a file.            *)
LEMMA AllocatedFits ==
  ASSUME NEW h, NEW d, d.frames \in FrameMaps, MemoryFits(h, d), room_for_frames(h) # 0
  PROVE  LET a == allocate_frame(h)
         IN  /\ MemoryFits(a.h, d) /\ FramesOf(a.h, d) = FramesOf(h, d)
             /\ a.frame \in Nat /\ a.frame \notin DOMAIN FramesOf(h, d)
             /\ InFiles(a.h.files, a.frame)
             /\ room_for_frames(h) \in Nat /\ room_for_frames(a.h) = room_for_frames(h) - 1
             /\ a.h.frames = h.frames /\ a.h.cells = h.cells /\ a.h.tail = h.tail
             /\ Beside(a.h) = Beside(h)
             /\ (h.files = <<>> => a.frame = HEAD)
<1> DEFINE last == Len(h.files)
           full == h.files = <<>> \/ h.files[Len(h.files)].count >= FramesPerFile
           none == [count |-> 0, onDisk |-> 0]
           files == IF full THEN Append(h.files, none) ELSE h.files
           n == Len(files)
           grown == [files EXCEPT ![n].count = @ + 1]
           a == allocate_frame(h)
           frame == FirstOf(n) + files[n].count
<1>1. /\ h \in Slots /\ h.files \in Seq(FileCounts) /\ a.h \in Slots /\ a.frame \in Nat
      /\ last <= MAX_DATA_FILES /\ \A i \in 1 .. last : h.files[i].count <= FramesPerFile
      /\ FramesPerFile \in Nat \ {0} /\ MAX_DATA_FILES \in Nat /\ last \in Nat
  BY SlotIs, AllocatedIs, HourFileAssumption DEF MemoryFits, FilesFit
<1>2. a = [h |-> [h EXCEPT !.files = grown], frame |-> frame]
  BY DEF allocate_frame
<1>3. /\ a.h.frames = h.frames /\ a.h.cells = h.cells /\ a.h.tail = h.tail /\ a.h.files = grown
      /\ Beside(a.h) = Beside(h) /\ a.h.dirty = h.dirty /\ a.frame = frame
  <2> HIDE DEF a, grown, frame
  <2>1. h \in SlotRecords
    BY <1>1 DEF Slots
  <2>2. a.h = [h EXCEPT !.files = grown] /\ a.frame = frame
    BY <1>2
  <2>3. /\ a.h.frames = h.frames /\ a.h.cells = h.cells /\ a.h.tail = h.tail /\ a.h.files = grown
        /\ a.h.dirty = h.dirty
    BY <2>1, <2>2 DEF SlotRecords
  <2>4. Beside(a.h) = Beside(h)
    BY <2>1, <2>2 DEF SlotRecords, Beside
  <2> QED
    BY <2>2, <2>3, <2>4
<1> HIDE DEF a
<1>4. \A i \in 1 .. last : h.files[i] \in FileCounts /\ h.files[i].count \in Nat
  <2> DEFINE old == h.files
  <2>1. old \in Seq(FileCounts)
    BY <1>1
  <2> HIDE DEF old
  <2>2. \A i \in 1 .. Len(old) : old[i] \in FileCounts
    BY <2>1
  <2>3. \A c \in FileCounts : c.count \in Nat
    BY DEF FileCounts
  <2> QED
    BY <2>2, <2>3 DEF old
<1>5. full => /\ files \in Seq(FileCounts) /\ n = last + 1 /\ files[n] = none
              /\ \A i \in 1 .. last : files[i] = h.files[i]
  <2>1. none \in FileCounts
    BY DEF FileCounts
  <2> HIDE DEF none, full
  <2>2. /\ Append(h.files, none) \in Seq(FileCounts) /\ Len(Append(h.files, none)) = last + 1
        /\ Append(h.files, none)[last + 1] = none
        /\ \A i \in 1 .. last : Append(h.files, none)[i] = h.files[i]
    BY <1>1, <2>1
  <2> QED
    BY <2>2
<1>6. ~full => /\ files = h.files /\ n = last /\ last > 0 /\ files[n].count < FramesPerFile
               /\ files[n] \in FileCounts
  <2> SUFFICES ASSUME ~full PROVE /\ files = h.files /\ n = last /\ last > 0
                                  /\ files[n].count < FramesPerFile /\ files[n] \in FileCounts
    OBVIOUS
  <2>1. files = h.files
    OBVIOUS
  <2>2. h.files # <<>> /\ ~(h.files[Len(h.files)].count >= FramesPerFile)
    OBVIOUS
  <2> HIDE DEF files, full
  <2>3. last > 0
    BY <1>1, <2>2
  <2>4. last \in 1 .. last
    BY <1>1, <2>3
  <2> QED
    BY <1>1, <1>4, <2>1, <2>2, <2>3, <2>4
<1>7. /\ files \in Seq(FileCounts) /\ n \in Nat /\ n > 0 /\ n \in 1 .. Len(files)
      /\ files[n].count \in Nat /\ files[n].count < FramesPerFile /\ last <= n
      /\ files[n] \in FileCounts
      /\ \A i \in 1 .. last : files[i] = h.files[i]
  <2>1. CASE full
    <3>1. none \in FileCounts /\ none.count = 0
      BY DEF FileCounts
    <3> HIDE DEF files, full, none
    <3>2. files \in Seq(FileCounts) /\ Len(files) = last + 1 /\ files[last + 1] = none
      BY <1>5, <2>1
    <3>3. last + 1 \in Nat /\ last + 1 > 0 /\ last + 1 \in 1 .. last + 1 /\ last <= last + 1
      BY <1>1
    <3> QED
      BY <1>1, <1>5, <2>1, <3>1, <3>2, <3>3
  <2>2. CASE ~full
    <3>1. files[n].count \in Nat
      BY <1>6, <2>2 DEF FileCounts
    <3>2. files = h.files /\ n = last /\ last > 0 /\ files[n].count < FramesPerFile /\ files[n] \in FileCounts
      BY <1>6, <2>2
    <3> HIDE DEF files, full, none
    <3>3. last \in 1 .. last
      BY <1>1, <3>2
    <3> QED
      BY <1>1, <3>1, <3>2, <3>3
  <2> QED
    BY <2>1, <2>2
<1>8. /\ grown \in Seq(FileCounts) /\ Len(grown) = n /\ grown[n].count = files[n].count + 1
      /\ grown[n].onDisk = files[n].onDisk
      /\ \A i \in 1 .. n : i # n => grown[i] = files[i]
      /\ DOMAIN grown = 1 .. n
  <2> DEFINE one == [files[n] EXCEPT !.count = @ + 1]
             g == [files EXCEPT ![n] = one]
  <2>1. grown = g
    OBVIOUS
  <2>2. one \in FileCounts /\ one.count = files[n].count + 1 /\ one.onDisk = files[n].onDisk
    <3>1. files[n] \in FileCounts
      BY <1>7
    <3> HIDE DEF files, grown
    <3> QED
      BY <3>1 DEF FileCounts
  <2> HIDE DEF files, one, grown
  <2>3. g \in Seq(FileCounts) /\ Len(g) = Len(files) /\ g[n] = one
        /\ \A i \in 1 .. Len(files) : i # n => g[i] = files[i]
    BY <1>7, <2>2, SeqWith
  <2> HIDE DEF g
  <2> QED
    BY <1>7, <2>1, <2>2, <2>3
<1>9. DOMAIN h.files = 1 .. last
  BY <1>1
<1>10. full => last < MAX_DATA_FILES
  <2> SUFFICES ASSUME full, last = MAX_DATA_FILES PROVE FALSE
    BY <1>1
  <2>1. last = 0 \/ h.files[last].count >= FramesPerFile
    BY <1>1
  <2>2. last # 0 => h.files[last].count \in Nat
    BY <1>1, <1>4
  <2>3. (IF last = 0 THEN 0 ELSE Less(FramesPerFile, h.files[last].count)) = 0
    BY <1>1, <2>1, <2>2 DEF Less
  <2>4. (MAX_DATA_FILES - last) * FramesPerFile = 0
    BY <1>1
  <2> HIDE DEF full
  <2> QED
    BY <2>3, <2>4 DEF room_for_frames
<1> HIDE DEF grown
<1>11. FileOf(frame) = n /\ IndexIn(frame) = files[n].count
  <2> DEFINE x == files[n].count
             y == n - 1
  <2>1. y \in Nat /\ x \in Nat /\ x < FramesPerFile /\ FramesPerFile \in Nat \ {0}
    BY <1>1, <1>7
  <2>2. frame = y * FramesPerFile + x
    BY DEF FirstOf
  <2> HIDE DEF x, y, files
  <2>3. (y * FramesPerFile + x) \div FramesPerFile = y /\ (y * FramesPerFile + x) % FramesPerFile = x
    BY <2>1, PlaceInFile
  <2> HIDE DEF frame, n
  <2>4. y + 1 = n
    BY <1>7 DEF y
  <2> QED
    BY <2>2, <2>3, <2>4 DEF FileOf, IndexIn, x
<1> HIDE DEF files, frame, n
<1>12. InFiles(a.h.files, a.frame)
  BY <1>3, <1>7, <1>8, <1>11 DEF InFiles
<1>13. \A i \in 1 .. last : /\ i \in 1 .. n /\ grown[i].onDisk = h.files[i].onDisk
                            /\ grown[i].count \in Nat /\ h.files[i].count <= grown[i].count
  <2> TAKE i \in 1 .. last
  <2>1. i \in 1 .. n /\ files[i] = h.files[i] /\ h.files[i].count \in Nat
    BY <1>1, <1>4, <1>7
  <2> QED
    BY <1>8, <2>1
<1>14. MemoryFits(a.h, d)
  <2>1. Shown(a.h, d)
    BY <1>3, <1>8, <1>9, <1>13 DEF MemoryFits, Shown
  <2>2. FilesFit(grown)
    <3>1. n <= MAX_DATA_FILES
      BY <1>1, <1>5, <1>6, <1>10
    <3>2. ASSUME NEW i \in 1 .. n PROVE grown[i].count <= FramesPerFile
      <4>1. CASE i = n
        BY <1>1, <1>7, <1>8, <4>1
      <4>2. CASE i # n
        <5>1. i \in 1 .. last
          BY <1>1, <1>5, <1>6, <1>7, <4>2
        <5> QED
          BY <1>1, <1>7, <1>8, <4>2, <5>1
      <4> QED
        BY <4>1, <4>2
    <3> QED
      BY <1>8, <3>1, <3>2 DEF FilesFit
  <2>3. ASSUME NEW f \in DOMAIN a.h.frames \union DOMAIN d.frames PROVE InFiles(a.h.files, f)
    <3>1. FileOf(f) \in 1 .. last /\ IndexIn(f) < h.files[FileOf(f)].count
      BY <1>3, <1>9 DEF MemoryFits, InFiles
    <3>2. IndexIn(f) \in Int
      <4>1. h.frames \in FrameMaps
        BY <1>1, SlotIs
      <4>2. f \in Nat
        BY <1>3, <4>1, FramesAre
      <4> QED
        BY <1>1, <4>2 DEF IndexIn
    <3>3. h.files[FileOf(f)].count \in Nat
      BY <1>4, <3>1
    <3>4. FileOf(f) \in 1 .. n /\ grown[FileOf(f)].count \in Nat /\ h.files[FileOf(f)].count <= grown[FileOf(f)].count
      BY <1>13, <3>1
    <3> QED
      BY <1>3, <1>8, <3>1, <3>2, <3>3, <3>4 DEF InFiles
  <2> QED
    BY <1>1, <1>3, <2>1, <2>2, <2>3 DEF MemoryFits
<1>15. a.frame \notin DOMAIN FramesOf(h, d)
  <2> SUFFICES ASSUME a.frame \in DOMAIN FramesOf(h, d) PROVE FALSE
    OBVIOUS
  <2>1. InFiles(h.files, a.frame)
    BY FramesShown DEF MemoryFits
  <2>2. n \in 1 .. last /\ files[n].count < h.files[n].count
    BY <1>3, <1>9, <1>11, <2>1 DEF InFiles
  <2>3. files[n] = h.files[n]
    BY <1>7, <2>2
  <2> QED
    BY <1>7, <2>2, <2>3
<1>16. FramesOf(a.h, d) = FramesOf(h, d)
  <2>1. FramesOf(a.h, d) = Over(a.h.frames, d.frames)
    BY <1>14, FramesShown
  <2>2. FramesOf(h, d) = Over(h.frames, d.frames)
    BY FramesShown
  <2> QED
    BY <1>3, <2>1, <2>2
<1>17. room_for_frames(h) \in Nat /\ room_for_frames(a.h) = room_for_frames(h) - 1
  <2> DEFINE F == FramesPerFile
             M == MAX_DATA_FILES
  <2>0. F \in Nat \ {0} /\ M \in Nat /\ last \in Nat /\ last <= M /\ n \in Nat
    BY <1>1, <1>7
  <2>1. room_for_frames(a.h) = Less(F, files[n].count + 1) + (M - n) * F
    BY <1>3, <1>7, <1>8 DEF room_for_frames
  <2>2. Less(F, files[n].count + 1) = F - files[n].count - 1
    BY <1>1, <1>7 DEF Less
  <2>3. CASE full
    <3>1. files[n].count = 0 /\ n = last + 1 /\ last < M
      BY <1>5, <1>10, <2>3 DEF none, files
    <3>2. room_for_frames(h) = 0 + (M - last) * F
      <4>1. last = 0 \/ h.files[last].count >= FramesPerFile
        BY <1>1, <2>3
      <4>2. last # 0 => h.files[last].count \in Nat
        BY <1>1, <1>4
      <4>3. (IF last = 0 THEN 0 ELSE Less(FramesPerFile, h.files[last].count)) = 0
        BY <1>1, <4>1, <4>2 DEF Less
      <4> HIDE DEF full
      <4> QED
        BY <4>3 DEF room_for_frames
    <3>3. (M - last) * F \in Nat
      <4>1. M - last \in Nat
        BY <2>0
      <4> DEFINE z == M - last
      <4> HIDE DEF z, F
      <4>2. z \in Nat
        BY <4>1 DEF z
      <4>3. z * F \in Nat
        BY <2>0, <4>2
      <4> QED
        BY <4>3 DEF z
    <3>4. (M - n) * F = (M - last) * F - F
      <4>1. M - n = M - last - 1
        BY <2>0, <3>1
      <4> HIDE DEF F, M, last, n
      <4>2. (M - last - 1) * F = (M - last) * F - F
        BY <2>0
      <4> QED
        BY <4>1, <4>2
    <3> HIDE DEF full
    <3> QED
      BY <2>0, <2>1, <2>2, <3>1, <3>2, <3>3, <3>4
  <2>4. CASE ~full
    <3>1. files[n] = h.files[n] /\ n = last /\ last > 0
      BY <1>6, <2>4
    <3>2. room_for_frames(h) = Less(F, files[n].count) + (M - n) * F
      BY <2>0, <3>1 DEF room_for_frames
    <3>3. Less(F, files[n].count) = F - files[n].count
      BY <1>1, <1>7 DEF Less
    <3>4. (M - n) * F \in Nat
      <4>1. M - n \in Nat
        BY <2>0, <3>1
      <4> DEFINE z == M - n
      <4> HIDE DEF z, F
      <4>2. z \in Nat
        BY <4>1 DEF z
      <4>3. z * F \in Nat
        BY <2>0, <4>2
      <4> QED
        BY <4>3 DEF z
    <3> DEFINE y == (M - n) * F
               x == files[n].count
    <3>5. y \in Nat /\ x \in Nat /\ x < F
      BY <1>7, <3>4
    <3>6. room_for_frames(a.h) = F - x - 1 + y /\ room_for_frames(h) = F - x + y
      BY <2>1, <2>2, <3>2, <3>3
    <3> HIDE DEF x, y, F
    <3> QED
      BY <2>0, <3>5, <3>6
  <2> QED
    BY <2>3, <2>4
<1>18. h.files = <<>> => a.frame = HEAD
  <2> SUFFICES ASSUME h.files = <<>> PROVE a.frame = HEAD
    OBVIOUS
  <2>1. full /\ last = 0
    OBVIOUS
  <2> HIDE DEF full
  <2>2. n = 1 /\ files[n].count = 0
    BY <1>5, <2>1 DEF none, files
  <2>3. FirstOf(1) = 0
    BY <1>1 DEF FirstOf
  <2> QED
    BY <1>3, <2>2, <2>3 DEF frame, HEAD
<1> QED
  BY <1>1, <1>3, <1>12, <1>14, <1>15, <1>16, <1>17, <1>18 DEF a

-------------------------------------------------------------------------------
(* The frames of a laid chain, as they are in memory or on the disk.       *)
LEMMA FrameInLaid ==
  ASSUME NEW F \in FrameMaps, NEW c, NEW S, NEW W, IsLaid(F, c, S, W), NEW i \in 1 .. Len(c)
  PROVE  LET f == F[c[i]]
         IN  /\ c[i] \in DOMAIN F /\ c[i] \in Nat /\ f \in WholeFrames
             /\ Len(f.entries) = S[i + 1] - S[i] /\ S[i] \in Nat /\ S[i + 1] \in Nat /\ S[i] <= S[i + 1]
             /\ \A m \in S[i] .. S[i + 1] : BorderOf(S, W, i, m) = OffsetOf(f, m - S[i] + 1)
             /\ records_end(f) = BorderOf(S, W, i, S[i + 1])
             /\ used(f) = LenOf(W, S[i + 1]) - LenOf(W, S[i])
             /\ f.next = NextIn(c, i) /\ IsPart(f.entries, W, S[i], S[i + 1])
<1> DEFINE f == F[c[i]]
           E == f.entries
           p == S[i]
           q == S[i + 1]
<1>1. /\ c[i] \in DOMAIN F /\ f.next = NextIn(c, i) /\ IsPart(E, W, p, q)
  BY FramesOfLaid
<1>2. /\ p \in Nat /\ q \in Nat /\ p <= q /\ q <= Len(W) /\ W \in Seq(Entries) /\ Len(W) \in Nat
  BY LaidIs
<1>3. f \in FrameSet /\ c[i] \in Nat
  BY <1>1, FramesAre
<1>4. f \in Loose
  BY <1>3 DEF FrameSet
<1>5. E \in Seq(Entries) /\ Len(E) = q - p /\ \A j \in 1 .. q - p : E[j] = W[p + j]
  BY <1>1 DEF IsPart
<1>6. \A n \in 1 .. Len(W) : IsEntry(W[n])
  BY DEF IsLaid
<1>7. \A j \in 1 .. Len(E) : IsEntry(E[j])
  <2> HIDE DEF E, f, p, q
  <2>1. \A j \in 1 .. q - p : p + j \in 1 .. Len(W)
    BY <1>2
  <2> QED
    BY <1>5, <1>6, <2>1
<1>8. f \in WholeFrames
  BY <1>3, <1>7 DEF WholeFrames
<1>9. ASSUME NEW m \in p .. q
      PROVE  /\ BorderOf(S, W, i, m) = OffsetOf(f, m - p + 1)
             /\ LenOf(E, m - p) = LenOf(W, m) - LenOf(W, p)
  <2> HIDE DEF E, f, p, q
  <2>1. /\ LenOf(E, m - p) = LenOf(W, m) - LenOf(W, p)
        /\ LenOf(W, m) \in Nat /\ LenOf(W, p) \in Nat
    BY <1>1, <1>2, PartOffsets
  <2> DEFINE j == m - p + 1
             n == m - p
  <2>2. j - 1 = n
    BY <1>2
  <2> HIDE DEF j, n
  <2>3. OffsetOf(f, j) = FRAME_HEADER_LEN + LenOf(E, n)
    BY <2>2 DEF OffsetOf, E
  <2> USE DEF j, n
  <2>4. BorderOf(S, W, i, m) = FRAME_HEADER_LEN + LenOf(W, m) - LenOf(W, p)
    BY DEF BorderOf, p
  <2> QED
    BY <2>1, <2>3, <2>4, FrameAssumption
<1>10. q \in p .. q
  BY <1>2
<1>11. /\ used(f) = LenOf(W, q) - LenOf(W, p) /\ records_end(f) = FRAME_HEADER_LEN + used(f)
       /\ LenOf(W, q) \in Nat /\ LenOf(W, p) \in Nat
  <2>1. used(f) = LenOf(E, Len(E))
    BY DEF used
  <2>2. LenOf(W, q) \in Nat /\ LenOf(W, p) \in Nat
    <3>1. q \in 0 .. Len(W) /\ p \in 0 .. Len(W)
      BY <1>2
    <3> HIDE DEF p, q
    <3> QED
      BY <1>2, <3>1, LengthsAre
  <2> HIDE DEF E, f, p, q
  <2> QED
    BY <1>5, <1>9, <1>10, <2>1, <2>2 DEF records_end
<1>12. records_end(f) = BorderOf(S, W, i, q)
  <2>1. BorderOf(S, W, i, q) = FRAME_HEADER_LEN + LenOf(W, q) - LenOf(W, p)
    BY DEF BorderOf, p
  <2> HIDE DEF f, p, q
  <2> QED
    BY <1>11, <2>1, FrameAssumption
<1> QED
  BY <1>1, <1>2, <1>3, <1>5, <1>8, <1>9, <1>11, <1>12 DEF f, E, p, q

(* A cell which stands in the chain. *)
LEMMA StandingIs ==
  ASSUME NEW F \in FrameMaps, NEW c, NEW S, NEW W, IsLaid(F, c, S, W),
         NEW x, NEW m, NEW st, StandsAt(c, S, W, x, m, st)
  PROVE  /\ x = [frame |-> x.frame, offset |-> x.offset]
         /\ x.frame \in DOMAIN F /\ x.frame \in Nat /\ x \in Places /\ x # NoCell
         /\ x.offset \in Int /\ FRAME_HEADER_LEN <= x.offset /\ x.offset < Past
         /\ \E i \in 1 .. Len(c) : /\ m \in S[i] .. S[i + 1] /\ x = PlaceOf(c, S, W, i, m)
                                   /\ x.frame = c[i] /\ x.offset = BorderOf(S, W, i, m)
         /\ m \in 0 .. Len(W) /\ (st => m < Len(W))
<1>1. PICK i \in 1 .. Len(c) : /\ m \in Nat /\ S[i] <= m /\ m <= S[i + 1]
                               /\ st => m < S[i + 1]
                               /\ x = PlaceOf(c, S, W, i, m)
  BY DEF StandsAt
<1>2. /\ c[i] \in DOMAIN F /\ c[i] \in Nat /\ F[c[i]] \in WholeFrames
      /\ S[i] \in Nat /\ S[i + 1] \in Nat /\ S[i] <= S[i + 1]
      /\ records_end(F[c[i]]) = BorderOf(S, W, i, S[i + 1])
  BY FrameInLaid
<1>3. m \in S[i] .. S[i + 1] /\ S[i] \in S[i] .. S[i + 1]
  BY <1>1, <1>2
<1>4. /\ BorderOf(S, W, i, m) \in Int /\ m \in 0 .. Len(W) /\ S[i + 1] <= Len(W) /\ Len(W) \in Nat
      /\ BorderOf(S, W, i, S[i]) = FRAME_HEADER_LEN
      /\ m < S[i + 1] => BorderOf(S, W, i, m) < BorderOf(S, W, i, S[i + 1])
  <2>1. S[i + 1] \in S[i] .. S[i + 1]
    BY <1>2
  <2>2. S[i + 1] <= Len(W) /\ Len(W) \in Nat
    BY LaidIs
  <2> QED
    BY <1>3, <2>1, <2>2, BordersOfLaid
<1>5. BorderOf(S, W, i, S[i]) <= BorderOf(S, W, i, m)
  <2>1. S[i] < m => BorderOf(S, W, i, S[i]) < BorderOf(S, W, i, m)
    BY <1>3, BordersOfLaid
  <2>2. S[i] = m \/ S[i] < m
    BY <1>1, <1>2
  <2> QED
    BY <1>4, <2>1, <2>2, FrameAssumption
<1>6. BorderOf(S, W, i, S[i + 1]) <= FRAME_HEADER_LEN + FRAME_CAPACITY
  <2>1. records_end(F[c[i]]) = FRAME_HEADER_LEN + used(F[c[i]]) /\ used(F[c[i]]) <= FRAME_CAPACITY
        /\ used(F[c[i]]) \in Nat
    BY <1>2, WholeFrameIs
  <2> QED
    BY <1>2, <2>1, FrameAssumption
<1>7. x.frame = c[i] /\ x.offset = BorderOf(S, W, i, m)
      /\ x = [frame |-> x.frame, offset |-> x.offset]
  BY <1>1 DEF PlaceOf
<1>8. BorderOf(S, W, i, S[i + 1]) \in Int
  <2>1. S[i + 1] \in S[i] .. S[i + 1]
    BY <1>2
  <2> QED
    BY <2>1, BordersOfLaid
<1>9. BorderOf(S, W, i, m) <= BorderOf(S, W, i, S[i + 1])
  <2>1. m = S[i + 1] \/ m < S[i + 1]
    BY <1>1, <1>2
  <2> QED
    BY <1>4, <1>8, <2>1
<1>10. FRAME_HEADER_LEN <= x.offset /\ x.offset < Past /\ x.offset \in Int
  BY <1>4, <1>5, <1>6, <1>7, <1>8, <1>9, FrameAssumption DEF Past
<1>11. x \in Places
  BY <1>1, <1>2, <1>4 DEF PlaceOf, Places
<1>12. x # NoCell
  BY <1>2, <1>7 DEF NoCell, NoFrame
<1> QED
  BY <1>1, <1>2, <1>3, <1>4, <1>7, <1>10, <1>11, <1>12

-------------------------------------------------------------------------------
(* The memory of an hour whose frames are the chain c with the entries W:  *)
(* its tail is the last one.                                               *)
MemoryRight(h, d, c, S, W) ==
  /\ MemoryFits(h, d) /\ IsLaid(FramesOf(h, d), c, S, W)
  /\ h.tail = IF c = <<>> THEN NoFrame ELSE c[Len(c)]

(* The cells y are the cells x after an entry was put behind k others.     *)
CellsPushed(x, y, c, S, W, k, b, T, V) ==
  \A s \in Seconds :
    /\ x[s] = NoCell => y[s] = NoCell
    /\ \A m, st : StandsAt(c, S, W, x[s], m, st) =>
         \E n : StandsAt(b, T, V, y[s], n, st) /\ PushedOn(m, k, st, n)

(* An entry was put behind k others of the chain, and it is where the      *)
(* answer says; that takes one new frame at most.                          *)
PutBehind(h, c, S, W, k, e, r) ==
  /\ r \in Answers
  /\ \E b, T : LET V == PutIn(W, k, e)
               IN  /\ MemoryRight(r.h, disk, b, T, V)
                   /\ StandsAt(b, T, V, r.cell, k, TRUE)
                   /\ StandsAt(b, T, V, [r.cell EXCEPT !.offset = @ + e.len], k + 1, FALSE)
                   /\ CellsPushed(h.cells, r.h.cells, c, S, W, k, b, T, V)
                   /\ c # <<>> => b[1] = c[1]
                   /\ h.files = <<>> => b[1] = HEAD
                   /\ b # <<>>
  /\ room_for_frames(r.h) \in Nat /\ room_for_frames(h) <= room_for_frames(r.h) + 1
  /\ Beside(r.h) = Beside(h)

(* The cells after the frames were made ready for the entry, and after it. *)
CellsMoved(x, y, c, S, W, b, T, j, k, len) ==
  \A s \in Seconds :
    /\ x[s] = NoCell => y[s] = NoCell
    /\ \A m, st : StandsAt(c, S, W, x[s], m, st) =>
         \E z : /\ StandsAt(b, T, W, z, m, st)
                /\ y[s] = MovedCell(z, b[j], BorderOf(T, W, j, k), len)

LEMMA PutLands ==
  ASSUME disk.frames \in FrameMaps, NEW h \in Slots, NEW c, NEW S, NEW W,
         NEW F, NEW b, NEW T, IsLaid(F, b, T, W),
         NEW j \in 1 .. Len(b), NEW k \in T[j] .. T[j + 1], NEW e \in Blocks, IsEntry(e),
         NEW r \in Answers, MemoryFits(r.h, disk),
         Others(F, FramesOf(r.h, disk), {b[j]}),
         FramesOf(r.h, disk)[b[j]].next = F[b[j]].next,
         FramesOf(r.h, disk)[b[j]].entries = PutIn(F[b[j]].entries, k - T[j], e),
         r.cell = PlaceOf(b, T, W, j, k), r.h.tail = b[Len(b)],
         CellsMoved(h.cells, r.h.cells, c, S, W, b, T, j, k, e.len),
         c # <<>> => b[1] = c[1], h.files = <<>> => b[1] = HEAD,
         room_for_frames(r.h) \in Nat, room_for_frames(h) <= room_for_frames(r.h) + 1,
         Beside(r.h) = Beside(h)
  PROVE  PutBehind(h, c, S, W, k, e, r)
<1> DEFINE U == OneMoreFrom(T, j)
           V == PutIn(W, k, e)
           G == FramesOf(r.h, disk)
<1>1. e \in Entries
  BY BlockIs
<1>2. /\ IsLaid(G, b, U, V) /\ U[j] = T[j] /\ U[j + 1] = T[j + 1] + 1
      /\ PlaceOf(b, U, V, j, k) = PlaceOf(b, T, W, j, k)
      /\ BorderOf(U, V, j, k + 1) = BorderOf(T, W, j, k) + e.len
      /\ \A x, m, st : StandsAt(b, T, W, x, m, st) =>
           \E n : /\ StandsAt(b, U, V, MovedCell(x, b[j], BorderOf(T, W, j, k), e.len), n, st)
                  /\ PushedOn(m, k, st, n)
  <2> HIDE DEF G
  <2>1. /\ Others(F, G, {b[j]}) /\ G[b[j]].next = F[b[j]].next
        /\ G[b[j]].entries = PutIn(F[b[j]].entries, k - T[j], e)
    BY DEF G
  <2>2. LaidWith(G, b, T, W, j, k, e)
    BY <1>1, <2>1, PutIntoLaid
  <2> QED
    BY <2>2 DEF LaidWith, U, V
<1>3. /\ Len(b) \in Nat /\ T[j] \in Nat /\ T[j + 1] \in Nat /\ k \in Nat /\ T[j] <= k /\ k <= T[j + 1]
  <2>1. T[j] \in Nat /\ T[j + 1] \in Nat /\ Len(b) \in Nat
    BY LaidIs
  <2> QED
    BY <2>1
<1> HIDE DEF U, V, G
<1>4. b # <<>>
  BY <1>3
<1>5. MemoryRight(r.h, disk, b, U, V)
  BY <1>2, <1>4 DEF MemoryRight, G
<1>6. StandsAt(b, U, V, r.cell, k, TRUE)
  <2>1. U[j] <= k /\ k <= U[j + 1] /\ k < U[j + 1]
    BY <1>2, <1>3
  <2>2. r.cell = PlaceOf(b, U, V, j, k)
    BY <1>2
  <2> QED
    BY <1>3, <2>1, <2>2 DEF StandsAt
<1>7. StandsAt(b, U, V, [r.cell EXCEPT !.offset = @ + e.len], k + 1, FALSE)
  <2>1. U[j] <= k + 1 /\ k + 1 <= U[j + 1] /\ k + 1 \in Nat
    BY <1>2, <1>3
  <2>2. [r.cell EXCEPT !.offset = @ + e.len] = PlaceOf(b, U, V, j, k + 1)
    BY <1>2 DEF PlaceOf
  <2> QED
    BY <2>1, <2>2 DEF StandsAt
<1>8. CellsPushed(h.cells, r.h.cells, c, S, W, k, b, U, V)
  <2> SUFFICES ASSUME NEW s \in Seconds
               PROVE  /\ h.cells[s] = NoCell => r.h.cells[s] = NoCell
                      /\ \A m, st : StandsAt(c, S, W, h.cells[s], m, st) =>
                           \E n : StandsAt(b, U, V, r.h.cells[s], n, st) /\ PushedOn(m, k, st, n)
    BY DEF CellsPushed
  <2>1. h.cells[s] = NoCell => r.h.cells[s] = NoCell
    BY DEF CellsMoved
  <2>2. ASSUME NEW m, NEW st, StandsAt(c, S, W, h.cells[s], m, st)
        PROVE  \E n : StandsAt(b, U, V, r.h.cells[s], n, st) /\ PushedOn(m, k, st, n)
    <3>1. PICK z : /\ StandsAt(b, T, W, z, m, st)
                   /\ r.h.cells[s] = MovedCell(z, b[j], BorderOf(T, W, j, k), e.len)
      BY <2>2 DEF CellsMoved
    <3> QED
      BY <1>2, <3>1
  <2> QED
    BY <2>1, <2>2
<1>9. \E a, X : /\ MemoryRight(r.h, disk, a, X, V)
                /\ StandsAt(a, X, V, r.cell, k, TRUE)
                /\ StandsAt(a, X, V, [r.cell EXCEPT !.offset = @ + e.len], k + 1, FALSE)
                /\ CellsPushed(h.cells, r.h.cells, c, S, W, k, a, X, V)
                /\ (c # <<>> => a[1] = c[1]) /\ (h.files = <<>> => a[1] = HEAD) /\ a # <<>>
  BY <1>4, <1>5, <1>6, <1>7, <1>8
<1> QED
  BY <1>9 DEF PutBehind, V

(* The cells of a frame which moved are all of those behind the offset.    *)
LEMMA ShiftMoves ==
  ASSUME NEW F \in FrameMaps, NEW c, NEW S, NEW W, IsLaid(F, c, S, W), NEW cells \in Cells,
         NEW frame, NEW from, NEW by, NEW s \in Seconds
  PROVE  /\ \A m, st : StandsAt(c, S, W, cells[s], m, st) =>
              Shift(cells, frame, from, Past, by)[s] = MovedCell(cells[s], frame, from, by)
         /\ cells[s] = NoCell /\ frame \in Nat => Shift(cells, frame, from, Past, by)[s] = NoCell
<1>1. Shift(cells, frame, from, Past, by)[s]
        = IF cells[s].frame = frame /\ cells[s].offset >= from /\ cells[s].offset < Past
          THEN [cells[s] EXCEPT !.offset = @ + by] ELSE cells[s]
  BY DEF Shift
<1>2. ASSUME NEW m, NEW st, StandsAt(c, S, W, cells[s], m, st)
      PROVE  Shift(cells, frame, from, Past, by)[s] = MovedCell(cells[s], frame, from, by)
  <2>1. cells[s].offset < Past
    BY <1>2, StandingIs
  <2> QED
    BY <1>1, <2>1 DEF MovedCell
<1>3. cells[s] = NoCell /\ frame \in Nat => Shift(cells, frame, from, Past, by)[s] = NoCell
  BY <1>1 DEF NoCell, NoFrame
<1> QED
  BY <1>2, <1>3

-------------------------------------------------------------------------------
LEMMA RoomIs ==
  ASSUME NEW h, NEW d, MemoryFits(h, d)
  PROVE  room_for_frames(h) \in Nat
<1> DEFINE last == Len(h.files)
           z == MAX_DATA_FILES - last
           in == IF last = 0 THEN 0 ELSE Less(FramesPerFile, h.files[last].count)
<1>1. last \in Nat /\ z \in Nat /\ FramesPerFile \in Nat /\ h.files \in Seq(FileCounts)
  BY SlotIs, HourFileAssumption DEF MemoryFits, FilesFit
<1>2. in \in Nat
  <2> DEFINE old == h.files
  <2>1. old \in Seq(FileCounts) /\ last = Len(old)
    BY <1>1
  <2> HIDE DEF old
  <2>2. last # 0 => old[last] \in FileCounts
    BY <2>1
  <2>3. \A x \in FileCounts : x.count \in Nat
    BY DEF FileCounts
  <2>4. last # 0 => Less(FramesPerFile, old[last].count) \in Nat
    BY <1>1, <2>2, <2>3 DEF Less
  <2> QED
    BY <2>4 DEF old
<1>3. room_for_frames(h) = in + z * FramesPerFile
  BY DEF room_for_frames
<1> HIDE DEF in, z
<1>4. z * FramesPerFile \in Nat
  BY <1>1
<1> QED
  BY <1>2, <1>3, <1>4

LEMMA RoomDepends ==
  ASSUME NEW h, NEW g, g.files = h.files
  PROVE  room_for_frames(g) = room_for_frames(h)
BY DEF room_for_frames

LEMMA BlocksAreEntries ==
  ASSUME NEW e \in Blocks
  PROVE  /\ e \in Entries /\ IsEntry(e) /\ <<e>> \in Seq(Entries)
         /\ e.len \in Nat /\ e.len > 0 /\ e.len <= MAX_PAYLOAD_LEN /\ e.len <= FRAME_CAPACITY
<1>1. second_of(e.time) \in Seconds /\ e \in Entries
  BY DEF Blocks, Entries
<1>2. IsEntry(e)
  BY <1>1, NoTimeIsOfNoSecond DEF IsEntry
<1> QED
  BY <1>1, <1>2, BlockIs DEF Entries

(* Whatever of a frame changes, the frames of a chain stay in the files.   *)
LEMMA MemoryIs ==
  ASSUME disk.frames \in FrameMaps, NEW h, NEW c, NEW S, NEW W, MemoryRight(h, disk, c, S, W)
  PROVE  /\ h \in Slots /\ MemoryFits(h, disk) /\ FramesOf(h, disk) \in FrameMaps
         /\ IsLaid(FramesOf(h, disk), c, S, W) /\ room_for_frames(h) \in Nat
         /\ W \in Seq(Entries) /\ Len(W) \in Nat
         /\ \A f \in DOMAIN FramesOf(h, disk) : f \in Nat /\ InFiles(h.files, f)
         /\ h.cells \in Cells
<1>1. h \in Slots /\ MemoryFits(h, disk) /\ IsLaid(FramesOf(h, disk), c, S, W)
  BY DEF MemoryRight, MemoryFits
<1>2. /\ FramesOf(h, disk) \in FrameMaps
      /\ DOMAIN FramesOf(h, disk) = DOMAIN h.frames \union DOMAIN disk.frames
  BY <1>1, FramesShown
<1>3. \A f \in DOMAIN FramesOf(h, disk) : f \in Nat /\ InFiles(h.files, f)
  BY <1>1, <1>2, FramesAre DEF MemoryFits
<1> QED
  BY <1>1, <1>2, <1>3, RoomIs, LaidIs, SlotIs

LEMMA OneFrameChanged ==
  ASSUME NEW F, NEW f, NEW x
  PROVE  /\ Others(F, Updated(F, f, x), {f}) /\ Updated(F, f, x)[f] = x
         /\ DOMAIN Updated(F, f, x) = DOMAIN F \union {f}
BY DEF Others, Updated

(* A block is put into a frame which has room for it. *)
LEMMA PutWithRoom ==
  ASSUME disk.frames \in FrameMaps, NEW h, NEW c, NEW S, NEW W, MemoryRight(h, disk, c, S, W),
         NEW i \in 1 .. Len(c), NEW k \in S[i] .. S[i + 1], NEW e \in Blocks,
         e.len <= free(FramesOf(h, disk)[c[i]])
  PROVE  PutBehind(h, c, S, W, k, e, insert_into_frame(h, PlaceOf(c, S, W, i, k), e))
<1> DEFINE F == FramesOf(h, disk)
           place == PlaceOf(c, S, W, i, k)
           r == insert_into_frame(h, place, e)
           f == F[c[i]]
           x == insert(f, place.offset, <<e>>)
           cells == Shift(h.cells, place.frame, place.offset, Past, e.len)
           moved == [h EXCEPT !.cells = cells]
           g == mark_dirty(moved, place.frame, x)
<1>1. /\ h \in Slots /\ MemoryFits(h, disk) /\ F \in FrameMaps /\ IsLaid(F, c, S, W)
      /\ room_for_frames(h) \in Nat /\ \A n \in DOMAIN F : n \in Nat /\ InFiles(h.files, n)
      /\ h.cells \in Cells
  BY MemoryIs
<1>2. e \in Entries /\ IsEntry(e) /\ e.len \in Nat
  BY BlocksAreEntries
<1>4. place.frame = c[i] /\ place.offset = BorderOf(S, W, i, k)
  BY DEF PlaceOf
<1>3. r = [h |-> g, cell |-> place]
  <2> HIDE DEF place
  <2>1. f = FramesOf(h, disk)[place.frame]
    BY <1>4
  <2> HIDE DEF f, F
  <2> QED
    BY <2>1 DEF insert_into_frame
<1> HIDE DEF F
<1>5. /\ c[i] \in DOMAIN F /\ c[i] \in Nat /\ f \in WholeFrames
      /\ Len(f.entries) = S[i + 1] - S[i] /\ S[i] \in Nat /\ S[i + 1] \in Nat
      /\ BorderOf(S, W, i, k) = OffsetOf(f, k - S[i] + 1)
  BY <1>1, FrameInLaid
<1>6. f \in FrameSet /\ f \in Loose /\ f.entries \in Seq(Entries)
  BY <1>5, WholeFrameIs
<1>7. place.offset \in Int /\ place \in Places
  <2>1. BorderOf(S, W, i, k) \in Int
    BY <1>1, BordersOfLaid
  <2> QED
    BY <1>4, <1>5, <2>1 DEF PlaceOf, Places
<1>8. r \in Answers
  <2> HIDE DEF r, place
  <2>1. place.frame \in DOMAIN F /\ e.len <= free(F[place.frame])
    BY <1>4, <1>5 DEF F
  <2> QED
    BY <1>1, <1>7, <2>1, InsertedIntoFrame DEF r, F
<1>9. x \in FrameSet /\ x = [f EXCEPT !.entries = PutIn(f.entries, k - S[i], e)]
  <2> HIDE DEF f, place
  <2>1. e.len <= free(f)
    BY DEF f, F
  <2>2. x \in FrameSet
    BY <1>6, <1>7, <2>1, EntryIsPut
  <2> DEFINE j == k - S[i] + 1
             n == k - S[i]
  <2>3. j \in 1 .. Len(f.entries) + 1 /\ j - 1 = n
    BY <1>5
  <2>4. place.offset = OffsetOf(f, j)
    BY <1>4, <1>5
  <2> HIDE DEF j, n
  <2>5. insert(f, OffsetOf(f, j), <<e>>) = [f EXCEPT !.entries = PutIn(f.entries, j - 1, e)]
    BY <1>2, <1>6, <2>3, PutAtBorder
  <2>6. x = [f EXCEPT !.entries = PutIn(f.entries, n, e)]
    BY <2>3, <2>4, <2>5
  <2> QED
    BY <2>2, <2>6 DEF n
<1>10. x.entries = PutIn(f.entries, k - S[i], e) /\ x.next = f.next
  <2> HIDE DEF x, f
  <2> DEFINE E == PutIn(f.entries, k - S[i], e)
  <2> HIDE DEF E
  <2>1. x = [f EXCEPT !.entries = E] /\ f \in [entries : Seq(Entries), next : Int]
    BY <1>6, <1>9 DEF Loose, E
  <2>2. x.entries = E /\ x.next = f.next
    BY <2>1
  <2> QED
    BY <2>2 DEF E
<1>11. cells \in Cells
  BY <1>1, <1>2, <1>7, ShiftedIs
<1> HIDE DEF cells, x, f, place
<1>12. /\ moved \in Slots /\ moved.cells = cells /\ moved.frames = h.frames /\ moved.dirty = h.dirty
       /\ moved.files = h.files /\ moved.tail = h.tail /\ Beside(moved) = Beside(h)
  <2>1. moved \in Slots
    BY <1>1, <1>11, SlotWith
  <2> QED
    BY <1>1, <2>1 DEF Slots, SlotRecords, Beside
<1> HIDE DEF moved
<1>13. MemoryFits(moved, disk) /\ FramesOf(moved, disk) = F
  BY <1>1, <1>12, FitsWith DEF F
<1>14. /\ MemoryFits(g, disk) /\ FramesOf(g, disk) = Updated(F, place.frame, x)
       /\ g.files = moved.files /\ g.cells = moved.cells /\ g.tail = moved.tail
       /\ Beside(g) = Beside(moved)
  <2>1. place.frame \in Nat /\ InFiles(moved.files, place.frame)
    BY <1>1, <1>4, <1>5, <1>12
  <2> QED
    BY <1>9, <1>13, <2>1, MarkedFits
<1> HIDE DEF g, r
<1>15. r.h = g /\ r.cell = place
  BY <1>3
<1>16. /\ Others(F, FramesOf(r.h, disk), {c[i]})
       /\ FramesOf(r.h, disk)[c[i]].next = F[c[i]].next
       /\ FramesOf(r.h, disk)[c[i]].entries = PutIn(F[c[i]].entries, k - S[i], e)
  <2>1. /\ Others(F, Updated(F, c[i], x), {c[i]}) /\ Updated(F, c[i], x)[c[i]] = x
    BY DEF Others, Updated
  <2>2. FramesOf(r.h, disk) = Updated(F, c[i], x)
    BY <1>4, <1>14, <1>15
  <2> QED
    BY <1>10, <2>1, <2>2 DEF f
<1>17. CellsMoved(h.cells, r.h.cells, c, S, W, c, S, i, k, e.len)
  <2> SUFFICES ASSUME NEW s \in Seconds
               PROVE  /\ h.cells[s] = NoCell => r.h.cells[s] = NoCell
                      /\ \A m, st : StandsAt(c, S, W, h.cells[s], m, st) =>
                           \E z : /\ StandsAt(c, S, W, z, m, st)
                                  /\ r.h.cells[s] = MovedCell(z, c[i], BorderOf(S, W, i, k), e.len)
    BY DEF CellsMoved
  <2>1. r.h.cells[s] = Shift(h.cells, c[i], BorderOf(S, W, i, k), Past, e.len)[s]
    BY <1>4, <1>12, <1>14, <1>15 DEF cells
  <2>2. h.cells[s] = NoCell => r.h.cells[s] = NoCell
    BY <1>1, <1>5, <2>1, ShiftMoves
  <2>3. ASSUME NEW m, NEW st, StandsAt(c, S, W, h.cells[s], m, st)
        PROVE  r.h.cells[s] = MovedCell(h.cells[s], c[i], BorderOf(S, W, i, k), e.len)
    <3> DEFINE old == h.cells
               from == BorderOf(S, W, i, k)
               frame == c[i]
               by == e.len
    <3>1. StandsAt(c, S, W, old[s], m, st) /\ old \in Cells
      BY <1>1, <2>3
    <3> HIDE DEF old, from, frame, by
    <3>2. Shift(old, frame, from, Past, by)[s] = MovedCell(old[s], frame, from, by)
      BY <1>1, <3>1, ShiftMoves
    <3> QED
      BY <2>1, <3>2 DEF old, from, frame, by
  <2> QED
    BY <2>2, <2>3
<1>18. c # <<>> /\ h.tail = c[Len(c)]
  <2>1. c # <<>>
    <3>1. Len(c) \in Nat
      BY <1>1, LaidIs
    <3> QED
      BY <3>1
  <2> QED
    BY <2>1 DEF MemoryRight
<1>19. h.files = <<>> => c[1] = HEAD
  <2>1. InFiles(h.files, c[i])
    BY <1>1, <1>5
  <2> QED
    BY <2>1 DEF InFiles
<1>20. room_for_frames(r.h) = room_for_frames(h)
  BY <1>12, <1>14, <1>15, RoomDepends
<1>21. /\ MemoryFits(r.h, disk) /\ r.h.tail = c[Len(c)] /\ Beside(r.h) = Beside(h)
       /\ room_for_frames(r.h) \in Nat /\ room_for_frames(h) <= room_for_frames(r.h) + 1
  BY <1>1, <1>12, <1>14, <1>15, <1>18, <1>20
<1>22. r.cell = PlaceOf(c, S, W, i, k)
  BY <1>15 DEF place
<1>23. PutBehind(h, c, S, W, k, e, r)
  BY <1>1, <1>2, <1>8, <1>16, <1>17, <1>19, <1>21, <1>22, PutLands
<1> QED
  BY <1>23 DEF r, place

-------------------------------------------------------------------------------
(* The last frame of a chain one more was put into, and the first one.     *)
LEMMA EndsOfPutIn ==
  ASSUME NEW X, NEW c \in Seq(X), NEW i \in 1 .. Len(c), NEW new \in X
  PROVE  LET d == PutIn(c, i, new)
         IN  /\ d[1] = c[1] /\ Len(d) = Len(c) + 1
             /\ d[Len(d)] = IF i = Len(c) THEN new ELSE c[Len(c)]
<1>1. Len(c) \in Nat /\ i \in 0 .. Len(c) /\ 1 \in 1 .. i
  OBVIOUS
<1>2. /\ Len(PutIn(c, i, new)) = Len(c) + 1
      /\ \A n \in 1 .. i : PutIn(c, i, new)[n] = c[n]
      /\ PutIn(c, i, new)[i + 1] = new
      /\ \A n \in i + 1 .. Len(c) : PutIn(c, i, new)[n + 1] = c[n]
  <2>1. Len(PutIn(c, i, new)) = Len(c) + 1
    BY <1>1, PutInPlaces
  <2>2. (\A n \in 1 .. i : PutIn(c, i, new)[n] = c[n]) /\ PutIn(c, i, new)[i + 1] = new
    BY <1>1, PutInPlaces
  <2>3. \A n \in i + 1 .. Len(c) : PutIn(c, i, new)[n + 1] = c[n]
    BY <1>1, PutInPlaces
  <2> QED
    BY <2>1, <2>2, <2>3
<1>3. i # Len(c) => Len(c) \in i + 1 .. Len(c)
  BY <1>1
<1> QED
  BY <1>1, <1>2, <1>3

LEMMA NothingIsPart ==
  ASSUME NEW W, NEW p \in Nat
  PROVE  IsPart(<<>>, W, p, p)
<1>1. p - p = 0 /\ \A j \in 1 .. 0 : FALSE
  OBVIOUS
<1>2. <<>> \in Seq(Entries) /\ Len(<<>>) = 0
  OBVIOUS
<1> QED
  BY <1>1, <1>2 DEF IsPart

LEMMA FirstEntry ==
  ASSUME NEW e \in Entries
  PROVE  /\ insert(NewFrame, FRAME_HEADER_LEN, <<e>>) = [entries |-> <<e>>, next |-> NoFrame]
         /\ PutIn(<<>>, 0, e) = <<e>>
<1>1. NewFrame \in Loose /\ NewFrame = [entries |-> <<>>, next |-> NoFrame]
  BY NewFrameIs DEF FrameSet, NewFrame
<1>2. insert(NewFrame, FRAME_HEADER_LEN, <<e>>) = [NewFrame EXCEPT !.entries = <<e>> \o <<>>]
  <2>1. <<e>> \in Seq(Entries)
    OBVIOUS
  <2>2. NewFrame.entries = <<>>
    BY <1>1
  <2> QED
    BY <1>1, <2>1, <2>2, PutBeforeAll
<1>3. <<e>> \o <<>> = <<e>>
  OBVIOUS
<1>4. PutIn(<<>>, 0, e) = <<e>>
  <2>1. /\ PutIn(<<>>, 0, e) \in Seq({e}) /\ Len(PutIn(<<>>, 0, e)) = 1
    <3> DEFINE p == [n \in 1 .. 1 |-> e]
    <3>1. PutIn(<<>>, 0, e) = [n \in 1 .. Len(<<>>) + 1 |->
                                 IF n <= 0 THEN <<>>[n] ELSE IF n = 0 + 1 THEN e ELSE <<>>[n - 1]]
      BY DEF PutIn
    <3>2. Len(<<>>) + 1 = 1 /\ \A n \in 1 .. 1 : n = 0 + 1 /\ ~(n <= 0)
      OBVIOUS
    <3>3. PutIn(<<>>, 0, e) = p
      BY <3>1, <3>2
    <3>4. p \in Seq({e}) /\ Len(p) = 1
      OBVIOUS
    <3> QED
      BY <3>3, <3>4
  <2> QED
    BY <2>1
<1> QED
  BY <1>1, <1>2, <1>3, <1>4

(* The first entry of an hour. *)
LEMMA PutFirst ==
  ASSUME disk.frames \in FrameMaps, NEW h, NEW S, NEW W, MemoryRight(h, disk, <<>>, S, W),
         NEW e \in Blocks, room_for_frames(h) # 0
  PROVE  PutBehind(h, <<>>, S, W, 0, e, append_frame(h, NoFrame, e))
<1> DEFINE F == FramesOf(h, disk)
           c == <<>>
           new == allocate_frame(h)
           f == insert(NewFrame, FRAME_HEADER_LEN, <<e>>)
           m == mark_dirty(new.h, new.frame, f)
           g == [m EXCEPT !.tail = new.frame]
           r == append_frame(h, NoFrame, e)
           cell == [frame |-> new.frame, offset |-> FRAME_HEADER_LEN]
<1>1. /\ h \in Slots /\ MemoryFits(h, disk) /\ F \in FrameMaps /\ IsLaid(F, c, S, W)
      /\ room_for_frames(h) \in Nat
  BY MemoryIs
<1>2. e \in Entries /\ IsEntry(e) /\ e.len \in Nat
  BY BlocksAreEntries
<1>3. r = [h |-> g, cell |-> cell]
  BY DEF append_frame
<1>4. r \in Answers
  BY <1>1, FrameIsAppended
<1>5. /\ MemoryFits(new.h, disk) /\ FramesOf(new.h, disk) = F
      /\ new.frame \in Nat /\ new.frame \notin DOMAIN F
      /\ InFiles(new.h.files, new.frame)
      /\ room_for_frames(new.h) = room_for_frames(h) - 1
      /\ new.h.cells = h.cells /\ Beside(new.h) = Beside(h)
      /\ (h.files = <<>> => new.frame = HEAD)
  BY <1>1, AllocatedFits
<1>6. f \in FrameSet /\ f.entries = <<e>> /\ f.next = NoFrame
  <2>1. f = [entries |-> <<e>>, next |-> NoFrame]
    BY <1>2, FirstEntry
  <2>2. NewFrame \in FrameSet /\ used(NewFrame) = 0
    BY NewFrameIs
  <2>3. e.len <= free(NewFrame) /\ FRAME_HEADER_LEN \in Int
    BY <2>2, BlocksAreEntries, FrameAssumption DEF free
  <2>4. f \in FrameSet
    BY <2>2, <2>3, EntryIsPut
  <2> QED
    BY <2>1, <2>4
<1> HIDE DEF new, f, F
<1>7. /\ MemoryFits(m, disk) /\ FramesOf(m, disk) = Updated(F, new.frame, f)
      /\ m.files = new.h.files /\ m.cells = new.h.cells /\ Beside(m) = Beside(new.h)
  BY <1>5, <1>6, MarkedFits
<1> HIDE DEF m, g
<1>8. /\ g \in Slots /\ g.frames = m.frames /\ g.dirty = m.dirty /\ g.files = m.files
      /\ g.tail = new.frame /\ g.cells = m.cells /\ Beside(g) = Beside(m)
  <2>1. m \in Slots
    BY <1>7 DEF MemoryFits
  <2> DEFINE t == new.frame
  <2>3. t \in Int
    BY <1>5
  <2> HIDE DEF t
  <2>4. [m EXCEPT !.tail = t] \in Slots
    BY <2>1, <2>3, SlotWith
  <2>2. g \in Slots
    BY <2>4 DEF g, t
  <2> QED
    BY <2>1, <2>2 DEF g, Slots, SlotRecords, Beside
<1>9. MemoryFits(g, disk) /\ FramesOf(g, disk) = Updated(F, new.frame, f)
  BY <1>7, <1>8, FitsWith
<1> DEFINE G == Updated(F, new.frame, f)
           b == <<new.frame>>
           T == <<0, 1>>
           V == <<e>>
<1>10. new.frame \in DOMAIN G /\ G[new.frame] = f
  BY DEF Updated
<1> HIDE DEF G
<1>11. IsLaid(G, b, T, V) /\ PutIn(W, 0, e) = V
  BY <1>1, <1>2, <1>6, <1>10, FirstLaid
<1>12. Len(b) = 1 /\ b[1] = new.frame /\ T[1] = 0 /\ T[1 + 1] = 1 /\ b # <<>>
  OBVIOUS
<1> HIDE DEF b, T, V
<1>13. MemoryRight(g, disk, b, T, V)
  BY <1>8, <1>9, <1>11, <1>12 DEF MemoryRight, G
<1>14. /\ LenOf(V, 0) = 0 /\ LenOf(V, 1) = e.len
  <2>1. V \in Seq(Entries) /\ Len(V) = 1 /\ V[1] = e
    BY <1>2 DEF V
  <2>2. LenOf(V, 0) = 0 /\ 1 \in 1 .. Len(V) /\ 1 - 1 = 0
    BY <2>1, LengthsAre
  <2>3. LenOf(V, 1) = LenOf(V, 1 - 1) + V[1].len
    BY <2>1, <2>2, LengthsAre
  <2> QED
    BY <1>2, <2>1, <2>2, <2>3
<1>15. StandsAt(b, T, V, cell, 0, TRUE)
  <2>1. cell = PlaceOf(b, T, V, 1, 0)
    BY <1>12, <1>14, FrameAssumption DEF PlaceOf, BorderOf
  <2>2. 1 \in 1 .. Len(b) /\ 0 \in Nat /\ T[1] <= 0 /\ 0 <= T[1 + 1] /\ 0 < T[1 + 1]
    BY <1>12
  <2> HIDE DEF cell
  <2> QED
    BY <2>1, <2>2 DEF StandsAt
<1>16. StandsAt(b, T, V, [cell EXCEPT !.offset = @ + e.len], 0 + 1, FALSE)
  <2>1. [cell EXCEPT !.offset = @ + e.len] = PlaceOf(b, T, V, 1, 1)
    BY <1>2, <1>12, <1>14, FrameAssumption DEF PlaceOf, BorderOf
  <2>2. 1 \in 1 .. Len(b) /\ 1 \in Nat /\ T[1] <= 1 /\ 1 <= T[1 + 1] /\ 0 + 1 = 1
    BY <1>12
  <2> DEFINE x == [cell EXCEPT !.offset = @ + e.len]
  <2> HIDE DEF cell, x
  <2>3. StandsAt(b, T, V, x, 1, FALSE)
    BY <2>1, <2>2 DEF StandsAt, x
  <2> QED
    BY <2>2, <2>3 DEF x
<1>17. CellsPushed(h.cells, g.cells, c, S, W, 0, b, T, V)
  <2>1. g.cells = h.cells
    BY <1>5, <1>7, <1>8
  <2>2. \A x, k, st : ~StandsAt(c, S, W, x, k, st)
    BY DEF StandsAt
  <2> HIDE DEF c
  <2> QED
    BY <2>1, <2>2 DEF CellsPushed
<1>18. room_for_frames(g) = room_for_frames(h) - 1
  <2>1. g.files = new.h.files
    BY <1>7, <1>8
  <2> QED
    BY <1>5, <2>1, RoomDepends
<1>19. /\ room_for_frames(g) \in Nat /\ room_for_frames(h) <= room_for_frames(g) + 1
       /\ Beside(g) = Beside(h)
  BY <1>1, <1>5, <1>7, <1>8, <1>18
<1> HIDE DEF r, cell
<1>20. r.h = g /\ r.cell = cell
  BY <1>3
<1>21. c = <<>> /\ (h.files = <<>> => b[1] = HEAD)
  BY <1>5, <1>12
<1> HIDE DEF c
<1>22. \E a, X : /\ MemoryRight(r.h, disk, a, X, V)
                 /\ StandsAt(a, X, V, r.cell, 0, TRUE)
                 /\ StandsAt(a, X, V, [r.cell EXCEPT !.offset = @ + e.len], 0 + 1, FALSE)
                 /\ CellsPushed(h.cells, r.h.cells, c, S, W, 0, a, X, V)
                 /\ (c # <<>> => a[1] = c[1]) /\ (h.files = <<>> => a[1] = HEAD) /\ a # <<>>
  BY <1>12, <1>13, <1>15, <1>16, <1>17, <1>20, <1>21
<1>23. PutBehind(h, c, S, W, 0, e, r)
  BY <1>4, <1>11, <1>19, <1>20, <1>22 DEF PutBehind
<1> QED
  BY <1>23 DEF c, r

-------------------------------------------------------------------------------
(* One more frame at the end of the chain, for an entry behind all others. *)
LEMMA PutAtEnd ==
  ASSUME disk.frames \in FrameMaps, NEW h, NEW c, NEW S, NEW W, MemoryRight(h, disk, c, S, W),
         NEW i \in 1 .. Len(c), i = Len(c), NEW k, k = S[i + 1], NEW e \in Blocks,
         room_for_frames(h) # 0
  PROVE  PutBehind(h, c, S, W, k, e, append_frame(h, c[i], e))
<1> DEFINE F == FramesOf(h, disk)
           new == allocate_frame(h)
           f == insert(NewFrame, FRAME_HEADER_LEN, <<e>>)
           m == mark_dirty(new.h, new.frame, f)
           last == [F[c[i]] EXCEPT !.next = new.frame]
           g == mark_dirty(m, c[i], last)
           t == [g EXCEPT !.tail = new.frame]
           r == append_frame(h, c[i], e)
           cell == [frame |-> new.frame, offset |-> FRAME_HEADER_LEN]
<1>1. /\ h \in Slots /\ MemoryFits(h, disk) /\ F \in FrameMaps /\ IsLaid(F, c, S, W)
      /\ room_for_frames(h) \in Nat /\ \A n \in DOMAIN F : n \in Nat /\ InFiles(h.files, n)
  BY MemoryIs
<1>2. e \in Entries /\ IsEntry(e) /\ e.len \in Nat
  BY BlocksAreEntries
<1>4. /\ c[i] \in DOMAIN F /\ c[i] \in Nat /\ F[c[i]] \in WholeFrames
      /\ S[i] \in Nat /\ S[i + 1] \in Nat /\ S[i] <= S[i + 1]
      /\ F[c[i]].next = NextIn(c, i) /\ IsPart(F[c[i]].entries, W, S[i], S[i + 1])
  BY <1>1, FrameInLaid
<1>3. r = [h |-> t, cell |-> cell]
  <2>1. c[i] # NoFrame
    BY <1>4 DEF NoFrame
  <2> QED
    BY <2>1 DEF append_frame
<1>5. r \in Answers
  BY <1>1, <1>4, FrameIsAppended
<1>6. /\ MemoryFits(new.h, disk) /\ FramesOf(new.h, disk) = F
      /\ new.frame \in Nat /\ new.frame \notin DOMAIN F
      /\ InFiles(new.h.files, new.frame)
      /\ room_for_frames(new.h) = room_for_frames(h) - 1
      /\ new.h.cells = h.cells /\ Beside(new.h) = Beside(h)
  BY <1>1, AllocatedFits
<1>7. f \in FrameSet /\ f.entries = <<e>> /\ f.next = NoFrame
  <2>1. f = [entries |-> <<e>>, next |-> NoFrame]
    BY <1>2, FirstEntry
  <2>2. NewFrame \in FrameSet /\ used(NewFrame) = 0
    BY NewFrameIs
  <2>3. e.len <= free(NewFrame) /\ FRAME_HEADER_LEN \in Int
    BY <2>2, BlocksAreEntries, FrameAssumption DEF free
  <2>4. f \in FrameSet
    BY <2>2, <2>3, EntryIsPut
  <2> QED
    BY <2>1, <2>4
<1>8. last \in FrameSet /\ last.entries = F[c[i]].entries /\ last.next = new.frame
  <2> DEFINE x == F[c[i]]
             n == new.frame
  <2>1. x \in FrameSet /\ x \in Loose /\ n \in Int
    BY <1>4, <1>6, WholeFrameIs
  <2> HIDE DEF x, n
  <2>2. [x EXCEPT !.next = n] \in Loose /\ used([x EXCEPT !.next = n]) = used(x)
    BY <2>1, UsedIs, OtherEntries
  <2>3. [x EXCEPT !.next = n] \in FrameSet
    BY <2>1, <2>2 DEF FrameSet
  <2>4. [x EXCEPT !.next = n].entries = x.entries /\ [x EXCEPT !.next = n].next = n
    BY <2>1 DEF Loose
  <2> QED
    BY <2>3, <2>4 DEF x, n
<1> HIDE DEF new, f, F, last
<1>9. /\ MemoryFits(m, disk) /\ FramesOf(m, disk) = Updated(F, new.frame, f)
      /\ m.files = new.h.files /\ m.cells = new.h.cells /\ Beside(m) = Beside(new.h)
  BY <1>6, <1>7, MarkedFits
<1> HIDE DEF m
<1>10. /\ MemoryFits(g, disk) /\ FramesOf(g, disk) = Updated(Updated(F, new.frame, f), c[i], last)
       /\ g.files = new.h.files /\ g.cells = new.h.cells /\ Beside(g) = Beside(new.h)
  <2>1. InFiles(m.files, c[i])
    <3>1. MemoryFits(m, disk) /\ c[i] \in DOMAIN FramesOf(m, disk)
      BY <1>4, <1>9 DEF Updated
    <3> QED
      BY <3>1, FramesShown DEF MemoryFits
  <2>2. c[i] \in Nat /\ last \in FrameSet /\ MemoryFits(m, disk)
    BY <1>4, <1>8, <1>9
  <2>3. /\ MemoryFits(g, disk) /\ FramesOf(g, disk) = Updated(FramesOf(m, disk), c[i], last)
        /\ g.files = m.files /\ g.cells = m.cells /\ Beside(g) = Beside(m)
    BY <2>1, <2>2, MarkedFits
  <2> QED
    BY <1>9, <2>3
<1> HIDE DEF g, t
<1>11. /\ t \in Slots /\ t.frames = g.frames /\ t.dirty = g.dirty /\ t.files = g.files
       /\ t.tail = new.frame /\ t.cells = g.cells /\ Beside(t) = Beside(g)
  <2>1. g \in Slots
    BY <1>10 DEF MemoryFits
  <2> DEFINE n == new.frame
  <2>3. n \in Int
    BY <1>6
  <2> HIDE DEF n
  <2>4. [g EXCEPT !.tail = n] \in Slots
    BY <2>1, <2>3, SlotWith
  <2>2. t \in Slots
    BY <2>4 DEF t, n
  <2> QED
    BY <2>1, <2>2 DEF t, Slots, SlotRecords, Beside
<1>12. MemoryFits(t, disk) /\ FramesOf(t, disk) = Updated(Updated(F, new.frame, f), c[i], last)
  BY <1>10, <1>11, FitsWith
(* The frame is empty first, and then the entry is put into it.            *)
<1> DEFINE E == [entries |-> <<>>, next |-> NoFrame]
           M == Updated(Updated(F, new.frame, E), c[i], last)
           G == Updated(Updated(F, new.frame, f), c[i], last)
           b == PutIn(c, i, new.frame)
           T == PutIn(S, i, k)
<1>13. c[i] # new.frame
  BY <1>4, <1>6
<1>14. /\ DOMAIN M = DOMAIN F \union {new.frame} /\ DOMAIN G = DOMAIN M
       /\ M[new.frame] = E /\ M[c[i]] = last /\ G[new.frame] = f /\ G[c[i]] = last
       /\ \A n \in DOMAIN F : n # c[i] => M[n] = F[n]
       /\ \A n \in DOMAIN M : n # new.frame => G[n] = M[n]
  BY <1>4, <1>6, <1>13 DEF Updated
<1>15. E.entries = <<>> /\ E.next = NoFrame
  OBVIOUS
<1> HIDE DEF M, G, E
<1>16. CutWith(M, c, S, W, i, k, new.frame)
  <2>1. /\ k \in S[i] .. S[i + 1] /\ new.frame \notin DOMAIN F /\ new.frame \in DOMAIN M
        /\ Others(F, M, {c[i]})
    BY <1>4, <1>6, <1>14 DEF Others
  <2>2. M[c[i]].next = new.frame /\ M[new.frame].next = F[c[i]].next
    BY <1>4, <1>8, <1>14, <1>15 DEF NextIn
  <2>3. IsPart(M[c[i]].entries, W, S[i], k) /\ IsPart(M[new.frame].entries, W, k, S[i + 1])
    BY <1>4, <1>8, <1>14, <1>15, NothingIsPart
  <2> QED
    BY <1>1, <2>1, <2>2, <2>3, SplitLaid
<1>17. /\ IsLaid(M, b, T, W) /\ Len(b) = Len(c) + 1 /\ b[i] = c[i] /\ b[i + 1] = new.frame
       /\ T[i + 1] = k /\ T[i + 2] = k
       /\ \A x, l, st : StandsAt(c, S, W, x, l, st) => StandsAt(b, T, W, x, l, st)
  BY <1>16 DEF CutWith
<1>18. Len(c) \in Nat /\ i \in Nat /\ i >= 1
  BY <1>1, LaidIs
<1>19. b[1] = c[1] /\ c # <<>>
  <2> DEFINE X == DOMAIN F \union {new.frame}
  <2>1. c \in Seq(DOMAIN F)
    BY <1>1 DEF IsLaid
  <2>2. c \in Seq(X) /\ new.frame \in X
    BY <2>1
  <2> HIDE DEF X
  <2>3. PutIn(c, i, new.frame)[1] = c[1]
    BY <2>2, EndsOfPutIn
  <2> QED
    BY <1>18, <2>3
<1> HIDE DEF b, T
<1> DEFINE j == i + 1
<1>20. /\ j \in 1 .. Len(b) /\ k \in T[j] .. T[j + 1] /\ b[j] = new.frame /\ T[j] = k
       /\ j = Len(b)
  <2>1. j + 1 = i + 2
    BY <1>18
  <2> QED
    BY <1>4, <1>17, <1>18, <2>1
<1> HIDE DEF j, r, cell
<1>21. r.h = t /\ r.cell = cell
  BY <1>3
<1>22. FramesOf(r.h, disk) = G
  BY <1>12, <1>21 DEF G
<1>23. /\ Others(M, FramesOf(r.h, disk), {b[j]})
       /\ FramesOf(r.h, disk)[b[j]].next = M[b[j]].next
       /\ FramesOf(r.h, disk)[b[j]].entries = PutIn(M[b[j]].entries, k - T[j], e)
  <2>1. Others(M, G, {new.frame})
    BY <1>14 DEF Others
  <2>2. k - T[j] = 0
    BY <1>4, <1>20
  <2>3. PutIn(<<>>, 0, e) = <<e>>
    BY <1>2, FirstEntry
  <2> QED
    BY <1>7, <1>14, <1>15, <1>20, <1>22, <2>1, <2>2, <2>3
<1>24. BorderOf(T, W, j, k) = FRAME_HEADER_LEN
  <2>1. j \in 1 .. Len(b) /\ k \in T[j] .. T[j + 1]
    BY <1>20
  <2>2. BorderOf(T, W, j, T[j]) = FRAME_HEADER_LEN
    BY <1>17, <2>1, BordersOfLaid
  <2> QED
    BY <1>20, <2>2
<1>25. r.cell = PlaceOf(b, T, W, j, k)
  BY <1>20, <1>21, <1>24 DEF cell, PlaceOf
<1>26. CellsMoved(h.cells, r.h.cells, c, S, W, b, T, j, k, e.len)
  <2>1. r.h.cells = h.cells
    BY <1>6, <1>10, <1>11, <1>21
  <2> SUFFICES ASSUME NEW s \in Seconds
               PROVE  \A l, st : StandsAt(c, S, W, h.cells[s], l, st) =>
                        \E z : /\ StandsAt(b, T, W, z, l, st)
                               /\ h.cells[s] = MovedCell(z, b[j], BorderOf(T, W, j, k), e.len)
    BY <2>1 DEF CellsMoved
  <2>2. ASSUME NEW l, NEW st, StandsAt(c, S, W, h.cells[s], l, st)
        PROVE  \E z : /\ StandsAt(b, T, W, z, l, st)
                      /\ h.cells[s] = MovedCell(z, b[j], BorderOf(T, W, j, k), e.len)
    <3>1. h.cells[s].frame \in DOMAIN F
      BY <1>1, <2>2, StandingIs
    <3>2. h.cells[s].frame # b[j]
      BY <1>6, <1>20, <3>1
    <3>3. h.cells[s] = MovedCell(h.cells[s], b[j], BorderOf(T, W, j, k), e.len)
      BY <3>2 DEF MovedCell
    <3>4. StandsAt(b, T, W, h.cells[s], l, st)
      BY <1>17, <2>2
    <3> QED
      BY <3>3, <3>4
  <2> QED
    BY <2>2
<1>27. h.files = <<>> => b[1] = HEAD
  <2>1. InFiles(h.files, c[i])
    BY <1>1, <1>4
  <2> QED
    BY <2>1 DEF InFiles
<1>28. room_for_frames(r.h) = room_for_frames(h) - 1
  <2>1. r.h.files = new.h.files
    BY <1>10, <1>11, <1>21
  <2> QED
    BY <1>6, <2>1, RoomDepends
<1>29. /\ MemoryFits(r.h, disk) /\ r.h.tail = b[Len(b)] /\ Beside(r.h) = Beside(h)
       /\ room_for_frames(r.h) \in Nat /\ room_for_frames(h) <= room_for_frames(r.h) + 1
       /\ (c # <<>> => b[1] = c[1])
  BY <1>1, <1>6, <1>10, <1>11, <1>12, <1>19, <1>20, <1>21, <1>28
<1>30. PutBehind(h, c, S, W, k, e, r)
  BY <1>1, <1>2, <1>5, <1>17, <1>20, <1>23, <1>25, <1>26, <1>27, <1>29, PutLands
<1> QED
  BY <1>30 DEF r

-------------------------------------------------------------------------------
(* The borders a full frame may be halved at: before each of its entries   *)
(* but the first.                                                          *)
LEMMA BoundariesAre ==
  ASSUME NEW f \in WholeFrames
  PROVE  /\ \A j \in 2 .. Len(f.entries) : OffsetOf(f, j) \in Boundaries(f)
         /\ \A b \in Boundaries(f) : \E j \in 2 .. Len(f.entries) : b = OffsetOf(f, j)
<1> DEFINE N == Len(f.entries)
<1>1. f \in Loose /\ N \in Nat /\ Reading(f) = 1 .. N
  BY WholeFrameIs
<1>2. Boundaries(f) = {OffsetOf(f, j) : j \in 1 .. N} \ {FRAME_HEADER_LEN}
  <2>1. Range(entry_offsets(f)) = {OffsetOf(f, j) : j \in 1 .. N}
    BY <1>1 DEF Range, entry_offsets
  <2> QED
    BY <2>1 DEF Boundaries
<1>3. OffsetOf(f, 1) = FRAME_HEADER_LEN
  BY <1>1, BordersAre
<1>4. \A j \in 1 .. N : OffsetOf(f, j) = FRAME_HEADER_LEN <=> j = 1
  <2> TAKE j \in 1 .. N
  <2>1. j \in 1 .. N + 1 /\ 1 \in 1 .. N + 1
    BY <1>1
  <2>2. j = 1 <=> OffsetOf(f, j) = OffsetOf(f, 1)
    BY <1>1, <2>1, BordersGrow
  <2> QED
    BY <1>3, <2>2
<1> HIDE DEF N
<1>5. \A j \in 2 .. N : j \in 1 .. N /\ j # 1
  BY <1>1
<1>6. \A j \in 1 .. N : j # 1 => j \in 2 .. N
  BY <1>1
<1> QED
  BY <1>2, <1>4, <1>5, <1>6 DEF N

(* Half a frame, and another half of an entry, and an entry more, fit.     *)
LEMMA HalfFits ==
  ASSUME NEW u \in Nat, NEW M \in Nat, NEW C \in Nat, NEW l \in Int, NEW len \in Nat,
         u <= C, 3 * M <= C, len <= M,
         2 * (IF l > u \div 2 THEN l - u \div 2 ELSE u \div 2 - l) <= M
  PROVE  l + len <= C /\ u - l + len <= C
<1> DEFINE mid == u \div 2
<1>1. mid \in Nat /\ 2 * mid <= u /\ u <= 2 * mid + 1
  OBVIOUS
<1> HIDE DEF mid
<1>2. 2 * (l - mid) <= M /\ 2 * (mid - l) <= M
  <2>1. 2 * (IF l > mid THEN l - mid ELSE mid - l) <= M
    BY DEF mid
  <2>2. CASE l > mid
    BY <1>1, <2>1, <2>2
  <2>3. CASE ~(l > mid)
    BY <1>1, <2>1, <2>3
  <2> QED
    BY <2>2, <2>3
<1>3. 2 * l + 2 * len <= u + 3 * M
  BY <1>1, <1>2
<1>4. 2 * u - 2 * l + 2 * len <= u + 1 + 3 * M
  BY <1>1, <1>2
<1> QED
  BY <1>3, <1>4

(* The first border behind the middle, and the one before it, are borders  *)
(* between two entries; one of them is half an entry from the middle.      *)
LEMMA ANearBorder ==
  ASSUME NEW f \in WholeFrames, used(f) > 2 * MAX_PAYLOAD_LEN
  PROVE  \E j \in 2 .. Len(f.entries) : 2 * FromTheMiddle(f, OffsetOf(f, j)) <= MAX_PAYLOAD_LEN
<1> DEFINE E == f.entries
           N == Len(f.entries)
           u == used(f)
           mid == u \div 2
           M == MAX_PAYLOAD_LEN
           Behind == {n \in 0 .. N : LenOf(E, n) > mid}
           q == Min(Behind)
<1>1. E \in Seq(Entries) /\ N \in Nat /\ u \in Nat /\ M \in Nat /\ u = LenOf(E, N)
  BY WholeFrameIs, MetricBlockAssumption DEF used
<1>2. /\ LenOf(E, 0) = 0 /\ \A n \in 0 .. N : LenOf(E, n) \in Nat
      /\ \A n \in 1 .. N : LenOf(E, n) = LenOf(E, n - 1) + E[n].len
  BY <1>1, LengthsAre
<1>3. \A n \in 1 .. N : E[n].len \in Nat /\ E[n].len <= M
  <2> TAKE n \in 1 .. N
  <2>1. IsEntry(E[n])
    BY DEF WholeFrames
  <2> HIDE DEF E, N
  <2>2. E[n] \in Entries
    BY <1>1 DEF N, E
  <2> QED
    BY <2>1, <2>2 DEF Entries
<1>4. mid \in Nat /\ 2 * mid <= u /\ u <= 2 * mid + 1
  BY <1>1
<1>5. u > 2 * M
  OBVIOUS
<1> HIDE DEF E, N, u, mid, M
<1>6. N \in Behind /\ Behind \subseteq Nat
  BY <1>1, <1>2, <1>4, <1>5 DEF Behind
<1>7. q \in Behind /\ \A x \in Behind : q <= x
  <2> HIDE DEF Behind
  <2> QED
    BY <1>6, MinIs
<1> HIDE DEF q
<1>8. q \in 1 .. N /\ q - 1 \in 0 .. N /\ LenOf(E, q) > mid /\ LenOf(E, q - 1) <= mid
  <2>1. q \in 0 .. N /\ LenOf(E, q) > mid
    BY <1>7 DEF Behind
  <2>2. q # 0
    BY <1>2, <1>4, <2>1
  <2>3. q \in 1 .. N /\ q - 1 \in 0 .. N /\ q - 1 < q
    BY <1>1, <2>1, <2>2
  <2>4. LenOf(E, q - 1) <= mid
    <3>1. q - 1 \notin Behind
      BY <1>7, <2>3
    <3>2. ~(LenOf(E, q - 1) > mid)
      BY <2>3, <3>1 DEF Behind
    <3>3. LenOf(E, q - 1) \in Nat
      BY <1>2, <2>3
    <3> QED
      BY <1>4, <3>2, <3>3
  <2> QED
    BY <2>1, <2>3, <2>4
<1>9. /\ LenOf(E, q) \in Nat /\ LenOf(E, q - 1) \in Nat
      /\ LenOf(E, q) - LenOf(E, q - 1) <= M
  <2>1. q \in 0 .. N
    BY <1>1, <1>8
  <2>2. LenOf(E, q) = LenOf(E, q - 1) + E[q].len /\ E[q].len \in Nat /\ E[q].len <= M
    BY <1>2, <1>3, <1>8
  <2>3. LenOf(E, q) \in Nat /\ LenOf(E, q - 1) \in Nat
    BY <1>2, <1>8, <2>1
  <2> QED
    BY <1>1, <2>2, <2>3
<1>10. q - 1 # 0
  BY <1>1, <1>2, <1>4, <1>5, <1>8, <1>9
<1>11. q # N
  BY <1>1, <1>2, <1>4, <1>5, <1>8, <1>9
<1>12. q \in 2 .. N /\ q + 1 \in 2 .. N
  BY <1>1, <1>8, <1>10, <1>11
<1>13. /\ OffsetOf(f, q) = FRAME_HEADER_LEN + LenOf(E, q - 1)
       /\ OffsetOf(f, q + 1) = FRAME_HEADER_LEN + LenOf(E, q)
  <2>1. q + 1 - 1 = q
    BY <1>8
  <2> DEFINE j == q + 1
  <2> HIDE DEF j
  <2>2. j - 1 = q
    BY <1>8 DEF j
  <2>3. OffsetOf(f, j) = FRAME_HEADER_LEN + LenOf(E, q)
    BY <2>2 DEF OffsetOf, E
  <2> QED
    BY <2>3 DEF OffsetOf, E, j
<1>14. /\ FromTheMiddle(f, OffsetOf(f, q)) = mid - LenOf(E, q - 1)
       /\ FromTheMiddle(f, OffsetOf(f, q + 1)) = LenOf(E, q) - mid
  <2> DEFINE x == LenOf(E, q - 1)
             y == LenOf(E, q)
  <2>1. x \in Nat /\ y \in Nat /\ x <= mid /\ y > mid /\ FRAME_HEADER_LEN \in Nat
    BY <1>8, <1>9, FrameAssumption
  <2>2. OffsetOf(f, q) = FRAME_HEADER_LEN + x /\ OffsetOf(f, q + 1) = FRAME_HEADER_LEN + y
    BY <1>13
  <2> HIDE DEF x, y
  <2>3. \A b : FromTheMiddle(f, b) = Apart(b, FRAME_HEADER_LEN + mid)
    BY DEF FromTheMiddle, mid, u
  <2>4. FromTheMiddle(f, FRAME_HEADER_LEN + x) = mid - x
    <3>1. Apart(FRAME_HEADER_LEN + x, FRAME_HEADER_LEN + mid) = mid - x
      BY <1>4, <2>1 DEF Apart
    <3> QED
      BY <2>3, <3>1
  <2>5. FromTheMiddle(f, FRAME_HEADER_LEN + y) = y - mid
    <3>1. Apart(FRAME_HEADER_LEN + y, FRAME_HEADER_LEN + mid) = y - mid
      BY <1>4, <2>1 DEF Apart
    <3> QED
      BY <2>3, <3>1
  <2> QED
    BY <2>2, <2>4, <2>5 DEF x, y
<1>15. \/ 2 * (mid - LenOf(E, q - 1)) <= M
       \/ 2 * (LenOf(E, q) - mid) <= M
  BY <1>1, <1>4, <1>9
<1> QED
  BY <1>12, <1>14, <1>15 DEF N, M

(* A frame which has no room for an entry is halved between two of its     *)
(* entries, and either half has room for the entry it is halved for - so   *)
(* it never fails for a single entry or a half which is too long, whatever *)
(* the lengths of the entries (halve_and_insert; frame.rs:27: "a full      *)
(* frame then always holds at least three entries").                       *)
THEOREM HalvesFit ==
  ASSUME NEW f \in WholeFrames, NEW len \in Nat, len <= MAX_PAYLOAD_LEN, len > free(f)
  PROVE  /\ Boundaries(f) # {}
         /\ \E j \in 2 .. Len(f.entries) :
              /\ Halves(f) = OffsetOf(f, j)
              /\ Halves(f) - FRAME_HEADER_LEN + len <= FRAME_CAPACITY
              /\ records_end(f) - Halves(f) + len <= FRAME_CAPACITY
<1> DEFINE u == used(f)
           M == MAX_PAYLOAD_LEN
           C == FRAME_CAPACITY
           H == FRAME_HEADER_LEN
           B == Halves(f)
<1>1. /\ u \in Nat /\ u <= C /\ free(f) = C - u /\ records_end(f) = H + u /\ f \in Loose
      /\ M \in Nat /\ C \in Nat /\ H \in Nat /\ 3 * M <= C
  BY WholeFrameIs, FrameAssumption, MetricBlockAssumption
<1>2. u > 2 * M
  BY <1>1
<1>3. PICK j \in 2 .. Len(f.entries) : 2 * FromTheMiddle(f, OffsetOf(f, j)) <= M
  BY <1>2, ANearBorder
<1>4. OffsetOf(f, j) \in Boundaries(f)
  BY BoundariesAre
<1>5. B \in Boundaries(f) /\ FromTheMiddle(f, B) <= FromTheMiddle(f, OffsetOf(f, j))
  BY <1>1, <1>4, HalvesIs
<1>6. PICK i \in 2 .. Len(f.entries) : B = OffsetOf(f, i)
  BY <1>5, BoundariesAre
<1>7. B \in Int /\ OffsetOf(f, j) \in Int
  <2>1. i \in 1 .. Len(f.entries) + 1 /\ j \in 1 .. Len(f.entries) + 1
    <3>1. Len(f.entries) \in Nat
      BY WholeFrameIs
    <3> QED
      BY <3>1
  <2> QED
    BY <1>1, <1>6, <2>1, OffsetsAre
<1> HIDE DEF B, u, M, C, H
<1>8. 2 * FromTheMiddle(f, B) <= M
  <2> DEFINE mid == FRAME_HEADER_LEN + used(f) \div 2
             y == OffsetOf(f, j)
  <2>2. mid \in Int
    BY <1>1, FrameAssumption DEF u
  <2>3. B \in Int /\ y \in Int
    BY <1>7
  <2>4. FromTheMiddle(f, B) = Apart(B, mid) /\ FromTheMiddle(f, y) = Apart(y, mid)
    BY DEF FromTheMiddle
  <2> HIDE DEF mid, y
  <2>5. Apart(B, mid) \in Int /\ Apart(y, mid) \in Int
    BY <2>2, <2>3 DEF Apart
  <2>1. FromTheMiddle(f, B) \in Int /\ FromTheMiddle(f, OffsetOf(f, j)) \in Int
    BY <2>4, <2>5 DEF y
  <2> QED
    BY <1>1, <1>3, <1>5, <2>1
<1> DEFINE l == B - H
<1>9. l \in Int /\ 2 * (IF l > u \div 2 THEN l - u \div 2 ELSE u \div 2 - l) <= M
  <2> DEFINE half == u \div 2
  <2>1. FromTheMiddle(f, B) = Apart(B, H + half)
    BY DEF FromTheMiddle, H, u
  <2>2. half \in Nat
    BY <1>1
  <2> HIDE DEF half
  <2>3. Apart(B, H + half) = IF l > half THEN l - half ELSE half - l
    BY <1>1, <1>7, <2>2 DEF Apart
  <2>4. 2 * (IF l > half THEN l - half ELSE half - l) <= M
    BY <1>8, <2>1, <2>3
  <2> QED
    BY <1>1, <1>7, <2>4 DEF half
<1> HIDE DEF l
<1>10. l + len <= C /\ u - l + len <= C
  BY <1>1, <1>9, HalfFits DEF M
<1>11. B - H + len <= C /\ records_end(f) - B + len <= C
  BY <1>1, <1>7, <1>10 DEF l
<1> QED
  BY <1>4, <1>6, <1>11 DEF B, C, H

-------------------------------------------------------------------------------
(* Other cells and another end leave the frames as they are.               *)
CellsChanged(g, x, n, r) ==
  /\ MemoryFits(r, disk) /\ FramesOf(r, disk) = FramesOf(g, disk)
  /\ r.files = g.files /\ r.cells = x /\ r.tail = n /\ Beside(r) = Beside(g)
LEMMA CellsAndTail ==
  ASSUME disk.frames \in FrameMaps, NEW g, MemoryFits(g, disk), NEW x \in Cells, NEW n \in Int,
         NEW r, r = [g EXCEPT !.cells = x, !.tail = n]
  PROVE  CellsChanged(g, x, n, r)
<1> DEFINE u == [g EXCEPT !.cells = x]
           t == [u EXCEPT !.tail = n]
<1>1. g \in Slots
  BY DEF MemoryFits
<1>2. u \in Slots
  BY <1>1, SlotWith
<1>3. /\ u.frames = g.frames /\ u.dirty = g.dirty /\ u.files = g.files /\ u.cells = x
      /\ Beside(u) = Beside(g)
  BY <1>1 DEF Slots, SlotRecords, Beside
<1>4. [g EXCEPT !.cells = x, !.tail = n] = [[g EXCEPT !.cells = x] EXCEPT !.tail = n]
  BY <1>1 DEF Slots, SlotRecords
<1> HIDE DEF u
<1>5. t \in Slots
  BY <1>2, SlotWith
<1>6. /\ t.frames = u.frames /\ t.dirty = u.dirty /\ t.files = u.files /\ t.cells = u.cells
      /\ t.tail = n /\ Beside(t) = Beside(u)
  BY <1>2 DEF Slots, SlotRecords, Beside
<1> HIDE DEF t
<1>7. MemoryFits(t, disk) /\ FramesOf(t, disk) = FramesOf(g, disk)
  BY <1>3, <1>5, <1>6, FitsWith
<1>8. t = r
  BY <1>4 DEF t, u
<1> QED
  BY <1>3, <1>6, <1>7, <1>8 DEF CellsChanged

(* Two frames changed one after the other. *)
LEMMA TwoMarked ==
  ASSUME disk.frames \in FrameMaps, NEW g, MemoryFits(g, disk),
         NEW x \in Nat, InFiles(g.files, x), NEW A \in FrameSet,
         NEW y \in Nat, InFiles(g.files, y), NEW B \in FrameSet
  PROVE  LET t == mark_dirty(mark_dirty(g, x, A), y, B)
         IN  /\ MemoryFits(t, disk)
             /\ FramesOf(t, disk) = Updated(Updated(FramesOf(g, disk), x, A), y, B)
             /\ t.files = g.files /\ t.cells = g.cells /\ t.tail = g.tail /\ Beside(t) = Beside(g)
<1> DEFINE m == mark_dirty(g, x, A)
           t == mark_dirty(m, y, B)
<1>1. /\ MemoryFits(m, disk) /\ FramesOf(m, disk) = Updated(FramesOf(g, disk), x, A)
      /\ m.files = g.files /\ m.cells = g.cells /\ m.tail = g.tail /\ Beside(m) = Beside(g)
  BY MarkedFits
<1> HIDE DEF m
<1>2. InFiles(m.files, y)
  BY <1>1
<1>3. /\ MemoryFits(t, disk) /\ FramesOf(t, disk) = Updated(FramesOf(m, disk), y, B)
      /\ t.files = m.files /\ t.cells = m.cells /\ t.tail = m.tail /\ Beside(t) = Beside(m)
  BY <1>1, <1>2, MarkedFits
<1> HIDE DEF t
<1>4. /\ MemoryFits(t, disk)
      /\ FramesOf(t, disk) = Updated(Updated(FramesOf(g, disk), x, A), y, B)
      /\ t.files = g.files /\ t.cells = g.cells /\ t.tail = g.tail /\ Beside(t) = Beside(g)
  BY <1>1, <1>3
<1> QED
  BY <1>4 DEF t, m

(* Where a cell goes when its frame is halved. *)
HalvedCell(x, place, boundary, to, len, upperLen, intoNext) ==
  LET lower == place.offset <= boundary
  IN  CASE x.frame = place.frame /\ x.offset >= boundary ->
             [frame |-> to, offset |-> x.offset - boundary + FRAME_HEADER_LEN
                + (IF ~lower /\ x.offset >= place.offset THEN len ELSE 0)]
        [] x.frame = place.frame /\ x.offset < boundary /\ lower
             /\ x.offset >= place.offset -> [x EXCEPT !.offset = @ + len]
        [] intoNext /\ x.frame = to -> [x EXCEPT !.offset = @ + upperLen]
        [] OTHER -> x

HalvedCellWith(x, place, frame, boundary, to, len, upperLen, intoNext, y) ==
  /\ y \in Places
  /\ x = NoCell /\ frame # NoFrame /\ to # NoFrame => y = NoCell
  /\ ~intoNext /\ x.frame # to /\ place.offset <= boundary =>
       y = MovedCell(SplitCell(x, frame, boundary, to), frame, place.offset, len)
  /\ ~intoNext /\ x.frame # to /\ place.offset > boundary =>
       y = MovedCell(SplitCell(x, frame, boundary, to), to,
                     place.offset - boundary + FRAME_HEADER_LEN, len)
  /\ intoNext /\ place.offset <= boundary =>
       y = MovedCell(NextCell(x, frame, boundary, to, upperLen), frame, place.offset, len)
  /\ intoNext /\ place.offset > boundary /\ x.offset >= FRAME_HEADER_LEN
       /\ place.offset - boundary <= upperLen - len =>
       y = MovedCell(NextCell(x, frame, boundary, to, upperLen - len), to,
                     place.offset - boundary + FRAME_HEADER_LEN, len)

LEMMA HalvedCellIs ==
  ASSUME NEW x \in Places, NEW place \in Places, NEW frame, frame = place.frame,
         NEW boundary \in Int, NEW to \in Int, to # frame, NEW len \in Nat, NEW upperLen \in Int,
         NEW intoNext \in BOOLEAN,
         NEW y, y = HalvedCell(x, place, boundary, to, len, upperLen, intoNext)
  PROVE  HalvedCellWith(x, place, frame, boundary, to, len, upperLen, intoNext, y)
<1> DEFINE lower == place.offset <= boundary
<1> SUFFICES  /\ y \in Places
              /\ x = NoCell /\ frame # NoFrame /\ to # NoFrame => y = NoCell
              /\ ~intoNext /\ x.frame # to /\ place.offset <= boundary =>
                   y = MovedCell(SplitCell(x, frame, boundary, to), frame, place.offset, len)
              /\ ~intoNext /\ x.frame # to /\ place.offset > boundary =>
                   y = MovedCell(SplitCell(x, frame, boundary, to), to,
                                 place.offset - boundary + FRAME_HEADER_LEN, len)
              /\ intoNext /\ place.offset <= boundary =>
                   y = MovedCell(NextCell(x, frame, boundary, to, upperLen), frame, place.offset, len)
              /\ intoNext /\ place.offset > boundary /\ x.offset >= FRAME_HEADER_LEN
                   /\ place.offset - boundary <= upperLen - len =>
                   y = MovedCell(NextCell(x, frame, boundary, to, upperLen - len), to,
                                 place.offset - boundary + FRAME_HEADER_LEN, len)
  BY DEF HalvedCellWith
<1>1. /\ x.frame \in Int /\ x.offset \in Int /\ x = [frame |-> x.frame, offset |-> x.offset]
      /\ place.offset \in Int /\ FRAME_HEADER_LEN \in Nat
  BY FrameAssumption DEF Places
<1>2. CASE x.frame = frame /\ x.offset >= boundary
  <2>1. y = [frame |-> to, offset |-> x.offset - boundary + FRAME_HEADER_LEN
                + (IF ~lower /\ x.offset >= place.offset THEN len ELSE 0)]
    <3>1. ~(x.offset < boundary) /\ x.frame # to
      BY <1>1, <1>2
    <3> QED
      BY <1>2, <3>1, Zenon DEF HalvedCell
  <2>2. SplitCell(x, frame, boundary, to)
          = [frame |-> to, offset |-> x.offset - boundary + FRAME_HEADER_LEN]
    BY <1>2 DEF SplitCell
  <2>3. \A by : NextCell(x, frame, boundary, to, by)
          = [frame |-> to, offset |-> x.offset - boundary + FRAME_HEADER_LEN]
    BY <1>2 DEF NextCell
  <2>4. y \in Places
    BY <1>1, <2>1 DEF Places
  <2>5. x = NoCell => frame = NoFrame
    BY <1>2 DEF NoCell
  <2>6. lower => y = MovedCell([frame |-> to, offset |-> x.offset - boundary + FRAME_HEADER_LEN],
                               frame, place.offset, len)
    BY <1>1, <2>1 DEF MovedCell
  <2>7. ~lower => y = MovedCell([frame |-> to, offset |-> x.offset - boundary + FRAME_HEADER_LEN],
                               to, place.offset - boundary + FRAME_HEADER_LEN, len)
    BY <1>1, <2>1 DEF MovedCell
  <2> QED
    BY <1>1, <2>2, <2>3, <2>4, <2>5, <2>6, <2>7
<1>3. CASE x.frame = frame /\ x.offset < boundary
  <2>1. y = IF lower /\ x.offset >= place.offset THEN [x EXCEPT !.offset = @ + len] ELSE x
    BY <1>1, <1>3 DEF HalvedCell
  <2>2. SplitCell(x, frame, boundary, to) = x
    BY <1>1, <1>3 DEF SplitCell
  <2>3. \A by : NextCell(x, frame, boundary, to, by) = x
    BY <1>1, <1>3 DEF NextCell
  <2>4. y \in Places
    BY <1>1, <2>1 DEF Places
  <2>5. x = NoCell => frame = NoFrame
    BY <1>3 DEF NoCell
  <2>6. lower => y = MovedCell(x, frame, place.offset, len)
    BY <1>1, <1>3, <2>1 DEF MovedCell
  <2>7. ~lower => \A n : y = MovedCell(x, to, n, len)
    BY <1>1, <1>3, <2>1 DEF MovedCell
  <2> QED
    BY <1>1, <2>2, <2>3, <2>4, <2>5, <2>6, <2>7
<1>4. CASE x.frame # frame /\ x.frame = to
  <2>1. y = IF intoNext THEN [x EXCEPT !.offset = @ + upperLen] ELSE x
    BY <1>4 DEF HalvedCell
  <2>2. \A by : NextCell(x, frame, boundary, to, by) = [x EXCEPT !.offset = @ + by]
    BY <1>4 DEF NextCell
  <2>3. y \in Places
    BY <1>1, <2>1 DEF Places
  <2>4. x = NoCell => to = NoFrame
    BY <1>4 DEF NoCell
  <2>5. [x EXCEPT !.offset = @ + upperLen]
          = MovedCell([x EXCEPT !.offset = @ + upperLen], frame, place.offset, len)
    BY <1>1, <1>4 DEF MovedCell
  <2>6. x.offset >= FRAME_HEADER_LEN /\ place.offset - boundary <= upperLen - len =>
          [x EXCEPT !.offset = @ + upperLen]
            = MovedCell([x EXCEPT !.offset = @ + (upperLen - len)], to,
                        place.offset - boundary + FRAME_HEADER_LEN, len)
    <3> DEFINE z == [x EXCEPT !.offset = @ + (upperLen - len)]
    <3>1. z.frame = to /\ z.offset = x.offset + (upperLen - len)
      BY <1>1, <1>4
    <3>2. [z EXCEPT !.offset = @ + len] = [x EXCEPT !.offset = @ + upperLen]
      <4> DEFINE o == x.offset
      <4>1. x = [frame |-> x.frame, offset |-> o] /\ o \in Int
        BY <1>1
      <4> HIDE DEF o
      <4>2. z = [frame |-> x.frame, offset |-> o + (upperLen - len)]
        BY <4>1
      <4> HIDE DEF z
      <4>3. [z EXCEPT !.offset = @ + len] = [frame |-> x.frame, offset |-> o + (upperLen - len) + len]
        BY <4>2
      <4>4. o + (upperLen - len) + len = o + upperLen
        BY <4>1
      <4>5. [x EXCEPT !.offset = @ + upperLen] = [frame |-> x.frame, offset |-> o + upperLen]
        BY <4>1
      <4> QED
        BY <4>3, <4>4, <4>5
    <3> HIDE DEF z
    <3>3. x.offset >= FRAME_HEADER_LEN /\ place.offset - boundary <= upperLen - len =>
            z.offset >= place.offset - boundary + FRAME_HEADER_LEN
      BY <1>1, <3>1
    <3>4. z.offset >= place.offset - boundary + FRAME_HEADER_LEN =>
            MovedCell(z, to, place.offset - boundary + FRAME_HEADER_LEN, len)
              = [z EXCEPT !.offset = @ + len]
      BY <3>1 DEF MovedCell
    <3> QED
      BY <3>2, <3>3, <3>4 DEF z
  <2> QED
    BY <1>1, <1>4, <2>1, <2>2, <2>3, <2>4, <2>5, <2>6
<1>5. CASE x.frame # frame /\ x.frame # to
  <2>1. y = x /\ SplitCell(x, frame, boundary, to) = x
    BY <1>5 DEF HalvedCell, SplitCell
  <2>2. \A by : NextCell(x, frame, boundary, to, by) = x
    BY <1>5 DEF NextCell
  <2>3. \A n : MovedCell(x, place.frame, n, len) = x /\ MovedCell(x, to, n, len) = x
    BY <1>5 DEF MovedCell
  <2> QED
    BY <1>1, <2>1, <2>2, <2>3
<1>6. x.offset >= boundary \/ x.offset < boundary
  BY <1>1
<1> QED
  BY <1>2, <1>3, <1>4, <1>5, <1>6

-------------------------------------------------------------------------------
(* The two halves of a frame, the entry in the one its place is in. *)
LowerHalf(f, place, entry, boundary) ==
  LET below == split_off(f, boundary)
  IN  IF place.offset <= boundary THEN insert(below, place.offset, <<entry>>) ELSE below
UpperHalf(f, place, entry, boundary) ==
  LET above == [entries |-> SplitOffEntries(f, boundary), next |-> f.next]
  IN  IF place.offset <= boundary THEN above
      ELSE insert(above, place.offset - boundary + FRAME_HEADER_LEN, <<entry>>)
HalvedCells(cells, place, boundary, to, len, upperLen, intoNext) ==
  [s \in Seconds |-> HalvedCell(cells[s], place, boundary, to, len, upperLen, intoNext)]
HalvedPlace(place, boundary, to) ==
  IF place.offset <= boundary THEN place
  ELSE [frame |-> to, offset |-> place.offset - boundary + FRAME_HEADER_LEN]

HalvedNewWith(t, f, place, entry, boundary, frame, to, r) ==
  /\ r.h = mark_dirty(mark_dirty(t, to, UpperHalf(f, place, entry, boundary)), frame,
                      [LowerHalf(f, place, entry, boundary) EXCEPT !.next = to])
  /\ r.cell = HalvedPlace(place, boundary, to)
HalvedNextWith(t, next, f, place, entry, boundary, frame, to, half, r) ==
  /\ r.h = mark_dirty(mark_dirty(t, to, insert(next, FRAME_HEADER_LEN,
                                              UpperHalf(f, place, entry, boundary).entries)),
                      frame, [half EXCEPT !.next = half.next])
  /\ r.cell = HalvedPlace(place, boundary, to)
LEMMA HandleAndPlace ==
  ASSUME NEW h, NEW cell, NEW r, r = [h |-> h, cell |-> cell]
  PROVE  r.h = h /\ r.cell = cell
OBVIOUS

LEMMA HalvedNewIs ==
  ASSUME NEW h, NEW F, NEW place, NEW entry, NEW boundary, NEW upperLen, NEW new,
         NEW frame, frame = place.frame, NEW f, f = F[frame], NEW to, to = new.frame,
         NEW t, t = [new.h EXCEPT !.cells = HalvedCells(new.h.cells, place, boundary, to,
                                                        entry.len, upperLen, FALSE),
                                  !.tail = IF f.next = NoFrame THEN to ELSE new.h.tail],
         NEW r, r = Halved(h, F, place, entry, boundary, upperLen, FALSE, new)
  PROVE  HalvedNewWith(t, f, place, entry, boundary, frame, to, r)
<1> DEFINE g == F[place.frame]
           lower == place.offset <= boundary
           into == IF FALSE THEN g.next ELSE new.frame
           inTo == place.offset - boundary + FRAME_HEADER_LEN
           below == split_off(g, boundary)
           above == [entries |-> SplitOffEntries(g, boundary), next |-> g.next]
           half == IF lower THEN insert(below, place.offset, <<entry>>) ELSE below
           upper == IF lower THEN above ELSE insert(above, inTo, <<entry>>)
           filled == IF FALSE THEN insert(F[g.next], FRAME_HEADER_LEN, upper.entries) ELSE upper
           Cell(c) ==
             CASE c.frame = place.frame /\ c.offset >= boundary ->
                    [frame |-> into, offset |-> c.offset - boundary + FRAME_HEADER_LEN
                       + (IF ~lower /\ c.offset >= place.offset THEN entry.len ELSE 0)]
               [] c.frame = place.frame /\ c.offset < boundary /\ lower
                    /\ c.offset >= place.offset -> [c EXCEPT !.offset = @ + entry.len]
               [] FALSE /\ c.frame = into -> [c EXCEPT !.offset = @ + upperLen]
               [] OTHER -> c
           moved == [(IF FALSE THEN h ELSE new.h) EXCEPT
                       !.cells = [s \in Seconds |-> Cell(@[s])],
                       !.tail  = IF g.next = NoFrame THEN into ELSE @]
           cell == IF lower THEN place ELSE [frame |-> into, offset |-> inTo]
<1>1. r = [h |-> mark_dirty(mark_dirty(moved, into, filled), place.frame,
                            [half EXCEPT !.next = IF FALSE THEN @ ELSE into]),
           cell |-> cell]
  BY DEF Halved
<1>2. into = to /\ g = f
  OBVIOUS
<1>3. moved = t
  <2>1. \A c : Cell(c) = HalvedCell(c, place, boundary, to, entry.len, upperLen, FALSE)
    BY <1>2 DEF HalvedCell
  <2> HIDE DEF Cell, into
  <2> QED
    BY <1>2, <2>1 DEF HalvedCells
<1>4. half = LowerHalf(f, place, entry, boundary) /\ filled = UpperHalf(f, place, entry, boundary)
  BY <1>2 DEF LowerHalf, UpperHalf
<1>5. cell = HalvedPlace(place, boundary, to)
  BY <1>2 DEF HalvedPlace
<1> DEFINE chained == [half EXCEPT !.next = IF FALSE THEN @ ELSE into]
           put == mark_dirty(mark_dirty(moved, into, filled), place.frame, chained)
<1>6. chained = [LowerHalf(f, place, entry, boundary) EXCEPT !.next = to]
  <2> HIDE DEF half, into
  <2> QED
    BY <1>2, <1>4
<1> HIDE DEF half, filled, moved, cell, into, chained
<1>7. put = mark_dirty(mark_dirty(t, to, UpperHalf(f, place, entry, boundary)), frame,
                       [LowerHalf(f, place, entry, boundary) EXCEPT !.next = to])
  BY <1>2, <1>3, <1>4, <1>6
<1>8. r = [h |-> put, cell |-> cell]
  BY <1>1 DEF chained
<1> HIDE DEF put
<1>9. r.h = put /\ r.cell = cell
  BY <1>8, HandleAndPlace
<1> QED
  BY <1>5, <1>7, <1>9 DEF HalvedNewWith

LEMMA HalvedNextIs ==
  ASSUME NEW h, NEW F, NEW place, NEW entry, NEW boundary, NEW upperLen, NEW new,
         NEW frame, frame = place.frame, NEW f, f = F[frame], NEW to, to = f.next,
         NEW next, next = F[to],
         NEW t, t = [h EXCEPT !.cells = HalvedCells(h.cells, place, boundary, to, entry.len,
                                                    upperLen, TRUE),
                              !.tail = IF to = NoFrame THEN to ELSE h.tail],
         NEW half, half = LowerHalf(f, place, entry, boundary),
         NEW r, r = Halved(h, F, place, entry, boundary, upperLen, TRUE, new)
  PROVE  HalvedNextWith(t, next, f, place, entry, boundary, frame, to, half, r)
BY SMTT(90) DEF Halved, LowerHalf, UpperHalf, HalvedCells, HalvedCell, HalvedPlace, HalvedNextWith

LEMMA LengthWithOneMore ==
  ASSUME NEW E \in Seq(Entries), NEW k \in 0 .. Len(E), NEW e \in Entries
  PROVE  PutIn(E, k, e) \in Seq(Entries) /\ Whole(PutIn(E, k, e)) = Whole(E) + e.len
<1> DEFINE P == PutIn(E, k, e)
           n == Len(E) + 1
<1>1. P \in Seq(Entries) /\ Len(P) = n
  BY EntriesPutIn
<1>2. n \in k + 1 .. Len(E) + 1 /\ n - 1 = Len(E)
  OBVIOUS
<1>3. LenOf(P, n) = LenOf(E, n - 1) + e.len
  <2> HIDE DEF n
  <2> QED
    BY <1>2, PutInLengths
<1> QED
  BY <1>1, <1>2, <1>3 DEF Whole

HalvesLike(f, j, p, e, place, boundary) ==
  LET below == SubSeq(f.entries, 1, j - 1)
      above == SubSeq(f.entries, j, Len(f.entries))
  IN  /\ place.offset <= boundary <=> p <= j
      /\ below \in Seq(Entries) /\ above \in Seq(Entries)
      /\ Len(below) = j - 1 /\ Len(above) = Len(f.entries) - j + 1
      /\ Whole(below) = boundary - FRAME_HEADER_LEN
      /\ Whole(above) = records_end(f) - boundary
      /\ p <= j =>
           /\ LowerHalf(f, place, e, boundary)
                = [entries |-> PutIn(below, p - 1, e), next |-> f.next]
           /\ UpperHalf(f, place, e, boundary) = [entries |-> above, next |-> f.next]
      /\ p > j =>
           /\ LowerHalf(f, place, e, boundary) = [entries |-> below, next |-> f.next]
           /\ UpperHalf(f, place, e, boundary)
                = [entries |-> PutIn(above, p - j, e), next |-> f.next]

LEMMA HalvesAre ==
  ASSUME NEW f \in WholeFrames, NEW j \in 1 .. Len(f.entries) + 1, NEW p \in 1 .. Len(f.entries) + 1,
         NEW e \in Entries, NEW place, place.offset = OffsetOf(f, p),
         NEW boundary, boundary = OffsetOf(f, j)
  PROVE  HalvesLike(f, j, p, e, place, boundary)
<1> DEFINE N == Len(f.entries)
           below == SubSeq(f.entries, 1, j - 1)
           above == SubSeq(f.entries, j, N)
           lower == [entries |-> below, next |-> f.next]
           upper == [entries |-> above, next |-> f.next]
           at == place.offset - boundary + FRAME_HEADER_LEN
<1>1. /\ f \in Loose /\ N \in Nat /\ f.entries \in Seq(Entries) /\ f.next \in Int
      /\ records_end(f) = FRAME_HEADER_LEN + used(f) /\ FRAME_HEADER_LEN \in Nat
  BY WholeFrameIs, FrameAssumption
<1>2. place.offset <= boundary <=> p <= j
  <2>1. (p < j <=> OffsetOf(f, p) < OffsetOf(f, j)) /\ (p = j <=> OffsetOf(f, p) = OffsetOf(f, j))
    BY <1>1, BordersGrow
  <2>2. OffsetOf(f, p) \in Int /\ OffsetOf(f, j) \in Int
    BY <1>1, OffsetsAre
  <2> QED
    BY <2>1, <2>2
<1>3. /\ \A m \in 1 .. N + 1 : /\ OffsetOf(f, m) = FRAME_HEADER_LEN + LenOf(f.entries, m - 1)
                               /\ LenOf(f.entries, m - 1) \in Nat
  BY <1>1, OffsetsAre
<1>4. /\ below \in Seq(Entries) /\ Len(below) = j - 1 /\ \A n \in 0 .. j - 1 : LenOf(below, n) = LenOf(f.entries, n)
      /\ Whole(below) = boundary - FRAME_HEADER_LEN
  <2> DEFINE q == j - 1
  <2>1. q \in 0 .. N
    BY <1>1
  <2> HIDE DEF q
  <2>2. /\ SubSeq(f.entries, 0 + 1, q) \in Seq(Entries) /\ Len(SubSeq(f.entries, 0 + 1, q)) = q - 0
        /\ \A n \in 0 .. q - 0 : LenOf(SubSeq(f.entries, 0 + 1, q), n)
                                   = LenOf(f.entries, 0 + n) - LenOf(f.entries, 0)
    <3> DEFINE z == 0
    <3>1. z \in 0 .. N /\ q \in z .. N
      BY <1>1, <2>1
    <3> HIDE DEF z
    <3>2. /\ SubSeq(f.entries, z + 1, q) \in Seq(Entries) /\ Len(SubSeq(f.entries, z + 1, q)) = q - z
          /\ \A n \in 0 .. q - z : LenOf(SubSeq(f.entries, z + 1, q), n)
                                     = LenOf(f.entries, z + n) - LenOf(f.entries, z)
      BY <1>1, <3>1, PartLengths
    <3> QED
      BY <3>2 DEF z
  <2>3. LenOf(f.entries, 0) = 0 /\ \A n \in 0 .. N : LenOf(f.entries, n) \in Nat
    BY <1>1, LengthsAre
  <2>4. \A n \in 0 .. q : 0 + n = n /\ n \in 0 .. N /\ n \in 0 .. q - 0
    BY <1>1, <2>1
  <2>5. 0 + 1 = 1 /\ q - 0 = q
    BY <2>1
  <2>6. /\ SubSeq(f.entries, 1, q) \in Seq(Entries) /\ Len(SubSeq(f.entries, 1, q)) = q
        /\ \A n \in 0 .. q : LenOf(SubSeq(f.entries, 1, q), n) = LenOf(f.entries, n)
    BY <2>2, <2>3, <2>4, <2>5
  <2>7. Whole(SubSeq(f.entries, 1, q)) = LenOf(f.entries, q)
    BY <2>1, <2>6 DEF Whole
  <2>8. LenOf(f.entries, q) = boundary - FRAME_HEADER_LEN
    BY <1>1, <1>3 DEF q
  <2> QED
    BY <2>6, <2>7, <2>8 DEF q
<1>5. /\ above \in Seq(Entries) /\ Len(above) = N - j + 1
      /\ \A n \in 0 .. N - j + 1 : LenOf(above, n) = LenOf(f.entries, j - 1 + n) - LenOf(f.entries, j - 1)
      /\ Whole(above) = records_end(f) - boundary
  <2> DEFINE q == j - 1
  <2>1. q \in 0 .. N /\ N \in q .. N /\ q + 1 = j /\ N - q = N - j + 1
    BY <1>1
  <2> HIDE DEF q
  <2>2. /\ SubSeq(f.entries, q + 1, N) \in Seq(Entries) /\ Len(SubSeq(f.entries, q + 1, N)) = N - q
        /\ \A n \in 0 .. N - q : LenOf(SubSeq(f.entries, q + 1, N), n)
                                   = LenOf(f.entries, q + n) - LenOf(f.entries, q)
    BY <1>1, <2>1, PartLengths
  <2>3. Whole(SubSeq(f.entries, q + 1, N)) = LenOf(f.entries, N) - LenOf(f.entries, q)
    <3>1. N - q \in 0 .. N - q /\ q + (N - q) = N
      BY <1>1, <2>1
    <3> QED
      BY <2>2, <3>1 DEF Whole
  <2>4. LenOf(f.entries, q) = boundary - FRAME_HEADER_LEN /\ LenOf(f.entries, q) \in Nat
    BY <1>1, <1>3 DEF q
  <2>5. used(f) = LenOf(f.entries, N) /\ used(f) \in Nat
    BY WholeFrameIs DEF used
  <2>6. boundary \in Int
    BY <1>1, <1>3
  <2>7. records_end(f) - boundary = LenOf(f.entries, N) - LenOf(f.entries, q)
    BY <1>1, <2>4, <2>5, <2>6
  <2> QED
    BY <2>1, <2>2, <2>3, <2>7 DEF q
<1>6. split_off(f, boundary) = lower /\ SplitOffEntries(f, boundary) = above
  <2>1. split_off(f, boundary) = [f EXCEPT !.entries = below]
    BY <1>1, SplitAtBorder
  <2>2. [f EXCEPT !.entries = below] = [entries |-> below, next |-> f.next]
    <3> HIDE DEF below
    <3> QED
      BY <1>1 DEF Loose
  <2> QED
    BY <1>1, <2>1, <2>2, SplitAtBorder
<1>7. lower \in Loose /\ upper \in Loose /\ lower.entries = below /\ upper.entries = above
  BY <1>1, <1>4, <1>5 DEF Loose
<1>8. ASSUME p <= j
      PROVE  LowerHalf(f, place, e, boundary) = [entries |-> PutIn(below, p - 1, e), next |-> f.next]
  <2>1. p \in 1 .. Len(lower.entries) + 1 /\ p - 1 \in 0 .. j - 1 /\ p \in 1 .. N + 1
    BY <1>1, <1>4, <1>7, <1>8
  <2>2. OffsetOf(lower, p) = OffsetOf(f, p)
    BY <1>4, <1>7, <2>1 DEF OffsetOf
  <2> HIDE DEF lower
  <2>3. insert(lower, OffsetOf(lower, p), <<e>>) = [lower EXCEPT !.entries = PutIn(lower.entries, p - 1, e)]
    BY <1>7, <2>1, PutAtBorder
  <2>4. [lower EXCEPT !.entries = PutIn(below, p - 1, e)] = [entries |-> PutIn(below, p - 1, e), next |-> f.next]
    BY DEF lower
  <2> QED
    BY <1>2, <1>6, <1>7, <1>8, <2>2, <2>3, <2>4 DEF LowerHalf
<1>9. ASSUME p > j
      PROVE  UpperHalf(f, place, e, boundary) = [entries |-> PutIn(above, p - j, e), next |-> f.next]
  <2> DEFINE q == p - j + 1
  <2>1. q \in 1 .. Len(upper.entries) + 1 /\ q - 1 = p - j /\ q - 1 \in 0 .. N - j + 1 /\ j - 1 + (q - 1) = p - 1
    <3>1. Len(upper.entries) = N - j + 1
      BY <1>5, <1>7
    <3> HIDE DEF upper, N
    <3>2. N \in Nat /\ j \in Nat /\ p \in Nat /\ j >= 1 /\ p <= N + 1 /\ j < p
      BY <1>1, <1>9 DEF N
    <3> QED
      BY <3>1, <3>2
  <2>2. OffsetOf(upper, q) = at
    <3>1. OffsetOf(upper, q) = FRAME_HEADER_LEN + LenOf(above, q - 1)
      <4> HIDE DEF q
      <4> QED
        BY <1>7 DEF OffsetOf
    <3>2. LenOf(above, q - 1) = LenOf(f.entries, p - 1) - LenOf(f.entries, j - 1)
      <4> HIDE DEF q
      <4> QED
        BY <1>5, <2>1
    <3>3. /\ place.offset = FRAME_HEADER_LEN + LenOf(f.entries, p - 1) /\ LenOf(f.entries, p - 1) \in Nat
          /\ boundary = FRAME_HEADER_LEN + LenOf(f.entries, j - 1) /\ LenOf(f.entries, j - 1) \in Nat
      BY <1>3
    <3> DEFINE x == LenOf(f.entries, p - 1)
               y == LenOf(f.entries, j - 1)
    <3> HIDE DEF q, x, y
    <3>4. at = FRAME_HEADER_LEN + (x - y)
      BY <1>1, <3>3 DEF x, y
    <3> QED
      BY <3>1, <3>2, <3>4 DEF x, y
  <2> HIDE DEF upper, q, at
  <2>3. insert(upper, OffsetOf(upper, q), <<e>>) = [upper EXCEPT !.entries = PutIn(upper.entries, q - 1, e)]
    BY <1>7, <2>1, PutAtBorder
  <2>4. [upper EXCEPT !.entries = PutIn(above, p - j, e)] = [entries |-> PutIn(above, p - j, e), next |-> f.next]
    BY DEF upper
  <2>5. insert(upper, at, <<e>>) = [entries |-> PutIn(above, p - j, e), next |-> f.next]
    BY <1>7, <2>1, <2>2, <2>3, <2>4
  <2>6. ~(place.offset <= boundary)
    BY <1>1, <1>2, <1>9
  <2> QED
    BY <1>6, <2>5, <2>6 DEF UpperHalf, upper, at
<1>10. /\ p <= j => UpperHalf(f, place, e, boundary) = upper
       /\ p > j => LowerHalf(f, place, e, boundary) = lower
  <2>1. p > j => ~(p <= j)
    BY <1>1
  <2> QED
    BY <1>2, <1>6, <2>1 DEF UpperHalf, LowerHalf
<1> QED
  BY <1>2, <1>4, <1>5, <1>8, <1>9, <1>10 DEF HalvesLike

-------------------------------------------------------------------------------
(* The halves of a frame of the chain. *)
HalvesWith(F, c, S, W, i, k, b, e) ==
  LET f == F[c[i]]
      place == PlaceOf(c, S, W, i, k)
      boundary == BorderOf(S, W, i, b)
      below == SubSeq(f.entries, 1, b - S[i])
      above == SubSeq(f.entries, b - S[i] + 1, Len(f.entries))
  IN  /\ place.offset <= boundary <=> k <= b
      /\ IsPart(below, W, S[i], b) /\ IsPart(above, W, b, S[i + 1])
      /\ Whole(below) = boundary - FRAME_HEADER_LEN
      /\ Whole(above) = records_end(f) - boundary
      /\ boundary \in Int /\ place.offset \in Int /\ records_end(f) \in Int
      /\ k <= b =>
           /\ k - S[i] \in 0 .. Len(below)
           /\ LowerHalf(f, place, e, boundary) = [entries |-> PutIn(below, k - S[i], e), next |-> f.next]
           /\ UpperHalf(f, place, e, boundary) = [entries |-> above, next |-> f.next]
      /\ k > b =>
           /\ k - b \in 0 .. Len(above)
           /\ LowerHalf(f, place, e, boundary) = [entries |-> below, next |-> f.next]
           /\ UpperHalf(f, place, e, boundary) = [entries |-> PutIn(above, k - b, e), next |-> f.next]

LEMMA HalvesOfLaid ==
  ASSUME NEW F \in FrameMaps, NEW c, NEW S, NEW W, IsLaid(F, c, S, W),
         NEW i \in 1 .. Len(c), NEW k \in S[i] .. S[i + 1], NEW b \in S[i] .. S[i + 1], NEW e \in Entries
  PROVE  HalvesWith(F, c, S, W, i, k, b, e)
<1> DEFINE f == F[c[i]]
           place == PlaceOf(c, S, W, i, k)
           boundary == BorderOf(S, W, i, b)
           j == b - S[i] + 1
           p == k - S[i] + 1
           E == f.entries
           n == Len(E)
           below == SubSeq(E, 1, j - 1)
           above == SubSeq(E, j, n)
<1>1. /\ f \in WholeFrames /\ Len(E) = S[i + 1] - S[i] /\ S[i] \in Nat /\ S[i + 1] \in Nat
      /\ S[i] <= S[i + 1] /\ IsPart(E, W, S[i], S[i + 1])
      /\ \A m \in S[i] .. S[i + 1] : BorderOf(S, W, i, m) = OffsetOf(f, m - S[i] + 1)
  BY FrameInLaid
<1>2. W \in Seq(Entries) /\ S[i + 1] <= Len(W) /\ b \in Nat /\ k \in Nat
  BY <1>1, LaidIs
<1>3. /\ j \in 1 .. n + 1 /\ p \in 1 .. n + 1 /\ j - 1 = b - S[i] /\ p - 1 = k - S[i]
      /\ p - j = k - b /\ (p <= j <=> k <= b) /\ (p > j <=> k > b) /\ n - j + 1 = S[i + 1] - b
  <2> DEFINE x == S[i]
             y == S[i + 1]
  <2>1. /\ n = y - x /\ x \in Nat /\ y \in Nat /\ x <= y /\ b \in Nat /\ k \in Nat
        /\ x <= b /\ b <= y /\ x <= k /\ k <= y
    BY <1>1, <1>2
  <2>2. j = b - x + 1 /\ p = k - x + 1
    OBVIOUS
  <2> HIDE DEF n, x, y, j, p
  <2>3. /\ j \in 1 .. n + 1 /\ p \in 1 .. n + 1 /\ j - 1 = b - x /\ p - 1 = k - x
        /\ p - j = k - b /\ (p <= j <=> k <= b) /\ (p > j <=> k > b) /\ n - j + 1 = y - b
    BY <2>1, <2>2
  <2> QED
    BY <2>3 DEF x, y
<1>4. place.offset = OffsetOf(f, p) /\ boundary = OffsetOf(f, j)
  BY <1>1 DEF PlaceOf
<1>5. boundary \in Int /\ place.offset \in Int
  BY BordersOfLaid DEF PlaceOf
<1>6. IsPart(SubSeq(E, 1, b - S[i]), W, S[i], b) /\ IsPart(SubSeq(E, b - S[i] + 1, Len(E)), W, b, S[i + 1])
  BY <1>1, <1>2, PartCut
<1>7. records_end(f) \in Int
  BY <1>1, WholeFrameIs, FrameAssumption
<1> HIDE DEF f, place, boundary, j, p
<1>8. /\ place.offset <= boundary <=> p <= j
      /\ Len(below) = j - 1 /\ Len(above) = n - j + 1
      /\ Whole(below) = boundary - FRAME_HEADER_LEN
      /\ Whole(above) = records_end(f) - boundary
      /\ p <= j =>
           /\ LowerHalf(f, place, e, boundary) = [entries |-> PutIn(below, p - 1, e), next |-> f.next]
           /\ UpperHalf(f, place, e, boundary) = [entries |-> above, next |-> f.next]
      /\ p > j =>
           /\ LowerHalf(f, place, e, boundary) = [entries |-> below, next |-> f.next]
           /\ UpperHalf(f, place, e, boundary) = [entries |-> PutIn(above, p - j, e), next |-> f.next]
  <2>1. HalvesLike(f, j, p, e, place, boundary)
    BY <1>1, <1>3, <1>4, HalvesAre
  <2> QED
    BY <2>1 DEF HalvesLike
<1>9. /\ k <= b => k - S[i] \in 0 .. b - S[i]
      /\ k > b => k - b \in 0 .. S[i + 1] - b
  <2> DEFINE x == S[i]
             z == S[i + 1]
  <2>1. x \in Int /\ z \in Int /\ k \in Int /\ b \in Int /\ x <= k /\ k <= z /\ x <= b /\ b <= z
    BY <1>1, <1>2
  <2> HIDE DEF x, z
  <2>2. /\ k <= b => k - x \in 0 .. b - x
        /\ k > b => k - b \in 0 .. z - b
    BY <2>1
  <2> QED
    BY <2>2 DEF x, z
<1>10. j = b - S[i] + 1
  BY DEF j
<1>11. /\ below = SubSeq(E, 1, b - S[i]) /\ above = SubSeq(E, b - S[i] + 1, Len(E))
  BY <1>3, <1>10
<1> HIDE DEF below, above, n, E
<1>12. /\ IsPart(below, W, S[i], b) /\ IsPart(above, W, b, S[i + 1])
       /\ Len(below) = b - S[i] /\ Len(above) = S[i + 1] - b
  BY <1>3, <1>6, <1>8, <1>11
<1>13. /\ place.offset <= boundary <=> k <= b
       /\ IsPart(below, W, S[i], b) /\ IsPart(above, W, b, S[i + 1])
       /\ Whole(below) = boundary - FRAME_HEADER_LEN
       /\ Whole(above) = records_end(f) - boundary
       /\ boundary \in Int /\ place.offset \in Int /\ records_end(f) \in Int
       /\ k <= b =>
            /\ k - S[i] \in 0 .. Len(below)
            /\ LowerHalf(f, place, e, boundary) = [entries |-> PutIn(below, k - S[i], e), next |-> f.next]
            /\ UpperHalf(f, place, e, boundary) = [entries |-> above, next |-> f.next]
       /\ k > b =>
            /\ k - b \in 0 .. Len(above)
            /\ LowerHalf(f, place, e, boundary) = [entries |-> below, next |-> f.next]
            /\ UpperHalf(f, place, e, boundary) = [entries |-> PutIn(above, k - b, e), next |-> f.next]
  BY <1>3, <1>5, <1>7, <1>8, <1>9, <1>12
<1> QED
  BY <1>11, <1>13 DEF HalvesWith, f, place, boundary, E

LEMMA FrameOf ==
  ASSUME NEW X \in Seq(Entries), Whole(X) <= FRAME_CAPACITY, NEW next \in Int
  PROVE  [entries |-> X, next |-> next] \in FrameSet
<1>1. NewFrame \in Loose
  BY NewFrameIs DEF FrameSet
<1>2. [entries |-> X, next |-> next] \in Loose /\ used([entries |-> X, next |-> next]) = Whole(X)
  BY <1>1, OtherEntries
<1> QED
  BY <1>2 DEF FrameSet

(* The halves fit their frames when they are told to. *)
HalvesFrom(F, c, S, W, i, k, b, e, f, place, boundary, next) ==
  /\ F \in FrameMaps /\ IsLaid(F, c, S, W) /\ i \in 1 .. Len(c)
  /\ k \in S[i] .. S[i + 1] /\ b \in S[i] .. S[i + 1] /\ e \in Entries /\ next \in Int
  /\ f = F[c[i]] /\ place = PlaceOf(c, S, W, i, k) /\ boundary = BorderOf(S, W, i, b)
  /\ boundary - FRAME_HEADER_LEN + (IF k <= b THEN e.len ELSE 0) <= FRAME_CAPACITY
HalvesFitFrames(f, place, e, boundary, k, b, next) ==
  /\ [LowerHalf(f, place, e, boundary) EXCEPT !.next = next] \in FrameSet
  /\ [LowerHalf(f, place, e, boundary) EXCEPT !.next = next]
        = [entries |-> LowerHalf(f, place, e, boundary).entries, next |-> next]
  /\ LowerHalf(f, place, e, boundary).next = f.next
  /\ UpperHalf(f, place, e, boundary).entries \in Seq(Entries)
  /\ Whole(UpperHalf(f, place, e, boundary).entries)
        = records_end(f) - boundary + (IF k <= b THEN 0 ELSE e.len)
  /\ UpperHalf(f, place, e, boundary)
        = [entries |-> UpperHalf(f, place, e, boundary).entries, next |-> f.next]
LEMMA HalvesAreFrames ==
  ASSUME NEW F, NEW c, NEW S, NEW W, NEW i, NEW k, NEW b, NEW e, NEW f, NEW place, NEW boundary, NEW next,
         HalvesFrom(F, c, S, W, i, k, b, e, f, place, boundary, next)
  PROVE  HalvesFitFrames(f, place, e, boundary, k, b, next)
<1> USE DEF HalvesFrom
<1> SUFFICES /\ [LowerHalf(f, place, e, boundary) EXCEPT !.next = next] \in FrameSet
             /\ [LowerHalf(f, place, e, boundary) EXCEPT !.next = next]
                   = [entries |-> LowerHalf(f, place, e, boundary).entries, next |-> next]
             /\ LowerHalf(f, place, e, boundary).next = f.next
             /\ UpperHalf(f, place, e, boundary).entries \in Seq(Entries)
             /\ Whole(UpperHalf(f, place, e, boundary).entries)
                   = records_end(f) - boundary + (IF k <= b THEN 0 ELSE e.len)
             /\ UpperHalf(f, place, e, boundary)
                   = [entries |-> UpperHalf(f, place, e, boundary).entries, next |-> f.next]
  BY DEF HalvesFitFrames
<1> DEFINE below == SubSeq(f.entries, 1, b - S[i])
           above == SubSeq(f.entries, b - S[i] + 1, Len(f.entries))
           low == IF k <= b THEN PutIn(below, k - S[i], e) ELSE below
           up == IF k <= b THEN above ELSE PutIn(above, k - b, e)
<1>1. /\ place.offset <= boundary <=> k <= b
      /\ IsPart(below, W, S[i], b) /\ IsPart(above, W, b, S[i + 1])
      /\ Whole(below) = boundary - FRAME_HEADER_LEN
      /\ Whole(above) = records_end(f) - boundary
      /\ boundary \in Int /\ place.offset \in Int /\ records_end(f) \in Int
      /\ k <= b =>
           /\ k - S[i] \in 0 .. Len(below)
           /\ LowerHalf(f, place, e, boundary) = [entries |-> PutIn(below, k - S[i], e), next |-> f.next]
           /\ UpperHalf(f, place, e, boundary) = [entries |-> above, next |-> f.next]
      /\ k > b =>
           /\ k - b \in 0 .. Len(above)
           /\ LowerHalf(f, place, e, boundary) = [entries |-> below, next |-> f.next]
           /\ UpperHalf(f, place, e, boundary) = [entries |-> PutIn(above, k - b, e), next |-> f.next]
  <2>1. HalvesWith(F, c, S, W, i, k, b, e)
    BY HalvesOfLaid
  <2> QED
    BY <2>1 DEF HalvesWith
<1>2. k \in Int /\ b \in Int /\ e.len \in Nat
  <2>1. S[i] \in Nat /\ S[i + 1] \in Nat
    BY LaidIs
  <2> QED
    BY <2>1 DEF Entries
<1> HIDE DEF below, above
<1>3. below \in Seq(Entries) /\ above \in Seq(Entries)
  BY <1>1 DEF IsPart
<1>4. /\ LowerHalf(f, place, e, boundary) = [entries |-> low, next |-> f.next]
      /\ UpperHalf(f, place, e, boundary) = [entries |-> up, next |-> f.next]
  BY <1>1, <1>2
<1>5. CASE k <= b
  <2>1. low = PutIn(below, k - S[i], e) /\ up = above
    BY <1>5
  <2>2. low \in Seq(Entries) /\ Whole(low) = Whole(below) + e.len
    BY <1>1, <1>3, <1>5, <2>1, LengthWithOneMore
  <2>3. Whole(low) <= FRAME_CAPACITY
    BY <1>1, <1>5, <2>2
  <2>4. up \in Seq(Entries) /\ Whole(up) = records_end(f) - boundary + 0
    BY <1>1, <1>3, <2>1
  <2> HIDE DEF low, up
  <2>5. [entries |-> low, next |-> next] \in FrameSet
    BY <2>2, <2>3, FrameOf
  <2> QED
    BY <1>4, <1>5, <2>4, <2>5
<1>6. CASE k > b
  <2>1. low = below /\ up = PutIn(above, k - b, e) /\ ~(k <= b)
    BY <1>2, <1>6
  <2>2. up \in Seq(Entries) /\ Whole(up) = Whole(above) + e.len
    BY <1>1, <1>3, <1>6, <2>1, LengthWithOneMore
  <2>3. low \in Seq(Entries) /\ Whole(low) <= FRAME_CAPACITY
    <3>1. boundary - FRAME_HEADER_LEN + 0 <= FRAME_CAPACITY
      BY <2>1
    <3>2. FRAME_HEADER_LEN \in Int /\ FRAME_CAPACITY \in Int
      BY FrameAssumption
    <3> QED
      BY <1>1, <1>3, <2>1, <3>1, <3>2
  <2> HIDE DEF low, up
  <2>5. [entries |-> low, next |-> next] \in FrameSet
    BY <2>3, FrameOf
  <2> QED
    BY <1>1, <1>4, <2>1, <2>2, <2>5
<1> QED
  BY <1>2, <1>5, <1>6

-------------------------------------------------------------------------------
(* A frame is halved into a new one, and the entry put into its half.      *)
LEMMA PutHalvedNew ==
  ASSUME disk.frames \in FrameMaps, NEW h, NEW c, NEW S, NEW W, MemoryRight(h, disk, c, S, W),
         NEW i \in 1 .. Len(c), NEW k \in S[i] .. S[i + 1], NEW b \in S[i] .. S[i + 1], NEW e \in Blocks,
         room_for_frames(h) # 0, NEW f, f = FramesOf(h, disk)[c[i]],
         NEW place, place = PlaceOf(c, S, W, i, k), NEW boundary, boundary = BorderOf(S, W, i, b),
         boundary - FRAME_HEADER_LEN + (IF k <= b THEN e.len ELSE 0) <= FRAME_CAPACITY,
         records_end(f) - boundary + (IF k <= b THEN 0 ELSE e.len) <= FRAME_CAPACITY,
         NEW upperLen \in Int, NEW r \in Answers,
         r = Halved(h, FramesOf(h, disk), place, e, boundary, upperLen, FALSE, allocate_frame(h))
  PROVE  PutBehind(h, c, S, W, k, e, r)
<1> DEFINE F == FramesOf(h, disk)
           new == allocate_frame(h)
           to == new.frame
           low == LowerHalf(f, place, e, boundary)
           A == UpperHalf(f, place, e, boundary)
           B == [low EXCEPT !.next = to]
           cells == HalvedCells(new.h.cells, place, boundary, to, e.len, upperLen, FALSE)
           tail == IF f.next = NoFrame THEN to ELSE new.h.tail
           t == [new.h EXCEPT !.cells = cells, !.tail = tail]
           m == mark_dirty(mark_dirty(t, to, A), c[i], B)
<1>1. /\ h \in Slots /\ MemoryFits(h, disk) /\ F \in FrameMaps /\ IsLaid(F, c, S, W)
      /\ room_for_frames(h) \in Nat /\ \A n \in DOMAIN F : n \in Nat /\ InFiles(h.files, n)
      /\ h.cells \in Cells
  BY MemoryIs
<1>2. e \in Entries /\ IsEntry(e) /\ e.len \in Nat
  BY BlocksAreEntries
<1>3. /\ c[i] \in DOMAIN F /\ c[i] \in Nat /\ f \in WholeFrames
      /\ S[i] \in Nat /\ S[i + 1] \in Nat /\ S[i] <= S[i + 1] /\ k \in Int /\ b \in Int
      /\ f.next = NextIn(c, i) /\ IsPart(f.entries, W, S[i], S[i + 1])
  BY SMTT(30), <1>1, FrameInLaid
<1>4. /\ MemoryFits(new.h, disk) /\ FramesOf(new.h, disk) = F
      /\ to \in Nat /\ to \notin DOMAIN F /\ InFiles(new.h.files, to)
      /\ room_for_frames(new.h) = room_for_frames(h) - 1
      /\ new.h.cells = h.cells /\ new.h.tail = h.tail /\ Beside(new.h) = Beside(h)
  BY <1>1, AllocatedFits
<1>5. place.frame = c[i] /\ place = [frame |-> c[i], offset |-> BorderOf(S, W, i, k)]
  BY DEF PlaceOf
<1>6. r.h = m /\ r.cell = HalvedPlace(place, boundary, to)
  <2> DEFINE frame == c[i]
  <2>1. frame = place.frame /\ f = F[frame] /\ to = new.frame
    BY <1>5
  <2>2. /\ r = Halved(h, F, place, e, boundary, upperLen, FALSE, new)
        /\ t = [new.h EXCEPT !.cells = HalvedCells(new.h.cells, place, boundary, to,
                                                   e.len, upperLen, FALSE),
                             !.tail = IF f.next = NoFrame THEN to ELSE new.h.tail]
    BY DEF F, new
  <2> HIDE DEF frame, F, new, t, to
  <2>3. HalvedNewWith(t, f, place, e, boundary, frame, to, r)
    BY ZenonT(60), <2>1, <2>2, HalvedNewIs
  <2> QED
    BY <2>3 DEF frame, HalvedNewWith
<1> HIDE DEF F, new
<1>7. HalvesWith(F, c, S, W, i, k, b, e)
  BY <1>1, <1>2, HalvesOfLaid
<1>8. /\ B \in FrameSet /\ B = [entries |-> low.entries, next |-> to]
      /\ A.entries \in Seq(Entries) /\ A = [entries |-> A.entries, next |-> f.next]
      /\ Whole(A.entries) = records_end(f) - boundary + (IF k <= b THEN 0 ELSE e.len)
  <2> DEFINE n == to
  <2>1. n \in Int /\ f = F[c[i]]
    BY <1>4 DEF F
  <2>4. HalvesFrom(F, c, S, W, i, k, b, e, f, place, boundary, n)
    BY <1>1, <1>2, <2>1 DEF HalvesFrom
  <2> HIDE DEF n, low, A, B, to, cells, tail, t, m
  <2>5. HalvesFitFrames(f, place, e, boundary, k, b, n)
    BY <2>4, HalvesAreFrames
  <2>2. /\ [low EXCEPT !.next = n] \in FrameSet /\ [low EXCEPT !.next = n] = [entries |-> low.entries, next |-> n]
        /\ A.entries \in Seq(Entries) /\ A = [entries |-> A.entries, next |-> f.next]
        /\ Whole(A.entries) = records_end(f) - boundary + (IF k <= b THEN 0 ELSE e.len)
    BY <2>5 DEF HalvesFitFrames, low, A
  <2>3. n = to
    BY DEF n
  <2> QED
    BY <2>2, <2>3 DEF B
<1>9. A \in FrameSet
  <2>1. Whole(A.entries) <= FRAME_CAPACITY
    BY <1>8
  <2>2. f.next \in Int
    BY <1>3, WholeFrameIs
  <2> HIDE DEF A
  <2> DEFINE X == A.entries
             n == f.next
  <2>3. X \in Seq(Entries) /\ Whole(X) <= FRAME_CAPACITY /\ n \in Int
    BY <1>8, <2>1, <2>2
  <2> HIDE DEF X, n
  <2>4. [entries |-> X, next |-> n] \in FrameSet
    BY <2>3, FrameOf
  <2>5. A = [entries |-> X, next |-> n]
    BY <1>8 DEF X, n
  <2> QED
    BY <2>4, <2>5
<1>10. /\ place.offset <= boundary <=> k <= b
       /\ boundary \in Int /\ place.offset \in Int
  BY <1>7 DEF HalvesWith, F
<1>11. place \in Places /\ c[i] # NoFrame /\ to # NoFrame /\ to # c[i] /\ boundary \in Int /\ to \in Int
  BY <1>3, <1>4, <1>5, <1>10 DEF Places, NoFrame
<1> HIDE DEF low, A, B, cells, tail, t, m, to
<1>12. cells \in Cells
  <2>1. \A s \in Seconds : HalvedCell(h.cells[s], place, boundary, to, e.len, upperLen, FALSE) \in Places
    <3> TAKE s \in Seconds
    <3> DEFINE x == h.cells[s]
               y == HalvedCell(x, place, boundary, to, e.len, upperLen, FALSE)
    <3>1. x \in Places /\ FALSE \in BOOLEAN
      BY <1>1 DEF Cells
    <3>3. y = HalvedCell(x, place, boundary, to, e.len, upperLen, FALSE)
      OBVIOUS
    <3> HIDE DEF x, y
    <3>4. e.len \in Nat /\ c[i] = place.frame
      BY <1>2, <1>5
    <3> DEFINE len == e.len
               frame == c[i]
    <3>5. len \in Nat /\ frame = place.frame /\ to # frame /\ place \in Places /\ boundary \in Int /\ to \in Int
      BY <1>11, <3>4
    <3>6. y = HalvedCell(x, place, boundary, to, len, upperLen, FALSE)
      BY <3>3
    <3> HIDE DEF len, frame
    <3>7. HalvedCellWith(x, place, frame, boundary, to, len, upperLen, FALSE, y)
      BY <3>1, <3>5, <3>6, HalvedCellIs
    <3>2. y \in Places
      BY <3>7 DEF HalvedCellWith
    <3> QED
      BY <3>2 DEF x, y
  <2> QED
    BY <1>4, <2>1 DEF cells, HalvedCells, Cells
<1>13. tail \in Int
  BY <1>1, <1>4, <1>11, SlotIs DEF tail
<1>14. /\ MemoryFits(t, disk) /\ FramesOf(t, disk) = F /\ t.files = new.h.files /\ t.cells = cells
       /\ t.tail = tail /\ Beside(t) = Beside(h)
  <2> DEFINE g == new.h
             x == cells
             n == tail
  <2>1. MemoryFits(g, disk) /\ x \in Cells /\ n \in Int /\ FramesOf(g, disk) = F /\ Beside(g) = Beside(h)
    BY <1>4, <1>12, <1>13
  <2>2. t = [g EXCEPT !.cells = x, !.tail = n]
    BY DEF t
  <2> HIDE DEF g, x, n, t
  <2>3. CellsChanged(g, x, n, t)
    BY <2>1, <2>2, CellsAndTail
  <2> QED
    BY <2>1, <2>3 DEF g, x, n, CellsChanged
<1>15. InFiles(t.files, to) /\ InFiles(t.files, c[i])
  <2>1. InFiles(t.files, to)
    BY <1>4, <1>14
  <2>2. c[i] \in DOMAIN FramesOf(t, disk)
    BY <1>3, <1>14
  <2> QED
    BY <1>14, <2>1, <2>2, FramesShown DEF MemoryFits
<1>16. /\ MemoryFits(m, disk) /\ FramesOf(m, disk) = Updated(Updated(F, to, A), c[i], B)
       /\ m.files = t.files /\ m.cells = t.cells /\ m.tail = t.tail /\ Beside(m) = Beside(t)
  <2> DEFINE y == c[i]
  <2>1. y \in Nat /\ to \in Nat /\ InFiles(t.files, y) /\ InFiles(t.files, to)
    BY <1>3, <1>4, <1>15 DEF to
  <2>2. m = mark_dirty(mark_dirty(t, to, A), y, B)
    BY DEF m
  <2> HIDE DEF y
  <2>3. /\ MemoryFits(m, disk) /\ FramesOf(m, disk) = Updated(Updated(FramesOf(t, disk), to, A), y, B)
        /\ m.files = t.files /\ m.cells = t.cells /\ m.tail = t.tail /\ Beside(m) = Beside(t)
    BY <1>8, <1>9, <1>14, <2>1, <2>2, TwoMarked DEF A, B, to, low
  <2> QED
    BY <1>14, <2>3 DEF y
(* The frame is halved first, and then the entry is put into its half.     *)
<1> DEFINE E == f.entries
           below == SubSeq(E, 1, b - S[i])
           above == SubSeq(E, b - S[i] + 1, Len(E))
           L == [entries |-> below, next |-> to]
           U == [entries |-> above, next |-> f.next]
           M == Updated(Updated(F, to, U), c[i], L)
           G == Updated(Updated(F, to, A), c[i], B)
           d == PutIn(c, i, to)
           T == PutIn(S, i, b)
           q == IF k <= b THEN i ELSE i + 1
<1>17. /\ IsPart(below, W, S[i], b) /\ IsPart(above, W, b, S[i + 1])
       /\ k <= b => low.entries = PutIn(below, k - S[i], e) /\ A = U
       /\ k > b => low.entries = below /\ A.entries = PutIn(above, k - b, e)
  BY <1>7 DEF HalvesWith, F, low, A
<1>18. /\ DOMAIN M = DOMAIN F \union {to} /\ DOMAIN G = DOMAIN M
       /\ M[to] = U /\ M[c[i]] = L /\ G[to] = A /\ G[c[i]] = B
       /\ \A n \in DOMAIN F : n # c[i] => M[n] = F[n]
       /\ \A n \in DOMAIN M : n # to /\ n # c[i] => G[n] = M[n]
  BY <1>3, <1>4, <1>11 DEF Updated, to
<1>19. L.entries = below /\ L.next = to /\ U.entries = above /\ U.next = f.next
  OBVIOUS
<1> HIDE DEF M, G, L, U, below, above
<1>20. CutWith(M, c, S, W, i, b, to)
  <2>1. to \notin DOMAIN F /\ to \in DOMAIN M /\ Others(F, M, {c[i]})
    BY <1>4, <1>18 DEF Others, to
  <2>2. M[c[i]].next = to /\ M[to].next = F[c[i]].next
    BY <1>18, <1>19 DEF F
  <2>3. IsPart(M[c[i]].entries, W, S[i], b) /\ IsPart(M[to].entries, W, b, S[i + 1])
    BY <1>17, <1>18, <1>19
  <2> QED
    BY <1>1, <2>1, <2>2, <2>3, SplitLaid
<1>21. /\ IsLaid(M, d, T, W) /\ Len(d) = Len(c) + 1 /\ d[i] = c[i] /\ d[i + 1] = to
       /\ T[i] = S[i] /\ T[i + 1] = b /\ T[i + 2] = S[i + 1]
       /\ \A x, l, st : StandsAt(c, S, W, x, l, st) =>
            StandsAt(d, T, W, SplitCell(x, c[i], boundary, to), l, st)
  BY <1>20 DEF CutWith
<1>22. Len(c) \in Nat /\ i \in Nat /\ i >= 1 /\ i <= Len(c)
  BY <1>1, LaidIs
<1>23. /\ d[1] = c[1] /\ c # <<>> /\ d[Len(d)] = IF i = Len(c) THEN to ELSE c[Len(c)]
  <2> DEFINE X == DOMAIN F \union {to}
  <2>1. c \in Seq(DOMAIN F)
    BY <1>1 DEF IsLaid
  <2>2. c \in Seq(X) /\ to \in X
    BY <2>1
  <2> HIDE DEF X
  <2>3. /\ PutIn(c, i, to)[1] = c[1]
        /\ PutIn(c, i, to)[Len(PutIn(c, i, to))] = IF i = Len(c) THEN to ELSE c[Len(c)]
    BY <2>2, EndsOfPutIn
  <2> QED
    BY <1>22, <2>3
<1> HIDE DEF d, T
<1>24. /\ q \in 1 .. Len(d) /\ k \in T[q] .. T[q + 1]
       /\ k <= b => q = i /\ d[q] = c[i] /\ k - T[q] = k - S[i]
       /\ k > b => q = i + 1 /\ d[q] = to /\ k - T[q] = k - b
  <2>1. i + 1 + 1 = i + 2
    BY <1>22
  <2>2. CASE k <= b
    BY <1>3, <1>21, <1>22, <2>2
  <2>3. CASE k > b
    <3>1. q = i + 1
      BY <1>3, <2>3
    <3>2. k \in T[i + 1] .. T[i + 2]
      BY <1>3, <1>21, <2>3
    <3>3. q + 1 = i + 2
      BY <1>22, <3>1
    <3>4. ~(k <= b)
      BY <1>3, <2>3
    <3> QED
      BY <1>21, <1>22, <3>1, <3>2, <3>3, <3>4
  <2> QED
    BY <1>3, <2>2, <2>3
<1>25. k <= b \/ k > b
  BY <1>3
<1> HIDE DEF q
<1>26. FramesOf(r.h, disk) = G /\ r.h = m /\ r.cell = HalvedPlace(place, boundary, to)
  BY <1>6, <1>16 DEF G
<1>27. /\ Others(M, FramesOf(r.h, disk), {d[q]})
       /\ FramesOf(r.h, disk)[d[q]].next = M[d[q]].next
       /\ FramesOf(r.h, disk)[d[q]].entries = PutIn(M[d[q]].entries, k - T[q], e)
  <2>1. B.next = to /\ B.entries = low.entries /\ A.next = f.next
    <3> HIDE DEF B, A
    <3> DEFINE x == low.entries
               y == A.entries
    <3>1. B = [entries |-> x, next |-> to] /\ A = [entries |-> y, next |-> f.next]
      BY <1>8
    <3> HIDE DEF x, y
    <3> QED
      BY <3>1 DEF x
  <2>2. CASE k <= b
    <3>1. d[q] = c[i] /\ k - T[q] = k - S[i] /\ A = U
      BY <1>17, <1>24, <2>2
    <3>2. Others(M, G, {c[i]})
      BY <1>18, <3>1 DEF Others
    <3>3. G[c[i]].next = M[c[i]].next /\ G[c[i]].entries = PutIn(M[c[i]].entries, k - S[i], e)
      BY <1>17, <1>18, <1>19, <2>1, <2>2
    <3> QED
      BY <1>26, <3>1, <3>2, <3>3
  <2>3. CASE k > b
    <3>1. d[q] = to /\ k - T[q] = k - b
      BY <1>24, <2>3
    <3>2. B = L
      BY <1>8, <1>17, <2>3 DEF L
    <3>3. Others(M, G, {to})
      BY <1>18, <3>2 DEF Others
    <3>4. G[to].next = M[to].next /\ G[to].entries = PutIn(M[to].entries, k - b, e)
      BY <1>17, <1>18, <1>19, <2>1, <2>3
    <3> QED
      BY <1>26, <3>1, <3>3, <3>4
  <2> QED
    BY <1>25, <2>2, <2>3
<1>28. /\ LenOf(W, k) \in Nat /\ LenOf(W, b) \in Nat /\ LenOf(W, S[i]) \in Nat /\ FRAME_HEADER_LEN \in Nat
       /\ place.offset = FRAME_HEADER_LEN + LenOf(W, k) - LenOf(W, S[i])
       /\ boundary = FRAME_HEADER_LEN + LenOf(W, b) - LenOf(W, S[i])
  <2>1. LenOf(W, k) \in Nat /\ LenOf(W, S[i]) \in Nat
    BY <1>1, BordersOfLaid
  <2>2. LenOf(W, b) \in Nat
    BY <1>1, BordersOfLaid
  <2> QED
    BY <1>5, <2>1, <2>2, FrameAssumption DEF BorderOf
<1>29. /\ k <= b => BorderOf(T, W, q, k) = place.offset
       /\ k > b => BorderOf(T, W, q, k) = place.offset - boundary + FRAME_HEADER_LEN
  <2>1. ASSUME k <= b PROVE BorderOf(T, W, q, k) = place.offset
    BY <1>21, <1>24, <1>28, <2>1 DEF BorderOf
  <2>2. ASSUME k > b PROVE BorderOf(T, W, q, k) = place.offset - boundary + FRAME_HEADER_LEN
    <3>1. BorderOf(T, W, q, k) = FRAME_HEADER_LEN + LenOf(W, k) - LenOf(W, b)
      BY <1>21, <1>24, <2>2 DEF BorderOf
    <3> QED
      BY SMTT(30), <1>28, <3>1
  <2> QED
    BY <2>1, <2>2
<1>30. r.cell = PlaceOf(d, T, W, q, k)
  <2>1. CASE k <= b
    <3>1. place.offset <= boundary
      BY <1>10, <2>1
    <3> QED
      BY <1>5, <1>24, <1>26, <1>29, <2>1, <3>1 DEF HalvedPlace, PlaceOf
  <2>2. CASE k > b
    <3>1. ~(place.offset <= boundary)
      BY <1>3, <1>10, <2>2
    <3> QED
      BY <1>24, <1>26, <1>29, <2>2, <3>1 DEF HalvedPlace, PlaceOf
  <2> QED
    BY <1>25, <2>1, <2>2
<1>31. CellsMoved(h.cells, r.h.cells, c, S, W, d, T, q, k, e.len)
  <2>1. r.h.cells = cells
    BY <1>14, <1>16, <1>26
  <2> SUFFICES ASSUME NEW s \in Seconds
               PROVE  /\ h.cells[s] = NoCell => cells[s] = NoCell
                      /\ \A l, st : StandsAt(c, S, W, h.cells[s], l, st) =>
                           \E z : /\ StandsAt(d, T, W, z, l, st)
                                  /\ cells[s] = MovedCell(z, d[q], BorderOf(T, W, q, k), e.len)
    BY <2>1 DEF CellsMoved
  <2> DEFINE x == h.cells[s]
             y == cells[s]
  <2>2. x \in Places
    BY <1>1 DEF Cells
  <2>3. y = HalvedCell(x, place, boundary, to, e.len, upperLen, FALSE)
    BY <1>4 DEF cells, HalvedCells
  <2> HIDE DEF x, y
  <2>4. /\ x = NoCell => y = NoCell
        /\ x.frame # to /\ place.offset <= boundary =>
             y = MovedCell(SplitCell(x, c[i], boundary, to), c[i], place.offset, e.len)
        /\ x.frame # to /\ place.offset > boundary =>
             y = MovedCell(SplitCell(x, c[i], boundary, to), to,
                           place.offset - boundary + FRAME_HEADER_LEN, e.len)
    <3> DEFINE len == e.len
               frame == place.frame
    <3>1. /\ len \in Nat /\ to # frame /\ frame = c[i] /\ to \in Int /\ boundary \in Int /\ place \in Places
          /\ frame # NoFrame /\ to # NoFrame /\ FALSE \in BOOLEAN
      BY <1>2, <1>5, <1>11
    <3>2. y = HalvedCell(x, place, boundary, to, len, upperLen, FALSE) /\ frame = place.frame
      BY <2>3
    <3> HIDE DEF len, frame
    <3>4. HalvedCellWith(x, place, frame, boundary, to, len, upperLen, FALSE, y)
      BY <2>2, <3>1, <3>2, HalvedCellIs
    <3>3. /\ x = NoCell => y = NoCell
          /\ x.frame # to /\ place.offset <= boundary =>
               y = MovedCell(SplitCell(x, frame, boundary, to), frame, place.offset, len)
          /\ x.frame # to /\ place.offset > boundary =>
               y = MovedCell(SplitCell(x, frame, boundary, to), to,
                             place.offset - boundary + FRAME_HEADER_LEN, len)
      BY <3>1, <3>4 DEF HalvedCellWith
    <3> QED
      BY <3>1, <3>2, <3>3 DEF len
  <2>5. ASSUME NEW l, NEW st, StandsAt(c, S, W, x, l, st)
        PROVE  \E z : /\ StandsAt(d, T, W, z, l, st)
                      /\ y = MovedCell(z, d[q], BorderOf(T, W, q, k), e.len)
    <3>1. x.frame # to
      <4>1. x.frame \in DOMAIN F
        BY <1>1, <2>5, StandingIs
      <4> QED
        BY <1>4, <4>1 DEF to
    <3>2. StandsAt(d, T, W, SplitCell(x, c[i], boundary, to), l, st)
      BY <1>21, <2>5
    <3>3. y = MovedCell(SplitCell(x, c[i], boundary, to), d[q], BorderOf(T, W, q, k), e.len)
      <4>1. CASE k <= b
        BY <1>10, <1>24, <1>29, <2>4, <3>1, <4>1
      <4>2. CASE k > b
        <5>1. place.offset > boundary
          BY <1>3, <1>10, <4>2
        <5> QED
          BY <1>24, <1>29, <2>4, <3>1, <4>2, <5>1
      <4> QED
        BY <1>25, <4>1, <4>2
    <3> QED
      BY <3>2, <3>3
  <2> QED
    BY <2>4, <2>5 DEF x, y
<1>32. h.files = <<>> => d[1] = HEAD
  <2>1. InFiles(h.files, c[i])
    BY <1>1, <1>3
  <2> QED
    BY <2>1 DEF InFiles
<1>33. r.h.tail = d[Len(d)]
  <2>1. f.next = NoFrame <=> i = Len(c)
    <3>1. i # Len(c) => c[i + 1] # NoFrame
      <4> SUFFICES ASSUME i # Len(c) PROVE c[i + 1] # NoFrame
        OBVIOUS
      <4>1. i + 1 \in 1 .. Len(c)
        BY <1>22
      <4>2. c[i + 1] \in Nat
        BY <1>1, <4>1, FrameInLaid
      <4> QED
        BY <4>2 DEF NoFrame
    <3> QED
      BY <1>3, <3>1 DEF NextIn
  <2>2. h.tail = c[Len(c)]
    BY <1>23 DEF MemoryRight
  <2> QED
    BY <1>4, <1>14, <1>16, <1>23, <1>26, <2>1, <2>2 DEF tail, to
<1>34. room_for_frames(r.h) = room_for_frames(h) - 1
  <2>1. r.h.files = new.h.files
    BY <1>14, <1>16, <1>26
  <2> QED
    BY <1>4, <2>1, RoomDepends
<1>35. /\ MemoryFits(r.h, disk) /\ Beside(r.h) = Beside(h)
       /\ (c # <<>> => d[1] = c[1])
  BY <1>14, <1>16, <1>23, <1>26
<1>36. room_for_frames(r.h) \in Nat /\ room_for_frames(h) <= room_for_frames(r.h) + 1
  <2> DEFINE n == room_for_frames(h)
             l == room_for_frames(r.h)
  <2>1. n \in Nat /\ n # 0 /\ l = n - 1
    BY <1>1, <1>34
  <2> HIDE DEF n, l
  <2>2. l \in Nat /\ n <= l + 1
    BY <2>1
  <2> QED
    BY <2>2 DEF n, l
<1>37. MemoryFits(r.h, disk) /\ Beside(r.h) = Beside(h)
  BY <1>35
<1>38. /\ h \in Slots /\ IsEntry(e) /\ IsLaid(M, d, T, W) /\ q \in 1 .. Len(d) /\ k \in T[q] .. T[q + 1]
  BY <1>1, <1>2, <1>21, <1>24
<1> HIDE DEF E
<1> QED
  BY <1>27, <1>30, <1>31, <1>32, <1>33, <1>35, <1>36, <1>37, <1>38, PutLands

-------------------------------------------------------------------------------
(* Put into the first of two parts, or into both together. *)
LEMMA PutIntoFirstPart ==
  ASSUME NEW A \in Seq(Entries), NEW B \in Seq(Entries), NEW k \in 0 .. Len(A), NEW e \in Entries
  PROVE  PutIn(A, k, e) \o B = PutIn(A \o B, k, e)
<1> DEFINE a == Len(A)
           b == Len(B)
           P == PutIn(A, k, e)
           X == P \o B
           Y == PutIn(A \o B, k, e)
<1>1. a \in Nat /\ b \in Nat /\ k \in Nat /\ k <= a
  OBVIOUS
<1>2. /\ P \in Seq(Entries) /\ Len(P) = a + 1
      /\ \A n \in 1 .. k : P[n] = A[n]
      /\ P[k + 1] = e
      /\ \A n \in k + 1 .. a : P[n + 1] = A[n]
  BY EntriesPutIn
<1>3. /\ A \o B \in Seq(Entries) /\ Len(A \o B) = a + b
      /\ \A n \in 1 .. a : (A \o B)[n] = A[n]
      /\ \A n \in 1 .. b : (A \o B)[a + n] = B[n]
  BY <1>1, BothAre
<1>4. /\ X \in Seq(Entries) /\ Len(X) = a + 1 + b
      /\ \A n \in 1 .. a + 1 : X[n] = P[n]
      /\ \A n \in 1 .. b : X[a + 1 + n] = B[n]
  <2> DEFINE p == a + 1
  <2>1. p \in Nat /\ Len(P) = p
    BY <1>1, <1>2
  <2> HIDE DEF P, p
  <2>2. /\ P \o B \in Seq(Entries) /\ Len(P \o B) = p + b
        /\ \A n \in 1 .. p : (P \o B)[n] = P[n]
        /\ \A n \in 1 .. b : (P \o B)[p + n] = B[n]
    BY <1>1, <1>2, <2>1, BothAre
  <2> QED
    BY <2>2 DEF p
<1>5. /\ Y \in Seq(Entries) /\ Len(Y) = a + b + 1
      /\ \A n \in 1 .. k : Y[n] = (A \o B)[n]
      /\ Y[k + 1] = e
      /\ \A n \in k + 1 .. a + b : Y[n + 1] = (A \o B)[n]
  <2> DEFINE W == A \o B
  <2>1. W \in Seq(Entries) /\ Len(W) = a + b /\ k \in 0 .. Len(W)
    BY <1>1, <1>3
  <2> HIDE DEF W
  <2>2. /\ PutIn(W, k, e) \in Seq(Entries) /\ Len(PutIn(W, k, e)) = Len(W) + 1
        /\ \A n \in 1 .. k : PutIn(W, k, e)[n] = W[n]
        /\ PutIn(W, k, e)[k + 1] = e
        /\ \A n \in k + 1 .. Len(W) : PutIn(W, k, e)[n + 1] = W[n]
    BY <2>1, EntriesPutIn
  <2> QED
    BY <2>1, <2>2 DEF W
<1> HIDE DEF a, b, P, X, Y
<1>6. Len(X) = Len(Y) /\ Len(X) = a + b + 1
  BY <1>1, <1>4, <1>5
<1>7. \A n \in 1 .. a + b + 1 : X[n] = Y[n]
  <2> TAKE n \in 1 .. a + b + 1
  <2>1. CASE n <= k
    <3>1. n \in 1 .. k /\ n \in 1 .. a /\ n \in 1 .. a + 1
      BY <1>1, <2>1
    <3> QED
      BY <1>2, <1>3, <1>4, <1>5, <3>1
  <2>2. CASE n = k + 1
    <3>1. n \in 1 .. a + 1
      BY <1>1, <2>2
    <3> QED
      BY <1>2, <1>4, <1>5, <2>2, <3>1
  <2>3. CASE n > k + 1 /\ n <= a + 1
    <3> DEFINE l == n - 1
    <3>1. l \in k + 1 .. a /\ l \in k + 1 .. a + b /\ l \in 1 .. a /\ n \in 1 .. a + 1 /\ n = l + 1
      BY <1>1, <2>3
    <3> HIDE DEF l
    <3>2. X[n] = P[l + 1] /\ P[l + 1] = A[l]
      BY <1>2, <1>4, <3>1
    <3>3. Y[n] = (A \o B)[l] /\ (A \o B)[l] = A[l]
      BY <1>3, <1>5, <3>1
    <3> QED
      BY <3>2, <3>3
  <2>4. CASE n > a + 1
    <3> DEFINE l == n - a - 1
    <3>1. l \in 1 .. b /\ n = a + 1 + l /\ a + l \in k + 1 .. a + b /\ a + l + 1 = n
      BY <1>1, <2>4
    <3> HIDE DEF l
    <3>2. X[n] = B[l]
      BY <1>4, <3>1
    <3>3. Y[a + l + 1] = (A \o B)[a + l] /\ (A \o B)[a + l] = B[l]
      BY <1>3, <1>5, <3>1
    <3> QED
      BY <3>1, <3>2, <3>3
  <2> QED
    BY <1>1, <2>1, <2>2, <2>3, <2>4
<1>8. X = Y
  BY <1>4, <1>5, <1>6, <1>7
<1> QED
  BY <1>8 DEF X, Y, P

-------------------------------------------------------------------------------
(* The two lemmas about halves, each from one named fact. *)
HalvedFrom(h, F, place, e, boundary, upperLen, new, frame, f, to, next, t, half, r) ==
  /\ frame = place.frame /\ f = F[frame] /\ to = f.next /\ next = F[to]
  /\ t = [h EXCEPT !.cells = HalvedCells(h.cells, place, boundary, to, e.len, upperLen, TRUE),
                   !.tail = IF to = NoFrame THEN to ELSE h.tail]
  /\ half = LowerHalf(f, place, e, boundary)
  /\ r = Halved(h, F, place, e, boundary, upperLen, TRUE, new)
LEMMA HalvedFromIs ==
  ASSUME NEW h, NEW F, NEW place, NEW e, NEW boundary, NEW upperLen, NEW new, NEW frame, NEW f,
         NEW to, NEW next, NEW t, NEW half, NEW r,
         HalvedFrom(h, F, place, e, boundary, upperLen, new, frame, f, to, next, t, half, r)
  PROVE  HalvedNextWith(t, next, f, place, e, boundary, frame, to, half, r)
BY SMTT(30) DEF HalvedFrom, Halved, LowerHalf, UpperHalf, HalvedCells, HalvedCell, HalvedPlace, HalvedNextWith

-------------------------------------------------------------------------------
(* The half of a frame goes before the entries of the next one.            *)
LEMMA PutHalvedNext ==
  ASSUME disk.frames \in FrameMaps, NEW h, NEW c, NEW S, NEW W, MemoryRight(h, disk, c, S, W),
         NEW i \in 1 .. Len(c), i # Len(c),
         NEW k \in S[i] .. S[i + 1], NEW b \in S[i] .. S[i + 1], NEW e \in Blocks,
         NEW f, f = FramesOf(h, disk)[c[i]],
         NEW place, place = PlaceOf(c, S, W, i, k), NEW boundary, boundary = BorderOf(S, W, i, b),
         boundary - FRAME_HEADER_LEN + (IF k <= b THEN e.len ELSE 0) <= FRAME_CAPACITY,
         NEW upperLen, upperLen = records_end(f) - boundary + (IF k <= b THEN 0 ELSE e.len),
         free(FramesOf(h, disk)[c[i + 1]]) >= upperLen, NEW new, NEW r \in Answers,
         r = Halved(h, FramesOf(h, disk), place, e, boundary, upperLen, TRUE, new)
  PROVE  PutBehind(h, c, S, W, k, e, r)
<1> DEFINE F == FramesOf(h, disk)
           to == c[i + 1]
           N == F[to]
           low == LowerHalf(f, place, e, boundary)
           high == UpperHalf(f, place, e, boundary)
           A == insert(N, FRAME_HEADER_LEN, high.entries)
           B == [low EXCEPT !.next = low.next]
           cells == HalvedCells(h.cells, place, boundary, to, e.len, upperLen, TRUE)
           tail == IF to = NoFrame THEN to ELSE h.tail
           t == [h EXCEPT !.cells = cells, !.tail = tail]
           m == mark_dirty(mark_dirty(t, to, A), c[i], B)
<1>1. /\ h \in Slots /\ MemoryFits(h, disk) /\ F \in FrameMaps /\ IsLaid(F, c, S, W)
      /\ room_for_frames(h) \in Nat /\ \A n \in DOMAIN F : n \in Nat /\ InFiles(h.files, n)
      /\ h.cells \in Cells
  BY MemoryIs
<1>2. e \in Entries /\ IsEntry(e) /\ e.len \in Nat
  BY BlocksAreEntries
<1>22. Len(c) \in Nat /\ i \in Nat /\ i >= 1 /\ i < Len(c) /\ i + 1 \in 1 .. Len(c)
  <2>1. Len(c) \in Nat
    BY <1>1, LaidIs
  <2> QED
    BY <2>1
<1>3. /\ c[i] \in DOMAIN F /\ c[i] \in Nat /\ f \in WholeFrames
      /\ S[i] \in Nat /\ S[i + 1] \in Nat /\ S[i] <= S[i + 1] /\ k \in Int /\ b \in Int
      /\ f.next = to /\ IsPart(f.entries, W, S[i], S[i + 1])
      /\ records_end(f) = BorderOf(S, W, i, S[i + 1])
  <2> DEFINE n == i + 1
  <2>0. n = i + 1 /\ c[n] = to
    OBVIOUS
  <2> HIDE DEF n, to, F
  <2>1. f = F[c[i]]
    BY DEF F
  <2>2. /\ c[i] \in DOMAIN F /\ c[i] \in Nat /\ F[c[i]] \in WholeFrames
        /\ S[i] \in Nat /\ S[i + 1] \in Nat /\ S[i] <= S[i + 1]
        /\ F[c[i]].next = NextIn(c, i) /\ IsPart(F[c[i]].entries, W, S[i], S[i + 1])
        /\ records_end(F[c[i]]) = BorderOf(S, W, i, S[i + 1])
    BY <1>1, FrameInLaid
  <2>3. NextIn(c, i) = to
    BY <2>0 DEF NextIn
  <2>4. k \in Int /\ b \in Int
    BY <2>2
  <2> QED
    BY <2>1, <2>2, <2>3, <2>4
<1>4. /\ to \in DOMAIN F /\ to \in Nat /\ to # c[i] /\ N \in WholeFrames
      /\ IsPart(N.entries, W, S[i + 1], S[i + 2])
      /\ S[i + 2] \in Nat /\ S[i + 1] <= S[i + 2]
  <2> DEFINE j == i + 1
  <2>1. j \in 1 .. Len(c) /\ j + 1 = i + 2 /\ j # i
    BY <1>22
  <2>2. to = c[j]
    OBVIOUS
  <2> HIDE DEF j
  <2>3. /\ c[j] \in DOMAIN F /\ c[j] \in Nat /\ F[c[j]] \in WholeFrames
        /\ S[j + 1] \in Nat /\ S[j] <= S[j + 1]
        /\ IsPart(F[c[j]].entries, W, S[j], S[j + 1])
    BY <1>1, <2>1, FrameInLaid
  <2>4. c[j] # c[i]
    BY <1>1, <2>1 DEF IsLaid
  <2> QED
    BY <2>1, <2>2, <2>3, <2>4 DEF j
<1>5. place.frame = c[i] /\ place = [frame |-> c[i], offset |-> BorderOf(S, W, i, k)]
  BY DEF PlaceOf
<1>6. r.h = m /\ r.cell = HalvedPlace(place, boundary, to)
  <2> DEFINE frame == c[i]
             next == N
             half == low
  <2>1. frame = place.frame /\ f = F[frame] /\ to = f.next /\ next = F[to]
    BY <1>3, <1>5
  <2>2. /\ r = Halved(h, F, place, e, boundary, upperLen, TRUE, new)
        /\ t = [h EXCEPT !.cells = HalvedCells(h.cells, place, boundary, to,
                                               e.len, upperLen, TRUE),
                         !.tail = IF to = NoFrame THEN to ELSE h.tail]
        /\ half = LowerHalf(f, place, e, boundary)
    BY DEF F
  <2>3. HalvedFrom(h, F, place, e, boundary, upperLen, new, frame, f, to, next, t, half, r)
    BY <2>1, <2>2 DEF HalvedFrom
  <2> HIDE DEF frame, F, t, to, next, half, low, high, A, B, N, cells, tail, m
  <2>4. HalvedNextWith(t, next, f, place, e, boundary, frame, to, half, r)
    BY <2>3, HalvedFromIs
  <2> QED
    BY <2>4 DEF frame, next, half, HalvedNextWith, m, A, B, low, high
<1> HIDE DEF F
<1>7. HalvesWith(F, c, S, W, i, k, b, e)
  BY <1>1, <1>2, HalvesOfLaid
<1>8. /\ B \in FrameSet /\ B = [entries |-> low.entries, next |-> to]
      /\ high.entries \in Seq(Entries) /\ Whole(high.entries) = upperLen
  <2> DEFINE n == to
  <2>1. n \in Int /\ f = F[c[i]]
    BY <1>4 DEF F
  <2>4. HalvesFrom(F, c, S, W, i, k, b, e, f, place, boundary, n)
    BY <1>1, <1>2, <2>1 DEF HalvesFrom
  <2> HIDE DEF n, low, high, to, N, A, B, cells, tail, t, m
  <2>5. HalvesFitFrames(f, place, e, boundary, k, b, n)
    BY <2>4, HalvesAreFrames
  <2>2. /\ [low EXCEPT !.next = n] \in FrameSet /\ [low EXCEPT !.next = n] = [entries |-> low.entries, next |-> n]
        /\ low.next = f.next /\ high.entries \in Seq(Entries)
        /\ Whole(high.entries) = records_end(f) - boundary + (IF k <= b THEN 0 ELSE e.len)
    BY <2>5 DEF HalvesFitFrames, low, high
  <2>3. n = low.next /\ n = to /\ Whole(high.entries) = upperLen
    BY <1>3, <2>2 DEF n
  <2> QED
    BY <2>2, <2>3 DEF B
<1>9. /\ A \in FrameSet /\ A = [entries |-> high.entries \o N.entries, next |-> N.next]
      /\ N.entries \in Seq(Entries)
  <2> DEFINE X == high.entries
             Y == N.entries
             n == N.next
  <2>1. /\ N \in Loose /\ Y \in Seq(Entries) /\ n \in Int /\ used(N) \in Nat
        /\ free(N) = FRAME_CAPACITY - used(N) /\ used(N) = Whole(Y)
    BY <1>4, WholeFrameIs DEF used, Whole
  <2>2. X \in Seq(Entries) /\ Whole(X) = upperLen
    BY <1>8
  <2>3. free(N) >= upperLen
    BY DEF F
  <2>4. A = [N EXCEPT !.entries = X \o Y]
    <3> HIDE DEF N, X
    <3> QED
      BY <2>1, <2>2, PutBeforeAll DEF X
  <2> HIDE DEF X, Y, n, A
  <2>5. [N EXCEPT !.entries = X \o Y] = [entries |-> X \o Y, next |-> n]
    <3> DEFINE l == N
               y == X \o Y
    <3>1. l \in Loose /\ n = l.next
      BY <2>1 DEF n
    <3> HIDE DEF l, y
    <3>2. [l EXCEPT !.entries = y] = [entries |-> y, next |-> n]
      BY <3>1 DEF Loose
    <3> QED
      BY <3>2 DEF l, y
  <2>6. X \o Y \in Seq(Entries) /\ Whole(X \o Y) = Whole(X) + Whole(Y)
    BY <2>1, <2>2, LengthOfBoth
  <2> DEFINE Z == X \o Y
  <2>7. Z \in Seq(Entries) /\ Whole(Z) <= FRAME_CAPACITY
    <3> HIDE DEF N
    <3>1. Whole(X) \in Int
      <4>1. X = SubSeq(X, 1, Len(X)) \/ TRUE
        OBVIOUS
      <4> QED
        BY <2>2, LengthsAre DEF Whole
    <3>2. FRAME_CAPACITY \in Int
      BY FrameAssumption
    <3> QED
      BY <2>1, <2>2, <2>3, <2>6, <3>1, <3>2
  <2> HIDE DEF Z
  <2>8. [entries |-> Z, next |-> n] \in FrameSet
    BY <2>1, <2>7, FrameOf
  <2> QED
    BY <2>1, <2>4, <2>5, <2>8 DEF X, Y, Z, n
<1>10. /\ place.offset <= boundary <=> k <= b
       /\ boundary \in Int /\ place.offset \in Int
  BY <1>7 DEF HalvesWith, F
<1>11. place \in Places /\ c[i] # NoFrame /\ to # NoFrame /\ to # c[i] /\ boundary \in Int /\ to \in Int
       /\ upperLen \in Int
  <2>1. records_end(f) \in Int
    BY <1>7 DEF HalvesWith, F
  <2>2. upperLen \in Int
    <3>1. CASE k <= b
      <4>1. upperLen = records_end(f) - boundary + 0
        BY <3>1
      <4> QED
        BY <1>10, <2>1, <4>1
    <3>2. CASE ~(k <= b)
      <4>1. upperLen = records_end(f) - boundary + e.len
        BY <3>2
      <4> QED
        BY <1>2, <1>10, <2>1, <4>1
    <3> QED
      BY <3>1, <3>2
  <2> HIDE DEF to
  <2>3. place \in Places
    BY <1>3, <1>5, <1>10 DEF Places
  <2> QED
    <3>1. to \in Nat /\ c[i] \in Nat /\ to # c[i] /\ boundary \in Int
      BY <1>3, <1>4, <1>10 DEF to
    <3>2. to # NoFrame /\ c[i] # NoFrame /\ to \in Int
      BY <3>1 DEF NoFrame
    <3> QED
      BY <2>2, <2>3, <3>1, <3>2
<1> HIDE DEF low, high, A, B, cells, tail, t, m, to, N
<1>12. cells \in Cells
  <2>1. \A s \in Seconds : HalvedCell(h.cells[s], place, boundary, to, e.len, upperLen, TRUE) \in Places
    <3> TAKE s \in Seconds
    <3> DEFINE x == h.cells[s]
               y == HalvedCell(x, place, boundary, to, e.len, upperLen, TRUE)
               len == e.len
               frame == c[i]
    <3>1. x \in Places /\ TRUE \in BOOLEAN
      BY <1>1 DEF Cells
    <3>5. len \in Nat /\ frame = place.frame /\ to # frame /\ place \in Places /\ boundary \in Int
          /\ to \in Int /\ upperLen \in Int
      BY <1>2, <1>5, <1>11
    <3>6. y = HalvedCell(x, place, boundary, to, len, upperLen, TRUE)
      OBVIOUS
    <3> HIDE DEF x, y, len, frame
    <3>7. HalvedCellWith(x, place, frame, boundary, to, len, upperLen, TRUE, y)
      BY <3>1, <3>5, <3>6, HalvedCellIs
    <3>2. y \in Places
      BY <3>7 DEF HalvedCellWith
    <3> QED
      BY <3>2 DEF x, y
  <2> QED
    BY <2>1 DEF cells, HalvedCells, Cells
<1>13. tail \in Int
  BY <1>1, <1>11, SlotIs DEF tail
<1>14. /\ MemoryFits(t, disk) /\ FramesOf(t, disk) = F /\ t.files = h.files /\ t.cells = cells
       /\ t.tail = h.tail /\ Beside(t) = Beside(h)
  <2> DEFINE x == cells
             n == tail
  <2>1. MemoryFits(h, disk) /\ x \in Cells /\ n \in Int /\ n = h.tail
    BY <1>1, <1>11, <1>12, <1>13 DEF tail
  <2>2. t = [h EXCEPT !.cells = x, !.tail = n]
    BY DEF t
  <2> HIDE DEF x, n, t
  <2>3. CellsChanged(h, x, n, t)
    BY <2>1, <2>2, CellsAndTail
  <2> QED
    BY <2>1, <2>3 DEF x, CellsChanged, F
<1>15. InFiles(t.files, to) /\ InFiles(t.files, c[i])
  BY <1>1, <1>3, <1>4, <1>14 DEF to
<1>16. /\ MemoryFits(m, disk) /\ FramesOf(m, disk) = Updated(Updated(F, to, A), c[i], B)
       /\ m.files = t.files /\ m.cells = t.cells /\ m.tail = t.tail /\ Beside(m) = Beside(t)
  <2> DEFINE y == c[i]
  <2>1. y \in Nat /\ to \in Nat /\ InFiles(t.files, y) /\ InFiles(t.files, to)
    BY <1>3, <1>4, <1>15 DEF to
  <2>2. m = mark_dirty(mark_dirty(t, to, A), y, B)
    BY DEF m
  <2>0. A \in FrameSet /\ B \in FrameSet
    BY <1>8, <1>9 DEF A, B, to, low, high, N
  <2> HIDE DEF y
  <2>3. /\ MemoryFits(m, disk) /\ FramesOf(m, disk) = Updated(Updated(FramesOf(t, disk), to, A), y, B)
        /\ m.files = t.files /\ m.cells = t.cells /\ m.tail = t.tail /\ Beside(m) = Beside(t)
    BY <1>14, <2>0, <2>1, <2>2, TwoMarked
  <2> QED
    BY <1>14, <2>3 DEF y
(* The frame is halved first, and then the entry is put into its half.     *)
<1> DEFINE E == f.entries
           below == SubSeq(E, 1, b - S[i])
           above == SubSeq(E, b - S[i] + 1, Len(E))
           L == [entries |-> below, next |-> to]
           U == [entries |-> above \o N.entries, next |-> N.next]
           M == Updated(Updated(F, to, U), c[i], L)
           G == Updated(Updated(F, to, A), c[i], B)
           T == [S EXCEPT ![i + 1] = b]
           q == IF k <= b THEN i ELSE i + 1
           by == LenOf(W, S[i + 1]) - LenOf(W, b)
<1>17. /\ IsPart(below, W, S[i], b) /\ IsPart(above, W, b, S[i + 1])
       /\ k <= b => low.entries = PutIn(below, k - S[i], e) /\ high.entries = above
       /\ k > b => /\ low.entries = below /\ high.entries = PutIn(above, k - b, e)
                   /\ k - b \in 0 .. Len(above)
  <2>1. /\ IsPart(below, W, S[i], b) /\ IsPart(above, W, b, S[i + 1])
        /\ k <= b =>
             /\ k - S[i] \in 0 .. Len(below)
             /\ LowerHalf(f, place, e, boundary) = [entries |-> PutIn(below, k - S[i], e), next |-> f.next]
             /\ UpperHalf(f, place, e, boundary) = [entries |-> above, next |-> f.next]
        /\ k > b =>
             /\ k - b \in 0 .. Len(above)
             /\ LowerHalf(f, place, e, boundary) = [entries |-> below, next |-> f.next]
             /\ UpperHalf(f, place, e, boundary) = [entries |-> PutIn(above, k - b, e), next |-> f.next]
    BY <1>7 DEF HalvesWith, F
  <2> HIDE DEF below, above
  <2> QED
    BY <2>1 DEF low, high
<1>18. /\ DOMAIN M = DOMAIN F /\ DOMAIN G = DOMAIN M
       /\ M[to] = U /\ M[c[i]] = L /\ G[to] = A /\ G[c[i]] = B
       /\ \A n \in DOMAIN F : n # c[i] /\ n # to => M[n] = F[n]
       /\ \A n \in DOMAIN M : n # to /\ n # c[i] => G[n] = M[n]
  BY <1>3, <1>4, <1>11 DEF Updated, to
<1>19. /\ L.entries = below /\ L.next = to /\ U.entries = above \o N.entries /\ U.next = N.next
  OBVIOUS
<1>35. IsPart(above \o N.entries, W, b, S[i + 2])
  <2> HIDE DEF above
  <2> DEFINE X == S[i + 1]
             Y == S[i + 2]
             D == N.entries
  <2>1. /\ b \in Nat /\ X \in Nat /\ Y \in Nat /\ b <= X /\ X <= Y
        /\ IsPart(above, W, b, X) /\ IsPart(D, W, X, Y)
    BY <1>3, <1>4, <1>17 DEF to, N
  <2> HIDE DEF X, Y, D
  <2>2. IsPart(above \o D, W, b, Y)
    BY <2>1, PartsJoined
  <2> QED
    BY <2>2 DEF Y, D
<1> HIDE DEF M, G, L, U, below, above, by
<1>20. NextWith(M, c, S, W, i, b, by)
  <2>1. Others(F, M, {c[i], c[i + 1]})
    BY <1>18 DEF Others, to
  <2>2. M[c[i]].next = F[c[i]].next /\ M[c[i + 1]].next = F[c[i + 1]].next
    BY <1>3, <1>18, <1>19 DEF F, to, N
  <2>3. IsPart(M[c[i]].entries, W, S[i], b) /\ IsPart(M[c[i + 1]].entries, W, b, S[i + 2])
    BY <1>17, <1>18, <1>19, <1>35 DEF to
  <2> QED
    BY <1>1, <2>1, <2>2, <2>3, NextLaid DEF by
<1>21. /\ IsLaid(M, c, T, W)
       /\ T[i] = S[i] /\ T[i + 1] = b /\ T[i + 2] = S[i + 2]
       /\ \A x, l, st : StandsAt(c, S, W, x, l, st) =>
            StandsAt(c, T, W, NextCell(x, c[i], boundary, to, by), l, st)
  BY <1>20 DEF NextWith, to
<1> HIDE DEF T
<1>24. /\ q \in 1 .. Len(c) /\ k \in T[q] .. T[q + 1]
       /\ k <= b => q = i /\ c[q] = c[i] /\ k - T[q] = k - S[i]
       /\ k > b => q = i + 1 /\ c[q] = to /\ k - T[q] = k - b
  <2>1. i + 1 + 1 = i + 2
    BY <1>22
  <2>2. CASE k <= b
    BY SMTT(30), <1>3, <1>21, <1>22, <2>2
  <2>3. CASE k > b
    <3>1. q = i + 1
      BY <1>3, <2>3
    <3>2. k \in T[i + 1] .. T[i + 2]
      BY <1>3, <1>4, <1>21, <2>3
    <3>3. q + 1 = i + 2
      BY <1>22, <3>1
    <3>4. ~(k <= b)
      BY <1>3, <2>3
    <3> QED
      BY <1>21, <1>22, <3>1, <3>2, <3>3, <3>4 DEF to
  <2> QED
    BY <1>3, <2>2, <2>3
<1>25. k <= b \/ k > b
  BY <1>3
<1> HIDE DEF q
<1>26. FramesOf(r.h, disk) = G /\ r.h = m /\ r.cell = HalvedPlace(place, boundary, to)
  BY <1>6, <1>16 DEF G
<1>27. /\ Others(M, FramesOf(r.h, disk), {c[q]})
       /\ FramesOf(r.h, disk)[c[q]].next = M[c[q]].next
       /\ FramesOf(r.h, disk)[c[q]].entries = PutIn(M[c[q]].entries, k - T[q], e)
  <2> DEFINE x == low.entries
             y == high.entries \o N.entries
             z == N.next
  <2>1. B = [entries |-> x, next |-> to] /\ A = [entries |-> y, next |-> z]
    BY <1>8, <1>9 DEF A, B, low, high, N, to
  <2>4. x = low.entries /\ y = high.entries \o N.entries /\ z = N.next
    OBVIOUS
  <2> HIDE DEF x, y, z
  <2>5. B.entries = x /\ B.next = to /\ A.entries = y /\ A.next = z
    BY <2>1
  <2>2. CASE k <= b
    <3>1. c[q] = c[i] /\ k - T[q] = k - S[i]
      BY <1>24, <2>2
    <3>4. A = U
      BY <1>17, <2>1, <2>2, <2>4 DEF U
    <3>2. Others(M, G, {c[i]})
      BY <1>18, <3>4 DEF Others
    <3>3. G[c[i]].next = M[c[i]].next /\ G[c[i]].entries = PutIn(M[c[i]].entries, k - S[i], e)
      BY <1>17, <1>18, <1>19, <2>2, <2>4, <2>5
    <3> QED
      BY <1>26, <3>1, <3>2, <3>3
  <2>3. CASE k > b
    <3>1. c[q] = to /\ k - T[q] = k - b
      BY <1>24, <2>3
    <3>2. B = L
      BY <1>17, <2>1, <2>3, <2>4 DEF L
    <3>3. Others(M, G, {to})
      BY <1>18, <3>2 DEF Others
    <3>4. y = PutIn(above \o N.entries, k - b, e)
      <4> DEFINE Y == N.entries
                 l == k - b
      <4>1. /\ above \in Seq(Entries) /\ Y \in Seq(Entries) /\ l \in 0 .. Len(above) /\ e \in Entries
            /\ y = PutIn(above, l, e) \o Y
        BY <1>2, <1>9, <1>17, <2>3, <2>4 DEF IsPart, N, to
      <4> HIDE DEF Y, l
      <4>2. y = PutIn(above \o Y, l, e)
        BY <4>1, PutIntoFirstPart
      <4> QED
        BY <4>2 DEF Y, l
    <3>5. G[to].next = M[to].next /\ G[to].entries = PutIn(M[to].entries, k - b, e)
      BY <1>18, <1>19, <2>4, <2>5, <3>4
    <3> QED
      BY <1>26, <3>1, <3>3, <3>5
  <2> QED
    BY <1>25, <2>2, <2>3
<1>28. /\ LenOf(W, k) \in Nat /\ LenOf(W, b) \in Nat /\ LenOf(W, S[i]) \in Nat /\ FRAME_HEADER_LEN \in Nat
       /\ place.offset = FRAME_HEADER_LEN + LenOf(W, k) - LenOf(W, S[i])
       /\ boundary = FRAME_HEADER_LEN + LenOf(W, b) - LenOf(W, S[i])
  <2>1. LenOf(W, k) \in Nat /\ LenOf(W, S[i]) \in Nat
    BY <1>1, BordersOfLaid
  <2>2. LenOf(W, b) \in Nat
    BY <1>1, BordersOfLaid
  <2> QED
    BY <1>5, <2>1, <2>2, FrameAssumption DEF BorderOf
<1>29. /\ k <= b => BorderOf(T, W, q, k) = place.offset
       /\ k > b => BorderOf(T, W, q, k) = place.offset - boundary + FRAME_HEADER_LEN
  <2>1. ASSUME k <= b PROVE BorderOf(T, W, q, k) = place.offset
    BY <1>21, <1>24, <1>28, <2>1 DEF BorderOf
  <2>2. ASSUME k > b PROVE BorderOf(T, W, q, k) = place.offset - boundary + FRAME_HEADER_LEN
    <3>1. BorderOf(T, W, q, k) = FRAME_HEADER_LEN + LenOf(W, k) - LenOf(W, b)
      BY <1>21, <1>24, <2>2 DEF BorderOf
    <3> QED
      BY <1>28, <3>1
  <2> QED
    BY <2>1, <2>2
<1>30. r.cell = PlaceOf(c, T, W, q, k)
  <2>1. CASE k <= b
    <3>1. place.offset <= boundary
      BY <1>10, <2>1
    <3> QED
      BY <1>5, <1>24, <1>26, <1>29, <2>1, <3>1 DEF HalvedPlace, PlaceOf
  <2>2. CASE k > b
    <3>1. ~(place.offset <= boundary)
      BY <1>3, <1>10, <2>2
    <3> QED
      BY <1>24, <1>26, <1>29, <2>2, <3>1 DEF HalvedPlace, PlaceOf
  <2> QED
    BY <1>25, <2>1, <2>2
<1>31. CellsMoved(h.cells, r.h.cells, c, S, W, c, T, q, k, e.len)
  <2>1. r.h.cells = cells
    BY <1>14, <1>16, <1>26
  <2> SUFFICES ASSUME NEW s \in Seconds
               PROVE  /\ h.cells[s] = NoCell => cells[s] = NoCell
                      /\ \A l, st : StandsAt(c, S, W, h.cells[s], l, st) =>
                           \E z : /\ StandsAt(c, T, W, z, l, st)
                                  /\ cells[s] = MovedCell(z, c[q], BorderOf(T, W, q, k), e.len)
    BY ZenonT(60), <2>1 DEF CellsMoved
  <2> DEFINE x == h.cells[s]
             y == cells[s]
  <2>2. x \in Places
    BY <1>1 DEF Cells
  <2>3. y = HalvedCell(x, place, boundary, to, e.len, upperLen, TRUE)
    BY DEF cells, HalvedCells
  <2> HIDE DEF x, y
  <2>6. /\ by \in Int /\ records_end(f) - boundary = by /\ place.offset - boundary <= by
    <3>1. /\ LenOf(W, S[i + 1]) \in Nat
          /\ (k < S[i + 1] => BorderOf(S, W, i, k) < BorderOf(S, W, i, S[i + 1]))
      <4>1. S[i + 1] \in S[i] .. S[i + 1]
        BY <1>3
      <4>2. k < S[i + 1] => BorderOf(S, W, i, k) < BorderOf(S, W, i, S[i + 1])
        BY <1>1, <4>1, BordersOfLaid
      <4>3. LenOf(W, S[i + 1]) \in Nat
        BY <1>1, <4>1, BordersOfLaid
      <4> QED
        BY <4>2, <4>3
    <3>2. records_end(f) = FRAME_HEADER_LEN + LenOf(W, S[i + 1]) - LenOf(W, S[i])
      BY <1>3 DEF BorderOf
    <3>3. k < S[i + 1] \/ k = S[i + 1]
      BY <1>3
    <3>4. LenOf(W, k) <= LenOf(W, S[i + 1])
      <4>1. CASE k = S[i + 1]
        BY <3>1, <4>1
      <4>2. CASE k < S[i + 1]
        <5>1. FRAME_HEADER_LEN + LenOf(W, k) - LenOf(W, S[i])
                < FRAME_HEADER_LEN + LenOf(W, S[i + 1]) - LenOf(W, S[i])
          BY <3>1, <4>2 DEF BorderOf
        <5> QED
          BY SMTT(30), <1>28, <3>1, <5>1
      <4> QED
        BY <3>3, <4>1, <4>2
    <3> DEFINE xx == LenOf(W, k)
               l == LenOf(W, b)
               n == LenOf(W, S[i])
               z == LenOf(W, S[i + 1])
               o == place.offset
               u == records_end(f)
    <3>5. /\ xx \in Nat /\ l \in Nat /\ n \in Nat /\ z \in Nat /\ by = z - l /\ xx <= z
          /\ u = FRAME_HEADER_LEN + z - n /\ o = FRAME_HEADER_LEN + xx - n
          /\ boundary = FRAME_HEADER_LEN + l - n
      BY <1>28, <3>1, <3>2, <3>4 DEF by
    <3> HIDE DEF xx, l, n, z, o, u
    <3>6. by \in Int /\ u - boundary = by /\ o - boundary <= by
      <4>1. FRAME_HEADER_LEN \in Nat
        BY <1>28
      <4>2. by = z - l
        BY <3>5
      <4> HIDE DEF by
      <4> QED
        BY <3>5, <4>1, <4>2
    <3> QED
      BY <3>6 DEF o, u
  <2>7. /\ k <= b => upperLen = by
        /\ k > b => upperLen - e.len = by /\ place.offset - boundary <= upperLen - e.len
    <3>1. CASE k <= b
      <4>1. ~(k > b)
        BY <1>3, <3>1
      <4>2. upperLen = records_end(f) - boundary + 0
        BY <3>1
      <4> QED
        BY <2>6, <4>1, <4>2
    <3>2. CASE k > b
      <4>1. ~(k <= b)
        BY <1>3, <3>2
      <4>2. upperLen = records_end(f) - boundary + e.len
        BY <4>1
      <4> QED
        BY <1>2, <2>6, <4>1, <4>2
    <3> QED
      BY <1>25, <3>1, <3>2
  <2>4. /\ x = NoCell => y = NoCell
        /\ place.offset <= boundary =>
             y = MovedCell(NextCell(x, c[i], boundary, to, upperLen), c[i], place.offset, e.len)
        /\ place.offset > boundary /\ x.offset >= FRAME_HEADER_LEN
             /\ place.offset - boundary <= upperLen - e.len =>
             y = MovedCell(NextCell(x, c[i], boundary, to, upperLen - e.len), to,
                           place.offset - boundary + FRAME_HEADER_LEN, e.len)
    <3> DEFINE len == e.len
               frame == place.frame
    <3>1. /\ len \in Nat /\ to # frame /\ frame = c[i] /\ to \in Int /\ boundary \in Int /\ place \in Places
          /\ frame # NoFrame /\ to # NoFrame /\ TRUE \in BOOLEAN /\ upperLen \in Int
      BY <1>2, <1>5, <1>11
    <3>2. y = HalvedCell(x, place, boundary, to, len, upperLen, TRUE) /\ frame = place.frame
      BY <2>3
    <3> HIDE DEF len, frame
    <3>4. HalvedCellWith(x, place, frame, boundary, to, len, upperLen, TRUE, y)
      BY <2>2, <3>1, <3>2, HalvedCellIs
    <3> QED
      BY <3>1, <3>4 DEF HalvedCellWith, len
  <2>5. ASSUME NEW l, NEW st, StandsAt(c, S, W, x, l, st)
        PROVE  \E z : /\ StandsAt(c, T, W, z, l, st)
                      /\ y = MovedCell(z, c[q], BorderOf(T, W, q, k), e.len)
    <3>1. x.offset >= FRAME_HEADER_LEN
      <4>1. x.offset \in Int /\ FRAME_HEADER_LEN <= x.offset
        BY <1>1, <2>5, StandingIs
      <4> QED
        BY <4>1, FrameAssumption
    <3>2. StandsAt(c, T, W, NextCell(x, c[i], boundary, to, by), l, st)
      BY <1>21, <2>5
    <3>3. y = MovedCell(NextCell(x, c[i], boundary, to, by), c[q], BorderOf(T, W, q, k), e.len)
      <4>1. CASE k <= b
        BY <1>10, <1>24, <1>29, <2>4, <2>7, <4>1
      <4>2. CASE k > b
        <5>1. place.offset > boundary
          BY <1>3, <1>10, <4>2
        <5> QED
          BY <1>24, <1>29, <2>4, <2>7, <3>1, <4>2, <5>1
      <4> QED
        BY <1>25, <4>1, <4>2
    <3> QED
      BY <3>2, <3>3
  <2> QED
    BY <2>4, <2>5 DEF x, y
<1>32. h.files = <<>> => c[1] = HEAD
  <2>1. InFiles(h.files, c[i])
    BY <1>1, <1>3
  <2> QED
    BY <2>1 DEF InFiles
<1>33. r.h.tail = c[Len(c)]
  <2>1. c # <<>>
    BY <1>22
  <2>2. h.tail = c[Len(c)]
    BY <2>1 DEF MemoryRight
  <2> QED
    BY <1>14, <1>16, <1>26, <2>2
<1>34. room_for_frames(r.h) = room_for_frames(h)
  <2>1. r.h.files = h.files
    BY <1>14, <1>16, <1>26
  <2> QED
    BY <2>1, RoomDepends
<1>36. room_for_frames(r.h) \in Nat /\ room_for_frames(h) <= room_for_frames(r.h) + 1
  <2> DEFINE n == room_for_frames(h)
             l == room_for_frames(r.h)
  <2>1. n \in Nat /\ l = n
    BY <1>1, <1>34
  <2> HIDE DEF n, l
  <2>2. l \in Nat /\ n <= l + 1
    BY <2>1
  <2> QED
    BY <2>2 DEF n, l
<1>37. MemoryFits(r.h, disk) /\ Beside(r.h) = Beside(h) /\ (c # <<>> => c[1] = c[1])
  BY <1>14, <1>16, <1>26
<1>38. /\ h \in Slots /\ IsEntry(e) /\ IsLaid(M, c, T, W) /\ q \in 1 .. Len(c) /\ k \in T[q] .. T[q + 1]
  BY <1>1, <1>2, <1>21, <1>24
<1> HIDE DEF E
<1> QED
  BY <1>27, <1>30, <1>31, <1>32, <1>33, <1>36, <1>37, <1>38, PutLands

-------------------------------------------------------------------------------
(* A frame whose halves fit is halved: into the next one if that has room. *)
HalvedAtWith(h, F, place, entry, boundary, upperLen, intoNext) ==
  HalvedAt(h, F, place, entry, boundary)
    = Halved(h, F, place, entry, boundary, upperLen, intoNext, allocate_frame(h))
LEMMA HalvedAtIs ==
  ASSUME NEW h, room_for_frames(h) # 0, NEW F, NEW place, NEW entry, NEW boundary,
         NEW f, f = F[place.frame], NEW lower \in BOOLEAN, lower = (place.offset <= boundary),
         NEW lowerLen, lowerLen = boundary - FRAME_HEADER_LEN + (IF lower THEN entry.len ELSE 0),
         NEW upperLen, upperLen = records_end(f) - boundary + (IF lower THEN 0 ELSE entry.len),
         NEW intoNext \in BOOLEAN, intoNext = (f.next # NoFrame /\ free(F[f.next]) >= upperLen),
         lowerLen <= FRAME_CAPACITY, upperLen <= FRAME_CAPACITY
  PROVE  HalvedAtWith(h, F, place, entry, boundary, upperLen, intoNext)
<1> DEFINE fits == lowerLen <= FRAME_CAPACITY /\ upperLen <= FRAME_CAPACITY
           none == room_for_frames(h) = 0
<1>1. HalvedAt(h, F, place, entry, boundary) =
        CASE ~fits -> Fail(h, "an entry fits neither half")
          [] fits /\ ~intoNext /\ none -> Fail(h, "no room for a frame")
          [] OTHER -> Halved(h, F, place, entry, boundary, upperLen, intoNext, allocate_frame(h))
  BY DEF HalvedAt
<1>2. fits /\ ~none
  OBVIOUS
<1> HIDE DEF fits, none
<1> QED
  BY <1>1, <1>2 DEF HalvedAtWith

LEMMA HalvedIntoTwo ==
  ASSUME NEW h, NEW F, NEW place, NEW entry, NEW f, f = F[place.frame],
         f.next \in DOMAIN F \union {NoFrame}, Boundaries(f) # {}
  PROVE  halve_and_insert(h, F, place, entry) = HalvedAt(h, F, place, entry, Halves(f))
<1> DEFINE reads == f.next \in DOMAIN F \union {NoFrame}
           single == Boundaries(f) = {}
<1>1. halve_and_insert(h, F, place, entry) =
        CASE ~reads -> Fail(h, "the chain does not read")
          [] reads /\ single -> Fail(h, "a full frame has a single entry")
          [] OTHER -> HalvedAt(h, F, place, entry, Halves(f))
  BY DEF halve_and_insert
<1>2. reads /\ ~single
  OBVIOUS
<1> HIDE DEF reads, single
<1> QED
  BY <1>1, <1>2

LEMMA PutHalved ==
  ASSUME disk.frames \in FrameMaps, NEW h, NEW c, NEW S, NEW W, MemoryRight(h, disk, c, S, W),
         NEW i \in 1 .. Len(c), NEW k \in S[i] .. S[i + 1], NEW e \in Blocks,
         NEW F, F = FramesOf(h, disk), e.len > free(F[c[i]]), room_for_frames(h) # 0,
         NEW place, place = PlaceOf(c, S, W, i, k)
  PROVE  PutBehind(h, c, S, W, k, e, halve_and_insert(h, F, place, e))
<1> DEFINE f == F[c[i]]
           N == Len(f.entries)
           len == e.len
           r == halve_and_insert(h, F, place, e)
           boundary == Halves(f)
           next == f.next
<1>1. /\ h \in Slots /\ MemoryFits(h, disk) /\ F \in FrameMaps /\ IsLaid(F, c, S, W)
      /\ room_for_frames(h) \in Nat
  BY MemoryIs
<1>2. e \in Entries /\ IsEntry(e) /\ len \in Nat /\ len <= MAX_PAYLOAD_LEN
  BY BlocksAreEntries
<1>3. /\ c[i] \in DOMAIN F /\ c[i] \in Nat /\ f \in WholeFrames
      /\ N = S[i + 1] - S[i] /\ S[i] \in Nat /\ S[i + 1] \in Nat /\ S[i] <= S[i + 1]
      /\ \A m \in S[i] .. S[i + 1] : BorderOf(S, W, i, m) = OffsetOf(f, m - S[i] + 1)
      /\ next = NextIn(c, i)
  <2> DEFINE g == F[c[i]]
  <2>1. /\ c[i] \in DOMAIN F /\ c[i] \in Nat /\ g \in WholeFrames
        /\ Len(g.entries) = S[i + 1] - S[i] /\ S[i] \in Nat /\ S[i + 1] \in Nat /\ S[i] <= S[i + 1]
        /\ \A m \in S[i] .. S[i + 1] : BorderOf(S, W, i, m) = OffsetOf(g, m - S[i] + 1)
        /\ g.next = NextIn(c, i)
    <3> HIDE DEF f, N, len, r, boundary, next
    <3> QED
      BY SMTT(30), <1>1, FrameInLaid
  <2> QED
    BY <2>1
<1>4. Len(c) \in Nat /\ i \in Nat /\ i >= 1 /\ i <= Len(c)
  BY <1>1, LaidIs
<1>5. place.frame = c[i] /\ place \in Places
  BY <1>1, <1>3, BordersOfLaid DEF PlaceOf, Places
<1>6. next \in DOMAIN F \union {NoFrame} /\ (next # NoFrame => i # Len(c) /\ next = c[i + 1])
  <2>1. CASE i = Len(c)
    BY <1>3, <2>1 DEF NextIn
  <2>2. CASE i # Len(c)
    <3> DEFINE j == i + 1
    <3>1. j \in 1 .. Len(c)
      BY <1>4, <2>2
    <3> HIDE DEF j
    <3>2. c[j] \in DOMAIN F
      BY <1>1, <3>1, FrameInLaid
    <3> QED
      BY <1>3, <2>2, <3>2 DEF NextIn, j
  <2> QED
    BY <2>1, <2>2
<1> HIDE DEF f, len, N, next, r
<1>7. /\ Boundaries(f) # {}
      /\ \E j \in 2 .. Len(f.entries) : /\ boundary = OffsetOf(f, j)
                                        /\ boundary - FRAME_HEADER_LEN + len <= FRAME_CAPACITY
                                        /\ records_end(f) - boundary + len <= FRAME_CAPACITY
  <2>1. len > free(f)
    BY DEF f, len
  <2> QED
    BY <1>2, <1>3, <2>1, HalvesFit
<1> HIDE DEF boundary
<1>8. PICK j \in 2 .. Len(f.entries) :
              /\ boundary = OffsetOf(f, j)
              /\ boundary - FRAME_HEADER_LEN + len <= FRAME_CAPACITY
              /\ records_end(f) - boundary + len <= FRAME_CAPACITY
  BY <1>7
<1> DEFINE b == S[i] + j - 1
<1>9. b \in S[i] .. S[i + 1] /\ b - S[i] + 1 = j /\ b \in Int /\ k \in Int
  BY SMTT(30), <1>3, <1>8 DEF N
<1> HIDE DEF b
<1>10. boundary = BorderOf(S, W, i, b)
  BY <1>3, <1>8, <1>9
<1> DEFINE lower == place.offset <= boundary
           x == IF lower THEN e.len ELSE 0
           y == IF lower THEN 0 ELSE e.len
           lowerLen == boundary - FRAME_HEADER_LEN + x
           upperLen == records_end(f) - boundary + y
           intoNext == next # NoFrame /\ free(F[next]) >= upperLen
<1>11. /\ lower <=> k <= b
       /\ boundary \in Int /\ place.offset \in Int /\ records_end(f) \in Int
  <2>1. HalvesWith(F, c, S, W, i, k, b, e)
    BY <1>1, <1>2, <1>9, HalvesOfLaid
  <2> QED
    BY <1>10, <2>1 DEF HalvesWith, f
<1>12. lowerLen <= FRAME_CAPACITY /\ upperLen <= FRAME_CAPACITY /\ upperLen \in Int
  <2> DEFINE u == records_end(f)
  <2>1. /\ u \in Int /\ boundary \in Int /\ len \in Nat /\ FRAME_HEADER_LEN \in Int /\ FRAME_CAPACITY \in Int
        /\ boundary - FRAME_HEADER_LEN + len <= FRAME_CAPACITY /\ u - boundary + len <= FRAME_CAPACITY
    BY <1>2, <1>8, <1>11, FrameAssumption
  <2>2. (x = len /\ y = 0) \/ (x = 0 /\ y = len)
    <3> HIDE DEF lower
    <3> QED
      BY DEF len
  <2>3. lowerLen = boundary - FRAME_HEADER_LEN + x /\ upperLen = u - boundary + y
    OBVIOUS
  <2> HIDE DEF x, y, u, lowerLen, upperLen
  <2> QED
    BY SMTT(30), <2>1, <2>2, <2>3
<1>13. /\ boundary - FRAME_HEADER_LEN + (IF k <= b THEN e.len ELSE 0) <= FRAME_CAPACITY
       /\ upperLen = records_end(f) - boundary + (IF k <= b THEN 0 ELSE e.len)
       /\ records_end(f) - boundary + (IF k <= b THEN 0 ELSE e.len) <= FRAME_CAPACITY
  <2>1. lower = (k <= b)
    BY <1>11
  <2> HIDE DEF lower
  <2> QED
    BY <1>12, <2>1
<1> DEFINE new == allocate_frame(h)
<1>14. r = Halved(h, F, place, e, boundary, upperLen, intoNext, new) /\ r \in Answers
  <2>1. f = F[place.frame]
    BY <1>5 DEF f
  <2>2. r = HalvedAt(h, F, place, e, boundary)
    <3>1. f.next \in DOMAIN F \union {NoFrame} /\ Boundaries(f) # {}
      BY <1>6, <1>7 DEF next
    <3> QED
      BY <2>1, <3>1, HalvedIntoTwo DEF r, boundary
  <2>3. /\ lower = (place.offset <= boundary) /\ lower \in BOOLEAN
        /\ lowerLen = boundary - FRAME_HEADER_LEN + (IF lower THEN e.len ELSE 0)
        /\ upperLen = records_end(f) - boundary + (IF lower THEN 0 ELSE e.len)
        /\ intoNext = (f.next # NoFrame /\ free(F[f.next]) >= upperLen) /\ intoNext \in BOOLEAN
    BY DEF next
  <2> HIDE DEF lower, lowerLen, upperLen, intoNext
  <2>4. HalvedAtWith(h, F, place, e, boundary, upperLen, intoNext)
    BY <1>12, <2>1, <2>3, HalvedAtIs
  <2>5. halve_and_insert(h, FramesOf(h, disk), place, e) \in Answers
    BY <1>1, <1>3, <1>5, HalvedOrNot
  <2> QED
    BY <2>2, <2>4, <2>5 DEF HalvedAtWith, r
<1>15. CASE ~intoNext
  <2>1. intoNext = FALSE
    BY <1>15
  <2> HIDE DEF intoNext, upperLen, new, lower
  <2>2. r = Halved(h, FramesOf(h, disk), place, e, boundary, upperLen, FALSE, allocate_frame(h))
    BY <1>14, <2>1 DEF new
  <2>3. f = FramesOf(h, disk)[c[i]]
    BY DEF f
  <2>4. PutBehind(h, c, S, W, k, e, r)
    BY ZenonT(60), <1>9, <1>10, <1>12, <1>13, <1>14, <2>2, <2>3, PutHalvedNew
  <2> QED
    BY <2>4 DEF r
<1>16. CASE intoNext
  <2>1. intoNext = TRUE /\ next = c[i + 1] /\ i # Len(c) /\ free(F[next]) >= upperLen
    BY <1>6, <1>16
  <2> HIDE DEF intoNext, upperLen, new, lower
  <2>2. r = Halved(h, FramesOf(h, disk), place, e, boundary, upperLen, TRUE, new)
    BY <1>14, <2>1
  <2>3. f = FramesOf(h, disk)[c[i]] /\ free(FramesOf(h, disk)[c[i + 1]]) >= upperLen
    BY <2>1 DEF f
  <2>4. PutBehind(h, c, S, W, k, e, r)
    BY <1>9, <1>10, <1>12, <1>13, <1>14, <2>1, <2>2, <2>3, PutHalvedNext
  <2> QED
    BY <2>4 DEF r
<1> QED
  BY <1>15, <1>16

-------------------------------------------------------------------------------
(* What is followed from a frame of the chain: the frames from it on. *)
FollowedFrom(F, c, i, p) ==
  /\ Follow(F, c[i]) = p /\ Len(p) = Len(c) - i + 1
  /\ DOMAIN p = 1 .. Len(c) - i + 1
  /\ \A n \in 1 .. Len(c) - i + 1 : p[n] = c[i + n - 1]
LEMMA FollowLaid ==
  ASSUME NEW F \in FrameMaps, NEW c, NEW S, NEW W, IsLaid(F, c, S, W), NEW i \in 1 .. Len(c),
         NEW p, p = SubSeq(c, i, Len(c))
  PROVE  FollowedFrom(F, c, i, p)
<1> DEFINE N == Len(c)
           l == N - i + 1
           D == DOMAIN F
<1>1. /\ c \in Seq(D) /\ N \in Nat /\ i \in Nat /\ i >= 1 /\ i <= N /\ l \in Nat /\ l >= 1
      /\ \A a, b \in 1 .. N : c[a] = c[b] => a = b
      /\ \A a \in 1 .. N : F[c[a]].next = NextIn(c, a)
  <2>1. c \in Seq(D)
    BY DEF IsLaid
  <2>2. N \in Nat
    BY LaidIs
  <2> QED
    BY <2>1, <2>2 DEF IsLaid
<1>2. p \in Seq(D) /\ Len(p) = l /\ DOMAIN p = 1 .. l /\ \A n \in 1 .. l : p[n] = c[i + n - 1]
  <2> HIDE DEF D
  <2> QED
    BY <1>1
<1> HIDE DEF D, l
<1>3. l = N - i + 1
  BY DEF l
<1> HIDE DEF N
<1>4. \A n \in 1 .. l : i + n - 1 \in 1 .. N
  BY <1>1, <1>3
<1>5. \A a, b \in 1 .. Len(p) : p[a] = p[b] => a = b
  <2> SUFFICES ASSUME NEW a \in 1 .. l, NEW b \in 1 .. l, p[a] = p[b] PROVE a = b
    BY <1>2
  <2>1. c[i + a - 1] = c[i + b - 1]
    BY <1>2
  <2>2. i + a - 1 = i + b - 1
    BY <1>1, <1>4, <2>1
  <2> QED
    BY <1>1, <2>2
<1>6. \A a \in 1 .. Len(p) - 1 : F[p[a]].next = p[a + 1]
  <2> SUFFICES ASSUME NEW a \in 1 .. l - 1 PROVE F[p[a]].next = p[a + 1]
    BY <1>2
  <2> DEFINE m == i + a - 1
  <2>1. a \in 1 .. l /\ a + 1 \in 1 .. l /\ m \in 1 .. N /\ m # N /\ i + (a + 1) - 1 = m + 1
    BY <1>1, <1>3
  <2>2. p[a] = c[m] /\ p[a + 1] = c[m + 1]
    BY <1>2, <2>1
  <2> HIDE DEF m
  <2>3. F[c[m]].next = c[m + 1]
    BY <1>1, <2>1 DEF NextIn, N
  <2> QED
    BY <2>2, <2>3
<1>7. p # <<>> /\ p[1] = c[i] /\ c[i] \in DOMAIN F
  <2>1. 1 \in 1 .. l /\ i + 1 - 1 = i /\ i \in 1 .. N
    BY <1>1
  <2>2. p[1] = c[i]
    BY <1>2, <2>1
  <2>3. p[1] \in D
    BY <1>2, <2>1
  <2>4. p # <<>>
    <3>1. Len(p) # 0 /\ Len(<<>>) = 0
      BY <1>1, <1>2
    <3> QED
      BY <3>1
  <2> QED
    BY <2>2, <2>3, <2>4 DEF D
<1>8. F[p[Len(p)]].next \notin DOMAIN F
  <2>1. l \in 1 .. l /\ i + l - 1 = N /\ N \in 1 .. N
    BY <1>1, <1>3
  <2>2. p[Len(p)] = c[N]
    BY <1>2, <2>1
  <2>3. F[c[N]].next = NoFrame
    BY <1>1, <2>1 DEF NextIn, N
  <2>4. NoFrame \notin DOMAIN F
    BY FramesAre DEF NoFrame
  <2> QED
    BY <2>2, <2>3, <2>4
<1>9. p \in ChainsFrom(F, c[i])
  BY <1>2, <1>5, <1>6, <1>7 DEF ChainsFrom, IsChain, D
<1>10. Follow(F, c[i]) = p
  <2> DEFINE frame == c[i]
  <2>1. frame \in DOMAIN F /\ p \in ChainsFrom(F, frame) /\ F[p[Len(p)]].next \notin DOMAIN F
    BY <1>7, <1>8, <1>9
  <2> HIDE DEF frame
  <2>2. Follow(F, frame) = p
    BY <2>1, FollowEnds
  <2> QED
    BY <2>2 DEF frame
<1> QED
  BY <1>2, <1>3, <1>10 DEF FollowedFrom, N

-------------------------------------------------------------------------------
(* Into the frame, into a half of it, or at the end of the chain. *)
LEMMA PutIntoFrame ==
  ASSUME disk.frames \in FrameMaps, NEW h, NEW c, NEW S, NEW W, MemoryRight(h, disk, c, S, W),
         NEW i \in 1 .. Len(c), NEW k \in S[i] .. S[i + 1], NEW e \in Blocks,
         NEW F, F = FramesOf(h, disk), room_for_frames(h) # 0,
         NEW place, place = PlaceOf(c, S, W, i, k),
         \/ e.len <= free(F[c[i]]) \/ place.offset < records_end(F[c[i]]) \/ F[c[i]].next = NoFrame
  PROVE  PutBehind(h, c, S, W, k, e, InsertInto(h, F, place, e))
<1> DEFINE f == F[c[i]]
           fits == e.len <= free(f)
           over == e.len > free(f) /\ place.offset < records_end(f)
<1>1. /\ h \in Slots /\ F \in FrameMaps /\ IsLaid(F, c, S, W)
  BY MemoryIs
<1>2. place.frame = c[i] /\ place.offset = BorderOf(S, W, i, k)
  BY DEF PlaceOf
<1>3. InsertInto(h, F, place, e) =
        CASE fits -> insert_into_frame(h, place, e)
          [] over -> halve_and_insert(h, F, place, e)
          [] OTHER -> append_frame(h, place.frame, e)
  BY <1>2 DEF InsertInto
<1>4. e.len \in Nat /\ free(f) \in Int
  <2>1. e.len \in Nat
    BY BlocksAreEntries
  <2>2. f \in WholeFrames
    BY <1>1, FrameInLaid
  <2>3. free(f) \in Int
    <3> HIDE DEF f
    <3> QED
      BY <2>2, WholeFrameIs, FrameAssumption
  <2> QED
    BY <2>1, <2>3
<1>5. fits => ~over
  <2> HIDE DEF f
  <2> QED
    BY <1>4
<1>6. CASE fits
  <2>1. InsertInto(h, F, place, e) = insert_into_frame(h, place, e)
    <3>1. ~over
      BY <1>5, <1>6
    <3> HIDE DEF fits, over
    <3> QED
      BY <1>3, <1>6, <3>1
  <2>2. e.len <= free(FramesOf(h, disk)[c[i]])
    BY <1>6
  <2>3. PutBehind(h, c, S, W, k, e, insert_into_frame(h, PlaceOf(c, S, W, i, k), e))
    BY <2>2, PutWithRoom
  <2> QED
    BY <2>1, <2>3
<1>7. CASE over
  <2>1. InsertInto(h, F, place, e) = halve_and_insert(h, F, place, e)
    <3>1. ~fits
      BY <1>5, <1>7
    <3> HIDE DEF fits, over
    <3> QED
      BY <1>3, <1>7, <3>1
  <2>2. e.len > free(F[c[i]])
    BY <1>7
  <2>3. PutBehind(h, c, S, W, k, e, halve_and_insert(h, F, place, e))
    BY <2>2, PutHalved
  <2> QED
    BY <2>1, <2>3
<1>8. CASE ~fits /\ ~over
  <2>1. InsertInto(h, F, place, e) = append_frame(h, c[i], e)
    <3> HIDE DEF fits, over
    <3> QED
      BY <1>2, <1>3, <1>8
  <2>2. f.next = NoFrame /\ ~(place.offset < records_end(f))
    <3> HIDE DEF f
    <3> QED
      BY <1>4, <1>8 DEF f
  <2>3. /\ f.next = NextIn(c, i) /\ records_end(f) = BorderOf(S, W, i, S[i + 1])
        /\ S[i] \in Nat /\ S[i + 1] \in Nat /\ S[i] <= S[i + 1]
    BY <1>1, FrameInLaid
  <2>4. i = Len(c)
    <3> SUFFICES ASSUME i # Len(c) PROVE FALSE
      OBVIOUS
    <3> DEFINE j == i + 1
    <3>1. j \in 1 .. Len(c)
      BY <1>1, LaidIs
    <3>2. NextIn(c, i) = c[j]
      BY DEF NextIn
    <3> HIDE DEF j
    <3>3. c[j] \in Nat
      BY <1>1, <3>1, FrameInLaid
    <3> QED
      BY <2>2, <2>3, <3>2, <3>3 DEF NoFrame
  <2>5. k = S[i + 1]
    <3> SUFFICES ASSUME k # S[i + 1] PROVE FALSE
      OBVIOUS
    <3>1. k < S[i + 1] /\ S[i + 1] \in S[i] .. S[i + 1]
      BY <2>3
    <3>2. BorderOf(S, W, i, k) < BorderOf(S, W, i, S[i + 1])
      BY <1>1, <3>1, BordersOfLaid
    <3> HIDE DEF f
    <3> QED
      BY <1>2, <2>2, <2>3, <3>2
  <2>6. PutBehind(h, c, S, W, k, e, append_frame(h, c[i], e))
    BY <2>4, <2>5, PutAtEnd
  <2> QED
    BY <2>1, <2>6
<1> QED
  BY <1>6, <1>7, <1>8

-------------------------------------------------------------------------------
(* The end of a full frame is the start of the next one. *)
LEMMA PutAt ==
  ASSUME disk.frames \in FrameMaps, NEW h, NEW c, NEW S, NEW W, MemoryRight(h, disk, c, S, W),
         NEW place, NEW k, NEW st, StandsAt(c, S, W, place, k, st), NEW e \in Blocks,
         room_for_frames(h) # 0
  PROVE  PutBehind(h, c, S, W, k, e, insert_at(h, place, e))
<1> DEFINE F == FramesOf(h, disk)
           N == Len(c)
           H == FRAME_HEADER_LEN
           chain == Follow(F, place.frame)
           At(n) == [frame |-> chain[n], offset |-> IF n = 1 THEN place.offset ELSE H]
           Takes(n) == \/ e.len <= free(F[chain[n]])
                       \/ At(n).offset < records_end(F[chain[n]])
                       \/ F[chain[n]].next = NoFrame
           taking == {n \in DOMAIN chain : Takes(n)}
<1>1. /\ h \in Slots /\ F \in FrameMaps /\ IsLaid(F, c, S, W) /\ N \in Nat
  BY MemoryIs, LaidIs
<1>2. PICK i \in 1 .. N : k \in S[i] .. S[i + 1] /\ place = PlaceOf(c, S, W, i, k)
  BY <1>1, StandingIs
<1>3. place # NoCell /\ place.frame = c[i] /\ place.offset = BorderOf(S, W, i, k)
  BY <1>1, <1>2, StandingIs DEF PlaceOf
<1>4. insert_at(h, place, e) =
        CASE place = NoCell -> append_frame(h, NoFrame, e)
          [] place # NoCell /\ taking = {} -> Fail(h, "the chain does not read")
          [] OTHER -> InsertInto(h, F, At(Min(taking)), e)
  BY DEF insert_at
<1> HIDE DEF F, N, chain
<1>5. /\ DOMAIN chain = 1 .. N - i + 1 /\ \A n \in 1 .. N - i + 1 : chain[n] = c[i + n - 1]
  <2> DEFINE p == SubSeq(c, i, Len(c))
  <2> HIDE DEF p
  <2>1. FollowedFrom(F, c, i, p)
    BY <1>1, <1>2, FollowLaid DEF p, N
  <2> QED
    BY <1>3, <2>1 DEF FollowedFrom, chain, N
<1>6. /\ c[i] \in DOMAIN F /\ F[c[i]].next = NextIn(c, i)
      /\ records_end(F[c[i]]) = BorderOf(S, W, i, S[i + 1])
      /\ S[i] \in Nat /\ S[i + 1] \in Nat /\ S[i] <= S[i + 1]
  BY <1>1, <1>2, FrameInLaid DEF N
<1>7. i \in Nat /\ i >= 1 /\ i <= N /\ 1 \in DOMAIN chain /\ chain[1] = c[i]
  <2>1. 1 \in 1 .. N - i + 1 /\ i + 1 - 1 = i
    BY <1>1, <1>2
  <2> QED
    BY <1>1, <1>2, <1>5, <2>1
<1>8. ASSUME 1 \notin taking
      PROVE  /\ i # N /\ k = S[i + 1] /\ 2 \in taking /\ chain[2] = c[i + 1]
  <2>1. ~Takes(1) /\ At(1).offset = place.offset
    BY <1>7, <1>8
  <2>2. /\ ~(place.offset < records_end(F[c[i]])) /\ F[c[i]].next # NoFrame
    BY <1>7, <2>1
  <2>3. i # N
    BY <1>6, <2>2 DEF NextIn, N
  <2>4. k = S[i + 1]
    <3> SUFFICES ASSUME k # S[i + 1] PROVE FALSE
      OBVIOUS
    <3>1. k < S[i + 1] /\ S[i + 1] \in S[i] .. S[i + 1]
      BY <1>2, <1>6
    <3>2. BorderOf(S, W, i, k) < BorderOf(S, W, i, S[i + 1])
      BY <1>1, <1>2, <3>1, BordersOfLaid DEF N
    <3> QED
      BY <1>3, <1>6, <2>2, <3>2
  <2> DEFINE j == i + 1
  <2>5. j \in 1 .. N /\ 2 \in DOMAIN chain /\ chain[2] = c[j]
    <3>1. 2 \in 1 .. N - i + 1 /\ i + 2 - 1 = i + 1 /\ i + 1 \in 1 .. N
      BY <1>1, <1>7, <2>3
    <3> QED
      BY <1>5, <3>1
  <2>6. F[c[j]] \in WholeFrames
    <3> HIDE DEF j
    <3> QED
      BY <1>1, <2>5, FrameInLaid DEF N
  <2>7. e.len <= free(F[c[j]]) \/ H < records_end(F[c[j]])
    <3> DEFINE g == F[c[j]]
    <3> HIDE DEF g
    <3>1. g \in WholeFrames
      BY <2>6 DEF g
    <3>2. used(g) \in Nat /\ free(g) = FRAME_CAPACITY - used(g) /\ records_end(g) = H + used(g)
      BY <3>1, WholeFrameIs, FrameAssumption
    <3>3. e.len \in Nat /\ e.len <= FRAME_CAPACITY /\ H \in Nat /\ FRAME_CAPACITY \in Nat
      BY BlocksAreEntries, FrameAssumption
    <3>4. CASE used(g) = 0
      BY <3>2, <3>3, <3>4 DEF g
    <3>5. CASE used(g) > 0
      BY <3>2, <3>3, <3>5 DEF g
    <3> QED
      BY <3>2, <3>4, <3>5
  <2>8. At(2).offset = H
    OBVIOUS
  <2>9. Takes(2)
    BY <2>5, <2>7, <2>8
  <2> QED
    BY <2>3, <2>4, <2>5, <2>9
<1>9. taking # {} /\ taking \subseteq Nat
  <2>1. taking \subseteq Nat
    BY <1>1, <1>5
  <2> QED
    BY <1>8, <2>1
<1> DEFINE m == Min(taking)
<1>10. insert_at(h, place, e) = InsertInto(h, F, At(m), e)
  <2> DEFINE none == place = NoCell
             stops == place # NoCell /\ taking = {}
             r == InsertInto(h, F, At(Min(taking)), e)
  <2>1. ~none /\ ~stops
    BY <1>3, <1>9
  <2>2. insert_at(h, place, e) =
          CASE none -> append_frame(h, NoFrame, e)
            [] stops -> Fail(h, "the chain does not read")
            [] OTHER -> r
    BY <1>4
  <2>3. r = InsertInto(h, F, At(m), e)
    OBVIOUS
  <2> HIDE DEF none, stops, r
  <2> QED
    BY <2>1, <2>2, <2>3
<1>11. m \in taking /\ \A n \in taking : m <= n
  <2> HIDE DEF taking
  <2> QED
    BY <1>9, MinIs
<1>12. m \in Nat /\ m >= 1 /\ m \in DOMAIN chain
  <2> HIDE DEF m
  <2>1. m \in DOMAIN chain
    BY <1>11
  <2> QED
    BY <1>1, <1>5, <1>7, <2>1
<1> HIDE DEF m
<1>13. CASE 1 \in taking
  <2>1. m = 1
    BY <1>11, <1>12, <1>13
  <2>2. At(m) = place
    <3>1. place = [frame |-> c[i], offset |-> BorderOf(S, W, i, k)]
      BY <1>2 DEF PlaceOf
    <3> QED
      BY <1>3, <1>7, <2>1, <3>1
  <2>3. \/ e.len <= free(F[c[i]]) \/ place.offset < records_end(F[c[i]]) \/ F[c[i]].next = NoFrame
    <3>1. Takes(1) /\ At(1).offset = place.offset
      BY <1>13
    <3> QED
      BY <1>7, <3>1
  <2>4. PutBehind(h, c, S, W, k, e, InsertInto(h, F, place, e))
    BY <1>2, <2>3, PutIntoFrame DEF F, N
  <2> QED
    BY <1>10, <2>2, <2>4
<1>14. CASE 1 \notin taking
  <2>1. i # N /\ k = S[i + 1] /\ 2 \in taking /\ chain[2] = c[i + 1]
    BY <1>8, <1>14
  <2>2. m = 2
    <3>1. m <= 2 /\ m # 1
      BY <1>11, <1>14, <2>1
    <3> QED
      BY <1>12, <3>1
  <2> DEFINE j == i + 1
             to == At(2)
  <2>3. j \in 1 .. N /\ j + 1 \in 1 .. N + 1 /\ S[j] \in Nat /\ S[j + 1] \in Nat /\ S[j] <= S[j + 1]
    <3>1. j \in 1 .. N /\ j + 1 \in 1 .. N + 1
      BY <1>1, <1>7, <2>1
    <3> HIDE DEF j
    <3> QED
      BY <1>1, <3>1, LaidIs, FrameInLaid DEF N
  <2>4. k \in S[j] .. S[j + 1]
    BY <2>1, <2>3
  <2>5. to = PlaceOf(c, S, W, j, k) /\ to.offset = H
    <3>1. to = [frame |-> c[j], offset |-> H]
      BY <2>1
    <3>2. k = S[j]
      BY <2>1
    <3> HIDE DEF j, to
    <3>3. BorderOf(S, W, j, k) = H
      BY <1>1, <2>3, <2>4, <3>2, BordersOfLaid DEF N
    <3> QED
      BY <3>1, <3>3 DEF PlaceOf
  <2>6. \/ e.len <= free(F[c[j]]) \/ to.offset < records_end(F[c[j]]) \/ F[c[j]].next = NoFrame
    <3>1. Takes(2)
      BY <2>1
    <3> QED
      BY <2>1, <3>1
  <2>8. insert_at(h, place, e) = InsertInto(h, F, to, e)
    BY <1>10, <2>2
  <2> HIDE DEF j, to
  <2>7. PutBehind(h, c, S, W, k, e, InsertInto(h, F, to, e))
    BY <2>3, <2>4, <2>5, <2>6, PutIntoFrame DEF F, N
  <2> QED
    BY <2>7, <2>8
<1> QED
  BY <1>13, <1>14

(* The first frame of the hour. *)
LEMMA PutAtNoCell ==
  ASSUME disk.frames \in FrameMaps, NEW h, NEW S, NEW W, MemoryRight(h, disk, <<>>, S, W),
         NEW e \in Blocks, room_for_frames(h) # 0
  PROVE  PutBehind(h, <<>>, S, W, 0, e, insert_at(h, NoCell, e))
<1> DEFINE F == FramesOf(h, disk)
           chain == Follow(F, NoCell.frame)
           At(n) == [frame |-> chain[n], offset |-> IF n = 1 THEN NoCell.offset ELSE FRAME_HEADER_LEN]
           Takes(n) == \/ e.len <= free(F[chain[n]])
                       \/ At(n).offset < records_end(F[chain[n]])
                       \/ F[chain[n]].next = NoFrame
           taking == {n \in DOMAIN chain : Takes(n)}
           none == NoCell = NoCell
           stops == NoCell # NoCell /\ taking = {}
           r == InsertInto(h, F, At(Min(taking)), e)
<1>1. insert_at(h, NoCell, e) =
        CASE none -> append_frame(h, NoFrame, e)
          [] stops -> Fail(h, "the chain does not read")
          [] OTHER -> r
  BY DEF insert_at
<1>2. none /\ ~stops
  OBVIOUS
<1> HIDE DEF none, stops, r
<1>3. insert_at(h, NoCell, e) = append_frame(h, NoFrame, e)
  BY <1>1, <1>2
<1> QED
  BY <1>3, PutFirst

-------------------------------------------------------------------------------
(* An entry is put where it is aimed at: at a place of the chain, or, when *)
(* there is none, into the first frame.                                    *)
Aims(c, S, W, place, k) ==
  \/ \E st : StandsAt(c, S, W, place, k, st)
  \/ c = <<>> /\ place = NoCell /\ k = 0

LEMMA PutWhereAimed ==
  ASSUME disk.frames \in FrameMaps, NEW h, NEW c, NEW S, NEW W, MemoryRight(h, disk, c, S, W),
         NEW place, NEW k, Aims(c, S, W, place, k), NEW e \in Blocks, room_for_frames(h) # 0
  PROVE  PutBehind(h, c, S, W, k, e, insert_at(h, place, e))
<1>1. CASE \E st : StandsAt(c, S, W, place, k, st)
  <2>1. PICK st : StandsAt(c, S, W, place, k, st)
    BY <1>1
  <2> QED
    BY <2>1, PutAt
<1>2. CASE c = <<>> /\ place = NoCell /\ k = 0
  <2>1. MemoryRight(h, disk, <<>>, S, W)
    BY <1>2
  <2>2. PutBehind(h, <<>>, S, W, 0, e, insert_at(h, NoCell, e))
    BY <2>1, PutAtNoCell
  <2> QED
    BY <1>2, <2>2
<1> QED
  BY <1>1, <1>2 DEF Aims

(* Other cells: the chain is the same. *)
LEMMA OtherCells ==
  ASSUME disk.frames \in FrameMaps, NEW h, NEW c, NEW S, NEW W, MemoryRight(h, disk, c, S, W),
         NEW x \in Cells, NEW g, g = [h EXCEPT !.cells = x]
  PROVE  /\ MemoryRight(g, disk, c, S, W) /\ g.cells = x /\ g.files = h.files /\ Beside(g) = Beside(h)
         /\ g.frames = h.frames /\ g.dirty = h.dirty /\ g.tail = h.tail
<1>1. h \in Slots /\ MemoryFits(h, disk)
  BY MemoryIs
<1>2. g \in Slots
  BY <1>1, SlotWith
<1>3. /\ g.frames = h.frames /\ g.dirty = h.dirty /\ g.files = h.files /\ g.cells = x /\ g.tail = h.tail
      /\ Beside(g) = Beside(h)
  BY <1>1 DEF Slots, SlotRecords, Beside
<1>4. MemoryFits(g, disk) /\ FramesOf(g, disk) = FramesOf(h, disk)
  BY <1>1, <1>2, <1>3, FitsWith
<1> QED
  BY <1>3, <1>4 DEF MemoryRight

-------------------------------------------------------------------------------
(* The blocks of a second, put behind k entries one after another.         *)
ManyPut(W, k, blocks, i, V) ==
  /\ V \in Seq(Entries) /\ Len(V) = Len(W) + i
  /\ \A n \in 1 .. k : V[n] = W[n]
  /\ \A n \in 1 .. i : V[k + n] = blocks[n]
  /\ \A n \in k + 1 .. Len(W) : V[n + i] = W[n]
PushedBy(m, k, st, i, n) ==
  /\ m < k => n = m
  /\ m > k => n = m + i
  /\ m = k => n \in k .. k + i
  /\ m = k /\ st => n = k + i

LEMMA OneMorePut ==
  ASSUME NEW W \in Seq(Entries), NEW k \in 0 .. Len(W), NEW i \in Nat, NEW blocks \in Seq(Blocks),
         i + 1 \in 1 .. Len(blocks), NEW V, ManyPut(W, k, blocks, i, V),
         NEW X, X = PutIn(V, k + i, blocks[i + 1])
  PROVE  ManyPut(W, k, blocks, i + 1, X)
<1> DEFINE w == Len(W)
           e == blocks[i + 1]
           j == k + i
           l == w + i
<1>1. w \in Nat /\ k \in Nat /\ k <= w /\ j \in 0 .. l /\ e \in Entries /\ j \in Nat /\ l \in Nat
  <2>1. e \in Blocks
    OBVIOUS
  <2> HIDE DEF e
  <2>2. e \in Entries
    BY <2>1, BlocksAreEntries
  <2> QED
    BY <2>2
<1>2. /\ V \in Seq(Entries) /\ Len(V) = l
      /\ \A n \in 1 .. k : V[n] = W[n]
      /\ \A n \in 1 .. i : V[k + n] = blocks[n]
      /\ \A n \in k + 1 .. w : V[n + i] = W[n]
  BY DEF ManyPut
<1>3. X = PutIn(V, j, e) /\ j = k + i /\ l = w + i
  OBVIOUS
<1> HIDE DEF w, e, j, l
<1>4. /\ PutIn(V, j, e) \in Seq(Entries) /\ Len(PutIn(V, j, e)) = l + 1
      /\ \A n \in 1 .. j : PutIn(V, j, e)[n] = V[n]
      /\ PutIn(V, j, e)[j + 1] = e
      /\ \A n \in j + 1 .. l : PutIn(V, j, e)[n + 1] = V[n]
  BY <1>1, <1>2, EntriesPutIn
<1>5. X \in Seq(Entries) /\ Len(X) = w + (i + 1)
  BY <1>1, <1>3, <1>4
<1>6. \A n \in 1 .. k : X[n] = W[n]
  <2> TAKE n \in 1 .. k
  <2>1. n \in 1 .. j
    BY <1>1, <1>3
  <2> QED
    BY <1>2, <1>3, <1>4, <2>1
<1>7. \A n \in 1 .. i + 1 : X[k + n] = blocks[n]
  <2> TAKE n \in 1 .. i + 1
  <2>1. CASE n = i + 1
    <3>1. k + n = j + 1
      BY <1>1, <1>3, <2>1
    <3> QED
      BY <1>3, <1>4, <2>1, <3>1 DEF e
  <2>2. CASE n # i + 1
    <3>1. n \in 1 .. i /\ k + n \in 1 .. j
      BY <1>1, <1>3, <2>2
    <3> QED
      BY <1>2, <1>3, <1>4, <3>1
  <2> QED
    BY <2>1, <2>2
<1>8. \A n \in k + 1 .. w : X[n + (i + 1)] = W[n]
  <2> TAKE n \in k + 1 .. w
  <2>1. n + i \in j + 1 .. l /\ n + (i + 1) = n + i + 1
    BY <1>1, <1>3
  <2> QED
    BY <1>2, <1>3, <1>4, <2>1
<1> QED
  BY <1>5, <1>6, <1>7, <1>8 DEF ManyPut, w

LEMMA PushedOnceMore ==
  ASSUME NEW m \in Int, NEW k \in Int, NEW st, NEW i \in Nat, NEW n \in Int, NEW p \in Int,
         PushedBy(m, k, st, i, n), PushedOn(n, k + i, st, p)
  PROVE  PushedBy(m, k, st, i + 1, p)
<1>1. CASE m < k
  BY <1>1 DEF PushedBy, PushedOn
<1>2. CASE m > k
  BY <1>2 DEF PushedBy, PushedOn
<1>3. CASE m = k
  <2>1. n \in k .. k + i /\ (st => n = k + i)
    BY <1>3 DEF PushedBy
  <2>2. p \in k .. k + (i + 1) /\ (st => p = k + (i + 1))
    BY <2>1 DEF PushedOn
  <2> QED
    BY <1>3, <2>2 DEF PushedBy
<1> QED
  BY <1>1, <1>2, <1>3

LEMMA PushedByNone ==
  ASSUME NEW m \in Int, NEW k \in Int, NEW st
  PROVE  PushedBy(m, k, st, 0, m)
BY DEF PushedBy

-------------------------------------------------------------------------------
(* The cells of all seconds after i blocks were put behind k entries; the  *)
(* one of a second which is new stands before the first of them.           *)
CellsPushedBy(x, y, c, S, W, k, i, new, b, T, V) ==
  /\ \A s \in Seconds \ new :
       /\ x[s] = NoCell => y[s] = NoCell
       /\ \A m, st : StandsAt(c, S, W, x[s], m, st) =>
            \E n : StandsAt(b, T, V, y[s], n, st) /\ PushedBy(m, k, st, i, n)
  /\ \A s \in new : StandsAt(b, T, V, y[s], k, TRUE)
NewSecond(second, isFirst, i) == IF isFirst /\ i > 0 THEN {second} ELSE {}
ChainBlocksAt(h, c, S, W, k, blocks, i, second, isFirst, done, b, T, V) ==
  /\ MemoryRight(done.h, disk, b, T, V)
  /\ ManyPut(W, k, blocks, i, V)
  /\ Aims(b, T, V, done.place, k + i)
  /\ CellsPushedBy(h.cells, done.h.cells, c, S, W, k, i, NewSecond(second, isFirst, i), b, T, V)
  /\ c # <<>> => b # <<>> /\ b[1] = c[1]
  /\ i > 0 => b # <<>>
  /\ i > 0 /\ h.files = <<>> => b[1] = HEAD
  /\ i = 0 => done.h.files = h.files
BlocksAt(h, c, S, W, k, blocks, i, second, isFirst, done) ==
  /\ \E b, T, V : ChainBlocksAt(h, c, S, W, k, blocks, i, second, isFirst, done, b, T, V)
  /\ room_for_frames(done.h) \in Nat /\ room_for_frames(h) <= room_for_frames(done.h) + i
  /\ Beside(done.h) = Beside(h)
AfterBlock(r, e, second, sets) ==
  [h |-> IF sets THEN [r.h EXCEPT !.cells[second] = r.cell] ELSE r.h,
   place |-> [r.cell EXCEPT !.offset = @ + e.len]]

LEMMA NoBlockYet ==
  ASSUME disk.frames \in FrameMaps, NEW h, NEW c, NEW S, NEW W, MemoryRight(h, disk, c, S, W),
         NEW place, NEW k \in Nat, Aims(c, S, W, place, k), NEW blocks, NEW second, NEW isFirst,
         NEW done, done = [h |-> h, place |-> place]
  PROVE  BlocksAt(h, c, S, W, k, blocks, 0, second, isFirst, done)
<1>1. W \in Seq(Entries) /\ Len(W) \in Nat /\ room_for_frames(h) \in Nat
  BY MemoryIs
<1>2. ManyPut(W, k, blocks, 0, W)
  <2>1. \A n \in k + 1 .. Len(W) : n + 0 = n
    OBVIOUS
  <2>2. Len(W) + 0 = Len(W) /\ 1 .. 0 = {}
    BY <1>1
  <2> QED
    BY <1>1, <2>1, <2>2 DEF ManyPut
<1>3. done.h = h /\ done.place = place /\ k + 0 = k /\ NewSecond(second, isFirst, 0) = {}
  BY DEF NewSecond
<1>4. CellsPushedBy(h.cells, h.cells, c, S, W, k, 0, {}, c, S, W)
  <2>1. ASSUME NEW s \in Seconds, NEW m, NEW st, StandsAt(c, S, W, h.cells[s], m, st)
        PROVE  \E n : StandsAt(c, S, W, h.cells[s], n, st) /\ PushedBy(m, k, st, 0, n)
    <3>1. m \in Int
      BY <2>1 DEF StandsAt
    <3>2. PushedBy(m, k, st, 0, m)
      BY <3>1, PushedByNone
    <3> QED
      BY <2>1, <3>2
  <2> QED
    BY <2>1 DEF CellsPushedBy
<1>5. ChainBlocksAt(h, c, S, W, k, blocks, 0, second, isFirst, done, c, S, W)
  BY <1>2, <1>3, <1>4 DEF ChainBlocksAt
<1>6. room_for_frames(h) <= room_for_frames(h) + 0
  BY <1>1
<1> QED
  BY <1>1, <1>3, <1>5, <1>6 DEF BlocksAt

LEMMA AimedIn ==
  ASSUME NEW F \in FrameMaps, NEW c, NEW S, NEW W, IsLaid(F, c, S, W), NEW place, NEW k,
         Aims(c, S, W, place, k)
  PROVE  k \in 0 .. Len(W)
<1>1. CASE \E st : StandsAt(c, S, W, place, k, st)
  BY <1>1, StandingIs
<1>2. CASE k = 0
  BY <1>2, LaidIs
<1> QED
  BY <1>1, <1>2 DEF Aims

(* The cells of one block more. *)
LEMMA CellsPushedMore ==
  ASSUME NEW x, NEW y, NEW c, NEW S, NEW W, NEW k \in Nat, NEW i \in Nat, NEW new, NEW b, NEW T, NEW V,
         new \subseteq Seconds, i = 0 => new = {},
         CellsPushedBy(x, y, c, S, W, k, i, new, b, T, V),
         NEW z, NEW d, NEW U, NEW X, CellsPushed(y, z, b, T, V, k + i, d, U, X)
  PROVE  CellsPushedBy(x, z, c, S, W, k, i + 1, new, d, U, X)
<1>1. ASSUME NEW s \in Seconds \ new
      PROVE  /\ x[s] = NoCell => z[s] = NoCell
             /\ \A m, st : StandsAt(c, S, W, x[s], m, st) =>
                  \E n : StandsAt(d, U, X, z[s], n, st) /\ PushedBy(m, k, st, i + 1, n)
  <2>1. /\ x[s] = NoCell => y[s] = NoCell
        /\ \A m, st : StandsAt(c, S, W, x[s], m, st) =>
             \E n : StandsAt(b, T, V, y[s], n, st) /\ PushedBy(m, k, st, i, n)
    BY DEF CellsPushedBy
  <2>2. /\ y[s] = NoCell => z[s] = NoCell
        /\ \A m, st : StandsAt(b, T, V, y[s], m, st) =>
             \E n : StandsAt(d, U, X, z[s], n, st) /\ PushedOn(m, k + i, st, n)
    BY DEF CellsPushed
  <2>3. ASSUME NEW m, NEW st, StandsAt(c, S, W, x[s], m, st)
        PROVE  \E n : StandsAt(d, U, X, z[s], n, st) /\ PushedBy(m, k, st, i + 1, n)
    <3>1. PICK p : StandsAt(b, T, V, y[s], p, st) /\ PushedBy(m, k, st, i, p)
      BY <2>1, <2>3
    <3>2. PICK n : StandsAt(d, U, X, z[s], n, st) /\ PushedOn(p, k + i, st, n)
      BY <2>2, <3>1
    <3>3. m \in Int /\ p \in Int /\ n \in Int /\ k \in Int
      BY <2>3, <3>1, <3>2 DEF StandsAt
    <3>4. PushedBy(m, k, st, i + 1, n)
      BY <3>1, <3>2, <3>3, PushedOnceMore
    <3> QED
      BY <3>2, <3>4
  <2> QED
    BY <2>1, <2>2, <2>3
<1>2. ASSUME NEW s \in new PROVE StandsAt(d, U, X, z[s], k, TRUE)
  <2>1. StandsAt(b, T, V, y[s], k, TRUE) /\ i # 0 /\ s \in Seconds
    BY <1>2 DEF CellsPushedBy
  <2>2. PICK n : StandsAt(d, U, X, z[s], n, TRUE) /\ PushedOn(k, k + i, TRUE, n)
    BY <2>1 DEF CellsPushed
  <2>3. k < k + i
    BY <2>1
  <2>4. n = k
    BY <2>2, <2>3 DEF PushedOn
  <2> QED
    BY <2>2, <2>4
<1> QED
  BY <1>1, <1>2 DEF CellsPushedBy

-------------------------------------------------------------------------------
(* One block more. *)
LEMMA OneMoreBlock ==
  ASSUME disk.frames \in FrameMaps, NEW h, NEW c, NEW S, NEW W, MemoryRight(h, disk, c, S, W),
         NEW k \in Nat, NEW blocks \in Seq(Blocks), NEW i \in Nat, i + 1 \in 1 .. Len(blocks),
         NEW second \in Seconds, NEW isFirst \in BOOLEAN, NEW done,
         BlocksAt(h, c, S, W, k, blocks, i, second, isFirst, done), room_for_frames(h) > i,
         k \in 0 .. Len(W), NEW e, e = blocks[i + 1], NEW r, r = insert_at(done.h, done.place, e),
         NEW sets \in BOOLEAN, sets = (i = 0 /\ isFirst), NEW after, after = AfterBlock(r, e, second, sets)
  PROVE  BlocksAt(h, c, S, W, k, blocks, i + 1, second, isFirst, after)
<1> DEFINE old == NewSecond(second, isFirst, i)
           new == NewSecond(second, isFirst, i + 1)
           j == k + i
           y == IF sets THEN [r.h.cells EXCEPT ![second] = r.cell] ELSE r.h.cells
<1>1. PICK b, T, V : ChainBlocksAt(h, c, S, W, k, blocks, i, second, isFirst, done, b, T, V)
  BY DEF BlocksAt
<1>2. /\ MemoryRight(done.h, disk, b, T, V)
      /\ ManyPut(W, k, blocks, i, V)
      /\ Aims(b, T, V, done.place, j)
      /\ CellsPushedBy(h.cells, done.h.cells, c, S, W, k, i, old, b, T, V)
      /\ c # <<>> => b # <<>> /\ b[1] = c[1]
      /\ i > 0 => b # <<>>
      /\ i > 0 /\ h.files = <<>> => b[1] = HEAD
      /\ i = 0 => done.h.files = h.files
  BY <1>1 DEF ChainBlocksAt
<1>3. /\ room_for_frames(done.h) \in Nat /\ room_for_frames(h) <= room_for_frames(done.h) + i
      /\ Beside(done.h) = Beside(h) /\ room_for_frames(h) \in Nat /\ W \in Seq(Entries)
  BY MemoryIs DEF BlocksAt
<1>4. e \in Blocks /\ room_for_frames(done.h) # 0 /\ j \in Nat
  <2>1. e \in Blocks
    OBVIOUS
  <2> DEFINE x == room_for_frames(done.h)
             z == room_for_frames(h)
  <2>2. x \in Nat /\ z \in Nat /\ z <= x + i /\ z > i
    BY <1>3
  <2> HIDE DEF x, z
  <2>3. x # 0
    BY <2>2
  <2> QED
    BY <2>1, <2>3 DEF x
<1> HIDE DEF j
<1>5. PutBehind(done.h, b, T, V, j, e, r)
  <2> DEFINE place == done.place
             g == done.h
  <2>1. /\ MemoryRight(g, disk, b, T, V) /\ Aims(b, T, V, place, j) /\ room_for_frames(g) # 0
        /\ r = insert_at(g, place, e)
    BY <1>2, <1>4
  <2> HIDE DEF place, g
  <2>2. PutBehind(g, b, T, V, j, e, insert_at(g, place, e))
    BY <1>4, <2>1, PutWhereAimed
  <2> QED
    BY <2>1, <2>2 DEF g
<1> DEFINE X == PutIn(V, j, e)
<1>6. /\ r \in Answers
      /\ room_for_frames(r.h) \in Nat /\ room_for_frames(done.h) <= room_for_frames(r.h) + 1
      /\ Beside(r.h) = Beside(done.h)
      /\ \E d, U : /\ MemoryRight(r.h, disk, d, U, X)
                   /\ StandsAt(d, U, X, r.cell, j, TRUE)
                   /\ StandsAt(d, U, X, [r.cell EXCEPT !.offset = @ + e.len], j + 1, FALSE)
                   /\ CellsPushed(done.h.cells, r.h.cells, b, T, V, j, d, U, X)
                   /\ b # <<>> => d[1] = b[1]
                   /\ done.h.files = <<>> => d[1] = HEAD
                   /\ d # <<>>
  BY <1>5 DEF PutBehind
<1>7. PICK d, U : /\ MemoryRight(r.h, disk, d, U, X)
                  /\ StandsAt(d, U, X, r.cell, j, TRUE)
                  /\ StandsAt(d, U, X, [r.cell EXCEPT !.offset = @ + e.len], j + 1, FALSE)
                  /\ CellsPushed(done.h.cells, r.h.cells, b, T, V, j, d, U, X)
                  /\ b # <<>> => d[1] = b[1]
                  /\ done.h.files = <<>> => d[1] = HEAD
                  /\ d # <<>>
  BY <1>6
<1>8. ManyPut(W, k, blocks, i + 1, X)
  BY <1>2, <1>3, OneMorePut DEF j
<1> HIDE DEF X
<1>9. CellsPushedBy(h.cells, r.h.cells, c, S, W, k, i + 1, old, d, U, X)
  <2> DEFINE x == h.cells
             z == done.h.cells
             q == r.h.cells
  <2>1. CellsPushedBy(x, z, c, S, W, k, i, old, b, T, V) /\ CellsPushed(z, q, b, T, V, k + i, d, U, X)
    BY <1>2, <1>7 DEF j
  <2>2. old \subseteq Seconds /\ (i = 0 => old = {})
    BY DEF NewSecond
  <2> HIDE DEF x, z, q, old
  <2>3. CellsPushedBy(x, q, c, S, W, k, i + 1, old, d, U, X)
    BY <2>1, <2>2, CellsPushedMore
  <2> QED
    BY <2>3 DEF x, q
<1>10. r.h \in Slots /\ r.cell \in Places /\ r.h.cells \in Cells
  <2>1. r.h \in Slots /\ r.cell \in Places
    BY <1>6 DEF Answers
  <2> QED
    BY <2>1, SlotIs
<1>11. y \in Cells
  BY <1>10 DEF Cells
<1>12. /\ MemoryRight(after.h, disk, d, U, X) /\ after.h.cells = y /\ after.h.files = r.h.files
       /\ Beside(after.h) = Beside(r.h)
  <2>1. after.h = IF sets THEN [r.h EXCEPT !.cells[second] = r.cell] ELSE r.h
    BY DEF AfterBlock
  <2>2. CASE ~sets
    BY <1>7, <2>1, <2>2
  <2>3. CASE sets
    <3> DEFINE g == r.h
               m == [g EXCEPT !.cells = y]
    <3>1. after.h = m
      BY <2>1, <2>3
    <3>2. MemoryRight(g, disk, d, U, X) /\ y \in Cells
      BY <1>7, <1>11
    <3>3. m = [g EXCEPT !.cells = y]
      OBVIOUS
    <3> HIDE DEF g, y, m
    <3>4. MemoryRight(m, disk, d, U, X) /\ m.cells = y /\ m.files = g.files /\ Beside(m) = Beside(g)
      BY <3>2, <3>3, OtherCells
    <3> QED
      BY <3>1, <3>4 DEF g
  <2> QED
    BY <2>2, <2>3
<1>13. CellsPushedBy(h.cells, y, c, S, W, k, i + 1, new, d, U, X)
  <2>1. CASE sets
    <3>1. i = 0 /\ isFirst /\ old = {} /\ new = {second} /\ j = k
      <4>1. i = 0 /\ isFirst
        BY <2>1
      <4>2. ~(i > 0) /\ i + 1 > 0 /\ k + i = k
        BY <4>1
      <4>3. old = {}
        BY <4>2 DEF NewSecond
      <4>4. new = {second}
        BY <4>1, <4>2 DEF NewSecond
      <4> QED
        BY <4>1, <4>2, <4>3, <4>4 DEF j
    <3>2. StandsAt(d, U, X, y[second], k, TRUE)
      <4>1. y[second] = r.cell
        BY <1>10, <2>1 DEF Cells
      <4> HIDE DEF y
      <4> QED
        BY <1>7, <3>1, <4>1
    <3>3. \A s \in Seconds \ new : y[s] = r.h.cells[s] /\ s \in Seconds \ old
      BY <1>10, <2>1, <3>1 DEF Cells
    <3> HIDE DEF y, new, old
    <3> QED
      BY <1>9, <3>1, <3>2, <3>3 DEF CellsPushedBy
  <2>2. CASE ~sets
    <3>1. old = new /\ y = r.h.cells
      BY <2>2 DEF NewSecond
    <3> HIDE DEF y, new, old
    <3> QED
      BY <1>9, <3>1
  <2> QED
    BY <2>1, <2>2
<1>14. Aims(d, U, X, after.place, k + (i + 1))
  <2>1. after.place = [r.cell EXCEPT !.offset = @ + e.len] /\ j + 1 = k + (i + 1)
    BY DEF AfterBlock, j
  <2> QED
    BY <1>7, <2>1 DEF Aims
<1>15. /\ c # <<>> => d # <<>> /\ d[1] = c[1]
       /\ i + 1 > 0 => d # <<>>
       /\ i + 1 > 0 /\ h.files = <<>> => d[1] = HEAD
       /\ i + 1 # 0
  <2>1. i + 1 # 0 /\ (i = 0 \/ i > 0)
    OBVIOUS
  <2>2. ASSUME h.files = <<>> PROVE d[1] = HEAD
    BY <1>2, <1>7, <2>1, <2>2
  <2> QED
    BY <1>2, <1>7, <2>1, <2>2
<1> HIDE DEF y, new, old
<1>16. ChainBlocksAt(h, c, S, W, k, blocks, i + 1, second, isFirst, after, d, U, X)
  BY <1>8, <1>12, <1>13, <1>14, <1>15 DEF ChainBlocksAt, new
<1>17. room_for_frames(after.h) \in Nat /\ room_for_frames(h) <= room_for_frames(after.h) + (i + 1)
  <2> DEFINE l == room_for_frames(h)
             m == room_for_frames(done.h)
             n == room_for_frames(after.h)
  <2>1. n = room_for_frames(r.h)
    BY <1>12, RoomDepends
  <2>2. l <= m + i /\ m <= n + 1 /\ n \in Nat /\ m \in Nat /\ l \in Nat
    BY <1>3, <1>6, <2>1
  <2> HIDE DEF l, m, n
  <2>3. l <= n + (i + 1)
    BY <2>2
  <2> QED
    BY <2>2, <2>3 DEF l, n
<1> QED
  BY <1>3, <1>6, <1>12, <1>16, <1>17 DEF BlocksAt

-------------------------------------------------------------------------------
(* The blocks of a second are put one after another: the i-th of them      *)
(* where the one before it ended.                                          *)
PutOne(done, i, second, isFirst, blocks) ==
  LET in == insert_at(done.h, done.place, blocks[i])
  IN  [h |-> IF i = 1 /\ isFirst /\ in.h.failure = ""
             THEN [in.h EXCEPT !.cells[second] = in.cell] ELSE in.h,
       place |-> [in.cell EXCEPT !.offset = @ + blocks[i].len]]
OneByOne(f, h, second, place, isFirst, blocks) ==
  /\ f[0] = [h |-> h, place |-> place]
  /\ \A i \in 0 .. Len(blocks) - 1 :
       f[i + 1] = IF f[i].h.failure # "" THEN f[i] ELSE PutOne(f[i], i + 1, second, isFirst, blocks)
  /\ InsertBlocks(h, second, place, isFirst, blocks) = f[Len(blocks)].h

LEMMA LastOfAll ==
  ASSUME NEW i \in Nat
  PROVE  Max(1 .. i + 1) = i + 1 /\ (1 .. i + 1) \ {i + 1} = 1 .. i
<1>1. i + 1 \in Nat /\ i + 1 \in 1 .. i + 1 /\ 1 .. i + 1 \subseteq Int
  OBVIOUS
<1>2. \A x \in 1 .. i + 1 : x <= i + 1
  OBVIOUS
<1>3. Max(1 .. i + 1) = CHOOSE x \in 1 .. i + 1 : \A y \in 1 .. i + 1 : x >= y
  BY DEF Max
<1>4. \E x \in 1 .. i + 1 : \A y \in 1 .. i + 1 : x >= y
  BY <1>1, <1>2
<1>5. Max(1 .. i + 1) \in 1 .. i + 1 /\ Max(1 .. i + 1) >= i + 1
  BY <1>1, <1>3, <1>4
<1>6. (1 .. i + 1) \ {i + 1} = 1 .. i
  OBVIOUS
<1> QED
  BY <1>5, <1>6

LEMMA PutOneIs ==
  ASSUME disk.frames \in FrameMaps, NEW done \in [h : Slots, place : Places], NEW second \in Seconds,
         NEW isFirst, NEW blocks \in Seq(Blocks), NEW i \in 1 .. Len(blocks)
  PROVE  PutOne(done, i, second, isFirst, blocks) \in [h : Slots, place : Places]
<1> DEFINE in == insert_at(done.h, done.place, blocks[i])
           moved == [in.h EXCEPT !.cells[second] = in.cell]
           next == [in.cell EXCEPT !.offset = @ + blocks[i].len]
           which == IF i = 1 /\ isFirst /\ in.h.failure = "" THEN moved ELSE in.h
<1>1. blocks[i] \in Blocks /\ done.h \in Slots /\ done.place \in Places
  OBVIOUS
<1>2. PutOne(done, i, second, isFirst, blocks) = [h |-> which, place |-> next]
  BY DEF PutOne
<1>3. in \in Answers
  BY <1>1, BlockIsInserted
<1>4. in.h \in Slots /\ in.cell \in Places
  BY <1>3 DEF Answers
<1> HIDE DEF in
<1>5. moved \in Slots
  <2> DEFINE cells == [in.h.cells EXCEPT ![second] = in.cell]
  <2>1. in.h.cells \in Cells
    BY <1>4, SlotIs
  <2>2. cells \in Cells
    BY <1>4, <2>1 DEF Cells
  <2>3. moved = [in.h EXCEPT !.cells = cells]
    OBVIOUS
  <2> HIDE DEF cells, moved
  <2> QED
    BY <1>4, <2>2, <2>3, SlotWith
<1>6. next \in Places
  <2>1. blocks[i].len \in Int
    BY <1>1 DEF Blocks, Entries
  <2> QED
    BY <1>4, <2>1 DEF Places
<1>7. which \in Slots
  BY <1>4, <1>5
<1> HIDE DEF which, next
<1> QED
  BY <1>2, <1>6, <1>7

LEMMA BlocksOneByOne ==
  ASSUME disk.frames \in FrameMaps, NEW h \in Slots, NEW second \in Seconds, NEW place \in Places,
         NEW isFirst, NEW blocks \in Seq(Blocks)
  PROVE  \E f : OneByOne(f, h, second, place, isFirst, blocks)
<1> DEFINE A == [h : Slots, place : Places]
           After(in, i) ==
             [h |-> IF i = 1 /\ isFirst /\ in.h.failure = ""
                    THEN [in.h EXCEPT !.cells[second] = in.cell] ELSE in.h,
              place |-> [in.cell EXCEPT !.offset = @ + blocks[i].len]]
           Put(done, i) == IF done.h.failure # "" THEN done
                           ELSE After(insert_at(done.h, done.place, blocks[i]), i)
           none == [h |-> h, place |-> place]
           places == [i \in DOMAIN blocks |-> i]
           n == Len(blocks)
           S == 1 .. n
           IsIter(f) == f = [s \in SUBSET S |-> IF s = {} THEN none
                                                ELSE Put(f[s \ {Max(s)}], places[Max(s)])]
           op == [xa \in S \X A |-> Put(xa[2], places[xa[1]])]
           iter == CHOOSE f : IsIter(f)
<1>1. n \in Nat /\ DOMAIN blocks = S /\ (\A i \in S : blocks[i] \in Blocks)
      /\ DOMAIN places = S /\ (\A i \in S : places[i] = i)
  OBVIOUS
<1>2. none \in A
  OBVIOUS
<1>3. \A a \in A, i \in S : Put(a, i) = IF a.h.failure # "" THEN a
                                       ELSE PutOne(a, i, second, isFirst, blocks)
  BY DEF PutOne
<1>4. \A a \in A, i \in S : Put(a, places[i]) \in A
  <2> TAKE a \in A, i \in S
  <2>1. PutOne(a, i, second, isFirst, blocks) \in A
    BY <1>1, PutOneIs
  <2> HIDE DEF Put
  <2> QED
    BY <1>1, <1>3, <2>1
<1>5. InsertBlocks(h, second, place, isFirst, blocks) = FoldLeft(Put, none, places).h
  BY DEF InsertBlocks
<1> HIDE DEF A, Put, After, none, n, places
<1>6. \E f : IsIter(f)
  <2>1. op \in [S \X A -> A]
    BY <1>4
  <2>2. PICK f : IsLeftFold(f, n, A, none, op)
    <3> HIDE DEF op
    <3> QED
      BY <1>1, <1>2, <2>1, LeftFoldExists
  <2>3. \A s \in SUBSET S : s # {} =>
          op[<<Max(s), f[s \ {Max(s)}]>>] = Put(f[s \ {Max(s)}], places[Max(s)])
    <3> TAKE s \in SUBSET S
    <3> HAVE s # {}
    <3>1. Max(s) \in S
      BY <1>1, HighestIs
    <3>2. f[s \ {Max(s)}] \in A
      BY <2>2 DEF IsLeftFold
    <3> QED
      BY <3>1, <3>2
  <2> HIDE DEF op, S
  <2>4. IsIter(f)
    BY <2>2, <2>3 DEF S, IsLeftFold
  <2> QED
    BY <2>4
<1>7. IsIter(iter)
  <2> HIDE DEF IsIter
  <2> QED
    BY <1>6
<1>8. FoldLeft(Put, none, places) = iter[1 .. n]
  BY <1>1 DEF FoldLeft, MapThenFoldSet
<1>9. \A s \in SUBSET S : s # {} => iter[s] = Put(iter[s \ {Max(s)}], places[Max(s)])
  BY <1>7
<1>10. iter[{}] = none
  BY <1>7
<1> HIDE DEF iter, IsIter
<1>11. \A i \in 0 .. n : iter[1 .. i] \in A
  <2> DEFINE Good == {i \in Nat : i <= n => iter[1 .. i] \in A}
  <2>1. 0 \in Good
    <3>1. 1 .. 0 = {}
      OBVIOUS
    <3> QED
      BY <1>2, <1>10, <3>1
  <2>2. ASSUME NEW i \in Good PROVE i + 1 \in Good
    <3> SUFFICES ASSUME i + 1 <= n PROVE iter[1 .. i + 1] \in A
      OBVIOUS
    <3>1. i \in Nat /\ i <= n /\ i + 1 \in S /\ 1 .. i + 1 \in SUBSET S /\ i + 1 \in 1 .. i + 1
      BY <1>1
    <3>2. Max(1 .. i + 1) = i + 1 /\ (1 .. i + 1) \ {i + 1} = 1 .. i
      BY <3>1, LastOfAll
    <3>3. iter[1 .. i + 1] = Put(iter[1 .. i], places[i + 1])
      BY <1>9, <3>1, <3>2
    <3>4. iter[1 .. i] \in A
      BY <2>2, <3>1
    <3> QED
      BY <1>4, <3>1, <3>3, <3>4
  <2> HIDE DEF Good
  <2>3. Good = Nat
    <3>1. Good \in SUBSET Nat
      BY DEF Good
    <3> QED
      BY <2>1, <2>2, <3>1, NatInd
  <2> QED
    BY <1>1, <2>3 DEF Good
<1> DEFINE g == [i \in 0 .. n |-> iter[1 .. i]]
<1>12. g[0] = none
  <2>1. 1 .. 0 = {} /\ 0 \in 0 .. n
    BY <1>1
  <2> QED
    BY <1>10, <2>1
<1>13. ASSUME NEW i \in 0 .. n - 1
       PROVE  g[i + 1] = IF g[i].h.failure # "" THEN g[i]
                         ELSE PutOne(g[i], i + 1, second, isFirst, blocks)
  <2>1. i \in Nat /\ i \in 0 .. n /\ i + 1 \in 0 .. n /\ i + 1 \in S /\ 1 .. i + 1 \in SUBSET S /\ i + 1 \in 1 .. i + 1
    BY <1>1
  <2>2. Max(1 .. i + 1) = i + 1 /\ (1 .. i + 1) \ {i + 1} = 1 .. i
    BY <2>1, LastOfAll
  <2>3. g[i + 1] = Put(g[i], i + 1)
    BY <1>1, <1>9, <2>1, <2>2
  <2>4. g[i] \in A
    BY <1>11, <2>1
  <2> QED
    BY <1>3, <2>1, <2>3, <2>4
<1>14. FoldLeft(Put, none, places) = g[n]
  BY <1>1, <1>8
<1> HIDE DEF g
<1> QED
  BY <1>1, <1>5, <1>12, <1>13, <1>14 DEF OneByOne, none, n

-------------------------------------------------------------------------------
(* All of the blocks of a second. *)
NotFailed(h) == h.failure = ""

PutsOneMore(done, i, second, isFirst, blocks, e, r, sets, after) ==
  PutOne(done, i + 1, second, isFirst, blocks) = after

LEMMA AfterIs ==
  ASSUME disk.frames \in FrameMaps, NEW done \in [h : Slots, place : Places], NEW second \in Seconds,
         NEW isFirst \in BOOLEAN, NEW blocks \in Seq(Blocks), NEW i \in Nat, i + 1 \in 1 .. Len(blocks),
         NEW e, e = blocks[i + 1], NEW r, r = insert_at(done.h, done.place, e),
         NEW sets \in BOOLEAN, sets = (i = 0 /\ isFirst), NEW after, after = AfterBlock(r, e, second, sets),
         NotFailed(after.h)
  PROVE  PutsOneMore(done, i, second, isFirst, blocks, e, r, sets, after)
<1>1. e \in Blocks /\ done.h \in Slots /\ done.place \in Places
  OBVIOUS
<1>2. r \in Answers
  BY <1>1, BlockIsInserted
<1>3. r.h \in Slots
  BY <1>2 DEF Answers
<1>4. after.h = IF sets THEN [r.h EXCEPT !.cells[second] = r.cell] ELSE r.h
  BY DEF AfterBlock
<1>5. r.h.failure = ""
  <2> DEFINE g == r.h
             x == [g.cells EXCEPT ![second] = r.cell]
  <2>1. after.h = IF sets THEN [g EXCEPT !.cells = x] ELSE g
    BY <1>4
  <2>2. g \in Slots
    BY <1>3
  <2> HIDE DEF g, x
  <2>3. after.h.failure = g.failure
    BY <2>1, <2>2 DEF Slots, SlotRecords
  <2> QED
    BY <2>3 DEF g, NotFailed
<1>6. sets = (i + 1 = 1 /\ isFirst /\ r.h.failure = "")
  <2>1. (i + 1 = 1) = (i = 0)
    OBVIOUS
  <2> QED
    BY <1>5, <2>1
<1>7. PutOne(done, i + 1, second, isFirst, blocks)
      = [h |-> IF i + 1 = 1 /\ isFirst /\ r.h.failure = ""
               THEN [r.h EXCEPT !.cells[second] = r.cell] ELSE r.h,
         place |-> [r.cell EXCEPT !.offset = @ + e.len]]
  BY DEF PutOne
<1> QED
  BY <1>6, <1>7 DEF AfterBlock, PutsOneMore

(* All of the blocks are put, one behind the other.                        *)
AllPut(h, c, S, W, k, blocks, second, isFirst, g) ==
  \E done : done.h = g /\ BlocksAt(h, c, S, W, k, blocks, Len(blocks), second, isFirst, done)

(* Blocks which find room are all put into a chain which is in order, at   *)
(* the place they are aimed at and in their order, none of them is refused *)
(* however the frames are halved under them, and every cell still leads to *)
(* the entry it led to (insert_at, halve_and_insert).                      *)
THEOREM BlocksAllPut ==
  ASSUME disk.frames \in FrameMaps, NEW h, NEW c, NEW S, NEW W, MemoryRight(h, disk, c, S, W),
         NEW k, NEW place \in Places, Aims(c, S, W, place, k), NEW blocks \in Seq(Blocks),
         NEW second \in Seconds, NEW isFirst \in BOOLEAN, NotFailed(h),
         room_for_frames(h) >= Len(blocks),
         NEW g, g = InsertBlocks(h, second, place, isFirst, blocks)
  PROVE  AllPut(h, c, S, W, k, blocks, second, isFirst, g)
<1> DEFINE n == Len(blocks)
<1>1. h \in Slots /\ n \in Nat /\ room_for_frames(h) \in Nat /\ W \in Seq(Entries)
  BY MemoryIs
<1>2. k \in 0 .. Len(W) /\ k \in Nat
  <2>1. FramesOf(h, disk) \in FrameMaps /\ IsLaid(FramesOf(h, disk), c, S, W)
    BY MemoryIs
  <2>2. k \in 0 .. Len(W)
    BY <2>1, AimedIn
  <2> QED
    BY <2>2
<1>3. PICK f : OneByOne(f, h, second, place, isFirst, blocks)
  BY <1>1, BlocksOneByOne
<1>4. /\ f[0] = [h |-> h, place |-> place]
      /\ \A i \in 0 .. n - 1 :
           f[i + 1] = IF f[i].h.failure # "" THEN f[i] ELSE PutOne(f[i], i + 1, second, isFirst, blocks)
      /\ g = f[n].h
  BY <1>3 DEF OneByOne
<1> DEFINE IsAt(i) == /\ BlocksAt(h, c, S, W, k, blocks, i, second, isFirst, f[i])
                      /\ f[i] \in [h : Slots, place : Places]
           Good == {i \in Nat : i <= n => IsAt(i)}
<1>5. IsAt(0)
  <2> DEFINE none == f[0]
  <2>1. none = [h |-> h, place |-> place]
    BY <1>4
  <2> HIDE DEF none
  <2>2. BlocksAt(h, c, S, W, k, blocks, 0, second, isFirst, none)
    BY <1>2, <2>1, NoBlockYet
  <2> QED
    BY <1>1, <2>1, <2>2 DEF none
<1>6. ASSUME NEW i \in Nat, i + 1 <= n, IsAt(i) PROVE IsAt(i + 1)
  <2> DEFINE done == f[i]
             e == blocks[i + 1]
             r == insert_at(done.h, done.place, e)
             sets == (i = 0 /\ isFirst)
             after == AfterBlock(r, e, second, sets)
  <2>1. i + 1 \in 1 .. Len(blocks) /\ i \in 0 .. n - 1 /\ room_for_frames(h) > i
    BY <1>1, <1>6
  <2>2. /\ BlocksAt(h, c, S, W, k, blocks, i, second, isFirst, done)
        /\ done \in [h : Slots, place : Places]
    BY <1>6
  <2>3. e = blocks[i + 1] /\ r = insert_at(done.h, done.place, e) /\ sets = (i = 0 /\ isFirst)
        /\ sets \in BOOLEAN /\ after = AfterBlock(r, e, second, sets)
    OBVIOUS
  <2>4. f[i + 1] = IF done.h.failure # "" THEN done ELSE PutOne(done, i + 1, second, isFirst, blocks)
    BY <1>4, <2>1
  <2> HIDE DEF done, e, r, sets, after
  <2>5. BlocksAt(h, c, S, W, k, blocks, i + 1, second, isFirst, after)
    BY <1>2, <2>1, <2>2, <2>3, OneMoreBlock
  <2>6. done.h.failure = "" /\ NotFailed(after.h)
    <3>1. Beside(done.h) = Beside(h) /\ Beside(after.h) = Beside(h)
      BY <2>2, <2>5 DEF BlocksAt
    <3>2. \A x : Beside(x).failure = x.failure
      BY DEF Beside
    <3>3. done.h.failure = h.failure /\ after.h.failure = h.failure
      BY <3>1, <3>2
    <3> QED
      BY <3>3 DEF NotFailed
  <2>7. PutOne(done, i + 1, second, isFirst, blocks) = after
    <3>1. PutsOneMore(done, i, second, isFirst, blocks, e, r, sets, after)
      BY <2>1, <2>2, <2>3, <2>6, AfterIs
    <3> QED
      BY <3>1 DEF PutsOneMore
  <2>8. PutOne(done, i + 1, second, isFirst, blocks) \in [h : Slots, place : Places]
    BY <2>1, <2>2, PutOneIs
  <2>9. f[i + 1] = after /\ f[i + 1] \in [h : Slots, place : Places]
    BY <2>4, <2>6, <2>7, <2>8
  <2> QED
    BY <2>5, <2>9
<1> HIDE DEF IsAt, n
<1>7. Good = Nat
  <2>1. Good \in SUBSET Nat
    OBVIOUS
  <2>2. 0 \in Good
    BY <1>5
  <2>3. ASSUME NEW i \in Good PROVE i + 1 \in Good
    <3>1. i \in Nat /\ (i + 1 <= n => i <= n)
      BY <1>1
    <3> QED
      BY <1>6, <2>3, <3>1
  <2> HIDE DEF Good
  <2> QED
    BY <2>1, <2>2, <2>3, NatInd
<1>8. IsAt(n)
  BY <1>1, <1>7
<1> QED
  BY <1>4, <1>8 DEF IsAt, AllPut, n
================================================================================
