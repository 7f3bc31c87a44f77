--------------------------- MODULE StatisticsProofs ---------------------------
(***************************************************************************)
(* The statistics of the hours, for any events, batches, queries and       *)
(* clocks, and any order of passes, saves, stops, crashes and starts.      *)
(***************************************************************************)
EXTENDS Statistics, FoldLemmas

-------------------------------------------------------------------------------
(* The rows of both tables: their keys, their types, and when a row counts  *)
(* exactly these events.                                                    *)
Tables == {"actions", "services"}
KeyOf(t, at, e) == IF t = "actions" THEN ActionOf(at, e) ELSE ServiceOf(at, e)
Keys(t) ==
  IF t = "actions" THEN {<<k[1], Data[k[2]].service, Data[k[2]].action>> : k \in (Nat \ {0}) \X Events}
                   ELSE {<<k[1], Data[k[2]].service>> : k \in (Nat \ {0}) \X Events}
Rows(t) ==
  IF t = "actions"
  THEN [min : Nat, max : Nat, errors_amount : Nat, success_amount : Nat,
        sum_of_duration : Nat, amount : Nat]
  ELSE [amount : Nat, duration_micros : Nat]
TableOf(t) == UNION {[keys -> Rows(t)] : keys \in SUBSET Keys(t)}

CountsAction(row, some) ==
  /\ row.amount = Cardinality(some) /\ row.sum_of_duration = DurationOf(some)
  /\ row.max \in Durations(some) /\ \A d \in Durations(some) : d <= row.max
  /\ \/ row.min \in Durations(some) /\ \A d \in Durations(some) : row.min <= d
     \/ 0 \in Durations(some)
  /\ row.success_amount = Cardinality({e \in some : Data[e].success})
  /\ row.errors_amount = Cardinality({e \in some : Data[e].fail})
Counts(t, row, some) ==
  /\ row \in Rows(t) /\ some # {}
  /\ IF t = "actions" THEN CountsAction(row, some) ELSE IsService(row, some)

(* A row which counts these events is the one of the definition. *)
LEMMA CountsIsExact ==
  ASSUME NEW t \in Tables, NEW row, NEW some \in SUBSET Events, Counts(t, row, some)
  PROVE  /\ row.amount = Cardinality(some)
         /\ IF t = "actions" THEN IsAction(row, some) ELSE IsService(row, some)
<1>1. Durations(some) \subseteq Nat
  BY StatisticsAssumption DEF Durations
<1>2. CASE t = "services"
  BY <1>2 DEF Counts, IsService
<1>3. CASE t = "actions"
  <2>1. CountsAction(row, some)
    BY <1>3 DEF Counts
  <2>2. row.max = Max(Durations(some))
    <3>1. row.max \in Durations(some) /\ \A d \in Durations(some) : row.max >= d
      BY <1>1, <2>1 DEF CountsAction
    <3>2. \A m \in Durations(some) : (\A d \in Durations(some) : m >= d) => m = row.max
      BY <1>1, <3>1
    <3> QED
      BY <3>1, <3>2 DEF Max
  <2>3. row.min = Min(Durations(some)) \/ 0 \in Durations(some)
    <3>1. CASE 0 \notin Durations(some)
      <4>1. row.min \in Durations(some) /\ \A d \in Durations(some) : row.min =< d
        BY <1>1, <2>1, <3>1 DEF CountsAction
      <4>2. \A m \in Durations(some) : (\A d \in Durations(some) : m =< d) => m = row.min
        BY <1>1, <4>1
      <4> QED
        BY <4>1, <4>2 DEF Min
    <3> QED
      BY <3>1
  <2> QED
    BY <1>3, <2>1, <2>2, <2>3 DEF CountsAction, IsAction
<1> QED
  BY <1>2, <1>3 DEF Tables

(* A row which is new counts its event, and one which is updated counts one *)
(* event more.                                                              *)
New(t, e) == IF t = "actions" THEN NewItem(e) ELSE NewService(e)
Add(t, row, e) == IF t = "actions" THEN update(row, e) ELSE inc(row, e)

LEMMA DurationsAreNat ==
  ASSUME NEW some \in SUBSET Events
  PROVE  /\ IsFiniteSet(some) /\ Cardinality(some) \in Nat
         /\ DurationOf(some) \in Nat /\ Durations(some) \subseteq Nat
         /\ \A e \in Events \ some :
              /\ DurationOf(some \union {e}) = Data[e].duration + DurationOf(some)
              /\ Cardinality(some \union {e}) = Cardinality(some) + 1
<1> DEFINE fun == [e \in Events |-> Data[e].duration]
<1>1. \A s \in SUBSET Events : IsFiniteSet(s) /\ Cardinality(s) \in Nat
  BY StatisticsAssumption, FS_Subset, FS_CardinalityType
<1>2. \A e \in Events : fun[e] = Data[e].duration /\ fun[e] \in Nat
  BY StatisticsAssumption
<1> HIDE DEF fun
<1>3. \A s \in SUBSET Events : SumFunctionOnSet(fun, s) \in Nat
  BY <1>1, <1>2, SumIsNat
<1>4. \A s \in SUBSET Events : DurationOf(s) = SumFunctionOnSet(fun, s)
  BY DEF DurationOf, fun
<1>5. ASSUME NEW e \in Events \ some
      PROVE  /\ DurationOf(some \union {e}) = Data[e].duration + DurationOf(some)
             /\ Cardinality(some \union {e}) = Cardinality(some) + 1
  <2> DEFINE s == some \union {e}
  <2>1. s \in SUBSET Events /\ e \in s /\ s \ {e} = some
    OBVIOUS
  <2> HIDE DEF s
  <2>2. SumFunctionOnSet(fun, s) = fun[e] + SumFunctionOnSet(fun, s \ {e})
    BY <1>1, <1>2, <2>1, SumAdd
  <2>3. Cardinality(some \union {e}) = Cardinality(some) + 1
    BY <1>1, FS_AddElement
  <2> QED
    BY <1>2, <1>4, <2>1, <2>2, <2>3 DEF s
<1>6. Durations(some) \subseteq Nat
  BY StatisticsAssumption DEF Durations
<1> QED
  BY <1>1, <1>3, <1>4, <1>5, <1>6

LEMMA NewCounts ==
  ASSUME NEW t \in Tables, NEW e \in Events
  PROVE  Counts(t, New(t, e), {e})
<1>1. DurationOf({e}) = Data[e].duration /\ Cardinality({e}) = 1
  <2>1. DurationOf({} \union {e}) = Data[e].duration + DurationOf({})
    BY DurationsAreNat
  <2>2. DurationOf({}) = 0
    BY SumOfNone DEF DurationOf
  <2>3. {} \union {e} = {e} /\ Data[e].duration \in Nat
    BY StatisticsAssumption
  <2>4. DurationOf({} \union {e}) = DurationOf({e})
    BY <2>3, Zenon
  <2>5. DurationOf({e}) = Data[e].duration
    BY <2>1, <2>2, <2>3, <2>4
  <2> QED
    BY <2>5, FS_Singleton
<1>2. Data[e].duration \in Nat /\ Data[e].success \in BOOLEAN /\ Data[e].fail \in BOOLEAN
  BY StatisticsAssumption
<1>3. New(t, e) \in Rows(t)
  BY <1>2 DEF New, NewItem, NewService, One, Rows
<1>4. CASE t = "services"
  BY <1>1, <1>3, <1>4 DEF Counts, New, NewService, IsService
<1>5. CASE t = "actions"
  <2>1. Durations({e}) = {Data[e].duration}
    BY DEF Durations
  <2>2. /\ Cardinality({f \in {e} : Data[f].success}) = One(Data[e].success)
        /\ Cardinality({f \in {e} : Data[f].fail}) = One(Data[e].fail)
    <3>1. \A b \in BOOLEAN : {f \in {e} : b} = IF b THEN {e} ELSE {}
      OBVIOUS
    <3>2. /\ {f \in {e} : Data[f].success} = IF Data[e].success THEN {e} ELSE {}
          /\ {f \in {e} : Data[f].fail} = IF Data[e].fail THEN {e} ELSE {}
      BY <1>2
    <3>3. Cardinality({e}) = 1 /\ Cardinality({}) = 0
      BY <1>1, FS_EmptySet
    <3> QED
      BY <3>2, <3>3 DEF One
  <2>3. CountsAction(NewItem(e), {e})
    BY <1>1, <1>2, <2>1, <2>2 DEF CountsAction, NewItem
  <2> QED
    BY <1>3, <1>5, <2>3 DEF Counts, New
<1> QED
  BY <1>4, <1>5 DEF Tables

LEMMA CardinalityAdds ==
  ASSUME NEW some \in SUBSET Events, NEW e \in Events \ some, NEW holds,
         \A f \in Events : holds[f] \in BOOLEAN
  PROVE  Cardinality({f \in some \union {e} : holds[f]})
           = Cardinality({f \in some : holds[f]}) + One(holds[e])
<1> DEFINE s == {f \in some : holds[f]}
<1>1. s \in SUBSET Events /\ e \notin s /\ Cardinality(s) \in Nat
  BY DurationsAreNat
<1>2. {f \in some \union {e} : holds[f]} = IF holds[e] THEN s \union {e} ELSE s
  OBVIOUS
<1>3. Cardinality(s \union {e}) = Cardinality(s) + 1
  BY <1>1, DurationsAreNat
<1> QED
  BY <1>1, <1>2, <1>3 DEF One

LEMMA AddCounts ==
  ASSUME NEW t \in Tables, NEW row, NEW some \in SUBSET Events, NEW e \in Events \ some,
         Counts(t, row, some)
  PROVE  Counts(t, Add(t, row, e), some \union {e})
<1> DEFINE all == some \union {e}
<1>1. /\ Data[e].duration \in Nat /\ Data[e].success \in BOOLEAN /\ Data[e].fail \in BOOLEAN
      /\ Durations(some) \subseteq Nat
  BY StatisticsAssumption, DurationsAreNat
<1>2. /\ DurationOf(all) = Data[e].duration + DurationOf(some)
      /\ Cardinality(all) = Cardinality(some) + 1
      /\ DurationOf(some) \in Nat /\ Cardinality(some) \in Nat
  BY DurationsAreNat
<1>3. CASE t = "services"
  BY <1>1, <1>2, <1>3 DEF Counts, Add, inc, IsService, Rows
<1>4. CASE t = "actions"
  <2>0. row \in Rows("actions") /\ CountsAction(row, some)
    BY <1>4 DEF Counts
  <2>1. update(row, e) \in Rows("actions")
    BY <1>1, <2>0 DEF update, Rows, One
  <2>2. Durations(all) = Durations(some) \union {Data[e].duration}
    BY DEF Durations
  <2>3. /\ Cardinality({f \in all : Data[f].success})
             = Cardinality({f \in some : Data[f].success}) + One(Data[e].success)
        /\ Cardinality({f \in all : Data[f].fail})
             = Cardinality({f \in some : Data[f].fail}) + One(Data[e].fail)
    <3> DEFINE s == [f \in Events |-> Data[f].success]
               r == [f \in Events |-> Data[f].fail]
    <3>1. \A f \in Events : /\ s[f] = Data[f].success /\ r[f] = Data[f].fail
                            /\ s[f] \in BOOLEAN /\ r[f] \in BOOLEAN
      BY StatisticsAssumption
    <3> HIDE DEF s, r
    <3>2. /\ Cardinality({f \in all : s[f]}) = Cardinality({f \in some : s[f]}) + One(s[e])
          /\ Cardinality({f \in all : r[f]}) = Cardinality({f \in some : r[f]}) + One(r[e])
      BY <3>1, CardinalityAdds
    <3>3. /\ {f \in all : Data[f].success} = {f \in all : s[f]}
          /\ {f \in some : Data[f].success} = {f \in some : s[f]}
          /\ {f \in all : Data[f].fail} = {f \in all : r[f]}
          /\ {f \in some : Data[f].fail} = {f \in some : r[f]}
      BY <3>1
    <3> QED
      BY <3>1, <3>2, <3>3
  <2> DEFINE d == Data[e].duration
             new == update(row, e)
  <2>a. /\ new.max = (IF d > row.max THEN d ELSE row.max)
        /\ new.min = (IF d < row.min \/ row.min = 0 THEN d ELSE row.min)
    BY DEF update
  <2>b. row.max \in Nat /\ row.min \in Nat /\ d \in Nat
    BY <1>1, <2>0 DEF Rows
  <2>c. /\ row.max \in Durations(some) /\ \A x \in Durations(some) : x <= row.max
        /\ \/ row.min \in Durations(some) /\ \A x \in Durations(some) : row.min <= x
           \/ 0 \in Durations(some)
    BY <2>0 DEF CountsAction
  <2>4. new.max \in Durations(all) /\ \A x \in Durations(all) : x <= new.max
    <3> HIDE DEF new, all, d
    <3> QED
      BY <1>1, <2>2, <2>a, <2>b, <2>c DEF d
  <2>5. \/ new.min \in Durations(all) /\ \A x \in Durations(all) : new.min <= x
        \/ 0 \in Durations(all)
    <3> HIDE DEF new, all, d
    <3> QED
      BY <1>1, <2>2, <2>a, <2>b, <2>c DEF d
  <2>6. /\ new.amount = row.amount + 1 /\ new.sum_of_duration = row.sum_of_duration + d
        /\ new.success_amount = row.success_amount + One(Data[e].success)
        /\ new.errors_amount = row.errors_amount + One(Data[e].fail)
    BY DEF update
  <2>7. row.amount = Cardinality(some) /\ row.sum_of_duration = DurationOf(some)
    BY <2>0 DEF CountsAction
  <2>8. new.amount = Cardinality(all) /\ new.sum_of_duration = DurationOf(all)
    BY <1>1, <1>2, <2>6, <2>7
  <2>9. CountsAction(new, all)
    <3> HIDE DEF new, all, d
    <3> QED
      BY <2>0, <2>3, <2>4, <2>5, <2>6, <2>8 DEF CountsAction
  <2> QED
    BY <1>4, <2>1, <2>9 DEF Counts, Add
<1> QED
  BY <1>3, <1>4 DEF Tables

-------------------------------------------------------------------------------
(* What counting some of the events of a batch has made of a table. *)
EventsOfBatch(t, at, some, key) == {e \in some : KeyOf(t, at, e) = key}
HasCounted(t, rows, at, some, table) ==
  /\ table \in TableOf(t)
  /\ DOMAIN table = DOMAIN rows \union {KeyOf(t, at, e) : e \in some}
  /\ \A key \in DOMAIN table \ DOMAIN rows :
       Counts(t, table[key], EventsOfBatch(t, at, some, key))
  /\ \A key \in DOMAIN rows : \A old \in SUBSET (Events \ DOMAIN at) :
       Counts(t, rows[key], old) =>
         Counts(t, table[key], old \union EventsOfBatch(t, at, some, key))

CountOne(t, counts, key, e) ==
  Over([k \in {key} |-> IF k \in DOMAIN counts THEN Add(t, counts[k], e) ELSE New(t, e)],
       counts)
CountTable(t, rows, at) ==
  IF t = "actions" THEN CountActions(rows, at) ELSE CountServices(rows, at)

LEMMA TableIs ==
  ASSUME NEW t \in Tables, NEW table
  PROVE  table \in TableOf(t) <=> /\ table = [key \in DOMAIN table |-> table[key]]
                                  /\ DOMAIN table \subseteq Keys(t)
                                  /\ \A key \in DOMAIN table : table[key] \in Rows(t)
BY DEF TableOf

LEMMA KeysOfBatch ==
  ASSUME NEW t \in Tables, NEW at, NEW e \in DOMAIN at, DOMAIN at \subseteq Events,
         at[e] \in Nat \ {0}
  PROVE  KeyOf(t, at, e) \in Keys(t)
<1>1. <<at[e], e>> \in (Nat \ {0}) \X Events
  OBVIOUS
<1> QED
  BY <1>1 DEF KeyOf, Keys, ActionOf, ServiceOf

LEMMA RowsAreKept ==
  ASSUME NEW t \in Tables, NEW counts \in TableOf(t), NEW key \in Keys(t), NEW e \in Events
  PROVE  CountOne(t, counts, key, e) \in TableOf(t)
<1> DEFINE new == CountOne(t, counts, key, e)
<1>1. /\ DOMAIN new = DOMAIN counts \union {key}
      /\ new = [k \in DOMAIN new |-> new[k]]
      /\ new[key] = IF key \in DOMAIN counts THEN Add(t, counts[key], e) ELSE New(t, e)
      /\ \A k \in DOMAIN counts \ {key} : new[k] = counts[k]
  BY DEF CountOne, Over
<1>2. /\ DOMAIN counts \subseteq Keys(t)
      /\ \A k \in DOMAIN counts : counts[k] \in Rows(t)
  BY TableIs
<1>3. New(t, e) \in Rows(t) /\ \A row \in Rows(t) : Add(t, row, e) \in Rows(t)
  <2>1. Data[e].duration \in Nat /\ Data[e].success \in BOOLEAN /\ Data[e].fail \in BOOLEAN
    BY StatisticsAssumption
  <2>2. CASE t = "actions"
    BY <2>1, <2>2 DEF New, Add, NewItem, update, One, Rows
  <2>3. CASE t = "services"
    BY <2>1, <2>3 DEF New, Add, NewService, inc, Rows
  <2> QED
    BY <2>2, <2>3 DEF Tables
<1> HIDE DEF new
<1>4. \A k \in DOMAIN new : new[k] \in Rows(t)
  BY <1>1, <1>2, <1>3
<1>5. new \in TableOf(t)
  BY <1>1, <1>2, <1>4, TableIs
<1> QED
  BY <1>5 DEF new

(* One event more is counted. *)
LEMMA CountedOneMore ==
  ASSUME NEW t \in Tables, NEW rows, NEW at, DOMAIN at \subseteq Events,
         \A e \in DOMAIN at : at[e] \in Nat \ {0},
         NEW some \in SUBSET DOMAIN at, NEW e \in some, NEW table,
         HasCounted(t, rows, at, some \ {e}, table)
  PROVE  HasCounted(t, rows, at, some, CountOne(t, table, KeyOf(t, at, e), e))
<1> DEFINE key == KeyOf(t, at, e)
           new == CountOne(t, table, key, e)
           less == some \ {e}
           Part(s, k) == EventsOfBatch(t, at, s, k)
<1>0. e \in Events /\ key \in Keys(t)
  BY KeysOfBatch
<1>1. /\ DOMAIN new = DOMAIN table \union {key}
      /\ new[key] = IF key \in DOMAIN table THEN Add(t, table[key], e) ELSE New(t, e)
      /\ \A k \in DOMAIN table \ {key} : new[k] = table[k]
  BY DEF CountOne, Over
<1>2. new \in TableOf(t)
  BY <1>0, RowsAreKept DEF HasCounted
<1>3. DOMAIN new = DOMAIN rows \union {KeyOf(t, at, f) : f \in some}
  BY <1>1 DEF HasCounted
<1>4. /\ Part(some, key) = Part(less, key) \union {e} /\ e \notin Part(less, key)
      /\ Part(less, key) \subseteq Events
      /\ \A k : k # key => Part(some, k) = Part(less, k)
  BY DEF EventsOfBatch
<1>5. key \notin DOMAIN table => Part(less, key) = {} /\ key \notin DOMAIN rows
  BY DEF EventsOfBatch, HasCounted
<1> HIDE DEF new, key, Part, less
<1>6. ASSUME NEW k \in DOMAIN new \ DOMAIN rows PROVE Counts(t, new[k], Part(some, k))
  <2>1. k \in DOMAIN table => Counts(t, table[k], Part(less, k))
    BY <1>6 DEF HasCounted, less, Part
  <2>2. CASE k # key
    BY <1>1, <1>4, <2>1, <2>2
  <2>3. CASE k = key /\ key \in DOMAIN table
    <3>1. Counts(t, table[key], Part(less, key))
      BY <2>1, <2>3
    <3>2. Counts(t, Add(t, table[key], e), Part(less, key) \union {e})
      BY <1>0, <1>4, <3>1, AddCounts
    <3> QED
      BY <1>1, <1>4, <2>3, <3>2
  <2>4. CASE k = key /\ key \notin DOMAIN table
    <3>1. Counts(t, New(t, e), {e})
      BY <1>0, NewCounts
    <3>2. Part(some, key) = {e}
      BY <1>4, <1>5, <2>4
    <3> QED
      BY <1>1, <2>4, <3>1, <3>2
  <2> QED
    BY <2>2, <2>3, <2>4
<1>7. ASSUME NEW k \in DOMAIN rows, NEW old \in SUBSET (Events \ DOMAIN at),
             Counts(t, rows[k], old)
      PROVE  Counts(t, new[k], old \union Part(some, k))
  <2>1. k \in DOMAIN table /\ Counts(t, table[k], old \union Part(less, k))
    BY <1>7 DEF HasCounted, less, Part
  <2>2. CASE k # key
    BY <1>1, <1>4, <2>1, <2>2
  <2>3. CASE k = key
    <3>1. Counts(t, table[key], old \union Part(less, key))
      BY <2>1, <2>3
    <3>2. /\ old \union Part(less, key) \in SUBSET Events
          /\ e \in Events \ (old \union Part(less, key))
      BY <1>0, <1>4
    <3>3. Counts(t, Add(t, table[key], e), (old \union Part(less, key)) \union {e})
      BY <3>1, <3>2, AddCounts
    <3>4. (old \union Part(less, key)) \union {e} = old \union Part(some, key)
      BY <1>4
    <3>5. Counts(t, Add(t, table[key], e), old \union Part(some, key))
      BY <3>3, <3>4, Zenon
    <3>6. new[k] = Add(t, table[key], e)
      BY <1>1, <2>1, <2>3
    <3> QED
      BY <2>3, <3>5, <3>6
  <2> QED
    BY <2>2, <2>3
<1>8. HasCounted(t, rows, at, some, new)
  BY <1>2, <1>3, <1>6, <1>7 DEF HasCounted, Part
<1> QED
  BY <1>8 DEF new, key

(* The pass counts all of its batch. *)
LEMMA CountsTheBatch ==
  ASSUME NEW t \in Tables, NEW rows \in TableOf(t), NEW at, DOMAIN at \subseteq Events,
         \A e \in DOMAIN at : at[e] \in Nat \ {0}
  PROVE  HasCounted(t, rows, at, DOMAIN at, CountTable(t, rows, at))
<1> DEFINE B == DOMAIN at
           IsCount(f) == f = [s \in SUBSET B |->
                                IF s = {} THEN rows
                                ELSE CountOne(t, f[s \ {AnyOf(s)}], KeyOf(t, at, AnyOf(s)), AnyOf(s))]
           pick == [s \in SUBSET B |-> AnyOf(s)]
           op == [xn \in B \X TableOf(t) |-> CountOne(t, xn[2], KeyOf(t, at, xn[1]), xn[1])]
           iter == CHOOSE f : IsCount(f)
<1>0. IsFiniteSet(B) /\ \A s \in SUBSET B : s # {} => AnyOf(s) \in s
  BY StatisticsAssumption, FS_Subset DEF AnyOf
<1>1. \E f : IsCount(f)
  <2>1. op \in [B \X TableOf(t) -> TableOf(t)]
    BY KeysOfBatch, RowsAreKept
  <2>2. \A s \in SUBSET B : s # {} => pick[s] \in s
    BY <1>0
  <2>3. PICK f : IsFold(f, B, TableOf(t), rows, pick, op)
    <3> HIDE DEF op, pick, B
    <3> QED
      BY <1>0, <2>1, <2>2, FoldExists
  <2>4. \A s \in SUBSET B : s # {} =>
          op[<<pick[s], f[s \ {pick[s]}]>>]
            = CountOne(t, f[s \ {AnyOf(s)}], KeyOf(t, at, AnyOf(s)), AnyOf(s))
    BY <1>0, <2>3 DEF IsFold
  <2> HIDE DEF op, pick
  <2>5. f = [s \in SUBSET B |-> IF s = {} THEN rows ELSE op[<<pick[s], f[s \ {pick[s]}]>>]]
    BY <2>3 DEF IsFold
  <2>6. IsCount(f)
    BY <2>4, <2>5
  <2> QED
    BY <2>6
<1>2. IsCount(iter)
  <2> HIDE DEF IsCount
  <2> QED
    BY <1>1
<1>3. CountTable(t, rows, at) = iter[B]
  <2>1. CASE t = "actions"
    BY <2>1 DEF CountTable, CountActions, CountAction, FoldSet, MapThenFoldSet, AnyOf, CountOne, KeyOf, Add, New
  <2>2. CASE t = "services"
    BY <2>2 DEF CountTable, CountServices, CountService, FoldSet, MapThenFoldSet, AnyOf, CountOne, KeyOf, Add, New
  <2> QED
    BY <2>1, <2>2 DEF Tables
<1> HIDE DEF iter
<1>4. \A s \in SUBSET B :
        iter[s] = IF s = {} THEN rows
                  ELSE CountOne(t, iter[s \ {AnyOf(s)}], KeyOf(t, at, AnyOf(s)), AnyOf(s))
  BY <1>2
<1> DEFINE Good == {s \in SUBSET B : HasCounted(t, rows, at, s, iter[s])}
<1>5. Good = SUBSET B
  <2>1. {} \in Good
    <3>1. iter[{}] = rows
      BY <1>4
    <3>2. HasCounted(t, rows, at, {}, rows)
      BY DEF HasCounted, EventsOfBatch
    <3> QED
      BY <3>1, <3>2
  <2>2. ASSUME NEW s \in SUBSET B, s # {}, \A x \in s : s \ {x} \in Good
        PROVE  s \in Good
    <3>1. AnyOf(s) \in s /\ HasCounted(t, rows, at, s \ {AnyOf(s)}, iter[s \ {AnyOf(s)}])
      BY <1>0, <2>2
    <3>2. HasCounted(t, rows, at, s, CountOne(t, iter[s \ {AnyOf(s)}], KeyOf(t, at, AnyOf(s)), AnyOf(s)))
      BY <3>1, CountedOneMore
    <3> QED
      BY <1>4, <2>2, <3>2
  <2> HIDE DEF Good, B
  <2>3. Good \subseteq SUBSET B
    BY DEF Good
  <2> QED
    BY <1>0, <2>1, <2>2, <2>3, SubsetInd
<1> QED
  BY <1>3, <1>5

-------------------------------------------------------------------------------
(* What a table is right about, where `at` has the hour of each event: each *)
(* row counts some of the events of its key, and none but these.  A row is  *)
(* whole if it counts all of them.                                          *)
EventsAt(at, t, key) == {e \in Events : KeyOf(t, at, e) = key}
RightTable(at, t, rows) ==
  /\ rows \in TableOf(t)
  /\ \A key \in DOMAIN rows :
       \E some \in SUBSET EventsAt(at, t, key) : Counts(t, rows[key], some)
IsWhole(at, t, rows, key) ==
  key \in DOMAIN rows /\ Counts(t, rows[key], EventsAt(at, t, key))

LEMMA KeyParts ==
  ASSUME NEW t \in Tables
  PROVE  /\ \A key \in Keys(t) : key[1] \in Nat \ {0}
         /\ \A at, e : KeyOf(t, at, e)[1] = at[e]
         /\ \A at, e : e \in Events /\ at[e] \in Nat \ {0} => KeyOf(t, at, e) \in Keys(t)
<1>1. \A key \in Keys(t) : key[1] \in Nat \ {0}
  BY DEF Keys
<1>2. \A at, e : KeyOf(t, at, e)[1] = at[e]
  BY DEF KeyOf, ActionOf, ServiceOf
<1>3. ASSUME NEW at, NEW e \in Events, at[e] \in Nat \ {0} PROVE KeyOf(t, at, e) \in Keys(t)
  <2>1. <<at[e], e>> \in (Nat \ {0}) \X Events
    BY <1>3
  <2> QED
    BY <2>1 DEF KeyOf, Keys, ActionOf, ServiceOf
<1> QED
  BY <1>1, <1>2, <1>3

LEMMA RightNone ==
  ASSUME NEW at, NEW t \in Tables
  PROVE  DOMAIN <<>> = {} /\ <<>> \in TableOf(t) /\ RightTable(at, t, <<>>)
<1>1. DOMAIN <<>> = {}
  OBVIOUS
<1>2. <<>> \in [{} -> Rows(t)]
  OBVIOUS
<1>3. <<>> \in TableOf(t)
  BY <1>2 DEF TableOf
<1> QED
  BY <1>1, <1>3 DEF RightTable

LEMMA RightOver ==
  ASSUME NEW at, NEW t \in Tables, NEW r, NEW s, RightTable(at, t, r), RightTable(at, t, s)
  PROVE  RightTable(at, t, Over(r, s))
<1> DEFINE new == Over(r, s)
<1>1. /\ new = [key \in DOMAIN new |-> new[key]]
      /\ DOMAIN new = DOMAIN r \union DOMAIN s
      /\ \A key \in DOMAIN new : new[key] = IF key \in DOMAIN r THEN r[key] ELSE s[key]
  BY DEF Over
<1>2. /\ DOMAIN r \subseteq Keys(t) /\ DOMAIN s \subseteq Keys(t)
      /\ \A key \in DOMAIN r : r[key] \in Rows(t)
      /\ \A key \in DOMAIN s : s[key] \in Rows(t)
  BY TableIs DEF RightTable
<1> HIDE DEF new
<1>3. new \in TableOf(t)
  BY <1>1, <1>2, TableIs
<1>4. RightTable(at, t, new)
  BY <1>1, <1>3 DEF RightTable
<1> QED
  BY <1>4 DEF new

LEMMA RightPart ==
  ASSUME NEW at, NEW t \in Tables, NEW rows, RightTable(at, t, rows), NEW some \in SUBSET DOMAIN rows
  PROVE  /\ RightTable(at, t, Restrict(rows, some))
         /\ DOMAIN Restrict(rows, some) = some
         /\ \A key \in some : Restrict(rows, some)[key] = rows[key]
<1> DEFINE new == Restrict(rows, some)
<1>1. /\ new = [key \in DOMAIN new |-> new[key]]
      /\ DOMAIN new = some
      /\ \A key \in some : new[key] = rows[key]
  BY DEF Restrict
<1>2. DOMAIN rows \subseteq Keys(t) /\ \A key \in DOMAIN rows : rows[key] \in Rows(t)
  BY TableIs DEF RightTable
<1> HIDE DEF new
<1>3. new \in TableOf(t)
  BY <1>1, <1>2, TableIs
<1>4. RightTable(at, t, new)
  BY <1>1, <1>3 DEF RightTable
<1> QED
  BY <1>1, <1>4 DEF new

(* No row counts more than the events of its key, and one which counts as   *)
(* many counts them all.                                                    *)
LEMMA AtMostAll ==
  ASSUME NEW at, NEW t \in Tables, NEW rows, RightTable(at, t, rows), NEW key \in DOMAIN rows
  PROVE  /\ key \in Keys(t) /\ EventsAt(at, t, key) # {}
         /\ rows[key].amount \in Nat /\ Cardinality(EventsAt(at, t, key)) \in Nat
         /\ rows[key].amount <= Cardinality(EventsAt(at, t, key))
         /\ IsWhole(at, t, rows, key) <=> rows[key].amount >= Cardinality(EventsAt(at, t, key))
<1> DEFINE all == EventsAt(at, t, key)
<1>0. all \in SUBSET Events
  BY DEF EventsAt
<1>1. PICK some \in SUBSET all : Counts(t, rows[key], some)
  BY DEF RightTable
<1> HIDE DEF all
<1>2. rows[key].amount = Cardinality(some) /\ some # {}
  <2>1. some \in SUBSET Events
    BY <1>0
  <2> QED
    BY <1>1, <2>1, CountsIsExact DEF Counts
<1>3. /\ IsFiniteSet(all) /\ Cardinality(all) \in Nat /\ Cardinality(some) \in Nat
      /\ Cardinality(some) <= Cardinality(all)
      /\ Cardinality(some) = Cardinality(all) => some = all
  <2>1. IsFiniteSet(all) /\ Cardinality(all) \in Nat /\ IsFiniteSet(some) /\ Cardinality(some) \in Nat
    BY <1>0, DurationsAreNat
  <2> QED
    BY <2>1, FS_Subset
<1>4. key \in Keys(t)
  BY TableIs DEF RightTable
<1>5. Counts(t, rows[key], all) => rows[key].amount = Cardinality(all)
  BY <1>0, CountsIsExact
<1>6. rows[key].amount >= Cardinality(all) => Counts(t, rows[key], all)
  BY <1>1, <1>2, <1>3
<1> QED
  BY <1>0, <1>1, <1>2, <1>3, <1>4, <1>5, <1>6 DEF IsWhole, all

(* Events which are counted only add to what the keys have. *)
LEMMA RightStays ==
  ASSUME NEW at, NEW new, NEW t \in Tables, NEW rows, RightTable(at, t, rows),
         \A e \in Events : at[e] # 0 => new[e] = at[e]
  PROVE  RightTable(new, t, rows)
<1>1. \A key \in Keys(t) : EventsAt(at, t, key) \subseteq EventsAt(new, t, key)
  <2> SUFFICES ASSUME NEW key \in Keys(t), NEW e \in Events, KeyOf(t, at, e) = key
               PROVE  KeyOf(t, new, e) = key
    BY DEF EventsAt
  <2>1. at[e] # 0
    BY KeyParts
  <2> QED
    BY <2>1 DEF KeyOf, ActionOf, ServiceOf
<1>2. DOMAIN rows \subseteq Keys(t)
  BY TableIs DEF RightTable
<1> QED
  BY <1>1, <1>2 DEF RightTable

-------------------------------------------------------------------------------
(* The inductive invariant.  The variables have their types, and a save has *)
(* what it has still to write.                                              *)
Both == [actions : TableOf("actions"), services : TableOf("services")]
TypesRight ==
  /\ now \in Nat \ {0} /\ process \in {"up", "stopping", "down"}
  /\ counted \in [Events -> Nat]
  /\ cache \in Both /\ to_persist \in Both /\ db \in Both
  /\ saves \in [Savers -> [at : {"idle", "actions", "services", "done"}, rows : Both]]
SavesRight ==
  /\ \A saver \in Savers :
       /\ saves[saver].at \in {"idle", "done"} => saves[saver].rows = NoRows
       /\ saves[saver].at = "services" => saves[saver].rows.actions = <<>>
  /\ process = "up" => saves["stop"].at = "idle"
  /\ process = "down" =>
       /\ cache = NoRows /\ to_persist = NoRows /\ reader = NotReading
       /\ \A saver \in Savers : saves[saver] = NotSaving

(* Every row, wherever it is, counts events of its key and no others. *)
Copies(t) == {db[t], to_persist[t], saves["stop"].rows[t], saves["timer"].rows[t]}
TablesRight ==
  \A t \in Tables : \A rows \in Copies(t) \union {cache[t]} : RightTable(counted, t, rows)

(* An hour in memory has all of its rows there and each is whole. *)
CacheWhole ==
  \A hour \in Hours(cache) \ spoiled : \A t \in Tables : \A e \in Events :
    counted[e] = hour => IsWhole(counted, t, cache[t], KeyOf(t, counted, e))

(* The row of an event is whole in a database, or on its way to it. *)
OneHasIt ==
  \A t \in Tables : \A e \in Events : counted[e] \notin spoiled \union {0} =>
    \E rows \in Copies(t) : IsWhole(counted, t, rows, KeyOf(t, counted, e))

(* While only the timer saves, what is written later is newer. *)
Older(rows, others) ==
  \A key \in DOMAIN rows \intersect DOMAIN others :
    key[1] \notin spoiled => rows[key].amount <= others[key].amount
NewerComesLater ==
  process = "up" => \A t \in Tables :
    /\ Older(db[t], saves["timer"].rows[t]) /\ Older(db[t], to_persist[t])
    /\ Older(saves["timer"].rows[t], to_persist[t])

(* What a screen asks for, and rows which have what was counted before it   *)
(* asked.                                                                   *)
IsAsked(q, e) == q.of = "services" \/ Data[e].service = q.service
HasAll(at, rows, q, before) ==
  \A e \in before : IsAsked(q, e) =>
    LET key == KeyOf(q.of, at, e)
    IN  /\ key \in DOMAIN rows
        /\ rows[key].amount >= Cardinality(EventsAt(at, q.of, key) \intersect before)
ReaderRight ==
  /\ reader.at \in {"idle", "database", "answered"}
  /\ reader.at # "idle" => reader.query \in Queries /\ reader.before \subseteq Before(reader.query)
  /\ reader.at = "database" /\ reader.query.hour \notin spoiled /\ ~reader.behind =>
       HasAll(counted, db[reader.query.of], reader.query, reader.before)
  /\ reader.at = "answered" =>
       /\ RightTable(counted, reader.query.of, reader.rows)
       /\ \A key \in DOMAIN reader.rows :
            /\ key[1] = reader.query.hour
            /\ reader.query.of = "actions" => key[2] = reader.query.service
       /\ reader.query.hour \notin spoiled /\ ~reader.behind =>
            HasAll(counted, reader.rows, reader.query, reader.before)

StatisticsInv ==
  /\ TypesRight /\ SavesRight /\ TablesRight
  /\ CacheWhole /\ OneHasIt /\ NewerComesLater /\ ReaderRight

-------------------------------------------------------------------------------
(* A pass. *)
LEMMA TablesHave ==
  ASSUME TypesRight
  PROVE  /\ \A t \in Tables : /\ cache[t] \in TableOf(t) /\ to_persist[t] \in TableOf(t)
                              /\ db[t] \in TableOf(t)
         /\ \A saver \in Savers :
              saves[saver].rows \in Both /\ \A t \in Tables : saves[saver].rows[t] \in TableOf(t)
         /\ NoRows \in Both /\ \A t \in Tables : NoRows[t] = <<>>
<1>1. \A tables \in Both : \A t \in Tables : tables[t] \in TableOf(t)
  BY DEF Both, Tables
<1>2. \A saver \in Savers : saves[saver].rows \in Both
  BY DEF TypesRight
<1>3. <<>> \in TableOf("actions") /\ <<>> \in TableOf("services")
  BY RightNone DEF Tables
<1> QED
  BY <1>1, <1>2, <1>3 DEF TypesRight, Both, NoRows, Tables

(* What a pass does, of either table. *)
CountedNow(at) ==
  /\ DOMAIN at \subseteq Events
  /\ \A e \in DOMAIN at : at[e] \in Nat \ {0} /\ counted[e] = 0
  /\ Count(at)

LEMMA BatchIsOnTime ==
  ASSUME TypesRight, NEW batch \in Batches, Count([e \in batch |-> HourOf(e)])
  PROVE  CountedNow([e \in batch |-> HourOf(e)])
<1>1. \A e \in batch : e \in Events /\ counted[e] = 0
  BY DEF Batches, OnTime
<1>2. \A e \in batch : HourOf(e) \in Nat \ {0}
  BY <1>1, StatisticsAssumption, RetentionAssumption DEF TypesRight, HourOf, time_to_keep
<1> QED
  BY <1>1, <1>2 DEF CountedNow

LEMMA CountTypes ==
  ASSUME TypesRight, NEW at, CountedNow(at)
  PROVE  /\ counted' \in [Events -> Nat]
         /\ \A e \in Events : counted'[e] = IF e \in DOMAIN at THEN at[e] ELSE counted[e]
         /\ \A e \in Events : counted[e] # 0 => counted'[e] = counted[e]
         /\ \A t \in Tables : \A key \in Keys(t) :
              /\ EventsAt(counted', t, key) =
                   EventsAt(counted, t, key) \union EventsOfBatch(t, at, DOMAIN at, key)
              /\ EventsAt(counted, t, key) \subseteq Events \ DOMAIN at
         /\ \A t \in Tables : \A e \in DOMAIN at : KeyOf(t, counted', e) = KeyOf(t, at, e)
<1>1. counted' = Over(at, counted)
  BY DEF CountedNow, Count
<1>2. /\ counted' \in [Events -> Nat]
      /\ \A e \in Events : counted'[e] = IF e \in DOMAIN at THEN at[e] ELSE counted[e]
  BY <1>1 DEF CountedNow, TypesRight, Over
<1>3. \A e \in Events : counted[e] # 0 => counted'[e] = counted[e]
  BY <1>2 DEF CountedNow
<1>4. \A t \in Tables : \A e \in Events :
        KeyOf(t, counted', e) = IF e \in DOMAIN at THEN KeyOf(t, at, e) ELSE KeyOf(t, counted, e)
  BY <1>2 DEF KeyOf, ActionOf, ServiceOf
<1>5. ASSUME NEW t \in Tables, NEW key \in Keys(t)
      PROVE  /\ EventsAt(counted', t, key) =
                  EventsAt(counted, t, key) \union EventsOfBatch(t, at, DOMAIN at, key)
             /\ EventsAt(counted, t, key) \subseteq Events \ DOMAIN at
  <2>1. \A e \in DOMAIN at : KeyOf(t, counted, e) # key
    BY KeyParts DEF CountedNow
  <2> QED
    BY <1>4, <2>1 DEF EventsAt, EventsOfBatch, CountedNow
<1> QED
  BY <1>2, <1>3, <1>4, <1>5 DEF CountedNow

LEMMA CountTables ==
  ASSUME TypesRight, NEW at, CountedNow(at), NEW t \in Tables
  PROVE  /\ cache'[t] = CountTable(t, cache[t], at)
         /\ HasCounted(t, cache[t], at, DOMAIN at, cache'[t])
         /\ to_persist'[t] =
              Over(Restrict(cache'[t], {KeyOf(t, at, e) : e \in DOMAIN at}), to_persist[t])
         /\ cache' = [actions |-> cache'["actions"], services |-> cache'["services"]]
         /\ to_persist' = [actions |-> to_persist'["actions"], services |-> to_persist'["services"]]
<1>1. /\ cache' = [actions |-> CountActions(cache.actions, at),
                   services |-> CountServices(cache.services, at)]
      /\ to_persist' =
           [actions |-> set_to_persist(to_persist.actions,
                          Restrict(cache'.actions, {ActionOf(at, e) : e \in DOMAIN at})),
            services |-> engage_persist(to_persist.services,
                          Restrict(cache'.services, {ServiceOf(at, e) : e \in DOMAIN at}))]
  BY DEF CountedNow, Count
<1>2. cache'[t] = CountTable(t, cache[t], at)
  BY <1>1 DEF CountTable, Tables
<1>3. HasCounted(t, cache[t], at, DOMAIN at, CountTable(t, cache[t], at))
  <2>1. cache[t] \in TableOf(t)
    BY TablesHave
  <2> QED
    BY <2>1, CountsTheBatch DEF CountedNow
<1>4. CASE t = "actions"
  <2>1. {KeyOf(t, at, e) : e \in DOMAIN at} = {ActionOf(at, e) : e \in DOMAIN at}
    BY <1>4 DEF KeyOf
  <2>2. to_persist'[t] = Over(Restrict(cache'[t], {ActionOf(at, e) : e \in DOMAIN at}), to_persist[t])
    BY <1>1, <1>4 DEF set_to_persist
  <2> QED
    BY <1>1, <1>2, <1>3, <2>1, <2>2
<1>5. CASE t = "services"
  <2>1. {KeyOf(t, at, e) : e \in DOMAIN at} = {ServiceOf(at, e) : e \in DOMAIN at}
    BY <1>5 DEF KeyOf
  <2>2. to_persist'[t] = Over(Restrict(cache'[t], {ServiceOf(at, e) : e \in DOMAIN at}), to_persist[t])
    BY <1>1, <1>5 DEF engage_persist
  <2> QED
    BY <1>1, <1>2, <1>3, <2>1, <2>2
<1> QED
  BY <1>4, <1>5 DEF Tables

(* Rows which were whole are, and new ones of keys without an event are. *)
LEMMA CountKeepsRight ==
  ASSUME TypesRight, TablesRight, NEW at, CountedNow(at), NEW t \in Tables
  PROVE  /\ RightTable(counted', t, cache'[t])
         /\ RightTable(counted', t, to_persist'[t])
         /\ \A key \in Keys(t) :
              IsWhole(counted, t, cache[t], key) => IsWhole(counted', t, cache'[t], key)
         /\ \A key \in Keys(t) :
              key \in DOMAIN cache'[t] /\ EventsAt(counted, t, key) = {}
                => IsWhole(counted', t, cache'[t], key)
<1> DEFINE new == cache'[t]
           Old(key) == EventsAt(counted, t, key)
           Part(key) == EventsOfBatch(t, at, DOMAIN at, key)
<1>1. HasCounted(t, cache[t], at, DOMAIN at, new)
  BY CountTables
<1>2. \A key \in Keys(t) : /\ EventsAt(counted', t, key) = Old(key) \union Part(key)
                           /\ Old(key) \subseteq Events \ DOMAIN at
  BY CountTypes
<1>3. RightTable(counted, t, cache[t]) /\ RightTable(counted, t, to_persist[t])
  BY DEF TablesRight, Copies
<1>4. new \in TableOf(t) /\ DOMAIN new \subseteq Keys(t) /\ DOMAIN cache[t] \subseteq DOMAIN new
  BY <1>1, TableIs DEF HasCounted
<1> HIDE DEF new, Old, Part
<1>5. \A key \in DOMAIN new \ DOMAIN cache[t] : Counts(t, new[key], Part(key))
  BY <1>1 DEF HasCounted, Part
<1>6. \A key \in DOMAIN cache[t] : \A old \in SUBSET Old(key) :
        Counts(t, cache[t][key], old) => Counts(t, new[key], old \union Part(key))
  <2> SUFFICES ASSUME NEW key \in DOMAIN cache[t], NEW old \in SUBSET Old(key),
                      Counts(t, cache[t][key], old)
               PROVE  Counts(t, new[key], old \union Part(key))
    OBVIOUS
  <2>1. old \in SUBSET (Events \ DOMAIN at)
    BY <1>2, <1>4
  <2> QED
    BY <1>1, <2>1 DEF HasCounted, Part
<1>7. RightTable(counted', t, new)
  <2>1. ASSUME NEW key \in DOMAIN new
        PROVE  \E some \in SUBSET EventsAt(counted', t, key) : Counts(t, new[key], some)
    <3>0. key \in Keys(t) /\ EventsAt(counted', t, key) = Old(key) \union Part(key)
      BY <1>2, <1>4
    <3>1. CASE key \in DOMAIN cache[t]
      <4>1. PICK old \in SUBSET Old(key) : Counts(t, cache[t][key], old)
        BY <1>3, <3>1 DEF RightTable, Old
      <4>2. Counts(t, new[key], old \union Part(key))
        BY <1>6, <3>1, <4>1
      <4>3. old \union Part(key) \in SUBSET EventsAt(counted', t, key)
        BY <3>0
      <4> QED
        BY <4>2, <4>3
    <3>2. CASE key \notin DOMAIN cache[t]
      BY <1>5, <3>0, <3>2
    <3> QED
      BY <3>1, <3>2
  <2> QED
    BY <1>4, <2>1 DEF RightTable
<1>8. RightTable(counted', t, to_persist'[t])
  <2> DEFINE some == {KeyOf(t, at, e) : e \in DOMAIN at}
  <2>1. some \in SUBSET DOMAIN new
    BY <1>1 DEF HasCounted
  <2>2. to_persist'[t] = Over(Restrict(new, some), to_persist[t])
    BY CountTables DEF new
  <2> HIDE DEF some
  <2>3. RightTable(counted', t, Restrict(new, some))
    BY <1>7, <2>1, RightPart
  <2>4. RightTable(counted', t, to_persist[t])
    <3>1. \A e \in Events : counted[e] # 0 => counted'[e] = counted[e]
      BY CountTypes
    <3> QED
      BY <1>3, <3>1, RightStays
  <2> QED
    BY <2>2, <2>3, <2>4, RightOver
<1>9. ASSUME NEW key \in Keys(t), IsWhole(counted, t, cache[t], key)
      PROVE  IsWhole(counted', t, new, key)
  <2>1. key \in DOMAIN cache[t] /\ Counts(t, cache[t][key], Old(key))
    BY <1>9 DEF IsWhole, Old
  <2>2. Counts(t, new[key], Old(key) \union Part(key)) /\ key \in DOMAIN new
    BY <1>4, <1>6, <2>1
  <2> QED
    BY <1>2, <2>2 DEF IsWhole
<1>10. ASSUME NEW key \in Keys(t), key \in DOMAIN new, Old(key) = {}
       PROVE  IsWhole(counted', t, new, key)
  <2>1. key \notin DOMAIN cache[t]
    BY <1>3, <1>10, AtMostAll DEF Old
  <2>2. Counts(t, new[key], Part(key)) /\ EventsAt(counted', t, key) = Part(key)
    BY <1>2, <1>5, <1>10, <2>1
  <2> QED
    BY <1>10, <2>2 DEF IsWhole
<1> QED
  BY <1>7, <1>8, <1>9, <1>10 DEF new, Old

LEMMA HoursAre ==
  ASSUME NEW tables
  PROVE  \A hour : hour \in Hours(tables) <=>
           \E t \in Tables : \E key \in DOMAIN tables[t] : key[1] = hour
BY DEF Hours, HoursOf, Tables

LEMMA CountCache ==
  ASSUME TypesRight, TablesRight, CacheWhole, NEW at, CountedNow(at)
  PROVE  CacheWhole'
<1> SUFFICES ASSUME NEW hour \in Hours(cache'), hour \notin spoiled',
                    NEW t \in Tables, NEW e \in Events, counted'[e] = hour
             PROVE  IsWhole(counted', t, cache'[t], KeyOf(t, counted', e))
  BY DEF CacheWhole
<1> DEFINE key == KeyOf(t, counted', e)
<1>1. spoiled' = spoiled \union FromNothing(at)
  BY DEF CountedNow, Count
<1>2. \A u \in Tables : DOMAIN cache'[u] = DOMAIN cache[u] \union {KeyOf(u, at, f) : f \in DOMAIN at}
  BY CountTables DEF HasCounted
<1>3. hour \in Hours(cache) \/ hour \in Range(at)
  <2>0. PICK u \in Tables : \E k \in DOMAIN cache'[u] : k[1] = hour
    BY HoursAre
  <2>1. PICK k \in DOMAIN cache'[u] : k[1] = hour
    BY <2>0
  <2>2. CASE k \in DOMAIN cache[u]
    BY <2>1, <2>2, HoursAre
  <2>3. CASE k \notin DOMAIN cache[u]
    <3>1. PICK f \in DOMAIN at : k = KeyOf(u, at, f)
      BY <1>2, <2>3
    <3>2. at[f] = hour
      BY <2>1, <3>1, KeyParts
    <3> QED
      BY <3>2 DEF Range
  <2> QED
    BY <2>2, <2>3
<1>4. hour \in Nat \ {0}
  <2>1. \A f \in DOMAIN at : at[f] \in Nat \ {0}
    BY DEF CountedNow
  <2>2. hour \in Hours(cache) => hour \in Nat \ {0}
    <3>1. ASSUME NEW u \in Tables, NEW k \in DOMAIN cache[u] PROVE k[1] \in Nat \ {0}
      <4>1. k \in Keys(u)
        BY TablesHave, TableIs
      <4> QED
        BY <4>1, KeyParts
    <3> QED
      BY <3>1, HoursAre
  <2> QED
    BY <1>3, <2>1, <2>2 DEF Range
<1>5. key \in Keys(t)
  BY <1>4, KeyParts
<1>6. CASE EventsAt(counted, t, key) # {}
  <2>1. PICK f \in Events : KeyOf(t, counted, f) = key
    BY <1>6 DEF EventsAt
  <2>2. counted[f] = hour
    BY <2>1, KeyParts
  <2>3. hour \in Hours(cache)
    <3> SUFFICES ASSUME hour \notin Hours(cache) PROVE FALSE
      OBVIOUS
    <3>1. hour \in Range(at)
      BY <1>3
    <3>2. hour \notin HoursOf(cache.actions)
      BY DEF Hours
    <3> QED
      BY <1>1, <2>2, <3>1, <3>2 DEF FromNothing
  <2>4. IsWhole(counted, t, cache[t], key)
    BY <1>1, <2>1, <2>2, <2>3 DEF CacheWhole
  <2> QED
    BY <1>5, <2>4, CountKeepsRight
<1>7. CASE EventsAt(counted, t, key) = {}
  <2>1. e \in DOMAIN at /\ KeyOf(t, at, e) = key
    <3>1. e \in EventsAt(counted', t, key)
      BY DEF EventsAt
    <3>2. e \in EventsOfBatch(t, at, DOMAIN at, key)
      BY <1>5, <1>7, <3>1, CountTypes
    <3> QED
      BY <3>2 DEF EventsOfBatch
  <2>2. key \in DOMAIN cache'[t]
    BY <1>2, <2>1
  <2> QED
    BY <1>5, <1>7, <2>2, CountKeepsRight
<1> QED
  BY <1>6, <1>7

(* What the batch changed waits to be written as it is in memory. *)
LEMMA CountWaits ==
  ASSUME TypesRight, TablesRight, CacheWhole, NEW at, CountedNow(at), NEW t \in Tables,
         NEW key \in Keys(t), key[1] \notin spoiled'
  PROVE  /\ key \in {KeyOf(t, at, e) : e \in DOMAIN at} =>
              IsWhole(counted', t, to_persist'[t], key)
         /\ key \notin {KeyOf(t, at, e) : e \in DOMAIN at} =>
              /\ EventsAt(counted', t, key) = EventsAt(counted, t, key)
              /\ key \in DOMAIN to_persist'[t] <=> key \in DOMAIN to_persist[t]
              /\ to_persist'[t][key] = to_persist[t][key] \/ key \notin DOMAIN to_persist[t]
<1> DEFINE some == {KeyOf(t, at, e) : e \in DOMAIN at}
<1>1. to_persist'[t] = Over(Restrict(cache'[t], some), to_persist[t])
  BY CountTables
<1>2. ASSUME key \in some PROVE IsWhole(counted', t, to_persist'[t], key)
  <2>1. PICK e \in DOMAIN at : key = KeyOf(t, at, e)
    BY <1>2
  <2>2. e \in Events /\ KeyOf(t, counted', e) = key /\ counted'[e] = key[1]
    BY <2>1, CountTypes, KeyParts DEF CountedNow
  <2>3. key \in DOMAIN cache'[t]
    <3>1. DOMAIN cache'[t] = DOMAIN cache[t] \union {KeyOf(t, at, f) : f \in DOMAIN at}
      BY CountTables DEF HasCounted
    <3> QED
      BY <2>1, <3>1
  <2>4. key[1] \in Hours(cache')
    BY <2>3, HoursAre
  <2>5. IsWhole(counted', t, cache'[t], key)
    BY <2>2, <2>4, CountCache DEF CacheWhole
  <2> HIDE DEF some
  <2>6. key \in DOMAIN to_persist'[t] /\ to_persist'[t][key] = cache'[t][key]
    BY <1>1, <1>2 DEF Over, Restrict
  <2> QED
    BY <2>5, <2>6 DEF IsWhole
<1>3. ASSUME key \notin some
      PROVE  /\ EventsAt(counted', t, key) = EventsAt(counted, t, key)
             /\ key \in DOMAIN to_persist'[t] <=> key \in DOMAIN to_persist[t]
             /\ to_persist'[t][key] = to_persist[t][key] \/ key \notin DOMAIN to_persist[t]
  <2>1. EventsOfBatch(t, at, DOMAIN at, key) = {}
    BY <1>3 DEF EventsOfBatch
  <2>2. EventsAt(counted', t, key) = EventsAt(counted, t, key)
    BY <2>1, CountTypes
  <2> HIDE DEF some
  <2> QED
    BY <1>1, <1>3, <2>2 DEF Over, Restrict
<1> QED
  BY <1>2, <1>3

LEMMA CountSaves ==
  ASSUME TypesRight, TablesRight, CacheWhole, OneHasIt, NEW at, CountedNow(at)
  PROVE  OneHasIt'
<1> SUFFICES ASSUME NEW t \in Tables, NEW e \in Events, counted'[e] \notin spoiled' \union {0}
             PROVE  \E rows \in Copies(t)' : IsWhole(counted', t, rows, KeyOf(t, counted', e))
  BY DEF OneHasIt
<1> DEFINE key == KeyOf(t, counted', e)
<1>1. key \in Keys(t) /\ key[1] = counted'[e]
  BY CountTypes, KeyParts
<1>2. CASE key \in {KeyOf(t, at, f) : f \in DOMAIN at}
  BY <1>1, <1>2, CountWaits DEF Copies
<1>3. CASE key \notin {KeyOf(t, at, f) : f \in DOMAIN at}
  <2>1. /\ EventsAt(counted', t, key) = EventsAt(counted, t, key)
        /\ key \in DOMAIN to_persist'[t] <=> key \in DOMAIN to_persist[t]
        /\ to_persist'[t][key] = to_persist[t][key] \/ key \notin DOMAIN to_persist[t]
    BY <1>1, <1>3, CountWaits
  <2>2. e \notin DOMAIN at
    BY <1>3, CountTypes
  <2>3. counted[e] = counted'[e] /\ KeyOf(t, counted, e) = key
    BY <2>2, CountTypes DEF KeyOf, ActionOf, ServiceOf
  <2>4. counted[e] \notin spoiled \union {0}
    BY <2>3 DEF CountedNow, Count
  <2>5. PICK rows \in Copies(t) : IsWhole(counted, t, rows, key)
    BY <2>3, <2>4 DEF OneHasIt
  <2>6. UNCHANGED <<db, saves>>
    BY DEF CountedNow, Count
  <2> HIDE DEF key
  <2>7. CASE rows = to_persist[t]
    <3>1. IsWhole(counted', t, to_persist'[t], key)
      BY <2>1, <2>5, <2>7 DEF IsWhole
    <3> QED
      BY <3>1 DEF Copies, key
  <2>8. CASE rows # to_persist[t]
    <3>1. rows \in Copies(t)'
      BY <2>5, <2>6, <2>8 DEF Copies
    <3>2. IsWhole(counted', t, rows, key)
      BY <2>1, <2>5 DEF IsWhole
    <3> QED
      BY <3>1, <3>2 DEF key
  <2> QED
    BY <2>7, <2>8
<1> QED
  BY <1>2, <1>3

(* The tables which a pass leaves alone stay right. *)
LEMMA CountTablesRight ==
  ASSUME TypesRight, TablesRight, NEW at, CountedNow(at)
  PROVE  TablesRight' /\ \A t \in Tables : \A rows \in Copies(t) : RightTable(counted', t, rows)
<1>1. ASSUME NEW t \in Tables, NEW rows \in Copies(t) PROVE RightTable(counted', t, rows)
  <2>1. RightTable(counted, t, rows)
    BY DEF TablesRight
  <2>2. \A e \in Events : counted[e] # 0 => counted'[e] = counted[e]
    BY CountTypes
  <2> QED
    BY <2>1, <2>2, RightStays
<1>2. \A t \in Tables : Copies(t)' \subseteq Copies(t) \union {to_persist'[t]}
  BY DEF CountedNow, Count, Copies
<1>3. \A t \in Tables : RightTable(counted', t, cache'[t]) /\ RightTable(counted', t, to_persist'[t])
  BY CountKeepsRight
<1> QED
  BY <1>1, <1>2, <1>3 DEF TablesRight

LEMMA CountNewer ==
  ASSUME TypesRight, TablesRight, CacheWhole, NewerComesLater, NEW at, CountedNow(at)
  PROVE  NewerComesLater'
<1>0. process' = process /\ UNCHANGED <<db, saves>> /\ spoiled \subseteq spoiled'
  BY DEF CountedNow, Count
<1> SUFFICES ASSUME process = "up", NEW t \in Tables
             PROVE  /\ Older(db[t], saves["timer"].rows[t])'
                    /\ Older(db[t], to_persist[t])'
                    /\ Older(saves["timer"].rows[t], to_persist[t])'
  BY <1>0 DEF NewerComesLater
<1>1. /\ Older(db[t], saves["timer"].rows[t]) /\ Older(db[t], to_persist[t])
      /\ Older(saves["timer"].rows[t], to_persist[t])
  BY DEF NewerComesLater
<1>2. ASSUME NEW rows \in Copies(t), Older(rows, to_persist[t]),
             NEW key \in DOMAIN rows \intersect DOMAIN to_persist'[t], key[1] \notin spoiled'
      PROVE  rows[key].amount <= to_persist'[t][key].amount
  <2>1. RightTable(counted', t, rows) /\ RightTable(counted', t, to_persist'[t])
    BY CountTablesRight, CountKeepsRight
  <2>2. key \in Keys(t) /\ rows[key].amount <= Cardinality(EventsAt(counted', t, key))
        /\ rows[key].amount \in Nat /\ to_persist'[t][key].amount \in Nat
        /\ Cardinality(EventsAt(counted', t, key)) \in Nat
    BY <1>2, <2>1, AtMostAll
  <2>3. CASE key \in {KeyOf(t, at, e) : e \in DOMAIN at}
    <3>1. IsWhole(counted', t, to_persist'[t], key)
      BY <1>2, <2>2, <2>3, CountWaits
    <3>2. to_persist'[t][key].amount >= Cardinality(EventsAt(counted', t, key))
      BY <1>2, <2>1, <3>1, AtMostAll
    <3> QED
      BY <2>2, <3>2
  <2>4. CASE key \notin {KeyOf(t, at, e) : e \in DOMAIN at}
    <3>1. key \in DOMAIN to_persist[t] /\ to_persist'[t][key] = to_persist[t][key]
      BY <1>2, <2>2, <2>4, CountWaits
    <3> QED
      BY <1>0, <1>2, <3>1 DEF Older
  <2> QED
    BY <2>3, <2>4
<1>3. db[t] \in Copies(t) /\ saves["timer"].rows[t] \in Copies(t)
  BY DEF Copies
<1> QED
  BY <1>0, <1>1, <1>2, <1>3 DEF Older

(* A screen which was answered, or waits for the database. *)
LEMMA QueriesAre ==
  ASSUME NEW q \in Queries
  PROVE  q.of \in Tables /\ q.hour # 0
BY StatisticsAssumption DEF Tables

LEMMA HasAllStays ==
  ASSUME NEW at, NEW new, NEW q \in Queries, NEW rows, NEW before \in SUBSET Events,
         \A e \in before : at[e] = q.hour,
         \A e \in Events : at[e] # 0 => new[e] = at[e],
         HasAll(at, rows, q, before)
  PROVE  HasAll(new, rows, q, before)
<1>1. \A e \in before : new[e] = at[e]
  BY QueriesAre
<1>2. \A e \in before : KeyOf(q.of, new, e) = KeyOf(q.of, at, e)
  BY <1>1 DEF KeyOf, ActionOf, ServiceOf
<1>3. \A key : EventsAt(new, q.of, key) \intersect before = EventsAt(at, q.of, key) \intersect before
  BY <1>2 DEF EventsAt
<1> QED
  BY <1>2, <1>3 DEF HasAll

LEMMA CountReader ==
  ASSUME TypesRight, ReaderRight, NEW at, CountedNow(at)
  PROVE  ReaderRight'
<1>0. UNCHANGED <<reader, db>> /\ spoiled \subseteq spoiled'
  BY DEF CountedNow, Count
<1>1. \A e \in Events : counted[e] # 0 => counted'[e] = counted[e]
  BY CountTypes
<1>2. CASE reader.at = "idle"
  BY <1>0, <1>2 DEF ReaderRight
<1>3. CASE reader.at # "idle"
  <2> DEFINE q == reader.query
             before == reader.before
  <2>1. q \in Queries /\ before \in SUBSET Events /\ \A e \in before : counted[e] = q.hour
    BY <1>3 DEF ReaderRight, Before
  <2>2. q.of \in Tables /\ q.hour # 0
    BY <2>1, QueriesAre
  <2>3. before \subseteq Before(q)'
    BY <1>0, <1>1, <2>1, <2>2 DEF Before
  <2>4. \A rows : HasAll(counted, rows, q, before) => HasAll(counted', rows, q, before)
    <3> HIDE DEF q, before
    <3> QED
      BY <1>1, <2>1, HasAllStays
  <2>5. \A rows : RightTable(counted, q.of, rows) => RightTable(counted', q.of, rows)
    BY <1>1, <2>2, RightStays
  <2> QED
    BY <1>0, <1>3, <2>1, <2>3, <2>4, <2>5 DEF ReaderRight
<1> QED
  BY <1>2, <1>3

(* The rows a screen is given of some tables. *)
LEMMA AskedIs ==
  ASSUME NEW q \in Queries, NEW at, NEW tables, RightTable(at, q.of, tables[q.of])
  PROVE  LET rows == tables[q.of]
             asked == Asked(q, tables)
         IN  /\ RightTable(at, q.of, asked)
             /\ \A key : key \in DOMAIN asked <=>
                     /\ key \in DOMAIN rows /\ key[1] = q.hour
                     /\ q.of = "actions" => key[2] = q.service
             /\ \A key \in DOMAIN asked : asked[key] = rows[key]
<1> DEFINE rows == tables[q.of]
           asked == Asked(q, tables)
           part == {key \in DOMAIN rows : key[1] \in {q.hour}}
           some == {key \in part : key[2] = q.service}
           whole == Restrict(rows, part)
<1>0. q.of \in Tables
  BY QueriesAre
<1>1. /\ RightTable(at, q.of, whole) /\ DOMAIN whole = part
      /\ \A key \in part : whole[key] = rows[key]
  <2>1. RightTable(at, q.of, rows) /\ part \in SUBSET DOMAIN rows
    OBVIOUS
  <2> HIDE DEF rows, part
  <2> QED
    BY <1>0, <2>1, RightPart
<1>2. CASE q.of = "services"
  <2>1. asked = whole
    BY <1>2 DEF Asked, Of
  <2> HIDE DEF asked, whole, rows
  <2> QED
    BY <1>1, <1>2, <2>1 DEF asked, rows
<1>3. CASE q.of = "actions"
  <2>1. asked = Restrict(whole, {key \in DOMAIN whole : key[2] = q.service})
    BY <1>3 DEF Asked, Of
  <2>2. {key \in DOMAIN whole : key[2] = q.service} = some
    BY <1>1
  <2>3. /\ RightTable(at, q.of, Restrict(whole, some)) /\ DOMAIN Restrict(whole, some) = some
        /\ \A key \in some : Restrict(whole, some)[key] = whole[key]
    <3>1. some \in SUBSET DOMAIN whole
      BY <1>1
    <3> HIDE DEF whole, some
    <3> QED
      BY <1>0, <1>1, <3>1, RightPart
  <2>4. /\ RightTable(at, q.of, asked) /\ DOMAIN asked = some
        /\ \A key \in some : asked[key] = rows[key]
    <3> HIDE DEF asked, whole, rows
    <3> QED
      BY <1>1, <2>1, <2>2, <2>3
  <2> HIDE DEF asked
  <2> QED
    BY <1>3, <2>4 DEF asked
<1> QED
  BY <1>0, <1>2, <1>3 DEF Tables

(* What is whole is given whole. *)
LEMMA WholeHasAll ==
  ASSUME NEW q \in Queries, NEW at, NEW rows, RightTable(at, q.of, rows),
         NEW before \in SUBSET Events,
         \A e \in before : IsAsked(q, e) => IsWhole(at, q.of, rows, KeyOf(q.of, at, e))
  PROVE  HasAll(at, rows, q, before)
<1> SUFFICES ASSUME NEW e \in before, IsAsked(q, e)
             PROVE  LET key == KeyOf(q.of, at, e)
                    IN  /\ key \in DOMAIN rows
                        /\ rows[key].amount >= Cardinality(EventsAt(at, q.of, key) \intersect before)
  BY DEF HasAll
<1> DEFINE key == KeyOf(q.of, at, e)
           all == EventsAt(at, q.of, key)
<1>1. key \in DOMAIN rows /\ IsWhole(at, q.of, rows, key)
  BY DEF IsWhole
<1>2. rows[key].amount >= Cardinality(all) /\ rows[key].amount \in Nat /\ Cardinality(all) \in Nat
  BY <1>1, QueriesAre, AtMostAll
<1>3. all \in SUBSET Events
  BY DEF EventsAt
<1>4. Cardinality(all \intersect before) \in Nat /\ Cardinality(all \intersect before) <= Cardinality(all)
  <2> HIDE DEF all
  <2>1. IsFiniteSet(all) /\ all \intersect before \in SUBSET all
    BY <1>3, DurationsAreNat
  <2> QED
    BY <2>1, FS_Subset, FS_CardinalityType
<1> QED
  BY <1>1, <1>2, <1>4

LEMMA ReadStep ==
  ASSUME StatisticsInv, NEW q \in Queries, ReadMemory(q)
  PROVE  ReaderRight'
<1> DEFINE before == Before(q)
           t == q.of
<1>0. UNCHANGED <<db, counted, spoiled>> /\ q \in Queries /\ t \in Tables /\ q.hour # 0
  BY QueriesAre DEF ReadMemory, history
<1>1. before \in SUBSET Events /\ \A e \in before : counted[e] = q.hour
  BY DEF Before
<1>2. RightTable(counted, t, cache[t]) /\ RightTable(counted, t, db[t])
  BY <1>0 DEF StatisticsInv, TablesRight, Copies
<1>3. \A e \in before : LET key == KeyOf(t, counted, e)
                        IN  /\ key \in Keys(t) /\ key[1] = q.hour
                            /\ t = "actions" => key[2] = Data[e].service
  <2>1. \A e \in before : counted[e] \in Nat \ {0}
    BY <1>0, <1>1 DEF StatisticsInv, TypesRight
  <2>2. \A e : t = "actions" => KeyOf(t, counted, e)[2] = Data[e].service
    BY DEF KeyOf, ActionOf
  <2> QED
    BY <1>0, <1>1, <2>1, <2>2, KeyParts
<1>4. CASE InMemory(q) # <<>>
  <2> DEFINE asked == Asked(q, cache)
  <2>1. reader' = [at |-> "answered", query |-> q, before |-> before, behind |-> FALSE,
                   rows |-> asked]
    BY <1>4 DEF ReadMemory, InMemory
  <2>2. /\ RightTable(counted, t, asked)
        /\ \A key : key \in DOMAIN asked <=>
                /\ key \in DOMAIN cache[t] /\ key[1] = q.hour
                /\ t = "actions" => key[2] = q.service
        /\ \A key \in DOMAIN asked : asked[key] = cache[t][key]
    <3>1. RightTable(counted, q.of, cache[q.of])
      BY <1>2
    <3> QED
      BY <1>0, <3>1, AskedIs
  <2>3. DOMAIN asked # {}
    <3>1. asked # <<>>
      BY <1>4 DEF InMemory
    <3>2. asked = [key \in DOMAIN asked |-> asked[key]]
      BY <1>0, <2>2, TableIs DEF RightTable
    <3> HIDE DEF asked
    <3> QED
      BY <3>1, <3>2
  <2>4. q.hour \in Hours(cache)
    BY <1>0, <2>2, <2>3, HoursAre
  <2>5. ASSUME q.hour \notin spoiled PROVE HasAll(counted, asked, q, before)
    <3>1. ASSUME NEW e \in before, IsAsked(q, e)
          PROVE  IsWhole(counted, t, asked, KeyOf(t, counted, e))
      <4> DEFINE key == KeyOf(t, counted, e)
      <4>1. IsWhole(counted, t, cache[t], key)
        BY <1>0, <1>1, <2>4, <2>5 DEF StatisticsInv, CacheWhole
      <4>2. key[1] = q.hour /\ (t = "actions" => key[2] = q.service)
        BY <1>3, <3>1 DEF IsAsked
      <4> HIDE DEF key, asked
      <4>3. IsWhole(counted, t, asked, key)
        BY <2>2, <4>1, <4>2 DEF IsWhole
      <4> QED
        BY <4>3 DEF key
    <3> HIDE DEF asked, before
    <3> QED
      BY <1>0, <1>1, <2>2, <3>1, WholeHasAll
  <2> HIDE DEF asked
  <2>7. /\ reader'.at = "answered" /\ reader'.query = q /\ reader'.before = before
        /\ reader'.rows = asked
    BY <2>1
  <2>8. before = Before(q)'
    BY <1>0 DEF Before
  <2>9. RightTable(counted', t, asked)
    BY <1>0, <2>2
  <2> HIDE DEF before
  <2> QED
    BY <1>0, <2>2, <2>5, <2>7, <2>8, <2>9 DEF ReaderRight
<1>5. CASE ~ (InMemory(q) # <<>>)
  <2>1. reader' = [at |-> "database", query |-> q, before |-> before,
                   behind |-> q.hour \in Unsaved]
    BY <1>5 DEF ReadMemory
  <2>2. ASSUME q.hour \notin spoiled, q.hour \notin Unsaved
        PROVE  HasAll(counted, db[t], q, before)
    <3>1. ASSUME NEW e \in before PROVE IsWhole(counted, t, db[t], KeyOf(t, counted, e))
      <4> DEFINE key == KeyOf(t, counted, e)
      <4>1. PICK rows \in Copies(t) : IsWhole(counted, t, rows, key)
        BY <1>0, <1>1, <2>2 DEF StatisticsInv, OneHasIt
      <4>2. key \in DOMAIN rows /\ key[1] = q.hour
        BY <1>3, <4>1 DEF IsWhole
      <4>3. rows # to_persist[t]
        BY <1>0, <2>2, <4>2, HoursAre DEF Unsaved
      <4>4. rows # saves["stop"].rows[t] /\ rows # saves["timer"].rows[t]
        <5> SUFFICES ASSUME NEW saver \in Savers, rows = saves[saver].rows[t] PROVE FALSE
          BY DEF Savers
        <5>1. q.hour \in Hours(saves[saver].rows)
          BY <1>0, <4>2, HoursAre
        <5> QED
          BY <2>2, <5>1 DEF Unsaved
      <4> QED
        BY <4>1, <4>3, <4>4 DEF Copies
    <3> HIDE DEF before
    <3> QED
      BY <1>0, <1>1, <1>2, <3>1, WholeHasAll
  <2>3. /\ reader'.at = "database" /\ reader'.query = q /\ reader'.before = before
        /\ reader'.behind = (q.hour \in Unsaved)
    BY <2>1
  <2>4. before = Before(q)'
    BY <1>0 DEF Before
  <2> HIDE DEF before
  <2> QED
    BY <1>0, <2>2, <2>3, <2>4 DEF ReaderRight
<1> QED
  BY <1>4, <1>5

LEMMA ReadDatabaseStep ==
  ASSUME StatisticsInv, ReadDatabase
  PROVE  ReaderRight'
<1> DEFINE q == reader.query
           before == reader.before
           asked == Asked(q, db)
<1>0. /\ UNCHANGED <<db, counted, spoiled>> /\ reader.at = "database"
      /\ reader' = [at |-> "answered", query |-> q, before |-> before,
                    behind |-> reader.behind, rows |-> asked]
  BY DEF ReadDatabase, history
<1>1. /\ q \in Queries /\ before \subseteq Before(q)
      /\ q.hour \notin spoiled /\ ~ reader.behind => HasAll(counted, db[q.of], q, before)
  BY <1>0 DEF StatisticsInv, ReaderRight
<1>a. q.of \in Tables /\ q.hour # 0
  BY <1>1, QueriesAre
<1>2. RightTable(counted, q.of, db[q.of])
  BY <1>a DEF StatisticsInv, TablesRight, Copies
<1>3. /\ RightTable(counted, q.of, asked)
      /\ \A key : key \in DOMAIN asked <=>
              /\ key \in DOMAIN db[q.of] /\ key[1] = q.hour
              /\ q.of = "actions" => key[2] = q.service
      /\ \A key \in DOMAIN asked : asked[key] = db[q.of][key]
  <2> HIDE DEF q
  <2> QED
    BY <1>1, <1>2, AskedIs
<1>4. HasAll(counted, db[q.of], q, before) => HasAll(counted, asked, q, before)
  <2>1. ASSUME NEW e \in before, IsAsked(q, e)
        PROVE  LET key == KeyOf(q.of, counted, e)
               IN  key[1] = q.hour /\ (q.of = "actions" => key[2] = q.service)
    <3>1. counted[e] = q.hour
      BY <1>1 DEF Before
    <3>2. KeyOf(q.of, counted, e)[1] = q.hour
      BY <1>a, <3>1, KeyParts
    <3>3. q.of = "actions" => KeyOf(q.of, counted, e)[2] = Data[e].service
      BY DEF KeyOf, ActionOf
    <3> QED
      BY <2>1, <3>2, <3>3 DEF IsAsked
  <2> HIDE DEF q, before, asked
  <2> QED
    BY <1>3, <2>1 DEF HasAll
<1>5. /\ reader'.at = "answered" /\ reader'.query = q /\ reader'.before = before
      /\ reader'.rows = asked /\ reader'.behind = reader.behind
  BY <1>0
<1>6. before \subseteq {e \in Events : counted'[e] = q.hour}
  BY <1>0, <1>1 DEF Before
<1>7. RightTable(counted', q.of, asked)
  BY <1>0, <1>3
<1>8. UNCHANGED <<counted, spoiled>>
  BY <1>0
<1> HIDE DEF q, before, asked
<1> QED
  BY <1>1, <1>3, <1>4, <1>5, <1>6, <1>7, <1>8 DEF ReaderRight, Before

-------------------------------------------------------------------------------
(* What stays right when the hours which are spoiled get more. *)
LEMMA CacheStays ==
  ASSUME CacheWhole, UNCHANGED <<counted, cache>>, spoiled \subseteq spoiled'
  PROVE  CacheWhole'
BY DEF CacheWhole

LEMMA ReaderStays ==
  ASSUME ReaderRight, UNCHANGED <<counted, reader>>, spoiled \subseteq spoiled',
         reader.at = "database" /\ reader.query.hour \notin spoiled'
           /\ HasAll(counted, db[reader.query.of], reader.query, reader.before)
         => HasAll(counted, db'[reader.query.of], reader.query, reader.before)
  PROVE  ReaderRight'
BY DEF ReaderRight, Before

(* The steps which leave the tables alone. *)
LEMMA TablesStay ==
  ASSUME TablesRight, OneHasIt, NewerComesLater, UNCHANGED <<counted, cache, to_persist, db>>,
         spoiled \subseteq spoiled', process' = "up" => process = "up",
         saves'["stop"].rows = saves["stop"].rows, saves'["timer"].rows = saves["timer"].rows
  PROVE  TablesRight' /\ OneHasIt' /\ NewerComesLater'
<1>1. \A t \in Tables : Copies(t)' = Copies(t)
  BY DEF Copies
<1> QED
  BY <1>1 DEF TablesRight, OneHasIt, NewerComesLater, Older

LEMMA StandStill ==
  ASSUME StatisticsInv, UNCHANGED <<memory, db, counted, spoiled>>,
         now' \in Nat \ {0}, process' \in {"up", "stopping", "down"},
         process' = "up" => process = "up", process' = "down" => process = "down",
         process = "down" => reader' = NotReading, ReaderRight'
  PROVE  StatisticsInv'
<1>1. TypesRight'
  BY DEF StatisticsInv, TypesRight, memory
<1>2. SavesRight'
  BY DEF StatisticsInv, SavesRight, memory
<1>3. TablesRight' /\ OneHasIt' /\ NewerComesLater'
  BY TablesStay DEF StatisticsInv, memory
<1>4. CacheWhole'
  BY CacheStays DEF StatisticsInv, memory
<1> QED
  BY <1>1, <1>2, <1>3, <1>4 DEF StatisticsInv

(* An hour leaves the memory with all of its rows. *)
LEMMA GcStep ==
  ASSUME StatisticsInv, Gc
  PROVE  StatisticsInv'
<1>0. /\ process # "down" /\ UNCHANGED <<now, process, to_persist, saves, db, reader, counted, spoiled>>
      /\ cache' = [actions |-> gc_old_data(cache.actions), services |-> gc_old_data(cache.services)]
  BY DEF Gc, history
<1>1. \A t \in Tables : cache'[t] = Restrict(cache[t], {key \in DOMAIN cache[t] : key[1] > cache_gc_hour_key})
  <2>1. ASSUME NEW rows PROVE gc_old_data(rows) = Restrict(rows, {key \in DOMAIN rows : key[1] > cache_gc_hour_key})
    <3>1. {key \in DOMAIN rows : key[1] \in {hour \in HoursOf(rows) : hour > cache_gc_hour_key}}
            = {key \in DOMAIN rows : key[1] > cache_gc_hour_key}
      BY DEF HoursOf
    <3> QED
      BY <3>1 DEF gc_old_data, Of
  <2> QED
    BY <1>0, <2>1 DEF Tables
<1>2. \A t \in Tables : RightTable(counted, t, cache[t])
  BY DEF StatisticsInv, TablesRight
<1>3. ASSUME NEW t \in Tables
      PROVE  /\ RightTable(counted, t, cache'[t])
             /\ \A key : key \in DOMAIN cache'[t] <=>
                           key \in DOMAIN cache[t] /\ key[1] > cache_gc_hour_key
             /\ \A key \in DOMAIN cache'[t] : cache'[t][key] = cache[t][key]
  <2> DEFINE some == {key \in DOMAIN cache[t] : key[1] > cache_gc_hour_key}
  <2>0. some \in SUBSET DOMAIN cache[t]
    OBVIOUS
  <2>1. cache'[t] = Restrict(cache[t], some)
    BY <1>1
  <2>2. \A key : key \in some <=> key \in DOMAIN cache[t] /\ key[1] > cache_gc_hour_key
    OBVIOUS
  <2>3. RightTable(counted, t, cache[t])
    BY <1>2
  <2> HIDE DEF some
  <2>4. /\ RightTable(counted, t, Restrict(cache[t], some)) /\ DOMAIN Restrict(cache[t], some) = some
        /\ \A key \in some : Restrict(cache[t], some)[key] = cache[t][key]
    BY <2>0, <2>3, RightPart
  <2> QED
    BY <2>1, <2>2, <2>4
<1>4. TypesRight'
  <2>1. cache' \in Both
    BY <1>0, <1>3 DEF RightTable, Both, Tables
  <2> QED
    BY <1>0, <2>1 DEF StatisticsInv, TypesRight
<1>5. SavesRight'
  BY <1>0 DEF StatisticsInv, SavesRight
<1>6. TablesRight'
  BY <1>0, <1>3 DEF StatisticsInv, TablesRight, Copies
<1>7. OneHasIt' /\ NewerComesLater'
  BY <1>0 DEF StatisticsInv, OneHasIt, NewerComesLater, Copies, Older
<1>8. CacheWhole'
  <2> SUFFICES ASSUME NEW hour \in Hours(cache'), hour \notin spoiled,
                      NEW t \in Tables, NEW e \in Events, counted[e] = hour
               PROVE  IsWhole(counted, t, cache'[t], KeyOf(t, counted, e))
    BY <1>0 DEF CacheWhole
  <2>1. hour \in Hours(cache) /\ hour > cache_gc_hour_key
    BY <1>3, HoursAre
  <2>2. IsWhole(counted, t, cache[t], KeyOf(t, counted, e))
    BY <2>1 DEF StatisticsInv, CacheWhole
  <2>3. KeyOf(t, counted, e)[1] = hour
    BY KeyParts
  <2> QED
    BY <1>3, <2>1, <2>2, <2>3 DEF IsWhole
<1>9. ReaderRight'
  BY <1>0, ReaderStays DEF StatisticsInv
<1> QED
  BY <1>4, <1>5, <1>6, <1>7, <1>8, <1>9 DEF StatisticsInv

(* A start has the hour whole, as nothing of it is anywhere else. *)
LEMMA StartStep ==
  ASSUME StatisticsInv, Start
  PROVE  StatisticsInv'
<1>0. /\ process = "down" /\ process' = "up"
      /\ UNCHANGED <<now, to_persist, saves, db, reader, counted, spoiled>>
      /\ cache' = [actions |-> restore(db.actions), services |-> restore(db.services)]
  BY DEF Start, history
<1>1. /\ to_persist = NoRows /\ reader = NotReading
      /\ \A saver \in Savers : saves[saver].at = "idle" /\ saves[saver].rows = NoRows
  BY <1>0 DEF StatisticsInv, SavesRight, NotSaving
<1>a. \A t \in Tables : to_persist[t] = <<>> /\ saves["stop"].rows[t] = <<>>
                        /\ saves["timer"].rows[t] = <<>>
  BY <1>1, TablesHave DEF StatisticsInv, Savers
<1>2. ASSUME NEW t \in Tables
      PROVE  /\ RightTable(counted, t, cache'[t])
             /\ \A key : key \in DOMAIN cache'[t] <=> key \in DOMAIN db[t] /\ key[1] = now
             /\ \A key \in DOMAIN cache'[t] : cache'[t][key] = db[t][key]
  <2> DEFINE some == {key \in DOMAIN db[t] : key[1] \in {now}}
  <2>1. cache'[t] = Restrict(db[t], some)
    BY <1>0 DEF restore, Of, Tables
  <2>2. RightTable(counted, t, db[t])
    BY DEF StatisticsInv, TablesRight, Copies
  <2>3. some \in SUBSET DOMAIN db[t] /\ \A key : key \in some <=> key \in DOMAIN db[t] /\ key[1] = now
    OBVIOUS
  <2> HIDE DEF some
  <2>4. /\ RightTable(counted, t, Restrict(db[t], some)) /\ DOMAIN Restrict(db[t], some) = some
        /\ \A key \in some : Restrict(db[t], some)[key] = db[t][key]
    BY <2>2, <2>3, RightPart
  <2> QED
    BY <2>1, <2>3, <2>4
<1>3. TypesRight'
  <2>1. cache' \in Both
    BY <1>0, <1>2 DEF RightTable, Both, Tables
  <2> QED
    BY <1>0, <2>1 DEF StatisticsInv, TypesRight
<1>4. SavesRight'
  BY <1>0, <1>1 DEF StatisticsInv, SavesRight, Savers
<1>5. TablesRight' /\ OneHasIt'
  BY <1>0, <1>2 DEF StatisticsInv, TablesRight, OneHasIt, Copies
<1>6. NewerComesLater'
  BY <1>0, <1>a DEF NewerComesLater, Older
<1>7. CacheWhole'
  <2> SUFFICES ASSUME NEW hour \in Hours(cache'), hour \notin spoiled,
                      NEW t \in Tables, NEW e \in Events, counted[e] = hour
               PROVE  IsWhole(counted, t, cache'[t], KeyOf(t, counted, e))
    BY <1>0 DEF CacheWhole
  <2>1. hour = now /\ now # 0
    BY <1>2, HoursAre DEF StatisticsInv, TypesRight
  <2>2. PICK rows \in Copies(t) : IsWhole(counted, t, rows, KeyOf(t, counted, e))
    BY <2>1 DEF StatisticsInv, OneHasIt
  <2>3. rows = db[t]
    BY <1>a, <2>2 DEF Copies, IsWhole
  <2>4. KeyOf(t, counted, e)[1] = now
    BY <2>1, KeyParts
  <2> QED
    BY <1>2, <2>2, <2>3, <2>4 DEF IsWhole
<1>8. ReaderRight'
  BY <1>0, ReaderStays DEF StatisticsInv
<1> QED
  BY <1>3, <1>4, <1>5, <1>6, <1>7, <1>8 DEF StatisticsInv

(* What is not written when the process ends is spoiled. *)
LEMMA DieStep ==
  ASSUME StatisticsInv, Die
  PROVE  StatisticsInv'
<1>0. /\ process' = "down" /\ cache' = NoRows /\ to_persist' = NoRows
      /\ saves' = [saver \in Savers |-> NotSaving] /\ reader' = NotReading
      /\ spoiled' = spoiled \union Hours(to_persist)
                            \union UNION {Hours(saves[saver].rows) : saver \in Savers}
      /\ UNCHANGED <<now, db, counted>>
  BY DEF Die
<1>1. NoRows \in Both /\ \A t \in Tables : NoRows[t] = <<>>
  BY TablesHave DEF StatisticsInv
<1>2. \A saver \in Savers : saves'[saver].at = "idle" /\ saves'[saver].rows = NoRows
  BY <1>0 DEF NotSaving
<1>3. TypesRight'
  <2>1. saves' \in [Savers -> [at : {"idle", "actions", "services", "done"}, rows : Both]]
    BY <1>0, <1>1 DEF NotSaving
  <2> QED
    BY <1>0, <1>1, <2>1 DEF StatisticsInv, TypesRight
<1>4. SavesRight'
  BY <1>0, <1>2 DEF SavesRight
<1>a. \A t \in Tables : /\ cache'[t] = <<>> /\ to_persist'[t] = <<>>
                        /\ saves'["stop"].rows[t] = <<>> /\ saves'["timer"].rows[t] = <<>>
  BY <1>0, <1>1, <1>2 DEF Savers
<1>5. TablesRight'
  <2>1. \A t \in Tables : RightTable(counted, t, db[t]) /\ RightTable(counted, t, <<>>)
    BY RightNone DEF StatisticsInv, TablesRight, Copies
  <2> QED
    BY <1>0, <1>a, <2>1 DEF TablesRight, Copies
<1>6. OneHasIt'
  <2> SUFFICES ASSUME NEW t \in Tables, NEW e \in Events, counted[e] \notin spoiled' \union {0}
               PROVE  \E rows \in Copies(t)' : IsWhole(counted, t, rows, KeyOf(t, counted, e))
    BY <1>0 DEF OneHasIt
  <2> DEFINE key == KeyOf(t, counted, e)
  <2>1. PICK rows \in Copies(t) : IsWhole(counted, t, rows, key)
    BY <1>0 DEF StatisticsInv, OneHasIt
  <2>2. key \in DOMAIN rows /\ key[1] = counted[e]
    BY <2>1, KeyParts DEF IsWhole
  <2>3. rows # to_persist[t]
    BY <1>0, <2>2, HoursAre
  <2>4. rows # saves["stop"].rows[t] /\ rows # saves["timer"].rows[t]
    <3> SUFFICES ASSUME NEW saver \in Savers, rows = saves[saver].rows[t] PROVE FALSE
      BY DEF Savers
    <3>1. counted[e] \in Hours(saves[saver].rows)
      BY <2>2, HoursAre
    <3> QED
      BY <1>0, <3>1
  <2>5. rows = db[t]
    BY <2>1, <2>3, <2>4 DEF Copies
  <2> QED
    BY <1>0, <2>1, <2>5 DEF Copies
<1>7. NewerComesLater'
  BY <1>0 DEF NewerComesLater
<1>8. CacheWhole'
  BY <1>a, HoursAre DEF CacheWhole
<1>9. ReaderRight'
  BY <1>0 DEF ReaderRight, NotReading
<1> QED
  BY <1>3, <1>4, <1>5, <1>6, <1>7, <1>8, <1>9 DEF StatisticsInv

-------------------------------------------------------------------------------
(* A save takes the rows and writes them. *)
LEMMA TakeStep ==
  ASSUME StatisticsInv, NEW saver \in Savers, TakeChanges(saver)
  PROVE  StatisticsInv'
<1>0. /\ saves[saver].at = "idle" /\ process # "down" /\ (saver = "stop" => process = "stopping")
      /\ to_persist' = NoRows
      /\ saves' = [saves EXCEPT ![saver] = [at |-> "actions", rows |-> to_persist]]
      /\ UNCHANGED <<now, process, cache, db, reader, counted, spoiled>>
  BY DEF TakeChanges, MaySave, get_to_persist, history, Savers
<1>1. saves[saver].rows = NoRows
  BY <1>0 DEF StatisticsInv, SavesRight
<1>2. NoRows \in Both /\ \A t \in Tables : NoRows[t] = <<>>
  BY TablesHave DEF StatisticsInv
<1>3. /\ saves'[saver] = [at |-> "actions", rows |-> to_persist]
      /\ \A other \in Savers \ {saver} : saves'[other] = saves[other]
  BY <1>0 DEF StatisticsInv, TypesRight
<1>4. TypesRight'
  <2>1. saves' \in [Savers -> [at : {"idle", "actions", "services", "done"}, rows : Both]]
    BY <1>0 DEF StatisticsInv, TypesRight
  <2> QED
    BY <1>0, <1>2, <2>1 DEF StatisticsInv, TypesRight
<1>5. SavesRight'
  <2>1. \A one \in Savers :
          /\ saves'[one].at \in {"idle", "done"} => saves'[one].rows = NoRows
          /\ saves'[one].at = "services" => saves'[one].rows.actions = <<>>
    BY <1>3 DEF StatisticsInv, SavesRight
  <2>2. process = "up" => saves'["stop"].at = "idle"
    BY <1>0, <1>3 DEF StatisticsInv, SavesRight, Savers
  <2> QED
    BY <1>0, <2>1, <2>2 DEF SavesRight
<1>6. ASSUME NEW t \in Tables
      PROVE  /\ to_persist'[t] = <<>> /\ saves[saver].rows[t] = <<>>
             /\ saves'[saver].rows[t] = to_persist[t]
             /\ \A other \in Savers \ {saver} : saves'[other].rows[t] = saves[other].rows[t]
  BY <1>0, <1>1, <1>2, <1>3
<1>7. \A t \in Tables : /\ Copies(t)' \subseteq Copies(t) \union {<<>>}
                        /\ Copies(t) \subseteq Copies(t)' \union {<<>>}
  <2> SUFFICES ASSUME NEW t \in Tables
               PROVE  /\ Copies(t)' \subseteq Copies(t) \union {<<>>}
                      /\ Copies(t) \subseteq Copies(t)' \union {<<>>}
    OBVIOUS
  <2>1. CASE saver = "timer"
    BY <1>0, <1>6, <2>1 DEF Copies, Savers
  <2>2. CASE saver = "stop"
    BY <1>0, <1>6, <2>2 DEF Copies, Savers
  <2> QED
    BY <2>1, <2>2 DEF Savers
<1>8. TablesRight'
  <2>1. \A t \in Tables : RightTable(counted, t, <<>>)
    BY RightNone
  <2> QED
    BY <1>0, <1>7, <2>1 DEF StatisticsInv, TablesRight
<1>9. OneHasIt'
  <2>1. \A t \in Tables : \A key : ~ IsWhole(counted, t, <<>>, key)
    BY RightNone DEF IsWhole
  <2> QED
    BY <1>0, <1>7, <2>1 DEF StatisticsInv, OneHasIt
<1>10. NewerComesLater'
  <2> SUFFICES ASSUME process = "up", NEW t \in Tables
               PROVE  /\ Older(db[t], saves["timer"].rows[t])'
                      /\ Older(db[t], to_persist[t])'
                      /\ Older(saves["timer"].rows[t], to_persist[t])'
    BY <1>0 DEF NewerComesLater
  <2>1. saver = "timer"
    BY <1>0 DEF Savers
  <2>2. Older(db[t], to_persist[t])
    BY DEF StatisticsInv, NewerComesLater
  <2> QED
    BY <1>0, <1>6, <2>1, <2>2 DEF Older, Savers
<1>11. CacheWhole'
  BY <1>0, CacheStays DEF StatisticsInv
<1>12. ReaderRight'
  BY <1>0, ReaderStays DEF StatisticsInv
<1> QED
  BY <1>4, <1>5, <1>8, <1>9, <1>10, <1>11, <1>12 DEF StatisticsInv

LEMMA NothingStep ==
  ASSUME StatisticsInv, NothingToSave
  PROVE  StatisticsInv'
<1>0. /\ saves["stop"].at = "idle" /\ process = "stopping"
      /\ saves' = [saves EXCEPT !["stop"].at = "done"]
      /\ UNCHANGED <<now, process, cache, to_persist, db, reader, counted, spoiled>>
  BY DEF NothingToSave, MaySave, history
<1>1. /\ saves'["stop"].at = "done" /\ saves'["stop"].rows = saves["stop"].rows
      /\ saves'["timer"] = saves["timer"]
      /\ saves' \in [Savers -> [at : {"idle", "actions", "services", "done"}, rows : Both]]
  BY <1>0 DEF StatisticsInv, TypesRight, Savers
<1>2. TypesRight'
  BY <1>0, <1>1 DEF StatisticsInv, TypesRight
<1>3. SavesRight'
  BY <1>0, <1>1 DEF StatisticsInv, SavesRight, Savers
<1>4. TablesRight' /\ OneHasIt' /\ NewerComesLater'
  BY <1>0, <1>1, TablesStay DEF StatisticsInv
<1>5. CacheWhole' /\ ReaderRight'
  BY <1>0, CacheStays, ReaderStays DEF StatisticsInv
<1> QED
  BY <1>2, <1>3, <1>4, <1>5 DEF StatisticsInv

(* The rows of one table are in the database, and of the other it has to go *)
(* on with what it had.                                                     *)
Wrote(saver, t) ==
  /\ saves[saver].at \in {"actions", "services"}
  /\ db' = [db EXCEPT ![t] = Over(saves[saver].rows[t], db[t])]
  /\ saves' \in [Savers -> [at : {"idle", "actions", "services", "done"}, rows : Both]]
  /\ saves'[saver].rows[t] = <<>>
  /\ \A u \in Tables \ {t} : saves'[saver].rows[u] = saves[saver].rows[u]
  /\ \A other \in Savers \ {saver} : saves'[other] = saves[other]
  /\ spoiled' = spoiled \union Overwritten(db[t], saves[saver].rows[t])
  /\ UNCHANGED <<now, process, cache, to_persist, reader, counted>>

LEMMA WriteIs ==
  ASSUME StatisticsInv, NEW saver \in Savers
  PROVE  /\ WriteActions(saver) => Wrote(saver, "actions") /\ SavesRight'
         /\ WriteServices(saver) => Wrote(saver, "services") /\ SavesRight'
<1>0. /\ saves \in [Savers -> [at : {"idle", "actions", "services", "done"}, rows : Both]]
      /\ db \in Both /\ \A one \in Savers : saves[one].rows \in Both
  BY DEF StatisticsInv, TypesRight
<1>1. NoRows \in Both /\ (\A t \in Tables : NoRows[t] = <<>>) /\ <<>> \in TableOf("actions")
  BY TablesHave, RightNone DEF StatisticsInv, Tables
<1>2. ASSUME WriteActions(saver) PROVE Wrote(saver, "actions") /\ SavesRight'
  <2>0. /\ saves[saver].at = "actions"
        /\ db' = [db EXCEPT !.actions = Over(saves[saver].rows.actions, db.actions)]
        /\ saves' = [saves EXCEPT ![saver].at = "services", ![saver].rows.actions = <<>>]
        /\ spoiled' = spoiled \union Overwritten(db.actions, saves[saver].rows.actions)
        /\ UNCHANGED <<now, process, cache, to_persist, reader, counted>>
    BY <1>2 DEF WriteActions, execute_batch
  <2>1. /\ saves'[saver].at = "services" /\ saves'[saver].rows.actions = <<>>
        /\ saves'[saver].rows.services = saves[saver].rows.services
        /\ \A other \in Savers \ {saver} : saves'[other] = saves[other]
    BY <1>0, <2>0 DEF Both
  <2>2. saves' \in [Savers -> [at : {"idle", "actions", "services", "done"}, rows : Both]]
    <3> DEFINE left == [actions |-> <<>>, services |-> saves[saver].rows.services]
    <3>1. left \in Both
      BY <1>0, <1>1 DEF Both
    <3>2. /\ DOMAIN saves' = Savers
          /\ saves' = [one \in Savers |-> saves'[one]]
      BY <1>0, <2>0
    <3>3. saves'[saver] = [[saves[saver] EXCEPT !.at = "services"]
                            EXCEPT !.rows = [@ EXCEPT !.actions = <<>>]]
      BY <1>0, <2>0
    <3>4. /\ saves[saver] \in [at : {"idle", "actions", "services", "done"}, rows : Both]
          /\ saves[saver].rows \in [actions : TableOf("actions"), services : TableOf("services")]
      BY <1>0 DEF Both
    <3>5. [saves[saver].rows EXCEPT !.actions = <<>>] = left
      BY <3>4
    <3>6. saves'[saver] = [at |-> "services", rows |-> left]
      BY <3>3, <3>4, <3>5
    <3> HIDE DEF left
    <3>7. \A one \in Savers : saves'[one] \in [at : {"idle", "actions", "services", "done"}, rows : Both]
      BY <1>0, <2>1, <3>1, <3>6
    <3> QED
      BY <3>2, <3>7
  <2>3. Wrote(saver, "actions")
    BY <2>0, <2>1, <2>2 DEF Wrote, Tables
  <2>4. saver = "stop" => process # "up"
    BY <2>0 DEF StatisticsInv, SavesRight
  <2>5. process # "down"
    BY <2>0 DEF StatisticsInv, SavesRight, NotSaving
  <2>6. SavesRight'
    BY <2>0, <2>1, <2>4, <2>5 DEF StatisticsInv, SavesRight, Savers
  <2> QED
    BY <2>3, <2>6
<1>3. ASSUME WriteServices(saver) PROVE Wrote(saver, "services") /\ SavesRight'
  <2>0. /\ saves[saver].at = "services"
        /\ db' = [db EXCEPT !.services = Over(saves[saver].rows.services, db.services)]
        /\ saves' = [saves EXCEPT ![saver] =
                       [NotSaving EXCEPT !.at = IF saver = "stop" THEN "done" ELSE "idle"]]
        /\ spoiled' = spoiled \union Overwritten(db.services, saves[saver].rows.services)
        /\ UNCHANGED <<now, process, cache, to_persist, reader, counted>>
    BY <1>3 DEF WriteServices, execute_batch
  <2>1. /\ saves'[saver].at \in {"idle", "done"} /\ saves'[saver].rows = NoRows
        /\ \A other \in Savers \ {saver} : saves'[other] = saves[other]
    BY <1>0, <2>0 DEF NotSaving
  <2>2. saves' \in [Savers -> [at : {"idle", "actions", "services", "done"}, rows : Both]]
    BY <1>0, <1>1, <2>0 DEF NotSaving
  <2>3. saves[saver].rows.actions = <<>>
    BY <2>0 DEF StatisticsInv, SavesRight
  <2>4. Wrote(saver, "services")
    BY <1>1, <2>0, <2>1, <2>2, <2>3 DEF Wrote, Tables
  <2>5. saver = "stop" => process # "up"
    BY <2>0 DEF StatisticsInv, SavesRight
  <2>6. process # "down"
    BY <2>0 DEF StatisticsInv, SavesRight, NotSaving
  <2>7. SavesRight'
    BY <2>0, <2>1, <2>5, <2>6 DEF StatisticsInv, SavesRight, Savers
  <2> QED
    BY <2>4, <2>7
<1> QED
  BY <1>2, <1>3

LEMMA WroteStep ==
  ASSUME StatisticsInv, NEW saver \in Savers, NEW t \in Tables, Wrote(saver, t), SavesRight'
  PROVE  StatisticsInv'
<1> DEFINE rows == saves[saver].rows[t]
           new == Over(rows, db[t])
<1>0. /\ db' = [db EXCEPT ![t] = new]
      /\ saves'[saver].rows[t] = <<>>
      /\ \A u \in Tables \ {t} : saves'[saver].rows[u] = saves[saver].rows[u]
      /\ \A other \in Savers \ {saver} : saves'[other] = saves[other]
      /\ spoiled' = spoiled \union Overwritten(db[t], rows)
      /\ UNCHANGED <<now, process, cache, to_persist, reader, counted>>
  BY DEF Wrote
<1>1. db' \in Both /\ db'[t] = new /\ \A u \in Tables \ {t} : db'[u] = db[u]
  <2>1. RightTable(counted, t, rows) /\ RightTable(counted, t, db[t])
    BY DEF StatisticsInv, TablesRight, Copies, Savers
  <2>2. new \in TableOf(t)
    BY <2>1, RightOver DEF RightTable
  <2> HIDE DEF new
  <2> QED
    BY <1>0, <2>2 DEF StatisticsInv, TypesRight, Both, Tables
<1>2. /\ DOMAIN new = DOMAIN rows \union DOMAIN db[t]
      /\ \A key \in DOMAIN rows : new[key] = rows[key]
      /\ \A key \in DOMAIN db[t] \ DOMAIN rows : new[key] = db[t][key]
  BY DEF Over
<1>3. RightTable(counted, t, rows) /\ RightTable(counted, t, db[t]) /\ RightTable(counted, t, new)
  <2>1. RightTable(counted, t, rows) /\ RightTable(counted, t, db[t])
    BY DEF StatisticsInv, TablesRight, Copies, Savers
  <2> QED
    BY <2>1, RightOver
<1>a. process = "up" => saver = "timer"
  BY DEF StatisticsInv, SavesRight, Wrote, Savers
(* Of an hour which is not spoiled no row gives way to an older one. *)
<1>4. ASSUME NEW key \in DOMAIN rows \intersect DOMAIN db[t], key[1] \notin spoiled'
      PROVE  db[t][key].amount <= rows[key].amount
  <2>1. key[1] \notin spoiled /\ key[1] \notin Overwritten(db[t], rows)
    BY <1>0, <1>4
  <2>2. rows[key].amount \in Nat /\ db[t][key].amount \in Nat
    BY <1>3, <1>4, AtMostAll
  <2>3. CASE process = "up"
    BY <1>4, <1>a, <2>1, <2>3 DEF StatisticsInv, NewerComesLater, Older
  <2>4. CASE process # "up"
    <3>1. ~ (db[t][key].amount > rows[key].amount)
      BY <1>4, <2>1, <2>4 DEF Overwritten
    <3> QED
      BY <2>2, <3>1
  <2> QED
    BY <2>3, <2>4
<1>5. ASSUME NEW key \in DOMAIN db[t], key[1] \notin spoiled'
      PROVE  /\ key \in DOMAIN new /\ new[key].amount >= db[t][key].amount
             /\ new[key].amount \in Nat /\ db[t][key].amount \in Nat
             /\ IsWhole(counted, t, db[t], key) => IsWhole(counted, t, new, key)
  <2>1. key \in DOMAIN new
    BY <1>2
  <2>2. /\ new[key].amount \in Nat /\ db[t][key].amount \in Nat
        /\ Cardinality(EventsAt(counted, t, key)) \in Nat
        /\ IsWhole(counted, t, new, key) <=>
             new[key].amount >= Cardinality(EventsAt(counted, t, key))
        /\ IsWhole(counted, t, db[t], key) <=>
             db[t][key].amount >= Cardinality(EventsAt(counted, t, key))
    BY <1>3, <2>1, AtMostAll
  <2>3. new[key].amount >= db[t][key].amount
    <3>1. CASE key \in DOMAIN rows
      <4>1. rows[key].amount \in Nat /\ db[t][key].amount <= rows[key].amount
        BY <1>3, <1>4, <1>5, <3>1, AtMostAll
      <4> QED
        BY <1>2, <2>2, <3>1, <4>1
    <3>2. CASE key \notin DOMAIN rows
      BY <1>2, <2>2, <3>2
    <3> QED
      BY <3>1, <3>2
  <2> HIDE DEF new, rows
  <2> QED
    BY <2>1, <2>2, <2>3
<1> HIDE DEF new, rows
<1>6. TypesRight'
  <2>1. saves' \in [Savers -> [at : {"idle", "actions", "services", "done"}, rows : Both]]
    BY DEF Wrote
  <2> QED
    BY <1>0, <1>1, <2>1 DEF StatisticsInv, TypesRight
<1>7. TablesRight'
  <2>1. \A u \in Tables : Copies(u)' \subseteq Copies(u) \union {<<>>, db'[u]}
    <3> SUFFICES ASSUME NEW u \in Tables
                 PROVE  /\ saves'["stop"].rows[u] \in {saves["stop"].rows[u], <<>>}
                        /\ saves'["timer"].rows[u] \in {saves["timer"].rows[u], <<>>}
      BY <1>0 DEF Copies
    <3>1. \A one \in Savers : saves'[one].rows[u] \in {saves[one].rows[u], <<>>}
      BY <1>0
    <3> QED
      BY <3>1 DEF Savers
  <2>2. \A u \in Tables : RightTable(counted, u, db'[u]) /\ RightTable(counted, u, <<>>)
    BY <1>1, <1>3, RightNone DEF StatisticsInv, TablesRight, Copies
  <2> QED
    BY <1>0, <2>1, <2>2 DEF StatisticsInv, TablesRight
<1>8. OneHasIt'
  <2> SUFFICES ASSUME NEW u \in Tables, NEW e \in Events, counted[e] \notin spoiled' \union {0}
               PROVE  \E one \in Copies(u)' : IsWhole(counted, u, one, KeyOf(u, counted, e))
    BY <1>0 DEF OneHasIt
  <2> DEFINE key == KeyOf(u, counted, e)
  <2>1. PICK one \in Copies(u) : IsWhole(counted, u, one, key)
    BY <1>0 DEF StatisticsInv, OneHasIt
  <2>2. key[1] \notin spoiled' /\ key \in DOMAIN one
    BY <2>1, KeyParts DEF IsWhole
  <2>3. CASE one = to_persist[u]
    BY <1>0, <2>1, <2>3 DEF Copies
  <2>4. CASE one = db[u]
    <3>1. CASE u = t
      BY <1>1, <1>5, <2>1, <2>2, <2>4, <3>1 DEF Copies
    <3>2. CASE u # t
      BY <1>1, <2>1, <2>4, <3>2 DEF Copies
    <3> QED
      BY <3>1, <3>2
  <2>5. ASSUME NEW s \in Savers, one = saves[s].rows[u]
        PROVE  \E some \in Copies(u)' : IsWhole(counted, u, some, key)
    <3>1. CASE s = saver /\ u = t
      <4>1. one = rows
        BY <2>5, <3>1 DEF rows
      <4>2. IsWhole(counted, t, new, key)
        BY <1>2, <2>1, <3>1, <4>1 DEF IsWhole
      <4> QED
        BY <1>1, <3>1, <4>2 DEF Copies
    <3>2. CASE ~ (s = saver /\ u = t)
      <4>1. saves'[s].rows[u] = one
        BY <1>0, <2>5, <3>2
      <4>2. one \in Copies(u)'
        BY <4>1 DEF Copies, Savers
      <4> QED
        BY <2>1, <4>2
    <3> QED
      BY <3>1, <3>2
  <2> QED
    BY <2>3, <2>4, <2>5 DEF Copies, Savers
<1>9. NewerComesLater'
  <2> SUFFICES ASSUME process = "up", NEW u \in Tables
               PROVE  /\ Older(db[u], saves["timer"].rows[u])'
                      /\ Older(db[u], to_persist[u])'
                      /\ Older(saves["timer"].rows[u], to_persist[u])'
    BY <1>0 DEF NewerComesLater
  <2>1. /\ Older(db[u], saves["timer"].rows[u]) /\ Older(db[u], to_persist[u])
        /\ Older(saves["timer"].rows[u], to_persist[u])
    BY DEF StatisticsInv, NewerComesLater
  <2>2. spoiled \subseteq spoiled' /\ to_persist' = to_persist /\ saver = "timer"
    BY <1>0, <1>a
  <2>3. CASE u # t
    BY <1>0, <1>1, <2>1, <2>2, <2>3 DEF Older
  <2>4. CASE u = t
    <3>1. saves'["timer"].rows[u] = <<>> /\ db'[u] = new /\ rows = saves["timer"].rows[u]
      BY <1>0, <1>1, <2>2, <2>4 DEF rows
    <3>2. Older(saves["timer"].rows[u], to_persist[u])' /\ Older(db[u], saves["timer"].rows[u])'
      BY <3>1 DEF Older
    <3>3. Older(db[u], to_persist[u])'
      BY <1>2, <2>1, <2>2, <2>4, <3>1 DEF Older
    <3> QED
      BY <3>2, <3>3
  <2> QED
    BY <2>3, <2>4
<1>10. CacheWhole'
  BY <1>0, CacheStays DEF StatisticsInv
<1>11. ReaderRight'
  <2> DEFINE q == reader.query
             before == reader.before
  <2>1. ASSUME reader.at = "database", q.hour \notin spoiled', HasAll(counted, db[q.of], q, before)
        PROVE  HasAll(counted, db'[q.of], q, before)
    <3>1. before \in SUBSET Events /\ (\A e \in before : counted[e] = q.hour) /\ q \in Queries
      BY <2>1 DEF StatisticsInv, ReaderRight, Before
    <3>2. CASE q.of # t
      <4>1. db'[q.of] = db[q.of]
        BY <1>1, <3>1, <3>2, QueriesAre
      <4> QED
        BY <2>1, <4>1
    <3>3. CASE q.of = t
      <4> SUFFICES ASSUME NEW e \in before, IsAsked(q, e)
                   PROVE  LET key == KeyOf(t, counted, e)
                          IN  /\ key \in DOMAIN new
                              /\ new[key].amount >= Cardinality(EventsAt(counted, t, key) \intersect before)
        BY <1>1, <3>3 DEF HasAll
      <4> DEFINE key == KeyOf(t, counted, e)
                 least == Cardinality(EventsAt(counted, t, key) \intersect before)
      <4>1. key \in DOMAIN db[t] /\ db[t][key].amount >= least
        BY <2>1, <3>3 DEF HasAll
      <4>2. key[1] \notin spoiled'
        BY <2>1, <3>1, KeyParts
      <4>3. least \in Nat
        <5>1. EventsAt(counted, t, key) \intersect before \in SUBSET Events
          BY <3>1
        <5> QED
          BY <5>1, DurationsAreNat
      <4> HIDE DEF key, least
      <4>4. /\ key \in DOMAIN new /\ new[key].amount >= db[t][key].amount
            /\ new[key].amount \in Nat /\ db[t][key].amount \in Nat
        BY <1>5, <4>1, <4>2
      <4>5. key \in DOMAIN new /\ new[key].amount >= least
        BY <4>1, <4>3, <4>4
      <4> QED
        BY <4>5 DEF key, least
    <3> QED
      BY <3>2, <3>3
  <2>2. UNCHANGED <<counted, reader>> /\ spoiled \subseteq spoiled'
    BY <1>0
  <2> QED
    BY <2>1, <2>2, ReaderStays DEF StatisticsInv
<1> QED
  BY <1>6, <1>7, <1>8, <1>9, <1>10, <1>11 DEF StatisticsInv

(* A save which fails leaves its rows nowhere. *)
LEMMA FailStep ==
  ASSUME StatisticsInv, SaveFails
  PROVE  StatisticsInv'
<1>0. /\ saves["timer"].at \in {"actions", "services"}
      /\ saves' = [saves EXCEPT !["timer"] = NotSaving]
      /\ spoiled' = spoiled \union Hours(saves["timer"].rows)
      /\ UNCHANGED <<now, process, cache, to_persist, db, reader, counted>>
  BY DEF SaveFails
<1>1. NoRows \in Both /\ \A t \in Tables : NoRows[t] = <<>>
  BY TablesHave DEF StatisticsInv
<1>2. /\ saves'["timer"].at = "idle" /\ saves'["timer"].rows = NoRows
      /\ saves'["stop"] = saves["stop"]
      /\ saves' \in [Savers -> [at : {"idle", "actions", "services", "done"}, rows : Both]]
  BY <1>0, <1>1 DEF StatisticsInv, TypesRight, Savers, NotSaving
<1>3. TypesRight'
  BY <1>0, <1>2 DEF StatisticsInv, TypesRight
<1>4. SavesRight'
  <2>1. process # "down"
    BY <1>0 DEF StatisticsInv, SavesRight, NotSaving, Savers
  <2> QED
    BY <1>0, <1>2, <2>1 DEF StatisticsInv, SavesRight, Savers
<1>5. TablesRight'
  <2>1. \A t \in Tables : Copies(t)' \subseteq Copies(t) \union {<<>>}
    BY <1>0, <1>1, <1>2 DEF Copies
  <2>2. \A t \in Tables : RightTable(counted, t, <<>>)
    BY RightNone
  <2> QED
    BY <1>0, <2>1, <2>2 DEF StatisticsInv, TablesRight
<1>6. OneHasIt'
  <2> SUFFICES ASSUME NEW t \in Tables, NEW e \in Events, counted[e] \notin spoiled' \union {0}
               PROVE  \E rows \in Copies(t)' : IsWhole(counted, t, rows, KeyOf(t, counted, e))
    BY <1>0 DEF OneHasIt
  <2> DEFINE key == KeyOf(t, counted, e)
  <2>1. PICK rows \in Copies(t) : IsWhole(counted, t, rows, key)
    BY <1>0 DEF StatisticsInv, OneHasIt
  <2>2. key \in DOMAIN rows /\ key[1] = counted[e]
    BY <2>1, KeyParts DEF IsWhole
  <2>3. rows # saves["timer"].rows[t]
    BY <1>0, <2>2, HoursAre
  <2>4. rows \in Copies(t)'
    BY <1>0, <1>2, <2>3 DEF Copies
  <2> QED
    BY <2>1, <2>4
<1>7. NewerComesLater'
  BY <1>0, <1>1, <1>2 DEF StatisticsInv, NewerComesLater, Older
<1>8. CacheWhole' /\ ReaderRight'
  BY <1>0, CacheStays, ReaderStays DEF StatisticsInv
<1> QED
  BY <1>3, <1>4, <1>5, <1>6, <1>7, <1>8 DEF StatisticsInv

-------------------------------------------------------------------------------
LEMMA StatisticsInit == Init => StatisticsInv
<1> SUFFICES ASSUME Init PROVE StatisticsInv
  OBVIOUS
<1>0. /\ now = FirstHour /\ process = "up" /\ cache = NoRows /\ to_persist = NoRows /\ db = NoRows
      /\ saves = [saver \in Savers |-> NotSaving] /\ reader = NotReading
      /\ counted = [e \in Events |-> 0]
  BY DEF Init
<1>1. NoRows \in Both /\ \A t \in Tables : NoRows[t] = <<>>
  BY RightNone DEF Both, NoRows, Tables
<1>2. \A saver \in Savers : saves[saver].at = "idle" /\ saves[saver].rows = NoRows
  BY <1>0 DEF NotSaving
<1>3. TypesRight
  <2>1. saves \in [Savers -> [at : {"idle", "actions", "services", "done"}, rows : Both]]
    BY <1>0, <1>1 DEF NotSaving
  <2> QED
    BY <1>0, <1>1, <2>1, StatisticsAssumption DEF TypesRight
<1>4. SavesRight
  BY <1>0, <1>2 DEF SavesRight, Savers
<1>5. \A t \in Tables : Copies(t) \union {cache[t]} = {<<>>}
  BY <1>0, <1>1, <1>2 DEF Copies, Savers
<1>6. TablesRight
  BY <1>5, RightNone DEF TablesRight
<1>7. OneHasIt
  BY <1>0 DEF OneHasIt
<1>8. NewerComesLater
  <2>1. \A rows : Older(<<>>, rows)
    BY RightNone DEF Older
  <2>2. \A t \in Tables : db[t] = <<>> /\ saves["timer"].rows[t] = <<>>
    BY <1>0, <1>1, <1>2 DEF Savers
  <2> QED
    BY <2>1, <2>2 DEF NewerComesLater
<1>9. CacheWhole
  BY <1>0, <1>1, HoursAre DEF CacheWhole
<1>10. ReaderRight
  BY <1>0 DEF ReaderRight, NotReading
<1> QED
  BY <1>3, <1>4, <1>6, <1>7, <1>8, <1>9, <1>10 DEF StatisticsInv

LEMMA CountStep ==
  ASSUME StatisticsInv, NEW batch \in Batches, Count([e \in batch |-> HourOf(e)])
  PROVE  StatisticsInv'
<1> DEFINE at == [e \in batch |-> HourOf(e)]
<1>0. CountedNow(at)
  BY BatchIsOnTime DEF StatisticsInv
<1> HIDE DEF at
<1>1. process # "down" /\ UNCHANGED <<now, process, saves, db, reader>>
  BY <1>0 DEF CountedNow, Count
<1>2. TypesRight'
  <2>1. /\ counted' \in [Events -> Nat]
        /\ cache' = [actions |-> cache'["actions"], services |-> cache'["services"]]
        /\ to_persist' = [actions |-> to_persist'["actions"], services |-> to_persist'["services"]]
    BY <1>0, CountTypes, CountTables DEF StatisticsInv, Tables
  <2>2. \A t \in Tables : cache'[t] \in TableOf(t) /\ to_persist'[t] \in TableOf(t)
    BY <1>0, CountKeepsRight DEF StatisticsInv, RightTable
  <2>3. cache' \in Both /\ to_persist' \in Both
    BY <2>1, <2>2 DEF Both, Tables
  <2> QED
    BY <1>1, <2>1, <2>3 DEF StatisticsInv, TypesRight
<1>3. SavesRight'
  BY <1>1 DEF StatisticsInv, SavesRight
<1>4. TablesRight' /\ CacheWhole' /\ OneHasIt' /\ NewerComesLater' /\ ReaderRight'
  BY <1>0, CountTablesRight, CountCache, CountSaves, CountNewer, CountReader DEF StatisticsInv
<1> QED
  BY <1>2, <1>3, <1>4 DEF StatisticsInv

LEMMA StatisticsNext == StatisticsInv /\ [Next]_vars => StatisticsInv'
<1> SUFFICES ASSUME StatisticsInv, [Next]_vars PROVE StatisticsInv'
  OBVIOUS
<1>0. now \in Nat \ {0} /\ process \in {"up", "stopping", "down"}
  BY DEF StatisticsInv, TypesRight
<1>a. process = "down" => reader = NotReading
  BY DEF StatisticsInv, SavesRight
<1>1. ASSUME NEW batch \in Batches, Count([e \in batch |-> HourOf(e)]) PROVE StatisticsInv'
  BY <1>1, CountStep
<1>2. ASSUME NEW saver \in Savers, TakeChanges(saver) PROVE StatisticsInv'
  BY <1>2, TakeStep
<1>3. ASSUME NEW saver \in Savers, WriteActions(saver) \/ WriteServices(saver) PROVE StatisticsInv'
  BY <1>3, WriteIs, WroteStep DEF Tables
<1>4. CASE NothingToSave
  BY <1>4, NothingStep
<1>5. CASE SaveFails
  BY <1>5, FailStep
<1>6. CASE Gc
  BY <1>6, GcStep
<1>7. CASE BeginStop
  <2>1. ReaderRight'
    BY <1>7, ReaderStays DEF BeginStop, history, StatisticsInv
  <2> QED
    BY <1>0, <1>7, <2>1, StandStill DEF BeginStop, history
<1>8. CASE Exit \/ Crash
  BY <1>8, DieStep DEF Exit, Crash
<1>9. CASE Start
  BY <1>9, StartStep
<1>10. CASE Tick
  <2>1. ReaderRight'
    BY <1>10, ReaderStays DEF Tick, history, StatisticsInv
  <2>2. now' \in Nat \ {0}
    BY <1>0, <1>10 DEF Tick
  <2> QED
    BY <1>0, <1>10, <1>a, <2>1, <2>2, StandStill DEF Tick, history
<1>11. ASSUME NEW q \in Queries, ReadMemory(q) PROVE StatisticsInv'
  <2>1. ReaderRight'
    BY <1>11, ReadStep
  <2> QED
    BY <1>0, <1>11, <2>1, StandStill DEF ReadMemory, history
<1>12. CASE ReadDatabase
  <2>1. ReaderRight'
    BY <1>12, ReadDatabaseStep
  <2>2. process # "down"
    BY <1>12, <1>a DEF ReadDatabase, NotReading
  <2> QED
    BY <1>0, <1>12, <2>1, <2>2, StandStill DEF ReadDatabase, history
<1>13. CASE Shown
  <2>1. ReaderRight'
    BY <1>13 DEF Shown, ReaderRight, NotReading
  <2> QED
    BY <1>0, <1>13, <2>1, StandStill DEF Shown, history
<1>14. CASE UNCHANGED vars
  <2>1. ReaderRight'
    BY <1>14, ReaderStays DEF vars, history, StatisticsInv
  <2> QED
    BY <1>0, <1>14, <1>a, <2>1, StandStill DEF vars, history
<1>15. "timer" \in Savers /\ "stop" \in Savers
  BY DEF Savers
<1> QED
  BY <1>1, <1>2, <1>3, <1>4, <1>5, <1>6, <1>7, <1>8, <1>9, <1>10, <1>11, <1>12, <1>13, <1>14, <1>15
     DEF Next, TimerSaves, StopSaves

-------------------------------------------------------------------------------
(* What the invariant says of the screens, the memory and the databases.    *)
(* Tables are exact in hours which they have all rows of, each whole.       *)
LEMMA WholeIsExact ==
  ASSUME NEW tables, NEW hours,
         \A t \in Tables :
           /\ \A key \in DOMAIN tables[t] : key[1] \in hours =>
                /\ key \in Keys(t) /\ EventsAt(counted, t, key) # {}
                /\ Counts(t, tables[t][key], EventsAt(counted, t, key))
           /\ \A e \in Events : counted[e] \in hours => KeyOf(t, counted, e) \in DOMAIN tables[t]
  PROVE  AreExact(tables, hours)
<1>1. ASSUME NEW t \in Tables
      PROVE  DOMAIN Of(tables[t], hours) =
               {KeyOf(t, counted, e) : e \in {e \in Events : counted[e] \in hours}}
  <2>1. \A key : key \in DOMAIN Of(tables[t], hours) <=> key \in DOMAIN tables[t] /\ key[1] \in hours
    BY DEF Of, Restrict
  <2>2. \A key \in DOMAIN tables[t] : key[1] \in hours =>
          \E e \in Events : counted[e] \in hours /\ KeyOf(t, counted, e) = key
    <3> SUFFICES ASSUME NEW key \in DOMAIN tables[t], key[1] \in hours
                 PROVE  \E e \in Events : counted[e] \in hours /\ KeyOf(t, counted, e) = key
      OBVIOUS
    <3>1. PICK e \in Events : KeyOf(t, counted, e) = key
      BY DEF EventsAt
    <3>2. counted[e] = key[1]
      BY <3>1, KeyParts
    <3> QED
      BY <3>1, <3>2
  <2>3. \A e \in Events : counted[e] \in hours =>
          KeyOf(t, counted, e) \in DOMAIN tables[t] /\ KeyOf(t, counted, e)[1] \in hours
    BY KeyParts
  <2> QED
    BY <2>1, <2>2, <2>3
<1>2. ASSUME NEW t \in Tables, NEW key \in DOMAIN Of(tables[t], hours)
      PROVE  IF t = "actions" THEN IsAction(tables[t][key], EventsOf(key))
                              ELSE IsService(tables[t][key], EventsOf(key))
  <2>1. key \in DOMAIN tables[t] /\ key[1] \in hours
    BY <1>2 DEF Of, Restrict
  <2>2. key \in Keys(t) /\ Counts(t, tables[t][key], EventsAt(counted, t, key))
    BY <2>1
  <2>3. IF t = "actions" THEN Len(key) = 3 ELSE Len(key) = 2
    BY <2>2 DEF Keys
  <2>4. EventsOf(key) = EventsAt(counted, t, key)
    BY <2>3 DEF EventsOf, EventsAt, KeyOf, Tables
  <2>5. EventsAt(counted, t, key) \in SUBSET Events
    BY DEF EventsAt
  <2> QED
    BY <2>2, <2>4, <2>5, CountsIsExact
<1>3. "actions" \in Tables /\ "services" \in Tables
  BY DEF Tables
<1>4. /\ DOMAIN Of(tables.actions, hours) =
           {ActionOf(counted, e) : e \in {e \in Events : counted[e] \in hours}}
      /\ DOMAIN Of(tables.services, hours) =
           {ServiceOf(counted, e) : e \in {e \in Events : counted[e] \in hours}}
  BY <1>1, <1>3 DEF KeyOf
<1>5. /\ \A key \in DOMAIN Of(tables.actions, hours) :
           IsAction(tables.actions[key], EventsOf(key))
      /\ \A key \in DOMAIN Of(tables.services, hours) :
           IsService(tables.services[key], EventsOf(key))
  BY <1>2, <1>3
<1> QED
  BY <1>4, <1>5 DEF AreExact

LEMMA MemoryIsExact == StatisticsInv => KeptHoursAreExact
<1> SUFFICES ASSUME StatisticsInv PROVE AreExact(cache, Hours(cache) \ spoiled)
  BY DEF KeptHoursAreExact
<1> DEFINE hours == Hours(cache) \ spoiled
<1>1. ASSUME NEW t \in Tables, NEW e \in Events, counted[e] \in hours
      PROVE  IsWhole(counted, t, cache[t], KeyOf(t, counted, e))
  BY <1>1 DEF StatisticsInv, CacheWhole
<1>2. ASSUME NEW t \in Tables, NEW key \in DOMAIN cache[t], key[1] \in hours
      PROVE  /\ key \in Keys(t) /\ EventsAt(counted, t, key) # {}
             /\ Counts(t, cache[t][key], EventsAt(counted, t, key))
  <2>1. RightTable(counted, t, cache[t])
    BY DEF StatisticsInv, TablesRight
  <2>2. key \in Keys(t) /\ EventsAt(counted, t, key) # {}
    BY <2>1, AtMostAll
  <2>3. PICK e \in Events : KeyOf(t, counted, e) = key
    BY <2>2 DEF EventsAt
  <2>4. counted[e] \in hours
    BY <1>2, <2>3, KeyParts
  <2> QED
    BY <1>1, <2>2, <2>3, <2>4 DEF IsWhole
<1> HIDE DEF hours
<1>3. AreExact(cache, hours)
  BY <1>1, <1>2, WholeIsExact DEF IsWhole
<1> QED
  BY <1>3 DEF hours

(* The row with the most events is the whole one, if one is.                *)
LEMMA NewestIsWhole ==
  ASSUME StatisticsInv, NEW t \in Tables,
         NEW e \in Events, counted[e] \notin spoiled \union {0}
  PROVE  LET key == KeyOf(t, counted, e)
         IN  /\ key \in DOMAIN Newest(Copies(t)) /\ key \in Keys(t)
             /\ Counts(t, Newest(Copies(t))[key], EventsAt(counted, t, key))
<1> DEFINE key == KeyOf(t, counted, e)
           With == {rows \in Copies(t) : key \in DOMAIN rows}
           Most(rows) == \A other \in With : rows[key].amount >= other[key].amount
           newest == CHOOSE rows \in With : Most(rows)
<1>1. PICK whole \in Copies(t) : IsWhole(counted, t, whole, key)
  BY DEF StatisticsInv, OneHasIt
<1>2. \A rows \in Copies(t) : RightTable(counted, t, rows)
  BY DEF StatisticsInv, TablesRight
<1>3. whole \in With /\ key \in DOMAIN whole
  BY <1>1 DEF IsWhole
<1>4. ASSUME NEW rows \in With
      PROVE  /\ key \in Keys(t)
             /\ rows[key].amount \in Nat /\ Cardinality(EventsAt(counted, t, key)) \in Nat
             /\ rows[key].amount <= Cardinality(EventsAt(counted, t, key))
             /\ IsWhole(counted, t, rows, key) <=>
                  rows[key].amount >= Cardinality(EventsAt(counted, t, key))
  BY <1>2, AtMostAll
<1>5. Newest(Copies(t)) = [k \in UNION {DOMAIN rows : rows \in Copies(t)} |->
         (CHOOSE rows \in {rows \in Copies(t) : k \in DOMAIN rows} :
            \A other \in {rows_1 \in Copies(t) : k \in DOMAIN rows_1} :
              rows[k].amount >= other[k].amount)[k]]
  BY DEF Newest
<1>6. key \in DOMAIN Newest(Copies(t)) /\ Newest(Copies(t))[key] = newest[key]
  BY <1>3, <1>5
<1> HIDE DEF key
<1>7. Most(whole)
  <2>1. whole[key].amount >= Cardinality(EventsAt(counted, t, key))
    BY <1>1, <1>3, <1>4
  <2> QED
    BY <1>3, <1>4, <2>1
<1>8. newest \in With /\ Most(newest)
  <2> HIDE DEF Most, With
  <2> QED
    BY <1>3, <1>7
<1>9. IsWhole(counted, t, newest, key)
  <2>1. newest[key].amount >= whole[key].amount
    BY <1>3, <1>8
  <2>2. whole[key].amount >= Cardinality(EventsAt(counted, t, key))
    BY <1>1, <1>3, <1>4
  <2> HIDE DEF newest, With, Most
  <2> QED
    BY <1>3, <1>4, <1>8, <2>1, <2>2
<1>10. key \in Keys(t)
  BY <1>3, <1>4
<1> QED
  BY <1>6, <1>9, <1>10 DEF IsWhole, key

LEMMA CountedIsSaved == StatisticsInv => NothingCountedIsLost
<1> SUFFICES ASSUME StatisticsInv
             PROVE  AreExact(OnTheirWay, {counted[e] : e \in Events} \ (spoiled \union {0}))
  BY DEF NothingCountedIsLost
<1> DEFINE hours == {counted[e] : e \in Events} \ (spoiled \union {0})
<1>0. \A t \in Tables : OnTheirWay[t] = Newest(Copies(t))
  BY DEF OnTheirWay, Copies, Tables
<1>1. ASSUME NEW t \in Tables, NEW e \in Events, counted[e] \in hours
      PROVE  /\ KeyOf(t, counted, e) \in DOMAIN OnTheirWay[t] /\ KeyOf(t, counted, e) \in Keys(t)
             /\ Counts(t, OnTheirWay[t][KeyOf(t, counted, e)],
                       EventsAt(counted, t, KeyOf(t, counted, e)))
  BY <1>0, <1>1, NewestIsWhole
<1>2. ASSUME NEW t \in Tables, NEW key \in DOMAIN OnTheirWay[t], key[1] \in hours
      PROVE  /\ key \in Keys(t) /\ EventsAt(counted, t, key) # {}
             /\ Counts(t, OnTheirWay[t][key], EventsAt(counted, t, key))
  <2>1. PICK rows \in Copies(t) : key \in DOMAIN rows
    <3>1. \A tables : DOMAIN Newest(tables) = UNION {DOMAIN rows : rows \in tables}
      BY DEF Newest
    <3>2. key \in DOMAIN Newest(Copies(t))
      BY <1>0, <1>2
    <3>3. key \in UNION {DOMAIN rows : rows \in Copies(t)}
      BY <3>1, <3>2
    <3> QED
      BY <3>3
  <2>2. RightTable(counted, t, rows)
    BY DEF StatisticsInv, TablesRight
  <2>3. EventsAt(counted, t, key) # {}
    BY <2>1, <2>2, AtMostAll
  <2>4. PICK e \in Events : KeyOf(t, counted, e) = key
    BY <2>3 DEF EventsAt
  <2>5. counted[e] \in hours
    BY <1>2, <2>4, KeyParts
  <2> QED
    BY <1>1, <2>3, <2>4, <2>5
<1> HIDE DEF hours
<1>3. AreExact(OnTheirWay, hours)
  BY <1>1, <1>2, WholeIsExact
<1> QED
  BY <1>3 DEF hours

(* The sums a screen shows, between what was counted before it asked and    *)
(* what is counted now.                                                     *)
LEMMA ScreenIsWhole == StatisticsInv => ScreensAreWhole
<1> SUFFICES ASSUME StatisticsInv, reader.at = "answered", reader.query.hour \notin spoiled,
                    ~ reader.behind
             PROVE  LET q == reader.query
                        shown == SumFunction([key \in DOMAIN reader.rows |-> reader.rows[key].amount])
                        Asking(some) == {e \in some : q.of = "services" \/ Data[e].service = q.service}
                    IN  /\ shown >= Cardinality(Asking(reader.before))
                        /\ shown <= Cardinality(Asking(Before(q)))
  BY DEF ScreensAreWhole
<1> DEFINE q == reader.query
           rows == reader.rows
           before == reader.before
           keys == DOMAIN rows
           fun == [key \in keys |-> rows[key].amount]
           part == [e \in Events |-> KeyOf(q.of, counted, e)]
           Asking(some) == {e \in some : q.of = "services" \/ Data[e].service = q.service}
           Part(some, key) == {e \in Asking(some) : part[e] = key}
           Size(some) == [key \in keys |-> Cardinality(Part(some, key))]
<1>1. /\ q \in Queries /\ before \subseteq Before(q)
      /\ RightTable(counted, q.of, rows) /\ HasAll(counted, rows, q, before)
      /\ \A key \in keys : key[1] = q.hour /\ (q.of = "actions" => key[2] = q.service)
  BY DEF StatisticsInv, ReaderRight
<1>2. q.of \in Tables /\ before \subseteq Events /\ Before(q) \subseteq Events
  BY <1>1, QueriesAre DEF Before
<1>3. \A some \in SUBSET Events : IsFiniteSet(some) /\ Cardinality(some) \in Nat
  BY DurationsAreNat
<1>4. \A key \in keys : /\ fun[key] = rows[key].amount /\ fun[key] \in Nat
                        /\ EventsAt(counted, q.of, key) # {}
                        /\ fun[key] <= Cardinality(EventsAt(counted, q.of, key))
  <2>1. \A key \in keys : fun[key] = rows[key].amount
    OBVIOUS
  <2> HIDE DEF fun
  <2> QED
    <3> SUFFICES ASSUME NEW key \in DOMAIN reader.rows
                 PROVE  /\ EventsAt(counted, q.of, key) # {} /\ rows[key].amount \in Nat
                        /\ rows[key].amount <= Cardinality(EventsAt(counted, q.of, key))
      BY <2>1
    <3>1. q.of \in Tables /\ RightTable(counted, q.of, reader.rows)
      BY <1>1, <1>2
    <3> QED
      BY <3>1, AtMostAll
<1>5. IsFiniteSet(keys)
  <2> DEFINE some == {e \in Events : part[e] \in keys}
             map == [e \in some |-> part[e]]
  <2>1. \A key \in keys : \E e \in some : part[e] = key
    BY <1>4 DEF EventsAt
  <2>2. \A e \in some : map[e] \in keys
    OBVIOUS
  <2>3. \A key \in keys : \E e \in some : map[e] = key
    BY <2>1
  <2>4. map \in [some -> keys]
    BY <2>2
  <2>5. IsFiniteSet(some)
    BY <1>3
  <2> HIDE DEF map, some, keys
  <2>6. map \in Surjection(some, keys)
    BY <2>3, <2>4 DEF Surjection
  <2> QED
    BY <2>5, <2>6, FS_Surjection
<1>6. \A some \in SUBSET Events : /\ Asking(some) \in SUBSET some /\ IsFiniteSet(Asking(some))
                                  /\ \A key : Part(some, key) \in SUBSET Events
  BY <1>3
<1>7. \A some \in SUBSET Events :
        SumFunctionOnSet(Size(some), keys) = Cardinality({e \in Asking(some) : part[e] \in keys})
  <2> SUFFICES ASSUME NEW some \in SUBSET Events
               PROVE  SumFunctionOnSet(Size(some), keys)
                        = Cardinality({e \in Asking(some) : part[e] \in keys})
    OBVIOUS
  <2>1. IsFiniteSet(Asking(some))
    BY <1>6
  <2> HIDE DEF keys, part, Asking
  <2> QED
    BY <1>5, <2>1, SumOfParts
<1>8. \A some \in SUBSET Events : \A key \in keys :
        Size(some)[key] = Cardinality(Part(some, key)) /\ Size(some)[key] \in Nat
  BY <1>3, <1>6
(* No row has more than what is counted now. *)
<1>9. SumFunctionOnSet(fun, keys) <= Cardinality(Asking(Before(q)))
  <2>1. ASSUME NEW key \in keys PROVE Part(Before(q), key) = EventsAt(counted, q.of, key)
    <3>1. ASSUME NEW e \in Events, KeyOf(q.of, counted, e) = key
          PROVE  e \in Before(q) /\ (q.of = "services" \/ Data[e].service = q.service)
      <4>1. counted[e] = q.hour
        BY <1>1, <1>2, <3>1, KeyParts
      <4>2. CASE q.of = "actions"
        BY <1>1, <3>1, <4>1, <4>2 DEF KeyOf, ActionOf, Before
      <4>3. CASE q.of # "actions"
        BY <1>2, <4>1, <4>3 DEF Before, Tables
      <4> QED
        BY <4>2, <4>3
    <3> QED
      BY <1>2, <3>1 DEF EventsAt
  <2>2. \A key \in keys : /\ fun[key] \in Nat /\ Size(Before(q))[key] \in Nat
                          /\ fun[key] <= Size(Before(q))[key]
    <3> HIDE DEF fun, Size, Part, keys
    <3> QED
      BY <1>2, <1>4, <1>8, <2>1
  <2>3. SumFunctionOnSet(fun, keys) <= SumFunctionOnSet(Size(Before(q)), keys)
    <3> HIDE DEF fun, Size, Part, keys
    <3> QED
      BY <1>5, <2>2, SumGrows
  <2>4. SumFunctionOnSet(Size(Before(q)), keys) <= Cardinality(Asking(Before(q)))
    <3> DEFINE all == Asking(Before(q))
               some == {e \in all : part[e] \in keys}
    <3>1. SumFunctionOnSet(Size(Before(q)), keys) = Cardinality(some)
      BY <1>2, <1>7
    <3>2. IsFiniteSet(all) /\ some \in SUBSET all
      BY <1>2, <1>6
    <3> HIDE DEF all, some
    <3>3. Cardinality(some) <= Cardinality(all)
      BY <3>2, FS_Subset
    <3> QED
      BY <3>1, <3>3 DEF all
  <2>5. /\ SumFunctionOnSet(fun, keys) \in Nat /\ Cardinality(Asking(Before(q))) \in Nat
        /\ SumFunctionOnSet(Size(Before(q)), keys) \in Nat
    <3>1. SumFunctionOnSet(fun, keys) \in Nat
      <4> HIDE DEF fun, keys
      <4> QED
        BY <1>4, <1>5, SumIsNat
    <3>2. Cardinality(Asking(Before(q))) \in Nat
      BY <1>2, <1>3, <1>6
    <3>3. SumFunctionOnSet(Size(Before(q)), keys) \in Nat
      <4> HIDE DEF Size, keys
      <4> QED
        BY <1>2, <1>5, <1>8, SumIsNat
    <3> QED
      BY <3>1, <3>2, <3>3
  <2> HIDE DEF fun, Size, Asking, keys
  <2> QED
    BY <2>3, <2>4, <2>5
(* The rows have what was counted before the screen asked. *)
<1>10. SumFunctionOnSet(fun, keys) >= Cardinality(Asking(before))
  <2>1. ASSUME NEW e \in Asking(before)
        PROVE  /\ part[e] \in keys
               /\ rows[part[e]].amount >=
                    Cardinality(EventsAt(counted, q.of, part[e]) \intersect before)
    <3>1. e \in Events /\ e \in before /\ IsAsked(q, e)
      BY <1>2 DEF IsAsked
    <3>2. part[e] = KeyOf(q.of, counted, e)
      BY <3>1
    <3> HIDE DEF part
    <3> QED
      BY <1>1, <3>1, <3>2 DEF HasAll
  <2>2. ASSUME NEW key \in keys
        PROVE  /\ fun[key] \in Nat /\ Size(before)[key] \in Nat
               /\ Size(before)[key] <= fun[key]
    <3>1. Size(before)[key] = Cardinality(Part(before, key)) /\ Size(before)[key] \in Nat
      BY <1>2, <1>8
    <3>2. CASE Part(before, key) = {}
      <4>1. fun[key] \in Nat
        BY <1>4
      <4> HIDE DEF fun, Size, Part
      <4> QED
        BY <3>1, <3>2, <4>1, FS_EmptySet
    <3>3. CASE Part(before, key) # {}
      <4>1. PICK e \in Asking(before) : part[e] = key
        BY <3>3
      <4> DEFINE all == EventsAt(counted, q.of, key) \intersect before
      <4>2. rows[key].amount >= Cardinality(all)
        BY <2>1, <4>1
      <4>3. Part(before, key) \in SUBSET all /\ all \in SUBSET Events
        BY <1>2 DEF EventsAt
      <4> HIDE DEF all
      <4>4. /\ Cardinality(all) \in Nat
            /\ Cardinality(Part(before, key)) <= Cardinality(all)
        BY <1>3, <4>3, FS_Subset
      <4>5. fun[key] \in Nat /\ fun[key] = rows[key].amount
        BY <1>4
      <4> HIDE DEF fun, Size, Part
      <4> QED
        BY <3>1, <4>2, <4>4, <4>5
    <3> QED
      BY <3>2, <3>3
  <2>3. SumFunctionOnSet(Size(before), keys) <= SumFunctionOnSet(fun, keys)
    <3> HIDE DEF fun, Size, Part, keys
    <3> QED
      BY <1>5, <2>2, SumGrows
  <2>4. {e \in Asking(before) : part[e] \in keys} = Asking(before)
    <3> HIDE DEF keys, part, Asking
    <3> QED
      BY <2>1
  <2>5. SumFunctionOnSet(Size(before), keys) = Cardinality(Asking(before))
    BY <1>2, <1>7, <2>4
  <2>6. SumFunctionOnSet(fun, keys) \in Nat /\ Cardinality(Asking(before)) \in Nat
    <3>1. SumFunctionOnSet(fun, keys) \in Nat
      <4> HIDE DEF fun, keys
      <4> QED
        BY <1>4, <1>5, SumIsNat
    <3>2. Cardinality(Asking(before)) \in Nat
      BY <1>2, <1>3, <1>6
    <3> QED
      BY <3>1, <3>2
  <2> HIDE DEF fun, Size, Asking, keys
  <2> QED
    BY <2>3, <2>5, <2>6
<1>11. SumFunction(fun) = SumFunctionOnSet(fun, keys)
  <2>1. DOMAIN fun = keys
    OBVIOUS
  <2> HIDE DEF fun, keys
  <2> QED
    BY <2>1 DEF SumFunction
<1> QED
  BY <1>9, <1>10, <1>11

-------------------------------------------------------------------------------
(* The memory has of an hour everything which was counted under it, after   *)
(* any passes, saves, hours let go of and restarts: the sums, the smallest  *)
(* and the largest, for all events, batches and clocks.                     *)
THEOREM KeptHoursStayExact == Spec => []KeptHoursAreExact
<1> QED
  BY StatisticsInit, StatisticsNext, MemoryIsExact, PTL DEF Spec

(* What was counted is in the databases, or on its way to them: neither a   *)
(* save nor two of them side by side nor an hour which leaves the memory    *)
(* loses a row, but for the hours named in `spoiled`.                       *)
THEOREM CountedStaysSaved == Spec => []NothingCountedIsLost
<1> QED
  BY StatisticsInit, StatisticsNext, CountedIsSaved, PTL DEF Spec

(* A screen shows no less than what was counted before it asked, and no     *)
(* more than what is counted now, wherever its rows come from.              *)
THEOREM ScreensStayWhole == Spec => []ScreensAreWhole
<1> QED
  BY StatisticsInit, StatisticsNext, ScreenIsWhole, PTL DEF Spec
===============================================================================
