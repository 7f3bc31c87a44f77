------------------------------ MODULE FoldLemmas ------------------------------
(***************************************************************************)
(* What the proofs about folds, sums, orders and recursive functions rest  *)
(* on: induction with a set for the predicate, and the facts of the        *)
(* operators of the community modules the models are built from.           *)
(***************************************************************************)
EXTENDS Integers, Sequences, SequencesExt, Functions, FiniteSetTheorems, WellFoundedInduction, TLAPS

(* Induction, with a set for the predicate. *)
LEMMA NatInd ==
  ASSUME NEW Good \in SUBSET Nat, 0 \in Good, \A n \in Good : n + 1 \in Good
  PROVE  Good = Nat
<1> DEFINE Less == OpToRel(<, Nat)
           Bad == Nat \ Good
<1>1. SUFFICES ASSUME Bad # {} PROVE FALSE
  OBVIOUS
<1>2. \E m \in Bad : \A k \in Bad : <<k, m>> \notin Less
  <2> HIDE DEF Less, Bad
  <2>1. IsWellFoundedOn(Less, Nat) /\ Bad \subseteq Nat
    BY NatLessThanWellFounded DEF Less, Bad
  <2> QED
    BY <1>1, <2>1, WFMin
<1>3. \A k, m \in Nat : k < m => <<k, m>> \in Less
  BY DEF OpToRel
<1> HIDE DEF Less
<1>4. PICK m \in Bad : \A k \in Bad : ~ (k < m)
  BY <1>2, <1>3
<1>5. m # 0 /\ m - 1 \in Nat /\ m - 1 \notin Bad
  BY <1>4
<1> QED
  BY <1>4, <1>5

LEMMA SubsetInd ==
  ASSUME NEW S, IsFiniteSet(S), NEW Good \in SUBSET (SUBSET S), {} \in Good,
         \A s \in SUBSET S : s # {} /\ (\A x \in s : s \ {x} \in Good) => s \in Good
  PROVE  Good = SUBSET S
<1> DEFINE OfSize == {n \in Nat : \A s \in SUBSET S : Cardinality(s) = n => s \in Good}
<1>1. \A s \in SUBSET S : IsFiniteSet(s) /\ Cardinality(s) \in Nat
  BY FS_Subset, FS_CardinalityType
<1>2. 0 \in OfSize
  BY <1>1, FS_EmptySet
<1>3. ASSUME NEW n \in OfSize PROVE n + 1 \in OfSize
  <2>1. ASSUME NEW s \in SUBSET S, Cardinality(s) = n + 1 PROVE s \in Good
    <3>1. s # {}
      BY <2>1, <1>1, FS_EmptySet
    <3>2. ASSUME NEW x \in s PROVE s \ {x} \in Good
      <4>1. Cardinality(s \ {x}) = Cardinality(s) - 1
        BY <1>1, FS_RemoveElement
      <4>2. Cardinality(s \ {x}) = n
        BY <4>1, <2>1
      <4> QED
        BY <4>2
    <3> QED
      BY <3>1, <3>2
  <2> QED
    BY <2>1
<1>4. OfSize = Nat
  <2> HIDE DEF OfSize
  <2>1. OfSize \subseteq Nat
    BY DEF OfSize
  <2> QED
    BY <1>2, <1>3, <2>1, NatInd
<1> QED
  BY <1>1, <1>4

(* A fold is a recursive function on the subsets, and there is one: for the *)
(* subsets of at most n elements there is one for every n.                  *)
IsFold(iter, S, A, base, pick, op) ==
  /\ iter \in [SUBSET S -> A]
  /\ iter = [s \in SUBSET S |-> IF s = {} THEN base ELSE op[<<pick[s], iter[s \ {pick[s]}]>>]]

LEMMA FoldExists ==
  ASSUME NEW S, IsFiniteSet(S), NEW A, NEW base \in A,
         NEW pick, \A s \in SUBSET S : s # {} => pick[s] \in s,
         NEW op \in [S \X A -> A]
  PROVE  \E iter : IsFold(iter, S, A, base, pick, op)
<1> DEFINE Small(n) == {s \in SUBSET S : Cardinality(s) <= n}
           Fits(n, f) ==
             \A s \in Small(n) : f[s] = IF s = {} THEN base
                                        ELSE op[<<pick[s], f[s \ {pick[s]}]>>]
           Good == {n \in Nat : \E f \in [Small(n) -> A] : Fits(n, f)}
<1>0. \A s \in SUBSET S : /\ IsFiniteSet(s) /\ Cardinality(s) \in Nat
                          /\ Cardinality(s) = 0 <=> s = {}
  BY FS_Subset, FS_CardinalityType, FS_EmptySet
<1>1. 0 \in Good
  <2>1. \A s \in Small(0) : s = {}
    BY <1>0
  <2>2. [s \in Small(0) |-> base] \in [Small(0) -> A] /\ Fits(0, [s \in Small(0) |-> base])
    BY <2>1
  <2> QED
    BY <2>2
<1>2. ASSUME NEW n \in Good PROVE n + 1 \in Good
  <2>1. PICK f \in [Small(n) -> A] : Fits(n, f)
    OBVIOUS
  <2>2. \A s \in Small(n + 1) : s # {} => s \ {pick[s]} \in Small(n)
    <3> SUFFICES ASSUME NEW s \in Small(n + 1), s # {} PROVE s \ {pick[s]} \in Small(n)
      OBVIOUS
    <3>1. Cardinality(s \ {pick[s]}) = Cardinality(s) - 1
      BY <1>0, FS_RemoveElement
    <3> QED
      BY <3>1, <1>0
  <2>3. \A s \in Small(n) : s \in Small(n + 1)
    BY <1>0
  <2> DEFINE g == [s \in Small(n + 1) |-> IF s = {} THEN base
                                         ELSE op[<<pick[s], f[s \ {pick[s]}]>>]]
  <2>4. g \in [Small(n + 1) -> A]
    BY <2>2
  <2>5. \A s \in Small(n) : g[s] = f[s]
    BY <2>1, <2>3
  <2>6. Fits(n + 1, g)
    BY <2>2, <2>5
  <2> HIDE DEF g, Small, Fits
  <2> QED
    BY <2>4, <2>6
<1>3. Good = Nat
  <2> HIDE DEF Good
  <2>1. Good \subseteq Nat
    BY DEF Good
  <2> QED
    BY <1>1, <1>2, <2>1, NatInd
<1>4. Cardinality(S) \in Nat /\ \A s \in SUBSET S : Cardinality(s) <= Cardinality(S)
  BY FS_Subset, FS_CardinalityType
<1>5. SUBSET S = Small(Cardinality(S))
  BY <1>4
<1>6. PICK f \in [Small(Cardinality(S)) -> A] : Fits(Cardinality(S), f)
  BY <1>3, <1>4
<1>7. f \in [SUBSET S -> A]
  BY <1>5, <1>6
<1>8. \A s \in SUBSET S : f[s] = IF s = {} THEN base ELSE op[<<pick[s], f[s \ {pick[s]}]>>]
  BY <1>5, <1>6
<1>9. f = [s \in SUBSET S |-> IF s = {} THEN base ELSE op[<<pick[s], f[s \ {pick[s]}]>>]]
  BY <1>7, <1>8
<1> QED
  BY <1>7, <1>9 DEF IsFold

-------------------------------------------------------------------------------
(* The sum of a function over a finite set does not depend on the order.   *)
AnyOf(s) == CHOOSE x \in s : TRUE

SumsUp(iter, S, fun) ==
  /\ iter \in [SUBSET S -> Nat]
  /\ \A s \in SUBSET S : iter[s] = IF s = {} THEN 0 ELSE fun[AnyOf(s)] + iter[s \ {AnyOf(s)}]

LEMMA SumIsFold ==
  ASSUME NEW S, IsFiniteSet(S), NEW fun, \A x \in S : fun[x] \in Nat
  PROVE  \E iter : SumsUp(iter, S, fun) /\ SumFunctionOnSet(fun, S) = iter[S]
<1> DEFINE IsSum(f) == f = [s \in SUBSET S |-> IF s = {} THEN 0
                                               ELSE fun[AnyOf(s)] + f[s \ {AnyOf(s)}]]
           pick == [s \in SUBSET S |-> AnyOf(s)]
           op == [xn \in S \X Nat |-> fun[xn[1]] + xn[2]]
           iter == CHOOSE f : IsSum(f)
<1>0. \A s \in SUBSET S : s # {} => AnyOf(s) \in s
  BY DEF AnyOf
<1>1. \E f : IsSum(f)
  <2>1. op \in [S \X Nat -> Nat]
    OBVIOUS
  <2>2. \A s \in SUBSET S : s # {} => pick[s] \in s
    BY <1>0
  <2>3. PICK f : IsFold(f, S, Nat, 0, pick, op)
    <3> HIDE DEF op, pick
    <3> QED
      BY <2>1, <2>2, FoldExists
  <2>4. \A s \in SUBSET S : s # {} => op[<<pick[s], f[s \ {pick[s]}]>>] = fun[AnyOf(s)] + f[s \ {AnyOf(s)}]
    BY <1>0, <2>3 DEF IsFold
  <2> HIDE DEF op, pick
  <2>5. f = [s \in SUBSET S |-> IF s = {} THEN 0 ELSE op[<<pick[s], f[s \ {pick[s]}]>>]]
    BY <2>3 DEF IsFold
  <2>6. IsSum(f)
    BY <2>4, <2>5
  <2> QED
    BY <2>6
<1>2. IsSum(iter)
  <2> HIDE DEF IsSum
  <2> QED
    BY <1>1
<1>3. SumFunctionOnSet(fun, S) = iter[S]
  BY DEF SumFunctionOnSet, FoldFunctionOnSet, MapThenFoldSet, AnyOf
<1> HIDE DEF iter
<1>4. \A s \in SUBSET S : iter[s] = IF s = {} THEN 0 ELSE fun[AnyOf(s)] + iter[s \ {AnyOf(s)}]
  BY <1>2
<1> DEFINE Good == {s \in SUBSET S : iter[s] \in Nat}
<1>5. Good = SUBSET S
  <2>1. {} \in Good
    BY <1>4
  <2>2. ASSUME NEW s \in SUBSET S, s # {}, \A x \in s : s \ {x} \in Good
        PROVE  s \in Good
    <3>1. iter[s \ {AnyOf(s)}] \in Nat /\ fun[AnyOf(s)] \in Nat
      BY <1>0, <2>2
    <3>2. iter[s] = fun[AnyOf(s)] + iter[s \ {AnyOf(s)}]
      BY <1>4, <2>2
    <3>3. iter[s] \in Nat
      BY <3>1, <3>2
    <3> QED
      BY <3>3
  <2> HIDE DEF Good
  <2>3. Good \subseteq SUBSET S
    BY DEF Good
  <2> QED
    BY <2>1, <2>2, <2>3, SubsetInd
<1>6. iter \in [SUBSET S -> Nat]
  BY <1>2, <1>5
<1> QED
  BY <1>3, <1>4, <1>6 DEF SumsUp

LEMMA SumOfNone == ASSUME NEW fun PROVE SumFunctionOnSet(fun, {}) = 0
<1>1. IsFiniteSet({})
  BY FS_EmptySet
<1> QED
  BY <1>1, SumIsFold DEF SumsUp

LEMMA SumIsNat ==
  ASSUME NEW S, IsFiniteSet(S), NEW fun, \A x \in S : fun[x] \in Nat
  PROVE  SumFunctionOnSet(fun, S) \in Nat
<1>1. PICK f : SumsUp(f, S, fun) /\ SumFunctionOnSet(fun, S) = f[S]
  BY SumIsFold
<1> QED
  BY <1>1 DEF SumsUp

LEMMA SumOfAny ==
  ASSUME NEW S, IsFiniteSet(S), S # {}, NEW fun, \A x \in S : fun[x] \in Nat
  PROVE  SumFunctionOnSet(fun, S) = fun[AnyOf(S)] + SumFunctionOnSet(fun, S \ {AnyOf(S)})
<1> DEFINE T == S \ {AnyOf(S)}
<1>0. IsFiniteSet(T) /\ T \in SUBSET S
  BY FS_Subset
<1>a. \A s \in SUBSET S : s # {} => AnyOf(s) \in s
  BY DEF AnyOf
<1>1. PICK f : SumsUp(f, S, fun) /\ SumFunctionOnSet(fun, S) = f[S]
  BY SumIsFold
<1>2. PICK g : SumsUp(g, T, fun) /\ SumFunctionOnSet(fun, T) = g[T]
  <2>1. \A x \in T : fun[x] \in Nat
    OBVIOUS
  <2> HIDE DEF T
  <2> QED
    BY <1>0, <2>1, SumIsFold
<1> HIDE DEF T
<1> DEFINE Good == {s \in SUBSET T : f[s] = g[s]}
<1>3. Good = SUBSET T
  <2>1. {} \in Good
    BY <1>1, <1>2 DEF SumsUp
  <2>2. ASSUME NEW s \in SUBSET T, s # {}, \A x \in s : s \ {x} \in Good
        PROVE  s \in Good
    <3>1. s \in SUBSET S /\ AnyOf(s) \in s
      BY <1>0, <1>a, <2>2
    <3>2. f[s] = fun[AnyOf(s)] + f[s \ {AnyOf(s)}] /\ g[s] = fun[AnyOf(s)] + g[s \ {AnyOf(s)}]
      BY <1>1, <1>2, <2>2, <3>1 DEF SumsUp
    <3>3. f[s \ {AnyOf(s)}] = g[s \ {AnyOf(s)}]
      BY <3>1, <2>2
    <3> QED
      BY <2>2, <3>2, <3>3
  <2> HIDE DEF Good
  <2>3. Good \subseteq SUBSET T
    BY DEF Good
  <2> QED
    BY <1>0, <2>1, <2>2, <2>3, SubsetInd
<1>4. f[T] = g[T]
  BY <1>3
<1>5. f[S] = fun[AnyOf(S)] + f[T]
  BY <1>1 DEF SumsUp, T
<1>6. SumFunctionOnSet(fun, S) = fun[AnyOf(S)] + SumFunctionOnSet(fun, T)
  BY <1>1, <1>2, <1>4, <1>5
<1> QED
  BY <1>6 DEF T

LEMMA SumAdd ==
  ASSUME NEW S, IsFiniteSet(S), NEW fun, \A x \in S : fun[x] \in Nat, NEW x \in S
  PROVE  SumFunctionOnSet(fun, S) = fun[x] + SumFunctionOnSet(fun, S \ {x})
<1> DEFINE Sum(s) == SumFunctionOnSet(fun, s)
           Good == {s \in SUBSET S : \A y \in s : Sum(s) = fun[y] + Sum(s \ {y})}
<1>0. \A s \in SUBSET S : IsFiniteSet(s) /\ Sum(s) \in Nat
  BY FS_Subset, SumIsNat
<1>1. \A s \in SUBSET S : s # {} => AnyOf(s) \in s /\ Sum(s) = fun[AnyOf(s)] + Sum(s \ {AnyOf(s)})
  <2>1. \A s \in SUBSET S : s # {} => AnyOf(s) \in s
    BY DEF AnyOf
  <2> QED
    BY <2>1, <1>0, SumOfAny
<1> HIDE DEF Sum
<1>2. {} \in Good
  OBVIOUS
<1>3. ASSUME NEW s \in SUBSET S, s # {}, \A y \in s : s \ {y} \in Good
      PROVE  s \in Good
  <2> SUFFICES ASSUME NEW y \in s PROVE Sum(s) = fun[y] + Sum(s \ {y})
    OBVIOUS
  <2> DEFINE c == AnyOf(s)
             r == (s \ {y}) \ {c}
  <2>1. c \in s /\ Sum(s) = fun[c] + Sum(s \ {c})
    BY <1>1, <1>3
  <2> HIDE DEF c
  <2>2. CASE y = c
    BY <2>1, <2>2
  <2>3. CASE y # c
    <3>1. Sum(s \ {c}) = fun[y] + Sum((s \ {c}) \ {y})
      BY <1>3, <2>1, <2>3
    <3>2. Sum(s \ {y}) = fun[c] + Sum(r)
      BY <1>3, <2>1, <2>3
    <3>3. (s \ {c}) \ {y} = r
      OBVIOUS
    <3>4. fun[c] \in Nat /\ fun[y] \in Nat /\ Sum(r) \in Nat
      BY <1>0, <2>1
    <3>5. Sum(s \ {c}) = fun[y] + Sum(r)
      BY <3>1, <3>3
    <3> HIDE DEF r
    <3> QED
      BY <2>1, <3>2, <3>4, <3>5
  <2> QED
    BY <2>2, <2>3
<1>4. Good = SUBSET S
  <2> HIDE DEF Good
  <2>3. Good \subseteq SUBSET S
    BY DEF Good
  <2> QED
    BY <1>2, <1>3, <2>3, SubsetInd
<1>5. Sum(S) = fun[x] + Sum(S \ {x})
  BY <1>4
<1> QED
  BY <1>5 DEF Sum

LEMMA SumGrows ==
  ASSUME NEW S, IsFiniteSet(S), NEW f, NEW g,
         \A x \in S : f[x] \in Nat /\ g[x] \in Nat /\ f[x] <= g[x]
  PROVE  SumFunctionOnSet(f, S) <= SumFunctionOnSet(g, S)
<1> DEFINE Less(s) == SumFunctionOnSet(f, s) <= SumFunctionOnSet(g, s)
           Good == {s \in SUBSET S : Less(s)}
<1>0. \A s \in SUBSET S : /\ IsFiniteSet(s)
                          /\ SumFunctionOnSet(f, s) \in Nat /\ SumFunctionOnSet(g, s) \in Nat
  BY FS_Subset, SumIsNat
<1>1. {} \in Good
  BY SumOfNone
<1>2. ASSUME NEW s \in SUBSET S, s # {}, \A x \in s : s \ {x} \in Good
      PROVE  s \in Good
  <2> PICK x \in s : TRUE
    BY <1>2
  <2>1. /\ SumFunctionOnSet(f, s) = f[x] + SumFunctionOnSet(f, s \ {x})
        /\ SumFunctionOnSet(g, s) = g[x] + SumFunctionOnSet(g, s \ {x})
    BY <1>0, SumAdd
  <2>2. Less(s \ {x})
    BY <1>2
  <2>3. Less(s)
    BY <1>0, <2>1, <2>2
  <2> QED
    BY <2>3
<1>3. Good = SUBSET S
  <2> HIDE DEF Good
  <2>1. Good \subseteq SUBSET S
    BY DEF Good
  <2> QED
    BY <1>1, <1>2, <2>1, SubsetInd
<1> QED
  BY <1>3

(* The parts of a set have as much as the set. *)
LEMMA DisjointUnion ==
  ASSUME NEW P, NEW Q, IsFiniteSet(P), IsFiniteSet(Q), P \intersect Q = {}
  PROVE  /\ IsFiniteSet(P \union Q)
         /\ Cardinality(P \union Q) = Cardinality(P) + Cardinality(Q)
<1>1. Cardinality(P) \in Nat /\ Cardinality(Q) \in Nat /\ Cardinality(P \intersect Q) = 0
  BY FS_CardinalityType, FS_EmptySet
<1>2. /\ IsFiniteSet(P \union Q)
      /\ Cardinality(P \union Q) = Cardinality(P) + Cardinality(Q) - Cardinality(P \intersect Q)
  BY FS_Union
<1> QED
  BY <1>1, <1>2

LEMMA SumOfParts ==
  ASSUME NEW S, IsFiniteSet(S), NEW T, IsFiniteSet(T), NEW part
  PROVE  SumFunctionOnSet([x \in S |-> Cardinality({e \in T : part[e] = x})], S)
           = Cardinality({e \in T : part[e] \in S})
<1> DEFINE Part(x) == {e \in T : part[e] = x}
           In(s) == {e \in T : part[e] \in s}
           fun == [x \in S |-> Cardinality(Part(x))]
           Whole(s) == SumFunctionOnSet(fun, s) = Cardinality(In(s))
           Good == {s \in SUBSET S : Whole(s)}
<1>0. \A s : IsFiniteSet(In(s)) /\ IsFiniteSet(Part(s)) /\ Cardinality(Part(s)) \in Nat
  BY FS_Subset, FS_CardinalityType
<1>1. \A x \in S : fun[x] = Cardinality(Part(x)) /\ fun[x] \in Nat
  BY <1>0
<1>a. \A s, x : x \in s => In(s) = Part(x) \union In(s \ {x}) /\ Part(x) \intersect In(s \ {x}) = {}
  OBVIOUS
<1>b. In({}) = {}
  OBVIOUS
<1> HIDE DEF fun, In, Part
<1>2. {} \in Good
  BY <1>b, SumOfNone, FS_EmptySet
<1>3. ASSUME NEW s \in SUBSET S, s # {}, \A x \in s : s \ {x} \in Good
      PROVE  s \in Good
  <2> PICK x \in s : TRUE
    BY <1>3
  <2>0. IsFiniteSet(s)
    BY FS_Subset
  <2>1. SumFunctionOnSet(fun, s) = fun[x] + SumFunctionOnSet(fun, s \ {x})
    BY <1>1, <2>0, SumAdd
  <2>2. Whole(s \ {x})
    BY <1>3
  <2>3. Cardinality(In(s)) = Cardinality(Part(x)) + Cardinality(In(s \ {x}))
    BY <1>0, <1>a, DisjointUnion
  <2>4. Whole(s)
    BY <1>1, <2>1, <2>2, <2>3
  <2> QED
    BY <2>4
<1>4. Good = SUBSET S
  <2> HIDE DEF Good
  <2>1. Good \subseteq SUBSET S
    BY DEF Good
  <2> QED
    BY <1>2, <1>3, <2>1, SubsetInd
<1>5. Whole(S)
  BY <1>4
<1> QED
  BY <1>5 DEF fun, In, Part

-------------------------------------------------------------------------------
(* A recursive function on 0 .. N: there is one, and it stays in the set    *)
(* its steps stay in.                                                       *)
IsRecursion(f, N, base, op) ==
  f = [i \in 0 .. N |-> IF i = 0 THEN base ELSE op[<<i, f[i - 1]>>]]

LEMMA RecursionExists ==
  ASSUME NEW N \in Nat, NEW A, NEW base \in A, NEW op \in [(1 .. N) \X A -> A]
  PROVE  \E f \in [0 .. N -> A] : IsRecursion(f, N, base, op)
<1> DEFINE Fits(n, f) == f = [i \in 0 .. n |-> IF i = 0 THEN base ELSE op[<<i, f[i - 1]>>]]
           Good == {n \in Nat : n <= N => \E f \in [0 .. n -> A] : Fits(n, f)}
<1>1. 0 \in Good
  <2>1. [i \in 0 .. 0 |-> base] \in [0 .. 0 -> A] /\ Fits(0, [i \in 0 .. 0 |-> base])
    OBVIOUS
  <2> QED
    BY <2>1
<1>2. ASSUME NEW n \in Good PROVE n + 1 \in Good
  <2> SUFFICES ASSUME n + 1 <= N PROVE \E f \in [0 .. n + 1 -> A] : Fits(n + 1, f)
    OBVIOUS
  <2>1. PICK f \in [0 .. n -> A] : Fits(n, f)
    OBVIOUS
  <2> DEFINE g == [i \in 0 .. n + 1 |-> IF i <= n THEN f[i] ELSE op[<<n + 1, f[n]>>]]
  <2>2. <<n + 1, f[n]>> \in (1 .. N) \X A
    BY <2>1
  <2>3. g \in [0 .. n + 1 -> A]
    BY <2>1, <2>2
  <2>0. n \in Nat /\ n \in 0 .. n + 1 /\ n + 1 \in 0 .. n + 1 /\ ~(n + 1 <= n)
    OBVIOUS
  <2>4. g[0] = base /\ \A i \in 1 .. n : g[i] = op[<<i, g[i - 1]>>]
    <3>1. f[0] = base /\ \A i \in 1 .. n : f[i] = op[<<i, f[i - 1]>>]
      <4>1. 0 \in 0 .. n /\ \A i \in 1 .. n : i \in 0 .. n /\ i # 0
        BY <2>0
      <4> QED
        BY <2>1, <4>1
    <3>2. \A i \in 0 .. n : g[i] = f[i]
      BY <2>0
    <3>3. 0 \in 0 .. n /\ \A i \in 1 .. n : i \in 0 .. n /\ i - 1 \in 0 .. n
      BY <2>0
    <3> HIDE DEF g
    <3> QED
      BY <3>1, <3>2, <3>3
  <2>5. g[n + 1] = op[<<n + 1, g[n]>>]
    BY <2>0
  <2>6. \A i \in 0 .. n + 1 : g[i] = IF i = 0 THEN base ELSE op[<<i, g[i - 1]>>]
    <3> SUFFICES ASSUME NEW i \in 0 .. n + 1
                 PROVE  g[i] = IF i = 0 THEN base ELSE op[<<i, g[i - 1]>>]
      OBVIOUS
    <3>1. i = 0 \/ i \in 1 .. n \/ i = n + 1
      BY <2>0
    <3> HIDE DEF g
    <3>2. CASE i = n + 1
      <4>1. i # 0 /\ i - 1 = n
        BY <2>0, <3>2
      <4> QED
        BY <2>5, <3>2, <4>1
    <3>3. CASE i \in 1 .. n
      BY <2>0, <2>4, <3>3
    <3> QED
      BY <2>4, <3>1, <3>2, <3>3
  <2>7. g = [i \in 0 .. n + 1 |-> IF i = 0 THEN base ELSE op[<<i, g[i - 1]>>]]
    BY <2>6
  <2> QED
    BY <2>3, <2>7
<1>3. Good = Nat
  <2> HIDE DEF Good
  <2>1. Good \subseteq Nat
    BY DEF Good
  <2> QED
    BY <1>1, <1>2, <2>1, NatInd
<1> QED
  BY <1>3 DEF IsRecursion

LEMMA RecursionIn ==
  ASSUME NEW N \in Nat, NEW A, NEW base \in A, NEW op \in [(1 .. N) \X A -> A],
         NEW f, IsRecursion(f, N, base, op)
  PROVE  f \in [0 .. N -> A]
<1> DEFINE Good == {n \in Nat : n <= N => f[n] \in A}
<1>1. 0 \in Good
  BY DEF IsRecursion
<1>2. ASSUME NEW n \in Good PROVE n + 1 \in Good
  <2> SUFFICES ASSUME n + 1 <= N PROVE f[n + 1] \in A
    OBVIOUS
  <2>1. f[n + 1] = op[<<n + 1, f[n]>>] /\ <<n + 1, f[n]>> \in (1 .. N) \X A
    BY DEF IsRecursion
  <2> QED
    BY <2>1
<1>3. Good = Nat
  <2> HIDE DEF Good
  <2>1. Good \subseteq Nat
    BY DEF Good
  <2> QED
    BY <1>1, <1>2, <2>1, NatInd
<1>4. \A n \in 0 .. N : f[n] \in A
  <2> HIDE DEF Good
  <2>1. \A n \in 0 .. N : n \in Good /\ n <= N
    BY <1>3
  <2> QED
    BY <2>1 DEF Good
<1>5. DOMAIN f = 0 .. N /\ f = [i \in 0 .. N |-> f[i]]
  BY DEF IsRecursion
<1> QED
  BY <1>4, <1>5

(* A fold stays in the set its steps stay in. *)
LEMMA FoldIn ==
  ASSUME NEW S, IsFiniteSet(S), NEW A, NEW base \in A,
         NEW pick, \A s \in SUBSET S : s # {} => pick[s] \in s,
         NEW op \in [S \X A -> A], NEW iter,
         iter = [s \in SUBSET S |-> IF s = {} THEN base ELSE op[<<pick[s], iter[s \ {pick[s]}]>>]]
  PROVE  IsFold(iter, S, A, base, pick, op)
<1> DEFINE Good == {s \in SUBSET S : iter[s] \in A}
<1>1. {} \in Good
  OBVIOUS
<1>2. ASSUME NEW s \in SUBSET S, s # {}, \A x \in s : s \ {x} \in Good PROVE s \in Good
  <2>1. pick[s] \in s /\ iter[s \ {pick[s]}] \in A
    BY <1>2
  <2>2. iter[s] = op[<<pick[s], iter[s \ {pick[s]}]>>]
    BY <1>2
  <2> QED
    BY <2>1, <2>2
<1>3. Good = SUBSET S
  <2> HIDE DEF Good
  <2>1. Good \subseteq SUBSET S
    BY DEF Good
  <2> QED
    BY <1>1, <1>2, <2>1, SubsetInd
<1>4. iter \in [SUBSET S -> A]
  BY <1>3
<1> QED
  BY <1>4 DEF IsFold

(* The highest of a finite set of numbers, and the lowest. *)
LEMMA MaxIs ==
  ASSUME NEW S, IsFiniteSet(S), S \subseteq Int, S # {}
  PROVE  Max(S) \in S /\ \A x \in S : x <= Max(S)
<1> DEFINE Has(s) == s = {} \/ \E m \in s : \A x \in s : x <= m
           Good == {s \in SUBSET S : Has(s)}
<1>1. {} \in Good
  OBVIOUS
<1>2. ASSUME NEW s \in SUBSET S, s # {}, \A x \in s : s \ {x} \in Good PROVE s \in Good
  <2>1. PICK y \in s : TRUE
    BY <1>2
  <2>2. Has(s \ {y})
    BY <1>2, <2>1
  <2> QED
    BY <2>1, <2>2
<1>3. Good = SUBSET S
  <2> HIDE DEF Good
  <2>1. Good \subseteq SUBSET S
    BY DEF Good
  <2> QED
    BY <1>1, <1>2, <2>1, SubsetInd
<1>4. \E m \in S : \A x \in S : x <= m
  BY <1>3
<1> QED
  BY <1>4 DEF Max

LEMMA MinIs ==
  ASSUME NEW S, S \subseteq Nat, S # {}
  PROVE  Min(S) \in S /\ \A x \in S : Min(S) <= x
<1> DEFINE Good == {n \in Nat : (\E x \in S : x <= n) => \E m \in S : \A x \in S : m <= x}
<1>1. 0 \in Good
  OBVIOUS
<1>2. ASSUME NEW n \in Good PROVE n + 1 \in Good
  OBVIOUS
<1>3. Good = Nat
  <2> HIDE DEF Good
  <2>1. Good \subseteq Nat
    BY DEF Good
  <2> QED
    BY <1>1, <1>2, <2>1, NatInd
<1>4. \E m \in S : \A x \in S : m <= x
  <2>1. PICK n \in S : TRUE
    OBVIOUS
  <2> HIDE DEF Good
  <2>2. n \in Good /\ n <= n
    BY <1>3
  <2> QED
    BY <2>2 DEF Good
<1> QED
  BY <1>4 DEF Min

(* The elements of a finite set in a strict order: each has its rank.      *)
IsOrder(R, S) ==
  /\ \A x \in S : <<x, x>> \notin R
  /\ \A x, y \in S : x # y => <<x, y>> \in R \/ <<y, x>> \in R
  /\ \A x, y, z \in S : <<x, y>> \in R /\ <<y, z>> \in R => <<x, z>> \in R
RankIn(R, S, x) == Cardinality({y \in S : <<y, x>> \in R})

LEMMA Ranks ==
  ASSUME NEW S, IsFiniteSet(S), NEW R, IsOrder(R, S)
  PROVE  /\ Cardinality(S) \in Nat
         /\ \A i \in 1 .. Cardinality(S) : \E x \in S : RankIn(R, S, x) = i - 1
         /\ \A x \in S : RankIn(R, S, x) \in 0 .. Cardinality(S) - 1
         /\ \A x, y \in S : <<x, y>> \in R <=> RankIn(R, S, x) < RankIn(R, S, y)
<1> DEFINE below(x) == {y \in S : <<y, x>> \in R}
           n == Cardinality(S)
           rank == [x \in S |-> Cardinality(below(x)) + 1]
<1>1. /\ n \in Nat
      /\ \A x \in S : IsFiniteSet(below(x)) /\ Cardinality(below(x)) \in Nat
  BY FS_Subset, FS_CardinalityType
<1>2. ASSUME NEW x \in S, NEW y \in S, <<x, y>> \in R
      PROVE  Cardinality(below(x)) < Cardinality(below(y))
  <2>1. below(x) \subseteq below(y) \ {x} /\ x \in below(y)
    BY <1>2 DEF IsOrder
  <2>2. /\ Cardinality(below(y) \ {x}) = Cardinality(below(y)) - 1
        /\ IsFiniteSet(below(y) \ {x})
    BY <1>1, <2>1, FS_RemoveElement
  <2>3. Cardinality(below(x)) <= Cardinality(below(y) \ {x})
    BY <2>1, <2>2, FS_Subset
  <2> QED
    BY <1>1, <2>2, <2>3
<1>3. ASSUME NEW x \in S PROVE Cardinality(below(x)) \in 0 .. n - 1
  <2>1. below(x) \subseteq S \ {x}
    BY DEF IsOrder
  <2>2. Cardinality(S \ {x}) = n - 1 /\ IsFiniteSet(S \ {x})
    BY FS_RemoveElement
  <2>3. Cardinality(below(x)) <= Cardinality(S \ {x})
    BY <2>1, <2>2, FS_Subset
  <2> QED
    BY <1>1, <2>2, <2>3
<1>4. \A x, y \in S : <<x, y>> \in R <=> Cardinality(below(x)) < Cardinality(below(y))
  <2> SUFFICES ASSUME NEW x \in S, NEW y \in S,
                      Cardinality(below(x)) < Cardinality(below(y)), <<x, y>> \notin R
               PROVE  FALSE
    BY <1>2
  <2>1. <<y, x>> \in R \/ x = y
    BY DEF IsOrder
  <2> HIDE DEF below
  <2>2. Cardinality(below(x)) \in Nat /\ Cardinality(below(y)) \in Nat
    BY <1>1
  <2>3. <<y, x>> \in R => Cardinality(below(y)) < Cardinality(below(x))
    BY <1>2
  <2> QED
    BY <2>1, <2>2, <2>3
<1> HIDE DEF below, n
<1>5. rank \in [S -> 1 .. n]
  BY <1>1, <1>3
<1>6. \A x, y \in S : rank[x] = rank[y] => x = y
  <2> SUFFICES ASSUME NEW x \in S, NEW y \in S, rank[x] = rank[y], x # y PROVE FALSE
    OBVIOUS
  <2>1. <<x, y>> \in R \/ <<y, x>> \in R
    BY DEF IsOrder
  <2>2. Cardinality(below(x)) = Cardinality(below(y))
    BY <1>1
  <2> QED
    BY <1>1, <1>2, <2>1, <2>2
<1>7. rank \in Injection(S, 1 .. n)
  BY <1>5, <1>6 DEF Injection, IsInjective
<1>8. IsFiniteSet(1 .. n) /\ Cardinality(1 .. n) = n
  BY <1>1, FS_Interval
<1> HIDE DEF rank
<1>9. rank \in Surjection(S, 1 .. n)
  BY <1>7, <1>8, FS_Injection DEF n
<1>10. \A i \in 1 .. n : \E x \in S : rank[x] = i
  BY <1>9 DEF Surjection
<1>11. \A i \in 1 .. n : \E x \in S : Cardinality(below(x)) = i - 1
  <2> SUFFICES ASSUME NEW i \in 1 .. n PROVE \E x \in S : Cardinality(below(x)) = i - 1
    OBVIOUS
  <2>1. PICK x \in S : rank[x] = i
    BY <1>10
  <2>2. Cardinality(below(x)) = i - 1
    BY <1>1, <2>1 DEF rank
  <2> QED
    BY <2>2
<1>12. \A x \in S : RankIn(R, S, x) = Cardinality(below(x))
  BY DEF RankIn, below
<1> QED
  BY <1>1, <1>3, <1>4, <1>11, <1>12 DEF n

-------------------------------------------------------------------------------
(* Sequences one after another: where each of them starts, and what is      *)
(* there.                                                                   *)
Starts(start, ss) ==
  /\ start \in [1 .. Len(ss) + 1 -> Nat]
  /\ start[1] = 0
  /\ \A i \in 1 .. Len(ss) : start[i + 1] = start[i] + Len(ss[i])

LEMMA StartsExist ==
  ASSUME NEW X, NEW ss \in Seq(Seq(X))
  PROVE  \E start : Starts(start, ss)
<1> DEFINE N == Len(ss)
           op == [x \in (1 .. N) \X Nat |-> x[2] + Len(ss[x[1]])]
<1>1. N \in Nat /\ \A i \in 1 .. N : Len(ss[i]) \in Nat
  OBVIOUS
<1>2. op \in [(1 .. N) \X Nat -> Nat]
  BY <1>1
<1>3. \A i \in 1 .. N, k \in Nat : op[<<i, k>>] = k + Len(ss[i])
  BY <1>1
<1> HIDE DEF op, N
<1>4. PICK f \in [0 .. N -> Nat] : IsRecursion(f, N, 0, op)
  BY <1>1, <1>2, RecursionExists
<1>5. f[0] = 0 /\ \A i \in 1 .. N : f[i] = f[i - 1] + Len(ss[i])
  BY <1>1, <1>3, <1>4 DEF IsRecursion
<1> DEFINE start == [i \in 1 .. N + 1 |-> f[i - 1]]
<1>6. start \in [1 .. N + 1 -> Nat] /\ start[1] = 0
  BY <1>1, <1>5
<1>7. \A i \in 1 .. N : start[i + 1] = start[i] + Len(ss[i])
  <2> SUFFICES ASSUME NEW i \in 1 .. N PROVE start[i + 1] = start[i] + Len(ss[i])
    OBVIOUS
  <2>1. start[i + 1] = f[i] /\ start[i] = f[i - 1]
    BY <1>1
  <2> QED
    BY <1>5, <2>1
<1> HIDE DEF start
<1> QED
  BY <1>6, <1>7 DEF Starts, N

LEMMA FlattenIs ==
  ASSUME NEW X, NEW ss \in Seq(Seq(X)), NEW start, Starts(start, ss)
  PROVE  /\ FlattenSeq(ss) \in Seq(X)
         /\ Len(FlattenSeq(ss)) = start[Len(ss) + 1]
         /\ \A i \in 1 .. Len(ss) : \A j \in 1 .. Len(ss[i]) :
              /\ start[i] + j \in 1 .. Len(FlattenSeq(ss))
              /\ FlattenSeq(ss)[start[i] + j] = ss[i][j]
         /\ \A k \in 1 .. Len(FlattenSeq(ss)) :
              \E i \in 1 .. Len(ss) : \E j \in 1 .. Len(ss[i]) : k = start[i] + j
<1> DEFINE N == Len(ss)
           IsFlat(f) == f = [i \in 1 .. N |-> IF i = 1 THEN ss[i] ELSE f[i - 1] \o ss[i]]
           op == [x \in (1 .. N) \X Seq(X) |-> x[2] \o ss[x[1]]]
           flat == CHOOSE f : IsFlat(f)
<1>1. N \in Nat /\ \A i \in 1 .. N : ss[i] \in Seq(X) /\ Len(ss[i]) \in Nat
  OBVIOUS
<1>2. op \in [(1 .. N) \X Seq(X) -> Seq(X)]
  BY <1>1
<1>3. \A i \in 1 .. N, s \in Seq(X) : op[<<i, s>>] = s \o ss[i]
  BY <1>1
<1>4. \E f : IsFlat(f)
  <2> HIDE DEF op, N
  <2>1. PICK f \in [0 .. N -> Seq(X)] : IsRecursion(f, N, <<>>, op)
    <3>1. <<>> \in Seq(X)
      OBVIOUS
    <3> QED
      BY <1>1, <1>2, <3>1, RecursionExists
  <2>2. f[0] = <<>> /\ \A i \in 1 .. N : f[i] = f[i - 1] \o ss[i] /\ f[i - 1] \in Seq(X)
    <3>1. f[0] = <<>> /\ \A i \in 1 .. N : f[i] = op[<<i, f[i - 1]>>]
      BY <1>1, <2>1 DEF IsRecursion
    <3>2. \A i \in 1 .. N : f[i - 1] \in Seq(X)
      BY <1>1, <2>1
    <3> QED
      BY <1>3, <3>1, <3>2
  <2>3. 1 \in 1 .. N => f[1] = ss[1]
    <3>1. 1 \in 1 .. N => f[1] = f[0] \o ss[1] /\ ss[1] \in Seq(X)
      <4>1. 1 \in 1 .. N => f[1] = f[1 - 1] \o ss[1]
        BY <2>2
      <4> QED
        BY <1>1, <4>1
    <3>2. \A t \in Seq(X) : <<>> \o t = t
      OBVIOUS
    <3> QED
      BY <2>2, <3>1, <3>2
  <2> DEFINE g == [i \in 1 .. N |-> f[i]]
  <2>4. \A i \in 1 .. N : g[i] = IF i = 1 THEN ss[i] ELSE g[i - 1] \o ss[i]
    <3> SUFFICES ASSUME NEW i \in 1 .. N PROVE g[i] = IF i = 1 THEN ss[i] ELSE g[i - 1] \o ss[i]
      OBVIOUS
    <3>1. CASE i = 1
      BY <2>3, <3>1
    <3>2. CASE i # 1
      <4>1. i - 1 \in 1 .. N
        BY <1>1, <3>2
      <4> QED
        BY <2>2, <3>2, <4>1
    <3> QED
      BY <3>1, <3>2
  <2>5. IsFlat(g)
    BY <2>4
  <2> QED
    BY <2>5
<1>5. IsFlat(flat)
  <2> HIDE DEF IsFlat
  <2> QED
    BY <1>4
<1>6. FlattenSeq(ss) = IF N = 0 THEN ss ELSE flat[N]
  BY DEF FlattenSeq
<1> HIDE DEF flat, op
<1>7. \A i \in 1 .. N : flat[i] = IF i = 1 THEN ss[i] ELSE flat[i - 1] \o ss[i]
  BY <1>5
<1> HIDE DEF IsFlat
<1> DEFINE Whole(n) ==
             /\ flat[n] \in Seq(X) /\ Len(flat[n]) = start[n + 1]
             /\ \A i \in 1 .. n : \A j \in 1 .. Len(ss[i]) :
                  start[i] + j \in 1 .. start[n + 1] /\ flat[n][start[i] + j] = ss[i][j]
             /\ \A k \in 1 .. start[n + 1] :
                  \E i \in 1 .. n : \E j \in 1 .. Len(ss[i]) : k = start[i] + j
           Good == {n \in Nat : n \in 1 .. N => Whole(n)}
<1>8. /\ start[1] = 0 /\ \A i \in 1 .. N + 1 : start[i] \in Nat
      /\ \A i \in 1 .. N : start[i + 1] = start[i] + Len(ss[i])
  BY DEF Starts
<1> HIDE DEF N
<1>9. 0 \in Good
  BY <1>1
<1>10. ASSUME NEW n \in Good PROVE n + 1 \in Good
  <2>0. n \in Nat /\ (n \in 1 .. N => Whole(n))
    OBVIOUS
  <2> HIDE DEF Whole
  <2> SUFFICES ASSUME n + 1 \in 1 .. N PROVE Whole(n + 1)
    BY <2>0
  <2>1. CASE n = 0
    <3>1. flat[1] = ss[1] /\ start[2] = Len(ss[1]) /\ ss[1] \in Seq(X) /\ start[1] = 0
      BY <1>1, <1>7, <1>8, <2>1
    <3>2. Whole(1)
      BY <3>1 DEF Whole
    <3> QED
      BY <2>1, <3>2
  <2>2. CASE n # 0
    <3>1. n \in 1 .. N /\ n + 1 # 1 /\ (n + 1) - 1 = n
      BY <1>1, <2>0, <2>2
    <3> DEFINE a == flat[n]
               b == ss[n + 1]
               c == flat[n + 1]
               top == start[n + 1]
    <3>2. /\ a \in Seq(X) /\ Len(a) = top
          /\ \A i \in 1 .. n : \A j \in 1 .. Len(ss[i]) :
               start[i] + j \in 1 .. top /\ a[start[i] + j] = ss[i][j]
          /\ \A k \in 1 .. top : \E i \in 1 .. n : \E j \in 1 .. Len(ss[i]) : k = start[i] + j
      BY <2>0, <3>1 DEF Whole
    <3>3. c = a \o b /\ b \in Seq(X) /\ Len(b) \in Nat
      BY <1>1, <1>7, <3>1
    <3>4. start[(n + 1) + 1] = top + Len(b) /\ top \in Nat
      BY <1>1, <1>8, <2>0
    <3>a. Len(ss[n + 1]) = Len(b) /\ \A j : ss[n + 1][j] = b[j]
      OBVIOUS
    <3>b. start[n + 1] = top
      OBVIOUS
    <3> HIDE DEF a, b, top
    <3>5. /\ c \in Seq(X) /\ Len(c) = top + Len(b)
          /\ \A j \in 1 .. top : c[j] = a[j]
          /\ \A j \in 1 .. Len(b) : c[top + j] = b[j]
      <4>1. \A p, q \in Seq(X) : /\ p \o q \in Seq(X) /\ Len(p \o q) = Len(p) + Len(q)
                                /\ \A j \in 1 .. Len(p) : (p \o q)[j] = p[j]
                                /\ \A k \in 1 .. Len(q) : (p \o q)[Len(p) + k] = q[k]
        OBVIOUS
      <4> HIDE DEF c
      <4>2. /\ c \in Seq(X) /\ Len(c) = Len(a) + Len(b)
            /\ \A j \in 1 .. Len(a) : c[j] = a[j]
            /\ \A j \in 1 .. Len(b) : c[Len(a) + j] = b[j]
        <5>1. a \in Seq(X) /\ b \in Seq(X) /\ c = a \o b
          BY <3>2, <3>3
        <5> QED
          BY <4>1, <5>1
      <4>3. Len(a) = top
        BY <3>2
      <4> QED
        BY <4>2, <4>3
    <3> HIDE DEF c
    <3>6. ASSUME NEW i \in 1 .. n + 1, NEW j \in 1 .. Len(ss[i])
          PROVE  start[i] + j \in 1 .. top + Len(b) /\ c[start[i] + j] = ss[i][j]
      <4>1. CASE i \in 1 .. n
        <5>1. start[i] + j \in 1 .. top /\ a[start[i] + j] = ss[i][j]
          BY <3>2, <4>1
        <5>2. c[start[i] + j] = ss[i][j]
          BY <3>5, <5>1
        <5>3. 1 .. top \subseteq 1 .. top + Len(b)
          BY <3>3, <3>4
        <5> QED
          BY <5>1, <5>2, <5>3
      <4>2. CASE i = n + 1
        <5>1. j \in 1 .. Len(b) /\ ss[i][j] = b[j] /\ start[i] = top
          BY <3>a, <3>b, <4>2
        <5>2. c[start[i] + j] = ss[i][j]
          BY <3>5, <5>1
        <5>3. top + j \in 1 .. top + Len(b)
          <6>1. top \in Nat /\ Len(b) \in Nat
            BY <3>3, <3>4
          <6>2. j \in 1 .. Len(b)
            BY <5>1
          <6> QED
            BY <6>1, <6>2
        <5> QED
          BY <5>1, <5>2, <5>3
      <4> QED
        BY <2>0, <4>1, <4>2
    <3>7. ASSUME NEW k \in 1 .. top + Len(b)
          PROVE  \E i \in 1 .. n + 1 : \E j \in 1 .. Len(ss[i]) : k = start[i] + j
      <4>1. CASE k <= top
        <5>1. k \in 1 .. top /\ 1 .. n \subseteq 1 .. n + 1
          BY <2>0, <3>4, <4>1
        <5> QED
          BY <3>2, <5>1
      <4>2. CASE k > top
        <5>1. k - top \in 1 .. Len(b) /\ k = top + (k - top)
          BY <3>3, <3>4, <4>2
        <5>2. n + 1 \in 1 .. n + 1 /\ k - top \in 1 .. Len(ss[n + 1]) /\ k = start[n + 1] + (k - top)
          BY <2>0, <3>a, <3>b, <5>1
        <5> QED
          BY <5>2
      <4> QED
        BY <3>4, <3>3, <4>1, <4>2
    <3>8. flat[n + 1] \in Seq(X) /\ Len(flat[n + 1]) = start[(n + 1) + 1]
      BY <3>4, <3>5 DEF c
    <3>9. \A i \in 1 .. n + 1 : \A j \in 1 .. Len(ss[i]) :
             start[i] + j \in 1 .. start[(n + 1) + 1] /\ flat[n + 1][start[i] + j] = ss[i][j]
      BY <3>4, <3>6 DEF c
    <3>10. \A k \in 1 .. start[(n + 1) + 1] :
             \E i \in 1 .. n + 1 : \E j \in 1 .. Len(ss[i]) : k = start[i] + j
      BY <3>4, <3>7
    <3> QED
      BY <3>8, <3>9, <3>10 DEF Whole
  <2> QED
    BY <2>1, <2>2
<1> HIDE DEF Whole
<1>11. Good = Nat
  <2> HIDE DEF Good
  <2>1. Good \subseteq Nat
    BY DEF Good
  <2> QED
    BY <1>9, <1>10, <2>1, NatInd
<1>12. CASE N = 0
  <2>1. ss = <<>> /\ FlattenSeq(ss) = <<>> /\ Len(ss) = 0 /\ Len(FlattenSeq(ss)) = 0
    BY <1>6, <1>12 DEF N
  <2>2. \A i : i \notin 1 .. 0
    OBVIOUS
  <2>3. FlattenSeq(ss) \in Seq(X)
    <3>1. <<>> \in Seq(X)
      OBVIOUS
    <3> QED
      BY <2>1, <3>1, Zenon
  <2>4. start[Len(ss) + 1] = 0
    BY <1>8, <2>1
  <2> QED
    BY <2>1, <2>2, <2>3, <2>4
<1>13. CASE N # 0
  <2>1. N \in 1 .. N /\ N \in Good
    BY <1>1, <1>11, <1>13
  <2>2. Whole(N)
    BY <2>1
  <2>3. FlattenSeq(ss) = flat[N]
    BY <1>6, <1>13
  <2> QED
    BY <2>2, <2>3 DEF Whole, N
<1> QED
  BY <1>12, <1>13

LEMMA FlattenType ==
  ASSUME NEW X, NEW ss \in Seq(Seq(X))
  PROVE  FlattenSeq(ss) \in Seq(X)
<1>1. PICK start : Starts(start, ss)
  BY StartsExist
<1> QED
  BY <1>1, FlattenIs

(* The elements of a finite set one after another, in a strict order.      *)
Sorts(seq, S, R) ==
  /\ seq \in Seq(S) /\ Len(seq) = Cardinality(S)
  /\ \A x \in S : \E i \in 1 .. Len(seq) : seq[i] = x
  /\ \A i, j \in 1 .. Len(seq) : i < j <=> <<seq[i], seq[j]>> \in R

LEMMA SortedIs ==
  ASSUME NEW S, IsFiniteSet(S), NEW R, IsOrder(R, S), NEW seq,
         seq = [i \in 1 .. Cardinality(S) |-> CHOOSE x \in S : RankIn(R, S, x) = i - 1]
  PROVE  Sorts(seq, S, R)
<1> DEFINE n == Cardinality(S)
<1>1. /\ n \in Nat
      /\ \A i \in 1 .. n : \E x \in S : RankIn(R, S, x) = i - 1
      /\ \A x \in S : RankIn(R, S, x) \in 0 .. n - 1
      /\ \A x, y \in S : <<x, y>> \in R <=> RankIn(R, S, x) < RankIn(R, S, y)
  BY Ranks
<1> HIDE DEF n
<1>2. \A i \in 1 .. n : seq[i] \in S /\ RankIn(R, S, seq[i]) = i - 1
  <2> SUFFICES ASSUME NEW i \in 1 .. n PROVE seq[i] \in S /\ RankIn(R, S, seq[i]) = i - 1
    OBVIOUS
  <2>1. seq[i] = CHOOSE x \in S : RankIn(R, S, x) = i - 1
    BY DEF n
  <2>2. \E x \in S : RankIn(R, S, x) = i - 1
    BY <1>1
  <2> QED
    BY <2>1, <2>2
<1>3. DOMAIN seq = 1 .. n /\ seq = [i \in 1 .. n |-> seq[i]]
  BY DEF n
<1>4. seq \in [1 .. n -> S]
  BY <1>2, <1>3
<1>5. seq \in Seq(S) /\ Len(seq) = n
  <2>1. \A k \in Nat : \A f \in [1 .. k -> S] : f \in Seq(S) /\ Len(f) = k
    OBVIOUS
  <2>2. n \in Nat
    BY <1>1
  <2> QED
    BY <1>4, <2>1, <2>2, Zenon
<1>6. ASSUME NEW x \in S PROVE \E i \in 1 .. n : seq[i] = x
  <2> DEFINE i == RankIn(R, S, x) + 1
  <2>1. i \in 1 .. n /\ i - 1 = RankIn(R, S, x)
    BY <1>1
  <2>2. seq[i] \in S /\ RankIn(R, S, seq[i]) = RankIn(R, S, x)
    BY <1>2, <2>1
  <2> HIDE DEF i
  <2>3. \A y \in S : RankIn(R, S, y) = RankIn(R, S, x) => y = x
    <3> SUFFICES ASSUME NEW y \in S, RankIn(R, S, y) = RankIn(R, S, x) PROVE y = x
      OBVIOUS
    <3>1. <<y, x>> \notin R /\ <<x, y>> \notin R
      BY <1>1
    <3> QED
      BY <3>1 DEF IsOrder
  <2>4. seq[i] = x
    BY <2>2, <2>3, Zenon
  <2> QED
    BY <2>1, <2>4
<1>7. \A i, j \in 1 .. n : i < j <=> <<seq[i], seq[j]>> \in R
  <2> SUFFICES ASSUME NEW i \in 1 .. n, NEW j \in 1 .. n PROVE i < j <=> <<seq[i], seq[j]>> \in R
    OBVIOUS
  <2>1. <<seq[i], seq[j]>> \in R <=> i - 1 < j - 1
    BY <1>1, <1>2
  <2> QED
    BY <1>1, <2>1
<1> QED
  BY <1>5, <1>6, <1>7 DEF Sorts, n

LEMMA NoneTwice ==
  ASSUME NEW S, NEW R, IsOrder(R, S), NEW seq, Sorts(seq, S, R)
  PROVE  \A i, j \in 1 .. Len(seq) : seq[i] = seq[j] => i = j
<1> SUFFICES ASSUME NEW i \in 1 .. Len(seq), NEW j \in 1 .. Len(seq), seq[i] = seq[j] PROVE i = j
  OBVIOUS
<1>1. seq[i] \in S /\ <<seq[i], seq[j]>> \notin R /\ <<seq[j], seq[i]>> \notin R
  BY DEF Sorts, IsOrder
<1>2. ~(i < j) /\ ~(j < i)
  BY <1>1 DEF Sorts
<1> QED
  BY <1>2

(* Numbers by size. *)
Smaller == {p \in Int \X Int : p[1] < p[2]}
LEMMA SmallerIsAnOrder == ASSUME NEW S \in SUBSET Int PROVE IsOrder(Smaller, S)
BY DEF IsOrder, Smaller

(* A part of a sequence. *)
LEMMA PartIs ==
  ASSUME NEW X, NEW t \in Seq(X), NEW p \in Nat, NEW q \in 0 .. Len(t)
  PROVE  /\ SubSeq(t, p + 1, q) \in Seq(X)
         /\ Len(SubSeq(t, p + 1, q)) = IF q < p THEN 0 ELSE q - p
         /\ \A j \in 1 .. q - p : p + j \in 1 .. Len(t) /\ SubSeq(t, p + 1, q)[j] = t[p + j]
<1>1. SubSeq(t, p + 1, q) \in Seq(X)
  OBVIOUS
<1>2. CASE q < p
  <2>1. Len(SubSeq(t, p + 1, q)) = 0
    BY <1>2
  <2> QED
    BY <1>1, <1>2, <2>1
<1>3. CASE q >= p
  <2>1. Len(SubSeq(t, p + 1, q)) = q - p
    BY <1>3
  <2>2. ASSUME NEW j \in 1 .. q - p
        PROVE  p + j \in 1 .. Len(t) /\ SubSeq(t, p + 1, q)[j] = t[p + j]
    BY <1>3
  <2>3. ~(q < p)
    BY <1>3
  <2> HIDE <1>3
  <2> QED
    BY <1>1, <2>1, <2>2, <2>3
<1> QED
  BY <1>2, <1>3

-------------------------------------------------------------------------------
(* A fold over a sequence is one over the places of the sequence, from the  *)
(* highest down: it exists when the steps stay in a set, and stays in it.   *)
Highest(n) == [s \in SUBSET (1 .. n) |-> Max(s)]

LEMMA HighestIs ==
  ASSUME NEW n \in Nat
  PROVE  /\ IsFiniteSet(1 .. n)
         /\ \A s \in SUBSET (1 .. n) : s # {} => Max(s) \in s /\ Highest(n)[s] = Max(s)
<1>1. IsFiniteSet(1 .. n)
  BY FS_Interval
<1>2. ASSUME NEW s \in SUBSET (1 .. n), s # {}
      PROVE  Max(s) \in s /\ Highest(n)[s] = Max(s)
  <2>1. s \subseteq Int
    OBVIOUS
  <2>2. IsFiniteSet(s)
    BY <1>1, FS_Subset
  <2> QED
    BY <1>2, <2>1, <2>2, MaxIs DEF Highest
<1> QED
  BY <1>1, <1>2

IsLeftFold(f, n, A, base, op) ==
  /\ f \in [SUBSET (1 .. n) -> A]
  /\ f = [s \in SUBSET (1 .. n) |-> IF s = {} THEN base ELSE op[<<Max(s), f[s \ {Max(s)}]>>]]

LEMMA LeftFoldExists ==
  ASSUME NEW n \in Nat, NEW A, NEW base \in A, NEW op \in [(1 .. n) \X A -> A]
  PROVE  \E f : IsLeftFold(f, n, A, base, op)
<1> DEFINE S == 1 .. n
<1>1. IsFiniteSet(S) /\ \A s \in SUBSET S : s # {} => Highest(n)[s] \in s
  BY HighestIs
<1>2. PICK f : IsFold(f, S, A, base, Highest(n), op)
  <2> HIDE DEF S
  <2>1. op \in [S \X A -> A]
    BY DEF S
  <2> QED
    BY <1>1, <2>1, FoldExists
<1>3. \A s \in SUBSET S : s # {} => Highest(n)[s] = Max(s)
  BY HighestIs
<1> HIDE DEF S
<1>4. f \in [SUBSET S -> A]
  BY <1>2 DEF IsFold
<1>5. f = [s \in SUBSET S |-> IF s = {} THEN base ELSE op[<<Highest(n)[s], f[s \ {Highest(n)[s]}]>>]]
  BY <1>2 DEF IsFold
<1>6. f = [s \in SUBSET S |-> IF s = {} THEN base ELSE op[<<Max(s), f[s \ {Max(s)}]>>]]
  BY <1>3, <1>5
<1> QED
  BY <1>4, <1>6 DEF S, IsLeftFold

LEMMA LeftFoldIn ==
  ASSUME NEW n \in Nat, NEW A, NEW iter, iter[{}] \in A,
         \A s \in SUBSET (1 .. n) :
           s # {} /\ iter[s \ {Max(s)}] \in A => iter[s] \in A
  PROVE  iter[1 .. n] \in A
<1> DEFINE S == 1 .. n
           Good == {s \in SUBSET S : iter[s] \in A}
<1>1. {} \in Good
  OBVIOUS
<1>2. ASSUME NEW s \in SUBSET S, s # {}, \A x \in s : s \ {x} \in Good PROVE s \in Good
  <2>1. Max(s) \in s
    BY <1>2, HighestIs
  <2>2. iter[s \ {Max(s)}] \in A
    BY <1>2, <2>1
  <2> QED
    BY <1>2, <2>2
<1>3. IsFiniteSet(S)
  BY HighestIs
<1>4. Good = SUBSET S
  <2> HIDE DEF Good, S
  <2>1. Good \subseteq SUBSET S
    BY DEF Good
  <2> QED
    BY <1>1, <1>2, <1>3, <2>1, SubsetInd
<1> QED
  BY <1>4
===============================================================================
