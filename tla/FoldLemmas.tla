------------------------------ MODULE FoldLemmas ------------------------------
(***************************************************************************)
(* What the folds of the community modules compute.  A fold is a recursive *)
(* function on the subsets of a finite set, that is, a CHOOSE of a function*)
(* that satisfies an equation.  FoldExists shows that there is one; the    *)
(* other lemmas say what follows for sequences and for sums.  Induction is *)
(* stated with a set of good elements where one would expect a predicate.  *)
(***************************************************************************)
EXTENDS Integers, SequencesExt, FiniteSetTheorems, WellFoundedInduction, TLAPS

-----------------------------------------------------------------------------
(* Induction *)

\* A set of subsets of a finite set has a smallest one.
LEMMA SmallestSet ==
  ASSUME NEW U, IsFiniteSet(U), NEW B, \A t \in B : t \subseteq U, B # {}
  PROVE  \E m \in B : \A t \in B : t \subseteq m => t = m
<1>1. IsWellFoundedOn(StrictSubsetOrdering(U), SUBSET U)
  BY FS_FiniteSubsetsOfFinite, FS_StrictSubsetOrderingWellFounded
<1>2. B \subseteq SUBSET U
  OBVIOUS
<1>3. PICK m \in B : \A t \in B : ~ (<<t, m>> \in StrictSubsetOrdering(U))
  BY <1>1, <1>2, WFMin
<1> QED BY <1>2, <1>3 DEF StrictSubsetOrdering

\* What holds of a set whenever it holds of its proper subsets holds of all.
LEMMA SubsetInduction ==
  ASSUME NEW U, IsFiniteSet(U), NEW P,
         \A s \in SUBSET U : (\A t \in SUBSET s : t # s => t \in P) => s \in P
  PROVE  \A s \in SUBSET U : s \in P
<1> DEFINE B == {s \in SUBSET U : s \notin P}
<1> SUFFICES ASSUME B # {}
             PROVE  FALSE
  OBVIOUS
<1>1. \A s \in B : s \subseteq U
  OBVIOUS
<1>2. PICK m \in B : \A t \in B : t \subseteq m => t = m
  <2> HIDE DEF B
  <2> QED BY ONLY IsFiniteSet(U), B # {}, <1>1, SmallestSet
<1>3. \A t \in SUBSET m : t # m => t \in P
  BY <1>2
<1> QED BY <1>2, <1>3

\* What holds of 0 and of the successor of whatever it holds of holds up to n.
LEMMA CountingUp ==
  ASSUME NEW n \in Nat, NEW P, 0 \in P,
         \A i \in 0 .. n - 1 : i \in P => i + 1 \in P
  PROVE  \A i \in 0 .. n : i \in P
<1> DEFINE B == {1 .. i : i \in {j \in 0 .. n : j \notin P}}
<1> SUFFICES ASSUME NEW k \in 0 .. n, k \notin P
             PROVE  FALSE
  OBVIOUS
<1>1. IsFiniteSet(1 .. n)
  BY FS_Interval
<1>2. (\A t \in B : t \subseteq 1 .. n) /\ B # {}
  OBVIOUS
<1>3. PICK m \in B : \A t \in B : t \subseteq m => t = m
  <2> HIDE DEF B
  <2> QED BY ONLY <1>1, <1>2, SmallestSet
<1>4. PICK i \in 0 .. n : i \notin P /\ m = 1 .. i
  BY <1>3
<1>5. i # 0 /\ i - 1 \in 0 .. n - 1 /\ (i - 1) + 1 = i
  BY <1>4
<1>6. i - 1 \notin P
  BY <1>4, <1>5
<1>7. 1 .. (i - 1) \in B
  BY <1>5, <1>6
<1>8. 1 .. (i - 1) \subseteq 1 .. i /\ i \in 1 .. i /\ i \notin 1 .. (i - 1)
  BY <1>5
<1> QED BY <1>3, <1>4, <1>7, <1>8

\* A finite set of integers has a largest element.
LEMMA MaxIsIn ==
  ASSUME NEW n \in Nat, NEW S \in SUBSET (1 .. n), S # {}
  PROVE  Max(S) \in S /\ \A i \in S : i <= Max(S)
<1> DEFINE P == {i \in 0 .. n : (\E j \in S : j <= i) =>
                                  \E x \in S : x <= i /\ \A j \in S : j <= i => j <= x}
<1>1. 0 \in P
  OBVIOUS
<1>2. ASSUME NEW i \in 0 .. n - 1, i \in P
      PROVE  i + 1 \in P
  <2>1. CASE i + 1 \in S
    BY <2>1
  <2>2. CASE i + 1 \notin S
    <3>1. \A j \in S : j <= i + 1 <=> j <= i
      BY <2>2
    <3> QED BY <1>2, <3>1
  <2> QED BY <2>1, <2>2
<1>3. n \in P
  <2> HIDE DEF P
  <2>1. \A i \in 0 .. n : i \in P
    BY <1>1, <1>2, CountingUp
  <2> QED BY <2>1
<1>4. PICK x \in S : \A j \in S : x >= j
  <2>1. \A j \in S : j \in 1 .. n /\ j <= n
    OBVIOUS
  <2>2. PICK x \in S : \A j \in S : j <= n => j <= x
    BY <1>3, <2>1
  <2> QED BY <2>1, <2>2
<1> QED BY <1>4 DEF Max

\* ... and a smallest one.
LEMMA MinIsIn ==
  ASSUME NEW n \in Nat, NEW S \in SUBSET (1 .. n), S # {}
  PROVE  Min(S) \in S /\ \A i \in S : Min(S) <= i
<1> DEFINE T == {n + 1 - i : i \in S}
<1>1. T \in SUBSET (1 .. n) /\ T # {}
  <2>1. \A i \in S : i \in 1 .. n /\ n + 1 - i \in 1 .. n
    OBVIOUS
  <2> QED BY <2>1
<1>2. Max(T) \in T /\ \A t \in T : t <= Max(T)
  <2> HIDE DEF T
  <2> QED BY ONLY <1>1, n \in Nat, MaxIsIn
<1>3. PICK x \in S : Max(T) = n + 1 - x
  BY <1>2
<1>4. \A i \in S : x <= i
  <2> SUFFICES ASSUME NEW i \in S
               PROVE  x <= i
    OBVIOUS
  <2>1. n + 1 - i \in T
    OBVIOUS
  <2>2. n + 1 - i <= n + 1 - x
    BY <1>2, <1>3, <2>1
  <2> QED BY <2>2
<1> QED BY <1>4 DEF Min

\* Of finitely many elements one weighs as much as any other.
LEMMA Heaviest ==
  ASSUME NEW U, IsFiniteSet(U), NEW w \in [U -> Int]
  PROVE  \A s \in SUBSET U : s # {} => \E m \in s : \A x \in s : w[x] <= w[m]
<1> DEFINE P == {s \in SUBSET U : s # {} => \E m \in s : \A x \in s : w[x] <= w[m]}
<1>1. ASSUME NEW s \in SUBSET U, \A t \in SUBSET s : t # s => t \in P
      PROVE  s \in P
  <2> SUFFICES ASSUME s # {}
               PROVE  \E m \in s : \A x \in s : w[x] <= w[m]
    OBVIOUS
  <2>1. PICK y \in s : TRUE
    OBVIOUS
  <2> DEFINE t == s \ {y}
  <2>2. t \in P
    BY <1>1
  <2>3. CASE t = {}
    <3>1. \A x \in s : x = y
      BY <2>3
    <3> QED BY <3>1
  <2>4. CASE t # {}
    <3>1. PICK m \in t : \A x \in t : w[x] <= w[m]
      BY <2>2, <2>4
    <3>2. w[m] \in Int /\ w[y] \in Int /\ \A x \in t : w[x] \in Int
      OBVIOUS
    <3>3. CASE w[y] <= w[m]
      BY <3>1, <3>3
    <3>4. CASE w[m] < w[y]
      BY <3>1, <3>2, <3>4
    <3> QED BY <3>2, <3>3, <3>4
  <2> QED BY <2>3, <2>4
<1>2. \A s \in SUBSET U : s \in P
  <2> HIDE DEF P
  <2> QED BY <1>1, SubsetInduction
<1> QED BY <1>2

-----------------------------------------------------------------------------
(* A fold exists *)

\* A function that folds the subsets of T: c chooses the next element, and what
\* is left of the set has been folded before.
Folds(iter, T, base, step, c) ==
  iter = [s \in SUBSET T |-> IF s = {} THEN base ELSE step[s][iter[s \ {c[s]}]]]

FoldsTo(V, T, base, step, c) == {f \in [SUBSET T -> V] : Folds(f, T, base, step, c)}

\* The equation of a fold.
LEMMA FoldAt ==
  ASSUME NEW iter, NEW T, NEW base, NEW step, NEW c, Folds(iter, T, base, step, c),
         NEW s \in SUBSET T
  PROVE  iter[s] = IF s = {} THEN base ELSE step[s][iter[s \ {c[s]}]]
BY DEF Folds

LEMMA FoldOfNothing ==
  ASSUME NEW iter, NEW T, NEW base, NEW step, NEW c, Folds(iter, T, base, step, c)
  PROVE  iter[{}] = base
<1>1. {} \in SUBSET T
  OBVIOUS
<1> QED BY <1>1, FoldAt

\* Two folds agree where both are defined.
LEMMA FoldUnique ==
  ASSUME NEW U, IsFiniteSet(U), NEW base, NEW step, NEW c,
         \A s \in (SUBSET U) \ {{}} : c[s] \in s,
         NEW T \in SUBSET U, NEW W \in SUBSET U, NEW f, NEW g,
         Folds(f, T, base, step, c), Folds(g, W, base, step, c)
  PROVE  \A s \in SUBSET (T \cap W) : f[s] = g[s]
<1> DEFINE P == {s \in SUBSET U : s \subseteq T \cap W => f[s] = g[s]}
<1>1. ASSUME NEW s \in SUBSET U, \A t \in SUBSET s : t # s => t \in P
      PROVE  s \in P
  <2> SUFFICES ASSUME s \subseteq T \cap W
               PROVE  f[s] = g[s]
    OBVIOUS
  <2>1. CASE s = {}
    BY <2>1 DEF Folds
  <2>2. CASE s # {}
    <3>1. c[s] \in s /\ s \ {c[s]} \in SUBSET s /\ s \ {c[s]} # s
      BY <2>2
    <3>2. f[s \ {c[s]}] = g[s \ {c[s]}]
      BY <1>1, <3>1
    <3>3. f[s] = step[s][f[s \ {c[s]}]] /\ g[s] = step[s][g[s \ {c[s]}]]
      BY ZenonT(40), <2>2 DEF Folds
    <3> QED BY <3>2, <3>3
  <2> QED BY <2>1, <2>2
<1>2. \A s \in SUBSET U : s \in P
  <2> HIDE DEF P
  <2> QED BY <1>1, SubsetInduction
<1> QED BY <1>2

\* There is a fold on T if there is one on every proper subset of T.
LEMMA FoldOneMore ==
  ASSUME NEW U, IsFiniteSet(U), NEW V, NEW base \in V, NEW step \in [SUBSET U -> [V -> V]],
         NEW c, \A s \in (SUBSET U) \ {{}} : c[s] \in s,
         NEW T \in SUBSET U,
         \A t \in SUBSET T : t # T => FoldsTo(V, t, base, step, c) # {}
  PROVE  FoldsTo(V, T, base, step, c) # {}
<1> DEFINE Fix(t) == FoldsTo(V, t, base, step, c)
           some(t) == CHOOSE f \in Fix(t) : TRUE
           R == T \ {c[T]}
           F == [s \in SUBSET T |-> IF s = T THEN (IF T = {} THEN base ELSE step[T][some(R)[R]])
                                             ELSE some(s)[s]]
<1> HIDE DEF Fix
<1>1. \A t \in SUBSET T : t # T => some(t) \in Fix(t)
  BY DEF Fix
<1> HIDE DEF some
<1>2. \A t \in SUBSET T : t # T => some(t) \in [SUBSET t -> V] /\ Folds(some(t), t, base, step, c)
  BY <1>1 DEF Fix, FoldsTo
<1>3. T # {} => R \in SUBSET T /\ R # T /\ R = T \ {c[T]}
  OBVIOUS
<1> HIDE DEF R
<1>4. F \in [SUBSET T -> V]
  <2> SUFFICES ASSUME NEW s \in SUBSET T
               PROVE  F[s] \in V
    OBVIOUS
  <2>1. CASE s # T
    <3>1. some(s)[s] \in V
      <4>1. some(s) \in [SUBSET s -> V] /\ s \in SUBSET s
        BY <1>2, <2>1
      <4> QED BY ONLY <4>1
    <3> QED BY <2>1, <3>1
  <2>2. CASE s = T /\ T = {}
    BY <2>2
  <2>3. CASE s = T /\ T # {}
    <3>1. some(R)[R] \in V
      <4>1. some(R) \in [SUBSET R -> V] /\ R \in SUBSET R
        BY <1>2, <1>3, <2>3
      <4> QED BY ONLY <4>1
    <3> QED BY <3>1, <2>3
  <2> QED BY <2>1, <2>2, <2>3
<1>5. ASSUME NEW s \in SUBSET T
      PROVE  F[s] = IF s = {} THEN base ELSE step[s][F[s \ {c[s]}]]
  <2>1. CASE s = T
    <3>1. CASE T = {}
      BY <2>1, <3>1
    <3>2. CASE T # {}
      <4>1. F[T] = step[T][some(R)[R]] /\ F[R] = some(R)[R]
        BY <1>3, <3>2
      <4> QED BY <1>3, <2>1, <3>2, <4>1
    <3> QED BY <3>1, <3>2
  <2>2. CASE s # T /\ s = {}
    <3>1. some(s)[s] = base
      <4>1. Folds(some(s), s, base, step, c)
        BY <1>2, <2>2
      <4>2. some(s)[{}] = base
        BY ONLY <4>1, FoldOfNothing
      <4> QED BY ONLY <2>2, <4>2
    <3>2. F[s] = some(s)[s]
      BY <2>2
    <3> QED BY <2>2, <3>1, <3>2
  <2>3. CASE s # T /\ s # {}
    <3> DEFINE r == s \ {c[s]}
    <3>1. c[s] \in s /\ r \in SUBSET s /\ r \in SUBSET T /\ r # T /\ r # s
      BY <2>3
    <3>2. some(s)[s] = step[s][some(s)[r]]
      <4>1. s \in SUBSET s /\ Folds(some(s), s, base, step, c)
        BY <1>2, <2>3
      <4> QED BY ONLY <2>3, <4>1, FoldAt
    <3>3. some(s)[r] = some(r)[r]
      <4> HIDE DEF r
      <4>1. Folds(some(s), s, base, step, c) /\ Folds(some(r), r, base, step, c)
        BY <1>2, <2>3, <3>1
      <4>2. \A t \in SUBSET (s \cap r) : some(s)[t] = some(r)[t]
        <5>1. s \in SUBSET U /\ r \in SUBSET U
          BY <3>1
        <5> QED BY ONLY <4>1, <5>1, FoldUnique, IsFiniteSet(U), \A t \in (SUBSET U) \ {{}} : c[t] \in t
      <4> QED BY <3>1, <4>2
    <3>4. F[s] = some(s)[s] /\ F[r] = some(r)[r]
      BY <2>3, <3>1
    <3> QED BY <2>3, <3>2, <3>3, <3>4
  <2> QED BY <2>1, <2>2, <2>3
<1>6. Folds(F, T, base, step, c)
  <2> HIDE DEF F
  <2>1. F = [s \in SUBSET T |-> F[s]]
    BY <1>4
  <2> QED BY <1>5, <2>1 DEF Folds
<1> QED BY <1>4, <1>6 DEF FoldsTo

\* Every fold over a finite set exists.
LEMMA FoldExists ==
  ASSUME NEW U, IsFiniteSet(U), NEW V, NEW base \in V, NEW step \in [SUBSET U -> [V -> V]],
         NEW c, \A s \in (SUBSET U) \ {{}} : c[s] \in s
  PROVE  \E f \in [SUBSET U -> V] : Folds(f, U, base, step, c)
<1> DEFINE P == {T \in SUBSET U : FoldsTo(V, T, base, step, c) # {}}
<1>1. \A T \in SUBSET U : (\A t \in SUBSET T : t # T => t \in P) => T \in P
  BY FoldOneMore
<1>2. \A T \in SUBSET U : T \in P
  <2> HIDE DEF P
  <2> QED BY <1>1, SubsetInduction
<1> QED BY ZenonT(40), <1>2 DEF FoldsTo

-----------------------------------------------------------------------------
(* Sequences *)

\* The indices of a sequence are folded in their order.
LEMMA UpTo ==
  ASSUME NEW n \in Nat, NEW i \in 1 .. n
  PROVE  /\ 1 .. i \in SUBSET (1 .. n) /\ 1 .. i # {} /\ Max(1 .. i) = i
         /\ (1 .. i) \ {Max(1 .. i)} = 1 .. (i - 1)
         /\ 1 .. (i - 1) \in SUBSET (1 .. n)
<1>1. 1 .. i \in SUBSET (1 .. n) /\ i \in 1 .. i
  OBVIOUS
<1>2. Max(1 .. i) \in 1 .. i /\ \A j \in 1 .. i : j <= Max(1 .. i)
  <2>1. 1 .. i # {}
    BY <1>1
  <2> QED BY ONLY <1>1, <2>1, n \in Nat, MaxIsIn
<1>3. Max(1 .. i) = i
  BY <1>1, <1>2
<1> QED BY <1>1, <1>3

\* Step i, g[i], takes values of V to values of V.
Foldable(n, V, base, g) == n \in Nat /\ base \in V /\ g \in [1 .. n -> [V -> V]]

\* f folds the indices 1..n: it starts with base, and step i takes v to g[i][v].
SeqFolds(f, n, base, g) ==
  f = [s \in SUBSET (1 .. n) |-> IF s = {} THEN base ELSE g[Max(s)][f[s \ {Max(s)}]]]

\* All that is known of some f: it goes on like this as long as it is in V.
GoesOn(f, n, V, base, g) ==
  /\ f[{}] = base
  /\ \A s \in SUBSET (1 .. n) :
       s # {} /\ f[s \ {Max(s)}] \in V => f[s] = g[Max(s)][f[s \ {Max(s)}]]

\* The values a fold passes through.
Trace(tr, n, base, g) ==
  tr[0] = base /\ \A i \in 1 .. n : tr[i] = g[i][tr[i - 1]]

\* A fold of a sequence exists if every element takes values of V to values of V.
LEMMA SeqFold ==
  ASSUME NEW n, NEW V, NEW base, NEW g, Foldable(n, V, base, g)
  PROVE  \E f \in [SUBSET (1 .. n) -> V] : SeqFolds(f, n, base, g)
<1> USE DEF Foldable
<1> DEFINE U == 1 .. n
           c == [s \in SUBSET U |-> Max(s)]
           step == [s \in SUBSET U |-> IF s = {} THEN [v \in V |-> v] ELSE g[Max(s)]]
<1>1. IsFiniteSet(U)
  BY FS_Interval
<1>2. \A s \in (SUBSET U) \ {{}} : c[s] \in s /\ c[s] = Max(s) /\ Max(s) \in U
  BY MaxIsIn
<1>3. step \in [SUBSET U -> [V -> V]]
  BY <1>2
<1>4. PICK f \in [SUBSET U -> V] : Folds(f, U, base, step, c)
  <2> HIDE DEF U, c, step
  <2> QED BY <1>1, <1>2, <1>3, FoldExists
<1>5. f = [s \in SUBSET U |-> IF s = {} THEN base ELSE step[s][f[s \ {c[s]}]]]
  BY <1>4 DEF Folds
<1>6. \A s \in SUBSET U : s # {} => step[s] = g[Max(s)] /\ c[s] = Max(s)
  OBVIOUS
<1> HIDE DEF step, c
<1>7. f = [s \in SUBSET U |-> IF s = {} THEN base ELSE g[Max(s)][f[s \ {Max(s)}]]]
  BY <1>5, <1>6
<1> QED BY <1>4, <1>7 DEF SeqFolds

\* What a fold of a sequence does element by element.
LEMMA SeqTrace ==
  ASSUME NEW n, NEW V, NEW base, NEW g, Foldable(n, V, base, g),
         NEW f, GoesOn(f, n, V, base, g)
  PROVE  /\ f[1 .. n] \in V
         /\ \E tr \in [0 .. n -> V] : Trace(tr, n, base, g) /\ tr[n] = f[1 .. n]
<1> USE DEF Foldable, GoesOn
<1> DEFINE P == {i \in 0 .. n : f[1 .. i] \in V}
           tr == [i \in 0 .. n |-> f[1 .. i]]
<1>1. ASSUME NEW i \in 1 .. n, f[1 .. (i - 1)] \in V
      PROVE  f[1 .. i] = g[i][f[1 .. (i - 1)]]
  <2>1. /\ 1 .. i \in SUBSET (1 .. n) /\ 1 .. i # {} /\ Max(1 .. i) = i
        /\ (1 .. i) \ {Max(1 .. i)} = 1 .. (i - 1)
    BY UpTo
  <2> QED BY <1>1, <2>1
<1>2. 0 \in P
  <2>1. 1 .. 0 = {}
    OBVIOUS
  <2>2. f[1 .. 0] \in V
    BY <2>1
  <2> QED BY <2>2
<1>3. ASSUME NEW i \in 0 .. n - 1, i \in P
      PROVE  i + 1 \in P
  <2>1. i + 1 \in 1 .. n /\ (i + 1) - 1 = i
    OBVIOUS
  <2>2. f[1 .. i] \in V
    BY <1>3
  <2>3. f[1 .. (i + 1)] = g[i + 1][f[1 .. i]]
    BY <1>1, <2>1, <2>2
  <2>4. g[i + 1][f[1 .. i]] \in V
    BY <2>1, <2>2
  <2>5. f[1 .. (i + 1)] \in V /\ i + 1 \in 0 .. n
    BY <2>1, <2>3, <2>4
  <2> QED BY <2>5
<1>4. \A i \in 0 .. n : i \in P
  <2> HIDE DEF P
  <2> QED BY <1>2, <1>3, CountingUp
<1>5. tr \in [0 .. n -> V]
  BY <1>4
<1>6. tr[0] = base
  <2>1. 1 .. 0 = {} /\ tr[0] = f[1 .. 0]
    OBVIOUS
  <2> QED BY <2>1
<1>7. ASSUME NEW i \in 1 .. n
      PROVE  tr[i] = g[i][tr[i - 1]]
  <2>1. i - 1 \in 0 .. n /\ i \in 0 .. n
    OBVIOUS
  <2>2. f[1 .. (i - 1)] \in V
    BY <1>4, <2>1
  <2>3. tr[i] = f[1 .. i] /\ tr[i - 1] = f[1 .. (i - 1)]
    BY <2>1
  <2> QED BY <1>1, <2>2, <2>3
<1>8. tr[n] = f[1 .. n] /\ tr[n] \in V
  BY <1>5
<1> HIDE DEF P, tr
<1> QED BY <1>5, <1>6, <1>7, <1>8 DEF Trace

-----------------------------------------------------------------------------
(* Sums *)

Some(s) == CHOOSE x \in s : TRUE

IsSum(f, U, w) ==
  /\ f \in [SUBSET U -> Int]
  /\ f = [s \in SUBSET U |-> IF s = {} THEN 0 ELSE w[Some(s)] + f[s \ {Some(s)}]]

LEMMA SumExists ==
  ASSUME NEW U, IsFiniteSet(U), NEW w \in [U -> Int]
  PROVE  \E f : IsSum(f, U, w)
<1> DEFINE c == [s \in SUBSET U |-> Some(s)]
           step == [s \in SUBSET U |->
                      [v \in Int |-> IF s = {} THEN v ELSE w[Some(s)] + v]]
<1>1. \A s \in (SUBSET U) \ {{}} : c[s] \in s /\ Some(s) \in U
  BY DEF Some
<1>2. step \in [SUBSET U -> [Int -> Int]]
  <2> SUFFICES ASSUME NEW s \in SUBSET U
               PROVE  \A v \in Int : (IF s = {} THEN v ELSE w[Some(s)] + v) \in Int
    OBVIOUS
  <2>1. s # {} => w[Some(s)] \in Int
    BY <1>1
  <2> QED BY <2>1
<1>3. PICK f \in [SUBSET U -> Int] : Folds(f, U, 0, step, c)
  <2>1. \A s \in (SUBSET U) \ {{}} : c[s] \in s
    BY <1>1
  <2> HIDE DEF c, step
  <2> QED BY ONLY <1>2, <2>1, IsFiniteSet(U), 0 \in Int, FoldExists
<1>4. ASSUME NEW s \in SUBSET U
      PROVE  f[s] = IF s = {} THEN 0 ELSE w[Some(s)] + f[s \ {Some(s)}]
  <2>1. f[s] = IF s = {} THEN 0 ELSE step[s][f[s \ {c[s]}]]
    <3> HIDE DEF step, c
    <3> QED BY <1>3, FoldAt
  <2>2. c[s] = Some(s) /\ f[s \ {Some(s)}] \in Int
    BY <1>3
  <2> QED BY <2>1, <2>2
<1> QED BY <1>3, <1>4 DEF IsSum

LEMMA SumAt ==
  ASSUME NEW U, NEW w \in [U -> Int], NEW f, IsSum(f, U, w), NEW s \in SUBSET U
  PROVE  /\ f[s] \in Int
         /\ s = {} => f[s] = 0
         /\ s # {} => \A x : x = Some(s) => /\ x \in s /\ w[x] \in Int
                                            /\ f[s] = w[x] + f[s \ {x}]
<1>1. s # {} => Some(s) \in s
  BY DEF Some
<1> QED BY <1>1 DEF IsSum

\* A sum does not depend on the order in which it is taken.
LEMMA SumSplit ==
  ASSUME NEW U, IsFiniteSet(U), NEW w \in [U -> Int], NEW f, IsSum(f, U, w)
  PROVE  \A s \in SUBSET U : \A x \in s : f[s] = w[x] + f[s \ {x}]
<1> DEFINE P == {s \in SUBSET U : \A x \in s : f[s] = w[x] + f[s \ {x}]}
<1>1. ASSUME NEW s \in SUBSET U, \A t \in SUBSET s : t # s => t \in P
      PROVE  s \in P
  <2> SUFFICES ASSUME NEW x \in s
               PROVE  f[s] = w[x] + f[s \ {x}]
    OBVIOUS
  <2> DEFINE y == Some(s)
  <2>1. y \in s /\ w[y] \in Int /\ f[s] = w[y] + f[s \ {y}]
    <3>1. s # {}
      OBVIOUS
    <3> QED BY <3>1, SumAt
  <2> HIDE DEF y
  <2>2. CASE x = y
    BY <2>1, <2>2
  <2>3. CASE x # y
    <3>1. s \ {y} \in P /\ x \in s \ {y} /\ s \ {x} \in P /\ y \in s \ {x}
      BY <1>1, <2>1, <2>3
    <3>2. /\ f[s \ {y}] = w[x] + f[(s \ {y}) \ {x}]
          /\ f[s \ {x}] = w[y] + f[(s \ {x}) \ {y}]
      BY <3>1
    <3>3. (s \ {y}) \ {x} = (s \ {x}) \ {y} /\ (s \ {y}) \ {x} \in SUBSET U
      OBVIOUS
    <3>4. f[(s \ {y}) \ {x}] \in Int /\ w[x] \in Int
      BY <3>3, SumAt
    <3> DEFINE r == f[(s \ {y}) \ {x}]
    <3>5. f[s] = w[y] + (w[x] + r) /\ f[s \ {x}] = w[y] + r /\ r \in Int
      BY <2>1, <3>2, <3>3, <3>4
    <3> QED BY <2>1, <3>4, <3>5
  <2> QED BY <2>2, <2>3
<1>2. \A s \in SUBSET U : s \in P
  <2> HIDE DEF P
  <2> QED BY <1>1, SubsetInduction
<1> QED BY <1>2

\* The sum of more naturals is no less.
LEMMA SumMonotonic ==
  ASSUME NEW U, IsFiniteSet(U), NEW w \in [U -> Nat], NEW f, IsSum(f, U, w)
  PROVE  \A s \in SUBSET U : \A t \in SUBSET s : f[t] <= f[s]
<1> DEFINE P == {s \in SUBSET U : \A t \in SUBSET s : f[t] <= f[s]}
<1>0. w \in [U -> Int]
  OBVIOUS
<1>1. ASSUME NEW s \in SUBSET U, \A t \in SUBSET s : t # s => t \in P
      PROVE  s \in P
  <2> SUFFICES ASSUME NEW t \in SUBSET s
               PROVE  f[t] <= f[s]
    OBVIOUS
  <2>1. CASE t = s
    <3>1. f[s] \in Int
      BY <1>0, SumAt
    <3> QED BY <2>1, <3>1
  <2>2. CASE t # s
    <3>1. PICK x \in s : x \notin t
      BY <2>2
    <3>2. f[s] = w[x] + f[s \ {x}]
      BY <1>0, SumSplit
    <3>3. s \ {x} \in P /\ t \in SUBSET (s \ {x})
      BY <1>1, <3>1
    <3>4. f[t] <= f[s \ {x}]
      BY <3>3
    <3>5. f[t] \in Int /\ f[s \ {x}] \in Int /\ w[x] \in Nat
      <4>1. s \ {x} \in SUBSET U /\ t \in SUBSET U
        OBVIOUS
      <4> QED BY <1>0, <4>1, SumAt
    <3> QED BY <3>2, <3>4, <3>5
  <2> QED BY <2>1, <2>2
<1>2. \A s \in SUBSET U : s \in P
  <2> HIDE DEF P
  <2> QED BY <1>1, SubsetInduction
<1> QED BY <1>2
=============================================================================
