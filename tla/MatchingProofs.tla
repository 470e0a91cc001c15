---------------------------- MODULE MatchingProofs ----------------------------
(***************************************************************************)
(* Proofs about Matching: what the comparison of two names and the greedy  *)
(* pairing of two lists of owners conclude, for names and lists of any     *)
(* length.                                                                 *)
(***************************************************************************)
EXTENDS Matching, FoldLemmas

LEMMA SequenceShape ==
  ASSUME NEW s, IsSequence(s)
  PROVE  /\ Len(s) \in Nat /\ DOMAIN s = 1 .. Len(s)
         /\ s \in Seq(ToSet(s)) /\ IsFiniteSet(DOMAIN s)
         /\ s = << >> <=> Len(s) = 0
<1>1. Len(s) \in Nat /\ s = [i \in 1 .. Len(s) |-> s[i]]
  BY DEF IsSequence
<1>2. DOMAIN s = 1 .. Len(s)
  BY <1>1
<1>3. s \in [1 .. Len(s) -> ToSet(s)]
  BY <1>1, <1>2 DEF ToSet
<1>4. s \in Seq(ToSet(s))
  BY <1>1, <1>3
<1>5. IsFiniteSet(DOMAIN s)
  BY <1>1, <1>2, FS_Interval
<1>6. s = << >> <=> Len(s) = 0
  BY <1>4
<1> QED BY <1>1, <1>2, <1>4, <1>5, <1>6

LEMMA IsASequence ==
  ASSUME NEW S, NEW s \in Seq(S)
  PROVE  IsSequence(s)
BY DEF IsSequence

LEMMA SequenceElements ==
  ASSUME NEW S, NEW s \in Seq(S)
  PROVE  /\ Len(s) \in Nat /\ DOMAIN s = 1 .. Len(s) /\ s \in [1 .. Len(s) -> S]
         /\ \A i \in 1 .. Len(s) : s[i] \in S
  OBVIOUS

LEMMA MembersFinite ==
  ASSUME NEW s, IsSequence(s)
  PROVE  IsFiniteSet(ToSet(s)) /\ Cardinality(ToSet(s)) <= Len(s)
<1> DEFINE D == DOMAIN s
           fn == [i \in D |-> s[i]]
<1>1. fn \in Surjection(D, ToSet(s))
  BY DEF Surjection, ToSet
<1>2. IsFiniteSet(D) /\ Cardinality(D) = Len(s)
  BY SequenceShape, FS_Interval
<1> HIDE DEF fn, D
<1> QED BY <1>1, <1>2, FS_Surjection

-----------------------------------------------------------------------------
(* Names *)

\* Normalizing a name yields a name: words, in their order.
LEMMA NormalNameType ==
  ASSUME NEW name, IsSequence(name)
  PROVE  IsSequence(NormalName(name))
<1> DEFINE V == Seq(ToSet(name))
           n == Len(name)
           base == << >>
           op(rest, t) == IF t \in Honorifics THEN rest ELSE Append(rest, t)
           body(f) == [s \in SUBSET (1 .. n) |->
                         IF s = {} THEN base ELSE op(f[s \ {Max(s)}], name[Max(s)])]
           g == [i \in 1 .. n |-> [v \in V |-> op(v, name[i])]]
           h == CHOOSE f : f = body(f)
<1>1. n \in Nat /\ DOMAIN name = 1 .. n
  BY SequenceShape
<1>2. Foldable(n, V, base, g)
  <2>1. g \in [1 .. n -> [V -> V]] /\ base \in V
    BY <1>1 DEF ToSet
  <2> HIDE DEF g, V, base, n
  <2> QED BY <1>1, <2>1 DEF Foldable
<1>3. \A s \in SUBSET (1 .. n) : s # {} => Max(s) \in 1 .. n /\ s \ {Max(s)} \in SUBSET (1 .. n)
  BY <1>1, MaxIsIn
<1>4. \A i \in 1 .. n : \A v \in V : g[i][v] = op(v, name[i])
  OBVIOUS
<1> HIDE DEF g, V, base, n
<1>5. \E f : f = body(f)
  <2>1. PICK f \in [SUBSET (1 .. n) -> V] : SeqFolds(f, n, base, g)
    BY <1>2, SeqFold
  <2>2. \A s \in SUBSET (1 .. n) : s # {} =>
          g[Max(s)][f[s \ {Max(s)}]] = op(f[s \ {Max(s)}], name[Max(s)])
    <3> HIDE DEF op
    <3> QED BY <1>3, <1>4, <2>1
  <2>3. f = body(f)
    <3> HIDE DEF op
    <3> QED BY <2>1, <2>2 DEF SeqFolds
  <2> HIDE DEF body
  <2> QED BY <2>3
<1>6. h = body(h)
  <2> HIDE DEF body
  <2> QED BY <1>5
<1>7. FoldLeft(LAMBDA rest, t : IF t \in Honorifics THEN rest ELSE Append(rest, t), << >>, name)
        = h[1 .. n]
  BY <1>1 DEF FoldLeft, MapThenFoldSet, base
<1> HIDE DEF h, op
<1>8. h[1 .. n] \in V
  <2>1. GoesOn(h, n, V, base, g)
    BY <1>3, <1>4, <1>6 DEF GoesOn
  <2> QED BY <1>2, <2>1, SeqTrace
<1>9. NormalName(name) = IF h[1 .. n] = << >> THEN name ELSE h[1 .. n]
  BY <1>7 DEF NormalName, op
<1>10. \A s \in V : IsSequence(s)
  BY IsASequence DEF V
<1> QED BY <1>8, <1>9, <1>10

\* Rounding yields an integer, and more than half a unit below k rounds below k.
LEMMA RoundedType ==
  ASSUME NEW n \in Nat, NEW d \in Nat \ {0}
  PROVE  Rounded(n, d) \in Nat
BY DEF Rounded

\* The tokens that agree and those that are abbreviated are different ones.
LEMMA Tokens ==
  ASSUME NEW a, NEW b, IsSequence(a)
  PROVE  /\ Cardinality(Agreeing(a, b)) \in Nat /\ Cardinality(Abbreviated(a, b)) \in Nat
         /\ Cardinality(Agreeing(a, b)) + Cardinality(Abbreviated(a, b)) <= Len(a)
         /\ InitialsFit(a, b) =>
              Cardinality(Agreeing(a, b)) + Cardinality(Abbreviated(a, b)) = Len(a)
<1> DEFINE A == Agreeing(a, b)
           B == Abbreviated(a, b)
           D == DOMAIN a
<1>1. IsFiniteSet(D) /\ Cardinality(D) = Len(a)
  BY SequenceShape, FS_Interval
<1>2. A \subseteq D /\ B \subseteq D /\ A \cap B = {}
  BY DEF Agreeing, Abbreviated
<1>3. InitialsFit(a, b) => A \cup B = D
  BY DEF InitialsFit
<1> HIDE DEF A, B, D
<1>4. IsFiniteSet(A) /\ IsFiniteSet(B)
  BY <1>1, <1>2, FS_Subset
<1>5. Cardinality(A) \in Nat /\ Cardinality(B) \in Nat
  BY <1>4, FS_CardinalityType
<1>6. Cardinality(A \cup B) = Cardinality(A) + Cardinality(B)
  <2>1. Cardinality(A \cup B) = Cardinality(A) + Cardinality(B) - Cardinality(A \cap B)
    BY <1>4, FS_Union
  <2>2. Cardinality(A \cap B) = 0
    BY <1>2, FS_EmptySet
  <2> QED BY <1>5, <2>1, <2>2
<1>7. Cardinality(A \cup B) <= Len(a)
  <2>1. A \cup B \in SUBSET D
    BY <1>2
  <2> QED BY <1>1, <2>1, FS_Subset
<1> QED BY <1>1, <1>3, <1>5, <1>6, <1>7 DEF A, B

LEMMA WordCounts ==
  ASSUME NEW a, NEW b, IsSequence(a), IsSequence(b)
  PROVE  LET common == Cardinality(ToSet(a) \cap ToSet(b))
             all    == Cardinality(ToSet(a) \cup ToSet(b))
         IN  /\ common \in Nat /\ all \in Nat
             /\ common <= all /\ common <= Len(a)
             /\ ToSet(a) # ToSet(b) => common < all
<1> DEFINE A == ToSet(a)
           B == ToSet(b)
<1>1. IsFiniteSet(A) /\ IsFiniteSet(B) /\ Cardinality(A) <= Len(a)
  BY MembersFinite
<1> HIDE DEF A, B
<1>2. IsFiniteSet(A \cup B) /\ IsFiniteSet(A \cap B)
  BY <1>1, FS_Union, FS_Intersection
<1>3. Cardinality(A \cup B) \in Nat /\ Cardinality(A \cap B) \in Nat /\ Cardinality(A) \in Nat
  BY <1>1, <1>2, FS_CardinalityType
<1>4. Cardinality(A \cap B) <= Cardinality(A)
  BY <1>1, FS_Intersection
<1>5. /\ Cardinality(A \cap B) <= Cardinality(A \cup B)
      /\ Cardinality(A \cap B) = Cardinality(A \cup B) => A \cap B = A \cup B
  <2>1. A \cap B \in SUBSET (A \cup B)
    OBVIOUS
  <2> QED BY <1>2, <2>1, FS_Subset
<1>6. A # B => A \cap B # A \cup B
  OBVIOUS
<1>7. Len(a) \in Nat
  BY SequenceShape
<1> QED BY <1>1, <1>3, <1>4, <1>5, <1>6, <1>7 DEF A, B

\* The verdicts on two names: a status of three, and a score of at most 100.
LEMMA MatchNormalType ==
  ASSUME NEW a, NEW b, IsSequence(a), IsSequence(b)
  PROVE  /\ MatchNormal(a, b).status \in {"MATCH", "PARTIAL_MATCH", "MISMATCH"}
         /\ MatchNormal(a, b).score \in 0 .. 100
<1> DEFINE g == Cardinality(Agreeing(a, b))
           h == Cardinality(Abbreviated(a, b))
           common == Cardinality(ToSet(a) \cap ToSet(b))
           all    == Cardinality(ToSet(a) \cup ToSet(b))
<1>1. g \in Nat /\ h \in Nat /\ g + h <= Len(a) /\ Len(a) \in Nat
  BY Tokens, SequenceShape
<1>2. common \in Nat /\ all \in Nat /\ common <= all
  BY WordCounts
<1>3. ASSUME NEW n \in Nat, NEW d \in Nat \ {0}, n <= 100 * d
      PROVE  Rounded(n, d) \in 0 .. 100
  <2>1. 2 * n + d < 101 * (2 * d)
    BY <1>3
  <2> QED BY <2>1 DEF Rounded
<1>4. InitialsFit(a, b) => Rounded(100 * g + 75 * h, Len(a)) \in 0 .. 100
  <2>1. 100 * g + 75 * h \in Nat /\ 100 * g + 75 * h <= 100 * Len(a)
    BY <1>1
  <2>2. InitialsFit(a, b) => Len(a) \in Nat \ {0}
    BY <1>1 DEF InitialsFit
  <2> QED BY <1>3, <2>1, <2>2
<1> HIDE DEF g, h, common, all
<1>5. ASSUME common >= 2
      PROVE  Rounded(100 * common, all) \in 0 .. 100
  <2>1. 100 * common \in Nat /\ all \in Nat \ {0} /\ 100 * common <= 100 * all
    BY <1>2, <1>5
  <2> QED BY ONLY <1>3, <2>1
<1>6. MatchNormal(a, b) \in
        {Verdict("MATCH", 100), Verdict("MATCH", 98), Verdict("MISMATCH", 0)}
          \cup {Verdict("PARTIAL_MATCH", score) : score \in 0 .. 100}
  BY ZenonT(60), <1>4, <1>5 DEF MatchNormal, g, h, common, all
<1> QED BY <1>6 DEF Verdict

LEMMA ShortByOneInitial ==
  ASSUME NEW x \in Nat, NEW n \in {2, 3, 4}, x <= 100 * n - 25
  PROVE  Rounded(x, n) < 95
<1>1. CASE n = 2
  <2>1. (2 * x + 2) \div 4 < 95
    BY <1>1
  <2> QED BY <1>1, <2>1 DEF Rounded
<1>2. CASE n = 3
  <2>1. (2 * x + 3) \div 6 < 95
    BY <1>2
  <2> QED BY <1>2, <2>1 DEF Rounded
<1>3. CASE n = 4
  <2>1. (2 * x + 4) \div 8 < 95
    BY <1>3
  <2> QED BY <1>3, <2>1 DEF Rounded
<1> QED BY <1>1, <1>2, <1>3

\* Two names that are not of the same words score below 95 if they are short: one
\* initial, or one word more, costs at least 6 points of 100.
LEMMA ShortNamesTellApart ==
  ASSUME NEW a, NEW b, IsSequence(a), IsSequence(b), Len(a) <= 4
  PROVE  /\ ToSet(a) = ToSet(b) => /\ MatchNormal(a, b).status = "MATCH"
                                   /\ MatchNormal(a, b).score >= 98
         /\ ToSet(a) # ToSet(b) => MatchNormal(a, b).score < 95
<1> DEFINE g == Cardinality(Agreeing(a, b))
           h == Cardinality(Abbreviated(a, b))
           common == Cardinality(ToSet(a) \cap ToSet(b))
           all    == Cardinality(ToSet(a) \cup ToSet(b))
<1>1. CASE ToSet(a) = ToSet(b)
  BY <1>1 DEF MatchNormal, Verdict
<1>2. CASE ToSet(a) # ToSet(b)
  <2>1. a # b
    BY <1>2
  <2>2. InitialsFit(a, b) => Rounded(100 * g + 75 * h, Len(a)) < 95
    <3> SUFFICES ASSUME InitialsFit(a, b)
                 PROVE  Rounded(100 * g + 75 * h, Len(a)) < 95
      OBVIOUS
    <3>1. g \in Nat /\ h \in Nat /\ g + h = Len(a) /\ Len(a) \in {2, 3, 4}
      <4>1. g \in Nat /\ h \in Nat /\ g + h = Len(a)
        BY Tokens
      <4>2. Len(a) \in Nat /\ Len(a) >= 2
        BY SequenceShape DEF InitialsFit
      <4> QED BY <4>1, <4>2
    <3>2. h # 0
      <4>1. Agreeing(a, b) # DOMAIN a
        <5>1. a \in Seq(ToSet(a)) /\ b \in Seq(ToSet(b)) /\ Len(a) = Len(b)
          BY SequenceShape DEF InitialsFit
        <5> QED BY <2>1, <5>1 DEF Agreeing
      <4>2. Abbreviated(a, b) # {}
        BY <4>1 DEF InitialsFit, Agreeing
      <4>3. IsFiniteSet(Abbreviated(a, b))
        <5>1. IsFiniteSet(DOMAIN a) /\ Abbreviated(a, b) \in SUBSET (DOMAIN a)
          BY SequenceShape DEF Abbreviated
        <5> QED BY <5>1, FS_Subset
      <4> QED BY <4>2, <4>3, FS_EmptySet
    <3> HIDE DEF g, h
    <3>3. 100 * g + 75 * h <= 100 * Len(a) - 25 /\ 100 * g + 75 * h \in Nat
      BY <3>1, <3>2
    <3> QED BY <3>1, <3>3, ShortByOneInitial
  <2>3. common >= 2 => Rounded(100 * common, all) < 95
    <3>1. common \in 0 .. 4 /\ all \in Nat /\ common < all
      <4>1. common \in Nat /\ all \in Nat /\ common <= Len(a) /\ common < all
        BY <1>2, WordCounts
      <4>2. Len(a) \in Nat
        BY SequenceShape
      <4> QED BY <4>1, <4>2
    <3> HIDE DEF common, all
    <3>2. ASSUME common >= 2
          PROVE  Rounded(100 * common, all) < 95
      <4>1. 2 * (100 * common) + all < 95 * (2 * all) /\ all \in Nat \ {0}
        BY <3>1, <3>2
      <4> QED BY <3>1, <4>1 DEF Rounded
    <3> QED BY <3>2
  <2> QED BY <1>2, <2>1, <2>2, <2>3 DEF MatchNormal, Verdict
<1> QED BY <1>1, <1>2

\* The bound is exact: of five words one may be an initial.
LEMMA OneInitialOfFivePasses ==
  ASSUME NEW a, NEW b, IsSequence(a), IsSequence(b), Len(a) = 5, InitialsFit(a, b),
         ToSet(a) # ToSet(b), Cardinality(Abbreviated(a, b)) = 1
  PROVE  MatchNormal(a, b).score = 95
<1>1. Cardinality(Agreeing(a, b)) = 4
  <2>1. /\ Cardinality(Agreeing(a, b)) \in Nat
        /\ Cardinality(Agreeing(a, b)) + Cardinality(Abbreviated(a, b)) = Len(a)
    BY Tokens
  <2> QED BY <2>1
<1>2. Rounded(100 * 4 + 75 * 1, 5) = 95
  BY DEF Rounded
<1> QED BY <1>1, <1>2 DEF MatchNormal, Verdict

-----------------------------------------------------------------------------
(* The pairing of two lists of owners *)

LEMMA NamesMatch ==
  ASSUME NEW doc \in Names, NEW ref \in Names
  PROVE  /\ IsSequence(NormalName(doc)) /\ IsSequence(NormalName(ref))
         /\ MatchNames(doc, ref).status \in {"MATCH", "PARTIAL_MATCH", "MISMATCH"}
         /\ MatchNames(doc, ref).score \in 0 .. 100
<1>1. IsSequence(NormalName(doc)) /\ IsSequence(NormalName(ref))
  BY NamesAssumption, NormalNameType
<1> QED BY <1>1, MatchNormalType DEF MatchNames

Start == [taken |-> {}, scores |-> << >>]

PairingState(refs) == [taken : SUBSET ToSet(refs), scores : Seq(0 .. 100)]

\* What one owner of the documents adds.
LEMMA PairedType ==
  ASSUME NEW refs \in Seq(Names), NEW doc \in Names, NEW acc \in PairingState(refs)
  PROVE  /\ Paired(acc, doc, refs) \in PairingState(refs)
         /\ LET best == BestFor(doc, refs, acc.taken)
            IN  IF best = {} THEN Paired(acc, doc, refs) = acc
                ELSE /\ Min(best) \in best
                     /\ Paired(acc, doc, refs) = Take(acc, doc, refs[Min(best)])
<1> DEFINE best == BestFor(doc, refs, acc.taken)
<1>1. best \in SUBSET (1 .. Len(refs)) /\ Len(refs) \in Nat /\ DOMAIN refs = 1 .. Len(refs)
  BY DEF BestFor
<1>2. best # {} => Min(best) \in best
  <2> HIDE DEF best
  <2> QED BY <1>1, MinIsIn
<1>3. Paired(acc, doc, refs) = IF best = {} THEN acc ELSE Take(acc, doc, refs[Min(best)])
  BY DEF Paired, FirstTaken
<1> HIDE DEF best
<1>4. ASSUME best # {}
      PROVE  Take(acc, doc, refs[Min(best)]) \in PairingState(refs)
  <2> DEFINE ref == refs[Min(best)]
  <2>1. Min(best) \in DOMAIN refs
    BY <1>1, <1>2, <1>4
  <2>2. ref \in ToSet(refs) /\ ref \in Names
    BY <1>1, <2>1 DEF ToSet
  <2> HIDE DEF ref
  <2>3. MatchNames(doc, ref).score \in 0 .. 100
    BY <2>2, NamesMatch
  <2>4. acc.taken \cup {ref} \in SUBSET ToSet(refs)
    BY <2>2 DEF PairingState
  <2>5. Append(acc.scores, MatchNames(doc, ref).score) \in Seq(0 .. 100)
    BY <2>3 DEF PairingState
  <2>6. Take(acc, doc, ref) \in PairingState(refs)
    BY <2>4, <2>5 DEF Take, PairingState
  <2> QED BY <2>6 DEF ref
<1> QED BY <1>2, <1>3, <1>4 DEF best

\* The states the pairing of docs passes through.
Pairing(tr, docs, refs) ==
  /\ tr \in [0 .. Len(docs) -> PairingState(refs)]
  /\ tr[0] = Start
  /\ \A i \in 1 .. Len(docs) : tr[i] = Paired(tr[i - 1], docs[i], refs)

LEMMA PairingExists ==
  ASSUME NEW docs \in Seq(Names), NEW refs \in Seq(Names)
  PROVE  \E tr : /\ Pairing(tr, docs, refs)
                 /\ MatchOwnerSets(docs, refs) = OwnersVerdict(docs, refs, tr[Len(docs)].scores)
<1> DEFINE V == PairingState(refs)
           n == Len(docs)
           op(acc, d) == Paired(acc, d, refs)
           base == Start
           body(f) == [s \in SUBSET (1 .. n) |->
                         IF s = {} THEN base ELSE op(f[s \ {Max(s)}], docs[Max(s)])]
           g == [i \in 1 .. n |-> [v \in V |-> op(v, docs[i])]]
           h == CHOOSE f : f = body(f)
<1>1. n \in Nat /\ DOMAIN docs = 1 .. n
  OBVIOUS
<1>2. Foldable(n, V, base, g)
  <2>1. \A i \in 1 .. n : \A v \in V : op(v, docs[i]) \in V
    <3>1. \A i \in 1 .. n : docs[i] \in Names
      BY <1>1
    <3> QED BY <3>1, PairedType
  <2>2. base \in V
    BY DEF Start, PairingState
  <2> HIDE DEF op, V
  <2> QED BY <1>1, <2>1, <2>2 DEF Foldable
<1>3. \A s \in SUBSET (1 .. n) : s # {} => Max(s) \in 1 .. n /\ s \ {Max(s)} \in SUBSET (1 .. n)
  BY <1>1, MaxIsIn
<1> HIDE DEF V, base, n, op
<1>4. \A i \in 1 .. n : \A v \in V : g[i][v] = op(v, docs[i])
  OBVIOUS
<1> HIDE DEF g
<1>5. \E f : f = body(f)
  <2>1. PICK f \in [SUBSET (1 .. n) -> V] : SeqFolds(f, n, base, g)
    BY <1>2, SeqFold
  <2>2. \A s \in SUBSET (1 .. n) : s # {} =>
          g[Max(s)][f[s \ {Max(s)}]] = op(f[s \ {Max(s)}], docs[Max(s)])
    BY <1>3, <1>4, <2>1
  <2>3. f = body(f)
    BY <2>1, <2>2 DEF SeqFolds
  <2> HIDE DEF body
  <2> QED BY <2>3
<1>6. h = body(h)
  <2> HIDE DEF body
  <2> QED BY <1>5
<1>7. MatchOwnerSets(docs, refs) = OwnersVerdict(docs, refs, h[1 .. n].scores)
  BY <1>1 DEF MatchOwnerSets, FoldLeft, MapThenFoldSet, base, Start, op
<1> HIDE DEF h
<1>8. PICK tr \in [0 .. n -> V] : Trace(tr, n, base, g) /\ tr[n] = h[1 .. n]
  <2>1. GoesOn(h, n, V, base, g)
    BY <1>3, <1>4, <1>6 DEF GoesOn
  <2> QED BY <1>2, <2>1, SeqTrace
<1>9. ASSUME NEW i \in 1 .. n
      PROVE  tr[i] = Paired(tr[i - 1], docs[i], refs)
  <2>1. tr[i - 1] \in V
    BY <1>1, <1>8
  <2> QED BY <1>4, <1>8, <2>1 DEF Trace, op
<1> QED BY <1>7, <1>8, <1>9 DEF Pairing, Trace, V, base, n

LEMMA TotalType ==
  ASSUME NEW pairs \in Seq(0 .. 100)
  PROVE  FoldLeft(LAMBDA x, y : x + y, 0, pairs) \in Nat
<1> DEFINE V == Nat
           n == Len(pairs)
           op(x, y) == x + y
           base == 0
           body(f) == [s \in SUBSET (1 .. n) |->
                         IF s = {} THEN base ELSE op(f[s \ {Max(s)}], pairs[Max(s)])]
           g == [i \in 1 .. n |-> [v \in V |-> op(v, pairs[i])]]
           h == CHOOSE f : f = body(f)
<1>1. n \in Nat /\ DOMAIN pairs = 1 .. n
  OBVIOUS
<1>2. Foldable(n, V, base, g)
  <2>1. \A i \in 1 .. n : \A v \in V : op(v, pairs[i]) \in V
    <3>1. \A i \in 1 .. n : pairs[i] \in 0 .. 100
      BY SequenceElements
    <3>2. \A x \in 0 .. 100 : x \in Nat
      OBVIOUS
    <3>3. \A i \in 1 .. n : pairs[i] \in Nat
      <4> HIDE DEF n
      <4> QED BY ONLY <3>1, <3>2
    <3> QED BY ONLY <3>3
  <2> HIDE DEF op, V
  <2> QED BY <1>1, <2>1 DEF V, Foldable
<1>3. \A s \in SUBSET (1 .. n) : s # {} => Max(s) \in 1 .. n /\ s \ {Max(s)} \in SUBSET (1 .. n)
  BY <1>1, MaxIsIn
<1> HIDE DEF V, base, n, op
<1>4. \A i \in 1 .. n : \A v \in V : g[i][v] = op(v, pairs[i])
  OBVIOUS
<1> HIDE DEF g
<1>5. \E f : f = body(f)
  <2>1. PICK f \in [SUBSET (1 .. n) -> V] : SeqFolds(f, n, base, g)
    BY <1>2, SeqFold
  <2>2. \A s \in SUBSET (1 .. n) : s # {} =>
          g[Max(s)][f[s \ {Max(s)}]] = op(f[s \ {Max(s)}], pairs[Max(s)])
    BY <1>3, <1>4, <2>1
  <2>3. f = body(f)
    BY <2>1, <2>2 DEF SeqFolds
  <2> HIDE DEF body
  <2> QED BY <2>3
<1>6. h = body(h)
  <2> HIDE DEF body
  <2> QED BY <1>5
<1>7. FoldLeft(LAMBDA x, y : x + y, 0, pairs) = h[1 .. n]
  BY <1>1 DEF FoldLeft, MapThenFoldSet, base, op
<1> HIDE DEF h
<1>8. h[1 .. n] \in V
  <2>1. GoesOn(h, n, V, base, g)
    BY <1>3, <1>4, <1>6 DEF GoesOn
  <2> QED BY <1>2, <2>1, SeqTrace
<1> QED BY <1>7, <1>8 DEF V

\* Whatever two lists of names are compared, the verdict is one of the statuses
\* and the score a number.
LEMMA MatchOwnerSetsType ==
  ASSUME NEW docs \in Seq(Names), NEW refs \in Seq(Names)
  PROVE  /\ MatchOwnerSets(docs, refs).status \in MatchStatus
         /\ MatchOwnerSets(docs, refs).score \in Nat
<1>1. PICK tr : /\ Pairing(tr, docs, refs)
                /\ MatchOwnerSets(docs, refs) = OwnersVerdict(docs, refs, tr[Len(docs)].scores)
  BY PairingExists
<1> DEFINE pairs == tr[Len(docs)].scores
           total == FoldLeft(LAMBDA x, y : x + y, 0, pairs)
           owners == IF Len(docs) > Len(refs) THEN Len(docs) ELSE Len(refs)
<1>2. Len(docs) \in Nat /\ Len(refs) \in Nat
  OBVIOUS
<1>3. pairs \in Seq(0 .. 100)
  <2>1. tr[Len(docs)] \in PairingState(refs)
    BY <1>1, <1>2 DEF Pairing
  <2> QED BY <2>1 DEF PairingState
<1> HIDE DEF pairs
<1>4. total \in Nat
  BY <1>3, TotalType
<1>5. docs # << >> => Rounded(total, owners) \in Nat
  <2>1. docs # << >> => owners \in Nat \ {0}
    BY <1>2
  <2> HIDE DEF owners, total
  <2> QED BY <1>4, <2>1, RoundedType
<1>6. /\ OwnersVerdict(docs, refs, pairs).status \in MatchStatus
      /\ OwnersVerdict(docs, refs, pairs).score \in Nat
  <2> DEFINE score == Rounded(total, owners)
             same == Len(pairs) = Len(docs) /\ Len(docs) = Len(refs)
  <2>1. OwnersVerdict(docs, refs, pairs) =
          IF docs = << >> /\ refs = << >> THEN Verdict("NOT_CHECKED", 0)
          ELSE IF docs = << >> \/ refs = << >> THEN Verdict("NOT_FOUND", 0)
          ELSE IF same /\ \A i \in DOMAIN pairs : pairs[i] >= 95 THEN Verdict("MATCH", score)
          ELSE Verdict(IF pairs # << >> THEN "PARTIAL_MATCH" ELSE "MISMATCH", score)
    BY DEF OwnersVerdict
  <2>2. docs # << >> => score \in Nat
    BY <1>5
  <2> HIDE DEF score, same
  <2> QED BY <2>1, <2>2 DEF Verdict, MatchStatus
<1> QED BY <1>1, <1>6 DEF pairs

-----------------------------------------------------------------------------
(* The greedy pairing finds the pairing there is                           *)

\* Short names are told apart by their scores.
LEMMA ScoresTell ==
  ASSUME ShortNames, NEW doc \in Names, NEW ref \in Names
  PROVE  /\ SameWords(doc, ref) => Acceptable(doc, ref) /\ MatchNames(doc, ref).score >= 98
         /\ ~SameWords(doc, ref) => MatchNames(doc, ref).score < 95
<1>1. /\ IsSequence(NormalName(doc)) /\ IsSequence(NormalName(ref))
      /\ Len(NormalName(doc)) <= 4
  BY NamesMatch DEF ShortNames
<1> QED BY <1>1, ShortNamesTellApart DEF SameWords, MatchNames, Acceptable

\* The i-th owner of docs takes refs[p[i]].
Takes(tr, docs, refs, p, i) ==
  /\ p[i] \in BestFor(docs[i], refs, tr[i - 1].taken)
  /\ tr[i] = Take(tr[i - 1], docs[i], refs[p[i]])

FirstBest(tr, docs, refs) ==
  [i \in 1 .. Len(docs) |-> Min(BestFor(docs[i], refs, tr[i - 1].taken))]

\* An owner takes one if any is left, and then adds one score.
LEMMA PairingStep ==
  ASSUME NEW docs \in Seq(Names), NEW refs \in Seq(Names), NEW tr, Pairing(tr, docs, refs),
         NEW i \in 1 .. Len(docs)
  PROVE  LET best == BestFor(docs[i], refs, tr[i - 1].taken)
         IN  /\ best = {} => tr[i] = tr[i - 1]
             /\ best # {} => Takes(tr, docs, refs, FirstBest(tr, docs, refs), i)
<1>1. docs[i] \in Names /\ tr[i - 1] \in PairingState(refs)
  <2>1. Len(docs) \in Nat /\ i - 1 \in 0 .. Len(docs)
    OBVIOUS
  <2> QED BY <2>1 DEF Pairing
<1>2. tr[i] = Paired(tr[i - 1], docs[i], refs)
  BY DEF Pairing
<1>3. FirstBest(tr, docs, refs)[i] = Min(BestFor(docs[i], refs, tr[i - 1].taken))
  BY DEF FirstBest
<1>4. LET best == BestFor(docs[i], refs, tr[i - 1].taken)
          next == Paired(tr[i - 1], docs[i], refs)
      IN  IF best = {} THEN next = tr[i - 1]
          ELSE Min(best) \in best /\ next = Take(tr[i - 1], docs[i], refs[Min(best)])
  BY <1>1, PairedType
<1> QED BY <1>2, <1>3, <1>4 DEF Takes

\* What is known of the scores along the way.
LEMMA ScoresType ==
  ASSUME NEW docs \in Seq(Names), NEW refs \in Seq(Names), NEW tr, Pairing(tr, docs, refs),
         NEW i \in 0 .. Len(docs)
  PROVE  tr[i].scores \in Seq(0 .. 100) /\ Len(tr[i].scores) \in Nat
<1>1. tr[i] \in PairingState(refs)
  BY DEF Pairing
<1>2. tr[i].scores \in Seq(0 .. 100)
  BY <1>1 DEF PairingState
<1> QED BY <1>2, SequenceElements

\* The i-th owner has been paired: the score of the pair was appended.
Grown(tr, docs, refs, p, i) ==
  LET old == tr[i - 1].scores
      new == tr[i].scores
  IN  /\ Len(new) = Len(old) + 1
      /\ \A k \in 1 .. Len(old) : new[k] = old[k]
      /\ new[Len(old) + 1] = MatchNames(docs[i], refs[p[i]]).score
      /\ tr[i].taken = tr[i - 1].taken \cup {refs[p[i]]}

LEMMA TakingAppends ==
  ASSUME NEW docs \in Seq(Names), NEW refs \in Seq(Names), NEW tr, Pairing(tr, docs, refs),
         NEW p, NEW i \in 1 .. Len(docs), Takes(tr, docs, refs, p, i)
  PROVE  Grown(tr, docs, refs, p, i)
<1> DEFINE old == tr[i - 1].scores
           score == MatchNames(docs[i], refs[p[i]]).score
<1>1. old \in Seq(0 .. 100)
  <2>1. i - 1 \in 0 .. Len(docs)
    OBVIOUS
  <2> QED BY <2>1, ScoresType
<1>2. tr[i].scores = Append(old, score) /\ tr[i].taken = tr[i - 1].taken \cup {refs[p[i]]}
  BY DEF Takes, Take
<1> HIDE DEF old, score
<1>3. ASSUME NEW S, NEW s \in Seq(S), NEW x
      PROVE  /\ Len(Append(s, x)) = Len(s) + 1
             /\ \A k \in 1 .. Len(s) : Append(s, x)[k] = s[k]
             /\ Append(s, x)[Len(s) + 1] = x
  OBVIOUS
<1> QED BY <1>1, <1>2, <1>3 DEF old, score, Grown

\* What starts at 0 and reaches n in n steps of at most 1 is never behind.
LEMMA NeverBehind ==
  ASSUME NEW n \in Nat, NEW L \in [0 .. n -> Nat], L[0] = 0, L[n] = n,
         \A i \in 1 .. n : L[i] <= L[i - 1] + 1
  PROVE  \A i \in 0 .. n : L[i] = i
<1> DEFINE P == {i \in 0 .. n : L[i] <= i}
           Q == {i \in 0 .. n : L[n - i] >= n - i}
<1>1. \A i \in 0 .. n : i \in P
  <2>1. 0 \in P
    OBVIOUS
  <2>2. ASSUME NEW i \in 0 .. n - 1, i \in P
        PROVE  i + 1 \in P
    <3>1. i + 1 \in 1 .. n /\ (i + 1) - 1 = i
      OBVIOUS
    <3>2. L[i + 1] <= L[i] + 1 /\ L[i] <= i /\ L[i] \in Nat /\ L[i + 1] \in Nat
      BY <2>2, <3>1
    <3> QED BY <3>1, <3>2
  <2> HIDE DEF P
  <2> QED BY <2>1, <2>2, CountingUp
<1>2. \A i \in 0 .. n : i \in Q
  <2>1. 0 \in Q
    OBVIOUS
  <2>2. ASSUME NEW i \in 0 .. n - 1, i \in Q
        PROVE  i + 1 \in Q
    <3>1. n - i \in 1 .. n /\ (n - i) - 1 = n - (i + 1) /\ n - (i + 1) \in 0 .. n
      OBVIOUS
    <3>2. L[n - i] <= L[n - (i + 1)] + 1
      BY <3>1
    <3>3. L[n - i] >= n - i /\ L[n - i] \in Nat /\ L[n - (i + 1)] \in Nat
      BY <2>2, <3>1
    <3>4. L[n - (i + 1)] >= n - (i + 1)
      BY <3>2, <3>3
    <3> QED BY <3>1, <3>4
  <2> HIDE DEF Q
  <2> QED BY <2>1, <2>2, CountingUp
<1> SUFFICES ASSUME NEW i \in 0 .. n
             PROVE  L[i] = i
  OBVIOUS
<1>3. L[i] <= i
  BY <1>1
<1>4. L[i] >= i
  <2>1. n - i \in 0 .. n /\ n - (n - i) = i
    OBVIOUS
  <2> QED BY <1>2, <2>1
<1> QED BY <1>3, <1>4

\* If there are as many pairs as owners, every owner took one.
LEMMA AllTake ==
  ASSUME NEW docs \in Seq(Names), NEW refs \in Seq(Names), NEW tr, Pairing(tr, docs, refs),
         Len(tr[Len(docs)].scores) = Len(docs)
  PROVE  /\ \A i \in 1 .. Len(docs) : Takes(tr, docs, refs, FirstBest(tr, docs, refs), i)
         /\ \A i \in 0 .. Len(docs) : Len(tr[i].scores) = i
<1> DEFINE n == Len(docs)
           L == [i \in 0 .. n |-> Len(tr[i].scores)]
           p == FirstBest(tr, docs, refs)
<1>1. n \in Nat
  OBVIOUS
<1>2. ASSUME NEW i \in 1 .. n
      PROVE  \/ Takes(tr, docs, refs, p, i) /\ Len(tr[i].scores) = Len(tr[i - 1].scores) + 1
             \/ tr[i] = tr[i - 1]
  <2>1. Takes(tr, docs, refs, p, i) \/ tr[i] = tr[i - 1]
    BY PairingStep
  <2> HIDE DEF p
  <2>2. Takes(tr, docs, refs, p, i) => Len(tr[i].scores) = Len(tr[i - 1].scores) + 1
    BY TakingAppends DEF Grown
  <2> QED BY <2>1, <2>2
<1>3. \A i \in 0 .. n : Len(tr[i].scores) \in Nat
  BY ScoresType
<1>4. tr[0].scores = << >> /\ Len(tr[0].scores) = 0
  BY DEF Pairing, Start
<1>5. \A i \in 1 .. n : i - 1 \in 0 .. n /\ i \in 0 .. n
  BY <1>1
<1>6. \A i \in 0 .. n : L[i] = i
  <2>1. L \in [0 .. n -> Nat] /\ L[0] = 0 /\ L[n] = n
    BY <1>1, <1>3, <1>4
  <2>2. ASSUME NEW i \in 1 .. n
        PROVE  L[i] <= L[i - 1] + 1
    <3>1. Len(tr[i].scores) <= Len(tr[i - 1].scores) + 1
      <4>1. Len(tr[i].scores) \in Nat /\ Len(tr[i - 1].scores) \in Nat
        BY <1>3, <1>5
      <4>2. CASE tr[i] = tr[i - 1]
        BY <4>1, <4>2
      <4>3. CASE Len(tr[i].scores) = Len(tr[i - 1].scores) + 1
        BY <4>1, <4>3
      <4> QED BY <1>2, <4>2, <4>3
    <3> QED BY <1>5, <3>1
  <2> HIDE DEF L, n
  <2> QED BY <1>1, <2>1, <2>2, NeverBehind
<1>7. \A i \in 0 .. n : Len(tr[i].scores) = i
  BY <1>6
<1>8. ASSUME NEW i \in 1 .. n
      PROVE  Takes(tr, docs, refs, p, i)
  <2>1. Len(tr[i].scores) = i /\ Len(tr[i - 1].scores) = i - 1
    BY <1>5, <1>7
  <2>2. i # i - 1
    OBVIOUS
  <2> HIDE DEF p
  <2> QED BY <1>2, <2>1, <2>2
<1> QED BY <1>7, <1>8

\* Along the way, what was taken stays taken and every pair keeps its score.
LEMMA PairsRecorded ==
  ASSUME NEW docs \in Seq(Names), NEW refs \in Seq(Names), NEW tr, Pairing(tr, docs, refs),
         NEW p, \A i \in 1 .. Len(docs) : Takes(tr, docs, refs, p, i),
         \A i \in 0 .. Len(docs) : Len(tr[i].scores) = i
  PROVE  \A i \in 0 .. Len(docs) : \A k \in 1 .. i :
           /\ tr[i].scores[k] = MatchNames(docs[k], refs[p[k]]).score
           /\ refs[p[k]] \in tr[i].taken
<1> DEFINE n == Len(docs)
           Kept(i, k) == /\ tr[i].scores[k] = MatchNames(docs[k], refs[p[k]]).score
                         /\ refs[p[k]] \in tr[i].taken
           P == {i \in 0 .. n : \A k \in 1 .. i : Kept(i, k)}
<1>1. n \in Nat
  OBVIOUS
<1>2. 0 \in P
  BY <1>1
<1>3. ASSUME NEW i \in 0 .. n - 1, i \in P
      PROVE  i + 1 \in P
  <2>1. i + 1 \in 1 .. n /\ (i + 1) - 1 = i /\ i \in 0 .. n /\ i + 1 \in 0 .. n
    BY <1>1
  <2>2. Len(tr[i].scores) = i
    BY <2>1
  <2>3. /\ \A k \in 1 .. i : tr[i + 1].scores[k] = tr[i].scores[k]
        /\ tr[i + 1].scores[i + 1] = MatchNames(docs[i + 1], refs[p[i + 1]]).score
        /\ tr[i + 1].taken = tr[i].taken \cup {refs[p[i + 1]]}
    <3>1. PICK j \in 1 .. n : j = i + 1 /\ j - 1 = i
      BY <2>1
    <3>2. Takes(tr, docs, refs, p, j)
      OBVIOUS
    <3>3. /\ \A k \in 1 .. Len(tr[j - 1].scores) : tr[j].scores[k] = tr[j - 1].scores[k]
          /\ tr[j].scores[Len(tr[j - 1].scores) + 1] = MatchNames(docs[j], refs[p[j]]).score
          /\ tr[j].taken = tr[j - 1].taken \cup {refs[p[j]]}
      BY <3>2, TakingAppends DEF Grown
    <3> QED BY <2>2, <3>1, <3>3
  <2>4. \A k \in 1 .. i : Kept(i, k)
    BY <1>3
  <2>5. \A k \in 1 .. i + 1 : k \in 1 .. i \/ k = i + 1
    BY <2>1
  <2>6. \A k \in 1 .. i + 1 : Kept(i + 1, k)
    BY <2>3, <2>4, <2>5
  <2> QED BY <2>1, <2>6
<1> HIDE DEF P
<1>4. \A i \in 0 .. n : i \in P
  BY <1>1, <1>2, <1>3, CountingUp
<1> QED BY <1>4 DEF P

\* A verdict MATCH means what it says (NameMatcher.match_owner_sets): the owners
\* of the two lists are, one for one, of the same names.
THEOREM MatchIsOneToOne ==
  ASSUME ShortNames, NEW docs \in Seq(Names), NEW refs \in Seq(Names),
         MatchOwnerSets(docs, refs).status = "MATCH"
  PROVE  OneToOne(docs, refs)
<1>1. PICK tr : /\ Pairing(tr, docs, refs)
                /\ MatchOwnerSets(docs, refs) = OwnersVerdict(docs, refs, tr[Len(docs)].scores)
  BY PairingExists
<1> DEFINE n == Len(docs)
           p == FirstBest(tr, docs, refs)
           pairs == tr[n].scores
<1>2. n \in Nat /\ DOMAIN docs = 1 .. n
  OBVIOUS
<1>3. Len(pairs) = n /\ Len(refs) = n /\ \A i \in DOMAIN pairs : pairs[i] >= 95
  <2>1. OwnersVerdict(docs, refs, pairs).status = "MATCH"
    BY <1>1
  <2> HIDE DEF pairs
  <2> QED BY <2>1 DEF OwnersVerdict, Verdict
<1>4. \A i \in 1 .. n : Takes(tr, docs, refs, p, i)
  <2> HIDE DEF p
  <2> QED BY <1>1, <1>3, AllTake DEF p
<1>5. \A i \in 0 .. n : \A k \in 1 .. i :
        /\ tr[i].scores[k] = MatchNames(docs[k], refs[p[k]]).score
        /\ refs[p[k]] \in tr[i].taken
  <2>1. \A i \in 0 .. n : Len(tr[i].scores) = i
    BY <1>1, <1>3, AllTake
  <2> HIDE DEF p
  <2> QED BY <1>1, <1>4, <2>1, PairsRecorded
<1>6. p \in [1 .. n -> 1 .. n]
  <2>1. \A i \in 1 .. n : p[i] \in 1 .. n
    <3>1. DOMAIN refs = 1 .. n
      BY <1>3
    <3> HIDE DEF p
    <3> QED BY <1>4, <3>1 DEF Takes, BestFor
  <2>2. p = [i \in 1 .. n |-> p[i]]
    BY DEF FirstBest
  <2> HIDE DEF p
  <2> QED BY <2>1, <2>2
<1> HIDE DEF p
<1>7. ASSUME NEW i \in 1 .. n, NEW k \in 1 .. n, k < i
      PROVE  p[k] # p[i]
  <2>1. i - 1 \in 0 .. n /\ k \in 1 .. i - 1
    BY <1>2, <1>7
  <2>2. refs[p[k]] \in tr[i - 1].taken
    BY <1>5, <2>1
  <2>3. refs[p[i]] \notin tr[i - 1].taken
    BY <1>4 DEF Takes, BestFor
  <2> QED BY <2>2, <2>3
<1>8. \A i, k \in 1 .. n : p[i] = p[k] => i = k
  <2> SUFFICES ASSUME NEW i \in 1 .. n, NEW k \in 1 .. n, p[i] = p[k]
               PROVE  i = k
    OBVIOUS
  <2>1. i < k \/ k < i \/ i = k
    BY <1>2
  <2> QED BY <1>7, <2>1
<1>9. p \in Bijection(1 .. n, 1 .. n)
  <2>1. p \in Injection(1 .. n, 1 .. n)
    BY <1>6, <1>8 DEF Injection, IsInjective
  <2>2. IsFiniteSet(1 .. n)
    BY <1>2, FS_Interval
  <2> QED BY <2>1, <2>2, FS_Injection DEF Bijection
<1>10. DOMAIN refs = 1 .. n
  BY <1>3
<1>11. ASSUME NEW i \in 1 .. n
       PROVE  SameWords(docs[i], refs[p[i]])
  <2>1. pairs[i] = MatchNames(docs[i], refs[p[i]]).score
    <3>1. n \in 0 .. n
      BY <1>2
    <3> QED BY <1>5, <3>1
  <2>2. pairs[i] >= 95
    <3>1. DOMAIN pairs = 1 .. n
      <4>1. pairs \in Seq(0 .. 100)
        BY <1>1, <1>2, ScoresType
      <4> HIDE DEF pairs
      <4> QED BY <1>3, <4>1
    <3> QED BY <1>3, <3>1
  <2>3. docs[i] \in Names /\ refs[p[i]] \in Names
    BY <1>3, <1>6
  <2>4. MatchNames(docs[i], refs[p[i]]).score \in 0 .. 100
    BY <2>3, NamesMatch
  <2>5. ~ (MatchNames(docs[i], refs[p[i]]).score < 95)
    <3> DEFINE x == MatchNames(docs[i], refs[p[i]]).score
    <3>1. x \in Int /\ x >= 95
      BY <2>1, <2>2, <2>4
    <3>2. ~ (x < 95)
      <4> HIDE DEF x
      <4> QED BY <3>1
    <3> QED BY <3>2
  <2> QED BY <2>3, <2>5, ScoresTell
<1> QED BY <1>2, <1>3, <1>9, <1>10, <1>11 DEF OneToOne

\* If one of the same name is left, the best of those that are left is one.
LEMMA BestIsSame ==
  ASSUME ShortNames, NEW doc \in Names, NEW refs \in Seq(Names), NEW taken,
         NEW j \in 1 .. Len(refs), SameWords(doc, refs[j]), refs[j] \notin taken
  PROVE  /\ BestFor(doc, refs, taken) # {}
         /\ \A b \in BestFor(doc, refs, taken) : SameWords(doc, refs[b])
<1> DEFINE m == Len(refs)
           left == {i \in 1 .. m : refs[i] \notin taken /\ Acceptable(doc, refs[i])}
           w == [i \in 1 .. m |-> MatchNames(doc, refs[i]).score]
           best == BestFor(doc, refs, taken)
<1>1. m \in Nat /\ DOMAIN refs = 1 .. m /\ \A i \in 1 .. m : refs[i] \in Names
  BY SequenceElements
<1>2. w \in [1 .. m -> Int]
  <2>1. \A i \in 1 .. m : MatchNames(doc, refs[i]).score \in 0 .. 100
    BY <1>1, NamesMatch
  <2>2. \A x \in 0 .. 100 : x \in Int
    OBVIOUS
  <2>3. \A i \in 1 .. m : MatchNames(doc, refs[i]).score \in Int
    BY ONLY <2>1, <2>2
  <2> QED BY ONLY <2>3
<1>3. j \in left /\ w[j] >= 98
  BY <1>1, ScoresTell
<1>4. best = {i \in left : \A k \in left : w[k] <= w[i]}
  BY <1>1 DEF BestFor
<1>5. \A i \in 1 .. m : ~SameWords(doc, refs[i]) => w[i] < 95
  BY <1>1, ScoresTell
<1>6. left \in SUBSET (1 .. m) /\ IsFiniteSet(1 .. m)
  BY <1>1, FS_Interval
<1> HIDE DEF left, w, best
<1>7. \E i \in left : \A k \in left : w[k] <= w[i]
  <2>1. \A s \in SUBSET (1 .. m) : s # {} => \E i \in s : \A x \in s : w[x] <= w[i]
    BY ONLY <1>2, <1>6, Heaviest
  <2>2. left # {}
    BY <1>3
  <2> QED BY <1>6, <2>1, <2>2
<1>8. ASSUME NEW b \in best
      PROVE  SameWords(doc, refs[b])
  <2>1. b \in 1 .. m /\ w[j] <= w[b] /\ w[b] \in Int /\ w[j] \in Int
    BY <1>2, <1>3, <1>4, <1>6
  <2>2. ~ (w[b] < 95)
    BY <1>3, <2>1
  <2> QED BY <1>5, <2>1, <2>2
<1> QED BY <1>4, <1>7, <1>8 DEF best

\* As long as every owner before took one of the same name, one is left for the
\* next: those before it of that name cannot have taken all there are.
WellSoFar(n, docs, refs, q, i, p, taken) ==
  /\ n \in Nat /\ DOMAIN refs = 1 .. n /\ Repeatless(refs)
  /\ q \in Bijection(1 .. n, 1 .. n)
  /\ \A k \in 1 .. n : SameWords(docs[k], refs[q[k]])
  /\ i \in 0 .. n - 1
  /\ \A k \in 1 .. i : p[k] \in 1 .. n /\ SameWords(docs[k], refs[p[k]])
  /\ taken \subseteq {refs[p[k]] : k \in 1 .. i}

LEMMA OneIsLeft ==
  ASSUME NEW n, NEW docs, NEW refs, NEW q, NEW i, NEW p, NEW taken,
         WellSoFar(n, docs, refs, q, i, p, taken)
  PROVE  \E j \in 1 .. n : SameWords(docs[i + 1], refs[j]) /\ refs[j] \notin taken
<1> USE DEF WellSoFar
<1> SUFFICES ASSUME \A j \in 1 .. n : SameWords(docs[i + 1], refs[j]) => refs[j] \in taken
             PROVE  FALSE
  OBVIOUS
<1> DEFINE W(name) == ToSet(NormalName(name))
           D == {k \in 1 .. i : W(docs[k]) = W(docs[i + 1])}
           E == D \cup {i + 1}
           T == {p[k] : k \in D}
           qE == [k \in E |-> q[k]]
           pD == [k \in D |-> p[k]]
<1>1. 1 .. i \subseteq 1 .. n /\ i + 1 \in 1 .. n /\ i + 1 \notin 1 .. i
  OBVIOUS
<1>2. /\ \A k \in 1 .. n : W(docs[k]) = W(refs[q[k]]) /\ q[k] \in 1 .. n
      /\ \A k \in 1 .. i : p[k] \in 1 .. n /\ W(docs[k]) = W(refs[p[k]])
      /\ \A j \in 1 .. n : W(docs[i + 1]) = W(refs[j]) => refs[j] \in taken
      /\ \A a, b \in 1 .. n : q[a] = q[b] => a = b
  BY DEF SameWords, Bijection, Injection, IsInjective
<1> HIDE DEF W
<1>3. \A k \in E : k \in 1 .. n /\ W(docs[k]) = W(docs[i + 1])
  BY <1>1
<1>4. ASSUME NEW k \in E
      PROVE  q[k] \in T
  <2>1. W(refs[q[k]]) = W(docs[i + 1]) /\ q[k] \in 1 .. n
    BY <1>2, <1>3
  <2>2. refs[q[k]] \in taken
    BY <1>2, <2>1
  <2>3. PICK l \in 1 .. i : refs[q[k]] = refs[p[l]]
    BY <2>2
  <2>4. q[k] = p[l]
    BY <1>2, <2>1, <2>3 DEF Repeatless
  <2>5. l \in D
    BY <1>2, <2>1, <2>4
  <2> QED BY <2>4, <2>5
<1>5. IsFiniteSet(D) /\ Cardinality(D) \in Nat
  <2>1. IsFiniteSet(1 .. i) /\ D \in SUBSET (1 .. i)
    BY FS_Interval
  <2> QED BY <2>1, FS_Subset, FS_CardinalityType
<1>6. IsFiniteSet(E) /\ Cardinality(E) = Cardinality(D) + 1
  BY <1>1, <1>5, FS_AddElement
<1>7. IsFiniteSet(T) /\ Cardinality(T) <= Cardinality(D)
  <2>1. pD \in Surjection(D, T)
    BY DEF Surjection
  <2> HIDE DEF pD, T, D
  <2> QED BY <1>5, <2>1, FS_Surjection
<1>8. Cardinality(E) <= Cardinality(T)
  <2>1. qE \in Injection(E, T)
    <3>1. qE \in [E -> T]
      BY <1>4
    <3>2. \A a, b \in E : qE[a] = qE[b] => a = b
      BY <1>2, <1>3
    <3> HIDE DEF qE, E, T
    <3> QED BY <3>1, <3>2 DEF Injection, IsInjective
  <2> HIDE DEF qE, E, T
  <2> QED BY <1>7, <2>1, FS_Injection
<1>9. Cardinality(T) \in Nat
  BY <1>7, FS_CardinalityType
<1> QED BY <1>5, <1>6, <1>7, <1>8, <1>9

\* If the owners of two lists are, one for one, of the same names and the second
\* list repeats none, the verdict is MATCH, whatever their order.
THEOREM OneToOneMatches ==
  ASSUME ShortNames, NEW docs \in Seq(Names), NEW refs \in Seq(Names),
         docs # << >>, Repeatless(refs), OneToOne(docs, refs)
  PROVE  MatchOwnerSets(docs, refs).status = "MATCH"
<1>1. PICK tr : /\ Pairing(tr, docs, refs)
                /\ MatchOwnerSets(docs, refs) = OwnersVerdict(docs, refs, tr[Len(docs)].scores)
  BY PairingExists
<1> DEFINE n == Len(docs)
           p == FirstBest(tr, docs, refs)
           pairs == tr[n].scores
<1>2. /\ n \in Nat /\ DOMAIN docs = 1 .. n /\ DOMAIN refs = 1 .. n /\ Len(refs) = n
      /\ \A i \in 1 .. n : docs[i] \in Names /\ refs[i] \in Names
  BY SequenceElements DEF OneToOne
<1>3. PICK q \in Bijection(1 .. n, 1 .. n) : \A k \in 1 .. n : SameWords(docs[k], refs[q[k]])
  BY <1>2 DEF OneToOne
<1> DEFINE Good(i) ==
             /\ \A k \in 1 .. i : p[k] \in 1 .. n /\ SameWords(docs[k], refs[p[k]])
             /\ tr[i].taken \subseteq {refs[p[k]] : k \in 1 .. i}
             /\ Len(tr[i].scores) = i
             /\ \A k \in 1 .. i : tr[i].scores[k] >= 95
           P == {i \in 0 .. n : Good(i)}
<1>4. 0 \in P
  <2>1. tr[0].taken = {} /\ tr[0].scores = << >> /\ Len(tr[0].scores) = 0
    BY <1>1 DEF Pairing, Start
  <2> QED BY <1>2, <2>1
<1>5. ASSUME NEW i \in 0 .. n - 1, i \in P
      PROVE  i + 1 \in P
  <2>1. PICK j \in 1 .. n : j = i + 1 /\ j - 1 = i
    BY <1>2
  <2> DEFINE best == BestFor(docs[j], refs, tr[i].taken)
  <2>2. Good(i)
    BY <1>5
  <2>3. \E k \in 1 .. n : SameWords(docs[j], refs[k]) /\ refs[k] \notin tr[i].taken
    <3> DEFINE taken == tr[i].taken
    <3>1. /\ \A k \in 1 .. i : p[k] \in 1 .. n /\ SameWords(docs[k], refs[p[k]])
          /\ taken \subseteq {refs[p[k]] : k \in 1 .. i}
      BY <2>2
    <3>2. n \in Nat /\ DOMAIN refs = 1 .. n /\ Repeatless(refs) /\ i \in 0 .. n - 1
      BY <1>2
    <3>3. q \in Bijection(1 .. n, 1 .. n) /\ \A k \in 1 .. n : SameWords(docs[k], refs[q[k]])
      BY <1>3
    <3> HIDE DEF p, n, taken
    <3>4. \E k \in 1 .. n : SameWords(docs[i + 1], refs[k]) /\ refs[k] \notin taken
      <4>1. WellSoFar(n, docs, refs, q, i, p, taken)
        BY <3>1, <3>2, <3>3 DEF WellSoFar
      <4> QED BY ONLY <4>1, OneIsLeft
    <3> QED BY <2>1, <3>4 DEF taken
  <2>4. best # {} /\ \A b \in best : SameWords(docs[j], refs[b])
    BY <1>2, <2>3, BestIsSame
  <2>5. Takes(tr, docs, refs, p, j)
    <3> HIDE DEF p
    <3> QED BY <1>1, <2>1, <2>4, PairingStep DEF p
  <2> HIDE DEF p
  <2>6. p[j] \in best /\ p[j] \in 1 .. n /\ SameWords(docs[j], refs[p[j]])
    BY <1>2, <2>1, <2>4, <2>5 DEF Takes, BestFor
  <2>7. /\ Len(tr[j].scores) = j
        /\ \A k \in 1 .. i : tr[j].scores[k] = tr[i].scores[k]
        /\ tr[j].scores[j] = MatchNames(docs[j], refs[p[j]]).score
        /\ tr[j].taken = tr[i].taken \cup {refs[p[j]]}
    <3>1. Grown(tr, docs, refs, p, j)
      <4>1. docs \in Seq(Names) /\ refs \in Seq(Names) /\ Pairing(tr, docs, refs)
            /\ j \in 1 .. Len(docs) /\ Takes(tr, docs, refs, p, j)
        BY <1>1, <2>5
      <4> QED BY ONLY <4>1, TakingAppends
    <3>2. Len(tr[j - 1].scores) = i
      BY <2>1, <2>2
    <3> QED BY <2>1, <3>1, <3>2 DEF Grown
  <2>8. tr[j].scores[j] >= 95
    <3> DEFINE x == MatchNames(docs[j], refs[p[j]]).score
    <3>1. x \in 0 .. 100 /\ x >= 98
      BY <1>2, <2>6, NamesMatch, ScoresTell
    <3>2. x >= 95
      <4> HIDE DEF x
      <4> QED BY <3>1
    <3> QED BY <2>7, <3>2
  <2>9. \A k \in 1 .. j : k \in 1 .. i \/ k = j
    BY <2>1
  <2>10. Good(j)
    <3>1. \A k \in 1 .. j : p[k] \in 1 .. n /\ SameWords(docs[k], refs[p[k]])
      BY <2>2, <2>6, <2>9
    <3>2. tr[j].taken \subseteq {refs[p[k]] : k \in 1 .. j}
      <4>1. tr[i].taken \subseteq {refs[p[k]] : k \in 1 .. i}
        BY <2>2
      <4>2. 1 .. i \subseteq 1 .. j /\ j \in 1 .. j
        BY <2>1
      <4> QED BY ONLY <2>7, <4>1, <4>2
    <3>3. \A k \in 1 .. j : tr[j].scores[k] >= 95
      BY <2>2, <2>7, <2>8, <2>9
    <3> QED BY <2>7, <3>1, <3>2, <3>3
  <2> QED BY <1>2, <2>1, <2>10
<1>6. Good(n)
  <2> HIDE DEF P
  <2>1. \A i \in 0 .. n : i \in P
    BY <1>2, <1>4, <1>5, CountingUp
  <2> QED BY <1>2, <2>1 DEF P
<1>7. DOMAIN pairs = 1 .. n
  <2>1. pairs \in Seq(0 .. 100)
    BY <1>1, <1>2, ScoresType
  <2>2. Len(pairs) = n
    BY <1>6
  <2> HIDE DEF pairs
  <2> QED BY <2>1, <2>2
<1>8. Len(pairs) = n /\ Len(refs) = n /\ \A i \in DOMAIN pairs : pairs[i] >= 95
  BY <1>2, <1>6, <1>7
<1>9. docs # << >> /\ refs # << >>
  BY <1>2
<1> HIDE DEF pairs
<1>10. OwnersVerdict(docs, refs, pairs).status = "MATCH"
  BY <1>8, <1>9 DEF OwnersVerdict, Verdict
<1> QED BY <1>1, <1>10 DEF pairs
=============================================================================
