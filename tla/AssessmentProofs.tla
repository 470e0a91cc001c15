-------------------------- MODULE AssessmentProofs --------------------------
(***************************************************************************)
(* Proofs about Assessment, for any finite set of documents, any registry  *)
(* and whatever the documents say.                                         *)
(***************************************************************************)
EXTENDS Assessment, MatchingProofs

\* Two different values are more than one.
LEMMA TwoAreMore ==
  ASSUME NEW S, IsFiniteSet(S), NEW a \in S, NEW b \in S, a # b
  PROVE  Cardinality(S) > 1
<1>1. IsFiniteSet(S \ {a}) /\ Cardinality(S \ {a}) = Cardinality(S) - 1
  BY FS_RemoveElement
<1>2. Cardinality(S \ {a}) # 0
  BY <1>1, FS_EmptySet
<1>3. Cardinality(S) \in Nat /\ Cardinality(S \ {a}) \in Nat
  BY <1>1, FS_CardinalityType
<1> QED BY <1>1, <1>2, <1>3

\* Two documents that give different values make a conflict.
LEMMA DisagreementConflicts ==
  ASSUME NEW f \in Fields, NEW c \in Documents, NEW d \in Documents,
         HasValue(readings, c, f), HasValue(readings, d, f),
         NormalValue(f, readings[c][f].value) # NormalValue(f, readings[d][f].value)
  PROVE  f \in Conflicts(readings)
<1> DEFINE v(x) == NormalValue(f, readings[x][f].value)
           values == {v(x) : x \in Sources(readings, f)}
<1>1. c \in Sources(readings, f) /\ d \in Sources(readings, f)
  BY DEF Sources
<1>2. IsFiniteSet(Sources(readings, f))
  BY DocumentsAssumption, FS_Subset DEF Sources
<1> HIDE DEF v
<1>3. IsFiniteSet(values)
  <2> DEFINE fn == [x \in Sources(readings, f) |-> v(x)]
  <2>1. fn \in Surjection(Sources(readings, f), values)
    BY DEF Surjection
  <2> QED BY <1>2, <2>1, FS_Surjection
<1>4. v(c) # v(d)
  BY DEF v
<1>5. Cardinality(values) > 1
  <2> v(c) \in values /\ v(d) \in values
    BY <1>1
  <2> HIDE DEF values
  <2> QED BY <1>3, <1>4, TwoAreMore
<1> QED BY <1>5 DEF Conflicts, v

-----------------------------------------------------------------------------
(* The inductive invariant                                                 *)

\* A row of a field: its value fits the field, and is missing if the row says so.
RowStatus == {"EXTRACTED", "UNCERTAIN", "NOT_FOUND"}

IsRow(f, row) ==
  row # NoRow => /\ row.status \in RowStatus
                 /\ (row.status = "NOT_FOUND") = (row.value = Absent)
                 /\ row.confidence \in 0 .. 100
                 /\ Fits(f, row.value)

AreRows(rows) == \A f \in Fields : IsRow(f, rows[f])

ReadingsOK ==
  /\ DOMAIN readings = Documents
  /\ \A d \in Documents : readings[d] # Unread => AreRows(readings[d])

RegistryOK == \A k \in Records : registry[k] # NoRecord => IsRecord(registry[k])

ParcelsOK ==
  /\ DOMAIN parcels = ParcelKeys
  /\ \A p \in ParcelKeys : parcels[p] # NoParcel =>
       /\ parcels[p].of \in Records \cup {NoKey}
       /\ parcels[p].sqm \in Nat /\ parcels[p].valid \in BOOLEAN

IsProfile(prof) ==
  /\ prof.owners \in Seq(Names) /\ Fits("property_area", prof.area)
  /\ prof.conflicts \subseteq Fields

ProfileOK ==
  /\ profile # NoProfile => IsProfile(profile)
  /\ profile = NoProfile => runs = << >> /\ assessment = NoAssessment

\* Reasons a result that counts gives: the engine has a type for each of them.
KnownReason == Unmapped \cup {"AMBIGUOUS_MATCH", "REFERENCE_RECORD_NOT_FOUND"} \cup MismatchType

AreResults(results) ==
  /\ IsFiniteSet(results)
  /\ \A r \in results : r.status \in MatchStatus /\ (Counts(r) => r.reason \in KnownReason)
  /\ \A q, r \in results : q.field = r.field => q = r

Blames(results) == \E r \in results : Counts(r)

\* The results of a comparison with a record.
RecordResults(prof, record) ==
  TextResults(prof, record) \cup {OwnerResult(prof, record)} \cup AreaResults(prof.area, record.area)

DocumentSize(prof, parcel) ==
  SizeResults("document_gis_area", "DOCUMENT_GIS_AREA_MISMATCH", prof.area, parcel.sqm)

\* What a run that blames nothing rests on: all the comparisons with what it has
\* seen, a record or a valid parcel.
Grounded(run, prof) ==
  run.status \in Conclusion =>
    \/ Blames(run.results)
    \/ /\ run.type = "DATABASE" /\ run.seen # NoRecord /\ IsRecord(run.seen)
       /\ run.results = RecordResults(prof, run.seen)
    \/ /\ run.type = "GIS" /\ run.seen # NoParcel /\ run.seen.valid /\ run.seen.sqm \in Nat
       /\ DocumentSize(prof, run.seen) \subseteq run.results

IsRun(run, prof) ==
  /\ run.type \in RunType /\ run.status \in RunStates /\ run.selected \in Records \cup {NoKey}
  /\ AreResults(run.results)
  /\ Grounded(run, prof)

AreRuns(list, prof) == IsSequence(list) /\ \A i \in DOMAIN list : IsRun(list[i], prof)

IsAssessment(made, list) ==
  /\ made.score \in 0 .. 100 /\ made.level \in RiskLevel
  /\ \A d \in made.factors : d.type \in MismatchType
  /\ made.runs \subseteq DOMAIN list

IInv ==
  /\ ReadingsOK /\ RegistryOK /\ ParcelsOK /\ ProfileOK
  /\ AreRuns(runs, profile)
  /\ assessment # NoAssessment => IsAssessment(assessment, runs)

-----------------------------------------------------------------------------
(* What is read                                                            *)

\* An item of a known field carries a value of its kind.
IsItem(item) == item.confidence \in 0 .. 100 /\ Fits(item.field, item.value)

AreItems(items) == IsSequence(items) /\ \A i \in DOMAIN items : IsItem(items[i])

\* The rows that items of these values can make.
RowsOf(values) == {NoRow} \cup {Row(v, c, s) : v \in values \cup {Absent}, c \in 0 .. 100, s \in RowStatus}

LEMMA RowOfItem ==
  ASSUME NEW item, IsItem(item), NEW values, item.value \in values
  PROVE  /\ RowOf(item) \in RowsOf(values) /\ IsRow(item.field, RowOf(item))
         /\ RowOf(item).value \in values \cup {Absent} /\ RowOf(item).confidence \in 0 .. 100
         /\ RowOf(item).status \in RowStatus
         /\ (RowOf(item).status = "NOT_FOUND") = (RowOf(item).value = Absent)
         /\ Fits(item.field, RowOf(item).value)
<1> DEFINE status == IF item.confidence < UncertainBelow THEN "UNCERTAIN" ELSE "EXTRACTED"
<1>1. CASE item.value = Absent
  <2>1. RowOf(item) = Row(Absent, 0, "NOT_FOUND")
    BY <1>1 DEF RowOf
  <2>2. Absent \in values \cup {Absent} /\ 0 \in 0 .. 100 /\ "NOT_FOUND" \in RowStatus
    BY DEF RowStatus
  <2>3. /\ RowOf(item) \in RowsOf(values) /\ RowOf(item).value = Absent
        /\ RowOf(item).confidence = 0 /\ RowOf(item).status = "NOT_FOUND"
    BY ONLY <2>1, <2>2, SMTT(60) DEF RowsOf, Row
  <2> QED BY <2>2, <2>3 DEF IsRow, Fits
<1>2. CASE item.value # Absent
  <2>1. RowOf(item) = Row(item.value, item.confidence, status)
    BY <1>2 DEF RowOf
  <2>2. /\ item.value \in values \cup {Absent} /\ item.confidence \in 0 .. 100
        /\ status \in RowStatus /\ status # "NOT_FOUND"
    BY DEF IsItem, RowStatus
  <2> HIDE DEF status
  <2>3. /\ RowOf(item) \in RowsOf(values) /\ RowOf(item).value = item.value
        /\ RowOf(item).confidence = item.confidence /\ RowOf(item).status = status
    BY ONLY <2>1, <2>2, SMTT(60) DEF RowsOf, Row
  <2> QED BY <1>2, <2>2, <2>3 DEF IsRow, IsItem
<1> QED BY <1>1, <1>2

LEMMA MergedRow ==
  ASSUME NEW item, IsItem(item), NEW values, item.value \in values,
         NEW row \in RowsOf(values), IsRow(item.field, row)
  PROVE  /\ Merged(row, RowOf(item)) \in RowsOf(values)
         /\ IsRow(item.field, Merged(row, RowOf(item)))
<1> DEFINE new == RowOf(item)
           lifted == Row(row.value, new.confidence, new.status)
<1>1. /\ new \in RowsOf(values) /\ IsRow(item.field, new)
      /\ new.value \in values \cup {Absent} /\ new.confidence \in 0 .. 100
      /\ new.status \in RowStatus /\ (new.status = "NOT_FOUND") = (new.value = Absent)
  BY RowOfItem
<1> HIDE DEF new
<1>2. ASSUME row # NoRow, row.status # "NOT_FOUND", new.value # Absent
      PROVE  lifted \in RowsOf(values) /\ IsRow(item.field, lifted)
  <2>1. /\ row.value \in values \cup {Absent} /\ row.value # Absent /\ Fits(item.field, row.value)
    BY <1>2 DEF RowsOf, Row, IsRow
  <2>2. /\ lifted \in RowsOf(values) /\ lifted.value = row.value
        /\ lifted.confidence = new.confidence /\ lifted.status = new.status
    <3>1. lifted = Row(row.value, new.confidence, new.status)
      OBVIOUS
    <3>2. PICK v \in values \cup {Absent}, c \in 0 .. 100, st \in RowStatus :
            v = row.value /\ c = new.confidence /\ st = new.status
      BY <1>1, <2>1
    <3> HIDE DEF lifted
    <3>3. lifted = Row(v, c, st)
      BY ONLY <3>1, <3>2
    <3>4. lifted \in RowsOf(values)
      BY ONLY <3>3, v \in values \cup {Absent}, c \in 0 .. 100, st \in RowStatus DEF RowsOf
    <3> QED BY ONLY <3>2, <3>3, <3>4 DEF Row
  <2>3. new.status # "NOT_FOUND"
    BY <1>1, <1>2
  <2> HIDE DEF lifted
  <2> QED BY <1>1, <2>1, <2>2, <2>3 DEF IsRow
<1>3. \/ Merged(row, new) \in {new, row}
      \/ /\ row # NoRow /\ row.status # "NOT_FOUND" /\ new.value # Absent
         /\ Merged(row, new) = lifted
  BY DEF Merged
<1> QED BY <1>1, <1>2, <1>3 DEF new

\* What a document says makes rows of their fields (_consolidate of
\* extraction_service.py), whatever the items and their order.
LEMMA ConsolidatedRows ==
  ASSUME NEW items, AreItems(items)
  PROVE  AreRows(Consolidated(items))
<1> DEFINE values == {items[i].value : i \in DOMAIN items}
           V == {rows \in [Fields -> RowsOf(values)] : AreRows(rows)}
           n == Len(items)
           base == NothingRead
           op(rows, item) == IF item.field \in Fields /\ item.onPage
                             THEN [rows EXCEPT ![item.field] = Merged(@, RowOf(item))]
                             ELSE rows
           body(f) == [s \in SUBSET (1 .. n) |->
                         IF s = {} THEN base ELSE op(f[s \ {Max(s)}], items[Max(s)])]
           g == [i \in 1 .. n |-> [v \in V |-> op(v, items[i])]]
           h == CHOOSE f : f = body(f)
<1>1. n \in Nat /\ DOMAIN items = 1 .. n
  BY SequenceShape DEF AreItems
<1>2. base \in V
  <2>1. base \in [Fields -> RowsOf(values)]
    BY DEF NothingRead, RowsOf
  <2>2. AreRows(base)
    BY DEF NothingRead, AreRows, IsRow
  <2> QED BY <2>1, <2>2
<1>3. ASSUME NEW i \in 1 .. n, NEW rows \in V
      PROVE  op(rows, items[i]) \in V
  <2> DEFINE item == items[i]
             new == [rows EXCEPT ![item.field] = Merged(@, RowOf(item))]
  <2>1. IsItem(item) /\ item.value \in values
    BY <1>1 DEF AreItems
  <2> HIDE DEF item, values
  <2>2. ASSUME item.field \in Fields
        PROVE  new \in V
    <3>1. rows \in [Fields -> RowsOf(values)] /\ \A f \in Fields : IsRow(f, rows[f])
      BY DEF AreRows
    <3>2. /\ Merged(rows[item.field], RowOf(item)) \in RowsOf(values)
          /\ IsRow(item.field, Merged(rows[item.field], RowOf(item)))
      BY <2>1, <2>2, <3>1, MergedRow
    <3>3. new \in [Fields -> RowsOf(values)] /\ \A f \in Fields : IsRow(f, new[f])
      BY <2>2, <3>1, <3>2
    <3> QED BY <3>3 DEF AreRows
  <2> QED BY <2>2 DEF item
<1>4. Foldable(n, V, base, g)
  <2> HIDE DEF op, V, base, n
  <2> QED BY <1>1, <1>2, <1>3 DEF Foldable
<1>5. \A s \in SUBSET (1 .. n) : s # {} => Max(s) \in 1 .. n /\ s \ {Max(s)} \in SUBSET (1 .. n)
  BY <1>1, MaxIsIn
<1>6. Consolidated(items) = h[1 .. n]
  BY <1>1 DEF Consolidated, FoldLeft, MapThenFoldSet
<1> HIDE DEF V, base, n, op, values
<1>7. \A i \in 1 .. n : \A v \in V : g[i][v] = op(v, items[i])
  OBVIOUS
<1> HIDE DEF g
<1>8. \E f : f = body(f)
  <2>1. PICK f \in [SUBSET (1 .. n) -> V] : SeqFolds(f, n, base, g)
    BY <1>4, SeqFold
  <2>2. \A s \in SUBSET (1 .. n) : s # {} =>
          g[Max(s)][f[s \ {Max(s)}]] = op(f[s \ {Max(s)}], items[Max(s)])
    BY <1>5, <1>7, <2>1
  <2>3. f = body(f)
    BY <2>1, <2>2 DEF SeqFolds
  <2> HIDE DEF body
  <2> QED BY <2>3
<1>9. h = body(h)
  <2> HIDE DEF body
  <2> QED BY <1>8
<1> HIDE DEF h
<1>10. h[1 .. n] \in V
  <2>1. GoesOn(h, n, V, base, g)
    BY <1>5, <1>7, <1>9 DEF GoesOn
  <2> QED BY <1>4, <2>1, SeqTrace
<1> QED BY <1>6, <1>10 DEF V

\* The items of a page: of the fields patterns look for, with what they find.
PageItem(page, f) ==
  [field |-> f, value |-> page[f], confidence |-> RuleConfidence[f], onPage |-> TRUE]

PageItems(page) == {PageItem(page, f) : f \in {f \in ToSet(RuleFields) : f \in DOMAIN page}}

LEMMA FoundOnItems ==
  ASSUME NEW page
  PROVE  FoundOn(page) \in Seq(PageItems(page))
<1> DEFINE V == Seq(PageItems(page))
           n == Len(RuleFields)
           base == << >>
           op(items, f) ==
             IF f \in DOMAIN page
             THEN Append(items, [field |-> f, value |-> page[f],
                                 confidence |-> RuleConfidence[f], onPage |-> TRUE])
             ELSE items
           body(f) == [s \in SUBSET (1 .. n) |->
                         IF s = {} THEN base ELSE op(f[s \ {Max(s)}], RuleFields[Max(s)])]
           g == [i \in 1 .. n |-> [v \in V |-> op(v, RuleFields[i])]]
           h == CHOOSE f : f = body(f)
<1>1. n \in Nat /\ DOMAIN RuleFields = 1 .. n
  BY DEF RuleFields
<1>2. base \in V
  OBVIOUS
<1>3. ASSUME NEW i \in 1 .. n, NEW items \in V
      PROVE  op(items, RuleFields[i]) \in V
  <2> DEFINE f == RuleFields[i]
  <2>1. f \in ToSet(RuleFields)
    BY <1>1 DEF ToSet
  <2> HIDE DEF f
  <2>2. f \in DOMAIN page => PageItem(page, f) \in PageItems(page)
    BY <2>1 DEF PageItems
  <2>3. op(items, f) = IF f \in DOMAIN page THEN Append(items, PageItem(page, f)) ELSE items
    BY DEF PageItem
  <2> HIDE DEF op
  <2>4. op(items, f) \in V
    BY <2>2, <2>3
  <2> QED BY <2>4 DEF f
<1>4. Foldable(n, V, base, g)
  <2> HIDE DEF op, V, base, n
  <2> QED BY <1>1, <1>2, <1>3 DEF Foldable
<1>5. \A s \in SUBSET (1 .. n) : s # {} => Max(s) \in 1 .. n /\ s \ {Max(s)} \in SUBSET (1 .. n)
  BY <1>1, MaxIsIn
<1>6. FoundOn(page) = h[1 .. n]
  BY <1>1 DEF FoundOn, FoldLeft, MapThenFoldSet
<1> HIDE DEF V, base, n, op
<1>7. \A i \in 1 .. n : \A v \in V : g[i][v] = op(v, RuleFields[i])
  OBVIOUS
<1> HIDE DEF g
<1>8. \E f : f = body(f)
  <2>1. PICK f \in [SUBSET (1 .. n) -> V] : SeqFolds(f, n, base, g)
    BY <1>4, SeqFold
  <2>2. \A s \in SUBSET (1 .. n) : s # {} =>
          g[Max(s)][f[s \ {Max(s)}]] = op(f[s \ {Max(s)}], RuleFields[Max(s)])
    BY <1>5, <1>7, <2>1
  <2>3. f = body(f)
    BY <2>1, <2>2 DEF SeqFolds
  <2> HIDE DEF body
  <2> QED BY <2>3
<1>9. h = body(h)
  <2> HIDE DEF body
  <2> QED BY <1>8
<1> HIDE DEF h
<1>10. h[1 .. n] \in V
  <2>1. GoesOn(h, n, V, base, g)
    BY <1>5, <1>7, <1>9 DEF GoesOn
  <2> QED BY <1>4, <2>1, SeqTrace
<1> QED BY <1>6, <1>10 DEF V

LEMMA RuleItemsType ==
  ASSUME NEW pages, IsSequence(pages)
  PROVE  RuleItems(pages) \in Seq(UNION {PageItems(pages[i]) : i \in DOMAIN pages})
<1> DEFINE All == UNION {PageItems(pages[i]) : i \in DOMAIN pages}
           V == Seq(All)
           n == Len(pages)
           base == << >>
           op(items, page) == items \o FoundOn(page)
           body(f) == [s \in SUBSET (1 .. n) |->
                         IF s = {} THEN base ELSE op(f[s \ {Max(s)}], pages[Max(s)])]
           g == [i \in 1 .. n |-> [v \in V |-> op(v, pages[i])]]
           h == CHOOSE f : f = body(f)
<1>1. n \in Nat /\ DOMAIN pages = 1 .. n
  BY SequenceShape
<1>2. base \in V
  OBVIOUS
<1>3. ASSUME NEW i \in 1 .. n, NEW items \in V
      PROVE  op(items, pages[i]) \in V
  <2>1. PageItems(pages[i]) \subseteq All
    BY <1>1
  <2> HIDE DEF All
  <2>2. FoundOn(pages[i]) \in Seq(PageItems(pages[i]))
    BY FoundOnItems
  <2>3. FoundOn(pages[i]) \in Seq(All)
    BY <2>1, <2>2
  <2> QED BY <2>3
<1>4. Foldable(n, V, base, g)
  <2> HIDE DEF op, V, base, n
  <2> QED BY <1>1, <1>2, <1>3 DEF Foldable
<1>5. \A s \in SUBSET (1 .. n) : s # {} => Max(s) \in 1 .. n /\ s \ {Max(s)} \in SUBSET (1 .. n)
  BY <1>1, MaxIsIn
<1>6. RuleItems(pages) = h[1 .. n]
  BY <1>1 DEF RuleItems, FoldLeft, MapThenFoldSet
<1> HIDE DEF V, base, n, op, All
<1>7. \A i \in 1 .. n : \A v \in V : g[i][v] = op(v, pages[i])
  OBVIOUS
<1> HIDE DEF g
<1>8. \E f : f = body(f)
  <2>1. PICK f \in [SUBSET (1 .. n) -> V] : SeqFolds(f, n, base, g)
    BY <1>4, SeqFold
  <2>2. \A s \in SUBSET (1 .. n) : s # {} =>
          g[Max(s)][f[s \ {Max(s)}]] = op(f[s \ {Max(s)}], pages[Max(s)])
    BY <1>5, <1>7, <2>1
  <2>3. f = body(f)
    BY <2>1, <2>2 DEF SeqFolds
  <2> HIDE DEF body
  <2> QED BY <2>3
<1>9. h = body(h)
  <2> HIDE DEF body
  <2> QED BY <1>8
<1> HIDE DEF h
<1>10. h[1 .. n] \in V
  <2>1. GoesOn(h, n, V, base, g)
    BY <1>5, <1>7, <1>9 DEF GoesOn
  <2> QED BY <1>4, <2>1, SeqTrace
<1> QED BY <1>6, <1>10 DEF V, All

\* What patterns find fits its field too.
LEMMA RuleItemsFit ==
  ASSUME NEW pages, IsSequence(pages),
         \A i \in DOMAIN pages : \A f \in DOMAIN pages[i] : Fits(f, pages[i][f])
  PROVE  AreItems(RuleItems(pages))
<1> DEFINE All == UNION {PageItems(pages[i]) : i \in DOMAIN pages}
           items == RuleItems(pages)
<1>1. ASSUME NEW item \in All
      PROVE  IsItem(item)
  <2>1. PICK i \in DOMAIN pages : item \in PageItems(pages[i])
    OBVIOUS
  <2>2. PICK f \in ToSet(RuleFields) : f \in DOMAIN pages[i] /\ item = PageItem(pages[i], f)
    BY <2>1 DEF PageItems
  <2>3. f \in {"owner_name", "co_owner_names", "district", "survey_number", "property_area"}
    BY DEF RuleFields, ToSet
  <2>4. RuleConfidence[f] \in 0 .. 100
    BY <2>3 DEF RuleConfidence
  <2>5. Fits(f, pages[i][f])
    BY <2>2
  <2> QED BY <2>2, <2>4, <2>5 DEF PageItem, IsItem
<1>2. items \in Seq(All)
  BY RuleItemsType
<1> HIDE DEF All, items
<1>3. IsSequence(items) /\ \A i \in DOMAIN items : items[i] \in All
  BY <1>2, IsASequence, SequenceElements
<1> QED BY <1>1, <1>3 DEF AreItems, items

\* One name more, unless the list has it.
WithName(list, name) == IF Contains(list, name) THEN list ELSE Append(list, name)

\* The list of owners is made name by name: it starts with the owners.
LEMMA OwnersOfTrace ==
  ASSUME NEW owners \in Seq(Names), NEW coOwners \in Seq(Names)
  PROVE  \E tr \in [0 .. Len(coOwners) -> Seq(Names)] :
           /\ tr[0] = owners /\ tr[Len(coOwners)] = OwnersOf(owners, coOwners)
           /\ \A i \in 1 .. Len(coOwners) : tr[i] = WithName(tr[i - 1], coOwners[i])
<1> DEFINE V == Seq(Names)
           n == Len(coOwners)
           base == owners
           op(list, name) == IF Contains(list, name) THEN list ELSE Append(list, name)
           body(f) == [s \in SUBSET (1 .. n) |->
                         IF s = {} THEN base ELSE op(f[s \ {Max(s)}], coOwners[Max(s)])]
           g == [i \in 1 .. n |-> [v \in V |-> op(v, coOwners[i])]]
           h == CHOOSE f : f = body(f)
<1>1. n \in Nat /\ DOMAIN coOwners = 1 .. n
  OBVIOUS
<1>2. base \in V
  OBVIOUS
<1>3. ASSUME NEW i \in 1 .. n, NEW list \in V
      PROVE  op(list, coOwners[i]) \in V
  OBVIOUS
<1>4. Foldable(n, V, base, g)
  <2> HIDE DEF op, V, base, n
  <2> QED BY <1>1, <1>2, <1>3 DEF Foldable
<1>5. \A s \in SUBSET (1 .. n) : s # {} => Max(s) \in 1 .. n /\ s \ {Max(s)} \in SUBSET (1 .. n)
  BY <1>1, MaxIsIn
<1>6. OwnersOf(owners, coOwners) = h[1 .. n]
  BY <1>1 DEF OwnersOf, FoldLeft, MapThenFoldSet
<1> HIDE DEF V, base, n, op
<1>7. \A i \in 1 .. n : \A v \in V : g[i][v] = op(v, coOwners[i])
  OBVIOUS
<1> HIDE DEF g
<1>8. \E f : f = body(f)
  <2>1. PICK f \in [SUBSET (1 .. n) -> V] : SeqFolds(f, n, base, g)
    BY <1>4, SeqFold
  <2>2. \A s \in SUBSET (1 .. n) : s # {} =>
          g[Max(s)][f[s \ {Max(s)}]] = op(f[s \ {Max(s)}], coOwners[Max(s)])
    BY <1>5, <1>7, <2>1
  <2>3. f = body(f)
    BY <2>1, <2>2 DEF SeqFolds
  <2> HIDE DEF body
  <2> QED BY <2>3
<1>9. h = body(h)
  <2> HIDE DEF body
  <2> QED BY <1>8
<1> HIDE DEF h
<1>10. PICK tr \in [0 .. n -> V] : Trace(tr, n, base, g) /\ tr[n] = h[1 .. n]
  <2>1. GoesOn(h, n, V, base, g)
    BY <1>5, <1>7, <1>9 DEF GoesOn
  <2> QED BY <1>4, <2>1, SeqTrace
<1>11. \A i \in 1 .. n : tr[i] = op(tr[i - 1], coOwners[i])
  <2>1. \A i \in 1 .. n : i - 1 \in 0 .. n
    BY <1>1
  <2> QED BY <1>7, <1>10, <2>1 DEF Trace
<1>12. tr[0] = base
  BY <1>10 DEF Trace
<1> QED BY <1>6, <1>10, <1>11, <1>12 DEF V, n, base, op, WithName

LEMMA OwnersOfType ==
  ASSUME NEW owners \in Seq(Names), NEW coOwners \in Seq(Names)
  PROVE  OwnersOf(owners, coOwners) \in Seq(Names)
<1>1. PICK tr \in [0 .. Len(coOwners) -> Seq(Names)] :
        tr[Len(coOwners)] = OwnersOf(owners, coOwners)
  BY OwnersOfTrace
<1>2. Len(coOwners) \in 0 .. Len(coOwners)
  OBVIOUS
<1> QED BY <1>1, <1>2

\* The list keeps its names and has the new one.
LEMMA WithNameHasAll ==
  ASSUME NEW list \in Seq(Names), NEW name \in Names
  PROVE  ToSet(list) \cup {name} \subseteq ToSet(WithName(list, name))
<1>1. CASE Contains(list, name)
  BY <1>1 DEF Contains, ToSet, WithName
<1>2. CASE ~Contains(list, name)
  <2> DEFINE longer == Append(list, name)
  <2>1. /\ DOMAIN list \subseteq DOMAIN longer /\ Len(list) + 1 \in DOMAIN longer
        /\ \A i \in DOMAIN list : longer[i] = list[i]
        /\ longer[Len(list) + 1] = name
    OBVIOUS
  <2> HIDE DEF longer
  <2>2. ToSet(list) \cup {name} \subseteq ToSet(longer)
    BY <2>1 DEF ToSet
  <2> QED BY <1>2, <2>2 DEF WithName, longer
<1> QED BY <1>1, <1>2

\* Every owner and every co-owner is in the list (parse_owners).
LEMMA OwnersOfAll ==
  ASSUME NEW owners \in Seq(Names), NEW coOwners \in Seq(Names)
  PROVE  ToSet(owners) \cup ToSet(coOwners) \subseteq ToSet(OwnersOf(owners, coOwners))
<1> DEFINE n == Len(coOwners)
<1>1. n \in Nat /\ DOMAIN coOwners = 1 .. n
  OBVIOUS
<1>2. \A i \in 1 .. n : coOwners[i] \in Names
  OBVIOUS
<1>3. PICK tr \in [0 .. n -> Seq(Names)] :
        /\ tr[0] = owners /\ tr[n] = OwnersOf(owners, coOwners)
        /\ \A i \in 1 .. n : tr[i] = WithName(tr[i - 1], coOwners[i])
  BY OwnersOfTrace
<1> HIDE DEF n
<1> DEFINE named(i) == {coOwners[j] : j \in 1 .. i}
           P == {i \in 0 .. n : ToSet(owners) \cup named(i) \subseteq ToSet(tr[i])}
<1>4. 0 \in P
  <2>1. named(0) = {} /\ 0 \in 0 .. n
    BY <1>1
  <2> HIDE DEF named
  <2> QED BY <1>3, <2>1
<1>5. ASSUME NEW i \in 0 .. n - 1, i \in P
      PROVE  i + 1 \in P
  <2>1. i \in 0 .. n /\ i + 1 \in 1 .. n /\ i + 1 \in 0 .. n /\ (i + 1) - 1 = i
    BY <1>1
  <2>2. tr[i + 1] = WithName(tr[i], coOwners[i + 1])
    BY <1>3, <2>1
  <2>3. ToSet(tr[i]) \cup {coOwners[i + 1]} \subseteq ToSet(tr[i + 1])
    BY <1>2, <1>3, <2>1, <2>2, WithNameHasAll
  <2>4. named(i + 1) = named(i) \cup {coOwners[i + 1]}
    <3>1. 1 .. (i + 1) = (1 .. i) \cup {i + 1}
      BY <2>1
    <3> QED BY <3>1
  <2>5. ToSet(owners) \cup named(i) \subseteq ToSet(tr[i])
    BY <1>5
  <2> HIDE DEF named
  <2> QED BY <2>1, <2>3, <2>4, <2>5
<1>6. n \in P
  <2>1. n \in 0 .. n
    BY <1>1
  <2> HIDE DEF P
  <2> QED BY <1>1, <1>4, <1>5, <2>1, CountingUp
<1>7. named(n) = ToSet(coOwners)
  BY <1>1 DEF ToSet
<1> QED BY <1>3, <1>6, <1>7

\* A source of a field has a row with a value that fits the field.
LEMMA SourceRow ==
  ASSUME ReadingsOK, NEW f \in Fields, NEW d \in Sources(readings, f)
  PROVE  /\ d \in Documents /\ readings[d][f].value # Absent /\ Fits(f, readings[d][f].value)
         /\ readings[d][f].confidence \in 0 .. 100
<1>1. d \in Documents /\ readings[d] # Unread /\ readings[d][f] # NoRow
      /\ readings[d][f].status # "NOT_FOUND"
  BY DEF Sources, HasValue
<1>2. IsRow(f, readings[d][f])
  BY <1>1 DEF ReadingsOK, AreRows
<1> QED BY <1>1, <1>2 DEF IsRow

\* Of finitely many sources one is the surest.
LEMMA SurestExists ==
  ASSUME ReadingsOK, NEW f \in Known(readings)
  PROVE  Surest(readings, f) # {}
<1> DEFINE S == Sources(readings, f)
           w == [d \in S |-> readings[d][f].confidence]
<1>1. f \in Fields /\ S # {}
  BY DEF Known
<1>2. IsFiniteSet(S)
  BY DocumentsAssumption, FS_Subset DEF Sources
<1>3. w \in [S -> Int]
  <2>1. \A d \in S : readings[d][f].confidence \in 0 .. 100
    BY <1>1, SourceRow
  <2>2. \A x \in 0 .. 100 : x \in Int
    OBVIOUS
  <2>3. \A d \in S : readings[d][f].confidence \in Int
    BY ONLY <2>1, <2>2
  <2> HIDE DEF S
  <2> QED BY ONLY <2>3
<1>4. \A d \in S : w[d] = readings[d][f].confidence
  OBVIOUS
<1> HIDE DEF w, S
<1>5. \E m \in S : \A x \in S : w[x] <= w[m]
  <2>1. \A s \in SUBSET S : s # {} => \E m \in s : \A x \in s : w[x] <= w[m]
    BY ONLY <1>2, <1>3, Heaviest
  <2>2. S \in SUBSET S
    OBVIOUS
  <2> QED BY ONLY <1>1, <2>1, <2>2
<1> QED BY <1>4, <1>5 DEF Surest, S

LEMMA ChosenSources ==
  ASSUME ReadingsOK, NEW choice \in SurestSources(readings)
  PROVE  /\ DOMAIN choice = Known(readings)
         /\ \A f \in Known(readings) : f \in Fields /\ choice[f] \in Sources(readings, f)
<1> DEFINE any(f) == CHOOSE d \in Surest(readings, f) : TRUE
           tied == {f \in Known(readings) :
                      Cardinality({readings[d][f].value : d \in Surest(readings, f)}) > 1}
<1>1. PICK pick \in [tied -> Documents] :
        /\ \A f \in tied : pick[f] \in Surest(readings, f)
        /\ choice = [f \in Known(readings) |-> IF f \in tied THEN pick[f] ELSE any(f)]
  BY DEF SurestSources
<1>2. \A f \in Known(readings) : any(f) \in Surest(readings, f)
  BY SurestExists
<1> HIDE DEF any, tied
<1>3. ASSUME NEW f \in Known(readings)
      PROVE  choice[f] \in Surest(readings, f)
  BY <1>1, <1>2
<1>4. \A f \in Known(readings) : f \in Fields /\ Surest(readings, f) \subseteq Sources(readings, f)
  BY DEF Known, Surest
<1> QED BY <1>1, <1>3, <1>4

\* A profile of legal rows names owners and one area, of which the unit is only
\* looked at when it is compared.
LEMMA ProfileIs ==
  ASSUME ReadingsOK, NEW choice \in SurestSources(readings)
  PROVE  IsProfile(ProfileOf(readings, choice))
<1> DEFINE best(f, otherwise) ==
             IF f \in DOMAIN choice THEN readings[choice[f]][f].value ELSE otherwise
           prof == ProfileOf(readings, choice)
<1>1. ASSUME NEW f \in DOMAIN choice
      PROVE  readings[choice[f]][f].value # Absent /\ Fits(f, readings[choice[f]][f].value)
  BY ChosenSources, SourceRow
<1>2. /\ prof.owners = OwnersOf(best("owner_name", << >>), best("co_owner_names", << >>))
      /\ prof.area = best("property_area", best("land_area", Absent))
      /\ prof.conflicts = Conflicts(readings)
  BY DEF ProfileOf
<1>3. best("owner_name", << >>) \in Seq(Names) /\ best("co_owner_names", << >>) \in Seq(Names)
  BY <1>1 DEF Fits, OwnerFields
<1>4. Fits("property_area", best("property_area", best("land_area", Absent)))
  BY <1>1 DEF Fits, OwnerFields, AreaFields
<1>5. Conflicts(readings) \subseteq Fields
  BY DEF Conflicts
<1> HIDE DEF best, prof
<1>6. prof.owners \in Seq(Names)
  BY <1>2, <1>3, OwnersOfType
<1> QED BY <1>2, <1>4, <1>5, <1>6 DEF IsProfile, prof

-----------------------------------------------------------------------------
(* What a validation run finds                                             *)

LEMMA PairFinite ==
  ASSUME NEW a, NEW b
  PROVE  IsFiniteSet({a, b})
<1>1. IsFiniteSet({a}) /\ IsFiniteSet({b})
  BY FS_Singleton
<1>2. {a, b} = {a} \cup {b}
  OBVIOUS
<1> QED BY <1>1, <1>2, FS_Union

LEMMA FieldsFinite == IsFiniteSet(Identifiers \cup Locations) /\ IsFiniteSet(Fields)
<1>1. Identifiers = ({"survey_number", "plot_number"} \cup {"parcel_number", "registration_number"})
                      \cup {"deed_number"}
  BY DEF Identifiers
<1>2. Locations = {"district", "village"} \cup {"mouza", "ward"}
  BY DEF Locations
<1>3. /\ IsFiniteSet({"survey_number", "plot_number"})
      /\ IsFiniteSet({"parcel_number", "registration_number"})
      /\ IsFiniteSet({"district", "village"}) /\ IsFiniteSet({"mouza", "ward"})
  BY PairFinite
<1>4. IsFiniteSet({"deed_number"})
  BY FS_Singleton
<1>5. IsFiniteSet(Identifiers) /\ IsFiniteSet(Locations)
  BY <1>1, <1>2, <1>3, <1>4, FS_Union
<1>6. IsFiniteSet(AreaFields) /\ IsFiniteSet(OwnerFields)
  BY PairFinite DEF AreaFields, OwnerFields
<1>7. IsFiniteSet(Identifiers \cup Locations)
  BY <1>5, FS_Union
<1>8. IsFiniteSet((Identifiers \cup Locations) \cup AreaFields)
  BY <1>6, <1>7, FS_Union
<1>9. IsFiniteSet(((Identifiers \cup Locations) \cup AreaFields) \cup OwnerFields)
  BY <1>6, <1>8, FS_Union
<1>10. Fields = ((Identifiers \cup Locations) \cup AreaFields) \cup OwnerFields
  BY DEF Fields
<1> QED BY <1>7, <1>9, <1>10

IsResult(r) == r.status \in MatchStatus /\ (Counts(r) => r.reason \in KnownReason)

\* A list of results about different fields can be put together from two.
LEMMA TogetherResults ==
  ASSUME NEW A, NEW B, AreResults(A), AreResults(B), \A q \in A, r \in B : q.field # r.field
  PROVE  AreResults(A \cup B)
<1>1. IsFiniteSet(A \cup B)
  BY FS_Union DEF AreResults
<1> QED BY <1>1 DEF AreResults

LEMMA OneResult ==
  ASSUME NEW r, IsResult(r)
  PROVE  AreResults({r})
BY FS_Singleton DEF AreResults, IsResult

LEMMA NoResult == AreResults({})
BY FS_EmptySet DEF AreResults

LEMMA ResultIs ==
  ASSUME NEW field, NEW status \in MatchStatus, NEW reason, reason \in KnownReason
  PROVE  /\ IsResult(Result(field, status, reason))
         /\ Result(field, status, reason).field = field
         /\ Result(field, status, reason).status = status
BY DEF IsResult, Result

LEMMA Reasons ==
  /\ \A r \in {"NONE", "DOCUMENT_VALUE_NOT_FOUND", "UNSUPPORTED_UNIT", "AMBIGUOUS_MATCH",
               "REFERENCE_RECORD_NOT_FOUND", "OWNER_MISMATCH", "AREA_MISMATCH",
               "PARCEL_NOT_FOUND", "INVALID_PARCEL_GEOMETRY", "DOCUMENT_GIS_AREA_MISMATCH",
               "REFERENCE_GIS_AREA_MISMATCH"} : r \in KnownReason
  /\ \A f \in Identifiers \cup Locations : MismatchReason[f] \in KnownReason
BY DEF KnownReason, Unmapped, MismatchType, Points, Identifiers, Locations, MismatchReason

LEMMA TextResultIs ==
  ASSUME NEW f \in Identifiers \cup Locations, NEW doc, NEW ref
  PROVE  IsResult(TextResult(f, doc, ref)) /\ TextResult(f, doc, ref).field = f
<1> DEFINE why == IF doc = Absent THEN "DOCUMENT_VALUE_NOT_FOUND" ELSE "REFERENCE_RECORD_NOT_FOUND"
<1>1. /\ "NOT_FOUND" \in MatchStatus /\ "MATCH" \in MatchStatus /\ "MISMATCH" \in MatchStatus
      /\ why \in KnownReason /\ "NONE" \in KnownReason /\ MismatchReason[f] \in KnownReason
  BY Reasons DEF MatchStatus
<1>2. TextResult(f, doc, ref) \in {Result(f, "NOT_FOUND", why), Result(f, "MATCH", "NONE"),
                                   Result(f, "MISMATCH", MismatchReason[f])}
  BY DEF TextResult, OneSided
<1> HIDE DEF why
<1> QED BY <1>1, <1>2, ResultIs

LEMMA AreaResultIs ==
  ASSUME NEW doc, NEW ref
  PROVE  IsResult(AreaResult(doc, ref)) /\ AreaResult(doc, ref).field = "property_area"
<1> DEFINE f == "property_area"
           why == IF doc = Absent THEN "DOCUMENT_VALUE_NOT_FOUND" ELSE "REFERENCE_RECORD_NOT_FOUND"
<1>1. /\ "NOT_FOUND" \in MatchStatus /\ "MATCH" \in MatchStatus /\ "MISMATCH" \in MatchStatus
      /\ why \in KnownReason /\ "NONE" \in KnownReason /\ "UNSUPPORTED_UNIT" \in KnownReason
      /\ "AREA_MISMATCH" \in KnownReason
  BY Reasons DEF MatchStatus
<1>2. AreaResult(doc, ref) \in {Result(f, "NOT_FOUND", why), Result(f, "MATCH", "NONE"),
                                Result(f, "MISMATCH", "UNSUPPORTED_UNIT"),
                                Result(f, "MISMATCH", "AREA_MISMATCH")}
  BY DEF AreaResult, OneSided
<1> HIDE DEF why
<1> QED BY <1>1, <1>2, ResultIs

LEMMA OwnerResultIs ==
  ASSUME NEW prof, prof.owners \in Seq(Names), NEW record, record.owners \in Seq(Names)
  PROVE  /\ IsResult(OwnerResult(prof, record))
         /\ OwnerResult(prof, record).field = "owner_name"
         /\ OwnerResult(prof, record).status = MatchOwnerSets(prof.owners, record.owners).status
<1> DEFINE verdict == MatchOwnerSets(prof.owners, record.owners).status
           why == OwnerReason(verdict, prof.owners)
<1>1. verdict \in MatchStatus
  BY MatchOwnerSetsType
<1>2. OwnerResult(prof, record) = Result("owner_name", verdict, why)
  BY DEF OwnerResult, OwnerResultOf
<1> HIDE DEF verdict
<1>3. why \in {"OWNER_MISMATCH", "DOCUMENT_VALUE_NOT_FOUND", "REFERENCE_RECORD_NOT_FOUND", "NONE"}
  BY DEF OwnerReason
<1>4. why \in KnownReason
  BY <1>3, Reasons
<1> HIDE DEF why
<1> QED BY <1>1, <1>2, <1>4, ResultIs DEF verdict

\* A comparison with a record finds, field by field, results of known reasons.
LEMMA RecordResultsAre ==
  ASSUME NEW prof, IsProfile(prof), NEW record, IsRecord(record)
  PROVE  AreResults(RecordResults(prof, record))
<1> DEFINE S == {g \in Identifiers \cup Locations :
                   prof.text[g] # Absent \/ record.text[g] # Absent}
           texts == TextResults(prof, record)
           result(f) == TextResult(f, prof.text[f], record.text[f])
           owner == OwnerResult(prof, record)
           areas == AreaResults(prof.area, record.area)
<1>1. texts = {result(f) : f \in S}
  BY DEF TextResults
<1>2. \A f \in S : f \in Identifiers \cup Locations /\ IsResult(result(f)) /\ result(f).field = f
  BY TextResultIs
<1>3. IsFiniteSet(S)
  BY FieldsFinite, FS_Subset
<1> HIDE DEF S, texts, result
<1>4. IsFiniteSet(texts)
  <2> DEFINE fn == [f \in S |-> result(f)]
  <2>1. fn \in Surjection(S, texts)
    BY <1>1 DEF Surjection
  <2> HIDE DEF fn
  <2> QED BY <1>3, <2>1, FS_Surjection
<1>5. AreResults(texts)
  BY <1>1, <1>2, <1>4 DEF AreResults, IsResult
<1>6. AreResults({owner}) /\ owner.field = "owner_name"
  BY OwnerResultIs, OneResult DEF IsProfile, IsRecord
<1>7. AreResults(areas) /\ \A r \in areas : r.field = "property_area"
  BY AreaResultIs, OneResult, NoResult DEF AreaResults
<1> HIDE DEF owner, areas
<1>8. \A r \in texts : r.field # "owner_name" /\ r.field # "property_area"
  BY <1>1, <1>2 DEF Identifiers, Locations
<1>9. AreResults(texts \cup {owner})
  BY <1>5, <1>6, <1>8, TogetherResults
<1>10. AreResults((texts \cup {owner}) \cup areas)
  BY <1>6, <1>7, <1>8, <1>9, TogetherResults
<1> QED BY <1>10 DEF RecordResults, texts, owner, areas

\* A single result that counts.
LEMMA BlameIs ==
  ASSUME NEW field, NEW status \in {"MISMATCH", "NOT_FOUND"}, NEW reason, reason \in KnownReason
  PROVE  AreResults({Result(field, status, reason)}) /\ Blames({Result(field, status, reason)})
<1>1. status \in MatchStatus
  BY DEF MatchStatus
<1>2. IsResult(Result(field, status, reason)) /\ Result(field, status, reason).status = status
  BY <1>1, ResultIs
<1>3. Counts(Result(field, status, reason))
  BY <1>2 DEF Counts
<1> QED BY <1>2, <1>3, OneResult DEF Blames

\* The record a database run names: the one that was selected among the
\* candidates, and then its results are the comparisons with it.
Chosen(run, k) ==
  /\ run.selected = k
  /\ k \in Selected(Candidates(profile, registry),
                    [c \in Candidates(profile, registry) |-> CandidateScore(profile, registry[c])])
  /\ run.results = RecordResults(profile, registry[k])

\* What DatabaseValidator.validate_run concludes.
LEMMA DatabaseRunIs ==
  ASSUME RegistryOK, IsProfile(profile)
  PROVE  /\ IsRun(DatabaseRun, profile)
         /\ DatabaseRun.type = "DATABASE" /\ DatabaseRun.status \in Conclusion
         /\ \/ DatabaseRun.selected = NoKey
            \/ \E k \in Candidates(profile, registry) : Chosen(DatabaseRun, k)
<1> DEFINE candidates == Candidates(profile, registry)
           selected == Selected(candidates,
                                [c \in candidates |-> CandidateScore(profile, registry[c])])
           out == DatabaseOutcome(profile, registry)
           run == DatabaseRun
<1>1. /\ run.type = "DATABASE" /\ run.status = out.status /\ run.results = out.results
      /\ run.selected = out.selected /\ run.seen = Lookup(out.selected)
  BY DEF DatabaseRun, Ended, Run
<1>2. CASE candidates = {} \/ selected = {}
  <2>1. \/ out = Outcome("FAILED", {Result("reference_property", "NOT_FOUND",
                                           "REFERENCE_RECORD_NOT_FOUND")}, NoKey)
        \/ out = Outcome("FAILED", {Result("candidate_selection", "MISMATCH",
                                           "AMBIGUOUS_MATCH")}, NoKey)
    BY <1>2 DEF DatabaseOutcome, OutcomeAmong, SelectionOutcome
  <2>2. /\ AreResults({Result("reference_property", "NOT_FOUND", "REFERENCE_RECORD_NOT_FOUND")})
        /\ Blames({Result("reference_property", "NOT_FOUND", "REFERENCE_RECORD_NOT_FOUND")})
        /\ AreResults({Result("candidate_selection", "MISMATCH", "AMBIGUOUS_MATCH")})
        /\ Blames({Result("candidate_selection", "MISMATCH", "AMBIGUOUS_MATCH")})
    BY Reasons, BlameIs
  <2>3. out.status = "FAILED" /\ AreResults(out.results) /\ Blames(out.results) /\ out.selected = NoKey
    BY <2>1, <2>2 DEF Outcome
  <2> HIDE DEF out, run
  <2>4. IsRun(run, profile) /\ run.status \in Conclusion /\ run.selected = NoKey
    BY <1>1, <2>3 DEF IsRun, Grounded, RunType, RunStates, Conclusion
  <2> QED BY <1>1, <2>4 DEF run
<1>3. CASE candidates # {} /\ selected # {}
  <2> DEFINE k == CHOOSE c \in selected : TRUE
             results == RecordResults(profile, registry[k])
  <2>1. k \in selected
    BY <1>3
  <2>2. out = Compared(profile, registry[k], k)
    BY <1>3 DEF DatabaseOutcome, OutcomeAmong, SelectionOutcome
  <2>3. out = OutcomeOf(results, k)
    BY <2>2 DEF Compared, RecordResults
  <2> HIDE DEF k
  <2>4. k \in candidates /\ k \in Records /\ registry[k] # NoRecord /\ k # NoKey
    BY <2>1, RecordsAssumption DEF Selected, Candidates, NoKey
  <2>5. IsRecord(registry[k])
    BY <2>4 DEF RegistryOK
  <2>6. out.status \in {"PASSED", "FAILED"} /\ out.results = results /\ out.selected = k
    BY <2>3 DEF OutcomeOf, Outcome
  <2>7. AreResults(results)
    BY <2>5, RecordResultsAre
  <2> HIDE DEF out, run, results
  <2>8. run.seen = registry[k]
    BY <1>1, <2>4, <2>6 DEF Lookup
  <2>9. Grounded(run, profile)
    BY <1>1, <2>4, <2>5, <2>6, <2>8 DEF Grounded, results
  <2>10. IsRun(run, profile) /\ run.status \in Conclusion
    BY <1>1, <2>4, <2>6, <2>7, <2>9 DEF IsRun, RunType, RunStates, Conclusion
  <2>11. Chosen(run, k)
    BY <1>1, <2>1, <2>6 DEF Chosen, results
  <2> QED BY <1>1, <2>4, <2>10, <2>11 DEF run
<1> QED BY <1>2, <1>3

LEMMA SizeResultsAre ==
  ASSUME NEW field, NEW reason, reason \in KnownReason, NEW area, NEW sqm
  PROVE  /\ AreResults(SizeResults(field, reason, area, sqm))
         /\ \A r \in SizeResults(field, reason, area, sqm) : r.field = field
<1>1. "MATCH" \in MatchStatus /\ "MISMATCH" \in MatchStatus /\ "NONE" \in KnownReason
  BY Reasons DEF MatchStatus
<1>2. SizeResults(field, reason, area, sqm) \in {{}, {Result(field, "MATCH", "NONE")},
                                                 {Result(field, "MISMATCH", reason)}}
  BY DEF SizeResults
<1>3. AreResults({Result(field, "MATCH", "NONE")}) /\ AreResults({Result(field, "MISMATCH", reason)})
  BY <1>1, ResultIs, OneResult
<1>4. Result(field, "MATCH", "NONE").field = field /\ Result(field, "MISMATCH", reason).field = field
  BY DEF Result
<1> QED BY <1>2, <1>3, <1>4, NoResult

\* A comparison with a valid parcel.
LEMMA ParcelComparedIs ==
  ASSUME NEW record, NEW parcel
  PROVE  LET out == ParcelCompared(profile, record, parcel)
         IN  /\ out.status \in Conclusion /\ AreResults(out.results) /\ out.selected = NoKey
             /\ DocumentSize(profile, parcel) \subseteq out.results
<1> DEFINE exists == Result("parcel_existence", "MATCH", "NONE")
           shaped == Result("parcel_geometry", "MATCH", "NONE")
           sized == DocumentSize(profile, parcel)
           other == IF record = NoRecord THEN {}
                    ELSE SizeResults("reference_gis_area", "REFERENCE_GIS_AREA_MISMATCH",
                                     record.area, parcel.sqm)
           all == {exists, shaped, PointResult} \cup sized \cup other
           out == ParcelCompared(profile, record, parcel)
<1>1. /\ out.status \in {"FAILED", "PASSED_WITH_LIMITATIONS"} /\ out.results = all
      /\ out.selected = NoKey
  BY DEF ParcelCompared, Outcome, DocumentSize
<1>2. /\ AreResults({exists}) /\ AreResults({shaped}) /\ AreResults({PointResult})
      /\ exists.field = "parcel_existence" /\ shaped.field = "parcel_geometry"
      /\ PointResult.field = "point_inside_parcel"
  <2>1. IsResult(exists) /\ IsResult(shaped) /\ IsResult(PointResult)
    BY DEF IsResult, Result, PointResult, Counts, MatchStatus
  <2> QED BY <2>1, OneResult DEF Result, PointResult
<1>3. AreResults(sized) /\ \A r \in sized : r.field = "document_gis_area"
  BY Reasons, SizeResultsAre DEF DocumentSize
<1>4. AreResults(other) /\ \A r \in other : r.field = "reference_gis_area"
  BY Reasons, SizeResultsAre, NoResult
<1> HIDE DEF exists, shaped, sized, other
<1>5. AreResults({exists} \cup {shaped})
  BY <1>2, TogetherResults
<1>6. AreResults(({exists} \cup {shaped}) \cup {PointResult})
  BY <1>2, <1>5, TogetherResults
<1>7. AreResults((({exists} \cup {shaped}) \cup {PointResult}) \cup sized)
  BY <1>2, <1>3, <1>6, TogetherResults
<1>8. AreResults(((({exists} \cup {shaped}) \cup {PointResult}) \cup sized) \cup other)
  BY <1>2, <1>3, <1>4, <1>7, TogetherResults
<1>9. all = ((({exists} \cup {shaped}) \cup {PointResult}) \cup sized) \cup other
  OBVIOUS
<1>10. sized \subseteq all
  OBVIOUS
<1> HIDE DEF out, all
<1>11. out.status \in Conclusion /\ AreResults(out.results) /\ out.selected = NoKey
       /\ sized \subseteq out.results
  BY <1>1, <1>8, <1>9, <1>10 DEF Conclusion
<1> QED BY <1>11 DEF out, sized

\* What GISValidator.validate_run concludes of the parcel it finds.
LEMMA GisRunIs ==
  ASSUME ParcelsOK, NEW key, NEW run \in GisRuns(key)
  PROVE  /\ IsRun(run, profile)
         /\ run.type = "GIS" /\ run.status \in Conclusion /\ run.selected = NoKey
<1> DEFINE found == ParcelsFor(profile, key, registry, parcels)
<1>1. PICK parcel : /\ run = Run("GIS", GisOutcome(profile, Lookup(key), parcel), parcel)
                    /\ parcel # NoParcel => parcel.sqm \in Nat /\ parcel.valid \in BOOLEAN
  <2>1. CASE found = {}
    BY <2>1 DEF GisRuns
  <2>2. CASE found # {}
    <3>1. PICK p \in found : run = Run("GIS", GisOutcome(profile, Lookup(key), parcels[p]), parcels[p])
      BY <2>2 DEF GisRuns
    <3>2. p \in ParcelKeys /\ parcels[p] # NoParcel
      BY DEF ParcelsFor, ParcelsByIdentifiers
    <3> QED BY <3>1, <3>2 DEF ParcelsOK
  <2> QED BY <2>1, <2>2
<1> DEFINE out == GisOutcome(profile, Lookup(key), parcel)
<1>2. /\ run.type = "GIS" /\ run.status = out.status /\ run.results = out.results
      /\ run.selected = out.selected /\ run.seen = parcel
  BY <1>1 DEF Run
<1>3. /\ out.status \in Conclusion /\ AreResults(out.results) /\ out.selected = NoKey
      /\ \/ Blames(out.results)
         \/ parcel # NoParcel /\ parcel.valid /\ DocumentSize(profile, parcel) \subseteq out.results
  <2>1. CASE parcel = NoParcel
    <3>1. out = Outcome("FAILED", {Result("parcel_existence", "NOT_FOUND", "PARCEL_NOT_FOUND")}, NoKey)
      BY <2>1 DEF GisOutcome
    <3>2. /\ AreResults({Result("parcel_existence", "NOT_FOUND", "PARCEL_NOT_FOUND")})
          /\ Blames({Result("parcel_existence", "NOT_FOUND", "PARCEL_NOT_FOUND")})
      BY Reasons, BlameIs
    <3> QED BY <3>1, <3>2 DEF Outcome, Conclusion
  <2>2. CASE parcel # NoParcel /\ ~parcel.valid
    <3> DEFINE exists == Result("parcel_existence", "MATCH", "NONE")
               broken == Result("parcel_geometry", "MISMATCH", "INVALID_PARCEL_GEOMETRY")
    <3>1. out = Outcome("FAILED", {exists, broken}, NoKey)
      BY <2>2 DEF GisOutcome
    <3>2. AreResults({exists}) /\ exists.field = "parcel_existence"
      <4>1. IsResult(exists)
        BY DEF IsResult, Result, Counts, MatchStatus
      <4> QED BY <4>1, OneResult DEF Result
    <3>3. AreResults({broken}) /\ Blames({broken}) /\ broken.field = "parcel_geometry"
      BY Reasons, BlameIs DEF Result
    <3> HIDE DEF exists, broken
    <3>4. AreResults({exists} \cup {broken})
      BY <3>2, <3>3, TogetherResults
    <3>5. {exists, broken} = {exists} \cup {broken}
      OBVIOUS
    <3>6. Blames({exists, broken})
      BY <3>3 DEF Blames
    <3> QED BY <3>1, <3>4, <3>5, <3>6 DEF Outcome, Conclusion
  <2>3. CASE parcel # NoParcel /\ parcel.valid
    <3>1. out = ParcelCompared(profile, Lookup(key), parcel)
      BY <2>3 DEF GisOutcome
    <3> QED BY <2>3, <3>1, ParcelComparedIs
  <2> QED BY <2>1, <2>2, <2>3
<1> HIDE DEF out
<1>4. Grounded(run, profile)
  BY <1>1, <1>2, <1>3 DEF Grounded
<1> QED BY <1>2, <1>3, <1>4 DEF IsRun, RunType, RunStates

-----------------------------------------------------------------------------
(* The runs of a profile                                                   *)

LEMMA LatestIs ==
  ASSUME NEW list, IsSequence(list), NEW type
  PROVE  /\ Latest(type, list) \in {0} \cup DOMAIN list
         /\ Latest(type, list) # 0 => list[Latest(type, list)].type = type
         /\ Latest(type, list) \in Nat /\ 0 \notin DOMAIN list
<1> DEFINE n == Len(list)
           of == {i \in DOMAIN list : list[i].type = type}
<1>1. n \in Nat /\ DOMAIN list = 1 .. n
  BY SequenceShape
<1>2. Latest(type, list) = IF of = {} THEN 0 ELSE Max(of)
  BY DEF Latest
<1>3. of \in SUBSET (1 .. n)
  BY <1>1
<1>4. of # {} => Max(of) \in of
  <2> HIDE DEF of
  <2> QED BY <1>1, <1>3, MaxIsIn
<1> QED BY <1>1, <1>2, <1>4

\* A list grows by a run or has one replaced: every other run stays as it is.
Updates(new, list, run) ==
  /\ IsSequence(new) /\ DOMAIN list \subseteq DOMAIN new
  /\ \A i \in DOMAIN new : \/ i \in DOMAIN list /\ new[i] = list[i]
                           \/ new[i] = run

LEMMA AppendUpdates ==
  ASSUME NEW list, IsSequence(list), NEW run
  PROVE  Updates(Append(list, run), list, run)
<1> DEFINE n == Len(list)
           S == ToSet(list) \cup {run}
           new == Append(list, run)
<1>1. n \in Nat /\ DOMAIN list = 1 .. n /\ list \in Seq(ToSet(list))
  BY SequenceShape
<1>2. list \in Seq(S)
  <2>1. ToSet(list) \subseteq S
    OBVIOUS
  <2> HIDE DEF S
  <2> QED BY <1>1, <2>1
<1>3. run \in S
  OBVIOUS
<1> HIDE DEF S
<1>4. /\ new \in Seq(S) /\ DOMAIN new = 1 .. n + 1
      /\ \A i \in 1 .. n : new[i] = list[i]
      /\ new[n + 1] = run
  BY <1>2, <1>3
<1>5. IsSequence(new)
  BY <1>4, IsASequence
<1>6. \A i \in 1 .. n + 1 : i \in 1 .. n \/ i = n + 1
  BY <1>1
<1> HIDE DEF new, n
<1>7. \A i \in DOMAIN new : \/ i \in DOMAIN list /\ new[i] = list[i]
                            \/ new[i] = run
  BY <1>1, <1>4, <1>6
<1>8. DOMAIN list \subseteq DOMAIN new
  BY <1>1, <1>4
<1> QED BY <1>5, <1>7, <1>8 DEF Updates, new

LEMMA ReplaceUpdates ==
  ASSUME NEW list, IsSequence(list), NEW run, NEW i \in DOMAIN list
  PROVE  Updates([list EXCEPT ![i] = run], list, run)
<1> DEFINE n == Len(list)
           S == ToSet(list) \cup {run}
           new == [list EXCEPT ![i] = run]
<1>1. n \in Nat /\ DOMAIN list = 1 .. n /\ list = [j \in 1 .. n |-> list[j]]
  BY SequenceShape DEF IsSequence
<1>2. new \in [1 .. n -> S]
  <2>1. \A j \in 1 .. n : list[j] \in S
    BY <1>1 DEF ToSet
  <2>2. run \in S
    OBVIOUS
  <2> HIDE DEF S
  <2> QED BY <1>1, <2>1, <2>2
<1>3. new \in Seq(S)
  <2> HIDE DEF S, new
  <2> QED BY <1>1, <1>2
<1>4. IsSequence(new)
  <2> HIDE DEF S, new
  <2> QED BY <1>3, IsASequence
<1>5. DOMAIN new = DOMAIN list /\ \A j \in DOMAIN list : new[j] = IF j = i THEN run ELSE list[j]
  OBVIOUS
<1> HIDE DEF new
<1> QED BY <1>4, <1>5 DEF Updates, new

LEMMA PlaceUpdates ==
  ASSUME NEW list, IsSequence(list), NEW run
  PROVE  Updates(Place(list, run), list, run)
<1>1. CASE Latest(run.type, list) = 0
  BY <1>1, AppendUpdates DEF Place
<1>2. CASE Latest(run.type, list) # 0
  <2>1. Latest(run.type, list) \in DOMAIN list
    BY <1>2, LatestIs
  <2> QED BY <1>2, <2>1, ReplaceUpdates DEF Place
<1> QED BY <1>1, <1>2

\* A list is completed by one of the runs found, or was complete.
LEMMA CompletedUpdates ==
  ASSUME NEW list, IsSequence(list), NEW type, NEW found, NEW new \in Completed(list, type, found)
  PROVE  new = list \/ \E run \in found : Updates(new, list, run)
BY PlaceUpdates DEF Completed

LEMMA UpdatedRuns ==
  ASSUME NEW list, NEW new, NEW run, NEW prof, Updates(new, list, run),
         AreRuns(list, prof), IsRun(run, prof)
  PROVE  AreRuns(new, prof)
BY DEF Updates, AreRuns

-----------------------------------------------------------------------------
(* The assessment                                                          *)

\* The score of finitely many discrepancies of known types is a number.
LEMMA RawScoreType ==
  ASSUME NEW S, IsFiniteSet(S), \A d \in S : d.type \in MismatchType
  PROVE  RawScore(S) \in Nat
<1> DEFINE w == [d \in S |-> Points[d.type]]
<1>1. \A type \in MismatchType : Points[type] \in Nat
  BY DEF MismatchType, Points
<1>2. w \in [S -> Int]
  BY <1>1
<1> DEFINE body(g) == [s \in SUBSET S |-> IF s = {} THEN 0
                                          ELSE Points[Some(s).type] + g[s \ {Some(s)}]]
           g == CHOOSE g : g = body(g)
<1>3. \E f : f = body(f)
  <2>1. PICK f : IsSum(f, S, w)
    BY <1>2, SumExists
  <2>2. \A s \in SUBSET S : s # {} => w[Some(s)] = Points[Some(s).type]
    BY DEF Some
  <2>3. f = [s \in SUBSET S |-> IF s = {} THEN 0 ELSE w[Some(s)] + f[s \ {Some(s)}]]
    BY <2>1 DEF IsSum
  <2>4. f = body(f)
    <3> HIDE DEF w
    <3> QED BY <2>2, <2>3
  <2> HIDE DEF body
  <2> QED BY <2>4
<1>4. g = body(g)
  <2> HIDE DEF body
  <2> QED BY <1>3
<1>5. RawScore(S) = g[S]
  BY DEF RawScore, MapThenSumSet, MapThenFoldSet, Some
<1> HIDE DEF g
<1> DEFINE P == {s \in SUBSET S : g[s] \in Nat}
<1>6. ASSUME NEW s \in SUBSET S, \A t \in SUBSET s : t # s => t \in P
      PROVE  s \in P
  <2>1. g[s] = IF s = {} THEN 0 ELSE Points[Some(s).type] + g[s \ {Some(s)}]
    BY <1>4
  <2>2. s # {} => Some(s) \in s /\ Points[Some(s).type] \in Nat
    BY <1>1 DEF Some
  <2>3. s # {} => g[s \ {Some(s)}] \in Nat
    BY <1>6, <2>2
  <2> QED BY <2>1, <2>2, <2>3
<1>7. \A s \in SUBSET S : s \in P
  <2> HIDE DEF P
  <2> QED BY <1>6, SubsetInduction
<1> QED BY <1>5, <1>7

LEMMA ScoreLevel ==
  ASSUME NEW S, IsFiniteSet(S), \A d \in S : d.type \in MismatchType
  PROVE  Score(S) \in 0 .. 100 /\ Level(Score(S)) \in RiskLevel
<1>1. Score(S) \in 0 .. 100
  <2>1. RawScore(S) \in Nat
    BY RawScoreType
  <2> QED BY <2>1 DEF Score
<1>2. \/ Score(S) >= 80 \/ Score(S) \in 50 .. 79 \/ Score(S) \in 20 .. 49 \/ Score(S) < 20
  BY <1>1
<1> QED BY <1>1, <1>2 DEF Level, RiskLevel

\* Every result that counts makes a discrepancy of a known type.
LEMMA DiscrepanciesOf ==
  ASSUME NEW results, AreResults(results)
  PROVE  /\ IsFiniteSet(FromResults(results))
         /\ \A d \in FromResults(results) : d.type \in MismatchType
         /\ FromResults(results) = {} => ~Blames(results)
<1> DEFINE C == {q \in results : Counts(q)}
           type(r) == IF r.reason \in Unmapped THEN TypeOfField(r.field) ELSE TypeOfReason(r.reason)
           d(r) == [type |-> type(r), field |-> r.field]
           fn == [r \in C |-> d(r)]
<1>1. FromResults(results) = {d(r) : r \in C}
  BY DEF FromResults
<1>2. IsFiniteSet(C)
  BY FS_Subset DEF AreResults
<1>3. ASSUME NEW r \in C
      PROVE  type(r) \in MismatchType
  <2>1. r.reason \in KnownReason
    BY DEF AreResults
  <2>2. CASE r.reason \in Unmapped
    <3>1. TypeOfField(r.field) \in MismatchType
      BY DEF TypeOfField, MismatchType, Points
    <3> QED BY <2>2, <3>1
  <2>3. CASE r.reason \notin Unmapped
    <3>1. TypeOfReason(r.reason) \in MismatchType
      BY <2>1, <2>3 DEF KnownReason, TypeOfReason, MismatchType, Points
    <3> QED BY <2>3, <3>1
  <2> QED BY <2>2, <2>3
<1> HIDE DEF type
<1>4. \A r \in C : d(r).type \in MismatchType
  BY <1>3
<1> HIDE DEF d
<1>5. fn \in Surjection(C, {d(r) : r \in C})
  BY DEF Surjection
<1> HIDE DEF fn
<1>6. IsFiniteSet({d(r) : r \in C})
  <2> HIDE DEF C
  <2> QED BY <1>2, <1>5, FS_Surjection
<1> QED BY <1>1, <1>4, <1>6 DEF Blames

\* The discrepancies the latest run of a type contributes.
FromLatest(type, list) ==
  IF Latest(type, list) = 0 THEN {} ELSE FromResults(list[Latest(type, list)].results)

LEMMA DiscrepanciesAre ==
  ASSUME NEW list
  PROVE  Discrepancies(list) = FromLatest("DATABASE", list) \cup FromLatest("GIS", list)
                                 \cup FromConflicts(profile.conflicts)
BY DEF Discrepancies, FromLatest

LEMMA AssessedIs ==
  ASSUME NEW list, IsProfile(profile), AreRuns(list, profile)
  PROVE  IsAssessment(Assessed(list), list)
<1> DEFINE D == Discrepancies(list)
           conflicts == FromConflicts(profile.conflicts)
<1>1. ASSUME NEW type
      PROVE  /\ IsFiniteSet(FromLatest(type, list))
             /\ \A d \in FromLatest(type, list) : d.type \in MismatchType
  <2>1. CASE Latest(type, list) = 0
    BY <2>1, FS_EmptySet DEF FromLatest
  <2>2. CASE Latest(type, list) # 0
    <3>1. AreResults(list[Latest(type, list)].results)
      BY <2>2, LatestIs DEF AreRuns, IsRun
    <3> QED BY <2>2, <3>1, DiscrepanciesOf DEF FromLatest
  <2> QED BY <2>1, <2>2
<1>2. IsFiniteSet(conflicts) /\ \A d \in conflicts : d.type \in MismatchType
  <2> DEFINE F == profile.conflicts
             fn == [f \in F |-> [type |-> "EXTRACTION_CONFLICT", field |-> f]]
  <2>1. IsFiniteSet(F)
    BY FieldsFinite, FS_Subset DEF IsProfile
  <2>2. fn \in Surjection(F, conflicts)
    BY DEF Surjection, FromConflicts
  <2>3. \A d \in conflicts : d.type \in MismatchType
    BY DEF FromConflicts, MismatchType, Points
  <2> HIDE DEF fn, F, conflicts
  <2> QED BY <2>1, <2>2, <2>3, FS_Surjection
<1>3. D = FromLatest("DATABASE", list) \cup FromLatest("GIS", list) \cup conflicts
  BY DiscrepanciesAre
<1> HIDE DEF D, conflicts
<1>4. IsFiniteSet(FromLatest("DATABASE", list) \cup FromLatest("GIS", list))
  BY <1>1, FS_Union
<1>5. IsFiniteSet(D)
  BY <1>2, <1>3, <1>4, FS_Union
<1>6. \A d \in D : d.type \in MismatchType
  BY <1>1, <1>2, <1>3
<1>7. Score(D) \in 0 .. 100 /\ Level(Score(D)) \in RiskLevel
  BY <1>5, <1>6, ScoreLevel
<1>8. /\ Assessed(list).factors = D /\ Assessed(list).score = Score(D)
      /\ Assessed(list).level = Level(Score(D))
      /\ Assessed(list).runs = {Latest("DATABASE", list), Latest("GIS", list)} \ {0}
  BY DEF Assessed, D
<1>9. Assessed(list).runs \subseteq DOMAIN list
  BY <1>8, LatestIs DEF AreRuns
<1> QED BY <1>6, <1>7, <1>8, <1>9 DEF IsAssessment

-----------------------------------------------------------------------------
(* Every step keeps the invariant                                          *)

\* A run that concludes now is one of the two validators', and a database run
\* that names a record was selected by what the registry says at this moment.
Decided ==
  \A i \in DOMAIN runs' :
    Concludes(i) /\ runs'[i].selected # NoKey =>
      IsProfile(profile) /\ \E k \in Candidates(profile, registry) : Chosen(runs'[i], k)

\* What is assessed anew is the list of runs as the step leaves it.
AssessedAnew ==
  assessment' # assessment /\ assessment' # NoAssessment =>
    /\ profile' = profile /\ IsProfile(profile) /\ AreRuns(runs', profile)
    /\ assessment' = Assessed(runs')

LEMMA InitIInv == Init => IInv
<1> SUFFICES ASSUME Init
             PROVE  IInv
  OBVIOUS
<1>1. ReadingsOK /\ RegistryOK /\ ParcelsOK
  BY DEF Init, ReadingsOK, RegistryOK, ParcelsOK
<1>2. ProfileOK
  BY DEF Init, ProfileOK
<1>3. AreRuns(runs, profile)
  <2>1. runs = << >>
    BY DEF Init
  <2>2. IsSequence(runs) /\ DOMAIN runs = {}
    BY <2>1 DEF IsSequence
  <2> QED BY <2>2 DEF AreRuns
<1> QED BY <1>1, <1>2, <1>3 DEF IInv, Init

\* Without a change of the runs nothing concludes.
LEMMA NothingConcludes ==
  ASSUME UNCHANGED runs
  PROVE  Decided
BY DEF Decided, Concludes

LEMMA ImportRecordsStep ==
  ASSUME IInv, NEW file \in RecordFiles, ImportRecords(file)
  PROVE  IInv' /\ Decided /\ AssessedAnew
<1>1. UNCHANGED <<readings, parcels, profile, runs, assessment>>
  BY DEF ImportRecords
<1>2. RegistryOK'
  <2>1. \A k \in DOMAIN file : IsRecord(file[k])
    BY RecordsAssumption
  <2>2. \A k \in Records : registry'[k] = IF k \in DOMAIN file THEN file[k] ELSE registry[k]
    BY DEF ImportRecords
  <2> QED BY <2>1, <2>2 DEF IInv, RegistryOK
<1> QED BY <1>1, <1>2, NothingConcludes DEF IInv, ReadingsOK, ParcelsOK, ProfileOK, AssessedAnew

LEMMA ImportParcelStep ==
  ASSUME IInv, NEW p \in ParcelKeys, NEW parcel \in Parcels, ImportParcel(p, parcel)
  PROVE  IInv' /\ Decided /\ AssessedAnew
<1>1. UNCHANGED <<readings, registry, profile, runs, assessment>>
  BY DEF ImportParcel
<1>2. ParcelsOK'
  <2> DEFINE old == IF parcels[p] = NoParcel THEN NoKey ELSE parcels[p].of
             of == IF NamedBy(parcel) = {} THEN old ELSE CHOOSE k \in NamedBy(parcel) : TRUE
             new == [of |-> of, sqm |-> parcel.sqm, valid |-> parcel.valid]
  <2>1. parcels' = [parcels EXCEPT ![p] = new]
    BY DEF ImportParcel
  <2>2. old \in Records \cup {NoKey}
    BY DEF IInv, ParcelsOK
  <2>3. NamedBy(parcel) # {} => (CHOOSE k \in NamedBy(parcel) : TRUE) \in Records
    BY DEF NamedBy
  <2>4. of \in Records \cup {NoKey}
    BY <2>2, <2>3
  <2>5. parcel.sqm \in Nat /\ parcel.valid \in BOOLEAN
    BY ParcelsAssumption
  <2> HIDE DEF of
  <2>6. new.of \in Records \cup {NoKey} /\ new.sqm \in Nat /\ new.valid \in BOOLEAN
    BY <2>4, <2>5
  <2> HIDE DEF new
  <2> QED BY <2>1, <2>6 DEF IInv, ParcelsOK
<1> QED BY <1>1, <1>2, NothingConcludes DEF IInv, ReadingsOK, RegistryOK, ProfileOK, AssessedAnew

LEMMA ReadStep ==
  ASSUME IInv, NEW d \in Documents, NEW items, AreItems(items),
         readings' = [readings EXCEPT ![d] = Consolidated(items)],
         UNCHANGED <<registry, parcels, profile, runs, assessment>>
  PROVE  IInv' /\ Decided /\ AssessedAnew
<1>1. ReadingsOK'
  <2>1. AreRows(Consolidated(items))
    BY ConsolidatedRows
  <2> QED BY <2>1 DEF IInv, ReadingsOK
<1> QED BY <1>1, NothingConcludes DEF IInv, RegistryOK, ParcelsOK, ProfileOK, AssessedAnew

LEMMA GenerateProfileStep ==
  ASSUME IInv, GenerateProfile
  PROVE  IInv' /\ Decided /\ AssessedAnew
<1>1. PICK choice \in SurestSources(readings) : profile' = ProfileOf(readings, choice)
  BY DEF GenerateProfile
<1>2. IsProfile(profile')
  BY <1>1, ProfileIs DEF IInv
<1>3. runs' = << >> /\ assessment' = NoAssessment /\ UNCHANGED <<readings, registry, parcels>>
  BY DEF GenerateProfile
<1>4. IsSequence(runs') /\ DOMAIN runs' = {}
  BY <1>3 DEF IsSequence
<1>5. AreRuns(runs', profile')
  BY <1>4 DEF AreRuns
<1>6. ProfileOK'
  BY <1>2, <1>3 DEF ProfileOK
<1>7. ReadingsOK' /\ RegistryOK' /\ ParcelsOK'
  BY <1>3 DEF IInv, ReadingsOK, RegistryOK, ParcelsOK
<1> QED BY <1>3, <1>4, <1>5, <1>6, <1>7 DEF IInv, Decided, AssessedAnew

\* A step that updates the list of runs of the profile.
LEMMA RunsStep ==
  ASSUME IInv, profile # NoProfile, NEW run, IsRun(run, profile), Updates(runs', runs, run),
         UNCHANGED <<readings, registry, parcels, profile, assessment>>
  PROVE  IInv' /\ AssessedAnew
<1>1. AreRuns(runs', profile')
  BY UpdatedRuns DEF IInv
<1>2. assessment' # NoAssessment => IsAssessment(assessment', runs')
  BY DEF IInv, IsAssessment, Updates
<1> QED BY <1>1, <1>2 DEF IInv, ReadingsOK, RegistryOK, ParcelsOK, ProfileOK, AssessedAnew

\* Of a list that is updated, only the new run concludes.
LEMMA OneConcludes ==
  ASSUME NEW run, Updates(runs', runs, run), IsProfile(profile),
         \/ run.status \notin Conclusion
         \/ run.selected = NoKey
         \/ \E k \in Candidates(profile, registry) : Chosen(run, k)
  PROVE  Decided
BY DEF Updates, Decided, Concludes

LEMMA ScheduleRunStep ==
  ASSUME IInv, NEW type \in RunType, ScheduleRun(type)
  PROVE  IInv' /\ Decided /\ AssessedAnew
<1> DEFINE run == Pending(type)
<1>1. /\ profile # NoProfile /\ runs' = Append(runs, run)
      /\ UNCHANGED <<readings, registry, parcels, profile, assessment>>
  BY DEF ScheduleRun
<1>2. /\ run.type = type /\ run.status = "PENDING" /\ run.results = {} /\ run.selected = NoKey
  BY DEF Pending, Run, Outcome
<1> HIDE DEF run
<1>3. IsRun(run, profile)
  BY <1>2, NoResult DEF IsRun, Grounded, RunStates, Conclusion
<1>4. Updates(runs', runs, run)
  BY <1>1, AppendUpdates DEF IInv, AreRuns
<1>5. Decided
  <2>1. IsProfile(profile)
    BY <1>1 DEF IInv, ProfileOK
  <2> QED BY <1>2, <1>4, <2>1, OneConcludes
<1> QED BY <1>1, <1>3, <1>4, <1>5, RunsStep

\* A list that is not empty belongs to a profile.
LEMMA ProfileThere ==
  ASSUME IInv, NEW i \in DOMAIN runs
  PROVE  profile # NoProfile /\ IsProfile(profile)
BY DEF IInv, ProfileOK

LEMMA ExecuteDatabaseRunStep ==
  ASSUME IInv, NEW i \in DOMAIN runs, ExecuteDatabaseRun(i)
  PROVE  IInv' /\ Decided /\ AssessedAnew
<1>1. /\ runs' = [runs EXCEPT ![i] = DatabaseRun]
      /\ UNCHANGED <<readings, registry, parcels, profile, assessment>>
  BY DEF ExecuteDatabaseRun
<1>2. profile # NoProfile /\ IsProfile(profile)
  BY ProfileThere
<1>3. /\ IsRun(DatabaseRun, profile)
      /\ \/ DatabaseRun.selected = NoKey
         \/ \E k \in Candidates(profile, registry) : Chosen(DatabaseRun, k)
  BY <1>2, DatabaseRunIs DEF IInv
<1>4. Updates(runs', runs, DatabaseRun)
  BY <1>1, ReplaceUpdates DEF IInv, AreRuns
<1>5. Decided
  BY <1>2, <1>3, <1>4, OneConcludes
<1> QED BY <1>1, <1>2, <1>3, <1>4, <1>5, RunsStep

LEMMA ExecuteGisRunStep ==
  ASSUME IInv, NEW i \in DOMAIN runs, ExecuteGisRun(i)
  PROVE  IInv' /\ Decided /\ AssessedAnew
<1>1. PICK key \in SelectedRecords : \E run \in GisRuns(key) : runs' = [runs EXCEPT ![i] = run]
  BY DEF ExecuteGisRun
<1> PICK run \in GisRuns(key) : runs' = [runs EXCEPT ![i] = run]
  BY <1>1
<1>2. UNCHANGED <<readings, registry, parcels, profile, assessment>>
  BY DEF ExecuteGisRun
<1>3. IsRun(run, profile) /\ run.selected = NoKey
  BY GisRunIs DEF IInv
<1>4. Updates(runs', runs, run)
  BY <1>1, ReplaceUpdates DEF IInv, AreRuns
<1>5. Decided
  BY <1>3, <1>4, OneConcludes, ProfileThere
<1> QED BY <1>2, <1>3, <1>4, <1>5, RunsStep, ProfileThere

LEMMA CalculateRiskStep ==
  ASSUME IInv, CalculateRisk
  PROVE  IInv' /\ Decided /\ AssessedAnew
<1>1. /\ profile # NoProfile /\ assessment' = Assessed(runs)
      /\ UNCHANGED <<readings, registry, parcels, profile, runs>>
  BY DEF CalculateRisk
<1>2. IsProfile(profile)
  BY <1>1 DEF IInv, ProfileOK
<1>3. IsAssessment(Assessed(runs), runs)
  BY <1>2, AssessedIs DEF IInv
<1>4. AssessedAnew
  BY <1>1, <1>2 DEF AssessedAnew, IInv
<1>5. IInv'
  BY <1>1, <1>3 DEF IInv, ReadingsOK, RegistryOK, ParcelsOK, ProfileOK
<1> QED BY <1>1, <1>4, <1>5, NothingConcludes

\* Completing a list of runs by what a validator finds keeps it one of runs.
LEMMA CompletedRuns ==
  ASSUME NEW prof, NEW list, AreRuns(list, prof), NEW type, NEW found,
         \A run \in found : IsRun(run, prof),
         NEW new \in Completed(list, type, found)
  PROVE  /\ AreRuns(new, prof)
         /\ \A i \in DOMAIN new : \/ i \in DOMAIN list /\ new[i] = list[i]
                                 \/ new[i] \in found
<1>1. new = list \/ \E run \in found : Updates(new, list, run)
  BY CompletedUpdates DEF AreRuns
<1>2. CASE new = list
  BY <1>2
<1>3. ASSUME NEW run \in found, Updates(new, list, run)
      PROVE  /\ AreRuns(new, prof)
             /\ \A i \in DOMAIN new : \/ i \in DOMAIN list /\ new[i] = list[i]
                                     \/ new[i] \in found
  <2>1. AreRuns(new, prof)
    BY <1>3, UpdatedRuns
  <2> QED BY <1>3, <2>1 DEF Updates
<1> QED BY <1>1, <1>2, <1>3

LEMMA PipelineStep ==
  ASSUME IInv, Pipeline
  PROVE  IInv' /\ Decided /\ AssessedAnew
<1> DEFINE base == DatabaseRun
<1>1. profile # NoProfile /\ UNCHANGED <<readings, registry, parcels, profile>>
  BY DEF Pipeline
<1>2. PICK looked \in Completed(runs, "DATABASE", {base}) :
        \E located \in Completed(looked, "GIS", GisRuns(NoKey)) :
          runs' = located /\ assessment' = Assessed(located)
  BY DEF Pipeline
<1>3. runs' \in Completed(looked, "GIS", GisRuns(NoKey)) /\ assessment' = Assessed(runs')
  BY <1>2
<1>4. IsProfile(profile)
  BY <1>1 DEF IInv, ProfileOK
<1>5. /\ IsRun(base, profile)
      /\ \/ base.selected = NoKey
         \/ \E k \in Candidates(profile, registry) : Chosen(base, k)
  BY <1>4, DatabaseRunIs DEF IInv
<1>6. \A run \in GisRuns(NoKey) : IsRun(run, profile) /\ run.selected = NoKey
  BY GisRunIs DEF IInv
<1> HIDE DEF base
<1>7. /\ AreRuns(looked, profile)
      /\ \A i \in DOMAIN looked : \/ i \in DOMAIN runs /\ looked[i] = runs[i]
                                 \/ looked[i] = base
  <2>1. \A run \in {base} : IsRun(run, profile)
    BY <1>5
  <2>2. AreRuns(runs, profile)
    BY DEF IInv
  <2> QED BY <1>2, <2>1, <2>2, CompletedRuns
<1> DEFINE list == runs'
<1>8. /\ AreRuns(list, profile)
      /\ \A i \in DOMAIN list : \/ i \in DOMAIN looked /\ list[i] = looked[i]
                               \/ list[i] \in GisRuns(NoKey)
  <2>1. list \in Completed(looked, "GIS", GisRuns(NoKey))
    BY <1>3
  <2> HIDE DEF list
  <2> QED BY <1>6, <1>7, <2>1, CompletedRuns
<1>9. IsAssessment(Assessed(list), list)
  <2> HIDE DEF list
  <2> QED BY <1>4, <1>8, AssessedIs
<1>10. IInv'
  BY <1>1, <1>3, <1>8, <1>9 DEF IInv, ReadingsOK, RegistryOK, ParcelsOK, ProfileOK
<1>11. AssessedAnew
  BY <1>1, <1>3, <1>4, <1>8 DEF AssessedAnew
<1>12. Decided
  <2> SUFFICES ASSUME NEW i \in DOMAIN runs', Concludes(i), runs'[i].selected # NoKey
               PROVE  \E k \in Candidates(profile, registry) : Chosen(runs'[i], k)
    BY <1>4 DEF Decided
  <2>1. i \in DOMAIN looked /\ runs'[i] = looked[i]
    BY <1>6, <1>8
  <2>2. looked[i] = base
    BY <1>7, <2>1 DEF Concludes
  <2> QED BY <1>5, <2>1, <2>2
<1> QED BY <1>10, <1>11, <1>12

LEMMA NextIInv ==
  ASSUME IInv, Next
  PROVE  IInv' /\ Decided /\ AssessedAnew
<1>1. CASE \E file \in RecordFiles : ImportRecords(file)
  BY <1>1, ImportRecordsStep
<1>2. CASE \E p \in ParcelKeys, parcel \in Parcels : ImportParcel(p, parcel)
  BY <1>2, ImportParcelStep
<1>3. ASSUME NEW d \in Documents, NEW items \in Readings, Extract(d, items)
      PROVE  IInv' /\ Decided /\ AssessedAnew
  <2>1. AreItems(items)
    BY ReadingsAssumption DEF AreItems, IsItem
  <2> QED BY <1>3, <2>1, ReadStep DEF Extract
<1>4. ASSUME NEW d \in Documents, NEW pages \in OcrTexts, ExtractByRules(d, pages)
      PROVE  IInv' /\ Decided /\ AssessedAnew
  <2>1. AreItems(RuleItems(pages))
    BY OcrTextsAssumption, RuleItemsFit
  <2> QED BY <1>4, <2>1, ReadStep DEF ExtractByRules
<1>5. CASE \E type \in RunType : ScheduleRun(type)
  BY <1>5, ScheduleRunStep
<1>6. CASE \E i \in DOMAIN runs : ExecuteDatabaseRun(i) \/ ExecuteGisRun(i)
  BY <1>6, ExecuteDatabaseRunStep, ExecuteGisRunStep
<1> QED BY <1>1, <1>2, <1>3, <1>4, <1>5, <1>6, GenerateProfileStep, CalculateRiskStep, PipelineStep
        DEF Next

LEMMA StutterIInv ==
  ASSUME IInv, UNCHANGED vars
  PROVE  IInv'
BY DEF vars, IInv, ReadingsOK, RegistryOK, ParcelsOK, ProfileOK

LEMMA Invariance == Spec => []IInv
<1>1. IInv /\ [Next]_vars => IInv'
  BY NextIInv, StutterIInv
<1> QED BY <1>1, InitIInv, PTL DEF Spec

-----------------------------------------------------------------------------
(* The theorems                                                            *)

LEMMA IInvTypes == IInv => TypeOK
<1> SUFFICES ASSUME IInv
             PROVE  TypeOK
  OBVIOUS
<1>1. \A d \in Documents :
        readings[d] # Unread =>
          \A f \in Fields : readings[d][f] # NoRow =>
            /\ readings[d][f].status \in {"EXTRACTED", "UNCERTAIN", "NOT_FOUND"}
            /\ (readings[d][f].status = "NOT_FOUND") = (readings[d][f].value = Absent)
  BY DEF IInv, ReadingsOK, AreRows, IsRow, RowStatus
<1>2. \A k \in ParcelKeys : parcels[k] # NoParcel => parcels[k].of \in Records \cup {NoKey}
  BY DEF IInv, ParcelsOK
<1>3. profile = NoProfile => runs = << >> /\ assessment = NoAssessment
  BY DEF IInv, ProfileOK
<1>4. \A i \in DOMAIN runs :
        /\ runs[i].type \in RunType /\ runs[i].status \in RunStates
        /\ runs[i].selected \in Records \cup {NoKey}
        /\ \A q, r \in runs[i].results : q.status \in MatchStatus /\ (q.field = r.field => q = r)
  BY DEF IInv, AreRuns, IsRun, AreResults
<1>5. assessment # NoAssessment =>
        /\ assessment.score \in 0 .. 100 /\ assessment.level \in RiskLevel
        /\ \A d \in assessment.factors : d.type \in MismatchType
        /\ assessment.runs \subseteq DOMAIN runs
  BY DEF IInv, IsAssessment
<1> QED BY <1>1, <1>2, <1>3, <1>4, <1>5 DEF TypeOK

\* Rows, parcels, runs and assessments keep their types, whatever the documents
\* say: a run has one result per field (Validator.validate_run), every result that
\* counts has points and the score of an assessment is within 0..100
\* (RiskEngine.calculate_case_risk).
THEOREM AssessmentTypes == Spec => []TypeOK
BY Invariance, IInvTypes, PTL

\* The result on the owners is MATCH if and only if the verdict on them is.
LEMMA OwnerVerdictShows ==
  ASSUME NEW prof, IsProfile(prof), NEW record, IsRecord(record)
  PROVE  Result("owner_name", "MATCH", "NONE") \in RecordResults(prof, record)
           <=> MatchOwnerSets(prof.owners, record.owners).status = "MATCH"
<1> DEFINE match == Result("owner_name", "MATCH", "NONE")
           owner == OwnerResult(prof, record)
           verdict == MatchOwnerSets(prof.owners, record.owners).status
<1>1. match.field = "owner_name" /\ match.status = "MATCH"
  BY DEF Result
<1>2. owner.field = "owner_name" /\ owner.status = verdict
  BY OwnerResultIs DEF IsProfile, IsRecord
<1>3. verdict = "MATCH" => owner = match
  <2>1. owner = Result("owner_name", verdict, OwnerReason(verdict, prof.owners))
    BY DEF OwnerResult, OwnerResultOf
  <2>2. OwnerReason("MATCH", prof.owners) = "NONE"
    BY DEF OwnerReason
  <2> HIDE DEF owner, verdict
  <2> QED BY <2>1, <2>2
<1>4. \A q, r \in RecordResults(prof, record) : q.field = r.field => q = r
  BY RecordResultsAre DEF AreResults
<1>5. owner \in RecordResults(prof, record)
  BY DEF RecordResults
<1> HIDE DEF match, owner, verdict
<1>6. match \in RecordResults(prof, record) <=> verdict = "MATCH"
  BY <1>1, <1>2, <1>3, <1>4, <1>5
<1> QED BY <1>6 DEF match, verdict

\* Names of at most four words: the owners of the documents match those of the
\* record a run selects if and only if they are the same people
\* (NameMatcher.match_owner_sets as NameRule uses it), for owners in any number
\* and order.
THEOREM OwnersAgreeOnShortNames == ASSUME ShortNames PROVE Spec => OwnersAgree
<1> DEFINE Agreed ==
      \A i \in DOMAIN runs' :
        Concludes(i) /\ runs'[i].selected # NoKey =>
          LET docs == profile.owners
              refs == registry[runs'[i].selected].owners
          IN  docs # << >> /\ Repeatless(refs) =>
                ((Result("owner_name", "MATCH", "NONE") \in runs'[i].results)
                   <=> OneToOne(docs, refs))
<1>1. ASSUME IInv, Decided
      PROVE  Agreed
  <2> SUFFICES ASSUME NEW i \in DOMAIN runs', Concludes(i), runs'[i].selected # NoKey,
                      profile.owners # << >>,
                      Repeatless(registry[runs'[i].selected].owners)
               PROVE  (Result("owner_name", "MATCH", "NONE") \in runs'[i].results)
                        <=> OneToOne(profile.owners, registry[runs'[i].selected].owners)
    OBVIOUS
  <2>1. PICK k \in Candidates(profile, registry) : Chosen(runs'[i], k)
    BY <1>1 DEF Decided
  <2>2. IsProfile(profile)
    BY <1>1 DEF Decided
  <2>3. IsRecord(registry[k])
    BY <1>1 DEF IInv, RegistryOK, Candidates
  <2>4. runs'[i].selected = k /\ runs'[i].results = RecordResults(profile, registry[k])
    BY <2>1 DEF Chosen
  <2> DEFINE docs == profile.owners
             refs == registry[k].owners
  <2>5. docs \in Seq(Names) /\ refs \in Seq(Names) /\ docs # << >> /\ Repeatless(refs)
    BY <2>2, <2>3, <2>4 DEF IsProfile, IsRecord
  <2>6. MatchOwnerSets(docs, refs).status = "MATCH" <=> OneToOne(docs, refs)
    <3> HIDE DEF docs, refs
    <3> QED BY <2>5, MatchIsOneToOne, OneToOneMatches
  <2> QED BY <2>2, <2>3, <2>4, <2>6, OwnerVerdictShows
<1>2. IInv /\ [Next]_vars => [Agreed]_vars
  BY <1>1, NextIInv
<1> QED BY <1>2, Invariance, PTL DEF Spec, OwnersAgree

\* The weights of what agrees, added up.
LEMMA WeightSum ==
  ASSUME NEW f, IsSum(f, DOMAIN Weight, Weight), Weight \in [DOMAIN Weight -> Int],
         IsFiniteSet(DOMAIN Weight), NEW A \in SUBSET DOMAIN Weight
  PROVE  MapThenSumSet(LAMBDA x : Weight[x], A) = f[A]
<1> DEFINE U == DOMAIN Weight
<1> DEFINE body(g) == [s \in SUBSET A |-> IF s = {} THEN 0
                                          ELSE Weight[Some(s)] + g[s \ {Some(s)}]]
           h == [s \in SUBSET A |-> f[s]]
           g == CHOOSE g : g = body(g)
<1>1. \A s \in SUBSET A : f[s] = IF s = {} THEN 0 ELSE Weight[Some(s)] + f[s \ {Some(s)}]
  BY SumAt
<1>2. h = body(h)
  <2>1. \A s \in SUBSET A : s # {} => s \ {Some(s)} \in SUBSET A
    OBVIOUS
  <2> QED BY <1>1, <2>1
<1>3. g = body(g)
  <2> HIDE DEF body
  <2>1. \E k : k = body(k)
    BY <1>2
  <2> QED BY <2>1
<1>4. MapThenSumSet(LAMBDA x : Weight[x], A) = g[A]
  BY DEF MapThenSumSet, MapThenFoldSet, Some
<1> HIDE DEF g
<1> DEFINE P == {s \in SUBSET A : g[s] = f[s]}
<1>5. ASSUME NEW s \in SUBSET A, \A t \in SUBSET s : t # s => t \in P
      PROVE  s \in P
  <2>1. g[s] = IF s = {} THEN 0 ELSE Weight[Some(s)] + g[s \ {Some(s)}]
    BY <1>3
  <2>2. s # {} => s \ {Some(s)} \in P
    BY <1>5 DEF Some
  <2> QED BY <1>1, <2>1, <2>2
<1>6. \A s \in SUBSET A : s \in P
  <2> HIDE DEF P
  <2>1. IsFiniteSet(A)
    BY FS_Subset
  <2> QED BY <1>5, <2>1, SubsetInduction
<1> QED BY <1>4, <1>6

\* What agrees adds to the score, and so do similar owners.
LEMMA ScoreGrows ==
  ASSUME NEW prof, IsProfile(prof), NEW a, IsRecord(a), NEW b, IsRecord(b),
         \A f \in DOMAIN Weight : Agrees(prof, a, f) => Agrees(prof, b, f),
         OwnerScore(prof, b) >= OwnerScore(prof, a)
  PROVE  /\ CandidateScore(prof, a) \in Int /\ CandidateScore(prof, b) \in Int
         /\ CandidateScore(prof, b) >= CandidateScore(prof, a)
<1> DEFINE U == DOMAIN Weight
           A == {f \in U : Agrees(prof, a, f)}
           B == {f \in U : Agrees(prof, b, f)}
<1>1. Weight \in [U -> Nat] /\ Weight \in [U -> Int]
  BY DEF Weight
<1>2. IsFiniteSet(U)
  <2>1. U \subseteq Fields
    BY DEF Weight, Fields, Identifiers, Locations
  <2> QED BY <2>1, FieldsFinite, FS_Subset
<1>3. A \in SUBSET B /\ B \in SUBSET U /\ A \in SUBSET U
  OBVIOUS
<1> HIDE DEF U, A, B
<1>4. PICK f : IsSum(f, U, Weight)
  BY <1>1, <1>2, SumExists
<1>5. /\ MapThenSumSet(LAMBDA x : Weight[x], A) = f[A]
      /\ MapThenSumSet(LAMBDA x : Weight[x], B) = f[B]
  BY <1>1, <1>2, <1>3, <1>4, WeightSum DEF U
<1>6. f[A] \in Int /\ f[B] \in Int
  BY <1>1, <1>3, <1>4, SumAt
<1>7. f[A] <= f[B]
  BY <1>1, <1>2, <1>3, <1>4, SumMonotonic
<1>8. OwnerScore(prof, a) \in Nat /\ OwnerScore(prof, b) \in Nat
  <2>1. MatchOwnerSets(prof.owners, a.owners).score \in Nat
    BY MatchOwnerSetsType DEF IsProfile, IsRecord
  <2>2. MatchOwnerSets(prof.owners, b.owners).score \in Nat
    BY MatchOwnerSetsType DEF IsProfile, IsRecord
  <2> QED BY <2>1, <2>2 DEF OwnerScore
<1>9. /\ CandidateScore(prof, a) = 100 * f[A] + 40 * OwnerScore(prof, a)
      /\ CandidateScore(prof, b) = 100 * f[B] + 40 * OwnerScore(prof, b)
  BY <1>5 DEF CandidateScore, A, B, U
<1> QED BY <1>6, <1>7, <1>8, <1>9

\* A record that is found by what agrees is found together with its twins.
LEMMA TwinIsCandidate ==
  ASSUME NEW k \in Candidates(profile, registry), NEW j \in Records, Twin(k, j)
  PROVE  /\ j \in Candidates(profile, registry)
         /\ \A f \in Identifiers \cup Locations :
              Agrees(profile, registry[k], f) => Agrees(profile, registry[j], f)
<1>1. /\ registry[j] # NoRecord
      /\ \A f \in Identifiers \cup Locations :
           Agrees(profile, registry[k], f) => registry[j].text[f] = registry[k].text[f]
  BY DEF Twin
<1>2. ASSUME NEW f \in Identifiers, SearchedBy(profile, registry[k], f)
      PROVE  SearchedBy(profile, registry[j], f)
  <2>1. Agrees(profile, registry[k], f)
    BY <1>2 DEF SearchedBy, TypedLike, Agrees, SameIdentifier
  <2>2. registry[j].text[f] = registry[k].text[f]
    BY <1>1, <2>1
  <2> QED BY <1>2, <2>2 DEF SearchedBy
<1>3. IsCandidate(profile, registry[k])
  BY DEF Candidates
<1>4. IsCandidate(profile, registry[j])
  BY <1>2, <1>3 DEF IsCandidate, Identifiers
<1> QED BY <1>1, <1>4 DEF Candidates, Agrees

\* The record a database run selects is never one of several that fit equally
\* well (DatabaseValidator._select_candidate): a twin would be a candidate too,
\* and no record beats it by the margin.
THEOREM NoTwinIsChosen == Spec => ChosenRecordHasNoTwin
<1> DEFINE Single ==
      \A i \in DOMAIN runs' :
        Concludes(i) /\ runs'[i].selected # NoKey =>
          \A j \in Records : ~Twin(runs'[i].selected, j)
<1>1. ASSUME IInv, Decided
      PROVE  Single
  <2> SUFFICES ASSUME NEW i \in DOMAIN runs', Concludes(i), runs'[i].selected # NoKey,
                      NEW j \in Records, Twin(runs'[i].selected, j)
               PROVE  FALSE
    OBVIOUS
  <2> DEFINE C == Candidates(profile, registry)
             score == [c \in C |-> CandidateScore(profile, registry[c])]
  <2>1. PICK k \in C : Chosen(runs'[i], k)
    BY <1>1 DEF Decided
  <2>2. IsProfile(profile)
    BY <1>1 DEF Decided
  <2>3. Twin(k, j) /\ k \in Selected(C, score)
    BY <2>1 DEF Chosen
  <2>4. /\ j \in C /\ j # k
        /\ \A f \in Identifiers \cup Locations :
             Agrees(profile, registry[k], f) => Agrees(profile, registry[j], f)
        /\ OwnerScore(profile, registry[j]) >= OwnerScore(profile, registry[k])
    <3>1. j # k /\ OwnerScore(profile, registry[j]) >= OwnerScore(profile, registry[k])
      BY <2>3 DEF Twin
    <3> QED BY <2>3, <3>1, TwinIsCandidate
  <2>5. IsRecord(registry[k]) /\ IsRecord(registry[j])
    BY <1>1, <2>4 DEF IInv, RegistryOK, Candidates
  <2>6. DOMAIN Weight \subseteq Identifiers \cup Locations
    BY DEF Weight, Identifiers, Locations
  <2>7. /\ CandidateScore(profile, registry[k]) \in Int
        /\ CandidateScore(profile, registry[j]) \in Int
        /\ CandidateScore(profile, registry[j]) >= CandidateScore(profile, registry[k])
    BY <2>2, <2>4, <2>5, <2>6, ScoreGrows
  <2>8. score[k] - score[j] >= 3000
    <3> HIDE DEF score, C
    <3> QED BY <2>3, <2>4 DEF Selected
  <2>9. score[k] = CandidateScore(profile, registry[k]) /\ score[j] = CandidateScore(profile, registry[j])
    BY <2>4
  <2> HIDE DEF score
  <2> QED BY <2>7, <2>8, <2>9
<1>2. IInv /\ [Next]_vars => [Single]_vars
  BY <1>1, NextIInv
<1> QED BY <1>2, Invariance, PTL DEF Spec, ChosenRecordHasNoTwin

\* What an assessment without discrepancies says of a database run ...
SameProperty(prof, record) ==
  /\ \A f \in Identifiers \cup Locations : SameText(prof.text[f], record.text[f])
  /\ OneToOne(prof.owners, record.owners)
  /\ prof.area # Absent \/ record.area # Absent =>
       /\ Convertible(prof.area) /\ Convertible(record.area)
       /\ Within(InSqMetres(prof.area), InSqMetres(record.area), AreaTolerance)

\* ... and of a GIS run.
SameSize(prof, parcel) ==
  Convertible(prof.area) /\ prof.area.amount # 0 =>
    Within(parcel.sqm, InSqMetres(prof.area), GisTolerance)

LEMMA ResultParts ==
  ASSUME NEW field, NEW status, NEW reason
  PROVE  Counts(Result(field, status, reason)) <=> status \notin {"MATCH", "NOT_CHECKED"}
BY DEF Counts, Result

\* Owners of whom no result counts are the same: they match, or there are none.
LEMMA OwnersBlameless ==
  ASSUME ShortNames, NEW prof, IsProfile(prof), NEW record, IsRecord(record),
         ~Counts(OwnerResult(prof, record))
  PROVE  OneToOne(prof.owners, record.owners)
<1> DEFINE docs == prof.owners
           refs == record.owners
           status == MatchOwnerSets(docs, refs).status
<1>1. docs \in Seq(Names) /\ refs \in Seq(Names)
  BY DEF IsProfile, IsRecord
<1>2. status \in {"MATCH", "NOT_CHECKED"}
  BY <1>1, OwnerResultIs DEF Counts
<1>3. CASE status = "MATCH"
  <2> HIDE DEF docs, refs
  <2>1. OneToOne(docs, refs)
    BY <1>1, <1>3, MatchIsOneToOne
  <2> QED BY <2>1 DEF docs, refs
<1>4. CASE status = "NOT_CHECKED"
  <2>1. PICK tr : MatchOwnerSets(docs, refs) = OwnersVerdict(docs, refs, tr[Len(docs)].scores)
    BY <1>1, PairingExists
  <2> DEFINE pairs == tr[Len(docs)].scores
  <2>2. docs = << >> /\ refs = << >>
    <3>1. OwnersVerdict(docs, refs, pairs).status = "NOT_CHECKED"
      BY <1>4, <2>1
    <3> HIDE DEF docs, refs, pairs
    <3> DEFINE owners == IF Len(docs) > Len(refs) THEN Len(docs) ELSE Len(refs)
               score == Rounded(FoldLeft(LAMBDA x, y : x + y, 0, pairs), owners)
               same == Len(pairs) = Len(docs) /\ Len(docs) = Len(refs)
    <3>2. OwnersVerdict(docs, refs, pairs) =
            IF docs = << >> /\ refs = << >> THEN Verdict("NOT_CHECKED", 0)
            ELSE IF docs = << >> \/ refs = << >> THEN Verdict("NOT_FOUND", 0)
            ELSE IF same /\ \A i \in DOMAIN pairs : pairs[i] >= 95 THEN Verdict("MATCH", score)
            ELSE Verdict(IF pairs # << >> THEN "PARTIAL_MATCH" ELSE "MISMATCH", score)
      BY DEF OwnersVerdict
    <3> HIDE DEF score, same
    <3> QED BY <3>1, <3>2 DEF Verdict
  <2>3. OneToOne(<< >>, << >>)
    <3>1. DOMAIN << >> = {}
      OBVIOUS
    <3>2. [i \in {} |-> i] \in Bijection({}, {})
      BY DEF Bijection, Injection, Surjection, IsInjective
    <3> QED BY <3>1, <3>2 DEF OneToOne
  <2> QED BY <2>2, <2>3
<1> QED BY <1>2, <1>3, <1>4

\* A comparison with a record of which no result counts finds the same property
\* (DatabaseValidator.validate_run).
LEMMA RecordBlameless ==
  ASSUME ShortNames, NEW prof, IsProfile(prof), NEW record, IsRecord(record),
         ~Blames(RecordResults(prof, record))
  PROVE  SameProperty(prof, record)
<1>1. \A r \in RecordResults(prof, record) : ~Counts(r)
  BY DEF Blames
<1>2. ASSUME NEW f \in Identifiers \cup Locations
      PROVE  SameText(prof.text[f], record.text[f])
  <2> DEFINE doc == prof.text[f]
             ref == record.text[f]
  <2>1. CASE doc = Absent /\ ref = Absent
    BY <2>1 DEF SameText
  <2>2. CASE doc # Absent \/ ref # Absent
    <3>1. TextResult(f, doc, ref) \in RecordResults(prof, record)
      BY <2>2 DEF RecordResults, TextResults
    <3>2. ~Counts(TextResult(f, doc, ref))
      BY <1>1, <3>1
    <3> HIDE DEF doc, ref
    <3>3. doc # Absent /\ ref # Absent /\ SameIdentifier(doc, ref)
      BY <3>2, ResultParts DEF TextResult, OneSided
    <3> QED BY <3>3 DEF SameText, doc, ref
  <2> QED BY <2>1, <2>2
<1>3. OneToOne(prof.owners, record.owners)
  <2>1. OwnerResult(prof, record) \in RecordResults(prof, record)
    BY DEF RecordResults
  <2> QED BY <1>1, <2>1, OwnersBlameless
<1>4. ASSUME prof.area # Absent \/ record.area # Absent
      PROVE  /\ Convertible(prof.area) /\ Convertible(record.area)
             /\ Within(InSqMetres(prof.area), InSqMetres(record.area), AreaTolerance)
  <2>1. AreaResult(prof.area, record.area) \in RecordResults(prof, record)
    BY <1>4 DEF RecordResults, AreaResults
  <2>2. ~Counts(AreaResult(prof.area, record.area))
    BY <1>1, <2>1
  <2> QED BY <2>2, ResultParts DEF AreaResult, OneSided
<1> QED BY <1>2, <1>3, <1>4 DEF SameProperty

\* A comparison with a parcel of which no result counts finds the size the
\* documents state (AreaConsistencyRule).
LEMMA ParcelBlameless ==
  ASSUME NEW prof, IsProfile(prof), NEW parcel, NEW results,
         DocumentSize(prof, parcel) \subseteq results, ~Blames(results)
  PROVE  SameSize(prof, parcel)
<1> SUFFICES ASSUME Convertible(prof.area), prof.area.amount # 0
             PROVE  Within(parcel.sqm, InSqMetres(prof.area), GisTolerance)
  BY DEF SameSize
<1>1. prof.area.amount \in Nat \ {0}
  BY DEF IsProfile, Fits, Convertible, AreaFields
<1>2. SqMetres[prof.area.unit] \in Nat \ {0}
  BY UnitsAssumption DEF Convertible
<1>3. InSqMetres(prof.area) # 0
  <2>1. \A x, y \in Nat \ {0} : x * y # 0
    OBVIOUS
  <2> QED BY <1>1, <1>2, <2>1 DEF InSqMetres
<1> DEFINE wrong == Result("document_gis_area", "MISMATCH", "DOCUMENT_GIS_AREA_MISMATCH")
<1>4. Counts(wrong)
  BY ResultParts
<1>5. wrong \notin DocumentSize(prof, parcel)
  BY <1>4 DEF Blames
<1> QED BY <1>3, <1>5 DEF DocumentSize, SizeResults

\* What the latest run of a type rests on, if it was executed and contributes
\* nothing to the assessment.
LEMMA LatestBlameless ==
  ASSUME ShortNames, NEW prof, IsProfile(prof), NEW list, AreRuns(list, prof),
         NEW type \in RunType, Settled(list, Latest(type, list)),
         FromLatest(type, list) = {}
  PROVE  /\ list[Latest(type, list)].type = type
         /\ type = "DATABASE" => /\ list[Latest(type, list)].seen # NoRecord
                                 /\ SameProperty(prof, list[Latest(type, list)].seen)
         /\ type = "GIS" => /\ list[Latest(type, list)].seen # NoParcel
                            /\ list[Latest(type, list)].seen.valid
                            /\ SameSize(prof, list[Latest(type, list)].seen)
<1> DEFINE i == Latest(type, list)
           run == list[i]
<1>1. i # 0 /\ run.status \in Conclusion
  BY DEF Settled
<1>2. i \in DOMAIN list /\ run.type = type
  BY <1>1, LatestIs DEF AreRuns
<1>3. IsRun(run, prof)
  BY <1>2 DEF AreRuns
<1>4. ~Blames(run.results)
  <2>1. FromResults(run.results) = {}
    BY <1>1 DEF FromLatest
  <2> QED BY <1>3, <2>1, DiscrepanciesOf DEF IsRun
<1> HIDE DEF run
<1>5. CASE type = "DATABASE"
  <2>1. run.seen # NoRecord /\ IsRecord(run.seen) /\ run.results = RecordResults(prof, run.seen)
    BY <1>1, <1>2, <1>3, <1>4, <1>5 DEF IsRun, Grounded
  <2>2. SameProperty(prof, run.seen)
    BY <1>4, <2>1, RecordBlameless
  <2> QED BY <1>2, <1>5, <2>1, <2>2 DEF run
<1>6. CASE type = "GIS"
  <2>1. run.seen # NoParcel /\ run.seen.valid /\ DocumentSize(prof, run.seen) \subseteq run.results
    BY <1>1, <1>2, <1>3, <1>4, <1>6 DEF IsRun, Grounded
  <2>2. SameSize(prof, run.seen)
    BY <1>4, <2>1, ParcelBlameless
  <2> QED BY <1>2, <1>6, <2>1, <2>2 DEF run
<1> QED BY <1>5, <1>6 DEF RunType

\* What an assessment rests on that finds nothing in two executed runs.
LEMMA CleanRests ==
  ASSUME ShortNames, AssessedAnew, FoundClean
  PROVE  /\ IsProfile(profile) /\ profile.conflicts = {}
         /\ \A i \in assessment'.runs :
              \/ /\ runs'[i].type = "DATABASE" /\ runs'[i].seen # NoRecord
                 /\ SameProperty(profile, runs'[i].seen)
              \/ /\ runs'[i].type = "GIS" /\ runs'[i].seen # NoParcel /\ runs'[i].seen.valid
                 /\ SameSize(profile, runs'[i].seen)
<1> DEFINE list == runs'
           made == assessment'
           d == Latest("DATABASE", list)
           g == Latest("GIS", list)
<1>1. /\ made.factors = {} /\ Cardinality(made.runs) = 2
      /\ \A i \in made.runs : Settled(list, i)
  BY DEF FoundClean
<1>2. /\ profile' = profile /\ IsProfile(profile) /\ AreRuns(list, profile)
      /\ made = Assessed(list)
  BY DEF FoundClean, AssessedAnew
<1> HIDE DEF list, made
<1>3. made.runs = {d, g} \ {0}
  BY <1>2 DEF Assessed
<1>4. d # 0 /\ g # 0
  <2> HIDE DEF d, g
  <2>1. \A x : Cardinality({x}) = 1 /\ IsFiniteSet({x})
    BY FS_Singleton
  <2>2. {d, g} \ {0} \subseteq {d} \/ {d, g} \ {0} \subseteq {g} \/ (d # 0 /\ g # 0)
    OBVIOUS
  <2>3. \A x : {d, g} \ {0} \subseteq {x} => Cardinality({d, g} \ {0}) <= 1
    <3> SUFFICES ASSUME NEW x, {d, g} \ {0} \subseteq {x}
                 PROVE  Cardinality({d, g} \ {0}) <= 1
      OBVIOUS
    <3>1. IsFiniteSet({x}) /\ Cardinality({x}) = 1
      BY <2>1
    <3>2. Cardinality({d, g} \ {0}) <= Cardinality({x})
      BY <3>1, FS_Subset
    <3> QED BY <3>1, <3>2
  <2>4. 2 <= 1 => FALSE
    OBVIOUS
  <2> QED BY <1>1, <1>3, <2>2, <2>3, <2>4
<1>5. /\ FromLatest("DATABASE", list) = {} /\ FromLatest("GIS", list) = {}
      /\ FromConflicts(profile.conflicts) = {}
  <2>1. Discrepancies(list) = {}
    BY <1>1, <1>2 DEF Assessed
  <2>2. Discrepancies(list) = FromLatest("DATABASE", list) \cup FromLatest("GIS", list)
                                 \cup FromConflicts(profile.conflicts)
    BY DEF Discrepancies, FromLatest
  <2> QED BY <2>1, <2>2
<1>6. profile.conflicts = {}
  BY <1>5 DEF FromConflicts
<1>7. Settled(list, d) /\ Settled(list, g)
  BY <1>1, <1>3, <1>4
<1>8. list[d].type = "DATABASE" /\ list[d].seen # NoRecord /\ SameProperty(profile, list[d].seen)
  BY <1>2, <1>5, <1>7, LatestBlameless DEF RunType
<1>9. /\ list[g].type = "GIS" /\ list[g].seen # NoParcel /\ list[g].seen.valid
      /\ SameSize(profile, list[g].seen)
  BY <1>2, <1>5, <1>7, LatestBlameless DEF RunType
<1> HIDE DEF d, g
<1> QED BY <1>2, <1>3, <1>6, <1>8, <1>9 DEF list, made

\* Names of at most four words: an assessment without discrepancies that rests on
\* two executed runs vouches for the property (RiskEngine.calculate_case_risk):
\* the record and the parcel the runs have seen are what the profile states.
THEOREM CleanAssessmentVouches == ASSUME ShortNames PROVE Spec => CleanMeansClean
<1> DEFINE seen(i) == runs'[i].seen
           Vouched(i) ==
             IF runs'[i].type = "DATABASE"
             THEN /\ seen(i) # NoRecord
                  /\ \A f \in Identifiers \cup Locations : SameText(profile.text[f], seen(i).text[f])
                  /\ OneToOne(profile.owners, seen(i).owners)
                  /\ profile.area # Absent \/ seen(i).area # Absent =>
                       /\ Convertible(profile.area) /\ Convertible(seen(i).area)
                       /\ Within(InSqMetres(profile.area), InSqMetres(seen(i).area), AreaTolerance)
             ELSE /\ seen(i) # NoParcel /\ seen(i).valid
                  /\ Convertible(profile.area) /\ profile.area.amount # 0 =>
                       Within(seen(i).sqm, InSqMetres(profile.area), GisTolerance)
           Clean == FoundClean => \A i \in assessment'.runs : Vouched(i)
<1>1. ASSUME AssessedAnew
      PROVE  Clean
  <2> SUFFICES ASSUME FoundClean, NEW i \in assessment'.runs
               PROVE  Vouched(i)
    OBVIOUS
  <2> HIDE DEF seen
  <2>1. \/ runs'[i].type = "DATABASE" /\ seen(i) # NoRecord /\ SameProperty(profile, seen(i))
        \/ /\ runs'[i].type = "GIS" /\ seen(i) # NoParcel /\ seen(i).valid
           /\ SameSize(profile, seen(i))
    BY <1>1, CleanRests DEF seen
  <2> QED BY <2>1 DEF SameProperty, SameSize
<1>2. IInv /\ [Next]_vars => [Clean]_vars
  BY <1>1, NextIInv
<1> QED BY <1>2, Invariance, PTL DEF Spec, CleanMeansClean

\* A profile without conflicts has what any of the documents says: for an area
\* the number, for the other fields the value.
LEMMA ProfileSpeaksForAll ==
  ASSUME ReadingsOK, NEW choice \in SurestSources(readings), Conflicts(readings) = {},
         NEW d \in Documents, NEW f \in Fields, HasValue(readings, d, f)
  PROVE  LET prof  == ProfileOf(readings, choice)
             value == readings[d][f].value
         IN  /\ f \in Identifiers \cup Locations => prof.text[f] = value
             /\ f \in OwnerFields => ToSet(value) \subseteq ToSet(prof.owners)
             /\ f = AreaField => prof.area # Absent /\ prof.area.amount = value.amount
<1> DEFINE best(x, otherwise) ==
             IF x \in DOMAIN choice THEN readings[choice[x]][x].value ELSE otherwise
           prof == ProfileOf(readings, choice)
           value == readings[d][f].value
           surest == readings[choice[f]][f].value
<1>1. /\ prof.text = [x \in Identifiers \cup Locations |-> best(x, Absent)]
      /\ prof.owners = OwnersOf(best("owner_name", << >>), best("co_owner_names", << >>))
      /\ prof.area = best("property_area", best("land_area", Absent))
  BY DEF ProfileOf
<1>2. f \in Known(readings) /\ DOMAIN choice = Known(readings)
      /\ choice[f] \in Documents /\ HasValue(readings, choice[f], f)
  BY ChosenSources DEF Known, Sources
<1>3. surest # Absent
  BY <1>2, ChosenSources, SourceRow
<1>4. NormalValue(f, value) = NormalValue(f, surest)
  BY <1>2, DisagreementConflicts
<1>5. \A x \in DOMAIN choice : Fits(x, readings[choice[x]][x].value)
                              /\ readings[choice[x]][x].value # Absent
  BY ChosenSources, SourceRow
<1> HIDE DEF prof, value
<1>6. CASE f \in Identifiers \cup Locations
  <2>1. f \notin AreaFields /\ f \notin OwnerFields /\ f # AreaField
    BY <1>6 DEF Identifiers, Locations, AreaFields, OwnerFields, AreaField
  <2>2. value = surest
    BY <1>4, <2>1 DEF NormalValue
  <2>3. prof.text[f] = value
    BY <1>1, <1>2, <1>6, <2>2
  <2> QED BY <2>1, <2>3 DEF prof, value
<1>7. CASE f \in OwnerFields
  <2>1. f \notin AreaFields /\ f \notin Identifiers \cup Locations /\ f # AreaField
    BY <1>7 DEF Identifiers, Locations, AreaFields, OwnerFields, AreaField
  <2>2. value = surest
    BY <1>4, <2>1 DEF NormalValue
  <2> DEFINE owners == best("owner_name", << >>)
             coOwners == best("co_owner_names", << >>)
  <2>3. owners \in Seq(Names) /\ coOwners \in Seq(Names)
    BY <1>5 DEF Fits, OwnerFields
  <2>4. value = owners \/ value = coOwners
    BY <1>2, <1>7, <2>2 DEF OwnerFields
  <2>5. prof.owners = OwnersOf(owners, coOwners)
    BY <1>1
  <2> HIDE DEF owners, coOwners
  <2>6. ToSet(value) \subseteq ToSet(prof.owners)
    BY <2>3, <2>4, <2>5, OwnersOfAll
  <2> QED BY <2>1, <2>6 DEF prof, value
<1>8. CASE f \in AreaFields
  <2>1. f \notin OwnerFields /\ f \notin Identifiers \cup Locations
    BY <1>8 DEF Identifiers, Locations, AreaFields, OwnerFields
  <2>2. value.amount = surest.amount
    BY <1>4, <1>8 DEF NormalValue
  <2>3. f = AreaField => prof.area = surest
    BY <1>1, <1>2, <1>8 DEF AreaField, AreaFields
  <2> QED BY <1>3, <2>1, <2>2, <2>3 DEF prof, value
<1> QED BY <1>6, <1>7, <1>8 DEF Fields

\* Names of at most four words: a clean assessment of an up-to-date profile
\* vouches for every document (PropertyProfileService.generate_profile,
\* RiskEngine.calculate_case_risk): with no conflict among its factors nothing a
\* document says was dropped for something else, but for the unit of an area and
\* a land area next to a property area.
THEOREM CleanAssessmentVouchesForAll ==
  ASSUME ShortNames PROVE Spec => EveryDocumentVouchedFor
<1> DEFINE Vouched ==
      FoundClean /\ UpToDate =>
        \A i \in assessment'.runs, d \in Documents, f \in Fields :
          runs'[i].type = "DATABASE" /\ HasValue(readings, d, f) =>
            BearsOut(runs'[i].seen, f, readings[d][f].value)
<1>1. ASSUME IInv, AssessedAnew
      PROVE  Vouched
  <2> SUFFICES ASSUME FoundClean, UpToDate,
                      NEW i \in assessment'.runs, NEW d \in Documents, NEW f \in Fields,
                      runs'[i].type = "DATABASE", HasValue(readings, d, f)
               PROVE  BearsOut(runs'[i].seen, f, readings[d][f].value)
    OBVIOUS
  <2> DEFINE record == runs'[i].seen
             value == readings[d][f].value
  <2>1. /\ IsProfile(profile) /\ profile.conflicts = {}
        /\ SameProperty(profile, record)
    BY <1>1, CleanRests
  <2>2. PICK choice \in SurestSources(readings) : profile = ProfileOf(readings, choice)
    BY DEF UpToDate
  <2>3. Conflicts(readings) = {}
    BY <2>1, <2>2 DEF ProfileOf
  <2>4. /\ f \in Identifiers \cup Locations => profile.text[f] = value
        /\ f \in OwnerFields => ToSet(value) \subseteq ToSet(profile.owners)
        /\ f = AreaField => profile.area # Absent /\ profile.area.amount = value.amount
    BY <1>1, <2>2, <2>3, ProfileSpeaksForAll DEF IInv
  <2> HIDE DEF record, value
  <2>5. f \in Identifiers \cup Locations => SameText(value, record.text[f])
    BY <2>1, <2>4 DEF SameProperty
  <2>6. ASSUME f \in OwnerFields, NEW name \in ToSet(value)
        PROVE  \E ref \in ToSet(record.owners) : SameWords(name, ref)
    <3>1. PICK j \in DOMAIN profile.owners : profile.owners[j] = name
      BY <2>4, <2>6 DEF ToSet
    <3>2. PICK pairing \in Bijection(DOMAIN profile.owners, DOMAIN record.owners) :
            \A k \in DOMAIN profile.owners : SameWords(profile.owners[k], record.owners[pairing[k]])
      BY <2>1 DEF SameProperty, OneToOne
    <3>3. pairing[j] \in DOMAIN record.owners
      BY <3>2 DEF Bijection, Injection
    <3> QED BY <3>1, <3>2, <3>3 DEF ToSet
  <2>7. ASSUME f = AreaField
        PROVE  /\ Convertible(profile.area) /\ Convertible(record.area)
               /\ Within(value.amount * SqMetres[profile.area.unit], InSqMetres(record.area),
                         AreaTolerance)
    BY <2>1, <2>4, <2>7 DEF SameProperty, InSqMetres
  <2> QED BY <2>5, <2>6, <2>7 DEF BearsOut, record, value
<1>2. IInv /\ [Next]_vars => [Vouched]_vars
  BY <1>1, NextIInv
<1> QED BY <1>2, Invariance, PTL DEF Spec, EveryDocumentVouchedFor
=============================================================================
