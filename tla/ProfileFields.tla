---------------------------- MODULE ProfileFields ----------------------------
(***************************************************************************)
(* From what a model reads in a document to the property profile of a case *)
(* (extraction_service.py, property_profile_service.py).  One row per field*)
(* and document; the profile takes each field from the row of the highest  *)
(* confidence.  Evidence, dates, the address and fields nothing reads are  *)
(* left out.                                                               *)
(***************************************************************************)
EXTENDS ValidationRules

CONSTANT Documents

ASSUME DocumentsAssumption == IsFiniteSet(Documents)

OwnerFields == {"owner_name", "co_owner_names"}
AreaFields  == {"property_area", "land_area"}

\* What FieldRegistry registers, as far as a profile uses it.
Fields == Identifiers \cup Locations \cup AreaFields \cup OwnerFields

\* A field of owners holds names, one of a size a number, any other some text.
Fits(field, value) ==
  value # Absent => /\ field \in OwnerFields => value \in Seq(Names)
                    /\ field \in AreaFields => value.amount \in Nat

NoRow == Absent

Row(value, confidence, status) == [value |-> value, confidence |-> confidence, status |-> status]

\* An item is UNCERTAIN below EXTRACTION_UNCERTAIN_THRESHOLD.
UncertainBelow == 70

RowOf(item) ==
  IF item.value = Absent THEN Row(Absent, 0, "NOT_FOUND")
  ELSE Row(item.value, item.confidence,
           IF item.confidence < UncertainBelow THEN "UNCERTAIN" ELSE "EXTRACTED")

\* (Broken: a value found on a later page only lifts the confidence of NOT_FOUND.)
MergedAnyway(row, new) ==
  IF row = NoRow THEN new
  ELSE IF new.value # Absent /\ new.confidence > row.confidence
    THEN Row(row.value, new.confidence, new.status)
  ELSE row

\* A second item of the same field: a value replaces NOT_FOUND; of two values
\* the first stays, with the confidence and status of the better one.
Merged(row, new) ==
  IF row = NoRow THEN new
  ELSE IF row.status = "NOT_FOUND" /\ new.value # Absent THEN new
  ELSE IF new.value # Absent /\ new.confidence > row.confidence
    THEN Row(row.value, new.confidence, new.status)
  ELSE row

NothingRead == [f \in Fields |-> NoRow]

\* Items of an unregistered field or of a page the document does not have are
\* skipped; the others become the document's rows in place of the old ones.
Consolidated(items) ==
  FoldLeft(LAMBDA rows, item : IF item.field \in Fields /\ item.onPage
                               THEN [rows EXCEPT ![item.field] = Merged(@, RowOf(item))]
                               ELSE rows,
           NothingRead, items)

\* extract_rule_based_candidates: patterns find at most one value per field and
\* page, in this order and as sure as this.  A plot number counts as a survey
\* number.
RuleFields == <<"owner_name", "co_owner_names", "district", "survey_number", "property_area">>
RuleConfidence == [owner_name |-> 92, co_owner_names |-> 88, district |-> 85,
                   survey_number |-> 90, property_area |-> 88]

FoundOn(page) ==
  FoldLeft(LAMBDA items, f :
             IF f \in DOMAIN page
             THEN Append(items, [field |-> f, value |-> page[f],
                                 confidence |-> RuleConfidence[f], onPage |-> TRUE])
             ELSE items,
           << >>, RuleFields)

RuleItems(pages) == FoldLeft(LAMBDA items, page : items \o FoundOn(page), << >>, pages)

-----------------------------------------------------------------------------
(* The profile, of the rows of all processed documents.                    *)

Unread == Absent        \* a document that is not processed

HasValue(readings, d, f) ==
  readings[d] # Unread /\ readings[d][f] # NoRow /\ readings[d][f].status # "NOT_FOUND"

Sources(readings, f) == {d \in Documents : HasValue(readings, d, f)}

Known(readings) == {f \in Fields : Sources(readings, f) # {}}

Surest(readings, f) ==
  {d \in Sources(readings, f) : \A c \in Sources(readings, f) :
                                  readings[c][f].confidence <= readings[d][f].confidence}

\* The document each field is taken from; the query has no order to decide ties,
\* which matters where the values differ.
SurestSources(readings) ==
  LET values(f) == {readings[d][f].value : d \in Surest(readings, f)}
      tied   == {f \in Known(readings) : Cardinality(values(f)) > 1}
      any(f) == CHOOSE d \in Surest(readings, f) : TRUE
  IN  {[f \in Known(readings) |-> IF f \in tied THEN pick[f] ELSE any(f)] :
         pick \in {p \in [tied -> Documents] : \A f \in tied : p[f] \in Surest(readings, f)}}

\* normalize_field_value: of an area only the number is kept.
NormalValue(f, value) == IF f \in AreaFields THEN value.amount ELSE value

\* (Broken: a value is only compared with one that is equally sure.)
ConflictsOfEquals(readings) ==
  {f \in Fields : \E c, d \in Sources(readings, f) :
     /\ NormalValue(f, readings[c][f].value) # NormalValue(f, readings[d][f].value)
     /\ readings[c][f].confidence = readings[d][f].confidence}

\* Two documents give different values.  (The two values a conflict quotes are
\* those of the two best rows, which may agree while a third differs.)
Conflicts(readings) ==
  {f \in Fields :
     Cardinality({NormalValue(f, readings[d][f].value) : d \in Sources(readings, f)}) > 1}

\* parse_owners: the owners in order, then each co-owner not named already.
OwnersOf(owners, coOwners) ==
  FoldLeft(LAMBDA list, name : IF Contains(list, name) THEN list ELSE Append(list, name),
           owners, coOwners)

NoProfile == Absent

ProfileOf(readings, choice) ==
  LET best(f, otherwise) ==
        IF f \in DOMAIN choice THEN readings[choice[f]][f].value ELSE otherwise
  IN  [text      |-> [f \in Identifiers \cup Locations |-> best(f, Absent)],
       owners    |-> OwnersOf(best("owner_name", << >>), best("co_owner_names", << >>)),
       area      |-> best("property_area", best("land_area", Absent)),
       conflicts |-> Conflicts(readings)]
=============================================================================
