------------------------------ MODULE RiskScore ------------------------------
(***************************************************************************)
(* From discrepancies to a score (services/risk).  A discrepancy is what   *)
(* the engine removes duplicates by: its type and the field it is about.   *)
(***************************************************************************)
EXTENDS Integers, FiniteSetsExt

\* RiskRules.DEFAULT_POINT_MAP, without the types no validator produces
\* (subdivision) or the schema excludes (a parcel without a geometry).
Points ==
  [PARCEL_NUMBER_MISMATCH        |-> 40, SURVEY_NUMBER_MISMATCH      |-> 30,
   REGISTRATION_NUMBER_MISMATCH  |-> 30, OWNER_MISMATCH              |-> 25,
   PLOT_NUMBER_MISMATCH          |-> 25, DEED_NUMBER_MISMATCH        |-> 25,
   AREA_MISMATCH                 |-> 15, REFERENCE_GIS_AREA_MISMATCH |-> 15,
   DOCUMENT_GIS_AREA_MISMATCH    |-> 15, PARCEL_NOT_FOUND            |-> 35,
   POINT_OUTSIDE_PARCEL          |-> 30, DISTRICT_LOCATION_MISMATCH  |-> 20,
   INVALID_PARCEL_GEOMETRY       |-> 20, VILLAGE_LOCATION_MISMATCH   |-> 10,
   DISTRICT_MISMATCH             |-> 15, VILLAGE_MISMATCH            |-> 5,
   MOUZA_MISMATCH                |-> 5,  WARD_MISMATCH               |-> 5,
   EXTRACTION_CONFLICT           |-> 15, MULTIPLE_REFERENCE_CANDIDATES |-> 10]

MismatchType == DOMAIN Points

RiskLevel == {"LOW", "MEDIUM", "HIGH", "CRITICAL"}

Level(score) == CASE score >= 80 -> "CRITICAL"
                  [] score \in 50..79 -> "HIGH"
                  [] score \in 20..49 -> "MEDIUM"
                  [] score < 20 -> "LOW"

\* Reasons that are not the name of a type: MismatchEngine.REASON_TO_TYPE_MAP.
TypeOfReason(reason) ==
  CASE reason = "AMBIGUOUS_MATCH" -> "MULTIPLE_REFERENCE_CANDIDATES"
    [] reason = "REFERENCE_RECORD_NOT_FOUND" -> "PARCEL_NOT_FOUND"
    [] OTHER -> reason

\* A reason the map does not have (the value is missing in the documents, the
\* unit is unknown) or no reason at all (a partial match): the field decides,
\* and a field without a type of its own counts as a survey number.
TypeOfField(field) ==
  CASE field = "plot_number"   -> "PLOT_NUMBER_MISMATCH"
    [] field = "parcel_number" -> "PARCEL_NUMBER_MISMATCH"
    [] field = "owner_name"    -> "OWNER_MISMATCH"
    [] field = "property_area" -> "AREA_MISMATCH"
    [] field = "district"      -> "DISTRICT_MISMATCH"
    [] field = "village"       -> "VILLAGE_MISMATCH"
    [] field = "reference_property" -> "PARCEL_NOT_FOUND"
    [] OTHER                   -> "SURVEY_NUMBER_MISMATCH"

Unmapped == {"NONE", "DOCUMENT_VALUE_NOT_FOUND", "UNSUPPORTED_UNIT"}

\* (Broken: only what differs counts, not what is missing.)
CountsIfMismatch(result) == result.status = "MISMATCH"

Counts(result) == result.status \notin {"MATCH", "NOT_CHECKED"}

\* MismatchEngine.generate_from_validation_results.
FromResults(results) ==
  {[type  |-> IF r.reason \in Unmapped THEN TypeOfField(r.field) ELSE TypeOfReason(r.reason),
    field |-> r.field] : r \in {q \in results : Counts(q)}}

\* MismatchEngine.generate_from_extraction_conflicts.
FromConflicts(fields) == {[type |-> "EXTRACTION_CONFLICT", field |-> f] : f \in fields}

RawScore(discrepancies) == MapThenSumSet(LAMBDA d : Points[d.type], discrepancies)

Score(discrepancies) == LET raw == RawScore(discrepancies) IN IF raw > 100 THEN 100 ELSE raw
=============================================================================
