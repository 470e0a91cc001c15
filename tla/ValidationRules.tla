--------------------------- MODULE ValidationRules ---------------------------
(***************************************************************************)
(* What a validation run computes (services/validation): the database      *)
(* validator looks for the record of the registry the documents speak      *)
(* about and compares it field by field; the GIS validator looks for the   *)
(* parcel and compares its size.                                           *)
(*                                                                         *)
(* A profile and a record of the registry carry their identifiers and      *)
(* locations in "text", their owners in "owners", their size in "area".    *)
(*                                                                         *)
(* The registry of extractable fields has neither latitude nor longitude,  *)
(* so no profile has a point: whether it lies in the parcel is never       *)
(* checked and the administrative boundaries around it are never looked    *)
(* up.  A parcel's geometry is NOT NULL.                                   *)
(***************************************************************************)
EXTENDS Matching, RiskScore

CONSTANTS Records,      \* keys of the registry: source and source record
          ParcelKeys    \* keys of the parcels

Identifiers == {"survey_number", "plot_number", "parcel_number",
                "registration_number", "deed_number"}
Locations == {"district", "village", "mouza", "ward"}

NoRecord == Absent
NoParcel == Absent
NoKey    == Absent

Result(field, status, reason) == [field |-> field, status |-> status, reason |-> reason]

-----------------------------------------------------------------------------
(* The comparison of a field, which is skipped if neither side has it.     *)

MismatchReason ==
  [survey_number |-> "SURVEY_NUMBER_MISMATCH", plot_number |-> "PLOT_NUMBER_MISMATCH",
   parcel_number |-> "PARCEL_NUMBER_MISMATCH", deed_number |-> "DEED_NUMBER_MISMATCH",
   registration_number |-> "REGISTRATION_NUMBER_MISMATCH",
   district |-> "DISTRICT_MISMATCH", village |-> "VILLAGE_MISMATCH",
   mouza |-> "MOUZA_MISMATCH", ward |-> "WARD_MISMATCH"]

OneSided(field, doc) ==
  Result(field, "NOT_FOUND",
         IF doc = Absent THEN "DOCUMENT_VALUE_NOT_FOUND" ELSE "REFERENCE_RECORD_NOT_FOUND")

\* IdentifierRule and AdministrativeLocationRule.
TextResult(field, doc, ref) ==
  IF doc = Absent \/ ref = Absent THEN OneSided(field, doc)
  ELSE IF SameIdentifier(doc, ref) THEN Result(field, "MATCH", "NONE")
  ELSE Result(field, "MISMATCH", MismatchReason[field])

TextResults(profile, record) ==
  {TextResult(f, profile.text[f], record.text[f]) :
     f \in {g \in Identifiers \cup Locations :
              profile.text[g] # Absent \/ record.text[g] # Absent}}

OwnerReason(verdict, docs) ==
  CASE verdict = "MISMATCH" -> "OWNER_MISMATCH"
    [] verdict = "NOT_FOUND" /\ docs = << >> -> "DOCUMENT_VALUE_NOT_FOUND"
    [] verdict = "NOT_FOUND" /\ docs # << >> -> "REFERENCE_RECORD_NOT_FOUND"
    [] OTHER -> "NONE"

OwnerResultOf(verdict, docs) == Result("owner_name", verdict, OwnerReason(verdict, docs))

\* NameRule: a result even if neither side names an owner.
OwnerResult(profile, record) ==
  OwnerResultOf(MatchOwnerSets(profile.owners, record.owners).status, profile.owners)

\* AreaRule, with AREA_MATCH_TOLERANCE_PERCENT.
AreaTolerance == 1

AreaResult(doc, ref) ==
  IF doc = Absent \/ ref = Absent THEN OneSided("property_area", doc)
  ELSE IF ~(Convertible(doc) /\ Convertible(ref))
    THEN Result("property_area", "MISMATCH", "UNSUPPORTED_UNIT")
  ELSE IF Within(InSqMetres(doc), InSqMetres(ref), AreaTolerance)
    THEN Result("property_area", "MATCH", "NONE")
  ELSE Result("property_area", "MISMATCH", "AREA_MISMATCH")

AreaResults(doc, ref) == IF doc = Absent /\ ref = Absent THEN {} ELSE {AreaResult(doc, ref)}

-----------------------------------------------------------------------------
(* The candidate records and the one that is selected.                     *)

SearchedBy(profile, record, field) ==
  /\ profile.text[field] # Absent
  /\ TypedLike(record.text[field], profile.text[field].form, FALSE)

\* The four searches; a plot number narrows the search by survey number.
IsCandidate(profile, record) ==
  \/ \E f \in {"parcel_number", "registration_number", "deed_number"} :
       SearchedBy(profile, record, f)
  \/ /\ SearchedBy(profile, record, "survey_number")
     /\ profile.text["plot_number"] = Absent \/ SearchedBy(profile, record, "plot_number")

Candidates(profile, registry) ==
  {k \in Records : registry[k] # NoRecord /\ IsCandidate(profile, registry[k])}

Weight == [parcel_number |-> 100, survey_number |-> 80, registration_number |-> 70,
           plot_number |-> 60, deed_number |-> 50, district |-> 20, village |-> 20]

Agrees(profile, record, f) ==
  /\ profile.text[f] # Absent /\ record.text[f] # Absent
  /\ SameIdentifier(profile.text[f], record.text[f])

OwnerScore(profile, record) ==
  IF profile.owners = << >> \/ record.owners = << >> THEN 0
  ELSE MatchOwnerSets(profile.owners, record.owners).score

CandidateScore(profile, record) ==
  100 * MapThenSumSet(LAMBDA f : Weight[f], {f \in DOMAIN Weight : Agrees(profile, record, f)})
    + 40 * OwnerScore(profile, record)

\* (Broken: the best candidate is selected whatever the others score.)
SelectedOf(candidates, score) ==
  {k \in candidates : score[k] >= 5000 /\ \A j \in candidates : score[k] >= score[j]}

\* The only candidate needs 50 points; of several the best needs 80 and 30 more
\* than the next.  At most one is selected.
Selected(candidates, score) ==
  {k \in candidates : /\ score[k] >= (IF candidates = {k} THEN 5000 ELSE 8000)
                      /\ \A j \in candidates \ {k} : score[k] - score[j] >= 3000}

Outcome(status, results, selected) ==
  [status |-> status, results |-> results, selected |-> selected]

Decisive == {"survey_number", "parcel_number", "registration_number"}

Passes(results) ==
  /\ \A r \in results : r.status # "MISMATCH"
  /\ \E r \in results : r.status = "MATCH" /\ r.field \in Decisive

OutcomeOf(results, key) == Outcome(IF Passes(results) THEN "PASSED" ELSE "FAILED", results, key)

Compared(profile, record, key) ==
  OutcomeOf(TextResults(profile, record) \cup {OwnerResult(profile, record)}
              \cup AreaResults(profile.area, record.area), key)

SelectionOutcome(profile, registry, selected) ==
  IF selected = {}
  THEN Outcome("FAILED", {Result("candidate_selection", "MISMATCH", "AMBIGUOUS_MATCH")}, NoKey)
  ELSE LET k == CHOOSE k \in selected : TRUE IN Compared(profile, registry[k], k)

OutcomeAmong(profile, registry, candidates) ==
  IF candidates = {}
  THEN Outcome("FAILED", {Result("reference_property", "NOT_FOUND",
                                 "REFERENCE_RECORD_NOT_FOUND")}, NoKey)
  ELSE SelectionOutcome(profile, registry,
         Selected(candidates, [k \in candidates |-> CandidateScore(profile, registry[k])]))

\* DatabaseValidator.validate_run.
DatabaseOutcome(profile, registry) ==
  OutcomeAmong(profile, registry, Candidates(profile, registry))

-----------------------------------------------------------------------------
(* The parcel.                                                             *)

SameTyped(profile, record, field) ==
  TypedLike(record.text[field], profile.text[field].form, profile.text[field].blanks)

\* ParcelProvider.get_parcel_by_identifiers: the first identifier present decides.
ParcelsByIdentifiers(profile, registry, parcels) ==
  LET has(f) == profile.text[f] # Absent
      fits(record) ==
        \/ has("parcel_number") /\ SameTyped(profile, record, "parcel_number")
        \/ /\ ~has("parcel_number") /\ has("survey_number")
           /\ SameTyped(profile, record, "survey_number")
           /\ has("plot_number") => SameTyped(profile, record, "plot_number")
  IN  {p \in ParcelKeys : /\ parcels[p] # NoParcel /\ parcels[p].of # NoKey
                          /\ fits(registry[parcels[p].of])}

\* GISValidator.find_parcel.  The query raises if it finds more than one.
ParcelsFor(profile, key, registry, parcels) ==
  LET linked == {p \in ParcelKeys : key # NoKey /\ parcels[p] # NoParcel /\ parcels[p].of = key}
  IN  IF linked # {} THEN linked ELSE ParcelsByIdentifiers(profile, registry, parcels)

\* AreaConsistencyRule, with GIS_AREA_TOLERANCE_PERCENT: the parcel's size against
\* the record's and the documents' area, where they are known and not zero.
GisTolerance == 2

SizeResults(field, reason, area, sqm) ==
  IF ~Convertible(area) \/ InSqMetres(area) = 0 THEN {}
  ELSE IF Within(sqm, InSqMetres(area), GisTolerance) THEN {Result(field, "MATCH", "NONE")}
  ELSE {Result(field, "MISMATCH", reason)}

PointResult == Result("point_inside_parcel", "NOT_CHECKED", "LOCATION_POINT_NOT_AVAILABLE")

ParcelCompared(profile, record, parcel) ==
  LET results ==
        {Result("parcel_existence", "MATCH", "NONE"), Result("parcel_geometry", "MATCH", "NONE"),
         PointResult}
          \cup SizeResults("document_gis_area", "DOCUMENT_GIS_AREA_MISMATCH", profile.area, parcel.sqm)
          \cup (IF record = NoRecord THEN {}
                ELSE SizeResults("reference_gis_area", "REFERENCE_GIS_AREA_MISMATCH",
                                 record.area, parcel.sqm))
  IN  Outcome(IF \E r \in results : r.status = "MISMATCH" THEN "FAILED"
              ELSE "PASSED_WITH_LIMITATIONS", results, NoKey)

\* GISValidator.validate_run, after the parcel was looked up.
GisOutcome(profile, record, parcel) ==
  IF parcel = NoParcel
    THEN Outcome("FAILED", {Result("parcel_existence", "NOT_FOUND", "PARCEL_NOT_FOUND")}, NoKey)
  ELSE IF ~parcel.valid
    THEN Outcome("FAILED", {Result("parcel_existence", "MATCH", "NONE"),
                            Result("parcel_geometry", "MISMATCH", "INVALID_PARCEL_GEOMETRY")}, NoKey)
  ELSE ParcelCompared(profile, record, parcel)
=============================================================================
