----------------------------- MODULE Assessment -----------------------------
(***************************************************************************)
(* The evidence of one case: what its documents say, the registry it is    *)
(* compared with, the property profile, the validation runs and the risk   *)
(* assessment.  Every action is one request, one background task or one    *)
(* import by an administrator, and one transaction.  CaseLifecycle models  *)
(* what the workflow makes of it, and how such transactions overlap;       *)
(* this module models what they compute.                                   *)
(***************************************************************************)
EXTENDS ProfileFields

CONSTANTS Readings,     \* sequences of items a model may read in a document
          OcrTexts,     \* sequences of pages, each with what patterns find on it
          RecordFiles,  \* files of records an administrator may import
          Parcels,      \* parcels an administrator may import
          MaxRuns       \* bound on the validation runs of a profile

ASSUME ReadingsAssumption ==
  \A items \in Readings :
    /\ IsSequence(items)
    /\ \A i \in DOMAIN items : /\ items[i].confidence \in 0 .. 100
                              /\ Fits(items[i].field, items[i].value)

ASSUME OcrTextsAssumption ==
  \A pages \in OcrTexts :
    /\ IsSequence(pages)
    /\ \A i \in DOMAIN pages : \A f \in DOMAIN pages[i] : Fits(f, pages[i][f])

IsRecord(record) == record.owners \in Seq(Names) /\ Fits("property_area", record.area)

ASSUME RecordsAssumption ==
  /\ Absent \notin Records
  /\ \A file \in RecordFiles : \A k \in DOMAIN file : IsRecord(file[k])

ASSUME ParcelsAssumption ==
  \A parcel \in Parcels : parcel.sqm \in Nat /\ parcel.valid \in BOOLEAN

VARIABLES readings,     \* rows per document
          registry,     \* reference_properties
          parcels,      \* reference_parcels
          profile,      \* the property profile
          runs,         \* validation runs of the profile, oldest first
          assessment    \* the latest risk assessment of the profile

vars == <<readings, registry, parcels, profile, runs, assessment>>

NoAssessment == Absent

RunType   == {"DATABASE", "GIS"}
Conclusion == {"PASSED", "PASSED_WITH_LIMITATIONS", "FAILED"}

\* "seen" is the reference data the run's results quote.
Run(type, outcome, seen) ==
  [type |-> type, status |-> outcome.status, results |-> outcome.results,
   selected |-> outcome.selected, seen |-> seen]

Pending(type) == Run(type, Outcome("PENDING", {}, NoKey), NoRecord)

Init ==
  /\ readings = [d \in Documents |-> Unread]
  /\ registry = [k \in Records |-> NoRecord]
  /\ parcels = [p \in ParcelKeys |-> NoParcel]
  /\ profile = NoProfile
  /\ runs = << >>
  /\ assessment = NoAssessment

-----------------------------------------------------------------------------
(* Reference data                                                          *)

\* An upsert of all rows of the file; the parcels keep their links.
ImportRecords(file) ==
  /\ registry' = [k \in Records |-> IF k \in DOMAIN file THEN file[k] ELSE registry[k]]
  /\ UNCHANGED <<readings, parcels, profile, runs, assessment>>

\* The record whose id the feature gives or, without an id, the one with the
\* survey number it names.  An id of no record violates the foreign key and two
\* records make the query raise: the import fails.  Without any an old link stays.
NamedBy(parcel) ==
  {k \in Records :
     /\ registry[k] # NoRecord
     /\ \/ parcel.id = k
        \/ /\ parcel.id = NoKey /\ parcel.survey # Absent
           /\ registry[k].text["survey_number"] = parcel.survey}

ImportParcel(p, parcel) ==
  /\ Cardinality(NamedBy(parcel)) <= 1
  /\ parcel.id # NoKey => NamedBy(parcel) # {}
  /\ LET old == IF parcels[p] = NoParcel THEN NoKey ELSE parcels[p].of
         of  == IF NamedBy(parcel) = {} THEN old ELSE CHOOSE k \in NamedBy(parcel) : TRUE
     IN  parcels' = [parcels EXCEPT ![p] = [of |-> of, sqm |-> parcel.sqm, valid |-> parcel.valid]]
  /\ UNCHANGED <<readings, registry, profile, runs, assessment>>

-----------------------------------------------------------------------------
(* Documents and profile                                                   *)

\* The items of the model; an answer without items is no answer.
Extract(d, items) ==
  /\ items # << >>
  /\ readings' = [readings EXCEPT ![d] = Consolidated(items)]
  /\ UNCHANGED <<registry, parcels, profile, runs, assessment>>

\* The model failed, timed out or found nothing.
ExtractByRules(d, pages) ==
  /\ readings' = [readings EXCEPT ![d] = Consolidated(RuleItems(pages))]
  /\ UNCHANGED <<registry, parcels, profile, runs, assessment>>

\* A refresh deletes the old profile, and with it its runs and assessments.
GenerateProfile ==
  /\ Known(readings) # {}
  /\ \E choice \in SurestSources(readings) : profile' = ProfileOf(readings, choice)
  /\ runs' = << >>
  /\ assessment' = NoAssessment
  /\ UNCHANGED <<readings, registry, parcels>>

-----------------------------------------------------------------------------
(* Validation runs                                                         *)

Latest(type, list) ==
  LET of == {i \in DOMAIN list : list[i].type = type}
  IN  IF of = {} THEN 0 ELSE Max(of)

Settled(list, i) == i # 0 /\ list[i].status \in Conclusion

ScheduleRun(type) ==
  /\ profile # NoProfile
  /\ Len(runs) < MaxRuns
  /\ runs' = Append(runs, Pending(type))
  /\ UNCHANGED <<readings, registry, parcels, profile, assessment>>

Lookup(key) == IF key = NoKey THEN NoRecord ELSE registry[key]

Ended(outcome) == Run("DATABASE", outcome, Lookup(outcome.selected))

DatabaseRun == Ended(DatabaseOutcome(profile, registry))

\* The record a GIS run compares with: one that any database run of the profile
\* has selected, in no order.
SelectedRecords ==
  LET keys == {runs[i].selected : i \in DOMAIN runs} \ {NoKey}
  IN  IF keys = {} THEN {NoKey} ELSE keys

\* One run per parcel that is found; two parcels make the query raise.
GisRuns(key) ==
  LET found == ParcelsFor(profile, key, registry, parcels)
  IN  IF found = {} THEN {Run("GIS", GisOutcome(profile, Lookup(key), NoParcel), NoParcel)}
      ELSE {Run("GIS", GisOutcome(profile, Lookup(key), parcels[p]), parcels[p]) :
              p \in {q \in found : found = {q}}}

ExecuteDatabaseRun(i) ==
  /\ runs[i] = Pending("DATABASE")
  /\ runs' = [runs EXCEPT ![i] = DatabaseRun]
  /\ UNCHANGED <<readings, registry, parcels, profile, assessment>>

ExecuteGisRun(i) ==
  /\ runs[i] = Pending("GIS")
  /\ \E key \in SelectedRecords : \E run \in GisRuns(key) : runs' = [runs EXCEPT ![i] = run]
  /\ UNCHANGED <<readings, registry, parcels, profile, assessment>>

-----------------------------------------------------------------------------
(* Risk                                                                    *)

Discrepancies(list) ==
  LET of(type) == LET i == Latest(type, list) IN IF i = 0 THEN {} ELSE FromResults(list[i].results)
  IN  of("DATABASE") \cup of("GIS") \cup FromConflicts(profile.conflicts)

\* RiskEngine.calculate_case_risk: the latest run of each type counts, whether
\* or not it was executed.
Assessed(list) ==
  [factors |-> Discrepancies(list), score |-> Score(Discrepancies(list)),
   level |-> Level(Score(Discrepancies(list))),
   runs |-> {Latest("DATABASE", list), Latest("GIS", list)} \ {0}]

CalculateRisk ==
  /\ profile # NoProfile
  /\ assessment' = Assessed(runs)
  /\ UNCHANGED <<readings, registry, parcels, profile, runs>>

\* The list with the latest run of a type replaced by this one, or added.
Place(list, run) ==
  LET i == Latest(run.type, list)
  IN  IF i = 0 THEN Append(list, run) ELSE [list EXCEPT ![i] = run]

\* A validator is called only if the latest run of its type is not settled; what
\* it may find then takes the place of that run.
Completed(list, type, found) ==
  IF Settled(list, Latest(type, list)) THEN {list} ELSE {Place(list, run) : run \in found}

\* The automated pipeline executes what the latest runs leave open and assesses,
\* all in one transaction.  It reads the profile without its owners, so it
\* raises once there is a candidate to score, and it looks the parcel up without
\* a record.
Pipeline ==
  /\ profile # NoProfile
  /\ Settled(runs, Latest("DATABASE", runs)) \/ Candidates(profile, registry) = {}
  /\ \E looked \in Completed(runs, "DATABASE", {DatabaseRun}) :
       \E located \in Completed(looked, "GIS", GisRuns(NoKey)) :
         /\ Len(located) <= MaxRuns
         /\ runs' = located
         /\ assessment' = Assessed(located)
  /\ UNCHANGED <<readings, registry, parcels, profile>>

Next ==
  \/ \E file \in RecordFiles : ImportRecords(file)
  \/ \E p \in ParcelKeys, parcel \in Parcels : ImportParcel(p, parcel)
  \/ \E d \in Documents, items \in Readings : Extract(d, items)
  \/ \E d \in Documents, pages \in OcrTexts : ExtractByRules(d, pages)
  \/ GenerateProfile
  \/ \E type \in RunType : ScheduleRun(type)
  \/ \E i \in DOMAIN runs : ExecuteDatabaseRun(i) \/ ExecuteGisRun(i)
  \/ CalculateRisk
  \/ Pipeline

Spec == Init /\ [][Next]_vars

-----------------------------------------------------------------------------
(* What the computations promise                                           *)

RunStates == Conclusion \cup {"PENDING"}

\* Types: of the rows, the runs with at most one result per field, and an
\* assessment whose score is within 0..100, whose level is a risk level and
\* whose factors are of types that have points.
TypeOK ==
  /\ \A d \in Documents :
       readings[d] # Unread =>
         \A f \in Fields : readings[d][f] # NoRow =>
           /\ readings[d][f].status \in {"EXTRACTED", "UNCERTAIN", "NOT_FOUND"}
           /\ (readings[d][f].status = "NOT_FOUND") = (readings[d][f].value = Absent)
  /\ \A k \in ParcelKeys : parcels[k] # NoParcel => parcels[k].of \in Records \cup {NoKey}
  /\ profile = NoProfile => runs = << >> /\ assessment = NoAssessment
  /\ \A i \in DOMAIN runs :
       /\ runs[i].type \in RunType /\ runs[i].status \in RunStates
       /\ runs[i].selected \in Records \cup {NoKey}
       /\ \A q, r \in runs[i].results : q.status \in MatchStatus /\ (q.field = r.field => q = r)
  /\ assessment # NoAssessment =>
       /\ assessment.score \in 0 .. 100 /\ assessment.level \in RiskLevel
       /\ \A d \in assessment.factors : d.type \in MismatchType
       /\ assessment.runs \subseteq DOMAIN runs

Concludes(i) ==
  /\ i \in DOMAIN runs'
  /\ runs'[i].status \in Conclusion
  /\ i \in DOMAIN runs => runs[i] # runs'[i]

\* The owners of the documents match those of the record if and only if they
\* are the same people: the greedy pairing of name_matcher.py neither pairs an
\* owner twice nor misses a pairing, in whatever order the names are listed.
\* (A record that repeats a name is excepted: the name is paired once.)
OwnersAgree ==
  [][\A i \in DOMAIN runs' :
       Concludes(i) /\ runs'[i].selected # NoKey =>
         LET docs == profile.owners
             refs == registry[runs'[i].selected].owners
         IN  docs # << >> /\ Repeatless(refs) =>
               ((Result("owner_name", "MATCH", "NONE") \in runs'[i].results)
                  <=> OneToOne(docs, refs))]_vars

\* A record that equals another one wherever that one agrees with the profile,
\* and whose owners are at least as similar.
Twin(k, j) ==
  /\ registry[j] # NoRecord /\ j # k
  /\ \A f \in Identifiers \cup Locations :
       Agrees(profile, registry[k], f) => registry[j].text[f] = registry[k].text[f]
  /\ OwnerScore(profile, registry[j]) >= OwnerScore(profile, registry[k])

\* The record the validator compares a case with is never one of several that
\* fit equally well: four searches, the scores and the margin of
\* database_validator.py together rule out a twin anywhere in the registry.
ChosenRecordHasNoTwin ==
  [][\A i \in DOMAIN runs' :
       Concludes(i) /\ runs'[i].selected # NoKey =>
         \A j \in Records : ~Twin(runs'[i].selected, j)]_vars

SameText(a, b) == a = b \/ (a # Absent /\ b # Absent /\ SameIdentifier(a, b))

\* An assessment is made that rests on two executed runs and finds nothing.
FoundClean ==
  /\ assessment' # assessment /\ assessment' # NoAssessment
  /\ assessment'.factors = {}
  /\ Cardinality(assessment'.runs) = 2
  /\ \A i \in assessment'.runs : Settled(runs', i)

\* An assessment that rests on two executed runs and finds no discrepancy means
\* what it says: the record carries every identifier and location of the
\* profile and no other, the same owners and the same area, and the parcel
\* exists, is valid and has the size the profile states.
CleanMeansClean ==
  [][FoundClean =>
       \A i \in assessment'.runs :
          LET seen == runs'[i].seen
          IN  IF runs'[i].type = "DATABASE"
              THEN /\ seen # NoRecord
                   /\ \A f \in Identifiers \cup Locations : SameText(profile.text[f], seen.text[f])
                   /\ OneToOne(profile.owners, seen.owners)
                   /\ profile.area # Absent \/ seen.area # Absent =>
                        /\ Convertible(profile.area) /\ Convertible(seen.area)
                        /\ Within(InSqMetres(profile.area), InSqMetres(seen.area), AreaTolerance)
              ELSE /\ seen # NoParcel /\ seen.valid
                   /\ Convertible(profile.area) /\ profile.area.amount # 0 =>
                        Within(seen.sqm, InSqMetres(profile.area), GisTolerance)]_vars

\* The profile is one that would be generated from what the documents say now.
UpToDate == \E choice \in SurestSources(readings) : profile = ProfileOf(readings, choice)

\* The one field a profile's area is taken from.
AreaField == IF "property_area" \in Known(readings) THEN "property_area" ELSE "land_area"

\* The record says of the field what this value does.  Of a size only the number
\* is compared, in the unit of the profile; a land area is not compared at all
\* if some document states a property area.
BearsOut(record, f, value) ==
  /\ f \in Identifiers \cup Locations => SameText(value, record.text[f])
  /\ f \in OwnerFields =>
       \A name \in ToSet(value) : \E ref \in ToSet(record.owners) : SameWords(name, ref)
  /\ f = AreaField =>
       /\ Convertible(profile.area) /\ Convertible(record.area)
       /\ Within(value.amount * SqMetres[profile.area.unit], InSqMetres(record.area), AreaTolerance)

\* A clean assessment of an up-to-date profile vouches for every document of the
\* case, not only for the surest ones the profile is made of: the record the case
\* was compared with bears out each value any of them gives.  generate_profile
\* drops the less sure values, so this rests on the conflicts it records, on the
\* risk engine's adding them, and on the validator's comparing every field.
EveryDocumentVouchedFor ==
  [][FoundClean /\ UpToDate =>
       \A i \in assessment'.runs, d \in Documents, f \in Fields :
         runs'[i].type = "DATABASE" /\ HasValue(readings, d, f) =>
           BearsOut(runs'[i].seen, f, readings[d][f].value)]_vars

-----------------------------------------------------------------------------
(* What a test says and the code does not do                               *)

\* Two values of a field say the same thing: texts but for their blanks, sizes
\* also in different units.
SaysTheSame(f, a, b) ==
  \/ a = b
  \/ f \in Identifiers \cup Locations /\ SameText(a, b)
  \/ f \in AreaFields /\ Convertible(a) /\ Convertible(b) /\ InSqMetres(a) = InSqMetres(b)

\* test_conflicts.py: "differing extracted values create explicit conflict
\* records instead of silently selecting one".
DisagreementIsNeverSilent ==
  [][profile' # profile =>
       \A f \in Fields, c, d \in Documents :
         HasValue(readings, c, f) /\ HasValue(readings, d, f)
           /\ ~SaysTheSame(f, readings[c][f].value, readings[d][f].value)
         => f \in profile'.conflicts]_vars
=============================================================================
