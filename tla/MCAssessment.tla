---------------------------- MODULE MCAssessment ----------------------------
(* A village of two records and a parcel, and three ways a document may be  *)
(* read, chosen so that names differ by an honorific, by word order and by  *)
(* an initial, that documents agree, contradict each other or say nothing,  *)
(* and that records are twins or ahead of one another.                      *)
EXTENDS Assessment

CONSTANTS k1, k2, d1, d2

Word(first, rest) == [first |-> first, rest |-> rest]
Shri  == Word("s", "hri")
Asha  == Word("a", "sha")
Roy   == Word("r", "oy")
Bina  == Word("b", "ina")
A     == Word("a", "")

AshaRoy == <<Asha, Roy>>
RoyAsha == <<Shri, Roy, Asha>>
ARoy    == <<A, Roy>>
BinaRoy == <<Bina, Roy>>

\* No action tells one document from another.
AnyDocument == Permutations(Documents)

MCNames      == {AshaRoy, RoyAsha, ARoy, BinaRoy}
MCHonorifics == {Shri}

ASSUME ShortNames

MCSqMetres   == [sqm |-> 1, acre |-> 4047]

Form(s)  == [form |-> s, blanks |-> FALSE]
Typed(s) == [form |-> s, blanks |-> TRUE]
Size(n, u) == [amount |-> n, unit |-> u]

Item(f, v, c) == [field |-> f, value |-> v, confidence |-> c, onPage |-> TRUE]

\* A deed of two pages, read by patterns.
MCOcrTexts ==
  {<< [owner_name |-> <<AshaRoy>>, co_owner_names |-> <<BinaRoy>>, survey_number |-> Form("7")],
      [survey_number |-> Form("9"), property_area |-> Size(1, "acre")] >>}

\* A mutation record, read by the model: a deed number, the same person as owner
\* and as co-owner, another area, found only on the second page, a survey number
\* read in two ways, one on a page that does not exist, and a place for which no
\* field is registered.
Mutation == << Item("property_area", Absent, 95), Item("property_area", Size(2, "acre"), 80),
               [field |-> "survey_number", value |-> Form("8"), confidence |-> 99, onPage |-> FALSE],
               Item("survey_number", Typed("7"), 70), Item("survey_number", Form("8"), 85),
               Item("deed_number", Form("e"), 70),
               Item("owner_name", <<RoyAsha>>, 95), Item("co_owner_names", <<AshaRoy>>, 80),
               Item("latitude", Form("22"), 99) >>

\* A receipt, less sure than the deed: the same survey number, the number of its
\* deed and the deed's area in another unit, and nothing about the owners.
Receipt == << Item("survey_number", Form("7"), 80), Item("deed_number", Form("e"), 60),
              Item("property_area", Size(1, "sqm"), 70) >>

MCReadings == {Mutation, Receipt}

Entry(survey, deed, owners, area) ==
  [text   |-> [f \in Identifiers \cup Locations |->
                 CASE f = "survey_number" -> survey [] f = "deed_number" -> deed [] OTHER -> Absent],
   owners |-> owners, area |-> area]

\* Entries with the same survey number: what the deed says, with its number, and
\* one with an owner's initial, another deed and a unit nobody converts.
Deeded  == Entry(Form("7"), Form("e"), <<BinaRoy, RoyAsha>>, Size(4050, "sqm"))
Twisted == Entry(Form("7"), Form("d"), <<ARoy, BinaRoy>>, Size(9, "bigha"))

\* A deed number puts Deeded ahead of Twisted by the margin; two Deeded, or a case
\* without a deed number, leave no choice.
MCRecordFiles == {(k2 :> Deeded), (k1 :> Deeded @@ k2 :> Twisted)}

Feature(id, survey, sqm, valid) == [id |-> id, survey |-> survey, sqm |-> sqm, valid |-> valid]

\* A parcel of the right size that is linked by its survey number, if at all, and
\* an invalid one of another size that names its record.
MCParcels == {Feature(NoKey, Form("7"), 4047, TRUE), Feature(k2, Absent, 5000, FALSE)}
=============================================================================
