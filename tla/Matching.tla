------------------------------ MODULE Matching ------------------------------
(***************************************************************************)
(* How the validators compare a value of the documents with a value of the *)
(* reference data: the names of owners (matching/name_matcher.py), areas   *)
(* (normalization/area.py) and identifiers (normalization/identifier.py).  *)
(*                                                                         *)
(* Text is abstracted to what a comparison can tell apart.  A token of a   *)
(* name is a first letter and a rest, the rest being "" for an initial; a  *)
(* name is a sequence of tokens.  An identifier is its normal form and     *)
(* whether it was typed with blanks the normal form does not have ("12 /   *)
(* 3" for "12/3").  Scores are counted in hundredths; a half is rounded    *)
(* up, where Python's floats may go either way.                            *)
(***************************************************************************)
EXTENDS Integers, SequencesExt

CONSTANTS Absent,       \* NULL, an empty text, a row that does not exist
          Names,        \* names of people
          Honorifics,   \* tokens such as "shri" that normalization drops
          SqMetres      \* square metres per unit, for every supported unit

IsSequence(s) == Len(s) \in Nat /\ s = [i \in 1 .. Len(s) |-> s[i]]

ASSUME NamesAssumption == \A name \in Names : IsSequence(name)

ASSUME UnitsAssumption == \A unit \in DOMAIN SqMetres : SqMetres[unit] \in Nat \ {0}

MatchStatus == {"MATCH", "PARTIAL_MATCH", "MISMATCH", "NOT_FOUND", "NOT_CHECKED"}

Rounded(n, d) == (2 * n + d) \div (2 * d)

-----------------------------------------------------------------------------
(* Names *)

\* NameNormalizer: honorifics go, unless the name consists of nothing else.
NormalName(name) ==
  LET kept == FoldLeft(LAMBDA rest, t : IF t \in Honorifics THEN rest ELSE Append(rest, t),
                       << >>, name)
  IN  IF kept = << >> THEN name ELSE kept

IsInitialOf(t, u) == t.rest = "" /\ t.first = u.first

Agreeing(a, b)    == {i \in DOMAIN a : a[i] = b[i]}
Abbreviated(a, b) == {i \in DOMAIN a : /\ a[i] # b[i]
                                       /\ IsInitialOf(a[i], b[i]) \/ IsInitialOf(b[i], a[i])}

\* Same number of tokens, each pair equal or one the initial of the other.
InitialsFit(a, b) ==
  /\ Len(a) = Len(b) /\ Len(a) >= 2
  /\ Agreeing(a, b) \cup Abbreviated(a, b) = DOMAIN a

Verdict(status, score) == [status |-> status, score |-> score]

\* Of two names after normalization.
MatchNormal(a, b) ==
  LET common == Cardinality(ToSet(a) \cap ToSet(b))
      all    == Cardinality(ToSet(a) \cup ToSet(b))
  IN  IF a = b THEN Verdict("MATCH", 100)
      ELSE IF ToSet(a) = ToSet(b) THEN Verdict("MATCH", 98)
      ELSE IF InitialsFit(a, b)
        THEN Verdict("PARTIAL_MATCH", Rounded(100 * Cardinality(Agreeing(a, b))
                                               + 75 * Cardinality(Abbreviated(a, b)), Len(a)))
      ELSE IF common >= 2 /\ 10 * common >= 6 * all
        THEN Verdict("PARTIAL_MATCH", Rounded(100 * common, all))
      ELSE Verdict("MISMATCH", 0)

MatchNames(doc, ref) == MatchNormal(NormalName(doc), NormalName(ref))

Acceptable(doc, ref) == MatchNames(doc, ref).status \in {"MATCH", "PARTIAL_MATCH"}

-----------------------------------------------------------------------------
(* Sets of owners *)

\* The references a document's owner may still be paired with, in their order:
\* those not taken yet (by name: a name that occurs twice is taken at once)
\* with the best score.
BestFor(doc, refs, taken) ==
  {i \in DOMAIN refs :
     /\ refs[i] \notin taken
     /\ Acceptable(doc, refs[i])
     /\ \A j \in DOMAIN refs :
          refs[j] \notin taken /\ Acceptable(doc, refs[j]) =>
            MatchNames(doc, refs[j]).score <= MatchNames(doc, refs[i]).score}

Take(acc, doc, ref) ==
  [taken  |-> acc.taken \cup {ref},
   scores |-> Append(acc.scores, MatchNames(doc, ref).score)]

FirstTaken(acc, doc, refs, best) ==
  IF best = {} THEN acc ELSE Take(acc, doc, refs[Min(best)])

\* (Broken: a reference that has been paired stays available.)
PairedAgain(acc, doc, refs) ==
  FirstTaken(acc, doc, refs, BestFor(doc, refs, {}))

\* One owner of the document after the other takes the best of what is left.
Paired(acc, doc, refs) ==
  FirstTaken(acc, doc, refs, BestFor(doc, refs, acc.taken))

\* The verdict on two lists of which the pairs have these scores.
OwnersVerdict(docs, refs, pairs) ==
  LET owners == IF Len(docs) > Len(refs) THEN Len(docs) ELSE Len(refs)
      score  == Rounded(FoldLeft(LAMBDA x, y : x + y, 0, pairs), owners)
      same   == Len(pairs) = Len(docs) /\ Len(docs) = Len(refs)
  IN  IF docs = << >> /\ refs = << >> THEN Verdict("NOT_CHECKED", 0)
      ELSE IF docs = << >> \/ refs = << >> THEN Verdict("NOT_FOUND", 0)
      ELSE IF same /\ \A i \in DOMAIN pairs : pairs[i] >= 95 THEN Verdict("MATCH", score)
      ELSE Verdict(IF pairs # << >> THEN "PARTIAL_MATCH" ELSE "MISMATCH", score)

MatchOwnerSets(docs, refs) ==
  OwnersVerdict(docs, refs,
                FoldLeft(LAMBDA acc, d : Paired(acc, d, refs),
                         [taken |-> {}, scores |-> << >>], docs).scores)

\* Names are compared word by word: from five words on, one initial among them
\* still scores 95 and passes for the same name.
ShortNames == \A name \in Names : Len(NormalName(name)) <= 4

Repeatless(list) == \A i, j \in DOMAIN list : list[i] = list[j] => i = j

\* The same name, apart from honorifics and the order of its words.
SameWords(doc, ref) == ToSet(NormalName(doc)) = ToSet(NormalName(ref))

\* Each name of one list is the same as another one of the other list.
OneToOne(a, b) ==
  /\ Len(a) = Len(b)
  /\ \E pairing \in Bijection(DOMAIN a, DOMAIN b) : \A i \in DOMAIN a : SameWords(a[i], b[pairing[i]])

-----------------------------------------------------------------------------
(* Areas and identifiers *)

\* None without a unit or with one the table does not have.
Convertible(area) == area # Absent /\ area.unit \in DOMAIN SqMetres
InSqMetres(area)  == area.amount * SqMetres[area.unit]

\* |a - b| / b * 100 <= tolerance; an empty reference only equals itself.
Within(a, b, tolerance) ==
  IF b = 0 THEN a = 0
  ELSE 100 * (IF a > b THEN a - b ELSE b - a) <= tolerance * b

\* IdentifierNormalizer.normalize, of two texts that are present.
SameIdentifier(a, b) == a.form = b.form

\* column.ilike(text): letter case apart, the column is typed like the text.
\* (An identifier with the wildcards "%" or "_" is not modelled.)
TypedLike(column, form, blanks) ==
  column # Absent /\ column.form = form /\ column.blanks = blanks
=============================================================================
