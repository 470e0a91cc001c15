--------------------------- MODULE CaseNumbering ---------------------------
(***************************************************************************)
(* The numbers of the cases of one year (CaseService.create_case). The     *)
(* last number is kept in a row per year that is read with FOR UPDATE; the *)
(* row is written in the transaction that inserts the case, so the lock is *)
(* held until both are committed. Before the first case of a year there is *)
(* no row to lock: every request that finds none inserts it.               *)
(***************************************************************************)
EXTENDS Naturals

CONSTANTS Creators,  \* requests that create cases at the same time
          MaxCases   \* bound on the cases of the year

ASSUME NumberingAssumption == MaxCases \in Nat

VARIABLES last,     \* case_sequences.last_value as committed, 0: no row
          numbers,  \* numbers of the committed cases
          creator   \* what each request has read and written

numberingVars == <<last, numbers, creator>>

\* at: found_none: the select returned no row. counted: number is taken and
\* written, the row is locked. refused: the request ended in a conflict.
Creator == [at : {"idle", "found_none", "counted", "refused"}, number : Nat]
NoCreator == [at |-> "idle", number |-> 0]

NumberingTypeOK ==
  /\ last \in Nat
  /\ numbers \subseteq Nat
  /\ creator \in [Creators -> Creator]

NumberingInit ==
  /\ last = 0
  /\ numbers = {}
  /\ creator = [c \in Creators |-> NoCreator]

----------------------------------------------------------------------------

\* (Broken: FOR UPDATE is left out.)
LockedByNobody == TRUE

\* The row is not locked, or not inserted by an open transaction.
Unlocked == \A c \in Creators : creator[c].at # "counted"

\* Bound on the cases.
Room == last < MaxCases

\* The row exists: the request waits for its lock and reads the last value.
CountOn(c) ==
  /\ creator[c].at \in {"idle", "refused"}
  /\ Room
  /\ last > 0
  /\ Unlocked
  /\ creator' = [creator EXCEPT ![c] =
                   [at |-> "counted", number |-> last + 1]]
  /\ UNCHANGED <<last, numbers>>

FindNone(c) ==
  /\ creator[c].at \in {"idle", "refused"}
  /\ Room
  /\ last = 0
  /\ creator' = [creator EXCEPT ![c] =
                   [at |-> "found_none", number |-> 0]]
  /\ UNCHANGED <<last, numbers>>

\* The insert waits for an open insert of the same year.
InsertRow(c) ==
  /\ creator[c].at = "found_none"
  /\ Unlocked
  /\ last = 0
  /\ creator' = [creator EXCEPT ![c] = [at |-> "counted", number |-> 1]]
  /\ UNCHANGED <<last, numbers>>

\* Somebody else's insert was committed: the flush raises, outside the try
\* that turns conflicts of the case itself into an answer.
InsertRefused(c) ==
  /\ creator[c].at = "found_none"
  /\ Unlocked
  /\ last # 0
  /\ creator' = [creator EXCEPT ![c].at = "refused"]
  /\ UNCHANGED <<last, numbers>>

\* The number is not taken: row and case are committed together.
CommitCase(c) ==
  /\ creator[c].at = "counted"
  /\ creator[c].number \notin numbers
  /\ last' = creator[c].number
  /\ numbers' = numbers \cup {creator[c].number}
  /\ creator' = [creator EXCEPT ![c] = NoCreator]

\* case_number is unique, or the request dies before its commit.
CaseRefused(c) ==
  /\ creator[c].at = "counted"
  /\ creator' = [creator EXCEPT ![c] =
                   IF creator[c].number \in numbers
                   THEN [@ EXCEPT !.at = "refused"]
                   ELSE NoCreator]
  /\ UNCHANGED <<last, numbers>>

NumberingStep(c) ==
  \/ CountOn(c) \/ FindNone(c) \/ InsertRow(c) \/ InsertRefused(c)
  \/ CommitCase(c) \/ CaseRefused(c)

NumberingSpec ==
  NumberingInit /\ [][\E c \in Creators : NumberingStep(c)]_numberingVars

----------------------------------------------------------------------------

\* The numbers of the cases have no gap, whichever requests fail; and a
\* request that has taken a number is not refused: the conflict is the price
\* of the first case of the year only.
NumbersConsecutive ==
  /\ numbers = 1..last
  /\ \A c \in Creators : creator[c].at = "refused" => creator[c].number = 0
=============================================================================
