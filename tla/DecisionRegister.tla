-------------------------- MODULE DecisionRegister --------------------------
(***************************************************************************)
(* What the review workflow promises about the outcome of a case: it is    *)
(* written once, by one officer for one review, and in the same step the   *)
(* one event that announces it is put in the outbox.  Nothing changes or   *)
(* withdraws it afterwards.  CaseLifecycle implements this.                *)
(***************************************************************************)
CONSTANTS Reviews, Users

VARIABLES verdicts,   \* the outcome: empty, or a set of one verdict
          notices     \* the events that announce an outcome

Verdict == [review : Reviews, decision : {"approve", "reject"}, by : Users]

NoticeOf(v) == [type |-> IF v.decision = "approve" THEN "CaseApprovedEvent"
                                                   ELSE "CaseRejectedEvent",
                ref  |-> v.review]

Init ==
  /\ verdicts = {}
  /\ notices = {}

Decide(v) ==
  /\ verdicts = {}
  /\ verdicts' = {v}
  /\ notices' = {NoticeOf(v)}

Next == \E v \in Verdict : Decide(v)

Spec == Init /\ [][Next]_<<verdicts, notices>>

=============================================================================
