------------------------- MODULE CaseLifecycleProofs -------------------------
(***************************************************************************)
(* What CaseLifecycle guarantees for any number of officers, sessions,     *)
(* reviews and proof requests, whatever the sessions interleave.           *)
(***************************************************************************)
EXTENDS CaseLifecycle, TLAPS

----------------------------------------------------------------------------
(* The inductive invariant. Besides the types it says what an open session *)
(* knows: the rows it loaded are rows that exist, and the officer it works  *)
(* for still holds the review it is about to write.                         *)

RowsOK ==
  /\ status \in Status
  /\ docs \subseteq {"processed", "waiting"}
  /\ dossier \in DossierRow
  /\ review \in [Reviews -> ReviewRow]
  /\ final \subseteq FinalRow
  /\ proof \in [Proofs -> ProofStatus]
  /\ events \subseteq Event
  \* Assessments belong to a profile.
  /\ dossier.risk > 0 => dossier.profile > 0
  \* Every review that was ever opened has a reviewer.
  /\ \A r \in Reviews : review[r].status # "none" => review[r].reviewer \in Users

\* The review a start request loaded has been opened and is its officer's.
Holds(s) == /\ sess[s].rev \in Reviews
            /\ review[sess[s].rev].status # "none"
            /\ review[sess[s].rev].reviewer = sess[s].user

\* The review a decision loaded has been opened and is its officer's to close.
MayClose(s) == /\ sess[s].rev \in Reviews
               /\ review[sess[s].rev].status # "none"
               /\ MayDecide(sess[s].user, sess[s].rev)

SessionOK(s) ==
  /\ sess[s].pc \in {"check", "recheck"} => sess[s].op \in {"start", "decide"}
  /\ sess[s].pc \in {"load", "assess", "promote"} =>
       sess[s].op \in {"start", "decide", "pipeline"}
  /\ sess[s].pc = "assess" => sess[s].profile > 0
  /\ sess[s].op \in {"start", "decide"} => sess[s].user \in Users
  /\ sess[s].op = "start" /\ sess[s].rev # None => Holds(s)
  /\ sess[s].op = "decide" => sess[s].decision \in Decisions
  /\ sess[s].op = "decide" /\ sess[s].pc # "select" => MayClose(s)
  /\ sess[s].op \in {"accept", "cancel", "reject"} => sess[s].proof \in Proofs

Base == /\ RowsOK
        /\ sess \in [Sessions -> Session]
        /\ \A s \in Sessions : SessionOK(s)

\* Reviews are never withdrawn, and keep their reviewer.
ReviewsKept ==
  \A r \in Reviews : review[r].status # "none" =>
     review'[r].status # "none" /\ review'[r].reviewer = review[r].reviewer

----------------------------------------------------------------------------
(* How a step treats the sessions.                                         *)

LEMMA IdleType == Idle \in Session
BY ConstantsAssumption DEF Idle, Session, Status

LEMMA InitBase == Init => Base
<1> SUFFICES ASSUME Init PROVE Base
  OBVIOUS
<1>1. NoDossier \in DossierRow /\ NoDossier.risk = 0
  BY ConstantsAssumption DEF NoDossier, DossierRow, RunTypes, RunState
<1>2. RowsOK
  BY <1>1 DEF Init, RowsOK, NoReview, ReviewRow, Status, ProofStatus
<1>3. \A s \in Sessions : SessionOK(s)
  BY DEF Init, SessionOK, Idle
<1> QED BY <1>2, <1>3, IdleType DEF Base, Init

\* Only session s moves, and it ends in order: then all are in order.
LEMMA Moves ==
  ASSUME Base, RowsOK', ReviewsKept,
         NEW s \in Sessions, NEW r \in Session, Become(s, r), SessionOK(s)'
  PROVE  Base'
<1>1. sess' \in [Sessions -> Session]
  BY DEF Base, Become
<1>2. ASSUME NEW t \in Sessions, t # s PROVE SessionOK(t)'
  <2>1. sess'[t] = sess[t]
    BY <1>2 DEF Become, Base
  <2>2. SessionOK(t)
    BY DEF Base
  <2> QED BY <2>1, <2>2
          DEF SessionOK, ReviewsKept, Holds, MayClose, MayDecide
<1> QED BY <1>1, <1>2 DEF Base

\* The same for a step that writes no row.
LEMMA Reads ==
  ASSUME Base, ReadOnly,
         NEW s \in Sessions, NEW r \in Session, Become(s, r), SessionOK(s)'
  PROVE  Base'
<1>1. RowsOK' /\ ReviewsKept
  BY DEF ReadOnly, RowsOK, ReviewsKept, Base
<1> QED BY <1>1, Moves

\* A session that ends leaves only its rows.
LEMMA Closes ==
  ASSUME Base, RowsOK', ReviewsKept, NEW s \in Sessions, Close(s)
  PROVE  Base'
<1>1. Become(s, Idle) /\ sess'[s] = Idle
  BY DEF Close, Become, Base
<1>2. SessionOK(s)'
  BY <1>1 DEF SessionOK, Idle
<1> QED BY <1>1, <1>2, IdleType, Moves

\* An assignment to cases.status that is not sent, and one that is.
LEMMA SavedType ==
  ASSUME RowsOK, NEW old, NEW new \in Status
  PROVE  Saved(old, new) \in Status
BY DEF RowsOK, Saved

----------------------------------------------------------------------------
(* Every step keeps the invariant.                                         *)

LEMMA CaseStepBase ==
  ASSUME Base, NEW s \in Sessions, CaseStep(s)
  PROVE  Base'
<1>1. CASE OpenSubmit(s)
  <2> DEFINE r == [Idle EXCEPT !.op = "submit", !.pc = "commit",
                               !.status = status]
  <2>1. r \in Session
    BY IdleType DEF Base, RowsOK, Session
  <2>2. Become(s, r) /\ ReadOnly /\ sess'[s] = r
    BY <1>1 DEF OpenSubmit, Open, Become, Base
  <2>3. SessionOK(s)'
    BY <2>2 DEF SessionOK, Idle
  <2> QED BY <2>1, <2>2, <2>3, Reads
<1>2. CASE SubmitCase(s)
  <2>1. RowsOK' /\ ReviewsKept
    BY <1>2, SavedType DEF SubmitCase, RowsOK, Base, ReviewsKept, Status
  <2> QED BY <1>2, <2>1, Closes DEF SubmitCase
<1>3. CASE OpenUpload(s)
  <2> DEFINE r == [Idle EXCEPT !.op = "upload", !.pc = "commit"]
  <2>1. r \in Session
    BY IdleType DEF Session
  <2>2. Become(s, r) /\ ReadOnly /\ sess'[s] = r
    BY <1>3 DEF OpenUpload, Open, Become, Base
  <2>3. SessionOK(s)'
    BY <2>2 DEF SessionOK, Idle
  <2> QED BY <2>1, <2>2, <2>3, Reads
<1>4. CASE UploadDocument(s)
  <2>1. RowsOK' /\ ReviewsKept
    BY <1>4 DEF UploadDocument, RowsOK, Base, ReviewsKept
  <2> QED BY <1>4, <2>1, Closes DEF UploadDocument
<1>5. CASE OpenDiscard(s)
  <2> DEFINE r == [Idle EXCEPT !.op = "discard", !.pc = "commit"]
  <2>1. r \in Session
    BY IdleType DEF Session
  <2>2. Become(s, r) /\ ReadOnly /\ sess'[s] = r
    BY <1>5 DEF OpenDiscard, Open, Become, Base
  <2>3. SessionOK(s)'
    BY <2>2 DEF SessionOK, Idle
  <2> QED BY <2>1, <2>2, <2>3, Reads
<1>6. CASE DeleteDocument(s)
  <2>1. RowsOK' /\ ReviewsKept
    BY <1>6 DEF DeleteDocument, RowsOK, Base, ReviewsKept
  <2> QED BY <1>6, <2>1, Closes DEF DeleteDocument
<1> QED BY <1>1, <1>2, <1>3, <1>4, <1>5, <1>6 DEF CaseStep

LEMMA PipelineStepBase ==
  ASSUME Base, NEW s \in Sessions, PipelineStep(s)
  PROVE  Base'
<1>0. sess[s] \in Session /\ SessionOK(s)
  BY DEF Base
<1>1. CASE OpenPipeline(s)
  <2> DEFINE r == [Idle EXCEPT !.op = "pipeline", !.pc = "load",
                               !.status = status]
  <2>1. r \in Session
    BY IdleType DEF Base, RowsOK, Session
  <2>2. Become(s, r) /\ ReadOnly /\ sess'[s] = r
    BY <1>1 DEF OpenPipeline, Open, Become, Base
  <2>3. SessionOK(s)'
    BY <2>2 DEF SessionOK, Idle
  <2> QED BY <2>1, <2>2, <2>3, Reads
<1>2. CASE PipelineMakesProfile(s)
  <2>1. RowsOK' /\ ReviewsKept
    BY <1>2, ConstantsAssumption
    DEF PipelineMakesProfile, RowsOK, Base, ReviewsKept, NoDossier,
        DossierRow, RunTypes, RunState
  <2> QED BY <1>2, <2>1, Closes DEF PipelineMakesProfile
<1>3. CASE PipelineFindsProfile(s)
  <2> DEFINE r == [sess[s] EXCEPT !.pc = "assess", !.profile = dossier.profile]
  <2>1. r \in Session
    BY <1>0 DEF Base, RowsOK, Session, DossierRow
  <2>2. Become(s, r) /\ ReadOnly /\ sess'[s] = r
    BY <1>3 DEF PipelineFindsProfile, Become, Base
  <2>3. SessionOK(s)'
    BY <1>0, <1>3, <2>2
    DEF PipelineFindsProfile, SessionOK, Holds, MayClose, MayDecide, ReadOnly,
        Session
  <2> QED BY <2>1, <2>2, <2>3, Reads
<1>4. CASE PipelineAssesses(s)
  <2> DEFINE r == [sess[s] EXCEPT !.pc = "promote", !.profile = 0]
  <2>1. r \in Session
    <3>1. 0 \in 0..MaxProfiles
      BY ConstantsAssumption
    <3> QED BY <1>0, <3>1 DEF Session
  <2>2. Become(s, r) /\ review' = review /\ sess'[s] = r
    BY <1>4 DEF PipelineAssesses, Become, Base
  <2>3. SessionOK(s)'
    BY <1>0, <1>4, <2>2
    DEF PipelineAssesses, SessionOK, Holds, MayClose, MayDecide, Session
  <2>4. RowsOK' /\ ReviewsKept
    <3>0. dossier.profile > 0
      BY <1>0, <1>4 DEF PipelineAssesses, SessionOK
    <3>1. dossier.risk + 1 \in 0..MaxRisks
      BY <1>4, ConstantsAssumption
      DEF PipelineAssesses, RowsOK, Base, DossierRow
    <3>2. [k \in RunTypes |-> "settled"] \in [RunTypes -> RunState]
      BY DEF RunState
    <3>3. dossier' \in DossierRow
      BY <1>4, <3>1, <3>2 DEF PipelineAssesses, RowsOK, Base, DossierRow
    <3>4. dossier'.profile > 0
      BY <1>4, <3>0 DEF PipelineAssesses, RowsOK, Base, DossierRow
    <3> QED BY <1>4, <3>3, <3>4 DEF PipelineAssesses, RowsOK, Base, ReviewsKept
  <2> QED BY <2>1, <2>2, <2>3, <2>4, Moves
<1>5. CASE PipelinePromotes(s)
  <2> DEFINE promoted == IF sess[s].status \in Promotable
                         THEN "review_ready" ELSE sess[s].status
             r == [sess[s] EXCEPT !.pc = "recheck", !.status = promoted]
  <2>1. promoted \in Status
    BY <1>0 DEF Session, Status
  <2>2. RowsOK' /\ ReviewsKept /\ review' = review
    <3>1. status' \in Status
      BY <1>5, <2>1, SavedType DEF PipelinePromotes, Base
    <3> QED BY <1>5, <3>1 DEF PipelinePromotes, RowsOK, Base, ReviewsKept
  <2>3. CASE sess[s].op = "pipeline"
    BY <1>5, <2>2, <2>3, Closes DEF PipelinePromotes
  <2>4. CASE sess[s].op # "pipeline"
    <3>1. r \in Session
      BY ZenonT(40), <1>0, <2>1 DEF Session
    <3>2. Become(s, r) /\ sess'[s] = r
      BY <1>5, <2>4 DEF PipelinePromotes, Become, Base
    <3>3. SessionOK(s)'
      BY <1>0, <1>5, <2>2, <2>4, <3>2
      DEF PipelinePromotes, SessionOK, Holds, MayClose, MayDecide, Session
    <3> QED BY <2>2, <3>1, <3>2, <3>3, Moves
  <2> QED BY <2>3, <2>4
<1>6. CASE ReadinessHolds(s)
  <2> DEFINE r == [sess[s] EXCEPT !.pc = NextOfCheck[sess[s].op]]
  <2>1. sess[s].op \in {"start", "decide"}
    BY <1>0, <1>6 DEF ReadinessHolds, SessionOK
  <2>2. NextOfCheck[sess[s].op] \in {"select", "snapshot"}
    BY <2>1 DEF NextOfCheck
  <2>3. r \in Session
    BY <1>0, <2>2 DEF Session
  <2>4. Become(s, r) /\ ReadOnly /\ sess'[s] = r
    BY <1>6 DEF ReadinessHolds, Goto, Become, Base
  <2>5. SessionOK(s)'
    BY <1>0, <1>6, <2>2, <2>4
    DEF ReadinessHolds, SessionOK, Holds, MayClose, MayDecide, ReadOnly,
        Session
  <2> QED BY <2>3, <2>4, <2>5, Reads
<1>7. CASE ReadinessRunsPipeline(s)
  <2> DEFINE r == [sess[s] EXCEPT !.pc = "load"]
  <2>1. r \in Session
    BY <1>0 DEF Session
  <2>2. Become(s, r) /\ ReadOnly /\ sess'[s] = r
    BY <1>7 DEF ReadinessRunsPipeline, Goto, Become, Base
  <2>3. SessionOK(s)'
    BY <1>0, <1>7, <2>2
    DEF ReadinessRunsPipeline, SessionOK, Holds, MayClose, MayDecide, ReadOnly,
        Session
  <2> QED BY <2>1, <2>2, <2>3, Reads
<1> QED BY <1>1, <1>2, <1>3, <1>4, <1>5, <1>6, <1>7 DEF PipelineStep

LEMMA ReviewStepBase ==
  ASSUME Base, NEW s \in Sessions, ReviewStep(s)
  PROVE  Base'
<1>0. sess[s] \in Session /\ SessionOK(s)
  BY DEF Base
<1>1. ASSUME NEW u \in Users, OpenStart(s, u) PROVE Base'
  <2> DEFINE r == [Idle EXCEPT !.op = "start", !.pc = "check", !.user = u,
                               !.status = status]
  <2>1. r \in Session
    BY IdleType DEF Base, RowsOK, Session
  <2>2. Become(s, r) /\ ReadOnly /\ sess'[s] = r
    BY <1>1 DEF OpenStart, Open, Become, Base
  <2>3. SessionOK(s)'
    BY <2>2 DEF SessionOK, Idle
  <2> QED BY <2>1, <2>2, <2>3, Reads
<1>2. CASE SelectOpenReview(s)
  <2>1. CASE ReviewSlotFree /\ Goto(s, "commit")
    <3> DEFINE r == [sess[s] EXCEPT !.pc = "commit"]
    <3>1. r \in Session
      BY <1>0 DEF Session
    <3>2. Become(s, r) /\ ReadOnly /\ sess'[s] = r
      BY <1>2, <2>1 DEF SelectOpenReview, Goto, Become, Base
    <3>3. SessionOK(s)'
      BY <1>0, <1>2, <3>2
      DEF SelectOpenReview, At, SessionOK, Holds, ReadOnly, Session
    <3> QED BY <3>1, <3>2, <3>3, Reads
  <2>2. ASSUME NEW q \in Reviews, InProgress(q), MayTake(sess[s].user, q),
               Become(s, [sess[s] EXCEPT !.pc = "commit", !.rev = q])
        PROVE  Base'
    <3> DEFINE r == [sess[s] EXCEPT !.pc = "commit", !.rev = q]
    <3>1. r \in Session
      BY <1>0 DEF Session
    <3>2. Become(s, r) /\ ReadOnly /\ sess'[s] = r
      BY <1>2, <2>2 DEF SelectOpenReview, Become, Base
    <3>3. review[q].status # "none" /\ review[q].reviewer = sess[s].user
      BY <2>2, ConstantsAssumption
      DEF InProgress, MayTake, Base, RowsOK
    <3>4. SessionOK(s)'
      BY <1>0, <1>2, <3>2, <3>3
      DEF SelectOpenReview, At, SessionOK, Holds, ReadOnly, Session
    <3> QED BY <3>1, <3>2, <3>4, Reads
  <2> QED BY <1>2, <2>1, <2>2 DEF SelectOpenReview
<1>3. CASE StartNewReview(s)
  <2>1. sess[s].user \in Users
    BY <1>0, <1>3 DEF StartNewReview, At, SessionOK
  <2>2. status' \in Status
    BY <1>3, SavedType DEF StartNewReview, Base, Status
  <2>3. PICK q \in Reviews :
          /\ review[q].status = "none"
          /\ review' = [review EXCEPT ![q] = [NoReview EXCEPT
                            !.status = "in_progress", !.reviewer = sess[s].user]]
    BY <1>3 DEF StartNewReview
  <2> DEFINE row == [NoReview EXCEPT !.status = "in_progress",
                                     !.reviewer = sess[s].user]
  <2>4. row \in ReviewRow /\ row.status # "none" /\ row.reviewer = sess[s].user
    BY <2>1 DEF NoReview, ReviewRow
  <2>5. RowsOK' /\ ReviewsKept
    BY <1>3, <2>1, <2>2, <2>3, <2>4
    DEF StartNewReview, RowsOK, Base, ReviewsKept
  <2> QED BY <1>3, <2>5, Closes DEF StartNewReview
<1>4. CASE ResumeReview(s)
  <2> DEFINE q == sess[s].rev
  <2>1. Holds(s) /\ q \in Reviews /\ sess[s].user \in Users
    BY <1>0, <1>4 DEF ResumeReview, At, SessionOK, Holds
  <2>2. status' \in Status
    BY <1>4, SavedType DEF ResumeReview, Base, Status
  <2>3. /\ ResumedReview(s, review[q]) \in ReviewRow
        /\ ResumedReview(s, review[q]).status = review[q].status
        /\ ResumedReview(s, review[q]).reviewer = review[q].reviewer
    BY <2>1 DEF ResumedReview, ReviewRow, Holds, Base, RowsOK
  <2>4. RowsOK' /\ ReviewsKept
    BY <1>4, <2>1, <2>2, <2>3 DEF ResumeReview, RowsOK, Base, ReviewsKept
  <2> QED BY <1>4, <2>4, Closes DEF ResumeReview
<1>5. ASSUME NEW u \in Users, NEW d \in Decisions, OpenDecide(s, u, d)
      PROVE  Base'
  <2> DEFINE r == [Idle EXCEPT !.op = "decide", !.pc = "select", !.user = u,
                               !.status = status, !.decision = d]
  <2>1. r \in Session
    BY IdleType DEF Base, RowsOK, Session
  <2>2. Become(s, r) /\ ReadOnly /\ sess'[s] = r
    BY <1>5 DEF OpenDecide, Open, Become, Base
  <2>3. SessionOK(s)'
    BY <2>2 DEF SessionOK, Idle
  <2> QED BY <2>1, <2>2, <2>3, Reads
<1>6. CASE SelectReview(s)
  <2>1. PICK q \in Reviews :
          /\ InProgress(q)
          /\ MayDecide(sess[s].user, q)
          /\ Become(s, [sess[s] EXCEPT !.pc = "check", !.rev = q])
    BY <1>6 DEF SelectReview
  <2> DEFINE r == [sess[s] EXCEPT !.pc = "check", !.rev = q]
  <2>2. r \in Session
    BY <1>0 DEF Session
  <2>3. Become(s, r) /\ ReadOnly /\ sess'[s] = r
    BY <1>6, <2>1 DEF SelectReview, Become, Base
  <2>4. SessionOK(s)'
    BY <1>0, <1>6, <2>1, <2>3
    DEF SelectReview, At, SessionOK, MayClose, MayDecide, InProgress, ReadOnly,
        Session
  <2> QED BY <2>2, <2>3, <2>4, Reads
<1>7. CASE TakeSnapshot(s)
  <2> DEFINE r == [sess[s] EXCEPT !.pc = "commit", !.risk = LatestRisk,
                                  !.profile = CitedRuns]
  <2>1. LatestRisk \in Assessments \cup {None}
    <3>1. CASE dossier.risk = 0
      BY <3>1 DEF LatestRisk
    <3>2. CASE dossier.risk # 0
      <4>1. dossier.profile \in 1..MaxProfiles /\ dossier.risk \in 1..MaxRisks
        BY <3>2, ConstantsAssumption DEF Base, RowsOK, DossierRow
      <4> QED BY <3>2, <4>1 DEF LatestRisk, Assessments
    <3> QED BY <3>1, <3>2
  <2>5. CitedRuns \in 0..MaxProfiles
    BY ConstantsAssumption DEF Base, RowsOK, DossierRow, CitedRuns
  <2>2. r \in Session
    BY <1>0, <2>1, <2>5 DEF Session
  <2>3. Become(s, r) /\ ReadOnly /\ sess'[s] = r
    BY <1>7 DEF TakeSnapshot, Become, Base
  <2>4. SessionOK(s)'
    BY <1>0, <1>7, <2>3
    DEF TakeSnapshot, At, SessionOK, MayClose, MayDecide, ReadOnly, Session
  <2> QED BY <2>2, <2>3, <2>4, Reads
<1>8. CASE DecideFinally(s)
  <2> DEFINE q == sess[s].rev
             row == DecidedReview(s, review[q])
             f == [review |-> q, by |-> sess[s].user,
                   decision |-> sess[s].decision, risk |-> sess[s].risk]
             e == [type |-> DecisionEvent[sess[s].decision], ref |-> q]
  <2>1. /\ MayClose(s) /\ q \in Reviews
        /\ sess[s].user \in Users
        /\ sess[s].decision \in FinalDecisions
    BY <1>0, <1>8 DEF DecideFinally, At, SessionOK, MayClose
  <2>2. status' \in Status
    <3>1. Outcome[sess[s].decision] \in Status
      BY <2>1 DEF Outcome, FinalDecisions, Decisions, Status
    <3> QED BY <1>8, <3>1, SavedType DEF DecideFinally, Base
  <2>3. row \in ReviewRow /\ row.status # "none"
        /\ row.reviewer = review[q].reviewer
    BY ZenonT(40), <2>1 DEF DecidedReview, ReviewRow, FinalDecisions, Decisions, Base, RowsOK
  <2>4. f \in FinalRow /\ e \in Event
    BY <1>0, <2>1
    DEF FinalRow, Event, EventType, DecisionEvent, FinalDecisions, Session
  <2>5. /\ review' = [review EXCEPT ![q] = row]
        /\ final' = final \cup {f} /\ events' = events \cup {e}
    BY <1>8 DEF DecideFinally
  <2>6. RowsOK' /\ ReviewsKept
    BY <1>8, <2>1, <2>2, <2>3, <2>4, <2>5
    DEF DecideFinally, RowsOK, Base, ReviewsKept, MayClose
  <2> QED BY <1>8, <2>6, Closes DEF DecideFinally
<1>9. CASE DecideRequestProof(s)
  <2> DEFINE q == sess[s].rev
             row == DecidedReview(s, review[q])
  <2>1. MayClose(s) /\ q \in Reviews /\ sess[s].decision = "request_proof"
    BY <1>0, <1>9 DEF DecideRequestProof, At, SessionOK, MayClose
  <2>2. status' \in Status
    <3>1. Outcome["request_proof"] \in Status
      BY DEF Outcome, Decisions, Status
    <3> QED BY <1>9, <3>1, SavedType DEF DecideRequestProof, Base
  <2>3. row \in ReviewRow /\ row.status # "none"
        /\ row.reviewer = review[q].reviewer
    BY ZenonT(40), <2>1 DEF DecidedReview, ReviewRow, Decisions, Base, RowsOK
  <2>4. RowsOK' /\ ReviewsKept
    BY <1>9, <2>1, <2>2, <2>3
    DEF DecideRequestProof, RowsOK, Base, ReviewsKept, MayClose
  <2> QED BY <1>9, <2>4, Closes DEF DecideRequestProof
<1> QED
  BY <1>1, <1>2, <1>3, <1>4, <1>5, <1>6, <1>7, <1>8, <1>9 DEF ReviewStep

LEMMA ProofStepBase ==
  ASSUME Base, NEW s \in Sessions, ProofStep(s)
  PROVE  Base'
<1>0. sess[s] \in Session /\ SessionOK(s)
  BY DEF Base
<1>1. CASE OpenCreateProof(s)
  <2> DEFINE r == [Idle EXCEPT !.op = "create", !.pc = "commit",
                               !.status = status]
  <2>1. r \in Session
    BY IdleType DEF Base, RowsOK, Session
  <2>2. Become(s, r) /\ ReadOnly /\ sess'[s] = r
    BY <1>1 DEF OpenCreateProof, Open, Become, Base
  <2>3. SessionOK(s)'
    BY <2>2 DEF SessionOK, Idle
  <2> QED BY <2>1, <2>2, <2>3, Reads
<1>2. CASE CreateProof(s)
  <2>1. status' \in Status
    BY <1>2, SavedType DEF CreateProof, Base, Status
  <2>2. RowsOK' /\ ReviewsKept
    BY <1>2, <2>1
    DEF CreateProof, RowsOK, Base, ReviewsKept, ProofStatus, Event, EventType
  <2> QED BY <1>2, <2>2, Closes DEF CreateProof
<1>3. ASSUME NEW p \in Proofs, NEW verb \in {"accept", "cancel", "reject"},
             NEW pc \in {"select", "commit"}, OpenSettle(s, p, verb, pc)
      PROVE  Base'
  <2> DEFINE r == [Idle EXCEPT !.op = verb, !.pc = pc, !.status = status,
                               !.proof = p]
  <2>1. r \in Session
    BY IdleType DEF Base, RowsOK, Session
  <2>2. Become(s, r) /\ ReadOnly /\ sess'[s] = r
    BY <1>3 DEF OpenSettle, Open, Become, Base
  <2>3. SessionOK(s)'
    BY <2>2 DEF SessionOK, Idle
  <2> QED BY <2>1, <2>2, <2>3, Reads
<1>4. CASE SelectRemaining(s)
  <2> DEFINE alone == Remaining(sess[s].proof) = {}
             r == [sess[s] EXCEPT !.pc = "commit", !.clear = alone]
  <2>0. alone \in BOOLEAN
    OBVIOUS
  <2>1. r \in Session
    <3> HIDE DEF alone
    <3> QED BY <1>0, <2>0 DEF Session
  <2>2. Become(s, r) /\ ReadOnly /\ sess'[s] = r
    BY <1>4 DEF SelectRemaining, Become, Base
  <2>3. SessionOK(s)'
    BY <1>0, <1>4, <2>2 DEF SelectRemaining, SessionOK, Session
  <2> QED BY <2>1, <2>2, <2>3, Reads
<1>5. ASSUME NEW verb \in {"accept", "cancel"},
             NEW outcome \in {"accepted", "cancelled"},
             NEW announced \in SUBSET {[type |-> "ProofAcceptedEvent",
                                        ref |-> sess[s].proof]},
             ResolveProof(s, verb, outcome, announced)
      PROVE  Base'
  <2>1. sess[s].proof \in Proofs
    BY <1>0, <1>5 DEF ResolveProof, At, SessionOK
  <2>2. status' \in Status
    BY <1>5, SavedType DEF ResolveProof, Base, RowsOK, Status
  <2>3. RowsOK' /\ ReviewsKept
    BY <1>5, <2>1, <2>2
    DEF ResolveProof, RowsOK, Base, ReviewsKept, ProofStatus, Event, EventType
  <2> QED BY <1>5, <2>3, Closes DEF ResolveProof
<1>6. CASE RejectProof(s)
  <2>1. sess[s].proof \in Proofs
    BY <1>0, <1>6 DEF RejectProof, At, SessionOK
  <2>2. status' \in Status
    BY <1>6, SavedType DEF RejectProof, Base, Status
  <2>3. RowsOK' /\ ReviewsKept
    BY <1>6, <2>1, <2>2
    DEF RejectProof, RowsOK, Base, ReviewsKept, ProofStatus, Event, EventType
  <2> QED BY <1>6, <2>3, Closes DEF RejectProof
<1> QED
  BY <1>1, <1>2, <1>3, <1>4, <1>5, <1>6 DEF ProofStep, AcceptProof, CancelProof

\* The steps of the dossier hold no session open.
LEMMA DossierStepBase ==
  ASSUME Base, DossierStep
  PROVE  Base'
<1>1. sess' = sess /\ review' = review
  BY DEF DossierStep, DocumentProcessed, DocumentRequeued, RefreshProfile,
         RecalculateRisk, ScheduleValidation, ExecuteValidation
<1>2. RowsOK'
  <2> USE DEF RowsOK, Base
  <2>1. CASE DocumentProcessed
    BY <2>1 DEF DocumentProcessed
  <2>2. CASE DocumentRequeued
    BY <2>2 DEF DocumentRequeued
  <2>3. CASE RefreshProfile
    <3>1. dossier.profile + 1 \in 0..MaxProfiles
      BY <2>3, ConstantsAssumption DEF RefreshProfile, DossierRow
    <3>2. dossier' \in DossierRow /\ dossier'.risk = 0
      BY <2>3, <3>1, ConstantsAssumption
      DEF RefreshProfile, DossierRow, NoDossier, RunTypes, RunState
    <3>3. final' \subseteq FinalRow
      BY <2>3 DEF RefreshProfile, FinalRow
    <3> QED BY <2>3, <3>2, <3>3 DEF RefreshProfile
  <2>4. CASE RecalculateRisk
    <3>1. dossier.risk + 1 \in 0..MaxRisks
      BY <2>4, ConstantsAssumption DEF RecalculateRisk, DossierRow
    <3>2. dossier' \in DossierRow /\ dossier'.profile > 0
      BY <2>4, <3>1 DEF RecalculateRisk, DossierRow
    <3> QED BY <2>4, <3>2 DEF RecalculateRisk
  <2>5. CASE ScheduleValidation
    <3>1. dossier' \in DossierRow /\ dossier'.profile > 0
      BY <2>5 DEF ScheduleValidation, DossierRow, RunState
    <3> QED BY <2>5, <3>1 DEF ScheduleValidation
  <2>6. CASE ExecuteValidation
    <3>1. /\ dossier' \in DossierRow
          /\ dossier'.profile = dossier.profile
          /\ dossier'.risk = dossier.risk
      BY <2>6 DEF ExecuteValidation, DossierRow, RunState
    <3> QED BY <2>6, <3>1 DEF ExecuteValidation
  <2> QED BY <2>1, <2>2, <2>3, <2>4, <2>5, <2>6 DEF DossierStep
<1>3. ASSUME NEW s \in Sessions PROVE SessionOK(s)'
  BY <1>1 DEF Base, SessionOK, Holds, MayClose, MayDecide
<1> QED BY <1>1, <1>2, <1>3 DEF Base

LEMMA RollBackBase ==
  ASSUME Base, NEW s \in Sessions, RollBack(s)
  PROVE  Base'
<1>1. RowsOK' /\ ReviewsKept
  BY DEF RollBack, ReadOnly, RowsOK, ReviewsKept, Base
<1> QED BY <1>1, Closes DEF RollBack

LEMMA NextBase == Base /\ [Next]_vars => Base'
<1> SUFFICES ASSUME Base, [Next]_vars PROVE Base'
  OBVIOUS
<1>1. CASE UNCHANGED vars
  BY <1>1
  DEF vars, Base, RowsOK, SessionOK, Holds, MayClose, MayDecide
<1>2. CASE Next
  BY <1>2, DossierStepBase, CaseStepBase, PipelineStepBase, ReviewStepBase,
     ProofStepBase, RollBackBase DEF Next
<1> QED BY <1>1, <1>2

\* The types of every variable, and what open sessions may rely on: whoever is
\* about to close or resume a review still holds it when it commits.
THEOREM BaseAlways == Spec => []Base
BY InitBase, NextBase, PTL DEF Spec

\* Every variable keeps its type (SQLAlchemy enums and foreign keys).
THEOREM TypesAlways == Spec => []TypeOK
<1>1. Base => TypeOK
  BY DEF Base, RowsOK, TypeOK
<1> QED BY <1>1, BaseAlways, PTL

----------------------------------------------------------------------------
(* What a step can do to the reviews: open one if none is open, or         *)
(* complete one.                                                           *)

Opens(r) ==
  /\ ReviewSlotFree
  /\ review[r].status = "none"
  /\ \A q \in Reviews \ {r} : review'[q] = review[q]

Completes(r) ==
  /\ review[r].status # "none"
  /\ review'[r].status = "completed"
  /\ review'[r].reviewer = review[r].reviewer
  /\ \A q \in Reviews \ {r} : review'[q] = review[q]

ReviewEffect ==
  review' = review \/ \E r \in Reviews : Opens(r) \/ Completes(r)

LEMMA ReviewEffects == Base /\ [Next]_vars => ReviewEffect
<1> SUFFICES ASSUME Base, [Next]_vars PROVE ReviewEffect
  OBVIOUS
<1> USE DEF ReviewEffect
<1>1. CASE UNCHANGED vars
  BY <1>1 DEF vars
<1>2. CASE DossierStep
  BY <1>2 DEF DossierStep, DocumentProcessed, DocumentRequeued, RefreshProfile,
              RecalculateRisk, ScheduleValidation, ExecuteValidation
<1>3. ASSUME NEW s \in Sessions,
             CaseStep(s) \/ PipelineStep(s) \/ ProofStep(s) \/ RollBack(s)
      PROVE  ReviewEffect
  BY <1>3
  DEF CaseStep, OpenSubmit, SubmitCase, OpenUpload, UploadDocument,
      OpenDiscard, DeleteDocument, PipelineStep, OpenPipeline,
      PipelineMakesProfile, PipelineFindsProfile, PipelineAssesses,
      PipelinePromotes, ReadinessHolds, ReadinessRunsPipeline, ProofStep,
      OpenCreateProof, CreateProof, OpenSettle, SelectRemaining, AcceptProof,
      CancelProof, ResolveProof, RejectProof, RollBack, ReadOnly
<1>4. ASSUME NEW s \in Sessions, ReviewStep(s)
      PROVE  ReviewEffect
  <2>0. SessionOK(s) /\ review \in [Reviews -> ReviewRow]
    BY DEF Base, RowsOK
  <2>1. CASE StartNewReview(s)
    <3>1. PICK q \in Reviews :
            /\ review[q].status = "none"
            /\ review' = [review EXCEPT ![q] = [NoReview EXCEPT
                            !.status = "in_progress", !.reviewer = sess[s].user]]
      BY <2>1 DEF StartNewReview
    <3>2. Opens(q)
      BY <2>0, <2>1, <3>1 DEF StartNewReview, Opens
    <3> QED BY <3>2
  <2>2. CASE ResumeReview(s)
    <3>1. Holds(s)
      BY <2>0, <2>2 DEF ResumeReview, At, SessionOK
    <3>2. ResumedReview(s, review[sess[s].rev]) = review[sess[s].rev]
      BY <2>0, <3>1 DEF ResumedReview, Holds, ReviewRow
    <3> QED BY <2>0, <2>2, <3>1, <3>2 DEF ResumeReview, Holds
  <2>3. CASE DecideFinally(s) \/ DecideRequestProof(s)
    <3>1. MayClose(s)
      BY <2>0, <2>3 DEF DecideFinally, DecideRequestProof, At, SessionOK
    <3>2. review' = [review EXCEPT ![sess[s].rev] =
                                   DecidedReview(s, review[sess[s].rev])]
      BY <2>3 DEF DecideFinally, DecideRequestProof
    <3>3. /\ DecidedReview(s, review[sess[s].rev]).status = "completed"
          /\ DecidedReview(s, review[sess[s].rev]).reviewer
               = review[sess[s].rev].reviewer
      BY <2>0, <3>1 DEF DecidedReview, ReviewRow, MayClose
    <3>4. Completes(sess[s].rev)
      BY <2>0, <3>1, <3>2, <3>3 DEF Completes, MayClose
    <3> QED BY <3>1, <3>4 DEF MayClose
  <2> QED
    BY <1>4, <2>1, <2>2, <2>3
    DEF ReviewStep, OpenStart, SelectOpenReview, OpenDecide, SelectReview,
        TakeSnapshot, ReadOnly
<1> QED BY <1>1, <1>2, <1>3, <1>4 DEF Next

\* However many officers press start at once, at most one review is open
\* (uq_active_case_review).
THEOREM OneReview == Spec => []OneOpenReview
<1>1. Init => OneOpenReview
  BY DEF Init, OneOpenReview, InProgress, NoReview
<1>2. Base /\ OneOpenReview /\ [Next]_vars => OneOpenReview'
  BY ReviewEffects
  DEF ReviewEffect, Opens, Completes, OneOpenReview, InProgress, ReviewSlotFree
<1> QED BY <1>1, <1>2, BaseAlways, PTL DEF Spec

\* A review that was completed is never open again, whatever a start request
\* loaded before (only changed columns are written).
THEOREM CompletedForever == Spec => CompletedStaysCompleted
<1>1. Base /\ [Next]_vars =>
        [\A r \in Reviews : review[r].status = "completed"
                             => review'[r].status = "completed"]_vars
  BY ReviewEffects DEF ReviewEffect, Opens, Completes
<1> QED BY <1>1, BaseAlways, PTL DEF Spec, CompletedStaysCompleted

\* While a review is open its reviewer stays the same.
THEOREM LockHeld == Spec => ReviewLockHeld
<1>1. Base /\ [Next]_vars =>
        [\A r \in Reviews : InProgress(r)
                             => review'[r].reviewer = review[r].reviewer]_vars
  BY ReviewEffects DEF ReviewEffect, Opens, Completes, InProgress
<1> QED BY <1>1, BaseAlways, PTL DEF Spec, ReviewLockHeld

----------------------------------------------------------------------------
(* What a step can do to the outcome: record it, or blank the assessment   *)
(* it cites.                                                               *)

\* No row of final_decisions, no announcement and no outcome of the case.
Undecided ==
  /\ final' = final
  /\ Notices' = Notices
  /\ \A d \in FinalDecisions : status' = Outcome[d] => status = Outcome[d]

Blanks ==
  /\ final' = {[f EXCEPT !.risk = None] : f \in final}
  /\ status' = status
  /\ events' = events

OutcomeEffect ==
  Undecided \/ Blanks \/ \E s \in Sessions : DecideFinally(s)

LEMMA NoOutcome ==
  ASSUME NEW old, NEW new, new \notin {"approved", "rejected"} \/ new = old,
         status' = Saved(old, new), NEW d \in FinalDecisions,
         status' = Outcome[d]
  PROVE  status = Outcome[d]
BY DEF Saved, Outcome, FinalDecisions, Decisions

LEMMA OutcomeEffects == Base /\ [Next]_vars => OutcomeEffect
<1> SUFFICES ASSUME Base, [Next]_vars PROVE OutcomeEffect
  OBVIOUS
<1> USE DEF OutcomeEffect
<1>1. CASE UNCHANGED vars
  BY <1>1 DEF vars, Undecided, Notices
<1>2. CASE DossierStep
  BY <1>2 DEF DossierStep, DocumentProcessed, DocumentRequeued, RefreshProfile,
              RecalculateRisk, ScheduleValidation, ExecuteValidation,
              Undecided, Blanks, Notices
<1>3. ASSUME NEW s \in Sessions, ReadOnly \/ RollBack(s) PROVE OutcomeEffect
  BY <1>3 DEF ReadOnly, RollBack, Undecided, Notices
<1>4. ASSUME NEW s \in Sessions, CaseStep(s) PROVE OutcomeEffect
  <2>1. CASE SubmitCase(s)
    BY <2>1, NoOutcome DEF SubmitCase, Undecided, Notices
  <2>2. CASE UploadDocument(s) \/ DeleteDocument(s)
    BY <2>2 DEF UploadDocument, DeleteDocument, Undecided, Notices
  <2> QED BY <1>3, <1>4, <2>1, <2>2
          DEF CaseStep, OpenSubmit, OpenUpload, OpenDiscard
<1>5. ASSUME NEW s \in Sessions, PipelineStep(s) PROVE OutcomeEffect
  <2>1. CASE PipelineMakesProfile(s) \/ PipelineAssesses(s)
    BY <2>1 DEF PipelineMakesProfile, PipelineAssesses, Undecided, Notices
  <2>2. CASE PipelinePromotes(s)
    BY <2>2, NoOutcome DEF PipelinePromotes, Undecided, Notices
  <2> QED BY <1>3, <1>5, <2>1, <2>2
          DEF PipelineStep, OpenPipeline, PipelineFindsProfile, ReadinessHolds,
              ReadinessRunsPipeline
<1>6. ASSUME NEW s \in Sessions, ReviewStep(s) PROVE OutcomeEffect
  <2>1. CASE StartNewReview(s) \/ ResumeReview(s)
    BY <2>1, NoOutcome DEF StartNewReview, ResumeReview, Undecided, Notices
  <2>2. CASE DecideRequestProof(s)
    <3>1. Outcome["request_proof"] = "proof_required"
      BY DEF Outcome, Decisions
    <3> QED BY <2>2, <3>1, NoOutcome DEF DecideRequestProof, Undecided, Notices
  <2> QED BY <1>3, <1>6, <2>1, <2>2
          DEF ReviewStep, OpenStart, SelectOpenReview, OpenDecide, SelectReview,
              TakeSnapshot
<1>7. ASSUME NEW s \in Sessions, ProofStep(s) PROVE OutcomeEffect
  <2>1. CASE CreateProof(s)
    BY <2>1, NoOutcome DEF CreateProof, Undecided, Notices
  <2>2. CASE AcceptProof(s)
    BY <2>2, NoOutcome DEF AcceptProof, ResolveProof, Undecided, Notices
  <2>3. CASE CancelProof(s)
    BY <2>3, NoOutcome DEF CancelProof, ResolveProof, Undecided, Notices
  <2>4. CASE RejectProof(s)
    BY <2>4, NoOutcome DEF RejectProof, Undecided, Notices
  <2> QED BY <1>3, <1>7, <2>1, <2>2, <2>3, <2>4
          DEF ProofStep, OpenCreateProof, OpenSettle, SelectRemaining
<1> QED BY <1>1, <1>2, <1>3, <1>4, <1>5, <1>6, <1>7 DEF Next

\* The row a decision inserts.
LEMMA DecisionRow ==
  ASSUME Base, NEW s \in Sessions, DecideFinally(s)
  PROVE  \E f \in FinalRow :
           /\ f.review = sess[s].rev /\ f.decision = sess[s].decision
           /\ f.by = sess[s].user /\ f.risk = sess[s].risk
           /\ final = {} /\ final' = {f}
           /\ MayClose(s)
           /\ review'[f.review].status = "completed"
           /\ review'[f.review].reviewer = review[f.review].reviewer
           /\ status' = Saved(sess[s].status, Outcome[f.decision])
           /\ events' = events \cup {[type |-> DecisionEvent[f.decision],
                                      ref  |-> f.review]}
<1> DEFINE q == sess[s].rev
           f == [review |-> q, by |-> sess[s].user,
                 decision |-> sess[s].decision, risk |-> sess[s].risk]
<1>1. sess[s] \in Session /\ SessionOK(s) /\ review \in [Reviews -> ReviewRow]
  BY DEF Base, RowsOK
<1>2. /\ MayClose(s) /\ q \in Reviews
      /\ sess[s].user \in Users
      /\ sess[s].decision \in FinalDecisions
  BY <1>1 DEF DecideFinally, At, SessionOK, MayClose
<1>3. f \in FinalRow
  BY <1>1, <1>2 DEF FinalRow, Session
<1>4. /\ final = {}
      /\ final' = final \cup {f}
  BY DEF DecideFinally, DecisionSlotFree
<1>5. /\ review'[q].status = "completed"
      /\ review'[q].reviewer = review[q].reviewer
  BY <1>1, <1>2 DEF DecideFinally, DecidedReview, ReviewRow
<1> QED BY <1>2, <1>3, <1>4, <1>5 DEF DecideFinally

\* TerminalStatusBacked, in terms of the outcome of a decision.
Backed ==
  \A d \in FinalDecisions :
     status = Outcome[d] => \E f \in final : f.decision = d

\* A case that reads approved or rejected has the final decision to show for
\* it: review, case and final decision are one transaction, and nobody else
\* writes these statuses.
THEOREM StatusBacked == Spec => []TerminalStatusBacked
<1>1. Init => Backed
  BY DEF Init, Backed, FinalDecisions, Decisions, Outcome
<1>2. Base /\ Backed /\ [Next]_vars => Backed'
  <2> SUFFICES ASSUME Base, Backed, [Next]_vars,
                      NEW d \in FinalDecisions, status' = Outcome[d]
               PROVE  \E f \in final' : f.decision = d
    BY DEF Backed
  <2>1. CASE Undecided
    BY <2>1 DEF Undecided, Backed
  <2>2. CASE Blanks
    <3>1. PICK f \in final : f.decision = d
      BY <2>2 DEF Blanks, Backed
    <3>2. [f EXCEPT !.risk = None].decision = d
      BY <3>1 DEF Base, RowsOK, FinalRow
    <3> QED BY <2>2, <3>2 DEF Blanks
  <2>3. ASSUME NEW s \in Sessions, DecideFinally(s)
        PROVE  \E f \in final' : f.decision = d
    <3>1. PICK f \in FinalRow :
             /\ final = {} /\ final' = {f}
             /\ status' = Saved(sess[s].status, Outcome[f.decision])
      BY <2>3, DecisionRow
    <3>2. status # Outcome[d]
      BY <3>1 DEF Backed
    <3>3. Outcome[f.decision] = Outcome[d]
      BY <3>1, <3>2 DEF Saved
    <3>4. f.decision = d
      BY <3>3 DEF Outcome, FinalDecisions, Decisions, FinalRow
    <3> QED BY <3>1, <3>4
  <2> QED BY <2>1, <2>2, <2>3, OutcomeEffects DEF OutcomeEffect
<1>3. Backed => TerminalStatusBacked
  BY DEF Backed, TerminalStatusBacked, FinalDecisions, Decisions, Outcome
<1> QED BY <1>1, <1>2, <1>3, BaseAlways, PTL DEF Spec

\* A final decision was made by the officer who holds the review, or by a
\* super admin, and its review is completed for good.
THEOREM DeciderIsReviewer == Spec => []DecidedByItsReviewer
<1>1. Init => DecidedByItsReviewer
  BY DEF Init, DecidedByItsReviewer
<1>2. Base /\ DecidedByItsReviewer /\ [Next]_vars => DecidedByItsReviewer'
  <2> SUFFICES ASSUME Base, DecidedByItsReviewer, [Next]_vars, NEW g \in final'
               PROVE  /\ review'[g.review].status = "completed"
                      /\ g.by = review'[g.review].reviewer \/ g.by \in Admins
    BY DEF DecidedByItsReviewer
  <2>1. ASSUME NEW f \in final, g.review = f.review, g.by = f.by
        PROVE  /\ review'[g.review].status = "completed"
               /\ g.by = review'[g.review].reviewer \/ g.by \in Admins
    <3>1. f.review \in Reviews
      BY DEF Base, RowsOK, FinalRow
    <3>2. /\ review'[f.review].status = "completed"
          /\ review'[f.review].reviewer = review[f.review].reviewer
      BY <3>1, ReviewEffects
      DEF ReviewEffect, Opens, Completes, DecidedByItsReviewer
    <3> QED BY <2>1, <3>2 DEF DecidedByItsReviewer
  <2>2. CASE Undecided
    BY <2>1, <2>2 DEF Undecided
  <2>3. CASE Blanks
    <3>1. PICK f \in final : g = [f EXCEPT !.risk = None]
      BY <2>3 DEF Blanks
    <3>2. g.review = f.review /\ g.by = f.by
      BY <3>1 DEF Base, RowsOK, FinalRow
    <3> QED BY <2>1, <3>2
  <2>4. ASSUME NEW s \in Sessions, DecideFinally(s)
        PROVE  /\ review'[g.review].status = "completed"
               /\ g.by = review'[g.review].reviewer \/ g.by \in Admins
    BY <2>4, DecisionRow DEF MayClose, MayDecide
  <2> QED BY <2>2, <2>3, <2>4, OutcomeEffects DEF OutcomeEffect
<1> QED BY <1>1, <1>2, BaseAlways, PTL DEF Spec

----------------------------------------------------------------------------
(* What a step can do to the citations: an assessment is only lost together *)
(* with its profile, and then the decision that cites it is blanked.        *)

\* Assessments stay, and so do the decisions that cite them.
Keeps ==
  /\ final' = final
  /\ dossier'.profile = dossier.profile
  /\ dossier'.risk >= dossier.risk

\* The first profile: there was no assessment to cite.
FirstProfile == final' = final /\ dossier.profile = 0

Refreshes == final' = {[f EXCEPT !.risk = None] : f \in final}

Cites(s) == DecideFinally(s) /\ UNCHANGED dossier

CitationEffect ==
  Keeps \/ FirstProfile \/ Refreshes \/ \E s \in Sessions : Cites(s)

LEMMA CitationEffects == Base /\ [Next]_vars => CitationEffect
<1> SUFFICES ASSUME Base, [Next]_vars PROVE CitationEffect
  OBVIOUS
<1> USE DEF CitationEffect
<1>0. dossier \in DossierRow /\ dossier.risk \in Nat
  BY ConstantsAssumption DEF Base, RowsOK, DossierRow
<1>1. ASSUME UNCHANGED <<dossier, final>> PROVE CitationEffect
  BY <1>0, <1>1 DEF Keeps
<1>2. CASE UNCHANGED vars
  BY <1>1, <1>2 DEF vars
<1>3. CASE DossierStep
  <2>1. CASE DocumentProcessed \/ DocumentRequeued
    BY <1>1, <2>1 DEF DocumentProcessed, DocumentRequeued
  <2>2. CASE RefreshProfile
    BY <2>2 DEF RefreshProfile, Refreshes
  <2>3. CASE RecalculateRisk
    BY <1>0, <2>3 DEF RecalculateRisk, Keeps, DossierRow
  <2>4. CASE ScheduleValidation
    <3>1. PICK k \in RunTypes : dossier' = [dossier EXCEPT !.runs[k] = "pending"]
      BY <2>4 DEF ScheduleValidation
    <3>2. final' = final
      BY <2>4 DEF ScheduleValidation
    <3> QED BY <1>0, <3>1, <3>2 DEF Keeps, DossierRow
  <2>5. CASE ExecuteValidation
    <3>1. PICK k \in RunTypes : dossier' = [dossier EXCEPT !.runs[k] = "settled"]
      BY <2>5 DEF ExecuteValidation
    <3>2. final' = final
      BY <2>5 DEF ExecuteValidation
    <3> QED BY <1>0, <3>1, <3>2 DEF Keeps, DossierRow
  <2> QED BY <1>3, <2>1, <2>2, <2>3, <2>4, <2>5 DEF DossierStep
<1>4. ASSUME NEW s \in Sessions, CaseStep(s) PROVE CitationEffect
  BY <1>1, <1>4 DEF CaseStep, OpenSubmit, SubmitCase, OpenUpload,
     UploadDocument, OpenDiscard, DeleteDocument, ReadOnly
<1>5. ASSUME NEW s \in Sessions, PipelineStep(s) PROVE CitationEffect
  <2>1. CASE PipelineMakesProfile(s)
    BY <2>1 DEF PipelineMakesProfile, FirstProfile
  <2>2. CASE PipelineAssesses(s)
    BY <1>0, <2>2 DEF PipelineAssesses, Keeps, DossierRow
  <2>3. CASE PipelinePromotes(s)
    BY <1>1, <2>3 DEF PipelinePromotes
  <2> QED BY <1>1, <1>5, <2>1, <2>2, <2>3
          DEF PipelineStep, OpenPipeline, PipelineFindsProfile, ReadinessHolds,
              ReadinessRunsPipeline, ReadOnly
<1>6. ASSUME NEW s \in Sessions, ReviewStep(s) PROVE CitationEffect
  <2>1. CASE DecideFinally(s)
    BY <2>1 DEF DecideFinally, Cites
  <2>2. CASE StartNewReview(s) \/ ResumeReview(s) \/ DecideRequestProof(s)
    BY <1>1, <2>2 DEF StartNewReview, ResumeReview, DecideRequestProof
  <2> QED BY <1>1, <1>6, <2>1, <2>2
          DEF ReviewStep, OpenStart, SelectOpenReview, OpenDecide, SelectReview,
              TakeSnapshot, ReadOnly
<1>7. ASSUME NEW s \in Sessions, ProofStep(s) PROVE CitationEffect
  BY <1>1, <1>7 DEF ProofStep, OpenCreateProof, CreateProof, OpenSettle,
     SelectRemaining, AcceptProof, CancelProof, ResolveProof, RejectProof,
     ReadOnly
<1>8. ASSUME NEW s \in Sessions, RollBack(s) PROVE CitationEffect
  BY <1>1, <1>8 DEF RollBack, ReadOnly
<1> QED BY <1>2, <1>3, <1>4, <1>5, <1>6, <1>7, <1>8 DEF Next

\* A final decision never cites an assessment that is gone: its foreign key
\* refuses a stale snapshot, and the cascade of a refresh blanks the citation.
THEOREM CitationsLive == Spec => []CitesLiveAssessment
<1>1. Init => CitesLiveAssessment
  BY DEF Init, CitesLiveAssessment
<1>2. Base /\ CitesLiveAssessment /\ [Next]_vars => CitesLiveAssessment'
  <2> SUFFICES ASSUME Base, CitesLiveAssessment, [Next]_vars,
                      NEW f \in final', f.risk # None
               PROVE  Live(f.risk)'
    BY DEF CitesLiveAssessment
  <2>0. dossier.risk \in Nat /\ final \subseteq FinalRow
    BY ConstantsAssumption DEF Base, RowsOK, DossierRow
  <2>1. CASE Keeps
    <3>1. f \in final /\ Live(f.risk)
      BY <2>1 DEF Keeps, CitesLiveAssessment
    <3>2. f.risk \in Assessments
      BY <2>0, <3>1 DEF FinalRow
    <3>3. f.risk.n \in Nat /\ dossier'.risk \in Nat
      BY <2>0, <3>2, NextBase, ConstantsAssumption
      DEF Assessments, Base, RowsOK, DossierRow
    <3> QED BY <2>0, <2>1, <3>1, <3>3 DEF Keeps, Live
  <2>2. CASE FirstProfile
    <3>1. f \in final /\ Live(f.risk)
      BY <2>2 DEF FirstProfile, CitesLiveAssessment
    <3>2. f.risk \in Assessments
      BY <2>0, <3>1 DEF FinalRow
    <3> QED BY <2>2, <3>1, <3>2 DEF FirstProfile, Live, Assessments
  <2>3. CASE Refreshes
    <3>1. PICK g \in final : f = [g EXCEPT !.risk = None]
      BY <2>3 DEF Refreshes
    <3> QED BY <2>0, <3>1 DEF FinalRow
  <2>4. ASSUME NEW s \in Sessions, Cites(s) PROVE Live(f.risk)'
    <3>1. f.risk = sess[s].risk
      BY <2>4, DecisionRow DEF Cites
    <3>2. Live(sess[s].risk)
      BY <2>4, <3>1 DEF Cites, DecideFinally, CitationsHold
    <3> QED BY <2>4, <3>1, <3>2 DEF Cites, Live
  <2> QED BY <2>1, <2>2, <2>3, <2>4, CitationEffects DEF CitationEffect
<1> QED BY <1>1, <1>2, BaseAlways, PTL DEF Spec

----------------------------------------------------------------------------
(* The refinement of DecisionRegister.                                      *)

\* While final_decisions has no row, no outcome was announced.
Unannounced == final = {} => Notices = {}

LEMMA UnannouncedStep == Base /\ Unannounced /\ [Next]_vars => Unannounced'
<1> SUFFICES ASSUME Base, Unannounced, [Next]_vars PROVE Unannounced'
  OBVIOUS
<1>1. CASE Undecided
  BY <1>1 DEF Undecided, Unannounced
<1>2. CASE Blanks
  BY <1>2 DEF Blanks, Unannounced, Notices
<1>3. ASSUME NEW s \in Sessions, DecideFinally(s) PROVE Unannounced'
  BY <1>3, DecisionRow DEF Unannounced
<1> QED BY <1>1, <1>2, <1>3, OutcomeEffects DEF OutcomeEffect

LEMMA RegisterInit == Init => Register!Init
BY DEF Init, Register!Init, Verdicts, Notices

LEMMA RegisterStep ==
  Base /\ Unannounced /\ [Next]_vars
    => [Register!Next]_<<Verdicts, Notices>>
<1> SUFFICES ASSUME Base, Unannounced, [Next]_vars
             PROVE  [Register!Next]_<<Verdicts, Notices>>
  OBVIOUS
<1>1. CASE Undecided
  BY <1>1 DEF Undecided, Verdicts
<1>2. CASE Blanks
  <2> DEFINE V(f) == [review |-> f.review, decision |-> f.decision,
                       by |-> f.by]
             Blank(f) == [f EXCEPT !.risk = None]
  <2>1. ASSUME NEW f \in final PROVE V(Blank(f)) = V(f)
    BY DEF Base, RowsOK, FinalRow
  <2>2. Verdicts' = Verdicts
    <3>1. Verdicts = {V(f) : f \in final}
      BY DEF Verdicts
    <3>2. Verdicts' = {V(g) : g \in final'}
      BY DEF Verdicts
    <3>3. final' = {Blank(f) : f \in final}
      BY <1>2 DEF Blanks
    <3> HIDE DEF V, Blank
    <3>4. {V(g) : g \in {Blank(f) : f \in final}} = {V(f) : f \in final}
      BY <2>1
    <3> QED BY <3>1, <3>2, <3>3, <3>4
  <2> QED BY <1>2, <2>2 DEF Blanks, Notices
<1>3. ASSUME NEW s \in Sessions, DecideFinally(s)
      PROVE  Register!Next
  <2>1. PICK f \in FinalRow :
           /\ final = {} /\ final' = {f}
           /\ events' = events \cup {[type |-> DecisionEvent[f.decision],
                                      ref  |-> f.review]}
    BY <1>3, DecisionRow
  <2> DEFINE v == [review |-> f.review, decision |-> f.decision, by |-> f.by]
  <2>2. v \in Register!Verdict
    BY DEF FinalRow, FinalDecisions, Register!Verdict
  <2>3. Verdicts = {} /\ Notices = {} /\ Verdicts' = {v}
    BY <2>1 DEF Verdicts, Unannounced
  <2>4. Register!NoticeOf(v) = [type |-> DecisionEvent[f.decision],
                                ref  |-> f.review]
    BY DEF Register!NoticeOf, DecisionEvent, FinalRow
  <2>5. DecisionEvent[f.decision] \in {"CaseApprovedEvent", "CaseRejectedEvent"}
    BY DEF DecisionEvent, FinalRow
  <2>6. Notices' = {Register!NoticeOf(v)}
    BY <2>1, <2>3, <2>4, <2>5 DEF Notices
  <2>7. Register!Decide(v)
    BY <2>3, <2>6 DEF Register!Decide
  <2> QED BY <2>2, <2>7 DEF Register!Next
<1> QED BY <1>1, <1>2, <1>3, OutcomeEffects DEF OutcomeEffect

\* The review workflow implements the write-once register: one outcome, one
\* announcement, in one step, for good.
THEOREM ImplementsRegister == Spec => ImplementsDecisionRegister
<1>1. Init => Unannounced
  BY DEF Init, Unannounced, Notices
<1> QED
  BY <1>1, UnannouncedStep, RegisterInit, RegisterStep, BaseAlways, PTL
  DEF Spec, ImplementsDecisionRegister, Register!Spec

=============================================================================
