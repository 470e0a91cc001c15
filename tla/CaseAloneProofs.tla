-------------------------- MODULE CaseAloneProofs --------------------------
(***************************************************************************)
(* What CaseLifecycle guarantees while requests on the case do not overlap *)
(* (one session at a time), for any number of officers, reviews and proof  *)
(* requests.                                                               *)
(***************************************************************************)
EXTENDS CaseLifecycleProofs

\* No two sessions are ever open at the same time.
OneSession == \A s, t \in Sessions : s = t

\* What the session has loaded is still so when it writes.
InStep(s) ==
  /\ sess[s].op \notin {"none", "upload", "discard"} => sess[s].status = status
  /\ sess[s].op = "submit" => status = "draft"
  /\ sess[s].op \in {"start", "decide", "create", "accept", "cancel", "reject"}
       => status \notin Terminal
  /\ sess[s].op = "start" /\ sess[s].rev # None => InProgress(sess[s].rev)
  /\ sess[s].op = "decide" /\ sess[s].pc # "select" => InProgress(sess[s].rev)
  /\ sess[s].op = "decide" /\ sess[s].pc = "snapshot" => dossier.risk > 0
  /\ sess[s].op = "decide" /\ sess[s].pc = "commit" => sess[s].risk # None
  /\ sess[s].op \in {"accept", "cancel", "reject"} => proof[sess[s].proof] = "open"
  /\ sess[s].op \in {"accept", "cancel"} /\ sess[s].pc = "commit"
       => (sess[s].clear <=> Remaining(sess[s].proof) = {})

\* A case that was not promoted yet waits for no proof either.
RowsInStep ==
  /\ UnderReviewHasReview
  /\ status \in Promotable \cup {"review_ready"} => \A p \in Proofs : proof[p] # "open"

AloneInv == RowsInStep /\ \A s \in Sessions : InStep(s)

\* A last answer to a request on the case queues it.
Answered ==
  (\E p \in Proofs : proof[p] = "open" /\ proof'[p] \in {"accepted", "cancelled"})
    => status' = "review_ready" \/ \E q \in Proofs : proof'[q] = "open"

\* What no step of a session takes back, or leaves undone.
Kept ==
  /\ Answered
  /\ status \in {"approved", "rejected"} => status' = status
  /\ \A p \in Proofs : proof[p] \in {"accepted", "rejected", "cancelled"}
                        => proof'[p] = proof[p]
  /\ \A r \in Reviews : review[r].status = "completed" => review'[r] = review[r]
  /\ \A f \in final' : final = {} => f.risk # None

-----------------------------------------------------------------------------
(* How steps treat the one session                                         *)

LEMMA AloneCloses ==
  ASSUME OneSession, Base, NEW s \in Sessions, Close(s)
  PROVE  \A t \in Sessions : InStep(t)'
<1>1. sess'[s].op = "none"
  BY DEF Close, Become, Base, Idle
<1> QED BY <1>1 DEF OneSession, InStep

LEMMA AloneReads ==
  ASSUME OneSession, AloneInv, NEW s \in Sessions, ReadOnly, InStep(s)'
  PROVE  AloneInv' /\ Kept
<1>1. \A t \in Sessions : InStep(t)'
  BY DEF OneSession
<1>2. RowsInStep'
  BY DEF ReadOnly, AloneInv, RowsInStep, UnderReviewHasReview, InProgress
<1>3. Kept
  BY DEF ReadOnly, Kept, Answered
<1> QED BY <1>1, <1>2, <1>3 DEF AloneInv

\* An assignment to cases.status takes effect.
LEMMA AloneSaves ==
  ASSUME NEW s \in Sessions, InStep(s),
         sess[s].op \notin {"none", "upload", "discard"}, NEW new
  PROVE  Saved(sess[s].status, new) = new
BY DEF InStep, Saved

-----------------------------------------------------------------------------
LEMMA CaseStepAlone ==
  ASSUME OneSession, Base, AloneInv, NEW s \in Sessions, CaseStep(s)
  PROVE  AloneInv' /\ Kept
<1>0. InStep(s) /\ RowsInStep
  BY DEF AloneInv
<1>1. CASE OpenSubmit(s)
  <2>1. /\ sess'[s] = [Idle EXCEPT !.op = "submit", !.pc = "commit", !.status = status]
        /\ ReadOnly /\ status = "draft"
    BY <1>1 DEF OpenSubmit, Open, Become, Base
  <2>2. InStep(s)'
    BY <2>1 DEF InStep, Idle, ReadOnly, Terminal
  <2> QED BY <2>1, <2>2, AloneReads
<1>2. CASE OpenUpload(s) \/ OpenDiscard(s)
  <2>1. /\ sess'[s].op \in {"upload", "discard"}
        /\ ReadOnly
    BY <1>2 DEF OpenUpload, OpenDiscard, Open, Become, Base, Idle
  <2>2. InStep(s)'
    BY <2>1 DEF InStep
  <2> QED BY <2>1, <2>2, AloneReads
<1>3. CASE SubmitCase(s)
  <2>1. status = "draft" /\ status' = "submitted" /\ Close(s)
        /\ UNCHANGED <<dossier, review, final, proof>>
    BY <1>0, <1>3, AloneSaves DEF SubmitCase, At, InStep
  <2>2. RowsInStep' /\ Kept
    BY <1>0, <2>1 DEF RowsInStep, UnderReviewHasReview, Kept, Answered, Promotable
  <2> QED BY <2>1, <2>2, AloneCloses DEF AloneInv
<1>4. CASE UploadDocument(s) \/ DeleteDocument(s)
  <2>1. Close(s) /\ UNCHANGED <<status, dossier, review, final, proof>>
    BY <1>4 DEF UploadDocument, DeleteDocument
  <2>2. RowsInStep' /\ Kept
    BY <1>0, <2>1 DEF RowsInStep, UnderReviewHasReview, Kept, Answered, InProgress
  <2> QED BY <2>1, <2>2, AloneCloses DEF AloneInv
<1> QED BY <1>1, <1>2, <1>3, <1>4 DEF CaseStep

LEMMA PipelineStepAlone ==
  ASSUME OneSession, Base, AloneInv, NEW s \in Sessions, PipelineStep(s)
  PROVE  AloneInv' /\ Kept
<1>0. InStep(s) /\ RowsInStep /\ sess[s] \in Session /\ SessionOK(s)
  BY DEF AloneInv, Base
<1>1. CASE OpenPipeline(s)
  <2>1. /\ sess'[s] = [Idle EXCEPT !.op = "pipeline", !.pc = "load", !.status = status]
        /\ ReadOnly
    BY <1>1 DEF OpenPipeline, Open, Become, Base
  <2>2. InStep(s)'
    BY <2>1 DEF InStep, Idle, ReadOnly
  <2> QED BY <2>1, <2>2, AloneReads
<1>2. CASE PipelineMakesProfile(s)
  <2>1. Close(s) /\ UNCHANGED <<status, review, final, proof>>
    BY <1>2 DEF PipelineMakesProfile
  <2>2. RowsInStep' /\ Kept
    BY <1>0, <2>1 DEF RowsInStep, UnderReviewHasReview, Kept, Answered, InProgress
  <2> QED BY <2>1, <2>2, AloneCloses DEF AloneInv
<1>3. CASE PipelineFindsProfile(s) \/ ReadinessRunsPipeline(s)
  <2>1. ReadOnly
    BY <1>3 DEF PipelineFindsProfile, ReadinessRunsPipeline
  <2>2. /\ sess'[s].pc \in {"assess", "load"}
        /\ sess'[s].op = sess[s].op /\ sess'[s].status = sess[s].status
        /\ sess'[s].rev = sess[s].rev /\ sess'[s].proof = sess[s].proof
    <3>1. CASE PipelineFindsProfile(s)
      <4>1. sess'[s] = [sess[s] EXCEPT !.pc = "assess", !.profile = dossier.profile]
        BY <3>1 DEF PipelineFindsProfile, Become, Base
      <4> QED BY <1>0, <4>1 DEF Session
    <3>2. CASE ReadinessRunsPipeline(s)
      <4>1. sess'[s] = [sess[s] EXCEPT !.pc = "load"]
        BY <3>2 DEF ReadinessRunsPipeline, Goto, Become, Base
      <4> QED BY <1>0, <4>1 DEF Session
    <3> QED BY <1>3, <3>1, <3>2
  <2>3. sess[s].pc # "select"
    BY <1>3 DEF PipelineFindsProfile, ReadinessRunsPipeline
  <2>4. InStep(s)'
    BY <1>0, <2>1, <2>2, <2>3 DEF InStep, ReadOnly, InProgress
  <2> QED BY <2>1, <2>4, AloneReads
<1>4. CASE PipelineAssesses(s)
  <2>1. UNCHANGED <<status, review, final, proof>>
    BY <1>4 DEF PipelineAssesses
  <2>2. /\ sess[s].pc = "assess" /\ sess'[s].pc = "promote"
        /\ sess'[s].op = sess[s].op /\ sess'[s].status = sess[s].status
        /\ sess'[s].rev = sess[s].rev /\ sess'[s].proof = sess[s].proof
    BY <1>0, <1>4 DEF PipelineAssesses, Become, Base, Session
  <2>3. InStep(s)'
    <3>1. sess[s].op \in {"start", "decide", "pipeline"}
      BY <1>0, <2>2 DEF SessionOK
    <3>2. /\ sess'[s].status = status'
          /\ sess'[s].op \in {"start", "decide"} => status' \notin Terminal
      BY <1>0, <2>1, <2>2, <3>1 DEF InStep
    <3>3. /\ sess'[s].op = "start" /\ sess'[s].rev # None => InProgress(sess[s].rev)'
          /\ sess'[s].op = "decide" => InProgress(sess[s].rev)'
      BY <1>0, <2>1, <2>2, <3>1 DEF InStep, InProgress
    <3>4. /\ sess'[s].op \in {"start", "decide", "pipeline"}
          /\ sess'[s].pc = "promote"
      BY <2>2, <3>1
    <3> QED BY ONLY <3>2, <3>3, <3>4 DEF InStep
  <2>4. RowsInStep' /\ Kept
    BY <1>0, <2>1 DEF RowsInStep, UnderReviewHasReview, Kept, Answered, InProgress
  <2> QED BY <2>3, <2>4 DEF AloneInv, OneSession
<1>5. CASE PipelinePromotes(s)
  <2> DEFINE promoted == IF sess[s].status \in Promotable
                         THEN "review_ready" ELSE sess[s].status
  <2>1. /\ sess[s].op \in {"start", "decide", "pipeline"}
        /\ sess[s].pc = "promote" /\ sess[s].status = status
        /\ status' = promoted
        /\ UNCHANGED <<dossier, review, final, proof>>
    BY <1>0, <1>5, AloneSaves DEF PipelinePromotes, SessionOK, InStep
  <2>2. RowsInStep' /\ Kept
    BY <1>0, <2>1 DEF RowsInStep, UnderReviewHasReview, Kept, Answered, InProgress, Promotable
  <2>3. CASE sess[s].op = "pipeline"
    BY <1>5, <2>2, <2>3, AloneCloses DEF PipelinePromotes, AloneInv
  <2>4. CASE sess[s].op # "pipeline"
    <3>1. /\ sess'[s].pc = "recheck" /\ sess'[s].status = promoted
          /\ sess'[s].op = sess[s].op
          /\ sess'[s].rev = sess[s].rev /\ sess'[s].proof = sess[s].proof
      <4>1. sess'[s] = [sess[s] EXCEPT !.pc = "recheck", !.status = promoted]
        BY <1>5, <2>4 DEF PipelinePromotes, Become, Base
      <4> QED BY <1>0, <4>1 DEF Session
    <3>2. InStep(s)'
      <4>1. status' \notin Terminal /\ status' = sess'[s].status
        BY <1>0, <2>1, <2>4, <3>1 DEF InStep, Terminal
      <4>2. sess'[s].rev # None /\ sess'[s].op = "start" => InProgress(sess[s].rev)'
        BY <1>0, <2>1, <3>1 DEF InStep, InProgress
      <4>3. sess'[s].op = "decide" => InProgress(sess[s].rev)'
        BY <1>0, <2>1, <3>1 DEF InStep, InProgress
      <4> HIDE DEF promoted
      <4> QED BY <2>1, <2>4, <3>1, <4>1, <4>2, <4>3 DEF InStep
    <3> QED BY <2>2, <3>2 DEF AloneInv, OneSession
  <2> QED BY <2>3, <2>4
<1>6. CASE ReadinessHolds(s)
  <2>1. ReadOnly /\ dossier.risk > 0 /\ sess[s].op \in {"start", "decide"}
    BY <1>0, <1>6 DEF ReadinessHolds, DossierComplete, SessionOK
  <2>2. /\ sess[s].pc \in {"check", "recheck"}
        /\ sess'[s].pc = (IF sess[s].op = "start" THEN "select" ELSE "snapshot")
        /\ sess'[s].op = sess[s].op /\ sess'[s].status = sess[s].status
        /\ sess'[s].rev = sess[s].rev /\ sess'[s].proof = sess[s].proof
    BY <1>0, <1>6, <2>1 DEF ReadinessHolds, NextOfCheck, Goto, Become, Base, Session
  <2>3. InStep(s)'
    BY <1>0, <2>1, <2>2 DEF InStep, ReadOnly, InProgress
  <2> QED BY <2>1, <2>3, AloneReads
<1> QED BY <1>1, <1>2, <1>3, <1>4, <1>5, <1>6 DEF PipelineStep

-----------------------------------------------------------------------------
LEMMA ReviewStepAlone ==
  ASSUME OneSession, Base, AloneInv, NEW s \in Sessions, ReviewStep(s)
  PROVE  AloneInv' /\ Kept
<1>0. InStep(s) /\ RowsInStep /\ sess[s] \in Session /\ SessionOK(s)
  BY DEF AloneInv, Base
<1>1. ASSUME NEW u \in Users, OpenStart(s, u) PROVE AloneInv' /\ Kept
  <2>1. /\ sess'[s] = [Idle EXCEPT !.op = "start", !.pc = "check", !.user = u,
                                   !.status = status]
        /\ ReadOnly /\ status \notin Terminal
    BY <1>1 DEF OpenStart, Open, Become, Base
  <2>2. InStep(s)'
    BY <2>1 DEF InStep, Idle, ReadOnly
  <2> QED BY <2>1, <2>2, AloneReads
<1>2. CASE SelectOpenReview(s)
  <2>1. ReadOnly /\ At(s, "start", "select")
    BY <1>2 DEF SelectOpenReview
  <2>2. \/ sess'[s] = [sess[s] EXCEPT !.pc = "commit"]
        \/ \E r \in Reviews :
             /\ InProgress(r)
             /\ sess'[s] = [sess[s] EXCEPT !.pc = "commit", !.rev = r]
    BY <1>2 DEF SelectOpenReview, Goto, Become, Base
  <2>3. InStep(s)'
    <3>1. CASE sess'[s] = [sess[s] EXCEPT !.pc = "commit"]
      BY <1>0, <2>1, <3>1 DEF InStep, ReadOnly, At, InProgress, Session
    <3>2. ASSUME NEW r \in Reviews, InProgress(r),
                 sess'[s] = [sess[s] EXCEPT !.pc = "commit", !.rev = r]
          PROVE  InStep(s)'
      BY <1>0, <2>1, <3>2 DEF InStep, ReadOnly, At, InProgress, Session
    <3> QED BY <2>2, <3>1, <3>2
  <2> QED BY <2>1, <2>3, AloneReads
<1>3. CASE StartNewReview(s)
  <2>1. /\ status \notin Terminal /\ status' = "under_review" /\ Close(s)
        /\ UNCHANGED <<final, proof>>
    BY <1>0, <1>3, AloneSaves DEF StartNewReview, At, InStep
  <2>2. PICK r \in Reviews :
          /\ review[r].status = "none"
          /\ review' = [review EXCEPT ![r] = [NoReview EXCEPT
                          !.status = "in_progress", !.reviewer = sess[s].user]]
    BY <1>3 DEF StartNewReview
  <2>3. review'[r].status = "in_progress" /\ \A q \in Reviews \ {r} : review'[q] = review[q]
    BY <2>2 DEF Base, RowsOK, NoReview
  <2>4. RowsInStep'
    BY <2>1, <2>3 DEF RowsInStep, UnderReviewHasReview, InProgress, Promotable
  <2>5. Kept
    BY <2>1, <2>2, <2>3 DEF Kept, Answered, Terminal
  <2> QED BY <2>1, <2>4, <2>5, AloneCloses DEF AloneInv
<1>4. CASE ResumeReview(s)
  <2>1. /\ status \notin Terminal /\ status' = "under_review" /\ Close(s)
        /\ InProgress(sess[s].rev) /\ sess[s].rev \in Reviews
        /\ UNCHANGED <<final, proof>>
    BY <1>0, <1>4, AloneSaves DEF ResumeReview, At, InStep, SessionOK, Holds
  <2>2. /\ review'[sess[s].rev].status = "in_progress"
        /\ \A q \in Reviews \ {sess[s].rev} : review'[q] = review[q]
    BY <1>4, <2>1 DEF ResumeReview, ResumedReview, InProgress, Base, RowsOK, ReviewRow
  <2>3. RowsInStep'
    BY <2>1, <2>2 DEF RowsInStep, UnderReviewHasReview, InProgress, Promotable
  <2>4. Kept
    BY <2>1, <2>2 DEF Kept, Answered, Terminal, InProgress
  <2> QED BY <2>1, <2>3, <2>4, AloneCloses DEF AloneInv
<1>5. ASSUME NEW u \in Users, NEW d \in Decisions, OpenDecide(s, u, d)
      PROVE  AloneInv' /\ Kept
  <2>1. /\ sess'[s] = [Idle EXCEPT !.op = "decide", !.pc = "select", !.user = u,
                                   !.status = status, !.decision = d]
        /\ ReadOnly /\ status \notin Terminal
    BY <1>5 DEF OpenDecide, Open, Become, Base
  <2>2. InStep(s)'
    BY <2>1 DEF InStep, Idle, ReadOnly
  <2> QED BY <2>1, <2>2, AloneReads
<1>6. CASE SelectReview(s)
  <2>1. ReadOnly /\ At(s, "decide", "select")
    BY <1>6 DEF SelectReview
  <2>2. PICK r \in Reviews :
          /\ InProgress(r)
          /\ sess'[s] = [sess[s] EXCEPT !.pc = "check", !.rev = r]
    BY <1>6 DEF SelectReview, Become, Base
  <2>3. InStep(s)'
    BY <1>0, <2>1, <2>2 DEF InStep, ReadOnly, At, InProgress, Session
  <2> QED BY <2>1, <2>3, AloneReads
<1>7. CASE TakeSnapshot(s)
  <2>1. ReadOnly /\ At(s, "decide", "snapshot") /\ dossier.risk > 0
    BY <1>0, <1>7 DEF TakeSnapshot, At, InStep
  <2>2. LatestRisk # None
    BY <2>1, CitationAssumption DEF LatestRisk, Base, RowsOK, DossierRow, Assessments
  <2>3. sess'[s] = [sess[s] EXCEPT !.pc = "commit", !.risk = LatestRisk,
                                   !.profile = CitedRuns]
    BY <1>7 DEF TakeSnapshot, Become, Base
  <2>4. InStep(s)'
    BY <1>0, <2>1, <2>2, <2>3 DEF InStep, ReadOnly, At, InProgress, Session
  <2> QED BY <2>1, <2>4, AloneReads
<1>8. ASSUME DecideFinally(s) \/ DecideRequestProof(s) PROVE AloneInv' /\ Kept
  <2>1. /\ At(s, "decide", "commit") /\ Close(s) /\ UNCHANGED proof
        /\ review' = [review EXCEPT ![sess[s].rev] = DecidedReview(s, @)]
    BY <1>8 DEF DecideFinally, DecideRequestProof
  <2>2. status' \in {"approved", "rejected", "proof_required"}
    BY <1>0, <1>8, <2>1, AloneSaves
    DEF DecideFinally, DecideRequestProof, At, Outcome, Decisions, FinalDecisions
  <2>3. /\ status \notin Terminal /\ InProgress(sess[s].rev)
        /\ sess[s].risk # None
    BY <1>0, <2>1 DEF At, InStep
  <2>4. \A q \in Reviews \ {sess[s].rev} : review'[q] = review[q]
    BY <2>1 DEF Base, RowsOK
  <2>5. \A f \in final' : final = {} => f.risk # None
    BY <1>8, <2>3 DEF DecideFinally, DecideRequestProof
  <2>6. RowsInStep'
    BY <2>2 DEF RowsInStep, UnderReviewHasReview, Promotable
  <2>7. Kept
    BY <2>1, <2>3, <2>4, <2>5 DEF Kept, Answered, Terminal, InProgress
  <2> QED BY <2>1, <2>6, <2>7, AloneCloses DEF AloneInv
<1> QED BY <1>1, <1>2, <1>3, <1>4, <1>5, <1>6, <1>7, <1>8 DEF ReviewStep

-----------------------------------------------------------------------------
LEMMA ProofStepAlone ==
  ASSUME OneSession, Base, AloneInv, NEW s \in Sessions, ProofStep(s)
  PROVE  AloneInv' /\ Kept
<1>0. InStep(s) /\ RowsInStep /\ sess[s] \in Session /\ SessionOK(s)
  BY DEF AloneInv, Base
<1>1. CASE OpenCreateProof(s)
  <2>1. /\ sess'[s] = [Idle EXCEPT !.op = "create", !.pc = "commit", !.status = status]
        /\ ReadOnly /\ status \notin Terminal
    BY <1>1 DEF OpenCreateProof, Open, Become, Base
  <2>2. InStep(s)'
    BY <2>1 DEF InStep, Idle, ReadOnly
  <2> QED BY <2>1, <2>2, AloneReads
<1>2. CASE CreateProof(s)
  <2>1. /\ status \notin Terminal /\ status' = "proof_required" /\ Close(s)
        /\ UNCHANGED <<review, final>>
    BY <1>0, <1>2, AloneSaves DEF CreateProof, At, InStep
  <2>2. \A p \in Proofs : proof'[p] = proof[p] \/ proof[p] = "none"
    BY <1>2 DEF CreateProof, Base, RowsOK
  <2>3. RowsInStep' /\ Kept
    BY <2>1, <2>2 DEF RowsInStep, UnderReviewHasReview, Promotable, Kept, Answered, Terminal
  <2> QED BY <2>1, <2>3, AloneCloses DEF AloneInv
<1>3. ASSUME NEW p \in Proofs, NEW verb \in {"accept", "cancel", "reject"},
             NEW pc \in {"select", "commit"}, OpenSettle(s, p, verb, pc),
             pc = "commit" => verb = "reject"
      PROVE  AloneInv' /\ Kept
  <2>1. /\ sess'[s] = [Idle EXCEPT !.op = verb, !.pc = pc, !.status = status,
                                   !.proof = p]
        /\ ReadOnly /\ status \notin Terminal /\ proof[p] = "open"
    BY <1>3 DEF OpenSettle, Open, Become, Base, Outstanding
  <2>2. InStep(s)'
    BY <1>3, <2>1 DEF InStep, Idle, ReadOnly
  <2> QED BY <2>1, <2>2, AloneReads
<1>4. CASE SelectRemaining(s)
  <2>1. ReadOnly /\ sess[s].op \in {"accept", "cancel"}
    BY <1>4 DEF SelectRemaining
  <2>2. sess'[s] = [sess[s] EXCEPT !.pc = "commit",
                                   !.clear = Remaining(sess[s].proof) = {}]
    BY <1>4 DEF SelectRemaining, Become, Base
  <2>3. InStep(s)'
    BY <1>0, <2>1, <2>2 DEF InStep, ReadOnly, Remaining, Session
  <2> QED BY <2>1, <2>3, AloneReads
<1>5. ASSUME NEW verb \in {"accept", "cancel"},
             NEW outcome \in {"accepted", "cancelled"}, NEW announced,
             ResolveProof(s, verb, outcome, announced)
      PROVE  AloneInv' /\ Kept
  <2>1. /\ At(s, verb, "commit") /\ Close(s) /\ UNCHANGED <<review, final>>
        /\ proof' = [proof EXCEPT ![sess[s].proof] = outcome]
    BY <1>5 DEF ResolveProof
  <2>2. /\ status \notin Terminal /\ proof[sess[s].proof] = "open"
        /\ sess[s].clear => Remaining(sess[s].proof) = {}
    BY <1>0, <2>1 DEF At, InStep
  <2>3. status' = IF sess[s].clear THEN "review_ready" ELSE status
    BY <1>0, <1>5, <2>1, AloneSaves DEF ResolveProof, At
  <2>4. /\ proof'[sess[s].proof] = outcome /\ sess[s].proof \in Proofs
        /\ \A q \in Proofs \ {sess[s].proof} : proof'[q] = proof[q]
    BY <1>0, <2>1 DEF At, SessionOK, Base, RowsOK
  <2>5. status' \in Promotable \cup {"review_ready"} => \A q \in Proofs : proof'[q] # "open"
    <3>1. CASE sess[s].clear
      BY <2>2, <2>4, <3>1 DEF Remaining, Outstanding
    <3>2. CASE ~ sess[s].clear
      BY <1>0, <2>2, <2>3, <2>4, <3>2 DEF RowsInStep
    <3> QED BY <3>1, <3>2
  <2>6. RowsInStep'
    BY <1>0, <2>1, <2>3, <2>5 DEF RowsInStep, UnderReviewHasReview, InProgress
  <2>7. Answered
    <3>1. CASE sess[s].clear
      BY <2>3, <3>1 DEF Answered
    <3>2. CASE ~ sess[s].clear
      <4>1. PICK q \in Proofs \ {sess[s].proof} : proof[q] = "open"
        BY <1>0, <2>1, <3>2 DEF At, InStep, Remaining, Outstanding
      <4> QED BY <2>4, <4>1 DEF Answered
    <3> QED BY <3>1, <3>2
  <2>8. Kept
    BY <2>1, <2>2, <2>4, <2>7 DEF Kept, Terminal, InProgress
  <2> QED BY <2>1, <2>6, <2>8, AloneCloses DEF AloneInv
<1>6. CASE RejectProof(s)
  <2>1. /\ At(s, "reject", "commit") /\ Close(s) /\ UNCHANGED <<review, final>>
        /\ proof' = [proof EXCEPT ![sess[s].proof] = "rejected"]
    BY <1>6 DEF RejectProof
  <2>2. status \notin Terminal /\ proof[sess[s].proof] = "open"
    BY <1>0, <2>1 DEF At, InStep
  <2>3. status' = "proof_required"
    BY <1>0, <1>6, <2>1, AloneSaves DEF RejectProof, At
  <2>4. \A q \in Proofs \ {sess[s].proof} : proof'[q] = proof[q]
    BY <2>1 DEF Base, RowsOK
  <2>5. RowsInStep' /\ Kept
    BY <2>1, <2>2, <2>3, <2>4
    DEF RowsInStep, UnderReviewHasReview, Promotable, Kept, Answered, Terminal
  <2> QED BY <2>1, <2>5, AloneCloses DEF AloneInv
<1> QED BY <1>1, <1>2, <1>3, <1>4, <1>5, <1>6 DEF ProofStep, AcceptProof, CancelProof

\* Everything without a step of its own needs a free session: the one there is.
LEMMA DossierStepAlone ==
  ASSUME OneSession, Base, AloneInv, DossierStep
  PROVE  AloneInv' /\ Kept
<1>1. UNCHANGED <<status, review, proof, sess>> /\ \A t \in Sessions : sess[t] = Idle
  BY DEF DossierStep, DocumentProcessed, DocumentRequeued, RefreshProfile,
         RecalculateRisk, ScheduleValidation, ExecuteValidation, SessionFree, OneSession
<1>2. \A t \in Sessions : InStep(t)'
  BY <1>1 DEF InStep, Idle
<1>3. final' = final \/ final' = {[f EXCEPT !.risk = None] : f \in final}
  BY DEF DossierStep, DocumentProcessed, DocumentRequeued, RefreshProfile,
         RecalculateRisk, ScheduleValidation, ExecuteValidation
<1>4. Kept
  BY <1>1, <1>3 DEF Kept, Answered
<1>5. RowsInStep'
  BY <1>1 DEF AloneInv, RowsInStep, UnderReviewHasReview, InProgress
<1> QED BY <1>2, <1>4, <1>5 DEF AloneInv

LEMMA NextAlone ==
  ASSUME OneSession, Base, AloneInv, [Next]_vars
  PROVE  AloneInv' /\ Kept
<1>1. CASE DossierStep
  BY <1>1, DossierStepAlone
<1>2. ASSUME NEW s \in Sessions, RollBack(s) PROVE AloneInv' /\ Kept
  <2>1. UNCHANGED <<status, dossier, review, final, proof>> /\ Close(s)
    BY <1>2 DEF RollBack, ReadOnly
  <2>2. RowsInStep' /\ Kept
    BY <2>1 DEF AloneInv, RowsInStep, UnderReviewHasReview, InProgress, Kept, Answered
  <2> QED BY <2>1, <2>2, AloneCloses DEF AloneInv
<1>3. CASE UNCHANGED vars
  <2>1. RowsInStep' /\ Kept
    BY <1>3 DEF vars, AloneInv, RowsInStep, UnderReviewHasReview, InProgress, Kept, Answered
  <2>2. \A s \in Sessions : InStep(s)'
    BY <1>3 DEF vars, AloneInv, InStep, InProgress, Remaining
  <2> QED BY <2>1, <2>2 DEF AloneInv
<1> QED BY <1>1, <1>2, <1>3, CaseStepAlone, PipelineStepAlone, ReviewStepAlone,
           ProofStepAlone DEF Next

-----------------------------------------------------------------------------
(* The theorems: one session works on the case at a time.                  *)

LEMMA InitAlone == Init => AloneInv
BY DEF Init, AloneInv, RowsInStep, UnderReviewHasReview, InStep, Idle

LEMMA AloneAlways ==
  ASSUME NEW a, Sessions = {a}
  PROVE  Spec => [](Base /\ AloneInv)
<1>1. OneSession
  BY DEF OneSession
<1>2. Base /\ AloneInv /\ [Next]_vars => Base' /\ AloneInv'
  BY <1>1, NextAlone, NextBase
<1> QED BY <1>2, InitAlone, InitBase, PTL DEF Spec

LEMMA KeptAlways ==
  ASSUME NEW a, Sessions = {a}
  PROVE  Spec => [][Kept]_vars
<1>1. OneSession
  BY DEF OneSession
<1>2. Base /\ AloneInv /\ [Next]_vars => [Kept]_vars
  BY <1>1, NextAlone
<1> QED BY <1>2, AloneAlways, PTL DEF Spec

\* While requests do not overlap, a case under review has an open review that
\* somebody can decide (start_review and submit_decision move both together).
THEOREM AloneReviewIsOpen ==
  ASSUME NEW a, Sessions = {a}
  PROVE  Spec => []UnderReviewHasReview
<1>1. Base /\ AloneInv => UnderReviewHasReview
  BY DEF AloneInv, RowsInStep
<1> QED BY <1>1, AloneAlways, PTL

\* While requests do not overlap, accept_proof_request and cancel_proof_request
\* queue a case for review only when none of its requests is open.
THEOREM AloneQueueIsClear ==
  ASSUME NEW a, Sessions = {a}
  PROVE  Spec => []QueuedCaseWaitsForNoProof
<1>1. Base /\ AloneInv => QueuedCaseWaitsForNoProof
  BY DEF AloneInv, RowsInStep, QueuedCaseWaitsForNoProof
<1> QED BY <1>1, AloneAlways, PTL

\* While requests do not overlap, no handler moves a case out of APPROVED or
\* REJECTED.
THEOREM AloneTerminal ==
  ASSUME NEW a, Sessions = {a}
  PROVE  Spec => TerminalIsForever
<1>1. [Kept]_vars => [(status \in {"approved", "rejected"}) => status' = status]_vars
  BY DEF Kept, Answered
<1> QED BY <1>1, KeptAlways, PTL DEF TerminalIsForever

\* While requests do not overlap, the acceptance or cancellation of the last open
\* request queues the case for review (accept_proof_request, cancel_proof_request).
THEOREM AloneLastAnswerReleases ==
  ASSUME NEW a, Sessions = {a}
  PROVE  Spec => LastAnswerReleasesCase
<1>1. [Kept]_vars
        => [(\E p \in Proofs : proof[p] = "open" /\ proof'[p] \in {"accepted", "cancelled"})
              => status' = "review_ready" \/ \E q \in Proofs : proof'[q] = "open"]_vars
  BY DEF Kept, Answered
<1> QED BY <1>1, KeptAlways, PTL DEF LastAnswerReleasesCase

\* While requests do not overlap, a settled proof request keeps its outcome.
THEOREM AloneProofStays ==
  ASSUME NEW a, Sessions = {a}
  PROVE  Spec => SettledProofStays
<1>1. [Kept]_vars
        => [\A p \in Proofs : proof[p] \in {"accepted", "rejected", "cancelled"}
              => proof'[p] = proof[p]]_vars
  BY DEF Kept, Answered
<1> QED BY <1>1, KeptAlways, PTL DEF SettledProofStays

\* While requests do not overlap, the decision of a completed review is final.
THEOREM AloneDecisionStays ==
  ASSUME NEW a, Sessions = {a}
  PROVE  Spec => CompletedDecisionStays
<1>1. [Kept]_vars => [\A r \in Reviews : review[r].status = "completed"
                         => review'[r] = review[r]]_vars
  BY DEF Kept, Answered
<1> QED BY <1>1, KeptAlways, PTL DEF CompletedDecisionStays

\* While requests do not overlap, submit_decision stores the assessment its
\* readiness check found.
THEOREM AloneDecisionRests ==
  ASSUME NEW a, Sessions = {a}
  PROVE  Spec => DecisionRestsOnAssessment
<1>1. [Kept]_vars => [\A f \in final' : final = {} => f.risk # None]_vars
  BY DEF Kept, Answered
<1> QED BY <1>1, KeptAlways, PTL DEF DecisionRestsOnAssessment
=============================================================================
