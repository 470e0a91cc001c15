--------------------------- MODULE CaseLifecycle ---------------------------
(***************************************************************************)
(* One property-verification case and the database sessions that work on   *)
(* it.  Cases share no row, so one case is enough.                         *)
(*                                                                         *)
(* Every API request and every background pipeline run owns one SQLAlchemy *)
(* session.  PostgreSQL runs it at READ COMMITTED and, case numbering      *)
(* apart, nothing takes a row lock before it reads: a request loads rows,  *)
(* checks them, awaits, and finally writes what it decided.  An operation  *)
(* is therefore a sequence of steps, one per read whose value is used      *)
(* later and one for the commit, and the steps of different sessions       *)
(* interleave.  Three facts of the session (db/session.py) matter:         *)
(*   - a row loaded once keeps its values for the whole session, even if   *)
(*     the same SELECT runs again (identity map, expire_on_commit=False);  *)
(*   - a column assigned the value it was loaded with is left out of the   *)
(*     UPDATE (Saved below);                                               *)
(*   - a constraint violated at flush or commit rolls everything back.     *)
(***************************************************************************)
EXTENDS Naturals

CONSTANTS Officers,     \* area officers assigned to the area of the case
          Admins,       \* super admins
          Sessions,     \* database sessions that may be open at one time
          Reviews,      \* identifiers case_reviews rows are given (a bound)
          Proofs,       \* identifiers proof_requests rows are given (a bound)
          None,         \* SQL NULL
          Ops,          \* the operations clients and workers call
          MaxProfiles,  \* bound on the profiles generated for the case
          MaxRisks      \* bound on the assessments made of one profile

AllOps == {"submit", "upload", "discard", "ocr", "start", "decide", "create",
           "accept", "cancel", "reject", "pipeline", "refresh", "recalculate",
           "schedule"}

Users == Officers \cup Admins

ASSUME ConstantsAssumption ==
  /\ Officers \cap Admins = {}
  /\ None \notin Users \cup Reviews \cup Proofs
  /\ Ops \subseteq AllOps
  /\ MaxProfiles \in Nat
  /\ MaxRisks \in Nat

VARIABLES status,   \* cases.status
          docs,     \* which kinds of live documents the case has
          dossier,  \* the property profile and what hangs off it
          review,   \* case_reviews, by identifier
          final,    \* the rows of final_decisions
          proof,    \* proof_requests.status, by identifier
          events,   \* outbox_events recorded for the case
          sess      \* the open sessions and what they have loaded

vars == <<status, docs, dossier, review, final, proof, events, sess>>

----------------------------------------------------------------------------
(* The rows.                                                               *)

Status == {"draft", "submitted", "processing", "extracted", "validating",
           "review_ready", "under_review", "proof_required", "approved",
           "rejected", "closed", "failed"}

\* (Broken: the guard forgets a status.)
TerminalForgets == {"approved", "closed"}

\* The statuses every handler refuses to work on.
Terminal == {"approved", "rejected", "closed"}

\* The statuses the pipeline promotes to review_ready.
Promotable == {"draft", "submitted", "processing"}

Decisions == {"approve", "reject", "request_proof"}
FinalDecisions == {"approve", "reject"}

\* (Broken: REQUEST_PROOF leaves the case in review.)
OutcomeStaysInReview ==
  [d \in Decisions |-> IF d = "approve" THEN "approved"
                       ELSE IF d = "reject" THEN "rejected"
                       ELSE "under_review"]

\* (Broken: the outcomes are swapped.)
OutcomeSwapped ==
  [d \in Decisions |-> IF d = "approve" THEN "rejected"
                       ELSE IF d = "reject" THEN "approved"
                       ELSE "proof_required"]

\* What a decision makes of the case.
Outcome ==
  [d \in Decisions |-> IF d = "approve" THEN "approved"
                       ELSE IF d = "reject" THEN "rejected"
                       ELSE "proof_required"]

\* Assessment n of the case's profile number p.
Assessments == [profile : 1..MaxProfiles, n : 1..MaxRisks]

ASSUME CitationAssumption == None \notin Assessments

ReviewRow == [status   : {"none", "in_progress", "completed"},
              reviewer : Users \cup {None},
              decision : Decisions \cup {None}]
NoReview == [status |-> "none", reviewer |-> None, decision |-> None]

FinalRow == [review : Reviews, decision : FinalDecisions, by : Users,
             risk : Assessments \cup {None}]

ProofStatus == {"none", "open", "accepted", "rejected", "cancelled"}
\* (Broken: an accepted request counts as waiting.)
OutstandingOrAccepted == {"open", "accepted"}

\* Requests that keep a case waiting.  SUBMITTED and UNDER_REVIEW belong here
\* too, but no code path that completes ever writes them.
Outstanding == {"open"}

\* How far the newest validation run of each type is. A run that ended in
\* ERROR or FAILED counts as settled.
RunTypes == {"database", "gis"}
RunState == {"missing", "pending", "settled"}

\* The number of the current profile (0: none), its newest validation runs and
\* how many assessments it has.
DossierRow == [profile : 0..MaxProfiles, runs : [RunTypes -> RunState],
               risk : 0..MaxRisks]
NoDossier == [profile |-> 0, runs |-> [k \in RunTypes |-> "missing"],
              risk |-> 0]

EventType == {"CaseApprovedEvent", "CaseRejectedEvent", "ProofRequestedEvent",
              "ProofAcceptedEvent", "ProofRejectedEvent"}
Event == [type : EventType, ref : Reviews \cup Proofs]

DecisionEvent == [d \in FinalDecisions |-> IF d = "approve"
                                           THEN "CaseApprovedEvent"
                                           ELSE "CaseRejectedEvent"]

\* A session: the operation it runs, the step it is at, and what it loaded.
Session == [op       : {"submit", "upload", "discard", "start", "decide",
                        "create", "accept", "cancel", "reject", "pipeline",
                        "none"},
            pc       : {"idle", "select", "check", "load", "assess",
                        "promote", "recheck", "snapshot", "commit"},
            user     : Users \cup {None},
            status   : Status,              \* cases.status as loaded
            rev      : Reviews \cup {None},
            decision : Decisions \cup {None},
            risk     : Assessments \cup {None},
            proof    : Proofs \cup {None},
            clear    : BOOLEAN,             \* no other request outstanding
            profile  : 0..MaxProfiles]      \* whose runs it writes or cites

Idle == [op |-> "none", pc |-> "idle", user |-> None, status |-> "draft",
         rev |-> None, decision |-> None, risk |-> None, proof |-> None,
         clear |-> FALSE, profile |-> 0]

TypeOK ==
  /\ status \in Status
  /\ docs \subseteq {"processed", "waiting"}
  /\ dossier \in DossierRow
  /\ review \in [Reviews -> ReviewRow]
  /\ final \subseteq FinalRow
  /\ proof \in [Proofs -> ProofStatus]
  /\ events \subseteq Event
  /\ sess \in [Sessions -> Session]

Init ==
  /\ status = "draft"
  /\ docs = {}
  /\ dossier = NoDossier
  /\ review = [r \in Reviews |-> NoReview]
  /\ final = {}
  /\ proof = [p \in Proofs |-> "none"]
  /\ events = {}
  /\ sess = [s \in Sessions |-> Idle]

----------------------------------------------------------------------------
(* What the sessions share.                                                *)

\* cases.status after a session that loaded `loaded` assigned `new` to it and
\* committed: an assignment that changes nothing is not sent.
Saved(loaded, new) == IF loaded = new THEN status ELSE new

\* Open reviews: status != 'completed'.
InProgress(r) == review[r].status = "in_progress"

\* (Broken: no partial unique index on case_reviews.)
ReviewSlotNotUnique == TRUE

\* uq_active_case_review lets a new open review in.
ReviewSlotFree == \A r \in Reviews : ~ InProgress(r)

\* (Broken: no unique constraint on final_decisions.case_id.)
DecisionSlotNotUnique == TRUE

\* The unique final_decisions.case_id lets a row in.
DecisionSlotFree == final = {}

\* The assessment is still there to be referenced.
Live(a) == a.profile = dossier.profile /\ a.n <= dossier.risk

\* (Broken: the risk assessment is not asked for.)
DossierWithoutRisk ==
  /\ dossier.profile > 0
  /\ \A k \in RunTypes : dossier.runs[k] = "settled"

\* What the rows of the dossier say about review readiness.
DossierComplete ==
  /\ dossier.profile > 0
  /\ \A k \in RunTypes : dossier.runs[k] = "settled"
  /\ dossier.risk > 0

\* (Broken: other requests are never found.)
RemainingNone(p) == {}

\* (Broken: the request that is answered counts as another one.)
RemainingWithItself(p) == {q \in Proofs : proof[q] \in Outstanding}

\* Requests of the case other than p that still wait for an answer.
Remaining(p) == {q \in Proofs \ {p} : proof[q] \in Outstanding}

At(s, op, pc) == sess[s].op = op /\ sess[s].pc = pc

\* Session s goes on with the record r.
Become(s, r) == sess' = [sess EXCEPT ![s] = r]

Open(s, fields) == sess[s] = Idle /\ Become(s, fields)

Goto(s, pc) == Become(s, [sess[s] EXCEPT !.pc = pc])

Close(s) == Become(s, Idle)

\* An operation whose reads matter to nobody once it commits runs in a session
\* of its own in one step.
SessionFree == \E s \in Sessions : sess[s] = Idle

\* A step that only reads.
ReadOnly == UNCHANGED <<status, docs, dossier, review, final, proof, events>>

\* get_db: the request ends and its open transaction leaves nothing behind. A
\* guard that does not hold raises an HTTPException, a constraint refuses the
\* flush, a validator raises, the connection is lost: the steps below are
\* simply not enabled then, and this one always is.
RollBack(s) ==
  /\ sess[s] # Idle
  /\ Close(s)
  /\ ReadOnly

----------------------------------------------------------------------------
(* Civilian: case and documents.                                           *)

OpenSubmit(s) ==
  /\ "submit" \in Ops
  /\ status = "draft"
  /\ Open(s, [Idle EXCEPT !.op = "submit", !.pc = "commit", !.status = status])
  /\ ReadOnly

SubmitCase(s) ==
  /\ At(s, "submit", "commit")
  /\ status' = Saved(sess[s].status, "submitted")
  /\ Close(s)
  /\ UNCHANGED <<docs, dossier, review, final, proof, events>>

OpenUpload(s) ==
  /\ "upload" \in Ops
  /\ status \in {"draft", "submitted"}
  /\ Open(s, [Idle EXCEPT !.op = "upload", !.pc = "commit"])
  /\ ReadOnly

UploadDocument(s) ==
  /\ At(s, "upload", "commit")
  /\ docs' = docs \cup {"waiting"}
  /\ Close(s)
  /\ UNCHANGED <<status, dossier, review, final, proof, events>>

OpenDiscard(s) ==
  /\ "discard" \in Ops
  /\ status = "draft"
  /\ docs # {}
  /\ Open(s, [Idle EXCEPT !.op = "discard", !.pc = "commit"])
  /\ ReadOnly

\* One document goes; others of its kind may remain.
DeleteDocument(s) ==
  /\ At(s, "discard", "commit")
  /\ \E kind \in {"processed", "waiting"} : docs' \in {docs, docs \ {kind}}
  /\ Close(s)
  /\ UNCHANGED <<status, dossier, review, final, proof, events>>

\* The OCR worker finishes a document.
DocumentProcessed ==
  /\ "ocr" \in Ops
  /\ SessionFree
  /\ "waiting" \in docs
  /\ docs' \in {{"processed"}, {"processed", "waiting"}}
  /\ UNCHANGED <<status, dossier, review, final, proof, events, sess>>

\* A processed document is worked on again: two requests that queued it at the
\* same time created two jobs.
DocumentRequeued ==
  /\ "ocr" \in Ops
  /\ SessionFree
  /\ "processed" \in docs
  /\ docs' \in {{"waiting"}, {"processed", "waiting"}}
  /\ UNCHANGED <<status, dossier, review, final, proof, events, sess>>

----------------------------------------------------------------------------
(* The property profile, its validation runs and risk assessments.         *)

\* POST .../property-profile/refresh by anyone with access, in any status: the
\* old profile is deleted, and with it, by ON DELETE CASCADE, its validation
\* runs and assessments; final_decisions.risk_assessment_id is SET NULL.
RefreshProfile ==
  /\ "refresh" \in Ops
  /\ SessionFree
  /\ "processed" \in docs
  /\ dossier.profile < MaxProfiles
  /\ dossier' = [NoDossier EXCEPT !.profile = dossier.profile + 1]
  /\ final' = {[f EXCEPT !.risk = None] : f \in final}
  /\ UNCHANGED <<status, docs, review, proof, events, sess>>

\* POST .../risk/calculate by an officer: one more assessment of the profile.
RecalculateRisk ==
  /\ "recalculate" \in Ops
  /\ SessionFree
  /\ dossier.profile > 0
  /\ dossier.risk < MaxRisks
  /\ dossier' = [dossier EXCEPT !.risk = @ + 1]
  /\ UNCHANGED <<status, docs, review, final, proof, events, sess>>

\* POST .../validation-runs by an officer: the newest run of that type is
\* PENDING until the worker has executed it.
ScheduleValidation ==
  /\ "schedule" \in Ops
  /\ SessionFree
  /\ dossier.profile > 0
  /\ \E k \in RunTypes : dossier' = [dossier EXCEPT !.runs[k] = "pending"]
  /\ UNCHANGED <<status, docs, review, final, proof, events, sess>>

ExecuteValidation ==
  /\ SessionFree
  /\ \E k \in RunTypes :
       /\ dossier.runs[k] = "pending"
       /\ dossier' = [dossier EXCEPT !.runs[k] = "settled"]
  /\ UNCHANGED <<status, docs, review, final, proof, events, sess>>

----------------------------------------------------------------------------
(* execute_automated_pipeline: run by the extraction worker in a session   *)
(* of its own, and by is_ready_for_review inside the session of a request. *)

\* The worker's session loads the case.
OpenPipeline(s) ==
  /\ "pipeline" \in Ops
  /\ "processed" \in docs
  /\ Open(s, [Idle EXCEPT !.op = "pipeline", !.pc = "load", !.status = status])
  /\ ReadOnly

\* No profile yet: generate_profile commits one and then, called without a
\* user, raises in verify_case_access. The pipeline returns False and the
\* caller does not find the case ready.
PipelineMakesProfile(s) ==
  /\ sess[s].pc = "load"
  /\ "processed" \in docs
  /\ dossier.profile = 0
  /\ dossier.profile < MaxProfiles
  /\ dossier' = [NoDossier EXCEPT !.profile = 1]
  /\ Close(s)
  /\ UNCHANGED <<status, docs, review, final, proof, events>>

PipelineFindsProfile(s) ==
  /\ sess[s].pc = "load"
  /\ "processed" \in docs
  /\ dossier.profile > 0
  /\ Become(s, [sess[s] EXCEPT !.pc = "assess", !.profile = dossier.profile])
  /\ ReadOnly

\* The validation runs and the new assessment are committed together by the
\* risk engine; their foreign key needs the profile to be still there.
PipelineAssesses(s) ==
  /\ sess[s].pc = "assess"
  /\ sess[s].profile = dossier.profile
  /\ dossier.risk < MaxRisks
  /\ dossier' = [dossier EXCEPT !.runs = [k \in RunTypes |-> "settled"],
                              !.risk = @ + 1]
  /\ Become(s, [sess[s] EXCEPT !.pc = "promote", !.profile = 0])
  /\ UNCHANGED <<status, docs, review, final, proof, events>>

\* A second commit promotes the case, judged by the status the session loaded
\* when it began.
PipelinePromotes(s) ==
  LET promoted == IF sess[s].status \in Promotable THEN "review_ready"
                                                   ELSE sess[s].status
  IN /\ sess[s].pc = "promote"
     /\ status' = Saved(sess[s].status, promoted)
     /\ IF sess[s].op = "pipeline"
        THEN Close(s)
        ELSE Become(s, [sess[s] EXCEPT !.pc = "recheck", !.status = promoted])
     /\ UNCHANGED <<docs, dossier, review, final, proof, events>>

\* is_ready_for_review, then the next step of the operation that asked.
NextOfCheck == [op \in {"start", "decide"} |->
                  IF op = "start" THEN "select" ELSE "snapshot"]

\* The documents are looked at once, the rest again after the pipeline ran.
DocumentsPass(s) == sess[s].pc = "check" => docs = {"processed"}

ReadinessHolds(s) ==
  /\ sess[s].pc \in {"check", "recheck"}
  /\ DocumentsPass(s)
  /\ DossierComplete
  /\ Goto(s, NextOfCheck[sess[s].op])
  /\ ReadOnly

\* Documents are processed but something is missing: run the pipeline here.
ReadinessRunsPipeline(s) ==
  /\ sess[s].pc \in {"check", "recheck"}
  /\ DocumentsPass(s)
  /\ ~ DossierComplete
  /\ Goto(s, "load")
  /\ ReadOnly

----------------------------------------------------------------------------
(* Officers: the review session.                                           *)

OpenStart(s, u) ==
  /\ "start" \in Ops
  /\ status \notin Terminal
  /\ Open(s, [Idle EXCEPT !.op = "start", !.pc = "check", !.user = u,
                          !.status = status])
  /\ ReadOnly

\* (Broken: any officer may take an open review.)
MayTakeAny(u, r) == TRUE

\* The open review, if there is one, stays with the officer who has it.
MayTake(u, r) == review[r].reviewer \in {u, None}

SelectOpenReview(s) ==
  /\ At(s, "start", "select")
  /\ \/ /\ ReviewSlotFree
        /\ Goto(s, "commit")
     \/ \E r \in Reviews :
          /\ InProgress(r)
          /\ MayTake(sess[s].user, r)
          /\ Become(s, [sess[s] EXCEPT !.pc = "commit", !.rev = r])
  /\ ReadOnly

StartNewReview(s) ==
  /\ At(s, "start", "commit")
  /\ sess[s].rev = None
  /\ ReviewSlotFree
  /\ \E r \in Reviews :
       /\ review[r].status = "none"
       /\ review' = [review EXCEPT ![r] = [NoReview EXCEPT
                         !.status = "in_progress", !.reviewer = sess[s].user]]
  /\ status' = Saved(sess[s].status, "under_review")
  /\ Close(s)
  /\ UNCHANGED <<docs, dossier, final, proof, events>>

\* (Broken: the status column is always written.)
ReopenedReview(s, row) == [row EXCEPT !.reviewer = sess[s].user,
                                      !.status = "in_progress"]

\* The review row was loaded IN_PROGRESS: assigning IN_PROGRESS again sends no
\* status column, only the reviewer.
ResumedReview(s, row) == [row EXCEPT !.reviewer = sess[s].user]

ResumeReview(s) ==
  /\ At(s, "start", "commit")
  /\ sess[s].rev # None
  /\ review' = [review EXCEPT ![sess[s].rev] = ResumedReview(s, @)]
  /\ status' = Saved(sess[s].status, "under_review")
  /\ Close(s)
  /\ UNCHANGED <<docs, dossier, final, proof, events>>

OpenDecide(s, u, d) ==
  /\ "decide" \in Ops
  /\ status \notin Terminal
  /\ Open(s, [Idle EXCEPT !.op = "decide", !.pc = "select", !.user = u,
                          !.status = status, !.decision = d])
  /\ ReadOnly

\* (Broken: officers decide any open review.)
MayDecideAny(u, r) == TRUE

\* Officers decide the reviews they own; super admins any.
MayDecide(u, r) == u \in Admins \/ review[r].reviewer = u

SelectReview(s) ==
  /\ At(s, "decide", "select")
  /\ \E r \in Reviews :
       /\ InProgress(r)
       /\ MayDecide(sess[s].user, r)
       /\ Become(s, [sess[s] EXCEPT !.pc = "check", !.rev = r])
  /\ ReadOnly

\* The newest assessment, if there still is one.
LatestRisk == IF dossier.risk = 0
              THEN None
              ELSE [profile |-> dossier.profile, n |-> dossier.risk]

\* The profile whose validation runs the decision cites, 0 if it has none.
CitedRuns == IF \A k \in RunTypes : dossier.runs[k] = "missing"
             THEN 0
             ELSE dossier.profile

TakeSnapshot(s) ==
  /\ At(s, "decide", "snapshot")
  /\ Become(s, [sess[s] EXCEPT !.pc = "commit", !.risk = LatestRisk,
                               !.profile = CitedRuns])
  /\ ReadOnly

\* (Broken: the status of the case is stored as the decision.)
DecidedReviewMixedUp(s, row) ==
  [row EXCEPT !.status = "completed", !.decision = Outcome[sess[s].decision]]

\* The review row as the decision leaves it.
DecidedReview(s, row) ==
  [row EXCEPT !.status = "completed", !.decision = sess[s].decision]

\* (Broken: no foreign keys.)
CitationsUnchecked(s) == TRUE

\* The foreign keys of the snapshot: what it cites is still there.
CitationsHold(s) ==
  /\ sess[s].risk # None => Live(sess[s].risk)
  /\ sess[s].profile \in {0, dossier.profile}

\* APPROVE or REJECT: review, case, final decision and outbox event in one
\* transaction.
DecideFinally(s) ==
  /\ At(s, "decide", "commit")
  /\ sess[s].decision \in FinalDecisions
  /\ DecisionSlotFree
  /\ CitationsHold(s)
  /\ review' = [review EXCEPT ![sess[s].rev] = DecidedReview(s, @)]
  /\ status' = Saved(sess[s].status, Outcome[sess[s].decision])
  /\ final' = final \cup {[review |-> sess[s].rev, by |-> sess[s].user,
                           decision |-> sess[s].decision,
                           risk |-> sess[s].risk]}
  /\ events' = events \cup {[type |-> DecisionEvent[sess[s].decision],
                             ref |-> sess[s].rev]}
  /\ Close(s)
  /\ UNCHANGED <<docs, dossier, proof>>

\* REQUEST_PROOF completes the review and asks; it creates no proof request.
DecideRequestProof(s) ==
  /\ At(s, "decide", "commit")
  /\ sess[s].decision = "request_proof"
  /\ CitationsHold(s)
  /\ review' = [review EXCEPT ![sess[s].rev] = DecidedReview(s, @)]
  /\ status' = Saved(sess[s].status, Outcome["request_proof"])
  /\ Close(s)
  /\ UNCHANGED <<docs, dossier, final, proof, events>>

----------------------------------------------------------------------------
(* Officers: proof requests.                                               *)

OpenCreateProof(s) ==
  /\ "create" \in Ops
  /\ status \notin Terminal
  /\ Open(s, [Idle EXCEPT !.op = "create", !.pc = "commit", !.status = status])
  /\ ReadOnly

CreateProof(s) ==
  /\ At(s, "create", "commit")
  /\ \E p \in Proofs :
       /\ proof[p] = "none"
       /\ proof' = [proof EXCEPT ![p] = "open"]
       /\ events' = events \cup {[type |-> "ProofRequestedEvent", ref |-> p]}
  /\ status' = Saved(sess[s].status, "proof_required")
  /\ Close(s)
  /\ UNCHANGED <<docs, dossier, review, final>>

\* accept, cancel and reject all want a request that is not settled.
OpenSettle(s, p, verb, pc) ==
  /\ verb \in Ops
  /\ status \notin Terminal
  /\ proof[p] \in Outstanding
  /\ Open(s, [Idle EXCEPT !.op = verb, !.pc = pc, !.status = status,
                          !.proof = p])
  /\ ReadOnly

\* accept and cancel look for other requests in a query of its own.
SelectRemaining(s) ==
  /\ sess[s].op \in {"accept", "cancel"}
  /\ sess[s].pc = "select"
  /\ Become(s, [sess[s] EXCEPT !.pc = "commit",
                               !.clear = Remaining(sess[s].proof) = {}])
  /\ ReadOnly

\* Without others the case goes back to the review queue.
ResolveProof(s, verb, outcome, announced) ==
  /\ At(s, verb, "commit")
  /\ proof' = [proof EXCEPT ![sess[s].proof] = outcome]
  /\ status' = IF sess[s].clear THEN Saved(sess[s].status, "review_ready")
                                ELSE status
  /\ events' = events \cup announced
  /\ Close(s)
  /\ UNCHANGED <<docs, dossier, review, final>>

AcceptProof(s) ==
  ResolveProof(s, "accept", "accepted",
               {[type |-> "ProofAcceptedEvent", ref |-> sess[s].proof]})

CancelProof(s) == ResolveProof(s, "cancel", "cancelled", {})

RejectProof(s) ==
  /\ At(s, "reject", "commit")
  /\ proof' = [proof EXCEPT ![sess[s].proof] = "rejected"]
  /\ status' = Saved(sess[s].status, "proof_required")
  /\ events' = events \cup {[type |-> "ProofRejectedEvent",
                             ref |-> sess[s].proof]}
  /\ Close(s)
  /\ UNCHANGED <<docs, dossier, review, final>>

----------------------------------------------------------------------------
CaseStep(s) ==
  \/ OpenSubmit(s) \/ SubmitCase(s)
  \/ OpenUpload(s) \/ UploadDocument(s)
  \/ OpenDiscard(s) \/ DeleteDocument(s)

PipelineStep(s) ==
  \/ OpenPipeline(s) \/ PipelineMakesProfile(s) \/ PipelineFindsProfile(s)
  \/ PipelineAssesses(s) \/ PipelinePromotes(s)
  \/ ReadinessHolds(s) \/ ReadinessRunsPipeline(s)

ReviewStep(s) ==
  \/ \E u \in Users : OpenStart(s, u)
  \/ SelectOpenReview(s) \/ StartNewReview(s) \/ ResumeReview(s)
  \/ \E u \in Users, d \in Decisions : OpenDecide(s, u, d)
  \/ SelectReview(s) \/ TakeSnapshot(s)
  \/ DecideFinally(s) \/ DecideRequestProof(s)

ProofStep(s) ==
  \/ OpenCreateProof(s) \/ CreateProof(s)
  \/ \E p \in Proofs : \/ OpenSettle(s, p, "accept", "select")
                        \/ OpenSettle(s, p, "cancel", "select")
                        \/ OpenSettle(s, p, "reject", "commit")
  \/ SelectRemaining(s)
  \/ AcceptProof(s) \/ CancelProof(s) \/ RejectProof(s)

DossierStep ==
  \/ DocumentProcessed \/ DocumentRequeued \/ RefreshProfile \/ RecalculateRisk
  \/ ScheduleValidation \/ ExecuteValidation

Next ==
  \/ DossierStep
  \/ \E s \in Sessions : \/ CaseStep(s) \/ PipelineStep(s) \/ ReviewStep(s)
                         \/ ProofStep(s) \/ RollBack(s)

Spec == Init /\ [][Next]_vars

----------------------------------------------------------------------------
(* What holds whatever the sessions interleave.                            *)

\* A case has at most one open review: of two officers (or two requests of one
\* officer) who find none, uq_active_case_review lets only one insert.
OneOpenReview ==
  \A q, r \in Reviews : InProgress(q) /\ InProgress(r) => q = r

\* A case that reads approved or rejected has the final decision that says so.
TerminalStatusBacked ==
  /\ status = "approved" => \E f \in final : f.decision = "approve"
  /\ status = "rejected" => \E f \in final : f.decision = "reject"

\* A final decision belongs to a completed review and was made by the officer
\* who held it or by a super admin.
DecidedByItsReviewer ==
  \A f \in final :
     /\ review[f.review].status = "completed"
     /\ f.by = review[f.review].reviewer \/ f.by \in Admins

\* A final decision cites an assessment that exists, or none.
CitesLiveAssessment == \A f \in final : f.risk # None => Live(f.risk)

\* A completed review never opens again, although a start request may still
\* hold it as it was when it was open and write it back.
CompletedStaysCompleted ==
  [][\A r \in Reviews : review[r].status = "completed"
                         => review'[r].status = "completed"]_vars

\* "Acquire review lock": nobody takes over a review that has an officer.
ReviewLockHeld ==
  [][\A r \in Reviews : InProgress(r)
                         => review'[r].reviewer = review[r].reviewer]_vars

\* The outcome of the case is a write-once register, announced exactly once.
Verdicts ==
  {[review |-> f.review, decision |-> f.decision, by |-> f.by] : f \in final}
Notices == {e \in events : e.type \in {"CaseApprovedEvent", "CaseRejectedEvent"}}

Register == INSTANCE DecisionRegister WITH verdicts <- Verdicts,
                                           notices  <- Notices

ImplementsDecisionRegister == Register!Spec

----------------------------------------------------------------------------
(* What holds as long as requests on the case do not overlap.              *)

\* backend/README.md: "Terminal states (APPROVED, REJECTED) are immutable".
TerminalIsForever ==
  [][(status \in {"approved", "rejected"}) => status' = status]_vars

\* A case under review has an open review: whoever holds it can decide it.
UnderReviewHasReview ==
  status = "under_review" => \E r \in Reviews : InProgress(r)

\* A case back in the review queue waits for no proof, as a comment of
\* accept_proof_request has it: "All requests satisfied; transition case to review
\* ready".  Without overlap, that is: a request made between its query and its
\* commit is not seen.
QueuedCaseWaitsForNoProof ==
  status = "review_ready" => \A p \in Proofs : proof[p] # "open"

\* The answer that leaves no request open, an acceptance or a cancellation,
\* returns the case to the review queue: accept_proof_request and
\* cancel_proof_request see every other request as it is when they commit.
LastAnswerReleasesCase ==
  [][(\E p \in Proofs : proof[p] = "open" /\ proof'[p] \in {"accepted", "cancelled"})
      => status' = "review_ready" \/ \E q \in Proofs : proof'[q] = "open"]_vars

\* A settled proof request keeps its outcome.
SettledProofStays ==
  [][\A p \in Proofs : proof[p] \in {"accepted", "rejected", "cancelled"}
                        => proof'[p] = proof[p]]_vars

\* The decision on a completed review is not overwritten.
CompletedDecisionStays ==
  [][\A r \in Reviews : review[r].status = "completed"
                         => review'[r] = review[r]]_vars

\* APPROVE and REJECT rest on a risk assessment.
DecisionRestsOnAssessment ==
  [][\A f \in final' : final = {} => f.risk # None]_vars

----------------------------------------------------------------------------
(* What the repository says and the code does not do.                      *)

\* case_state_machine.py, ALLOWED_TRANSITIONS.
AllowedTransitions ==
  {<<"draft", "submitted">>, <<"submitted", "processing">>,
   <<"processing", "review_ready">>, <<"processing", "submitted">>,
   <<"review_ready", "under_review">>, <<"under_review", "approved">>,
   <<"under_review", "rejected">>, <<"under_review", "proof_required">>,
   <<"under_review", "review_ready">>, <<"proof_required", "review_ready">>,
   <<"proof_required", "under_review">>}

\* backend/README.md: "All state transitions are strictly governed by
\* CaseStateMachine".
StateMachineGoverns ==
  [][status' # status => <<status, status'>> \in AllowedTransitions]_vars

\* README.md: "Final decisions generate immutable snapshots".
SnapshotIsImmutable == [][final \subseteq final']_vars

\* proof_request_service.py: "All requests satisfied; transition case to
\* review ready". Once every request there is was accepted and no session is
\* open, the case does not wait for proof any more.
AcceptedProofsReleaseCase ==
  ( /\ \A s \in Sessions : sess[s] = Idle
    /\ \E p \in Proofs : proof[p] = "accepted"
    /\ \A p \in Proofs : proof[p] \in {"none", "accepted"} )
  => status # "proof_required"

=============================================================================
