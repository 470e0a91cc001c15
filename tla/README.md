# BhuRaksha: TLA+ models, model checking and proofs

BhuRaksha verifies property documents. A civilian opens a case and uploads
documents; background workers OCR them, extract fields, build a property
profile, validate it against government and parcel records and compute a risk
score; an area officer reviews the case, may ask for more proof, and approves or
rejects it. The backend (`src/backend`) is FastAPI over async SQLAlchemy and
PostgreSQL; `src/land-verify` is a stateless web client.

This directory specifies the part of that program in which things can go wrong
between two requests, and the computations the verdicts rest on; it checks both
with TLC and proves the main invariants with TLAPS.

## Inventory

How the parts interact: every API request and every background job opens one
`AsyncSession` (`app/db/session.py`, READ COMMITTED, `autoflush=False`,
`expire_on_commit=False`). Services read rows, check them, `await` other reads and
calls, assign attributes and commit. Except for case numbering
(`case_service.py:30`) nothing locks a row before it reads it and no row has a
version column, so **the database rows are the shared state and the steps between
two awaits are the atomic actions**. Constraints (unique indexes, foreign keys)
are the only other synchronisation.

| Component | State | Operations | Hard behaviour | What makes it correct |
|---|---|---|---|---|
| case lifecycle (`case_service`, `case_state_machine`, `case_access_service`) | `cases.status` | create, edit, submit | every other component assigns the same column, from copies loaded earlier | terminal statuses stay; each status is backed by the rows that justify it |
| review (`review_service`) | `case_reviews`, one open per case by index | start (take or resume), decide | two officers at once; a stale start against a decision | one open review, it keeps its officer, a completed one stays completed |
| final decision | `final_decisions`, unique per case | written by decide | approve against reject; cascade from the profile | written once, by the reviewer, announced once, citing something that exists |
| readiness and pipeline (`review_readiness`) | reads everything, writes profile, runs, assessments, status | `is_ready_for_review`, `execute_automated_pipeline` | runs in the worker's session and inside requests, commits half way, promotes by a stale status | a decision rests on an assessment |
| property profile, validation runs (`property_profile_service`) | `property_profiles`, `validation_runs` | generate, refresh, schedule, execute | refresh deletes the rows others cite, in any status | citations stay valid |
| proof requests (`proof_request_service`) | `proof_requests` | create, submit, accept, reject, cancel | write skew of two accepts; create against accept | a queued case waits for no proof, a settled request stays settled |
| outbox and notifications (`events/`, `outbox_worker`) | `outbox_events`, `notifications` | record, process a batch | duplicate workers, a batch that rolls back, attempt limit | each event is delivered once |
| documents, OCR, extraction (`document_*`, `extraction_service`, `document_worker`) | `documents`, `*_jobs`, `ocr_results`, `extracted_fields`, in-memory tasks, one semaphore | upload, delete, queue, execute, retry | duplicate jobs, crash of the process, deletion during a job | no processed document without its text, fields from that text, no job lost |
| property profile (`extraction_service`, `property_profile_service`) | `extracted_fields`, `property_profiles` | consolidate, generate | documents that contradict each other, of which the profile keeps the surest | what the profile drops makes no clean assessment |
| validation rules, matching, normalization | `validation_runs`, `validation_results` | search, select, compare | greedy pairing of owners, records that tie, results that are not checked | owners match when they are the same people, no ambiguous record is chosen |
| risk and mismatches (`services/risk`) | `risk_assessments`, `mismatches` | calculate | an assessment of runs that looked at nothing | an assessment without discrepancies means there are none |
| authentication (`auth_service`) | `refresh_tokens` | login, refresh, logout, change password | rotation race, revocation against rotation | one live token per login, none of a user who was shut out |
| users, officers, areas | `users`, `area_officer_assignments`, `areas` | register, (de)activate, promote, demote, assign, remove | write skew of two administrators, demotion against assignment | only officers have areas, an administrator is left |
| case numbering | `case_sequences` | next number | first case of a year | consecutive numbers, each once |
| audit, dashboards, imports, middleware, frontend, seed | append-only or read-only | - | - | - |

`PROJECT.json` lists every component with its status, and every hazard at the line
where it bites.

## Plan

1. **`CaseLifecycle`** with `DecisionRegister` as its abstract specification, and
   `CaseLifecycleProofs`: case, review, decision, proof requests, pipeline. *Done.*
2. **`Outbox`** with `Delivery` as its abstract specification, and `OutboxProofs`:
   events and notifications under several workers, batch rollback, retries with a
   limit, crashes, an administrator's retry. *Done.*
3. **`DocumentPipeline`** and `DocumentPipelineProofs`: documents, OCR and extraction
   jobs, in-memory tasks, the semaphore, restarts. *Done.*
4. **`Accounts`** (tokens, activation, roles, areas), **`CaseNumbering`** (the locked
   sequence row), their composition **`Administration`**, and `AdministrationProofs`.
   *Done.*
5. **`Matching`**, **`ValidationRules`**, **`RiskScore`**, **`ProfileFields`** (the
   computations) and **`Assessment`** (the state they work on), with `FoldLemmas`,
   `MatchingProofs` and `AssessmentProofs`. *Done.*
6. **`CaseAloneProofs`**: the properties of `CaseLifecycle` that need requests not to
   overlap. *Done.*
7. Left: several permits of the semaphore; officers whose assignment is withdrawn during
   a review (`Accounts` composed with `CaseLifecycle`).

## Modules

### CaseLifecycle

One case and the sessions that work on it. Cases share no row, so one is enough.

| Variable | Code |
|---|---|
| `status` | `cases.status` |
| `docs` | which kinds of live documents the case has: some processed, some not yet |
| `dossier` | the current property profile (by number), the state of its newest validation run of each type, the number of its assessments |
| `review` | the rows of `case_reviews` |
| `final` | the rows of `final_decisions` |
| `proof` | `proof_requests.status` |
| `events` | the rows of `outbox_events` recorded for the case |
| `sess` | the open sessions: operation, step, user, and **the values loaded by earlier steps** |

Each operation is a chain of steps that ends with its commit:

| Operation | Steps |
|---|---|
| `submit_case` | `OpenSubmit`, `SubmitCase` |
| `upload_document`, `delete_document` | `OpenUpload`, `UploadDocument`; `OpenDiscard`, `DeleteDocument` |
| `start_review` | `OpenStart`, readiness, `SelectOpenReview`, `StartNewReview` or `ResumeReview` |
| `submit_decision` | `OpenDecide`, `SelectReview`, readiness, `TakeSnapshot`, `DecideFinally` or `DecideRequestProof` |
| readiness | `ReadinessHolds`, or `ReadinessRunsPipeline` and then the pipeline in the same session |
| pipeline | `OpenPipeline` (worker only), `PipelineMakesProfile` or `PipelineFindsProfile`, `PipelineAssesses` (the risk engine's commit), `PipelinePromotes` (the second commit) |
| proof requests | `OpenCreateProof`, `CreateProof`; `OpenSettle`, `SelectRemaining`, then `AcceptProof`, `CancelProof` or `RejectProof` |
| profile refresh, risk recalculation, scheduling and executing validation, OCR outcome | one step each, in a session of its own |

Three facts of SQLAlchemy and PostgreSQL decide what a stale session can do, and
are modelled: a row loaded once keeps its values for the session; an attribute
assigned the value it was loaded with is left out of the `UPDATE` (`Saved`,
`ResumedReview`: this is why a stale start cannot reopen a completed review); and a
constraint that fails rolls the whole transaction back. `RollBack` is enabled in every
step of every session and stands for all failures: a guard that raises an
`HTTPException`, a constraint, a validator or model server that fails, a lost
connection, a crash.

Abstractions:

- Documents are reduced to the two kinds readiness tells apart. A failed document
  counts as not yet processed.
- Readiness is evaluated in one step. Between its reads another session could
  change the dossier; what it could change is also changed right after it.
- A validation run that ended in `FAILED` or `ERROR` counts as settled, as in
  `is_ready_for_review`.
- A worker step or an officer's call whose reads influence nothing later
  (`RefreshProfile`, `RecalculateRisk`, ...) is one step; it needs a free session, so
  that with one session nothing overlaps.
- `submit_proof` always raises before its commit, so `SUBMITTED` proof requests do
  not exist; accept and reject are therefore called on open requests.
- `PipelineMakesProfile` ends the pipeline: `generate_profile` commits and then reads
  the profile back with `user=None`, which raises; the caller sees "not ready".
- Titles, descriptions, reasons, audit and history rows are left out.
- The officers of the model are assigned to the case's area throughout.

### DecisionRegister

What the review workflow promises about the outcome: a register written once, by one
user for one review, and in the same step exactly one event that announces it.
`CaseLifecycle` implements it with `verdicts` read off `final_decisions` (without the
citations, which a cascade may null) and `notices` read off `outbox_events`
(`ImplementsDecisionRegister`).

### MCCaseLifecycle

Operation sets and the symmetry set of the runs. Sessions, officers, reviews and
proof requests are only compared for equality, so permuting them is sound; the runs
that use symmetry check no liveness.

### Outbox

The events of all cases and the workers that deliver them. `CaseLifecycle` records
events in the transaction of the change they announce; here only the recording is
left (`RecordEvent`), and delivery begins.

| Variable | Code |
|---|---|
| `row` | `outbox_events`: status, `attempt_count`, whether `available_at` has passed |
| `notes` | the rows of `notifications` of each event |
| `batch` | per running `process_batch`: the events still to take, those taken (their rows are locked by the flush of `PROCESSING`), `attempt_count` as loaded |
| `retry` | failed events an administrator's `retry_failed_job` has loaded |
| `crashes` | counts crashes, for the bound |

| Step of the code | Action |
|---|---|
| `OutboxService.record_event` and the caller's commit | `RecordEvent` |
| `process_batch`: the `SELECT` | `LoadBatch` |
| one round of its loop, up to the handler | `TakeEvent` |
| its commit | `CommitBatch` |
| a flush or the commit hits `uq_notification_event_user` | `BatchRefused` |
| process or connection dies | `Crash` |
| `available_at` passes | `BackoffEnds` |
| `retry_failed_job` on an event: load and check, commit, or give up | `LoadFailed`, `RetryFailed`, `RetryGivenUp` |

Abstractions:

- A handler either adds one notification (the five that address the owner of a case)
  or raises every time (`Faulty`; `handle_proof_submitted` selects columns
  `AreaOfficerAssignment` does not have). Failures of the connection are `Crash`.
- `PROCESSING` is never committed by a batch, so no other session sees it: it is the
  row lock that is modelled.
- Events are numbered by `created_at`, taken to be distinct (microseconds); with
  equal times two batches could order the same two rows differently and
  `NoLockCycle` would be left to chance.
- `RecordEvent` may happen in any order: a transaction that started earlier may
  commit later.
- Backoff times are left out: an event that is to be retried becomes due eventually.

### Delivery

What the outbox promises: recorded events are announced at most once, unrecorded ones
and those that cannot be delivered never, and nothing is taken back. `Outbox`
implements it with `recorded` the events that have a row and `announced` the number of
notifications (`ImplementsDelivery`).

### MCOutbox

The faulty event of the runs. Events are ordered, so no symmetry is used.

### DocumentPipeline

One document and everything that is done to it in the background. `CaseLifecycle` sees
only whether its documents are processed; here is how they get there.

| Variable | Code |
|---|---|
| `doc` | the row of `documents`: status, `deleted_at` |
| `job` | `document_processing_jobs` and `extraction_jobs`, numbered by `created_at` |
| `row` | `ocr_results`: which job read each page |
| `fields` | `extracted_fields`: the run they come from and the text it read |
| `waiting`, `running` | the asyncio tasks that wait for `_semaphore`, and the one inside |
| `request` | per open request: operation, whether it has looked for a job yet, the document status it loaded |
| `faults` | counts faults, for the bound |

| Code | Action |
|---|---|
| the endpoints load the document | `LoadDocument` |
| `start_processing_job`, `start_extraction`: an active job, a processed document, none | `AnswerActive`, `AnswerProcessed`, `FindNoJob` |
| the commit, `enqueue_processing_job` | `CreateJob` |
| `delete_document` | `DeleteDocument` |
| a task gets the permit: the job is settled, the document is gone, or it starts | `SkipSettled`, `FailDeleted`, `StartTask` |
| `execute_job` (OCR): mark, delete old text, one page after the other, complete | `MarkOcr`, `CleanPages`, `ReadPage`, `CompleteOcr`, `FailOcr` |
| the extraction job an OCR task creates | `HandOver` |
| `execute_job` (extraction): mark and select, replace the fields, pipeline | `MarkExtract`, `SaveFields`, `FailExtract`, `EndPipeline` |
| the process restarts; a failure cannot be recorded | `Restart`, `FailUnrecorded` |

Abstractions: `OCR_MAX_CONCURRENCY` has its default, one permit (`config.py:61`). What a
page says is only *which job* read it. The pipeline at the end of an extraction is one
step here. `retry_failed_job` of an OCR job is no action: it assigns
`ProcessingStatus.PENDING`, which does not exist, and raises before it writes. A file
that is gone or corrupt is `FailOcr`. `FailUnrecorded` is a failure whose handler fails too:
the database is away, or it refused a row of an extraction in a flush, after which the
handlers (`extraction_service.py:667-681`, without a rollback) cannot commit; the job stays
`PROCESSING`.

### Accounts, CaseNumbering, Administration

`Accounts` has users (role, active), assignments of officers to areas, refresh tokens and
the open requests. Every operation is a `Load...` (what the request reads and checks) and
a commit (`IssueToken`, `Logout`, `ChangePassword`, `Activate`, `Deactivate`, `Promote`,
`Demote`, `Assign`, `Remove`) or `RollBack`; registration and creation of an officer
hang on the unique e-mail address and are one step. A token remembers the login it
descends from and whether it was asked for with the password its owner has now
(`current`). `serial` is a history variable: it is true until a request begins while
another is open, and the premise of what holds only without overlap.

`CaseNumbering` is `CaseService.create_case` for one year: `CountOn` is the `SELECT ...
FOR UPDATE` of an existing row, `FindNone` the same select without one, `InsertRow` and
`InsertRefused` the flush of the new row, `CommitCase` and `CaseRefused` the end.

`Administration` composes the two: a request either creates a case or is about
accounts, and who creates a case is an active civilian when the request begins.

Abstractions: expiry of tokens, hashes, profile fields and audit rows are left out. The
set of areas is fixed, since `update_area` and `deactivate_area` raise a `NameError`
(`Case`, `CaseStatus` are not imported) before they write.

### Matching, ValidationRules, RiskScore, ProfileFields

Operators only, one module per package of the code.

| Module | Code | Main operators |
|---|---|---|
| `Matching` | `matching/name_matcher.py`, `normalization/*` | `MatchNames`, `MatchOwnerSets` (the greedy pairing), `Within`, `TypedLike` |
| `ValidationRules` | `database_validator.py`, `rules.py`, `gis_validator.py`, `gis_rules.py` | `Candidates`, `CandidateScore`, `Selected`, `DatabaseOutcome`, `ParcelsFor`, `GisOutcome` |
| `RiskScore` | `services/risk/*` | `Points`, `FromResults`, `FromConflicts`, `Score`, `Level` |
| `ProfileFields` | `extraction_service.py`, `property_profile_service.py` | `Consolidated`, `RuleItems`, `Conflicts`, `ProfileOf` |

Text is abstracted to what a comparison tells apart: a token of a name is its first
letter and its rest, an identifier its normal form and whether it was typed with blanks
(the searches use `ilike` on the text, the comparison the normal form). Scores are in
hundredths.

### Assessment

The state these computations work on: `readings` (`extracted_fields` of every document),
`registry` and `parcels` (reference data, which administrators import at any time),
`profile`, `runs` (validation runs with their results) and the latest `assessment`.

| Code | Action |
|---|---|
| import of records, of parcels (linked by record id or survey number) | `ImportRecords`, `ImportParcel` |
| `run_job` of an extraction with the model's answer, or with the patterns | `Extract`, `ExtractByRules` |
| `generate_profile` / refresh | `GenerateProfile` |
| `schedule` a run, execute it | `ScheduleRun`, `ExecuteDatabaseRun`, `ExecuteGisRun` |
| `calculate_case_risk` | `CalculateRisk` |
| `execute_automated_pipeline` | `Pipeline` |

Every action is one transaction; how transactions overlap is the subject of
`CaseLifecycle` and `DocumentPipeline`. A run keeps the reference data its results quote
(`seen`). A profile has no point: `FieldRegistry` registers neither latitude nor
longitude, so the extraction drops them and every rule that needs a point has the one
outcome `NOT_CHECKED`.

### MCDocumentPipeline, MCAdministration, MCAssessment

The instances for TLC. `MCAssessment` chooses the texts: names that differ by an honorific,
by word order and by an initial, two records that are twins, nearly twins or ahead of one
another, a unit nobody converts, and two documents that agree, contradict each other or
say nothing about some fields.

### The proof modules

`CaseLifecycleProofs`, `CaseAloneProofs`, `OutboxProofs`, `DocumentPipelineProofs`,
`AdministrationProofs`, `FoldLemmas`, `MatchingProofs`, `AssessmentProofs`: see *Proofs*.

## Runs

| Run | Configuration | Shows |
|---|---|---|
| `case_sequential` | every operation, 1 session, 2 officers, 1 admin, 2 reviews, 2 proof requests, 2 profiles, 2 assessments | with requests that do not overlap: types; a case under review has an open review; a queued case waits for no proof, and the last answer to a request queues it; terminal statuses and settled requests stay; a verdict rests on an assessment |
| `case_concurrent` | review, decision, pipeline, upload, OCR, refresh; 2 sessions, 1 officer, 1 admin, 2 reviews | what holds under any interleaving: one open review, verdict and status agree, decider and reviewer agree, citations are live, completed reviews stay completed, the review lock, the refinement of `DecisionRegister` |
| `outbox_workers` | 3 events (one faulty), 3 workers, batches of 2, 2 attempts, 1 crash, fairness | with any overlap: types, no second notification, processed exactly when notified, attempts left while pending, no circle of row locks, the refinement of `Delivery`; every pending event is processed or fails in the end, if batches keep being started |
| `documents` | 1 document of 2 pages, 4 jobs, 2 requests, 2 waiting tasks, 1 fault, fairness | with overlapping requests and tasks: types; a processed document has its text, read by one job; settled jobs stay; a deleted document is left alone; without a fault no job is forgotten, the fields come from the current text, and every job settles although a task creates the next one while it holds the only permit |
| `administration` | 3 users (2 of them founders, the third logs in), 1 area, 2 tokens, 2 sessions, 2 cases | types; consecutive numbers under any overlap; who was shut out stays out; without overlap one live token per login, of an active user with the current password, areas only of officers, an administrator left |
| `rules` | 2 documents, 2 readings of a document, 2 records with several versions, 1 parcel with 2 versions, 2 runs | types, bounds of score and level; the greedy pairing of owners agrees with the existence of a one-to-one pairing; a chosen record has no twin, also where it is chosen among two candidates by the margin; an assessment without discrepancies means that record and parcel are what the profile states, and that the record bears out what every document says |
| `terminal_overwritten` (violation) | 2 sessions | a stale commit leaves a terminal status |
| `state_machine_bypassed` (violation) | 1 session | statuses assigned outside `CaseStateMachine`'s table |
| `snapshot_erased` (violation) | 1 session | a refreshed profile takes the cited assessment with it |
| `unit_ignored` (violation) | 2 documents, 1 record | documents that state different units are no conflict |
| `last_admin_leaves` (violation) | 2 founders, 2 sessions | overlapping deactivations leave no super admin |
| `accepts_cross` (violation) | 2 sessions, 2 proof requests | two accepts, each seeing the other's request open, leave the case waiting |

`case_sequential` and `case_concurrent` ask different questions on purpose: the
properties of the first group are false with two sessions (the violation runs
`terminal_overwritten` and `accepts_cross` show two of them, and the same stale commits
break the others), those of the second group are what the constraints still guarantee.

Bounds. A third session adds no new kind of conflict: every property relates the
rows one session loaded to one overlapping commit. `Reviews` and `Proofs` need two
(one settled, one open; two open at once); two profiles are one refresh; two
assessments let an old one be cited while a newer exists. Two officers are needed
where the sessions do not overlap, and one officer and one admin give the two
users that compete in `case_concurrent`. When a bound is reached the operation that
would exceed it is disabled.

For the outbox three workers are the smallest number with a lock circle that is more
than a pair, three events and batches of two make batches overlap without being
equal, and one faulty event between two others is enough for it to hold the others up.
The attempt limit is lowered to 2, a first and a last attempt, which is enough for a stale
count to wake an event that has failed; the theorems hold for every limit, also for the
code's 5. The number of events and of crashes is bounded, nothing else is.

For `documents`, four jobs are two OCR jobs with the extraction each hands over to, the
smallest number in which jobs of both kinds overlap; `RoomFor` keeps a place for that
extraction, so that the bound never stops a task. Two pages make text of two jobs mix.
For `administration`, two founders can deactivate each other, the third user goes through
all roles and is the one who logs in (`Clients`: the tokens of different users do not
meet, and administrators act without one here), and two tokens are a rotation. For
`rules`, the readings and records are few but differ in the ways listed under
`MCAssessment`, and a deed number puts one of two similar records ahead of the other by
the margin; two runs per profile are one of each type or two of one. Two documents are
one the profile is taken from and one that agrees with it or does not.

`CHECK_DEADLOCK FALSE`: a decided case whose identifiers are used up may rest, and so may
an outbox whose events are settled and a document that was deleted. In
`administration` two administrators may deactivate each other at the same time and nobody
may be left who could act. `rules` is checked for deadlock.

Fairness. `CaseLifecycle` has none: nothing in the code obliges a user to go on, and a
case may rest in any status. `Outbox!FairSpec` assumes weak fairness of the steps of a
batch that was begun (`TakeEvent`, `CommitBatch`, `BatchRefused`): asyncio runs every
task that can run and PostgreSQL grants a lock that is free; and of `BackoffEnds`: time
passes. That a batch is begun at all is not assumed, because nothing in the repository
but its tests calls `process_batch`; it is the premise `KeepsPolling` of
`EventsSettle`. No fairness is assumed of crashes or of the administrator.
`DocumentPipeline!FairSpec` assumes weak fairness of `TaskStep` alone: the event loop runs
a task that can run, and every call a task waits for has a timeout. `JobsSettle` is
about behaviours without a fault, because nothing recovers a job after a restart.

Two limits of what the outbox guarantees, seen while modelling. With several workers a
failed event may wake up without an administrator: a worker that loaded it earlier
writes its own, lower, attempt count and `pending` back. So `FailedWaitsForRetry` is
claimed, and proved, for one worker only, and `EventsSettle` shows that this cannot go on for
ever. And a batch may be refused only because another worker handled the same event
first (`NeverRefused` is proved for one worker); `ProcessedMeansNotified` shows that
the event is then processed and will not be loaded again.

Limits of the other components, seen while modelling; each is why a property has the
premise it has.

- *A case may wait for proof without a request*: rejecting the last request, or
  REQUEST_PROOF without one, leaves `proof_required`. An officer can always create and
  cancel a request, so this is no violation of a promise, and no fairness would make it
  a liveness property.
- *After a restart* a job stays `PROCESSING` (the document cannot be deleted any more) and
  requests for it are answered with that job. So `NothingForgotten` and `JobsSettle` are
  claimed without a fault.
- *Two requests may create two jobs* for one document, and a queued job gets one more
  task with every request. `SettledJobStays` and `ProcessedHasText` say that this does no
  lasting harm.
- *Overlapping administration*: two super admins may deactivate each other; a token that
  was loaded before a deactivation or a change of password is exchanged afterwards; two
  rotations of one token give two live ones; an area may be assigned to an officer who is
  being demoted. `LiveTokensJustified` and `StaffJustified` are therefore claimed while
  requests do not overlap, `RightsStayRevoked` says what holds in any case.
- *The first cases of a year*: all but one of the requests that find no row fail in the
  flush, outside `create_case`'s `try`, and answer with an internal error; no number is
  lost (`NumbersConsecutive`).
- *Validation*: a GIS run compares with a record any database run of the profile
  selected, in no order; in the pipeline it has none. The pipeline raises as soon as there
  is a candidate record, because it reads the owners of a profile that was loaded
  without them. Two parcels of one property, or two records with the survey number a parcel
  names, make the query raise. `ilike` misses a record whose identifier is typed with
  other blanks.
- *Risk*: the latest run of each type counts even if it was not executed yet;
  `CleanMeansClean` is about executed runs, which is what `is_ready_for_review` asks
  for.
- *Consolidation*: a field keeps the first value and takes the highest confidence
  (`extraction_service.py:602`), so that a value may carry the confidence of another.
  Contradictions within one document are not conflicts of the profile. Those between
  documents are conflicts, except that of an area only the number is compared
  (`extraction_service.py:107`): one acre and one square metre pass for the same, and the
  profile has the surer document's unit. Nor is a land area compared with a property area:
  the profile takes the property area and the other is dropped (both are fields of their
  own, each with its own conflicts). `EveryDocumentVouchedFor` says what holds: behind a
  clean assessment of an up-to-date profile, the record bears out every text, every owner
  and the number of every area of the kind the profile uses, in all documents.
- *Overlapping answers*: two overlapping calls that settle one request both load it open, and
  the later commit wins; `SettledProofStays` is about calls that do not overlap. A request
  made between the query of `accept_proof_request` and its commit is not seen, and the case
  is queued with it open; `QueuedCaseWaitsForNoProof` is about calls that do not overlap.
- *Owners*: `OwnersAgree` excepts a record that repeats a name (it is paired once), and
  it, `CleanMeansClean` and `EveryDocumentVouchedFor` are about names of at most four words
  (`ShortNames`, which the run's names satisfy): from five words on a single initial still
  scores 95 and counts as a match (`OneInitialOfFivePasses` proves that the bound is exact).

## Findings

1. *Terminal statuses are not immutable* (`review_readiness.py:141`; against
   `src/backend/README.md:174`). The pipeline and the other handlers write a status
   judged by the one they loaded. Shown by `terminal_overwritten`.
2. *The state machine governs nothing* (`proof_request_service.py:93` and others;
   against `src/backend/README.md:172`). `CaseStateMachine.transition` has no caller.
   Shown by `state_machine_bypassed`.
3. *Snapshots are not immutable* (`property_profile_service.py:119`; against
   `src/README.md:1411`). Shown by `snapshot_erased`.
4. *Crossing accepts* (`proof_request_service.py:415`; against its own comment at
   424). Shown by `accepts_cross`. It takes two sessions: `AloneLastAnswerReleases` proves
   that with one the last answer always releases the case.
5. *The last super admin may leave* (`user_service.py:144`; against its comment at 143).
   Two overlapping requests each count the other's admin. Shown by `last_admin_leaves`;
   `StaffAlwaysJustified` proves that it takes an overlap.
6. *A difference in the unit is silent* (`extraction_service.py:107`; against
   `tests/property_profile/test_conflicts.py:10`). Shown by `unit_ignored`, where "says
   the same" is judged by the values (`SaysTheSame`), not by what the code keeps of them.

## Proofs

### CaseLifecycleProofs

The theorems are about `CaseLifecycle!Spec` for any finite or infinite sets of
officers, admins, sessions, reviews and proof requests and any bounds, from the one
assumption `ConstantsAssumption` (officers are not admins, NULL is no identifier, the
bounds are naturals), which TLC evaluates in every run.

The invariants are not inductive by themselves: a commit step writes what the session
loaded earlier. The inductive invariant `Base` therefore adds to the types what every
open session still knows at each of its steps (`SessionOK`): the review a start
request holds was opened and belongs to its officer (`Holds`), the review a decision
holds may be closed by its user (`MayClose`), a pipeline that assesses has a profile.
It is preserved because reviews are never withdrawn and keep their reviewer
(`ReviewsKept`), which is itself shown step by step.

The argument:

1. `Moves`, `Reads`, `Closes`: a step changes at most one session. One lemma per
   group of actions (`CaseStepBase`, `PipelineStepBase`, `ReviewStepBase`,
   `ProofStepBase`, `DossierStepBase`, `RollBackBase`) shows that `Base` is preserved;
   `NextBase` joins them, `BaseAlways` and `TypesAlways` follow.
2. `ReviewEffects` sums up what any step does to the reviews: it opens one when none
   is open, hands one back to its own officer, or completes one. From it `OneReview`,
   `CompletedForever` and `LockHeld`.
3. `OutcomeEffects` sums up what any step does to status, final decisions and
   announcements. From it `StatusBacked` and `DeciderIsReviewer`.
4. `RegisterInit` and `RegisterStep` map initial states and steps to those of
   `DecisionRegister`; `Unannounced` (no announcement before a verdict) is the extra
   invariant the mapping needs. `ImplementsRegister` follows.

5. `CitationEffects` sums up what any step does to the citations of a final decision
   and to the dossier: a snapshot is inserted only while it is there, and a deleted one
   is withdrawn. From it `CitationsLive`.

### CaseAloneProofs

The properties of `case_sequential` are false with two sessions. The theorems assume one
(`Sessions = {a}`) and are otherwise as general as the others; `CitationAssumption` (NULL
is no assessment) is the only further assumption. Two parts are added to `Base`:

- `InStep`: what the session loaded is still so. Its copy of the status is the status,
  the review it will write is open, the request it will settle is open, another request
  remains if and only if it found one, and there is an assessment to cite.
- `RowsInStep`: a case under review has an open review, and a case that was not promoted
  yet, or is back in the queue, waits for no proof.

One lemma per group of actions shows that both are preserved and that the step is one
of `Kept` (it leaves terminal statuses, settled requests and completed reviews,
records a verdict with an assessment only, and queues the case with the last answer).
Steps without a session of their own need a free one (`SessionFree`), which is *the* session, so nothing overlaps them.
`AloneDecisionStays` (a completed review is not written again) is proved only; no run
checks it besides.

### OutboxProofs

The theorems are about `Outbox!Spec` for any numbers of events, attempts and crashes,
any batch size and any set of workers (even an infinite one), from `OutboxAssumption`.

A batch acts on rows it loaded earlier, so the properties need an invariant that says
what of them is still true (`IInv`): a loaded event was recorded and had attempts
left, though it may have been processed or failed since; it takes its events in order;
no two batches have taken the same event; only faulty events fail and are retried; an
event is processed exactly when it is notified, and then it is not faulty.

1. `SettledRow` (the row a batch commits), `LetsGo` (a batch that is abandoned) and
   `StepIInv`, one step per action, give `Invariance`; `OutboxTypes`, `OneNotification`,
   `ProcessedIsNotified` and `AttemptsLeft` follow.
2. `LocksInOrder`: a worker waits only for one that has less left to pass
   (`WaitingIsBehind`: its set `Ahead` is strictly smaller). Strict inclusion is
   well-founded on the subsets of a finite set, so some worker of any non-empty set
   waits for none of the others (`LeastAhead`).
3. `DeliversAsPromised`: every step records one event, announces the events of one batch,
   or changes neither (`StepDelivers`).
4. `AloneNeverRefused` and `AloneKeepsFailed` assume a single worker; then a loaded event
   is still pending when the batch commits (`BatchPending`). They are proved only; no run
   checks them besides.

### DocumentPipelineProofs

For any numbers of jobs, pages, requests, waiting tasks and faults. The inductive invariant
`IInv` has five parts: the types; `TaskInv` (the job of the running task is active until
the task records its end); `TextInv` (a document is not `processed` while an OCR task works
on it, and the pages up to the task's are its own); `ForgottenInv` (without a fault
every active job has a task, and a document says `processing` only while one reads it);
`CurrentInv` (fields that do not come from the current text are about to be read again:
an OCR task is at work, or an extraction is active). One lemma per group of actions;
`ProcessedAlwaysHasText`, `NothingEverForgotten` and `FieldsAlwaysCurrent` follow from the
invariant, `SettledJobsStay` and `DeletedAlwaysLeftAlone` from what a step does.

### AdministrationProofs

For any finite set of users, and any areas, tokens, sessions and cases; the assumptions are
those the modules name. The invariant `Inv` has three parts:

- `NumberingInv`: the numbers are `1..last`; who has counted holds `last + 1`, and is alone.
- `AccountsBase`: what an open request has loaded exists (`Loaded`), and every issued token
  has an owner and a login.
- `SerialInv`: while no two requests overlapped, `TokensTidy` and `StaffTidy` hold and at
  most one request is open, whose checks still hold (`Checked`).

`RevokedRightsStay` needs no `serial`; it is shown step by step, from the operations still
in flight. That an administrator is left rests on a lemma on cardinality: a set of more
than one element has one besides the one that goes. `PartsKept` shows that the
composition implements both components.

### FoldLemmas, MatchingProofs

The computations are folds: `FoldLeft` over sequences (a name without honorifics, the
pairing of owners, the consolidation of items) and `MapThenSumSet` over sets (scores).
Inductions that take the statement as an operator are not available, so `FoldLemmas`
states them about sets: `CountingUp` and `SubsetInduction` say that a set which contains 0 (or
whatever all smaller subsets force into it) and is closed under the step contains
everything. From these, `SeqFold` and `SeqTrace` turn a fold over a
sequence into its trace, one value after each element, and `SumExists`, `SumSplit` and
`SumMonotonic` describe sums over finite sets. `Max` and `Min` of finite sets are members.

`MatchingProofs` is about the comparison of owners, for any names and lists of any length:

1. `MatchOwnerSetsType`: the verdict is a status and the score a number.
2. `ShortNamesTellApart`: two different names of at most four words never reach 95 unless
   they have the same words; `OneInitialOfFivePasses` shows that five would be too many.
3. `MatchIsOneToOne`: if the verdict is MATCH, every step of the trace took a reference
   (`NeverBehind`, `AllTake`), no reference was taken twice, and each pair scored 95, so the
   pairing is a bijection of equal names.
4. `OneToOneMatches`: if the lists are equal one to one and the record repeats no name, the
   greedy choice can always be completed: what the bijection pairs with the next owner
   is left, or one with the same words is (`OneIsLeft`), and it is the best choice
   (`BestIsSame`), so each step takes a reference that scores 95 or more.

### AssessmentProofs

For any documents, readings, registry, parcels and bound on the runs. The assumptions say
of what kind the inputs are (`ReadingsAssumption`, `OcrTextsAssumption`,
`RecordsAssumption`, `ParcelsAssumption`, `NamesAssumption`, `UnitsAssumption`: names are
sequences of words, sizes are naturals, units have a positive size); TLC evaluates them.

The types are not inductive by themselves: that a score is a number depends on what the
runs, the profile, the rows and the registry hold. The invariant `IInv` says of each

- row that its value fits its field and is missing if the row says so (`IsRow`);
- record and parcel what imports may bring (`IsRecord`, `ParcelsOK`);
- profile that it has names for owners and a number for a size (`IsProfile`);
- run that it has at most one result per field, with a reason the risk engine has a type
  for (`AreResults`), and that a concluded run which blames nothing has made every
  comparison with a record or a valid parcel it has seen (`Grounded`);
- assessment that score, level and factors are in their ranges (`IsAssessment`).

Two facts about a step come with its preservation, one lemma per action, joined by
`NextIInv`: a run that concludes now with a record was selected by what the registry says
now (`Decided`), and an assessment that changes is made of the runs as the step leaves
them (`AssessedAnew`).

1. `AssessmentTypes`: `IInv` implies `TypeOK`.
2. `OwnersAgreeOnShortNames`: from `Decided`, the results are the comparisons with the
   selected record, whose owners' result is the verdict (`OwnerVerdictShows`); the rest is
   `MatchIsOneToOne` and `OneToOneMatches`.
3. `NoTwinIsChosen`: a twin is found by the same searches (`TwinIsCandidate`) and scores no
   less (`ScoreGrows`, a sum of more weights), but the selected record is 30 points ahead of
   every other candidate.
4. `CleanAssessmentVouches`: no factor means that no result of either run counts
   (`DiscrepanciesOf`); by `Grounded` every comparison was made, and those that were
   made and do not count are agreements (`RecordBlameless`, `ParcelBlameless`).
5. `CleanAssessmentVouchesForAll`: no factor also means no conflict (`CleanRests`). Then
   every document gives the value the profile has, for an area the same number
   (`ProfileSpeaksForAll`, from `DisagreementConflicts`), every owner and co-owner is
   among the profile's owners (`OwnersOfAll`, by the trace of the fold that lists them),
   and what the record shares with the profile it shares with the document.

(2), (4) and (5) assume `ShortNames`. Nothing is claimed about the unit of an area, nor
about a land area beside a property area: see the limits above.

### What stays with TLC

Liveness under fairness (`EventsSettle`, `JobsSettle`), and the refutations of the
violation runs. Every other property of the passing runs is the subject of a theorem.

## Not modelled

See `PROJECT.json` for the reason of each component.

- *Proof revalidation*: has no caller and raises on every call.
- *Audit trail*: rows appended with the change they describe; nothing reads them to decide.
- *Dashboards, queues, history, downloads*: read only.
- *Notifications as read, editing of a draft, names and profile fields of users*: one
  assignment to a column nothing else depends on.
- *Hashing, storage and checks of uploaded files; parsing of imports; boundaries*: the
  first two decide only whether an upload or import happens at all; a boundary is looked up
  by a point, and no profile has one.
- *Model server clients*: only that they may fail, which is an alternative of the steps that
  call them.
- *Middleware, schemas, logging, configuration, seed data, the web client*: no state that
  decides anything in the workflow. Constraints and cascades of the migrations are guards
  and effects of the actions.
