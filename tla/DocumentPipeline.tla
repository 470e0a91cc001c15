-------------------------- MODULE DocumentPipeline --------------------------
(***************************************************************************)
(* One document, the jobs that read it (OCR) and extract fields from its   *)
(* text, and the background tasks that run the jobs.                       *)
(*                                                                         *)
(* Jobs are rows; tasks exist only in the memory of the process. All tasks *)
(* pass one semaphore of OCR_MAX_CONCURRENCY permits; this module models   *)
(* its default, one permit, for which asyncio hands the permit on in the   *)
(* order of arrival. A task loads job and document, marks them in one      *)
(* transaction and works in several more. Requests load the document,      *)
(* look for an active job and commit, each in its own session, between any *)
(* two steps of the task.                                                  *)
(***************************************************************************)
EXTENDS Naturals, Sequences, FiniteSets

CONSTANTS MaxJobs,     \* bound on the jobs, numbered by created_at
          NumPages,    \* pages of the document
          Requests,    \* concurrent requests on the document
          MaxWaiting,  \* bound on the tasks that wait for the permit
          MaxFaults    \* bound on restarts and outages of the database

Jobs == 1..MaxJobs
PageNos == 1..NumPages

ASSUME PipelineAssumption ==
  /\ MaxJobs \in Nat \ {0}
  /\ NumPages \in Nat \ {0}
  /\ MaxWaiting \in Nat
  /\ MaxFaults \in Nat

VARIABLES doc,      \* the row of the document
          job,      \* document_processing_jobs and extraction_jobs
          row,      \* ocr_results: the job that read each page, or NoText
          fields,   \* extracted_fields: which runs left some, and from what
          waiting,  \* tasks waiting for the semaphore, oldest first
          running,  \* the task that holds the permit
          request,  \* what each request has loaded
          faults

vars == <<doc, job, row, fields, waiting, running, request, faults>>

----------------------------------------------------------------------------

DocumentStatus == {"uploaded", "queued", "processing", "processed", "failed"}
Document == [status : DocumentStatus, deleted : BOOLEAN]

Kind == {"ocr", "extract"}
ProcessingStatus == {"none", "queued", "processing", "completed", "failed"}
Job == [kind : Kind, status : ProcessingStatus]
Unmade == [kind |-> "ocr", status |-> "none"]

NoText == 0
Text == [PageNos -> Jobs \cup {NoText}]
Blank == [p \in PageNos |-> NoText]

\* The fields a run inserted, and the text it read them from.
FieldSet == [by : Jobs, read : Text]

\* at: the step the task takes next. seen: status of the document as loaded.
\* page: the page to be read. read: the text an extraction works on.
Task == [job : Jobs, at : {"mark", "prepare", "page", "hand_over", "extract",
                           "pipeline"},
         seen : DocumentStatus, page : 1..(NumPages + 1), read : Text]
NoTask == [at |-> "none"]

Request == [op : {"idle", "process", "extract", "delete"},
            at : {"loaded", "decided"}, seen : DocumentStatus \cup {"none"}]
IdleRequest == [op |-> "idle", at |-> "loaded", seen |-> "none"]

TypeOK ==
  /\ doc \in Document
  /\ job \in [Jobs -> Job]
  /\ row \in Text
  /\ fields \subseteq FieldSet
  /\ waiting \in Seq(Jobs)
  /\ running \in Task \cup {NoTask}
  /\ request \in [Requests -> Request]
  /\ faults \in 0..MaxFaults

Init ==
  /\ doc = [status |-> "uploaded", deleted |-> FALSE]
  /\ job = [j \in Jobs |-> Unmade]
  /\ row = Blank
  /\ fields = {}
  /\ waiting = <<>>
  /\ running = NoTask
  /\ request = [r \in Requests |-> IdleRequest]
  /\ faults = 0

----------------------------------------------------------------------------

Active(j) == job[j].status \in {"queued", "processing"}
Settled(j) == job[j].status \in {"completed", "failed"}
ActiveOf(kind) == {j \in Jobs : Active(j) /\ job[j].kind = kind}

\* j is the id of the next job to be created.
IsNext(j) ==
  /\ job[j].status = "none"
  /\ \A i \in Jobs : i < j => job[i].status # "none"

\* Bound: n jobs more, and the extraction every OCR job may still create.
RoomFor(n) ==
  n + Cardinality(ActiveOf("ocr")) + (IF running.at = "hand_over" THEN 1 ELSE 0)
    <= Cardinality({j \in Jobs : job[j].status = "none"})

\* A column of the row: what the unit of work writes when the loaded value
\* seen is replaced by new. An assignment of the same value is no UPDATE.
Flushed(seen, new) == IF seen = new THEN doc.status ELSE new

\* (Broken: a job that is done is run again.)
RunnableAny(j) == job[j].status # "none"

Runnable(j) == Active(j)

\* (Broken: a deleted document is still read.)
FoundDeleted == TRUE

\* The worker's query for the document finds it.
Found == ~ doc.deleted

\* (Broken: the document is not marked.)
MarkedNot(t) == doc

\* The document after the mark of an OCR task.
Marked(t) == [doc EXCEPT !.status = Flushed(t.seen, "processing")]

\* (Broken: the failure is recorded for the document only.)
FailedDocumentOnly(j) == job

\* (Broken: the status the administrator's retry asks for, which
\* ProcessingStatus does not have.)
PendingJob(j) == [job EXCEPT ![j].status = "pending"]

FailedJob(j) == [job EXCEPT ![j].status = "failed"]

\* (Broken: earlier fields stay.)
SavedOnTop(fs) == fields \cup fs

\* The fields of the document after a run: earlier ones are deleted first.
Saved(fs) == fs

\* (Broken: the extraction is not started.)
ReleasedSilently(j) == waiting

\* The queue of the semaphore after a task for j is created.
Released(j) == Append(waiting, j)
----------------------------------------------------------------------------
(* Requests.                                                               *)

\* A request loads the document and checks it. Only processed documents are
\* extracted; a document that says processing is not deleted.
LoadDocument(r, op) ==
  /\ request[r].op = "idle"
  /\ Found
  /\ op = "extract" => doc.status = "processed"
  /\ op = "delete" => doc.status # "processing"
  /\ request' = [request EXCEPT ![r] =
                   [op |-> op, at |-> "loaded",
                    seen |-> IF op = "process" THEN doc.status ELSE "none"]]
  /\ UNCHANGED <<doc, job, row, fields, waiting, running, faults>>

KindAsked(r) == IF request[r].op = "process" THEN "ocr" ELSE "extract"

\* Processed as loaded, and there is a job to answer with.
NothingToDo(r) ==
  /\ request[r].op = "process"
  /\ request[r].seen = "processed"
  /\ \E j \in Jobs : job[j].kind = "ocr" /\ job[j].status # "none"

Asking(r) == request[r].op \in {"process", "extract"}

\* The newest active job is the answer. If it is still queued, another task
\* is created for it.
AnswerActive(r) ==
  /\ Asking(r)
  /\ request[r].at = "loaded"
  /\ \E j \in ActiveOf(KindAsked(r)) :
       /\ \A i \in ActiveOf(KindAsked(r)) : i <= j
       /\ job[j].status = "queued" => Len(waiting) < MaxWaiting
       /\ waiting' = IF job[j].status = "queued" THEN Append(waiting, j)
                                                 ELSE waiting
  /\ request' = [request EXCEPT ![r] = IdleRequest]
  /\ UNCHANGED <<doc, job, row, fields, running, faults>>

AnswerProcessed(r) ==
  /\ request[r].at = "loaded"
  /\ NothingToDo(r)
  /\ ActiveOf("ocr") = {}
  /\ request' = [request EXCEPT ![r] = IdleRequest]
  /\ UNCHANGED <<doc, job, row, fields, waiting, running, faults>>

FindNoJob(r) ==
  /\ Asking(r)
  /\ request[r].at = "loaded"
  /\ ActiveOf(KindAsked(r)) = {}
  /\ ~ NothingToDo(r)
  /\ request' = [request EXCEPT ![r].at = "decided"]
  /\ UNCHANGED <<doc, job, row, fields, waiting, running, faults>>

\* The job is committed and, with the response, its task created. Nothing
\* looks again for jobs that were committed in the meantime.
CreateJob(r) ==
  /\ request[r].at = "decided"
  /\ RoomFor(IF request[r].op = "process" THEN 2 ELSE 1)
  /\ Len(waiting) < MaxWaiting
  /\ \E j \in Jobs :
       /\ IsNext(j)
       /\ job' = [job EXCEPT ![j] = [kind |-> KindAsked(r),
                                     status |-> "queued"]]
       /\ waiting' = Append(waiting, j)
  /\ doc' = IF request[r].op = "process"
            THEN [doc EXCEPT !.status = Flushed(request[r].seen, "queued")]
            ELSE doc
  /\ request' = [request EXCEPT ![r] = IdleRequest]
  /\ UNCHANGED <<row, fields, running, faults>>

DeleteDocument(r) ==
  /\ request[r].op = "delete"
  /\ doc' = [doc EXCEPT !.deleted = TRUE]
  /\ request' = [request EXCEPT ![r] = IdleRequest]
  /\ UNCHANGED <<job, row, fields, waiting, running, faults>>

----------------------------------------------------------------------------
(* The task that holds the permit.                                         *)

Freed == NoTask

\* The permit goes to the oldest task; its job is settled already.
SkipSettled ==
  /\ running = NoTask
  /\ waiting # <<>>
  /\ ~ Runnable(Head(waiting))
  /\ waiting' = Tail(waiting)
  /\ UNCHANGED <<doc, job, row, fields, running, request, faults>>

\* The document of its job was deleted.
FailDeleted ==
  /\ running = NoTask
  /\ waiting # <<>>
  /\ Runnable(Head(waiting))
  /\ ~ Found
  /\ job' = [job EXCEPT ![Head(waiting)].status = "failed"]
  /\ waiting' = Tail(waiting)
  /\ UNCHANGED <<doc, row, fields, running, request, faults>>

StartTask ==
  /\ running = NoTask
  /\ waiting # <<>>
  /\ Runnable(Head(waiting))
  /\ Found
  /\ running' = [job |-> Head(waiting), at |-> "mark", seen |-> doc.status,
                 page |-> 1, read |-> Blank]
  /\ waiting' = Tail(waiting)
  /\ UNCHANGED <<doc, job, row, fields, request, faults>>

\* Job and document are marked in one transaction.
MarkOcr ==
  /\ running.at = "mark"
  /\ job[running.job].kind = "ocr"
  /\ job' = [job EXCEPT ![running.job].status = "processing"]
  /\ doc' = Marked(running)
  /\ running' = [running EXCEPT !.at = "prepare"]
  /\ UNCHANGED <<row, fields, waiting, request, faults>>

\* Ollama is reachable, the file intact and split into pages: the text of
\* an earlier run is deleted.
CleanPages ==
  /\ running.at = "prepare"
  /\ row' = Blank
  /\ running' = [running EXCEPT !.at = "page"]
  /\ UNCHANGED <<doc, job, fields, waiting, request, faults>>

ReadPage ==
  /\ running.at = "page"
  /\ running.page <= NumPages
  /\ row' = [row EXCEPT ![running.page] = running.job]
  /\ running' = [running EXCEPT !.page = @ + 1]
  /\ UNCHANGED <<doc, job, fields, waiting, request, faults>>

\* Whether the document has been deleted meanwhile is not asked.
CompleteOcr ==
  /\ running.at = "page"
  /\ running.page = NumPages + 1
  /\ doc' = [doc EXCEPT !.status = "processed"]
  /\ job' = [job EXCEPT ![running.job].status = "completed"]
  /\ running' = [running EXCEPT !.at = "hand_over"]
  /\ UNCHANGED <<row, fields, waiting, request, faults>>

\* The extraction job is created without a look for an active one, and its
\* task queues behind this one for the same semaphore.
HandOver ==
  /\ running.at = "hand_over"
  /\ \E j \in Jobs :
       /\ IsNext(j)
       /\ job' = [job EXCEPT ![j] = [kind |-> "extract", status |-> "queued"]]
       /\ waiting' = Released(j)
  /\ running' = Freed
  /\ UNCHANGED <<doc, row, fields, request, faults>>

\* Ollama, the storage or a page fails.
FailOcr ==
  /\ running.at \in {"prepare", "page"}
  /\ running.page <= NumPages
  /\ doc' = [doc EXCEPT !.status = "failed"]
  /\ job' = FailedJob(running.job)
  /\ running' = Freed
  /\ UNCHANGED <<row, fields, waiting, request, faults>>

\* The job is marked, and the pages are selected.
MarkExtract ==
  /\ running.at = "mark"
  /\ job[running.job].kind = "extract"
  /\ job' = [job EXCEPT ![running.job].status = "processing"]
  /\ running' = [running EXCEPT !.at = "extract", !.read = row]
  /\ UNCHANGED <<doc, row, fields, waiting, request, faults>>

\* Fields of the model, or of the rules when it fails or times out; there
\* may be none.
SaveFields ==
  /\ running.at = "extract"
  /\ running.read # Blank
  /\ \E fs \in {{}, {[by |-> running.job, read |-> running.read]}} :
       fields' = Saved(fs)
  /\ job' = [job EXCEPT ![running.job].status = "completed"]
  /\ running' = [running EXCEPT !.at = "pipeline"]
  /\ UNCHANGED <<doc, row, waiting, request, faults>>

\* There is no text, or an error.
FailExtract ==
  /\ running.at = "extract"
  /\ job' = FailedJob(running.job)
  /\ running' = Freed
  /\ UNCHANGED <<doc, row, fields, waiting, request, faults>>

\* The automated pipeline of the case has run, under the same permit.
EndPipeline ==
  /\ running.at = "pipeline"
  /\ running' = Freed
  /\ UNCHANGED <<doc, job, row, fields, waiting, request, faults>>

----------------------------------------------------------------------------
(* Faults.                                                                 *)

\* The process restarts: tasks and requests are gone, and nothing at startup
\* looks for jobs to resume.
Restart ==
  /\ faults < MaxFaults
  /\ faults' = faults + 1
  /\ waiting' = <<>>
  /\ running' = NoTask
  /\ request' = [r \in Requests |-> IdleRequest]
  /\ UNCHANGED <<doc, job, row, fields>>

\* The step fails and so does recording the failure: the database is away, or it
\* refused a row of an extraction in a flush, after which nothing can be committed,
\* since the handlers of that execute_job do not roll the session back.
FailUnrecorded ==
  /\ faults < MaxFaults
  /\ running # NoTask
  /\ faults' = faults + 1
  /\ running' = NoTask
  /\ UNCHANGED <<doc, job, row, fields, waiting, request>>

TaskStep ==
  \/ SkipSettled \/ FailDeleted \/ StartTask
  \/ MarkOcr \/ CleanPages \/ ReadPage \/ CompleteOcr \/ HandOver \/ FailOcr
  \/ MarkExtract \/ SaveFields \/ FailExtract \/ EndPipeline

RequestStep(r) ==
  \/ \E op \in {"process", "extract", "delete"} : LoadDocument(r, op)
  \/ AnswerActive(r) \/ AnswerProcessed(r) \/ FindNoJob(r)
  \/ CreateJob(r) \/ DeleteDocument(r)

Next ==
  \/ TaskStep
  \/ \E r \in Requests : RequestStep(r)
  \/ Restart
  \/ FailUnrecorded

Spec == Init /\ [][Next]_vars

\* A task that can take a step takes one in the end: the event loop runs it,
\* and every call it waits for has a timeout. Nothing is asked of requests.
FairSpec == Spec /\ WF_vars(TaskStep)

----------------------------------------------------------------------------
(* Properties.                                                             *)

\* A job that has completed or failed is never run again, although several
\* tasks may have been created for it.
SettledJobStays == [][\A j \in Jobs : Settled(j) => job'[j] = job[j]]_vars

\* A processed document has the text of all its pages, read by one job. A
\* second job for it, of two requests that both found none, must not leave
\* it processed while it replaces the text.
ProcessedHasText ==
  doc.status = "processed" =>
    /\ \A p \in PageNos : row[p] # NoText
    /\ \A p, q \in PageNos : row[p] = row[q]

HasTask(j) ==
  \/ running # NoTask /\ running.job = j
  \/ \E i \in 1..Len(waiting) : waiting[i] = j

\* Without a fault no job is forgotten: an active job has a task, and a
\* document says processing (and cannot be deleted) only while one reads it.
NothingForgotten ==
  faults = 0 =>
    /\ \A j \in Jobs : Active(j) => HasTask(j)
    /\ doc.status = "processing" => running.at \in {"prepare", "page"}

\* The fields of a document come from one run, and once its jobs are done
\* and none of them failed, that run read the text the document has now.
FieldsFromCurrentText ==
  /\ \A f, g \in fields : f = g
  /\ /\ faults = 0
     /\ running = NoTask
     /\ \A j \in Jobs : job[j].status \in {"none", "completed"}
     => \A f \in fields : f.read = row

\* What was deleted before a task reached it is not read any more.
DeletedIsLeftAlone ==
  [][doc.deleted /\ running = NoTask =>
       running' = NoTask /\ row' = row /\ fields' = fields]_vars

\* Without a fault every active job completes or fails, although an OCR task
\* creates the next task while it holds the permit this one needs.
JobsSettle ==
  \/ <>(faults > 0)
  \/ \A j \in Jobs : Active(j) ~> Settled(j)
=============================================================================
