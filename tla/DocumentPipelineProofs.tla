----------------------- MODULE DocumentPipelineProofs -----------------------
(***************************************************************************)
(* Proofs about DocumentPipeline, for any number of jobs, pages, requests, *)
(* waiting tasks and faults.                                               *)
(***************************************************************************)
EXTENDS DocumentPipeline, TLAPS

-----------------------------------------------------------------------------
(* Types                                                                   *)

\* Whoever holds the permit is a task.
LEMMA Holds ==
  ASSUME TypeOK, running.at # "none"
  PROVE  running \in Task /\ running # NoTask
BY DEF TypeOK, NoTask

\* What the requests change of the jobs, the document and the queue.
LEMMA RequestTypes ==
  ASSUME TypeOK, NEW r \in Requests, RequestStep(r)
  PROVE  TypeOK'
<1> USE DEF TypeOK
<1>1. IdleRequest \in Request
  BY DEF IdleRequest, Request
<1>2. ASSUME NEW op \in {"process", "extract", "delete"}, LoadDocument(r, op)
      PROVE  TypeOK'
  BY <1>2 DEF LoadDocument, Request, Document
<1>3. CASE AnswerActive(r) \/ AnswerProcessed(r)
  <2>1. waiting' = waiting \/ \E j \in Jobs : waiting' = Append(waiting, j)
    BY <1>3 DEF AnswerActive, AnswerProcessed, ActiveOf
  <2>2. waiting' \in Seq(Jobs)
    BY <2>1
  <2>3. UNCHANGED <<doc, job, row, fields, running, faults>>
    BY <1>3 DEF AnswerActive, AnswerProcessed
  <2>4. request' \in [Requests -> Request]
    BY <1>1, <1>3 DEF AnswerActive, AnswerProcessed
  <2> QED BY <2>2, <2>3, <2>4
<1>4. CASE FindNoJob(r)
  BY <1>4 DEF FindNoJob, Request
<1>5. CASE CreateJob(r)
  <2>1. PICK j \in Jobs :
          /\ job' = [job EXCEPT ![j] = [kind |-> KindAsked(r), status |-> "queued"]]
          /\ waiting' = Append(waiting, j)
    BY <1>5 DEF CreateJob
  <2>2. doc' \in Document
    BY <1>5 DEF CreateJob, Document, DocumentStatus, Flushed
  <2>3. job' \in [Jobs -> Job]
    BY <2>1 DEF Job, Kind, KindAsked, ProcessingStatus
  <2> QED BY <1>1, <1>5, <2>1, <2>2, <2>3 DEF CreateJob
<1>6. CASE DeleteDocument(r)
  BY <1>1, <1>6 DEF DeleteDocument, Document
<1> QED BY <1>2, <1>3, <1>4, <1>5, <1>6 DEF RequestStep

LEMMA TaskTypes ==
  ASSUME TypeOK, TaskStep
  PROVE  TypeOK'
<1> USE PipelineAssumption DEF TypeOK
<1>1. Blank \in Text /\ NoTask \in {NoTask}
  BY DEF Blank, Text
<1>2. \A j \in Jobs : \A st \in ProcessingStatus :
        [job EXCEPT ![j].status = st] \in [Jobs -> Job]
  BY DEF Job
<1>3. waiting # <<>> => Head(waiting) \in Jobs /\ Tail(waiting) \in Seq(Jobs)
  OBVIOUS
<1>4. CASE SkipSettled \/ FailDeleted
  BY <1>2, <1>3, <1>4 DEF SkipSettled, FailDeleted, ProcessingStatus
<1>5. CASE StartTask
  <2>1. running' \in Task
    BY <1>1, <1>3, <1>5 DEF StartTask, Task, Document
  <2> QED BY <1>3, <1>5, <2>1 DEF StartTask
<1>6. CASE MarkOcr \/ MarkExtract
  <2>1. running \in Task
    BY <1>6, Holds DEF MarkOcr, MarkExtract
  <2>2. job' \in [Jobs -> Job]
    <3>1. job' = [job EXCEPT ![running.job].status = "processing"]
      BY <1>6 DEF MarkOcr, MarkExtract
    <3>2. running.job \in Jobs /\ "processing" \in ProcessingStatus
      BY <2>1 DEF Task, ProcessingStatus
    <3> QED BY <1>2, <3>1, <3>2
  <2>3. running' \in Task
    BY <1>6, <2>1 DEF MarkOcr, MarkExtract, Task
  <2>4. doc' \in Document
    BY <1>6, <2>1 DEF MarkOcr, MarkExtract, Marked, Flushed, Document, DocumentStatus
  <2> QED BY <1>6, <2>2, <2>3, <2>4 DEF MarkOcr, MarkExtract
<1>7. CASE CleanPages
  <2>1. running' \in Task
    BY <1>7, Holds DEF CleanPages, Task
  <2> QED BY <1>1, <1>7, <2>1 DEF CleanPages
<1>8. CASE ReadPage
  <2>1. running \in Task /\ running.page \in PageNos
    BY <1>8, Holds DEF ReadPage, Task, PageNos
  <2>2. running' \in Task
    BY <1>8, <2>1 DEF ReadPage, Task, PageNos
  <2>3. row' \in Text
    BY <1>8, <2>1 DEF ReadPage, Task, Text
  <2> QED BY <1>8, <2>2, <2>3 DEF ReadPage
<1>9. CASE CompleteOcr
  <2>1. running \in Task
    BY <1>9, Holds DEF CompleteOcr
  <2>2. running' \in Task /\ doc' \in Document
    BY <1>9, <2>1 DEF CompleteOcr, Task, Document, DocumentStatus
  <2> QED BY <1>2, <1>9, <2>1, <2>2 DEF CompleteOcr, Task, ProcessingStatus
<1>10. CASE HandOver
  <2>1. PICK j \in Jobs :
          /\ job' = [job EXCEPT ![j] = [kind |-> "extract", status |-> "queued"]]
          /\ waiting' = Append(waiting, j)
    BY <1>10 DEF HandOver, Released
  <2> QED BY <1>10, <2>1 DEF HandOver, Freed, Job, Kind, ProcessingStatus
<1>11. CASE FailOcr \/ FailExtract
  <2>1. running \in Task
    BY <1>11, Holds DEF FailOcr, FailExtract
  <2>2. job' \in [Jobs -> Job]
    BY ZenonT(40), <1>2, <1>11, <2>1 DEF FailOcr, FailExtract, FailedJob, Task, ProcessingStatus
  <2>3. doc' \in Document
    BY <1>11 DEF FailOcr, FailExtract, Document, DocumentStatus
  <2> QED BY <1>11, <2>2, <2>3 DEF FailOcr, FailExtract, Freed
<1>12. CASE SaveFields
  <2>1. running \in Task
    BY <1>12, Holds DEF SaveFields
  <2>2. fields' \subseteq FieldSet
    BY <1>12, <2>1 DEF SaveFields, Saved, FieldSet, Task
  <2>3. job' \in [Jobs -> Job]
    BY <1>2, <1>12, <2>1 DEF SaveFields, Task, ProcessingStatus
  <2>4. running' \in Task
    BY <1>12, <2>1 DEF SaveFields, Task
  <2> QED BY <1>12, <2>2, <2>3, <2>4 DEF SaveFields
<1>13. CASE EndPipeline
  BY <1>13 DEF EndPipeline, Freed
<1> QED BY <1>4, <1>5, <1>6, <1>7, <1>8, <1>9, <1>10, <1>11, <1>12, <1>13 DEF TaskStep

LEMMA NextTypes ==
  ASSUME TypeOK, [Next]_vars
  PROVE  TypeOK'
<1>1. CASE TaskStep
  BY <1>1, TaskTypes
<1>2. ASSUME NEW r \in Requests, RequestStep(r)
      PROVE  TypeOK'
  BY <1>2, RequestTypes
<1>3. CASE Restart \/ FailUnrecorded
  <2>1. IdleRequest \in Request /\ <<>> \in Seq(Jobs)
    BY DEF IdleRequest, Request
  <2>2. faults' \in 0..MaxFaults
    BY <1>3, PipelineAssumption DEF Restart, FailUnrecorded, TypeOK
  <2> QED BY <1>3, <2>1, <2>2 DEF Restart, FailUnrecorded, TypeOK
<1>4. CASE UNCHANGED vars
  BY <1>4 DEF vars, TypeOK
<1> QED BY <1>1, <1>2, <1>3, <1>4 DEF Next

-----------------------------------------------------------------------------
(* Which job a task works on                                               *)

\* Until it records the end of its job, a task works on an active one; it
\* looked whether the job is active, and nobody else ends jobs.
TaskInv ==
  /\ running.at \in {"mark", "prepare", "page", "extract"} => Active(running.job)
  /\ running.at \in {"prepare", "page", "hand_over"} => job[running.job].kind = "ocr"
  /\ running.at \in {"extract", "pipeline"} => job[running.job].kind = "extract"
  /\ running.at \in {"hand_over", "pipeline"} => Settled(running.job)

\* A step of the task changes its own job only, and never a settled one.
LEMMA TaskStepTask ==
  ASSUME TypeOK, TaskInv, TaskStep
  PROVE  /\ TaskInv'
         /\ \A j \in Jobs : Settled(j) => job'[j] = job[j]
<1> USE DEF TaskInv, Active, Settled
<1>1. CASE SkipSettled
  BY <1>1 DEF SkipSettled, NoTask
<1>2. CASE FailDeleted
  BY <1>2 DEF FailDeleted, NoTask, TypeOK, Runnable
<1>3. CASE StartTask
  <2>1. running'.at = "mark" /\ running'.job = Head(waiting) /\ UNCHANGED job
    BY <1>3 DEF StartTask
  <2> QED BY <1>3, <2>1 DEF StartTask, Runnable
<1>4. CASE MarkOcr \/ MarkExtract
  <2>1. running \in Task /\ running.job \in Jobs
    BY <1>4, Holds DEF MarkOcr, MarkExtract, Task
  <2>2. /\ running'.job = running.job
        /\ running'.at = (IF job[running.job].kind = "ocr" THEN "prepare" ELSE "extract")
    BY <1>4, <2>1 DEF MarkOcr, MarkExtract, Task
  <2>3. /\ job' = [job EXCEPT ![running.job].status = "processing"]
        /\ ~ Settled(running.job) /\ job[running.job].kind \in Kind
    BY <1>4, <2>1 DEF MarkOcr, MarkExtract, TypeOK, Job
  <2>4. /\ job'[running.job].status = "processing"
        /\ job'[running.job].kind = job[running.job].kind
        /\ \A j \in Jobs : j # running.job => job'[j] = job[j]
    BY <2>1, <2>3 DEF TypeOK, Job
  <2> QED BY <2>1, <2>2, <2>3, <2>4 DEF Kind
<1>5. CASE CleanPages \/ ReadPage
  <2>1. running \in Task
    BY <1>5, Holds DEF CleanPages, ReadPage
  <2> QED BY <1>5, <2>1 DEF CleanPages, ReadPage, Task
<1>6. CASE CompleteOcr \/ SaveFields
  <2>1. running \in Task /\ running.job \in Jobs
    BY <1>6, Holds DEF CompleteOcr, SaveFields, Task
  <2>2. /\ running'.job = running.job
        /\ \/ running'.at = "hand_over" /\ job[running.job].kind = "ocr"
           \/ running'.at = "pipeline" /\ job[running.job].kind = "extract"
    BY <1>6, <2>1 DEF CompleteOcr, SaveFields, Task
  <2>3. /\ job' = [job EXCEPT ![running.job].status = "completed"]
        /\ ~ Settled(running.job)
    BY <1>6, <2>1 DEF CompleteOcr, SaveFields
  <2>4. /\ job'[running.job].status = "completed"
        /\ job'[running.job].kind = job[running.job].kind
        /\ \A j \in Jobs : j # running.job => job'[j] = job[j]
    BY <2>1, <2>3 DEF TypeOK, Job
  <2> QED BY <2>1, <2>2, <2>3, <2>4
<1>7. CASE FailOcr \/ FailExtract
  <2>1. running \in Task /\ running.job \in Jobs
    BY <1>7, Holds DEF FailOcr, FailExtract, Task
  <2>2. /\ job' = [job EXCEPT ![running.job].status = "failed"]
        /\ ~ Settled(running.job) /\ running' = NoTask
    BY <1>7, <2>1 DEF FailOcr, FailExtract, FailedJob, Freed
  <2> QED BY <2>1, <2>2 DEF TypeOK, NoTask
<1>8. CASE HandOver
  <2>1. PICK j \in Jobs : IsNext(j) /\ job' = [job EXCEPT ![j] = [kind |-> "extract", status |-> "queued"]]
    BY <1>8 DEF HandOver
  <2> QED BY <1>8, <2>1 DEF HandOver, Freed, NoTask, IsNext, TypeOK
<1>9. CASE EndPipeline
  BY <1>9 DEF EndPipeline, Freed, NoTask
<1> QED BY <1>1, <1>2, <1>3, <1>4, <1>5, <1>6, <1>7, <1>8, <1>9 DEF TaskStep

\* Requests create jobs and leave the others, and the task, alone.
LEMMA RequestStepTask ==
  ASSUME TypeOK, NEW r \in Requests, RequestStep(r)
  PROVE  /\ UNCHANGED <<running, row, fields, faults>>
         /\ \A j \in Jobs : job[j].status # "none" => job'[j] = job[j]
         /\ \A j \in Jobs : job'[j] # job[j] => job'[j].status = "queued"
         /\ doc'.status \in {doc.status, "queued"}
<1> USE DEF TypeOK
<1>1. CASE CreateJob(r)
  <2>1. doc'.status \in {doc.status, "queued"}
    BY <1>1 DEF CreateJob, Flushed, Document
  <2> QED BY <1>1, <2>1 DEF CreateJob, IsNext
<1>2. CASE ~ CreateJob(r)
  <2>1. doc'.status = doc.status
    BY <1>2 DEF RequestStep, LoadDocument, AnswerActive, AnswerProcessed,
                FindNoJob, DeleteDocument, Document
  <2> QED BY <1>2, <2>1 DEF RequestStep, LoadDocument, AnswerActive,
                            AnswerProcessed, FindNoJob, DeleteDocument
<1> QED BY <1>1, <1>2

LEMMA NextTask ==
  ASSUME TypeOK, TaskInv, [Next]_vars
  PROVE  /\ TaskInv'
         /\ \A j \in Jobs : Settled(j) => job'[j] = job[j]
<1>1. CASE TaskStep
  BY <1>1, TaskStepTask
<1>2. ASSUME NEW r \in Requests, RequestStep(r)
      PROVE  /\ TaskInv'
             /\ \A j \in Jobs : Settled(j) => job'[j] = job[j]
  <2>1. running.at # "none" => running.job \in Jobs
    BY Holds DEF Task
  <2>2. running.at # "none" => job[running.job].status \in ProcessingStatus
    BY <2>1 DEF TypeOK, Job
  <2> QED BY <1>2, <2>1, <2>2, RequestStepTask DEF TaskInv, Active, Settled
<1>3. CASE Restart \/ FailUnrecorded
  BY <1>3 DEF Restart, FailUnrecorded, TaskInv, NoTask
<1>4. CASE UNCHANGED vars
  BY <1>4 DEF vars, TaskInv, Active, Settled
<1> QED BY <1>1, <1>2, <1>3, <1>4 DEF Next

-----------------------------------------------------------------------------
(* The text of a processed document                                        *)

\* From the mark of an OCR task to its end the document does not say
\* processed, and the pages before its page are its own.
TextInv ==
  /\ running.at = "mark" /\ running.seen = "processing" => doc.status # "processed"
  /\ running.at \in {"prepare", "page"} => doc.status # "processed"
  /\ running.at \in {"mark", "prepare"} => running.page = 1
  /\ running.at = "page" =>
       \A p \in PageNos : p < running.page => row[p] = running.job
  /\ ProcessedHasText

LEMMA TaskStepText ==
  ASSUME TypeOK, TextInv, TaskStep
  PROVE  TextInv'
<1> USE DEF TextInv
<1>1. CASE SkipSettled \/ FailDeleted
  BY <1>1 DEF SkipSettled, FailDeleted, NoTask, ProcessedHasText
<1>2. CASE StartTask
  BY <1>2 DEF StartTask, ProcessedHasText
<1>3. CASE MarkOcr
  <2>1. running \in Task
    BY <1>3, Holds DEF MarkOcr
  <2>2. running'.at = "prepare" /\ running'.page = 1 /\ UNCHANGED row
    BY <1>3, <2>1 DEF MarkOcr, Task
  <2>3. doc'.status # "processed"
    BY <1>3 DEF MarkOcr, Marked, Flushed, TypeOK, Document
  <2> QED BY <2>2, <2>3 DEF ProcessedHasText
<1>4. CASE CleanPages
  <2>1. running \in Task
    BY <1>4, Holds DEF CleanPages
  <2>2. running'.at = "page" /\ running'.page = running.page /\ UNCHANGED doc
    BY <1>4, <2>1 DEF CleanPages, Task
  <2>3. running.page = 1
    BY <1>4 DEF CleanPages
  <2> QED BY <1>4, <2>2, <2>3 DEF CleanPages, ProcessedHasText, PageNos
<1>5. CASE ReadPage
  <2>1. running \in Task /\ running.page \in PageNos
    BY <1>5, Holds DEF ReadPage, Task, PageNos
  <2>2. /\ running'.at = "page" /\ running'.page = running.page + 1
        /\ running'.job = running.job /\ UNCHANGED doc
    BY <1>5, <2>1 DEF ReadPage, Task
  <2>3. \A p \in PageNos : p < running'.page => row'[p] = running.job
    BY <1>5, <2>1, <2>2, PipelineAssumption DEF ReadPage, TypeOK, Text, PageNos
  <2> QED BY <1>5, <2>2, <2>3 DEF ReadPage, ProcessedHasText
<1>6. CASE CompleteOcr
  <2>1. running \in Task /\ running.job \in Jobs
    BY <1>6, Holds DEF CompleteOcr, Task
  <2>2. running'.at = "hand_over" /\ UNCHANGED row
    BY <1>6, <2>1 DEF CompleteOcr, Task
  <2>3. \A p \in PageNos : row[p] = running.job
    BY <1>6, PipelineAssumption DEF CompleteOcr, PageNos
  <2> QED BY <2>1, <2>2, <2>3 DEF ProcessedHasText, NoText, Jobs
<1>7. CASE FailOcr
  BY <1>7 DEF FailOcr, Freed, NoTask, TypeOK, Document, ProcessedHasText
<1>8. CASE MarkExtract \/ SaveFields
  <2>1. running \in Task
    BY <1>8, Holds DEF MarkExtract, SaveFields
  <2>2. running'.at \in {"extract", "pipeline"} /\ UNCHANGED <<doc, row>>
    BY <1>8, <2>1 DEF MarkExtract, SaveFields, Task
  <2> QED BY <2>2 DEF ProcessedHasText
<1>9. CASE HandOver \/ FailExtract \/ EndPipeline
  BY <1>9 DEF HandOver, FailExtract, EndPipeline, Freed, NoTask, ProcessedHasText
<1> QED BY <1>1, <1>2, <1>3, <1>4, <1>5, <1>6, <1>7, <1>8, <1>9 DEF TaskStep

LEMMA NextText ==
  ASSUME TypeOK, TextInv, [Next]_vars
  PROVE  TextInv'
<1>1. CASE TaskStep
  BY <1>1, TaskStepText
<1>2. ASSUME NEW r \in Requests, RequestStep(r)
      PROVE  TextInv'
  BY <1>2, RequestStepTask DEF TextInv, ProcessedHasText
<1>3. CASE Restart \/ FailUnrecorded
  BY <1>3 DEF Restart, FailUnrecorded, TextInv, NoTask, ProcessedHasText
<1>4. CASE UNCHANGED vars
  BY <1>4 DEF vars, TextInv, ProcessedHasText
<1> QED BY <1>1, <1>2, <1>3, <1>4 DEF Next

-----------------------------------------------------------------------------
(* No job is forgotten                                                     *)

Queued(q, j) == \E i \in 1..Len(q) : q[i] = j

LEMMA AppendQueued ==
  ASSUME NEW q \in Seq(Jobs), NEW j \in Jobs, NEW k \in Jobs
  PROVE  /\ Queued(Append(q, j), j)
         /\ Queued(q, k) => Queued(Append(q, j), k)
<1>1. Len(Append(q, j)) = Len(q) + 1 /\ Len(q) \in Nat
  OBVIOUS
<1>2. Append(q, j)[Len(q) + 1] = j
  OBVIOUS
<1>3. \A i \in 1..Len(q) : Append(q, j)[i] = q[i]
  OBVIOUS
<1> QED BY <1>1, <1>2, <1>3 DEF Queued

LEMMA TailQueued ==
  ASSUME NEW q \in Seq(Jobs), q # <<>>, NEW k \in Jobs, Queued(q, k)
  PROVE  k = Head(q) \/ Queued(Tail(q), k)
<1>1. PICK i \in 1..Len(q) : q[i] = k
  BY DEF Queued
<1>2. CASE i = 1
  BY <1>1, <1>2
<1>3. CASE i # 1
  <2>1. i - 1 \in 1..Len(Tail(q)) /\ Tail(q)[i - 1] = k
    BY <1>1, <1>3
  <2> QED BY <2>1 DEF Queued
<1> QED BY <1>2, <1>3

\* HasTask says whether a job is in the queue or has the permit.
LEMMA HasTaskQueued ==
  ASSUME NEW j \in Jobs
  PROVE  HasTask(j) <=> (running # NoTask /\ running.job = j) \/ Queued(waiting, j)
BY DEF HasTask, Queued

AllHaveTasks == \A j \in Jobs : Active(j) => HasTask(j)

\* The jobs a step makes active get a task, and a task that ends or is taken
\* from the queue leaves its job settled.
LEMMA TaskStepTasks ==
  ASSUME TypeOK, TaskInv, AllHaveTasks, TaskStep
  PROVE  AllHaveTasks'
<1> USE DEF Active
<1> DEFINE Mine(j) == running # NoTask /\ running.job = j
<1>1. \A j \in Jobs : Active(j) => Mine(j) \/ Queued(waiting, j)
  BY HasTaskQueued DEF AllHaveTasks
<1>2. SUFFICES \A j \in Jobs : Active(j)' =>
        (running' # NoTask /\ running'.job = j) \/ Queued(waiting', j)
  BY DEF AllHaveTasks, HasTask, Queued
<1>3. CASE SkipSettled \/ FailDeleted
  <2>1. waiting # <<>> /\ waiting' = Tail(waiting) /\ running = NoTask
    BY <1>3 DEF SkipSettled, FailDeleted
  <2>2. \A j \in Jobs : Active(j)' => Active(j) /\ j # Head(waiting)
    BY <1>3 DEF SkipSettled, FailDeleted, Runnable, TypeOK, Job
  <2> QED BY <1>1, <2>1, <2>2, TailQueued DEF TypeOK
<1>4. CASE StartTask
  <2>1. /\ waiting # <<>> /\ waiting' = Tail(waiting) /\ running = NoTask
        /\ UNCHANGED job
        /\ running' # NoTask /\ running'.job = Head(waiting)
    BY <1>4 DEF StartTask, NoTask
  <2> QED BY <1>1, <2>1, TailQueued DEF TypeOK
<1>5. CASE MarkOcr \/ MarkExtract \/ CleanPages \/ ReadPage \/ CompleteOcr \/ SaveFields
  <2>1. running \in Task
    BY <1>5, Holds DEF MarkOcr, MarkExtract, CleanPages, ReadPage, CompleteOcr, SaveFields
  <2>2. running'.job = running.job /\ running'.at # "none" /\ UNCHANGED waiting
    BY <1>5, <2>1 DEF MarkOcr, MarkExtract, CleanPages, ReadPage, CompleteOcr, SaveFields, Task
  <2>3. \A j \in Jobs : j # running.job => job'[j] = job[j]
    BY <1>5, <2>1 DEF MarkOcr, MarkExtract, CleanPages, ReadPage, CompleteOcr, SaveFields, Task, TypeOK
  <2> QED BY <1>1, <2>2, <2>3 DEF NoTask
<1>6. CASE HandOver
  <2>1. PICK j \in Jobs :
          /\ job' = [job EXCEPT ![j] = [kind |-> "extract", status |-> "queued"]]
          /\ waiting' = Append(waiting, j)
    BY <1>6 DEF HandOver, Released
  <2>2. ASSUME NEW k \in Jobs, Active(k)'
        PROVE  Queued(waiting', k)
    <3>1. CASE k = j
      BY <2>1, <3>1, AppendQueued DEF TypeOK
    <3>2. CASE k # j
      <4>1. Active(k)
        BY <2>1, <2>2, <3>2 DEF TypeOK
      <4>2. ~ Mine(k)
        BY <1>6, <4>1 DEF HandOver, TaskInv, Settled
      <4> QED BY <1>1, <2>1, <4>1, <4>2, AppendQueued DEF TypeOK
    <3> QED BY <3>1, <3>2
  <2> QED BY <2>2
<1>7. CASE FailOcr \/ FailExtract
  <2>1. running \in Task /\ running.job \in Jobs
    BY <1>7, Holds DEF FailOcr, FailExtract, Task
  <2>2. job' = [job EXCEPT ![running.job].status = "failed"] /\ UNCHANGED waiting
    BY <1>7 DEF FailOcr, FailExtract, FailedJob
  <2>3. \A j \in Jobs : Active(j)' => j # running.job /\ Active(j)
    BY <2>1, <2>2 DEF TypeOK, Job
  <2> QED BY <1>1, <2>2, <2>3
<1>8. CASE EndPipeline
  BY <1>1, <1>8 DEF EndPipeline, TaskInv, Settled
<1> QED BY <1>3, <1>4, <1>5, <1>6, <1>7, <1>8 DEF TaskStep

LEMMA RequestStepTasks ==
  ASSUME TypeOK, AllHaveTasks, NEW r \in Requests, RequestStep(r)
  PROVE  AllHaveTasks'
<1>1. UNCHANGED running
  BY RequestStepTask
<1>2. \A j \in Jobs : Queued(waiting, j) => Queued(waiting', j)
  <2>1. waiting' = waiting \/ \E j \in Jobs : waiting' = Append(waiting, j)
    BY DEF RequestStep, LoadDocument, AnswerActive, AnswerProcessed, FindNoJob,
           CreateJob, DeleteDocument, ActiveOf
  <2> QED BY <2>1, AppendQueued DEF TypeOK
<1>3. ASSUME NEW k \in Jobs, Active(k)', ~ Active(k)
      PROVE  Queued(waiting', k)
  <2>1. CreateJob(r)
    BY <1>3 DEF RequestStep, LoadDocument, AnswerActive, AnswerProcessed,
                FindNoJob, DeleteDocument, Active
  <2>2. PICK j \in Jobs :
          /\ job' = [job EXCEPT ![j] = [kind |-> KindAsked(r), status |-> "queued"]]
          /\ waiting' = Append(waiting, j)
    BY <2>1 DEF CreateJob
  <2>3. k = j
    BY <1>3, <2>2 DEF Active, TypeOK
  <2> QED BY <2>2, <2>3, AppendQueued DEF TypeOK
<1> QED BY <1>1, <1>2, <1>3, HasTaskQueued DEF AllHaveTasks, HasTask, Queued

\* A document that says processing is being read.
SaysProcessing == doc.status = "processing" => running.at \in {"prepare", "page"}

LEMMA TaskStepSays ==
  ASSUME TypeOK, SaysProcessing, TaskStep
  PROVE  SaysProcessing'
<1> USE DEF SaysProcessing
<1>1. CASE SkipSettled \/ FailDeleted
  BY <1>1 DEF SkipSettled, FailDeleted, NoTask
<1>2. CASE StartTask
  BY <1>2 DEF StartTask, NoTask
<1>3. CASE MarkOcr \/ CleanPages \/ ReadPage
  <2>1. running \in Task
    BY <1>3, Holds DEF MarkOcr, CleanPages, ReadPage
  <2> QED BY <1>3, <2>1 DEF MarkOcr, CleanPages, ReadPage, Task
<1>4. CASE CompleteOcr \/ FailOcr
  BY <1>4 DEF CompleteOcr, FailOcr, TypeOK, Document
<1>5. CASE MarkExtract \/ SaveFields
  BY <1>5 DEF MarkExtract, SaveFields
<1>6. CASE HandOver \/ FailExtract \/ EndPipeline
  BY <1>6 DEF HandOver, FailExtract, EndPipeline
<1> QED BY <1>1, <1>2, <1>3, <1>4, <1>5, <1>6 DEF TaskStep

ForgottenInv == faults = 0 => AllHaveTasks /\ SaysProcessing

LEMMA NextForgotten ==
  ASSUME TypeOK, TaskInv, ForgottenInv, [Next]_vars
  PROVE  ForgottenInv'
<1>1. CASE TaskStep
  <2>1. UNCHANGED faults
    BY <1>1 DEF TaskStep, SkipSettled, FailDeleted, StartTask, MarkOcr, CleanPages,
                ReadPage, CompleteOcr, HandOver, FailOcr, MarkExtract, SaveFields,
                FailExtract, EndPipeline
  <2> QED BY <1>1, <2>1, TaskStepTasks, TaskStepSays DEF ForgottenInv
<1>2. ASSUME NEW r \in Requests, RequestStep(r)
      PROVE  ForgottenInv'
  BY <1>2, RequestStepTask, RequestStepTasks DEF ForgottenInv, SaysProcessing
<1>3. CASE Restart \/ FailUnrecorded
  BY <1>3 DEF Restart, FailUnrecorded, ForgottenInv, TypeOK
<1>4. CASE UNCHANGED vars
  BY <1>4 DEF vars, ForgottenInv, AllHaveTasks, SaysProcessing, HasTask, Active
<1> QED BY <1>1, <1>2, <1>3, <1>4 DEF Next

-----------------------------------------------------------------------------
(* Fields and the current text                                             *)

\* If the fields do not come from the text of the document, then a run that
\* reads them again is at work or queued, unless a job failed.
Outdated ==
  /\ \A j \in Jobs : job[j].status # "failed"
  /\ \E f \in fields : f.read # row

CurrentInv ==
  /\ \A f, g \in fields : f = g
  /\ running.at = "extract" => running.read = row
  /\ faults = 0 /\ Outdated =>
       running.at \in {"page", "hand_over"} \/ ActiveOf("extract") # {}

LEMMA TaskStepCurrent ==
  ASSUME TypeOK, TaskInv, CurrentInv, TaskStep
  PROVE  CurrentInv'
<1> USE DEF CurrentInv
<1>1. CASE SkipSettled
  BY <1>1 DEF SkipSettled, Outdated, ActiveOf, Active, NoTask
<1>2. CASE FailDeleted
  <2>1. job'[Head(waiting)].status = "failed" /\ Head(waiting) \in Jobs
    BY <1>2 DEF FailDeleted, TypeOK, Job
  <2> QED BY <1>2, <2>1 DEF FailDeleted, Outdated, NoTask
<1>3. CASE StartTask
  BY <1>3 DEF StartTask, Outdated, ActiveOf, Active, NoTask
<1>4. CASE MarkOcr
  <2>1. running \in Task /\ running.job \in Jobs
    BY <1>4, Holds DEF MarkOcr, Task
  <2>2. running'.at = "prepare" /\ UNCHANGED <<row, fields, faults>>
    BY <1>4, <2>1 DEF MarkOcr, Task
  <2>3. Outdated' => Outdated
    BY <1>4, <2>1, <2>2, TaskStepTask DEF MarkOcr, Outdated, TypeOK, Job, TaskInv, Active
  <2>4. ActiveOf("extract") \subseteq ActiveOf("extract")'
    BY <1>4, <2>1 DEF MarkOcr, ActiveOf, Active, TypeOK, Job
  <2> QED BY <1>4, <2>2, <2>3, <2>4 DEF MarkOcr
<1>5. CASE CleanPages \/ ReadPage
  <2>1. running \in Task
    BY <1>5, Holds DEF CleanPages, ReadPage
  <2>2. running'.at = "page" /\ UNCHANGED fields
    BY <1>5, <2>1 DEF CleanPages, ReadPage, Task
  <2> QED BY <2>2
<1>6. CASE CompleteOcr
  <2>1. running \in Task
    BY <1>6, Holds DEF CompleteOcr
  <2>2. running'.at = "hand_over" /\ UNCHANGED fields
    BY <1>6, <2>1 DEF CompleteOcr, Task
  <2> QED BY <2>2
<1>7. CASE HandOver
  <2>1. PICK j \in Jobs :
          job' = [job EXCEPT ![j] = [kind |-> "extract", status |-> "queued"]]
    BY <1>7 DEF HandOver
  <2>2. j \in ActiveOf("extract")'
    BY <2>1 DEF ActiveOf, Active, TypeOK
  <2> QED BY <1>7, <2>2 DEF HandOver, Freed, NoTask
<1>8. CASE FailOcr \/ FailExtract
  <2>1. running \in Task /\ running.job \in Jobs
    BY <1>8, Holds DEF FailOcr, FailExtract, Task
  <2>2. job'[running.job].status = "failed"
    BY <1>8, <2>1 DEF FailOcr, FailExtract, FailedJob, TypeOK, Job
  <2> QED BY <1>8, <2>1, <2>2 DEF FailOcr, FailExtract, Freed, NoTask, Outdated
<1>9. CASE MarkExtract
  <2>1. running \in Task /\ running.job \in Jobs
    BY <1>9, Holds DEF MarkExtract, Task
  <2>2. running'.at = "extract" /\ running'.read = row /\ UNCHANGED <<row, fields>>
    BY <1>9, <2>1 DEF MarkExtract, Task
  <2>3. running.job \in ActiveOf("extract")'
    BY <1>9, <2>1 DEF MarkExtract, ActiveOf, Active, TypeOK, Job
  <2> QED BY <2>2, <2>3
<1>10. CASE SaveFields
  <2>1. running \in Task
    BY <1>10, Holds DEF SaveFields
  <2>2. running'.at = "pipeline" /\ UNCHANGED row
    BY <1>10, <2>1 DEF SaveFields, Task
  <2>3. \A f \in fields' : f = [by |-> running.job, read |-> running.read]
    BY <1>10 DEF SaveFields, Saved
  <2>4. \A f \in fields' : f.read = row
    BY <1>10, <2>3 DEF SaveFields
  <2> QED BY <2>2, <2>3, <2>4 DEF Outdated
<1>11. CASE EndPipeline
  BY <1>11 DEF EndPipeline, Freed, NoTask, Outdated, ActiveOf, Active
<1> QED BY <1>1, <1>2, <1>3, <1>4, <1>5, <1>6, <1>7, <1>8, <1>9, <1>10, <1>11 DEF TaskStep

LEMMA NextCurrent ==
  ASSUME TypeOK, TaskInv, CurrentInv, [Next]_vars
  PROVE  CurrentInv'
<1>1. CASE TaskStep
  BY <1>1, TaskStepCurrent
<1>2. ASSUME NEW r \in Requests, RequestStep(r)
      PROVE  CurrentInv'
  <2>1. UNCHANGED <<running, row, fields, faults>>
    BY <1>2, RequestStepTask
  <2>2. \A j \in Jobs : job[j].status # "none" => job'[j] = job[j]
    BY <1>2, RequestStepTask
  <2>3. Outdated' => Outdated
    BY <2>1, <2>2 DEF Outdated
  <2>4. ActiveOf("extract") \subseteq ActiveOf("extract")'
    BY <2>2 DEF ActiveOf, Active
  <2> QED BY <2>1, <2>3, <2>4 DEF CurrentInv
<1>3. CASE Restart \/ FailUnrecorded
  BY <1>3 DEF Restart, FailUnrecorded, CurrentInv, NoTask, TypeOK
<1>4. CASE UNCHANGED vars
  BY <1>4 DEF vars, CurrentInv, Outdated, ActiveOf, Active
<1> QED BY <1>1, <1>2, <1>3, <1>4 DEF Next

-----------------------------------------------------------------------------
(* Results                                                                 *)

IInv == TypeOK /\ TaskInv /\ TextInv /\ ForgottenInv /\ CurrentInv

LEMMA InitIInv ==
  ASSUME Init
  PROVE  IInv
<1> USE PipelineAssumption DEF Init
<1>1. TypeOK
  <2>1. \A r \in Requests : IdleRequest \in Request
    BY DEF IdleRequest, Request
  <2> QED BY <2>1 DEF TypeOK, Document, DocumentStatus, Job, Unmade, Kind,
                      ProcessingStatus, Text, Blank
<1>2. TaskInv
  BY DEF TaskInv, NoTask
<1>3. TextInv
  BY DEF TextInv, ProcessedHasText, NoTask
<1>4. ForgottenInv
  BY DEF ForgottenInv, AllHaveTasks, SaysProcessing, Active, Unmade
<1>5. CurrentInv
  BY DEF CurrentInv, Outdated, NoTask
<1> QED BY <1>1, <1>2, <1>3, <1>4, <1>5 DEF IInv

LEMMA IInvAlways == Spec => []IInv
<1>1. IInv /\ [Next]_vars => IInv'
  BY NextTypes, NextTask, NextText, NextForgotten, NextCurrent DEF IInv
<1> QED BY <1>1, InitIInv, PTL DEF Spec

\* Documents, jobs, pages, fields and tasks stay well formed (documents,
\* document_processing_jobs, extraction_jobs, ocr_results, extracted_fields).
THEOREM TypesAlways == Spec => []TypeOK
<1>1. IInv => TypeOK
  BY DEF IInv
<1> QED BY <1>1, IInvAlways, PTL

\* A job that has completed or failed is never run again, however many tasks
\* were created for it (DocumentWorker, ExtractionWorker).
THEOREM SettledJobsStay == Spec => SettledJobStays
<1>1. IInv /\ [Next]_vars => [\A j \in Jobs : Settled(j) => job'[j] = job[j]]_vars
  BY NextTask DEF IInv
<1> QED BY <1>1, IInvAlways, PTL DEF Spec, SettledJobStays

\* A processed document has the text of all its pages, read by one job, even
\* if two requests created a job each (DocumentProcessingService).
THEOREM ProcessedAlwaysHasText == Spec => []ProcessedHasText
<1>1. IInv => ProcessedHasText
  BY DEF IInv, TextInv
<1> QED BY <1>1, IInvAlways, PTL

\* Without a fault every active job has a task, and a document that says
\* processing is being read (DocumentWorker, ExtractionWorker).
THEOREM NothingEverForgotten == Spec => []NothingForgotten
<1>1. IInv => NothingForgotten
  BY DEF IInv, ForgottenInv, AllHaveTasks, SaysProcessing, NothingForgotten
<1> QED BY <1>1, IInvAlways, PTL

\* Without a fault, when all jobs are completed the fields of the document
\* were read from the text it has now (ExtractionService.run_job).
THEOREM FieldsAlwaysCurrent == Spec => []FieldsFromCurrentText
<1>1. ASSUME CurrentInv
      PROVE  FieldsFromCurrentText
  <2>1. ASSUME faults = 0, running = NoTask,
               \A j \in Jobs : job[j].status \in {"none", "completed"}
        PROVE  \A f \in fields : f.read = row
    BY <1>1, <2>1 DEF CurrentInv, Outdated, ActiveOf, Active, NoTask
  <2> QED BY <1>1, <2>1 DEF CurrentInv, FieldsFromCurrentText
<1> QED BY <1>1, IInvAlways, PTL DEF IInv

\* A document that was deleted before a task reached it is not read.
THEOREM DeletedAlwaysLeftAlone == Spec => DeletedIsLeftAlone
<1>1. ASSUME doc.deleted, running = NoTask, Next
      PROVE  running' = NoTask /\ row' = row /\ fields' = fields
  <2>1. CASE TaskStep
    BY <1>1, <2>1 DEF TaskStep, SkipSettled, FailDeleted, StartTask, Found, MarkOcr,
       CleanPages, ReadPage, CompleteOcr, HandOver, FailOcr, MarkExtract, SaveFields,
       FailExtract, EndPipeline, NoTask
  <2>2. ASSUME NEW r \in Requests, RequestStep(r)
        PROVE  UNCHANGED <<running, row, fields>>
    BY <2>2 DEF RequestStep, LoadDocument, AnswerActive, AnswerProcessed, FindNoJob,
                CreateJob, DeleteDocument
  <2> QED BY <1>1, <2>1, <2>2 DEF Next, Restart, FailUnrecorded
<1>2. [Next]_vars => [doc.deleted /\ running = NoTask =>
                        running' = NoTask /\ row' = row /\ fields' = fields]_vars
  BY <1>1
<1> QED BY <1>2, PTL DEF Spec, DeletedIsLeftAlone
=============================================================================
