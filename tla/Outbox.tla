------------------------------- MODULE Outbox -------------------------------
(***************************************************************************)
(* The transactional outbox: services record events in the transaction of  *)
(* the change they announce, and workers turn them into notifications, a   *)
(* batch per transaction (OutboxWorker.process_batch).                     *)
(*                                                                         *)
(* A batch is selected without row locks, so two workers may load the same *)
(* events. A worker takes its events one after another: it marks one       *)
(* PROCESSING and flushes, which locks the row until its transaction ends, *)
(* and calls the handler, which adds a notification that is inserted by    *)
(* the next flush or by the commit. What the worker writes in the end is   *)
(* computed from the rows as it loaded them.                               *)
(***************************************************************************)
EXTENDS Naturals, FiniteSets

CONSTANTS NumEvents,    \* bound on the events, numbered by created_at
          Workers,      \* concurrent calls of process_batch
          Limit,        \* size of a batch
          MaxAttempts,  \* OutboxWorker.MAX_ATTEMPTS
          Faulty,       \* events whose handler always raises
          MaxCrashes    \* bound on the batches lost in a crash

Events == 1..NumEvents

ASSUME OutboxAssumption ==
  /\ NumEvents \in Nat
  /\ Limit \in Nat \ {0}
  /\ MaxAttempts \in Nat \ {0}
  /\ Faulty \subseteq Events
  /\ MaxCrashes \in Nat

VARIABLES row,     \* outbox_events as committed
          notes,   \* how many notifications each event has
          batch,   \* what each worker has loaded and done
          retry,   \* failed events an administrator's request has loaded
          crashes

vars == <<row, notes, batch, retry, crashes>>

----------------------------------------------------------------------------

EventStatus == {"none", "pending", "processed", "failed"}

\* due: available_at has passed.
EventRow == [status : EventStatus, attempts : 0..MaxAttempts, due : BOOLEAN]
Unrecorded == [status |-> "none", attempts |-> 0, due |-> FALSE]

\* todo: loaded, not yet taken. done: taken, its row locked by this worker's
\* transaction. seen: attempt_count as loaded.
Batch == [todo : SUBSET Events, done : SUBSET Events,
          seen : [Events -> 0..MaxAttempts]]
NoBatch == [todo |-> {}, done |-> {}, seen |-> [e \in Events |-> 0]]

TypeOK ==
  /\ row \in [Events -> EventRow]
  /\ notes \in [Events -> Nat]
  /\ batch \in [Workers -> Batch]
  /\ retry \subseteq Events
  /\ crashes \in 0..MaxCrashes

Init ==
  /\ row = [e \in Events |-> Unrecorded]
  /\ notes = [e \in Events |-> 0]
  /\ batch = [w \in Workers |-> NoBatch]
  /\ retry = {}
  /\ crashes = 0

----------------------------------------------------------------------------

\* (Broken: the status is not looked at.)
DueAnyStatus == {e \in Events : row[e].due}

\* The events a batch is taken from.
Due == {e \in Events : row[e].status = "pending" /\ row[e].due}

\* The oldest of them, up to the limit.
Batches ==
  {B \in SUBSET Due :
     /\ Cardinality(B) = Limit \/ (Cardinality(B) < Limit /\ B = Due)
     /\ \A e \in B, f \in Due \ B : e < f}

\* (Broken: the batch is not ordered.)
TakenUnordered(todo) == todo

\* A worker takes the events of its batch in the order of created_at.
TakenNext(todo) == {e \in todo : \A f \in todo : e <= f}

\* (Broken: no unique index on notifications.)
InsertableAlways(S) == TRUE

\* uq_notification_event_user lets the notifications of S in.
Insertable(S) == \A e \in S : notes[e] = 0

\* (Broken: a notification is added before the handler raises.)
NotifyingAll(S) == S

\* The events of S whose handlers add a notification.
Notifying(S) == S \ Faulty

\* (Broken: one attempt too many.)
GivesUpLate(n) == n > MaxAttempts

GivesUp(n) == n >= MaxAttempts

\* (Broken: the attempt is not counted.)
AttemptNotCounted(w, e) == batch[w].seen[e]

\* attempt_count after the handler raised.
Attempt(w, e) == batch[w].seen[e] + 1

\* (Broken: a raising handler passes for a successful one.)
SettledAnyway(w, e) == [row[e] EXCEPT !.status = "processed"]

\* The row of e as worker w commits it.
Settled(w, e) ==
  IF e \notin Faulty
  THEN [row[e] EXCEPT !.status = "processed"]
  ELSE IF GivesUp(Attempt(w, e))
  THEN [row[e] EXCEPT !.status = "failed", !.attempts = Attempt(w, e)]
  ELSE [status |-> "pending", attempts |-> Attempt(w, e), due |-> FALSE]

----------------------------------------------------------------------------

\* A service commits the change the event announces, and the event with it.
RecordEvent(e) ==
  /\ row[e].status = "none"
  /\ row' = [row EXCEPT ![e] = [status |-> "pending", attempts |-> 0,
                                due |-> TRUE]]
  /\ UNCHANGED <<notes, batch, retry, crashes>>

\* available_at of an event that is to be retried passes.
BackoffEnds(e) ==
  /\ row[e].status = "pending"
  /\ ~ row[e].due
  /\ row' = [row EXCEPT ![e].due = TRUE]
  /\ UNCHANGED <<notes, batch, retry, crashes>>

\* retry_failed_job: an administrator asks for a failed event.
LoadFailed(e) ==
  /\ row[e].status = "failed"
  /\ retry' = retry \cup {e}
  /\ UNCHANGED <<row, notes, batch, crashes>>

\* It starts again from no attempt, whatever became of it meanwhile.
RetryFailed(e) ==
  /\ e \in retry
  /\ \A w \in Workers : e \notin batch[w].done
  /\ row' = [row EXCEPT ![e] = [status |-> "pending", attempts |-> 0,
                                due |-> TRUE]]
  /\ retry' = retry \ {e}
  /\ UNCHANGED <<notes, batch, crashes>>

\* The request ends without a commit.
RetryGivenUp(e) ==
  /\ e \in retry
  /\ retry' = retry \ {e}
  /\ UNCHANGED <<row, notes, batch, crashes>>

\* process_batch begins: the rows are selected, and not locked.
LoadBatch(w) ==
  /\ batch[w] = NoBatch
  /\ Due # {}
  /\ \E B \in Batches :
       batch' = [batch EXCEPT ![w] =
                   [todo |-> B, done |-> {},
                    seen |-> [e \in Events |-> IF e \in B THEN row[e].attempts
                                                          ELSE 0]]]
  /\ UNCHANGED <<row, notes, retry, crashes>>

\* The next event: PROCESSING is flushed together with the notification of the
\* event before it, which waits for the lock of the row; then its handler runs.
TakeEvent(w) ==
  /\ \E e \in TakenNext(batch[w].todo) :
       /\ \A v \in Workers \ {w} : e \notin batch[v].done
       /\ batch' = [batch EXCEPT ![w].todo = @ \ {e}, ![w].done = @ \cup {e}]
  /\ Insertable(Notifying(batch[w].done))
  /\ UNCHANGED <<row, notes, retry, crashes>>

CommitBatch(w) ==
  /\ batch[w].todo = {}
  /\ batch[w].done # {}
  /\ Insertable(Notifying(batch[w].done))
  /\ row' = [e \in Events |-> IF e \in batch[w].done THEN Settled(w, e)
                                                     ELSE row[e]]
  /\ notes' = [e \in Events |-> IF e \in Notifying(batch[w].done)
                                THEN notes[e] + 1
                                ELSE notes[e]]
  /\ batch' = [batch EXCEPT ![w] = NoBatch]
  /\ UNCHANGED <<retry, crashes>>

\* A notification is refused. That happens outside the handler's try, so the
\* whole batch is rolled back and no attempt is counted.
BatchRefused(w) ==
  /\ ~ Insertable(Notifying(batch[w].done))
  /\ batch' = [batch EXCEPT ![w] = NoBatch]
  /\ UNCHANGED <<row, notes, retry, crashes>>

\* The worker dies; the database forgets its transaction.
Crash(w) ==
  /\ crashes < MaxCrashes
  /\ batch[w] # NoBatch
  /\ batch' = [batch EXCEPT ![w] = NoBatch]
  /\ crashes' = crashes + 1
  /\ UNCHANGED <<row, notes, retry>>

Next ==
  \/ \E e \in Events : \/ RecordEvent(e) \/ BackoffEnds(e)
                       \/ LoadFailed(e) \/ RetryFailed(e) \/ RetryGivenUp(e)
  \/ \E w \in Workers : \/ LoadBatch(w) \/ TakeEvent(w) \/ CommitBatch(w)
                        \/ BatchRefused(w) \/ Crash(w)

Spec == Init /\ [][Next]_vars

\* A batch that was begun goes on (asyncio runs every task that can run, and
\* PostgreSQL grants a lock that is free), and time passes.
Fairness ==
  /\ \A w \in Workers : /\ WF_vars(TakeEvent(w))
                        /\ WF_vars(CommitBatch(w))
                        /\ WF_vars(BatchRefused(w))
  /\ \A e \in Events : WF_vars(BackoffEnds(e))

FairSpec == Spec /\ Fairness

----------------------------------------------------------------------------
(* Any number of workers.                                                  *)

\* Nobody is told the same thing twice, although two workers may have handled
\* the same event.
NotifiedOnce == \A e \in Events : notes[e] <= 1

\* An event is processed exactly when its notification exists: the rollback of
\* a batch takes both back.
ProcessedMeansNotified ==
  \A e \in Events : row[e].status = "processed" <=> notes[e] > 0

\* An event that waits has attempts left, whatever stale count a worker wrote.
PendingHasAttemptsLeft ==
  \A e \in Events : row[e].status = "pending" => row[e].attempts < MaxAttempts

\* Worker v waits for the row lock of an event that w has taken.
Waits(v, w) == \E e \in TakenNext(batch[v].todo) : e \in batch[w].done

\* Workers never wait for each other in a circle: all take rows in one order.
NoLockCycle ==
  \A W \in (SUBSET Workers) \ {{}} : \E v \in W : \A w \in W \ {v} : ~ Waits(v, w)

Promise == INSTANCE Delivery WITH
             Deliverable <- Events \ Faulty,
             recorded    <- {e \in Events : row[e].status # "none"},
             announced   <- notes

ImplementsDelivery == Promise!Spec

\* Somebody keeps calling process_batch. Nothing in the repository but its
\* tests does, so this is a condition and not part of the fairness.
KeepsPolling == \A w \in Workers : WF_vars(LoadBatch(w))

\* If batches keep being started, every recorded event is settled in the end:
\* batches refused because of a stale event, lost in a crash, or counted on a
\* stale attempt delay it, no more.
EventsSettle ==
  KeepsPolling =>
    \A e \in Events :
      row[e].status = "pending" ~> row[e].status \in {"processed", "failed"}

----------------------------------------------------------------------------
(* One worker at a time.                                                   *)

\* An event that exceeded its retries is left alone, unless an administrator
\* asked for it.
FailedWaitsForRetry ==
  [][\A e \in Events \ retry : row[e].status = "failed" => row'[e] = row[e]]_vars

\* No batch is refused.
NeverRefused ==
  \A w \in Workers : Insertable(Notifying(batch[w].done))

=============================================================================
