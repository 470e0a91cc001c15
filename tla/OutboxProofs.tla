---------------------------- MODULE OutboxProofs ----------------------------
(***************************************************************************)
(* What the outbox guarantees for any number of events and workers, and    *)
(* any batch size and attempt limit.                                       *)
(***************************************************************************)
EXTENDS Outbox, FiniteSetTheorems, TLAPS

----------------------------------------------------------------------------
(* The inductive invariant.                                                *)

\* What the rows say of their events. Only a faulty event fails, and what is
\* announced was recorded.
RowsOK ==
  /\ \A e \in Events : row[e].status = "failed" => e \in Faulty
  /\ \A e \in Events : row[e].status = "processed" <=> notes[e] > 0
  /\ \A e \in Events : notes[e] <= 1
  /\ \A e \in Events : notes[e] > 0 => e \notin Faulty
  /\ \A e \in Events : row[e].status = "pending" => row[e].attempts < MaxAttempts

\* What worker w may rely on although the rows it loaded may have changed: its
\* events were recorded and had attempts left, and it takes them in order.
BatchOK(w) ==
  /\ \A e \in batch[w].todo \cup batch[w].done :
       row[e].status # "none" /\ batch[w].seen[e] < MaxAttempts
  /\ \A d \in batch[w].done, e \in batch[w].todo : d < e

\* A row is locked by one transaction.
LocksOK ==
  \A v, w \in Workers : v # w => batch[v].done \cap batch[w].done = {}

\* Only failed events are retried, and these are the faulty ones.
RetryOK == \A e \in retry : e \in Faulty /\ row[e].status # "none"

IInv ==
  /\ TypeOK
  /\ RowsOK
  /\ \A w \in Workers : BatchOK(w)
  /\ LocksOK
  /\ RetryOK

LEMMA InitIInv == Init => IInv
BY OutboxAssumption
DEF Init, IInv, TypeOK, RowsOK, BatchOK, LocksOK, RetryOK, Unrecorded, NoBatch,
    EventRow, EventStatus, Batch

\* The row of an event of a batch, once the batch is committed.
LEMMA SettledRow ==
  ASSUME IInv, NEW w \in Workers, NEW e \in batch[w].done
  PROVE  /\ Settled(w, e) \in EventRow
         /\ Settled(w, e).status # "none"
         /\ Settled(w, e).status = "failed" => e \in Faulty
         /\ Settled(w, e).status = "processed" <=> e \notin Faulty
         /\ Settled(w, e).status = "pending" =>
              Settled(w, e).attempts < MaxAttempts
<1>1. /\ e \in Events /\ row[e] \in EventRow
      /\ batch[w].seen[e] \in Nat /\ batch[w].seen[e] < MaxAttempts
  BY OutboxAssumption DEF IInv, TypeOK, Batch, BatchOK
<1>2. /\ Attempt(w, e) \in 0..MaxAttempts
      /\ ~ GivesUp(Attempt(w, e)) => Attempt(w, e) < MaxAttempts
  BY <1>1, OutboxAssumption DEF Attempt, GivesUp
<1>3. CASE e \notin Faulty
  BY <1>1, <1>3 DEF Settled, EventRow, EventStatus
<1>4. CASE e \in Faulty /\ GivesUp(Attempt(w, e))
  BY <1>1, <1>2, <1>4 DEF Settled, EventRow, EventStatus
<1>5. CASE e \in Faulty /\ ~ GivesUp(Attempt(w, e))
  BY <1>1, <1>2, <1>5 DEF Settled, EventRow, EventStatus
<1> QED BY <1>3, <1>4, <1>5

\* A worker that lets go of its batch, the rows being left alone.
LEMMA LetsGo ==
  ASSUME IInv, NEW w \in Workers, batch' = [batch EXCEPT ![w] = NoBatch],
         UNCHANGED <<row, notes, retry>>, crashes' \in 0..MaxCrashes
  PROVE  IInv'
<1>1. NoBatch \in Batch
  BY OutboxAssumption DEF NoBatch, Batch
<1>2. TypeOK'
  BY <1>1 DEF IInv, TypeOK
<1>3. \A v \in Workers : BatchOK(v)'
  BY DEF IInv, TypeOK, BatchOK, NoBatch
<1>4. LocksOK'
  BY DEF IInv, TypeOK, LocksOK, NoBatch
<1> QED BY <1>2, <1>3, <1>4 DEF IInv, RowsOK, RetryOK

LEMMA StepIInv == IInv /\ [Next]_vars => IInv'
<1> SUFFICES ASSUME IInv, [Next]_vars PROVE IInv'
  OBVIOUS
<1>0. /\ row \in [Events -> EventRow]
      /\ notes \in [Events -> Nat]
      /\ batch \in [Workers -> Batch]
  BY DEF IInv, TypeOK
<1>1. CASE UNCHANGED vars
  BY <1>1 DEF vars, IInv, TypeOK, RowsOK, BatchOK, LocksOK, RetryOK
<1>2. ASSUME NEW e \in Events, RecordEvent(e) \/ BackoffEnds(e) \/ RetryFailed(e)
      PROVE  IInv'
  <2>1. PICK r \in EventRow :
          /\ r.status = "pending" /\ r.attempts < MaxAttempts
          /\ row' = [row EXCEPT ![e] = r]
    <3>1. CASE RecordEvent(e) \/ RetryFailed(e)
      <4> DEFINE r == [status |-> "pending", attempts |-> 0, due |-> TRUE]
      <4>1. r \in EventRow /\ r.status = "pending" /\ r.attempts < MaxAttempts
        BY OutboxAssumption DEF EventRow, EventStatus
      <4>2. row' = [row EXCEPT ![e] = r]
        BY <3>1 DEF RecordEvent, RetryFailed
      <4> HIDE DEF r
      <4> QED BY <4>1, <4>2
    <3>2. CASE BackoffEnds(e)
      BY <1>0, <3>2 DEF BackoffEnds, EventRow, IInv, RowsOK
    <3> QED BY <1>2, <3>1, <3>2
  <2>2. notes[e] = 0 /\ row[e].status # "processed"
    BY <1>0, <1>2
    DEF RecordEvent, BackoffEnds, RetryFailed, IInv, RowsOK, RetryOK
  <2>3. UNCHANGED <<notes, batch, crashes>> /\ retry' \subseteq retry
    BY <1>2 DEF RecordEvent, BackoffEnds, RetryFailed
  <2>4. TypeOK'
    BY <1>0, <2>1, <2>3 DEF IInv, TypeOK
  <2>5. RowsOK'
    BY <1>0, <2>1, <2>2, <2>3 DEF IInv, RowsOK
  <2>6. \A w \in Workers : BatchOK(w)'
    BY <1>0, <2>1, <2>3 DEF IInv, BatchOK
  <2>7. LocksOK' /\ RetryOK'
    BY <1>0, <2>1, <2>3 DEF IInv, LocksOK, RetryOK, TypeOK
  <2> QED BY <2>4, <2>5, <2>6, <2>7 DEF IInv
<1>3. ASSUME NEW e \in Events, LoadFailed(e) \/ RetryGivenUp(e) PROVE IInv'
  <2>1. UNCHANGED <<row, notes, batch, crashes>>
    BY <1>3 DEF LoadFailed, RetryGivenUp
  <2>2. retry' \subseteq Events /\ RetryOK'
    BY <1>3 DEF LoadFailed, RetryGivenUp, IInv, RowsOK, RetryOK, TypeOK
  <2> QED BY <2>1, <2>2 DEF IInv, TypeOK, RowsOK, BatchOK, LocksOK
<1>4. ASSUME NEW w \in Workers, LoadBatch(w) PROVE IInv'
  <2>1. PICK B \in SUBSET Due :
          batch' = [batch EXCEPT ![w] =
                      [todo |-> B, done |-> {},
                       seen |-> [e \in Events |-> IF e \in B
                                                  THEN row[e].attempts ELSE 0]]]
    BY <1>4 DEF LoadBatch, Batches
  <2> DEFINE b == [todo |-> B, done |-> {},
                   seen |-> [e \in Events |-> IF e \in B
                                              THEN row[e].attempts ELSE 0]]
  <2>2. b \in Batch
    BY <1>0, <2>1, OutboxAssumption DEF Batch, Due, EventRow
  <2>3. UNCHANGED <<row, notes, retry, crashes>>
    BY <1>4 DEF LoadBatch
  <2>4. TypeOK'
    BY <2>1, <2>2, <2>3 DEF IInv, TypeOK
  <2>5. batch'[w] = b /\ \A v \in Workers \ {w} : batch'[v] = batch[v]
    BY <1>0, <2>1
  <2>6. \A v \in Workers : BatchOK(v)'
    BY <2>3, <2>5 DEF IInv, BatchOK, Due, RowsOK
  <2>7. LocksOK'
    BY <2>5 DEF IInv, LocksOK
  <2> QED BY <2>3, <2>4, <2>6, <2>7 DEF IInv, RowsOK, RetryOK
<1>5. ASSUME NEW w \in Workers, TakeEvent(w) PROVE IInv'
  <2>1. PICK e \in TakenNext(batch[w].todo) :
          /\ \A v \in Workers \ {w} : e \notin batch[v].done
          /\ batch' = [batch EXCEPT ![w].todo = @ \ {e},
                                    ![w].done = @ \cup {e}]
    BY <1>5 DEF TakeEvent
  <2>2. UNCHANGED <<row, notes, retry, crashes>>
    BY <1>5 DEF TakeEvent
  <2>3. e \in Events /\ e \in batch[w].todo
    BY <1>0, <2>1 DEF TakenNext, Batch
  <2>4. /\ batch'[w] \in Batch
        /\ batch'[w].todo = batch[w].todo \ {e}
        /\ batch'[w].done = batch[w].done \cup {e}
        /\ batch'[w].seen = batch[w].seen
        /\ \A v \in Workers \ {w} : batch'[v] = batch[v]
    BY <1>0, <2>1, <2>3 DEF Batch
  <2>5. TypeOK'
    BY <1>0, <2>1, <2>2, <2>4 DEF IInv, TypeOK
  <2>6. \A v \in Workers : BatchOK(v)'
    <3>1. \A f \in batch[w].todo \ {e} : e < f
      BY <1>0, <2>1, <2>3 DEF TakenNext, Batch, Events
    <3> QED BY <2>2, <2>3, <2>4, <3>1 DEF IInv, BatchOK
  <2>7. LocksOK'
    <3> SUFFICES ASSUME NEW u \in Workers, NEW v \in Workers, u # v
                 PROVE  batch'[u].done \cap batch'[v].done = {}
      BY DEF LocksOK
    <3>1. batch[u].done \cap batch[v].done = {}
      BY DEF IInv, LocksOK
    <3>2. CASE u # w /\ v # w
      BY <2>4, <3>1, <3>2
    <3>3. CASE u = w
      <4>1. batch'[v].done = batch[v].done /\ e \notin batch[v].done
        BY <2>1, <2>4, <3>3
      <4> QED BY <2>4, <3>1, <3>3, <4>1
    <3>4. CASE v = w
      <4>1. batch'[u].done = batch[u].done /\ e \notin batch[u].done
        BY <2>1, <2>4, <3>4
      <4> QED BY <2>4, <3>1, <3>4, <4>1
    <3> QED BY <3>2, <3>3, <3>4
  <2> QED BY <2>2, <2>5, <2>6, <2>7 DEF IInv, RowsOK, RetryOK
<1>6. ASSUME NEW w \in Workers, CommitBatch(w) PROVE IInv'
  <2> DEFINE D == batch[w].done
  <2>1. D \subseteq Events /\ \A e \in D \ Faulty : notes[e] = 0
    BY <1>0, <1>6 DEF CommitBatch, Insertable, Notifying, Batch
  <2>2. /\ \A e \in D : row'[e] = Settled(w, e)
        /\ \A e \in Events \ D : row'[e] = row[e]
        /\ row' \in [Events -> EventRow]
    BY <1>0, <1>6, <2>1, SettledRow DEF CommitBatch
  <2>3. /\ \A e \in D \ Faulty : notes'[e] = 1
        /\ \A e \in Events \ (D \ Faulty) : notes'[e] = notes[e]
        /\ notes' \in [Events -> Nat]
    BY <1>0, <1>6, <2>1 DEF CommitBatch, Notifying
  <2>4. UNCHANGED <<retry, crashes>> /\ batch' = [batch EXCEPT ![w] = NoBatch]
    BY <1>6 DEF CommitBatch
  <2>5. \A e \in Events : row[e].status # "none" => row'[e].status # "none"
    BY <2>1, <2>2, SettledRow
  <2>6. TypeOK'
    BY <1>0, <2>2, <2>3, <2>4, OutboxAssumption
    DEF IInv, TypeOK, NoBatch, Batch
  <2>7. RowsOK'
    <3> SUFFICES ASSUME NEW e \in Events
                 PROVE  /\ row'[e].status = "failed" => e \in Faulty
                        /\ row'[e].status = "processed" <=> notes'[e] > 0
                        /\ notes'[e] <= 1
                        /\ notes'[e] > 0 => e \notin Faulty
                        /\ row'[e].status = "pending" =>
                             row'[e].attempts < MaxAttempts
      BY DEF RowsOK
    <3>1. CASE e \in D
      BY <1>0, <2>2, <2>3, <3>1, SettledRow DEF IInv, RowsOK
    <3>2. CASE e \notin D
      BY <2>2, <2>3, <3>2 DEF IInv, RowsOK
    <3> QED BY <3>1, <3>2
  <2>8. \A v \in Workers : BatchOK(v)'
    <3> SUFFICES ASSUME NEW v \in Workers PROVE BatchOK(v)'
      OBVIOUS
    <3>1. CASE v = w
      BY <1>0, <2>4, <3>1 DEF BatchOK, NoBatch
    <3>2. CASE v # w
      <4>1. batch'[v] = batch[v] /\ BatchOK(v) /\ batch[v] \in Batch
        BY <1>0, <2>4, <3>2 DEF IInv
      <4> QED BY <2>5, <4>1 DEF BatchOK, Batch
    <3> QED BY <3>1, <3>2
  <2>9. LocksOK' /\ RetryOK'
    BY <1>0, <2>4, <2>5 DEF IInv, LocksOK, RetryOK, NoBatch, TypeOK
  <2> QED BY <2>6, <2>7, <2>8, <2>9 DEF IInv
<1>7. ASSUME NEW w \in Workers, BatchRefused(w) \/ Crash(w) PROVE IInv'
  BY <1>7, LetsGo, OutboxAssumption DEF BatchRefused, Crash, IInv, TypeOK
<1> QED BY <1>1, <1>2, <1>3, <1>4, <1>5, <1>6, <1>7 DEF Next

\* The inductive invariant holds in every state of the outbox.
THEOREM Invariance == Spec => []IInv
BY InitIInv, StepIInv, PTL DEF Spec

\* Type correctness of the outbox.
THEOREM OutboxTypes == Spec => []TypeOK
<1>1. IInv => TypeOK
  BY DEF IInv
<1> QED BY <1>1, Invariance, PTL

\* Whatever workers do twice, nobody is notified twice of one event.
THEOREM OneNotification == Spec => []NotifiedOnce
<1>1. IInv => NotifiedOnce
  BY DEF IInv, RowsOK, NotifiedOnce
<1> QED BY <1>1, Invariance, PTL

\* Processed and notified are the same: no event waits whose notification is
\* there already (it would be refused, with its batch, for ever), and none is
\* settled without one.
THEOREM ProcessedIsNotified == Spec => []ProcessedMeansNotified
<1>1. IInv => ProcessedMeansNotified
  BY DEF IInv, RowsOK, ProcessedMeansNotified
<1> QED BY <1>1, Invariance, PTL

\* A waiting event has attempts left, although workers and administrators write
\* counts computed from rows they loaded earlier.
THEOREM AttemptsLeft == Spec => []PendingHasAttemptsLeft
<1>1. IInv => PendingHasAttemptsLeft
  BY DEF IInv, RowsOK, PendingHasAttemptsLeft
<1> QED BY <1>1, Invariance, PTL


----------------------------------------------------------------------------
(* Row locks.  A worker only waits for one that is ahead of it: what the    *)
(* latter still has to take comes after the row they meet at.  So of any   *)
(* workers, one that has the least left to pass waits for none of them.    *)

\* The events worker w has not passed yet.
Ahead(w) == {f \in Events : \E e \in batch[w].todo : e <= f}

LEMMA WaitingIsBehind ==
  ASSUME IInv, NEW v \in Workers, NEW w \in Workers, Waits(v, w)
  PROVE  <<Ahead(w), Ahead(v)>> \in StrictSubsetOrdering(Events)
<1>1. PICK e \in TakenNext(batch[v].todo) : e \in batch[w].done
  BY DEF Waits
<1>2. /\ e \in batch[v].todo /\ e \in Events
      /\ batch[w].todo \subseteq Events
      /\ \A f \in batch[v].todo : e <= f
  BY <1>1 DEF IInv, TypeOK, Batch, TakenNext
<1>3. \A f \in batch[w].todo : e < f
  BY <1>1 DEF IInv, BatchOK
<1>4. e \in Ahead(v) /\ e \notin Ahead(w)
  BY <1>2, <1>3 DEF Ahead, Events
<1>5. Ahead(w) \subseteq Ahead(v)
  BY <1>2, <1>3 DEF Ahead, Events
<1>6. Ahead(v) \in SUBSET Events /\ Ahead(w) \in SUBSET Events
  BY DEF Ahead
<1> QED BY <1>4, <1>5, <1>6 DEF StrictSubsetOrdering

LEMMA LeastAhead ==
  ASSUME NEW W \in (SUBSET Workers) \ {{}}
  PROVE  \E v \in W : \A w \in W :
           ~ (<<Ahead(w), Ahead(v)>> \in StrictSubsetOrdering(Events))
<1> DEFINE T == {Ahead(v) : v \in W}
<1>1. IsFiniteSet(Events)
  BY OutboxAssumption, FS_Interval DEF Events
<1>2. IsWellFoundedOn(StrictSubsetOrdering(Events), SUBSET Events)
  BY <1>1, FS_FiniteSubsetsOfFinite, FS_StrictSubsetOrderingWellFounded
<1>3. T \subseteq SUBSET Events /\ T # {}
  BY DEF Ahead
<1>4. PICK x \in T : \A y \in T : ~ (<<y, x>> \in StrictSubsetOrdering(Events))
  <2> HIDE DEF T
  <2> QED BY <1>2, <1>3, WFMin
<1> QED BY <1>4

\* Workers never wait for each other's row locks in a circle, however many
\* there are and whatever batches they have loaded.
THEOREM LocksInOrder == Spec => []NoLockCycle
<1>1. IInv => NoLockCycle
  <2> SUFFICES ASSUME IInv, NEW W \in (SUBSET Workers) \ {{}}
               PROVE  \E v \in W : \A w \in W \ {v} : ~ Waits(v, w)
    BY DEF NoLockCycle
  <2>1. PICK v \in W : \A w \in W :
          ~ (<<Ahead(w), Ahead(v)>> \in StrictSubsetOrdering(Events))
    BY LeastAhead
  <2>2. \A w \in W \ {v} : ~ Waits(v, w)
    BY <2>1, WaitingIsBehind
  <2> QED BY <2>2
<1> QED BY <1>1, Invariance, PTL

----------------------------------------------------------------------------
(* The outbox keeps its promise.                                           *)

\* Every step of the outbox records one event, announces the events of one
\* batch, or changes neither what is recorded nor what is announced.
LEMMA StepDelivers ==
  IInv /\ [Next]_vars
    => [Promise!Next]_<<{e \in Events : row[e].status # "none"}, notes>>
<1> DEFINE R == {e \in Events : row[e].status # "none"}
<1> SUFFICES ASSUME IInv, [Next]_vars
             PROVE  Promise!Next \/ (R' = R /\ notes' = notes)
  BY Zenon
<1>0. /\ row \in [Events -> EventRow]
      /\ notes \in [Events -> Nat]
      /\ batch \in [Workers -> Batch]
  BY DEF IInv, TypeOK
<1>1. CASE UNCHANGED <<row, notes>>
  BY <1>1
<1>2. ASSUME NEW e \in Events, RecordEvent(e) PROVE Promise!Next
  <2>1. e \notin R /\ R' = R \cup {e} /\ notes' = notes
    BY <1>0, <1>2 DEF RecordEvent
  <2> QED BY <2>1 DEF Promise!Next, Promise!Record
<1>3. ASSUME NEW e \in Events, BackoffEnds(e) \/ RetryFailed(e)
      PROVE  R' = R /\ notes' = notes
  <2>1. row[e].status # "none"
    BY <1>3 DEF BackoffEnds, RetryFailed, IInv, RetryOK
  <2>2. row'[e].status # "none" /\ \A f \in Events \ {e} : row'[f] = row[f]
    BY <1>0, <1>3 DEF BackoffEnds, RetryFailed, EventRow
  <2>3. notes' = notes
    BY <1>3 DEF BackoffEnds, RetryFailed
  <2> QED BY <2>1, <2>2, <2>3
<1>4. ASSUME NEW w \in Workers, CommitBatch(w) PROVE Promise!Next
  <2> DEFINE S == Notifying(batch[w].done)
  <2>1. batch[w].done \subseteq Events
    BY <1>0 DEF Batch
  <2>2. S \in SUBSET (R \cap (Events \ Faulty)) /\ \A e \in S : notes[e] = 0
    BY <1>4, <2>1 DEF CommitBatch, Insertable, Notifying, IInv, BatchOK
  <2>3. notes' = [e \in Events |-> IF e \in S THEN 1 ELSE notes[e]]
    BY <1>4, <2>2 DEF CommitBatch
  <2>4. R' = R
    <3>1. \A e \in batch[w].done : row[e].status # "none"
      BY DEF IInv, BatchOK
    <3>2. \A e \in Events : row'[e] = IF e \in batch[w].done THEN Settled(w, e)
                                      ELSE row[e]
      BY <1>4 DEF CommitBatch
    <3> QED BY <3>1, <3>2, SettledRow
  <2> QED BY <2>2, <2>3, <2>4 DEF Promise!Next, Promise!Announce
<1>5. ASSUME NEW w \in Workers,
             LoadBatch(w) \/ TakeEvent(w) \/ BatchRefused(w) \/ Crash(w)
      PROVE  UNCHANGED <<row, notes>>
  BY <1>5 DEF LoadBatch, TakeEvent, BatchRefused, Crash
<1>6. ASSUME NEW e \in Events, LoadFailed(e) \/ RetryGivenUp(e)
      PROVE  UNCHANGED <<row, notes>>
  BY <1>6 DEF LoadFailed, RetryGivenUp
<1>7. UNCHANGED vars => UNCHANGED <<row, notes>>
  BY DEF vars
<1> QED BY <1>1, <1>2, <1>3, <1>4, <1>5, <1>6, <1>7 DEF Next

\* The outbox implements Delivery: an event is announced at most once, by a
\* batch of recorded and deliverable events, and nothing recorded or announced
\* is ever taken back.
THEOREM DeliversAsPromised == Spec => ImplementsDelivery
<1>1. Init => Promise!Init
  BY DEF Init, Promise!Init, Unrecorded
<1> QED BY <1>1, Invariance, StepDelivers, PTL
        DEF Spec, ImplementsDelivery, Promise!Spec

----------------------------------------------------------------------------
(* One worker at a time.  Its events are still pending when it commits, which *)
(* two workers cannot rely on.                                             *)

BatchPending ==
  \A w \in Workers : \A e \in batch[w].todo \cup batch[w].done :
    row[e].status = "pending"

LEMMA StepAlone ==
  ASSUME NEW a, Workers = {a}
  PROVE  IInv /\ BatchPending /\ [Next]_vars => BatchPending'
<1> SUFFICES ASSUME IInv, BatchPending, [Next]_vars PROVE BatchPending'
  OBVIOUS
<1>0. /\ row \in [Events -> EventRow]
      /\ batch \in [Workers -> Batch]
      /\ a \in Workers
  BY DEF IInv, TypeOK
<1>1. CASE UNCHANGED vars
  BY <1>1 DEF vars, BatchPending
<1>2. ASSUME NEW e \in Events, RecordEvent(e) \/ BackoffEnds(e) \/ RetryFailed(e)
      PROVE  BatchPending'
  <2>1. row'[e].status = "pending" /\ \A f \in Events \ {e} : row'[f] = row[f]
    BY <1>0, <1>2 DEF RecordEvent, BackoffEnds, RetryFailed, EventRow
  <2>2. batch' = batch
    BY <1>2 DEF RecordEvent, BackoffEnds, RetryFailed
  <2> QED BY <1>0, <2>1, <2>2 DEF BatchPending, Batch
<1>3. ASSUME NEW e \in Events, LoadFailed(e) \/ RetryGivenUp(e)
      PROVE  BatchPending'
  BY <1>3 DEF LoadFailed, RetryGivenUp, BatchPending
<1>4. ASSUME NEW w \in Workers, LoadBatch(w) PROVE BatchPending'
  <2>1. PICK B \in SUBSET Due :
          batch' = [batch EXCEPT ![w] =
                      [todo |-> B, done |-> {},
                       seen |-> [e \in Events |-> IF e \in B
                                                  THEN row[e].attempts ELSE 0]]]
    BY <1>4 DEF LoadBatch, Batches
  <2>2. row' = row
    BY <1>4 DEF LoadBatch
  <2> QED BY <1>0, <2>1, <2>2 DEF BatchPending, Due
<1>5. ASSUME NEW w \in Workers, TakeEvent(w) PROVE BatchPending'
  <2>1. PICK e \in batch[w].todo :
          batch' = [batch EXCEPT ![w].todo = @ \ {e}, ![w].done = @ \cup {e}]
    BY <1>5 DEF TakeEvent, TakenNext
  <2>2. /\ batch'[w].todo = batch[w].todo \ {e}
        /\ batch'[w].done = batch[w].done \cup {e}
        /\ row' = row
    BY <1>0, <1>5, <2>1 DEF TakeEvent, Batch
  <2> QED BY <2>2 DEF BatchPending
<1>6. ASSUME NEW w \in Workers,
             CommitBatch(w) \/ BatchRefused(w) \/ Crash(w)
      PROVE  BatchPending'
  <2>1. batch' = [batch EXCEPT ![w] = NoBatch]
    BY <1>6 DEF CommitBatch, BatchRefused, Crash
  <2> QED BY <1>0, <2>1 DEF BatchPending, NoBatch
<1> QED BY <1>1, <1>2, <1>3, <1>4, <1>5, <1>6 DEF Next

LEMMA AloneInvariance ==
  ASSUME NEW a, Workers = {a}
  PROVE  Spec => [](IInv /\ BatchPending)
<1>1. Init => BatchPending
  BY DEF Init, BatchPending, NoBatch
<1>2. IInv /\ BatchPending /\ [Next]_vars => BatchPending'
  BY StepAlone
<1> QED BY <1>1, <1>2, Invariance, PTL DEF Spec

\* A worker that nobody runs beside has no batch refused.
THEOREM AloneNeverRefused ==
  ASSUME NEW a, Workers = {a}
  PROVE  Spec => []NeverRefused
<1>1. IInv /\ BatchPending => NeverRefused
  BY DEF IInv, TypeOK, Batch, RowsOK, BatchPending, NeverRefused, Insertable,
         Notifying
<1> QED BY <1>1, AloneInvariance, PTL

\* It leaves an event it gave up to the administrator.
THEOREM AloneKeepsFailed ==
  ASSUME NEW a, Workers = {a}
  PROVE  Spec => FailedWaitsForRetry
<1>1. IInv /\ BatchPending /\ [Next]_vars
        => [\A e \in Events \ retry :
              row[e].status = "failed" => row'[e] = row[e]]_vars
  <2> SUFFICES ASSUME IInv, BatchPending, Next, NEW e \in Events \ retry,
                      row[e].status = "failed"
               PROVE  row'[e] = row[e]
    OBVIOUS
  <2>0. row \in [Events -> EventRow]
    BY DEF IInv, TypeOK
  <2>1. ASSUME NEW f \in Events,
               RecordEvent(f) \/ BackoffEnds(f) \/ RetryFailed(f)
        PROVE  row'[e] = row[e]
    BY <2>0, <2>1 DEF RecordEvent, BackoffEnds, RetryFailed
  <2>2. ASSUME NEW w \in Workers, CommitBatch(w) PROVE row'[e] = row[e]
    BY <2>2 DEF CommitBatch, BatchPending
  <2>3. ASSUME UNCHANGED row PROVE row'[e] = row[e]
    BY <2>3
  <2> QED BY <2>1, <2>2, <2>3
          DEF Next, LoadFailed, RetryGivenUp, LoadBatch, TakeEvent,
              BatchRefused, Crash
<1> QED BY <1>1, AloneInvariance, PTL DEF Spec, FailedWaitsForRetry

=============================================================================
