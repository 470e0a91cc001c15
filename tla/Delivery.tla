------------------------------ MODULE Delivery ------------------------------
(***************************************************************************)
(* What the transactional outbox promises: whatever workers do, an event   *)
(* that was recorded is announced to its addressee at most once, and an    *)
(* event that was not recorded never.  Outbox implements this.             *)
(***************************************************************************)
EXTENDS Naturals

CONSTANTS Events, Deliverable

VARIABLES recorded,   \* the events whose transaction committed
          announced   \* how many notifications each event has caused

Init ==
  /\ recorded = {}
  /\ announced = [e \in Events |-> 0]

Record(e) ==
  /\ e \notin recorded
  /\ recorded' = recorded \cup {e}
  /\ UNCHANGED announced

\* A batch announces several events in one transaction.
Announce(S) ==
  /\ \A e \in S : announced[e] = 0
  /\ announced' = [e \in Events |-> IF e \in S THEN 1 ELSE announced[e]]
  /\ UNCHANGED recorded

Next ==
  \/ \E e \in Events : Record(e)
  \/ \E S \in SUBSET (recorded \cap Deliverable) : Announce(S)

Spec == Init /\ [][Next]_<<recorded, announced>>

=============================================================================
