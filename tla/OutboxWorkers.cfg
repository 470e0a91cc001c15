\* Three workers, three events, batches of two; fairness of a batch that was begun.
CONSTANTS
  NumEvents = 3
  Workers = {w1, w2, w3}
  Limit = 2
  MaxAttempts = 2
  Faulty <- SecondFails
  MaxCrashes = 1
SPECIFICATION FairSpec
INVARIANTS
  TypeOK
  NotifiedOnce
  ProcessedMeansNotified
  PendingHasAttemptsLeft
  NoLockCycle
PROPERTIES
  ImplementsDelivery
  EventsSettle
CHECK_DEADLOCK FALSE
