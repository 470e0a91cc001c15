SPECIFICATION FairSpec
CONSTANTS
  r1 = r1
  r2 = r2
  MaxJobs = 4
  NumPages = 2
  Requests <- TwoRequests
  MaxWaiting = 2
  MaxFaults = 1
INVARIANTS
  TypeOK
  ProcessedHasText
  NothingForgotten
  FieldsFromCurrentText
PROPERTIES
  SettledJobStays
  DeletedIsLeftAlone
  JobsSettle
\* A deleted document whose jobs are done takes no further step.
CHECK_DEADLOCK FALSE
