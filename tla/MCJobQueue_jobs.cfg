\* Three lifespans in one process: the old worker may still be busy.
SPECIFICATION FairSpec
CONSTANTS
  email = email
  refund = refund
  cleanup = cleanup
  Jobs = {email, refund, cleanup}
  StopJob = StopJob
  NoWorker = NoWorker
  Workers = {w1, w2}
  MaxRetries <- ByName
  MaxStarts = 3
INVARIANTS JobInOnePlace RetryBudget
PROPERTIES JobSettles WorkerStops
CHECK_DEADLOCK FALSE
