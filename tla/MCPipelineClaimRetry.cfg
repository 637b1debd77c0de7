CONSTANTS
  Threads = {t1, t2, t3}
  NoThread = NoThread
  NoOwner = NoOwner
  Entries = {e1, e2}
  Absent = Absent
  MaxGen = 2
  MaxChunks = 2
  MaxDeletions = 2
  MaxAttempts = 3
  Workers = {w1, w2, w3}
  Nobody = Nobody
  MaxErrors = 1
  MaxItems = 3
  MaxCloses = 3
SPECIFICATION MCSpec
INVARIANT FailedCloseRetryable
CHECK_DEADLOCK FALSE
