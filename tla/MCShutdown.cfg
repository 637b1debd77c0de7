CONSTANTS
  Threads = {t1, t2, t3}
  NoThread = NoThread
  NoOwner = NoOwner
  Entries = {e1, e2}
  Absent = Absent
  MaxGen = 2
  MaxChunks = 2
  MaxDeletions = 2
  MaxAttempts = 3
  Workers = {w1, w2, w3}
  Nobody = Nobody
  MaxErrors = 1
  MaxItems = 3
  MaxCloses = 3
SPECIFICATION MCSpec
INVARIANTS SnapshotIntact CheckpointRestored NothingReplayed StrategyClosedOnce
INVARIANTS ManagerGoesLast LossesAreRaised
PROPERTIES CloseWaitersReturn MaintenanceReturns CallsReturn
\* A process that has closed its queue and its pipeline may stop, and so may
\* one whose commits are used up.
CHECK_DEADLOCK FALSE
