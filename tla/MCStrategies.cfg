CONSTANTS
  Items = {i1, i2}
  Poppers = {t1}
  Threads = {t1, t2}
  NoThread = NoThread
  Delays = {0, 1, 4, 5}
  Timeouts = {0, 3}
  MaxTime = 6
  WheelSize = 2
  TickLength = 2
  Never = Never
  Flusher = Flusher
  NoOne = NoOne
  Threshold = 2
  MaxPending = 3
  MaxEntries = 4
  MaxFailures = 2
SPECIFICATION MCSpec
INVARIANTS NothingDropped OnTime WritesInOrder CloseComplete
PROPERTIES WakesForNext EntriesAgeOut
\* The clock stops at its bound, and a closed strategy may rest.
CHECK_DEADLOCK FALSE
