CONSTANTS
  Threads = {t1, t2}
  Attempts = {a1, a2}
  MaxHandles = 3
  MaxInterrupts = 1
SPECIFICATION FairSpec
INVARIANT ConnectionSound
PROPERTY ConnectionEnds
