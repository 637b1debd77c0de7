CONSTANTS
  Threads = {t1, t2, t3}
  MaxGen = 2
  MaxDepth = 2
SPECIFICATION FairSpec
INVARIANT HandlesProtected
PROPERTIES DrainedNeverAdmits TeardownEnds
