CONSTANTS
  c1 = c1
  c2 = c2
  c3 = c3
  t1 = t1
  t2 = t2
  Calls = {c1, c2, c3}
  Threads = {t1, t2}
  ThreadOf <- MCThreadOf
  Keys = {k1, k2}
  Styles = {"exact", "legacy"}
  RaisingStyles = {"exact"}
  MAX_MANAGERS = 1
  MAX_PENDING_RELEASES = 1
  MaxBuilds = 2
  MaxClears = 1
  MaxRaises = 2
SPECIFICATION Spec
SYMMETRY KeySymmetry
CONSTRAINT FewRaises
INVARIANT RegistrySound
PROPERTY HoldsKept
CHECK_DEADLOCK FALSE
