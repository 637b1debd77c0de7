CONSTANTS
  c1 = c1
  c2 = c2
  c3 = c3
  t1 = t1
  t2 = t2
  Calls = {c1, c2, c3}
  Threads = {t1, t2}
  ThreadOf <- MCThreadOf
  Keys = {k1}
  Styles = {"legacy"}
  RaisingStyles = {"legacy"}
  MAX_MANAGERS = 1
  MAX_PENDING_RELEASES = 1
  MaxBuilds = 3
  MaxClears = 1
  MaxRaises = 1
SPECIFICATION Spec
INVARIANT HoldersKeepManager
CHECK_DEADLOCK FALSE
