CONSTANTS
  Workers = {w1, w2}
  URLs = {u1}
  Routes = {"durable", "local"}
  VolatileLimit = 1
  MaxCopies = 2
  MaxCrashes = 1
  Callers = {c1, c2}
  Requests = {r1, r2}
  Fingerprint <- OnePage
  Nobody = Nobody
  Owners = {"direct", "other"}
  Limits = {1, 2}
  ShadowLimit = 1
  MaxEpoch = 2
  MaxDecisions = 2
SPECIFICATION MCSpec
SYMMETRY Symmetry
INVARIANTS CrawlKept FilterSound
