CONSTANTS
  Callers = {t1, t2, t3}
  Hanging = {t1}
  FailureThreshold = 2
  ResetTimeout = 1
  MaxEpoch = 4
SPECIFICATION MCFairSpec
INVARIANT BreakerSound
PROPERTIES LateOutcomesFenced BreakerRecovers ReportedExactlyOnce
