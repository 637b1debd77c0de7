CONSTANTS
  Children = {c1, c2}
  MaxOps = 4
  MaxFaults = 2
  Tokens = {k1, k2}
  PauseAt = 2
  ResumeAt = 1
  MaxDepth = 2
SPECIFICATION MCSpec
INVARIANTS SettlementSound ReleasedLast SettledOnce EarlySettlementsEnter GateProbes
PROPERTIES SettlementsEnd CloseAttemptEnds
\* A delivery that is settled stays settled, and a closed scheduler closed.
CHECK_DEADLOCK FALSE
