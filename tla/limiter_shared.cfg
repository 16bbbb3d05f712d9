CONSTANTS
  c1 = c1
  c2 = c2
  c3 = c3
  Caller = {c1, c2, c3}
  Interval = 3
  Start = 1
  Horizon = 7
SPECIFICATION Spec
SYMMETRY Callers
INVARIANTS SleepsAtMostOneInterval SequentialCallsKeepTheInterval
CHECK_DEADLOCK FALSE
