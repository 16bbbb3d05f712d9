CONSTANTS
  NoMsg = NoMsg
  m1 = m1
  m2 = m2
  c1 = c1
  c2 = c2
  d1 = d1
  d2 = d2
  Msg = {m1, m2}
  Caller = {c1, c2}
  Drainer = {d1, d2}
  Capacity = 1
  MaxAttempts = 2
  MaxRender <- Renders
  MaxOther = 1
SPECIFICATION Spec
PROPERTY LatestWins
CHECK_DEADLOCK FALSE
