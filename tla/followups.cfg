CONSTANTS
  w = w
  d = d
  i1 = i1
  i2 = i2
  i3 = i3
  t1 = t1
  t2 = t2
  t3 = t3
  NoSession = NoSession
  NoTask = NoTask
  Session = {w, d}
  Discord = {d}
  Item = {i1, i2, i3}
  Task = {t1, t2, t3}
SPECIFICATION Spec
SYMMETRY Symmetry
INVARIANTS OneTurnPerSlot StopReachesTheTurn ExactlyOnePlace QueuedHaveARow NoRowOutlivesDelivery WaitingHasATaker
PROPERTY RefinesMailbox
CHECK_DEADLOCK FALSE
