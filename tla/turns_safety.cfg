CONSTANTS
  s1 = s1
  s2 = s2
  i1 = i1
  i2 = i2
  i3 = i3
  h1 = h1
  h2 = h2
  h3 = h3
  h4 = h4
  NoSession = NoSession
  Session = {s1, s2}
  FreshSession = {s2}
  Item = {i1, i2, i3}
  Task = {h1, h2, h3}
  InPlay <- AllHandlers
SPECIFICATION Spec
SYMMETRY ItemsAndTasks
INVARIANTS OneTurnOutsideRetries ExactlyOnePlace WaitingHasATaker
PROPERTY RefinesMailbox
CHECK_DEADLOCK FALSE
