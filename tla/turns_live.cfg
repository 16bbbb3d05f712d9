CONSTANTS
  s1 = s1
  s2 = s2
  i1 = i1
  i2 = i2
  i3 = i3
  h1 = h1
  h2 = h2
  h3 = h3
  h4 = h4
  NoSession = NoSession
  Session = {s1}
  FreshSession = {}
  Item = {i1, i2, i3}
  Task = {h1, h2, h3}
  InPlay = {"message", "push", "replay"}
SPECIFICATION FairSpec
PROPERTIES ResumedTurnsDrain SlotsComeFree
CHECK_DEADLOCK FALSE
