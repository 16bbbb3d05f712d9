CONSTANTS
  s1 = s1
  s2 = s2
  p1 = p1
  p2 = p2
  NoSession = NoSession
  HopCap = 3
  Session = {s1}
  Push = {p1}
  Command = {}
  Text = {p1}
  TextOf <- OwnText
  LocalRoutes = {"tui", "none"}
  MaxBoots = 2
SPECIFICATION FairSpec
INVARIANT ParkedKeepsItsRow
PROPERTIES ParkedLeaveByTheFlush SurvivorsReachASurface
CHECK_DEADLOCK FALSE
