CONSTANTS
  s1 = s1
  s2 = s2
  p1 = p1
  p2 = p2
  NoSession = NoSession
  HopCap = 3
  Session = {s1, s2}
  Push = {p1}
  Command = {p1}
  Text = {p1}
  TextOf <- OwnText
  LocalRoutes = {"tui", "parking"}
  MaxBoots = 2
SPECIFICATION Spec
INVARIANTS NoLossNoDoubleBeforeRestart
PROPERTIES OnlyTheExposedVanish OnlyOwnersAreWoken RowsGoOnlyAfterTheirOffer TaskRowsGoOnlyWhenAccounted
CHECK_DEADLOCK FALSE
