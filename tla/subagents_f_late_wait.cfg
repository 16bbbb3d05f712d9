CONSTANTS
  a1 = a1
  w1 = w1
  w2 = w2
  NoAgent = NoAgent
  Agent = {a1}
  Wait = {w1, w2}
  MaxRuns = 2
  MaxInputs = 1
  MaxBoots = 1
SPECIFICATION Spec
INVARIANT HeldResultsAreCollected
CHECK_DEADLOCK FALSE
