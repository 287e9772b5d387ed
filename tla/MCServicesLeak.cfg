CONSTANTS
  Intents = {"i"}
  Counted = {"i"}
  Peerings = {}
  Secret = "s"
  Clusters = {"c1", "c2"}
  Home = "c1"
  Foreign = {}
  MaxEdits = 2
  MaxFaults = 1
  Nodes = {"a", "b"}
  Macs = {"m1", "m2"}
  MaxMoves = 2
  MaxLosses = 2
SPECIFICATION MCSpec
INVARIANT DrainedCannotLeak
CHECK_DEADLOCK FALSE
