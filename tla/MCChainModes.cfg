CONSTANTS
  Blocks <- MCAllBlocks
  Genesis = "g"
  None = None
  Parent <- MCParent
  Height <- MCHeight
  Work <- MCWork
  Path <- MCPath
  Coins <- MCCoins
  Creates <- MCCreates
  Spends <- MCSpends
  UtxoOf <- MCUtxoOf
  BadHeader = {"h5"}
  BadCheckpoint = {"k3"}
  BadScripts = {"s4"}
  MaxQueue = 1
  MaxOrphans = 2
  Mutable = {"a2"}
  Early = {"b1"}
  BadPow = {"w1"}
  AdminOps = {"reset", "replay"}
  Spv = FALSE
  Prune = FALSE
  KeepBlocks = 1
  PruneAfter = 0
  Faults = {}
SPECIFICATION ModesSpec
INVARIANTS
  OrphansAwaitParents
  OnlyInvalidCondemned
  RulesMatchTip
  BranchesHaveTips
  TipHasMostWork
  ModesHold
PROPERTIES
  LiveConverges
