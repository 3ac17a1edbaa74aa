CONSTANTS
  Blocks <- MCBlocks
  Genesis = "g"
  None = None
  Parent <- MCParent
  Height <- MCHeight
  Work <- MCWork
  Path <- MCPath
  Coins <- MCCoins
  Creates <- MCCreates
  Spends <- MCSpends
  UtxoOf <- MCUtxoOf
  BadHeader = {}
  BadCheckpoint = {}
  BadScripts = {"b2"}
  MaxQueue = 1
  MaxOrphans = 2
  Mutable = {}
  Early = {}
  BadPow = {}
  AdminOps = {"reset"}
  Spv = FALSE
  Prune = FALSE
  KeepBlocks = 1
  PruneAfter = 0
  Faults = {}
SPECIFICATION Spec
PROPERTIES
  ResetLeavesMainChain
