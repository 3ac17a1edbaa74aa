CONSTANTS
  Blocks <- MCBlocks
  Genesis = "g"
  None = None
  Parent <- MCParent
  Height <- MCHeight
  Work <- MCWork
  Path <- MCPath
  Coins <- MCCoins
  Creates <- MCCreates
  Spends <- MCSpends
  UtxoOf <- MCUtxoOf
  BadHeader = {}
  BadCheckpoint = {}
  BadScripts = {}
  MaxQueue = 1
  MaxOrphans = 2
  Mutable = {}
  Early = {}
  BadPow = {}
  AdminOps = {"reset"}
  Spv = FALSE
  Prune = FALSE
  KeepBlocks = 1
  PruneAfter = 0
  Faults = {"reset batch"}
SPECIFICATION Spec
INVARIANTS
  UndoAssertions
