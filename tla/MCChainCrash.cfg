CONSTANTS
  Blocks <- MCCrashBlocks
  Genesis = "g"
  None = None
  Parent <- MCParent
  Height <- MCHeight
  Work <- MCWork
  Path <- MCPath
  Coins <- MCCoins
  Creates <- MCCreates
  Spends <- MCSpends
  UtxoOf <- MCUtxoOf
  BadHeader = {}
  BadCheckpoint = {}
  BadScripts = {}
  MaxQueue = 1
  MaxOrphans = 2
  Mutable = {}
  Early = {}
  BadPow = {}
  AdminOps = {"reset", "replay", "invalidate"}
  Spv = FALSE
  Prune = FALSE
  KeepBlocks = 1
  PruneAfter = 0
  Faults = {"crash", "batch"}
SPECIFICATION CrashSpec
INVARIANTS
  IndicesAgree
  CoinsAreReplay
  TipIsDurable
  UndoIsExact
  StatesAreRight
  CoinCacheIsTrue
  EntryCachesAreTrue
PROPERTIES
  ImplementsLedger
