CONSTANTS
  Txs <- MCTxs
  Outs <- MCOuts
  Creator <- MCCreator
  Inputs <- MCInputs
  Mine <- MCMine
  Value <- MCValue
  Replaceable = {"r"}
  Unverifiable = {"v"}
  MaxHeight = 2
  None = None
  Blocks <- MCBlocks
  Parent <- MCParent
  Height <- MCHeight
  BlockTxs <- MCBlockTxs
  Start = "g"
  Marked = TRUE
  KeepBlocks = 10
  MaxQueue = 2
  UserOps = {"remove","rescan"}
  Relayed = {"p", "c", "r", "v"}
  Faults = {"crash"}
SPECIFICATION MCSpec
INVARIANTS
  CountsAreSums
  RecordsAgree
  FollowsChain
  KeepsAssertions
PROPERTIES
  KeepsPromise
