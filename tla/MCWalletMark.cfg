CONSTANTS
  Txs <- MCTxs
  Outs <- MCOuts
  Creator <- MCCreator
  Inputs <- MCInputs
  Mine <- MCMine
  Value <- MCValue
  Replaceable = {"r"}
  Unverifiable = {"v"}
  MaxHeight = 2
  None = None
  Blocks <- MCBlocks
  Parent <- MCParent
  Height <- MCHeight
  BlockTxs <- FirstTxsOf
  Start = "g"
  Marked = FALSE
  KeepBlocks = 10
  MaxQueue = 3
  UserOps = {}
  Relayed = {}
  Faults = {}
SPECIFICATION MarkSpec
INVARIANTS
  CaughtUp
