CONSTANTS
  Txs = {"p", "q", "c", "e", "h"}
  Base = {"f", "k"}
  None = None
  Outs <- MCOuts
  Owner <- MCOwner
  Inputs <- MCInputs
  NonStandard = {}
  BadScripts = {}
  Templates <- MCTemplates
  MaxBlocks = 2
  Racing = {"q"}
  MaxSize = 2
  Threshold = 1
  MaxOrphans = 2
  MaxAncestors = 25
SPECIFICATION Spec
INVARIANTS
  ResolvedOrphansConnect
