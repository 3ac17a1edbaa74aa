CONSTANTS
  Clients = {c1}
  Names = {}
  NoName = NoName
  Kinds = {"WalletCalls"}
  Apart = {}
SPECIFICATION ServicesSpec
PROPERTIES
  LockReturns
CHECK_DEADLOCK FALSE
