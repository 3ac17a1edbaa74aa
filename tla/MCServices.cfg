CONSTANTS
  Clients = {c1, c2, c3, c4}
  Names = {n1, n2}
  NoName = NoName
  Kinds = {"Lock", "MappedLock", "WalletCalls", "CPUMiner", "WorkerPool"}
  Apart = {{"send", "lock"}, {"send", "destroy"}}
SPECIFICATION ServicesSpec
INVARIANTS
  MutualExclusion
  BooksAgree
  UnlockAssertions
  CallAssertionsHold
PROPERTIES
  ImplementsFifoMutex
  MappedLockServes
  CallsEnd
CHECK_DEADLOCK FALSE
