CONSTANTS
  Peers = {"a", "b"}
  Blocks = {"x"}
  Txs = {"t"}
  Invs = {{"x"}, {"t"}}
  SyncedAt = 1
  BlockModes = {0, 1}
  MaxQueue = 2
  Callers = {"b"}
  MaxResets = 1
  Faults = {}
  Kinds = {"Pool", "Disturbed", "HeaderSync", "HostList"}
  Hosts = {1, 2, 3, 4}
  Buckets = {1, 2, 3}
  UsedBucket <- MCUsedBucket
  MaxEntries = 1
  MaxRefs = 8
  Checkpoints = {3, 5}
  Height = 5
  PacketSize = 2
  MaxRequest = 2
  MaxFails = 8
  MaxFaults = 2
SPECIFICATION NetSpec
INVARIANTS
  RequestsAgree
  HeadersKept
  BookKept
PROPERTIES
  RequestsEnd
  LoaderReturns
  HeaderSyncEnds
CHECK_DEADLOCK FALSE
