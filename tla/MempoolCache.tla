---------------------------- MODULE MempoolCache ----------------------------
(***************************************************************************)
(* MempoolCache in src/lib/mempool/mempool.js, and the mempool of a node   *)
(* that stops and starts.  With options.persistent it collects what enters *)
(* and leaves the pool in a batch, and writes it with the hash of the      *)
(* block the pool is on top of.  The chain's database is another one: the  *)
(* process may die between a batch of the one and a batch of the other.    *)
(***************************************************************************)
EXTENDS Mempool

VARIABLES
  persistent,   \* options.persistent
  disk,         \* the entries, the root R, and (history) lost and failed then
  batch,        \* what the disk holds once the batch is written
  astray        \* history: the chain has moved and the root was not told

cacheVars == <<persistent, disk, batch, astray>>

Saved(S, root, gone, broken) ==
  [entries |-> S, root |-> root, lost |-> gone, failed |-> broken]

(* What wipe leaves.  Without a database nothing is ever written.          *)
Wiped(root) == IF persistent THEN Saved({}, root, {}, {}) ELSE disk

CacheInit ==
  /\ persistent \in BOOLEAN
  /\ disk = Saved({}, chain, {}, {}) /\ batch = disk
  /\ astray = ~persistent

-----------------------------------------------------------------------------
(* addEntry saves and removeEntry removes.  What is saved under a root that*)
(* missed a block counts as a block that the pool missed.                  *)
Logged(root, missed) ==
  IF persistent
  THEN Saved((batch.entries \ (pool \ pool')) \cup (pool' \ pool), root, lost',
             IF missed THEN failed' \cup {"block"} ELSE failed')
  ELSE batch

(* A call of addTX that does not throw flushes if ten seconds have passed. *)
Returns ==
  /\ agenda' = <<>> /\ failed' = failed
  /\ \E t \in Txs :
       \/ Now(Trim(t, "peer")) /\ t \in pool'
       \/ Now(Insert(t, "peer")) /\ ~Refused(t)

TransactionStep ==
  /\ InsertTX \/ LimitSize \/ ConfirmTX
  /\ batch' = Logged(batch.root, astray)
  /\ disk' = disk \/ (Returns /\ disk' = batch')
  /\ astray' = (astray \/ \E t \in Txs : Now(Confirm(t)) /\ ConfirmFails(t))
  /\ UNCHANGED persistent

Submit(t) == AddTX(t) /\ UNCHANGED cacheVars

(* An empty pool does not tell the cache.                                  *)
MoveChain ==
  /\ (\E b \in Templates : AddBlock(b)) \/ RemoveBlock
  /\ astray' = (astray \/ pool = {})
  /\ UNCHANGED <<persistent, disk, batch>>

\* Mutant: the entries are flushed and the root is not.
FlushEntries ==
  /\ BlockDone
  /\ batch' = Logged(batch.root, FALSE) /\ disk' = batch'
  /\ astray' = ~persistent
  /\ UNCHANGED persistent

(* sync and flush at the end of _addBlock and _removeBlock.                *)
SyncCache ==
  /\ BlockDone
  /\ batch' = Logged(chain, FALSE) /\ disk' = batch'
  /\ astray' = ~persistent
  /\ UNCHANGED persistent

ResetCache ==
  /\ Reset
  /\ disk' = Wiped(chain') /\ batch' = disk'
  /\ astray' = ~persistent
  /\ UNCHANGED persistent

(* The process dies, between any two steps or in the midst of a reset of   *)
(* the chain, and starts: the pool is what the disk has if its root is the *)
(* chain's tip, and is wiped otherwise.                                    *)
Restart ==
  /\ \E h \in 0..Len(chain) :
       (h = Len(chain) \/ agenda = <<>>) /\ chain' = SubSeq(chain, 1, h)
  /\ disk' = IF disk.root = chain' THEN disk ELSE Wiped(chain')
  /\ batch' = disk'
  /\ astray' = ~persistent
  /\ pool' = disk'.entries /\ lost' = disk'.lost /\ failed' = disk'.failed
  /\ spents' = [o \in Outputs |->
       IF \E t \in pool' : o \in In(t) THEN CHOOSE t \in pool' : o \in In(t) ELSE None]
  /\ orphans' = [t \in Txs |-> 0] /\ waiting' = [h \in All |-> <<>>]
  /\ rejects' = {} /\ agenda' = <<>>
  /\ UNCHANGED persistent

CacheNext ==
  \/ \E t \in Txs : Submit(t)
  \/ TransactionStep \/ MoveChain \/ SyncCache \/ ResetCache \/ Restart

CacheSpec == Init /\ CacheInit /\ [][CacheNext]_<<vars, cacheVars>>

-----------------------------------------------------------------------------
(* A pool read from the disk can be mined on top of the chain: nothing in  *)
(* it is confirmed or spends what is spent already, and it has what it     *)
(* spends, whenever the process died.  Between calls the disk's root is the*)
(* chain's tip, so that the pool survives.  Excused are a block that an    *)
(* assertion cut short or an empty pool took no notice of: the root is not *)
(* the tip then, and what is saved before it is told again may be taken,   *)
(* once the chain has come back, for what it does not fit.                 *)
ReloadConnects ==
  /\ persistent => batch.entries = pool
  /\ ~astray /\ agenda = <<>> => disk.root = chain
  /\ "block" \notin disk.failed /\ disk.root = chain =>
       LET S == disk.entries
           backed == Coins \cup UNION {Outs[t] : t \in S \cup disk.lost}
       IN  /\ S \cap Confirmed = {}
           /\ \A t \in S : In(t) \subseteq backed
           /\ \A s, t \in S : s # t => In(s) \cap In(t) = {}
=============================================================================
