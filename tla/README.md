# A verification project for lcoin

lcoin is a Bitcoin/Litecoin full node, SPV node and wallet written in
JavaScript (a descendant of bcoin). This directory holds TLA+ modules translated
from its source under `src/lib`, TLC configurations that model-check them on
small instances, and TLAPS proofs of what holds for every instance.

`PROJECT.json` maps every definition that models code to the lines it models,
lists the runs, the theorems, the hazards with the properties that cover them,
the disagreements between code and comments that were met, and for every checked
property a mutation of a mapped definition that the property rejects.

    tlc -workers 2 -config MCChainModes.cfg MCChainModes   # one run
    tlapm ChainProofs.tla                                  # one module of proofs

Contents: 1 the system, 2 what is hard about it, 3 the modules, 4 the runs,
5 fairness, 6 the proofs, 7 disagreements found, 8 limits, 9 the plan.


## 1. The system

Everything runs on one JavaScript thread. Concurrency is that of promises: an
`async` method gives up the thread at each `await`, and any other method may run
in between. Mutual exclusion is therefore explicit, through the promise locks
of `utils/lock.js`. Durable state lives in LevelDB through atomic batches; a
process may die between any two of them.

| Component | State | Operations | Hard because |
|---|---|---|---|
| **Lock, MappedLock** (`utils/lock.js`) | `busy`, `jobs`, `current`, names; per-key queues | `lock`, unlocker, `has`, `hasPending`, `destroy` | hand-over between callers; destruction under a holder; no caller may be forgotten |
| **Chain** (`blockchain/chain.js`) | `tip`, `height`, `state`, invalid set, orphan maps, lock | `add`, `connect`, `reorganize`, `reorganizeSPV`, `reset`, `replay`, `invalidate`, orphan handling | blocks in any order, reorganisation in many batches, failure and crash half way |
| **ChainDB** (`blockchain/chaindb.js`) | keys `R e h H n p b u c`, pending state, caches | `save`, `reconnect`, `disconnect`, `reset`, `removeChains`, `pruneBlock`, `connectBlock`, `disconnectBlock` | several indices that must agree at every batch boundary; caches filled by readers that hold no lock |
| **Coins** (`coins/`) | views, undo records, packed coins | spend, restore, serialise | undo must be exact |
| **Deployments, retargeting** (`chain.js`) | state cache per deployment | `getState`, `getTarget` | window boundaries, stale cache |
| **Mempool** (`mempool/mempool.js`) | `map`, `spents`, orphans, `waiting`, rejects, address and fee indices, the persisted pool | `addTX`, `addBlock`, `removeBlock`, `reset`, `limitSize`, orphans, `MempoolCache` | insertions that cascade, conflicts, reorganisations, a second database |
| **Fees** (`mempool/fees.js`) | decaying statistics | `processTX`, `processBlock` | floating point |
| **Wallet, WalletDB, TXDB, accounts, keys, MasterKey** (`wallet/`) | records t, c, d, s, p, m, h, b; balances; block maps; tip; depths; timers | `add`, `confirm`, `disconnect`, `erase`, `send`, `lock`, `rescan`, `rollback`, `unlock` | three nested locks, crash between tip and records, conflicts |
| **Miner** (`mining/`) | `running`, job, template | `start`, `stop`, `mine`, `assemble` | start/stop against a running loop |
| **Workers** (`workers/`) | children, pending jobs, timers | `execute`, timeouts, respawn | dying workers |
| **Pool, peers, hosts, BIP150-152** (`net/`) | per-peer request maps, loader, header chain, host buckets, handshakes | `getBlock`, `addBlock`, `resolve`, `ban`, ... | lost, late and duplicated messages |
| **Database layer** (`db/`) | memory tree or LevelDB | `open`, `close`, batches, iterators | a batch is all or nothing |
| **Containers, AsyncObject** (`utils/`) | LRU, RBT, heap, maps; loading flags | | LRU pending against committed state; rebalancing |
| **Nodes** (`node/`) | references to the above | event wiring | order of the chain's events |
| Scripts, primitives, encodings, cryptography, HD keys, HTTP/RPC, BIP70 | none or a connection | | sequential: test vectors cover them |

How they interact. Peers, the miner and the RPC call `chain.add`, which queues
at `Chain.locker`, a named `Lock` (the name is the block hash, so that
`chain.has` and the pool see what is under way). The mempool uses **the same
lock** (`this.locker = chain.locker`): blocks and transactions are processed
one at a time. After each batch the chain emits `connect`, `disconnect` or
`reset`; the full node's listeners call `mempool.addBlock`, `removeBlock` or
`reset` and the chain awaits them before it goes on. The wallet follows the
chain through the node client and keeps its own copy of the tip. The RPC and the
miner read deployments, entries and coins **without** the chain's lock.

What makes each component correct:

- *Lock*: one holder; order of arrival; every call is let in or turned away;
  the names tell exactly which jobs hold or await the lock.
- *Chain and ChainDB*: at every batch boundary R, H, n and e describe one
  path from the genesis block; the coins are what replaying that path leaves;
  undo records are exact; the tip is the recorded valid chain with most work;
  only blocks that can never be valid are condemned; orphans really lack their
  parents; what is cached is what is stored; the deployment states are those of BIP9.
- *Mempool*: its entries could be mined on top of the chain; `spents` names
  the spender of each output; no entry is confirmed; limits hold; an orphan
  waits only for parents it lacks; what is reloaded after a crash connects.
- *Wallet*: balances equal the sum of unspent credits; confirming and
  undoing are inverse; the wallet follows the chain; no two calls wait for each
  other; a key in memory always has a timer that will destroy it.
- *Miner, workers*: `stop` returns, every job is answered, a template is a
  block that connects.
- *Pool*: what was requested is on the books of both the pool and the peer and
  becomes requestable again; a sync never loses its loader for good.


## 2. What is hard about it

`PROJECT.json` lists the hazards at the lines where they bite. Their themes:

- **Half-done work.** A reorganisation is a batch per block; so is a reset. A
  read, a failed batch, an invalid block or a crash between two of them meets
  an intermediate state. A failed verification leaves the tip *below* the
  chain it left, a failed reset leaves the tip in memory *above* the database.
- **Memory against disk.** `Chain.tip`, `Chain.state`, the caches and the
  pending state change apart from the batch; the mempool and the wallet have
  databases of their own.
- **Order.** Blocks before their parents, orphans before or after a parent is
  evicted, children confirmed before parents, malleated copies first.
- **Cascades.** A transaction that gets in resolves orphans, each of which is
  inserted, trimmed and may resolve others before the first insertion is over.
- **Derived indices.** n, H, p, R, u, `spents`, `waiting`, `orphanPrev`, the
  wallet's credits and balances, the request maps are all redundant, updated by
  different paths, and trusted by others.
- **Waiting.** Promise locks with FIFO queues that are destroyed under their
  holders; nested locks in the wallet; loops that must end; peers that stall.


## 3. The modules

| Module | Role | Code |
|---|---|---|
| `FifoMutex` | abstract: one line of calls per key | the promise of `utils/lock.js` |
| `Lock`, `MappedLock` | the two locks | `utils/lock.js` |
| `WalletCalls` | the order in which a wallet's calls take their locks, and the master key | `wallet.js`, `masterkey.js` |
| `CPUMiner`, `WorkerPool` | the mining loop; the worker processes | `cpuminer.js`, `workerpool.js` |
| `ChainTree` | constants: the block tree, its work and coins | external to the chain |
| `Ledger` | abstract: what the database promises its readers | |
| `Chain` | the chain and its database | `chain.js`, `chaindb.js`, undo coins |
| `EntryCaches` | the caches of entries and coins, and readers without the lock | `chaindb.js` |
| `Deployments` | BIP9 states and their cache | `chain.js`, `chaindb.js` |
| `Mempool` | the mempool | `mempool.js`, hooks of `fullnode.js` |
| `MempoolCache` (extends `Mempool`) | the persisted pool | `mempool.js`, class MempoolCache |
| `Template` | the choice of a block's transactions, by a heap | `miner.js`, `heap.js` |
| `RecencyCache` | abstract: a cache of limited size with batches | |
| `LRU` | the cache under the chain's and the wallet's | `utils/lru.js` |
| `MemDB` | the database in memory: red-black tree, batches, iterators | `memdb.js`, `rbt.js` |
| `WalletLedger` | abstract: what a wallet promises of its transactions | |
| `TXDB`, `WalletDB` (extends `TXDB`) | a wallet's transactions; following the chain | `txdb.js`, `walletdb.js` |
| `Pool` | peers, requests, the loader | `pool.js`, `peer.js` |
| `HeaderSync` | headers-first synchronisation | `pool.js` |
| `HostList` | the address book | `hostlist.js` |
| `Network` | the three side by side, which share nothing | `net/` |
| `MCChain`, `MCChainModes`, `MCChainCrash`, `MCMempool`, `MCMempoolStores`, `MCWallet`, `MCServices`, `MCSync` | instances for TLC | |
| `ChainProofs`, `EntryCacheProofs`, `LockProofs`, `MappedLockProofs`, `MempoolProofs`, `PoolProofs`, `WalletProofs`, `FollowProofs` | proofs, see section 6 | |

### Lock and MappedLock

A client is one call of a locked method. `pc` is its promise: `out`, `queued`,
`holding`, `refused`. `Lock.tla` keeps `busy`, `current`, `jobs`, `map` and
`destroyed` as the class does: taking a free lock, queueing, unlocking with
hand-over to the first job, unlocking of an emptied queue, unlocking after
destruction and `destroy()` are actions. `Has` and `HasPending` are the two
queries. In `MappedLock` `busy` and the queues are maps by key; a null key
takes no lock at all, as in the code. The `force` argument is a no-op and left
out. Both refine `FifoMutex`; the mapping puts the holder at the head of its line.

### WalletCalls, CPUMiner, WorkerPool

`WalletCalls`: a call is a program of steps (take a lock, work, release it), a
step between two awaits is an action; a lock is a line as in `FifoMutex`. The
master key's `unlock` starts a timer, `lock`, `destroy`, `encrypt` and
`decrypt` stop it. `CPUMiner` is the loop with `start`, `stop`, new tips and
errors; after an error the loop is gone for good, as in the code. `WorkerPool`
has slots, spawned processes, pending jobs and processes that die and may be
heard of twice. Jobs have timers in the code, but every job passes -1.

### Chain

The module's variables come in two groups. **Disk**: `entries` (keys e and h),
`mainAt` (H), `next` (n), `tips` (p), `best` (R), `stored` (b), `undo` (u),
`utxo` (c). **Memory**: `tip`, `rules` (the block `Chain.state` was computed
for), `invalid`, `orphans`, `queue` (jobs waiting at the lock) and `job` (the
one that holds it). `late` is the clock, `stranded` a history variable: a
reorganisation or a reset died half way and nothing has made up for it yet.

Blocks are members of a constant tree (`ChainTree`) with parent, height, work,
path to the genesis block, coins created and spent, and sets of blocks that
break rules: `BadHeader`, `BadCheckpoint`, `BadScripts`; `Early`, `Mutable` and
`BadPow` are blocks that come too soon, in a malleated copy, or without proof
of work.

An action is what runs between two durable effects:

| Action | Code |
|---|---|
| `Call` | a caller queues at the lock |
| `Add` (`AddDuplicate`, `AddCondemned`, `AddOrphan`, `AddConnect`) | `_add` up to `connect`, with `hasInvalid`, `storeOrphan`, `limitOrphans` |
| `SaveAlternate`, `RefuseAlternate` | `saveAlternate` |
| `SaveNext`, `RefuseNext` | `setBestChain` on the tip's child; `verifyContext`, `ChainDB._save`, `connectBlock`, `pruneBlock` |
| `DisconnectTip`, `ReconnectNext`, `RefuseReconnect`, `ReorganizeThrows` | `reorganize`, `disconnect`, `reconnect`: one batch each |
| `ReorganizeSPV` | `reorganizeSPV`: the reset is started |
| `Admin` | `reset`, `replay`, `invalidate` up to `removeChains`' batch |
| `ResetStep`, `ResetDone` | the loop of `ChainDB.reset`, then the end of `Chain._reset` |
| `CommitFails`, `ResetFails`, `Restart` | a batch that fails; the process dies and starts |
| `ClockAdvances` | the network time passes a block's timestamp |

`Finish` is the part of `_add` after `connect`: it goes on with the orphan that
waited for the block (`handleOrphans`). `Refuse` is the catch of a VerifyError
(`setInvalid` unless malleated). A verification result depends on what the code
looks at: `Verified` on header, checkpoint and body, `VerifiedInContext` also on
the coins of the database at that moment.

`Ledger` says what a reader of the database may rely on: the head moves along
one edge of the tree at a time, onto a block that is valid there, and the coins
are those of the head's path. The mapping is `head <- best, coins <- utxo`.

### EntryCaches and Deployments

`EntryCaches` has the chain's batches once more, small, with `cacheHash`,
`cacheHeight` and the coin cache: what a batch pushes to them when it starts,
takes back when it fails, and what `getEntryByHash`, `getEntryByHeight` and
`getCoin` put there after a read that a batch may have overtaken (`late`, at most
`MaxLate` batches). `Deployments` computes one deployment's state by the walk
of `getState` over windows, with the cache in memory, the updates that a block's
batch saves, calls from the RPC or the miner between two of the chain's steps,
and a restart as a version with other parameters.

### Mempool, MempoolCache, Template

`pool` is the map of entries, `spents` the index from outputs to entries,
`orphans` the number of missing parents of each orphan, `waiting` the orphans
per parent in order, `rejects` the filter of rejected hashes, `chain` the blocks
above the deep past. Because a call cascades, `agenda` holds what the running
call still has to do, innermost first: *insert* a transaction on behalf of a
peer, of an orphan or of a disconnected block, *trim* the pool at the end of an
insertion, *confirm* a block's transaction, *done*. `InsertTX`, `LimitSize`,
`ConfirmTX` and `BlockDone` execute its head; `AddTX`, `AddBlock`, `RemoveBlock`,
`Reset` start a call.

`Refused` lists the checks of `insertTX` in order, `Missing` is `findMissing`
with one item per input, `Package` the closure that `removeSpenders` deletes,
`Overflow` the two loops of `limitSize`. `AssertionFails` is an assertion that fails: not
being a VerifyError it unwinds every insertion up to the loop of `_removeBlock`
or to the caller; `failed` records whether it cut an insertion or a block short. `lost` records a block's transactions
that did not come back when the block was disconnected.

`MempoolCache` adds the batch that collects changes, the flush with the tip's
hash, a chain that moves on, crashes and the reload, with `options.persistent`
and without (a restart then starts with an empty pool). `Template` takes items off
a real binary heap, by priority first and by rate from some weight on.

### LRU and MemDB

`LRU` has the linked list, the sizes and the pending batch with start, commit
and drop; it implements `RecencyCache`. `MemDB` translates the insertion and
removal of `rbt.js` with their rotations; a node is called by its key.

### TXDB and WalletDB

`TXDB`: one action per batch: insertion with credits and spends, confirmation,
the replaceable flag, removal of conflicts, unconfirmation, `abandon`, erasure
with its recursion, and a failing batch. The balance is kept beside the records
as the code does, so that its agreement with them can be checked. `WalletLedger`
says what a caller may rely on. `WalletDB` adds the node's notifications queued
at `txLock`, the block maps and hashes per height, rollback, rescan, crash and
restart. Two history variables tell what it is not up to: `floor` is the lowest block whose
hash a wallet that kept up still has, `lost` says that a batch has failed, that the process has died in a rollback, or
that the chain fell below `floor`, that is, gave up `keepBlocks` blocks or more at once (288 on *main*).
`FollowsChain`, `KeepsAssertions` and `KeepsPromise` hold until then.

### Pool, HeaderSync, HostList

`Pool` has an action per handler or part of one between awaits, with both the
pool's and the peers' request maps, the loader, compact blocks, timers and the
pool's lock. `Reset` is what `Chain._reset` does to the pool: the chain is not synced any more, the
peers that sync go on, and unless it was silent the locator is sent again. `Unsupported` and `Disconnect` close the pool.
`HeaderSync` has the header chain between checkpoints. `HostList`
has the fresh and used buckets with reference counts and totals.


## 4. The runs

The components that share no state are explored by one run, one part to a
behaviour: a variable `kind` (or `mode`) is chosen initially and only that
part's actions are taken, the others' variables stay in an initial state. This is a
union of state graphs, not a product.

| Run | Instance | What it shows |
|---|---|---|
| `chain_modes` | 14 blocks with one of each kind of invalidity; modes *full*, *spv*, *prune*, *torn*, *live* | all orders of delivery: orphans, condemned blocks, branches, most work, rules in force, pruned bodies, convergence |
| `chain_crash` | 8 blocks, reset, replay, invalidate, batches that fail, crash anywhere; kinds *Chain*, *Deployments*, *EntryCaches* | what is durable stays consistent, what is cached stays true (650,000 states) |
| `chain_stray_branch`, `chain_undo_assertion` | failing reorganisation, failing reset | *violations*, see 7 |
| `mempool` | 5 transactions, pool of 2, 2 orphans, 2 blocks; persisted or not, crashes anywhere; kinds *Mempool*, *LRU*, *MemDB*, *Template* | index of spent outputs, connectedness, limits, orphan index, reload, containers, templates (1.3 million states) |
| `mempool_orphans` | the same | *violation*, see 7 |
| `wallet` | 7 transactions on two branches; modes *crash*, *batch*, *prune* | counters, records, following the chain, no assertion, the ledger |
| `wallet_mark`, `wallet_rollback` | a fresh wallet; a crash in a rollback | *violations*, see 7 |
| `services` | 4 calls; kinds *Lock*, *MappedLock*, *WalletCalls*, *CPUMiner*, *WorkerPool* | exclusion, books, assertions, order of arrival, everybody is served |
| `wallet_deadlock` | no calls kept apart | *violation*, see 7 |
| `sync` | 2 peers, 1 block, 1 transaction; kinds *Pool*, *Disturbed*, *HeaderSync*, *HostList* | books of requests, no request is lost, a loader is found, headers, addresses |

**The properties.** Beside one type invariant per module:

- `MutualExclusion`, `BooksAgree` (types, queue and name counts),
  `UnlockAssertions`, `ImplementsFifoMutex` for `Lock`; `MappedLockServes` is the same for
  `MappedLock`, key by key. `CallAssertionsHold`: no call meets
  another one's batch or an unexpectedly locked key, and a key in memory
  has a timer, with the exceptions of the code: `setLookahead`'s batch, an unlock that asked for no timer, a
  wallet destroyed under an unlock. `CallsEnd` (liveness): whoever waits for a lock is served or refused, a wallet's calls
  end, `stop()` returns, one loop at a time, every job is answered.
- `IndicesAgree`: H, n and R describe the same path, with nothing left over from
  abandoned branches. `CoinsAreReplay`: the coin database equals a replay from the
  genesis block. `UndoIsExact`: so every connected block can be taken back.
  `BodiesKept` (within `ModesHold`): what pruning may have lost, no more and no less.
- `BranchesHaveTips`: no branch is out of `removeChains`' reach. `OrphansAwaitParents`: the
  assertions of the orphan maps, their limit, and that no orphan is left waiting
  for a block that is there.
- `OnlyInvalidCondemned`: no malleated copy, slow clock or foreign branch can
  make the node refuse a good block for ever.
- `TipHasMostWork`, `TipIsDurable`, `RulesMatchTip`: memory against disk and the choice of chain.
  They excuse `stranded` states: a reorganisation that failed half way is never
  undone by the code, and the node stays below until the next block with more work arrives.
- `ImplementsLedger`: every step of every kind is a `Ledger` step. `LiveConverges`: liveness.
- `StatesAreRight`: whatever was cached, a state is the one BIP9 defines.
  `CoinCacheIsTrue`, `EntryCachesAreTrue`: caches against the database.
- `SpentsExact`, `WaitingFaithful` also in the middle of a cascade, `EntriesConnect`
  between calls, `SizesLimited` (within `StoresKept`). `EntriesConnect` excuses children of a transaction that a disconnected
  block could not bring back (`lost`): `_removeBlock` evicts nothing, so such
  children do stay. `ReloadConnects`: what is reloaded after a crash can be mined.
  `BlockIsSound`, `StoresKept`, `ImplementsCache`: templates, list and tree, recency.
- `CountsAreSums`, `RecordsAgree`, `FollowsChain`, `KeepsAssertions`, `KeepsPromise`:
  the wallet's counters and unconfirmed balance against its coins, its records against one another, its height
  and confirmations against the chain, and the refinement of `WalletLedger`.
- `RequestsAgree`: both books of requests, and the loader, which is the only peer to sync before the chain is
  synced, as long as the chain was never reset (`OneLoader`). `RequestsEnd`, `LoaderReturns` (liveness): no
  block is requested for ever of a peer that does not deliver it, also after a reset; a pool that syncs finds
  a loader. `HeadersKept`, `HeaderSyncEnds`, `BookKept`.

**Bounds and why they suffice.**

- *Locks*: with three waiting calls behind a holder, first, middle and last
  position of the queue differ; two names let names repeat and differ.
- *Chain*: the tree has branches that tie (a3 and c2), a higher branch with less
  work, a fork in the middle of another branch, and a transaction confirmed on
  two branches whose output is spent inside one block; the best chain can change
  up to four times. One job runs and one waits: jobs do not interact except
  through the queue's names (`hasPending`), for which *prune* has two
  waiting. Orphan chains of length three with a limit of two make eviction,
  replacement and resolution in a row happen. `MaxQueue` is the only bound that the
  code does not have; memory and disk are finite because the tree is. The modes other
  than *full* are offered valid blocks of part of the tree. In *torn* the batches of a reset fail half
  way, over a tree of four blocks; once one has, no other reset is asked for, since what
  comes of that are the states of run `chain_undo_assertion`.
- *chain_crash* leaves out the third branch, c2, which *chain_modes* has.
  Deployments: three windows of two blocks, so that a deployment can lock in and become active; reorganisations
  no deeper than a window (`Trunk`). Caches: a tree in which every block outweighs
  the one before, one reader, `MaxLate` 1.
- *Mempool*: a transaction with two parents, one that spends two outputs of the
  same parent, two conflicts, a pool too small for its content, an orphan limit
  that is reached, blocks that confirm a parent alone or with its child, one of
  them an orphan that the index has lost track of (`ConfirmFails`). `Racing` names
  the transactions of which another `addTX` may be waiting (`locker.hasPending`).
  `BadScripts` and `NonStandard` are empty in the run: a transaction refused for
  either reason ends as one in `Racing` does. A mempool that is persisted is handed q and h only.
- *LRU*: three keys of sizes 1, 2, 4 in a capacity of 3, batches of two. *MemDB*:
  six keys, since fewer do not reach every case of the rebalancing. *Template*: four
  transactions, weight limit 5.
- *Wallet*: a transaction with a parent in the wallet, one that conflicts, one that leaves nothing, one
  replaceable, one that does not verify; a crash at any point but the middle of a rollback, or one failing
  batch. `KeepBlocks` is 10 in these two modes, more than the chain is high; in *prune* it is 2, so that a
  block of height 2 deletes the start block's hash: the chain changes branches above the last hash that is
  left, and the wallet is disconnected, reset, rescanned and restarted with one that is missing. A step to
  `lost` is left out of *crash* and *prune*.
- *WalletCalls*: `Apart` keeps `send` from being called together with `lock` or `destroy`: they deadlock (see
  7). Every other pair of calls interleaves, `unlock` with `destroy` included. *CPUMiner*: two stops.
  *WorkerPool*: two slots, two jobs, three workers.
- *Pool*: two hosts, one block, one transaction, two packets at a time. *Disturbed* is the same pool with a
  host that may connect to us, one reset of the chain (`MaxResets`), compact blocks that close the pool and,
  for a node that starts synced, ones that come unasked (`blockMode` 1), but without transactions, which have
  request maps of their own; the reset may come in any state and again finds the chain synced or not; a second
  one would meet the same flags. In both, `Faults` is empty: nobody stops the sync while a peer that does not
  sync owes a block, no block is announced twice, and the locator is always found. *HeaderSync*: two
  checkpoints, more blocks between them than a packet or a request holds, two disturbances (`MaxFaults`).
  *HostList*: four hosts, three buckets of one.

`CHECK_DEADLOCK` is FALSE where the system really may stop: `services` (the miner's loop
ends for good after an error, and all jobs may be done), `wallet_deadlock` and `sync` (a closed pool).
Everywhere else a call can still be made in every reachable state.


## 5. Fairness

- Locks: weak fairness of every holder's unlock. Every caller in the code unlocks
  in a `finally` block, and the promises it awaits inside are settled by the
  database. Nothing is assumed of callers that have not called or of `destroy()`.
- Chain, mode *live*: weak fairness of `Step`, the progress of the job that holds the
  lock or the start of the next; the event loop runs every settled promise. Strong
  fairness of `Sync`: a block that the node lacks and whose parent it has is offered again
  whenever there is room in the queue, which is what a peer does that answers the pool's
  `getblocks` from the locator of the tip; strong, because the queue may be full at times.
  It is asked with valid blocks and no failures; the result is *not* claimed where
  reorganisations fail. `CommitFails`, `Restart`, `Call` and the clock are never fair.
- *WalletCalls*, *CPUMiner*, *WorkerPool*: weak fairness of the steps of calls under way and of the
  processes' answers or deaths (a process that hangs for ever is not excluded by the code;
  no job has a timer, see 8).
- *Pool*: timers fire (a peer that owes something, `Stall`, or a loader that sends no block, `LoaderStalls`,
  is destroyed), what holds the pool's lock goes on and gives it back (handlers and the disconnection of a
  pool that is closed), discovery runs every two minutes and refills the outbound slots, handshakes complete
  infinitely often if attempted infinitely often (strong fairness of `Refill` and the handshake).
- *HeaderSync*: one weak fairness condition on all its progress.

In a run with several kinds the fair actions of a part that is not explored are never enabled: nobody has called it.


## 6. The proofs

TLAPS checks them for all values of the constants that satisfy the named
assumptions; TLC evaluates the assumptions on every run of a module that has
them. Every invariant below was checked by TLC before it was proved.

| Module | Theorems that state a run's property | Others |
|---|---|---|
| `LockProofs` | `LockExcludes` (MutualExclusion), `BooksCorrect` (BooksAgree), `AssertionsHold` (UnlockAssertions), `RefinesFifoMutex` (ImplementsFifoMutex) | `TypeCorrect`, `JobsFaithful`, `NamesFaithful` |
| `MappedLockProofs` | | `TypeCorrect`, `KeysExclude`, `QueuesServed`, `RefinesFifoMutex`: what the run's `MappedLockServes` says, apart from liveness |
| `ChainProofs` | `IndicesCorrect`, `CoinsCorrect`, `UndoCorrect`, `TipCorrect`, `CondemnedAreInvalid`, `RefinesLedger`, `OrphansCorrect`, `BranchesCorrect`, `RulesCorrect`, `MostWorkCorrect` | `TypeCorrect`, `SpvTipIsHeaviest`, `SpvResetIsComplete`, `BodiesCorrect` |
| `EntryCacheProofs` | | `CoinCacheCorrect`, `EntryCachesCorrect`: what the run `chain_crash` checks of an instance as `CoinCacheIsTrue`, `EntryCachesAreTrue`; `CacheMisleadsNoBlock`, `HashCacheCorrect` |
| `MempoolProofs` | `SpentsCorrect`, `WaitingCorrect`, `EntriesCorrect`, `ReloadCorrect`, `RestartsCorrect` | `SizesCorrect` |
| `PoolProofs` | `RequestsCorrect`, `HeadersCorrect` (HeadersKept), `BookCorrect` (BookKept) | `TypeCorrect`, `LoaderCorrect` |
| `WalletProofs` | `RecordsCorrect`, `CountsCorrect` | `HeightsKeepPromise`, `FiguresCorrect`: what of the run's `KeepsPromise` holds for any schedule, batches lost included |
| `FollowProofs` | `WalletFollowsChain` (FollowsChain), `WalletKeepsAssertions` (KeepsAssertions), `WalletKeepsPromise` (KeepsPromise) | |

**The locks.** Any finite or infinite set of clients, names and keys. The invariant of
`Lock` says that the holder is the one `current` belongs to, that the queue lists each
waiting client once under the name it passed, and that `map[n]` is the *number of
positions* of name n in the queue; the last conjunct needs the lemmas `PositionsAppend` and
`PositionsTail`, about cardinalities of sets of positions. The refinement of
`FifoMutex` takes each action to an abstract one by way of the line
"holder first, then the queue": joining a free lock and queueing both
append, a hand-over is a tail, `destroy` turns everyone behind the holder away. A line of
`MappedLock` is found the same way, one per key, and an action on one key leaves the others' lines alone.

**The block tree.** (The lemmas that `ChainProofs` begins with.) A path has one block per height, is closed
under parents, every inner block has its child on it, every set of blocks has a lowest. They rest on the
assumptions of `ChainTree`: paths are those of parents plus the block itself, heights grow by one, the coins
of a path are those of its parent's, changed by the block.

**The chain.** Any block tree, any schedule of calls, crashes and failing batches, one
hypothesis: `ResetsCommit`, that the batches of a reset do not fail. It is needed, as run
`chain_undo_assertion` shows. `RefinesLedger` is for full nodes (`~Spv`): an SPV node has no coins.
The inductive invariant `IInv` is
`TypeOK /\ DiskInv /\ TipIsDurable /\ OrphansApart /\ JobWellFormed`.
`CoinsAreReplay` alone is not inductive: when a block is taken off, the coins come from
its *undo record*, so `UndoIsExact` is needed; that restoring is inverse to spending
needs that every block of the main path spent coins that existed (`PathSpends`, lemma `UndoRestores`); that
the tip's record is meant needs `TipIsDurable`; that what `connect` adds is
not there already needs `OrphansApart` and `JobWellFormed` (a job's block is neither stored nor an orphan);
that `removeChains` deletes nothing of the main chain needs `IndicesAgree` (lemma `AlternatesOffMain`).
`ConnectKeeps`, `DisconnectKeeps` and `AlternatesKeep` are the three ways in which any action changes the
disk; the step theorem has one case per action and cites them.

**Branches, orphans, most work.** The second half of `ChainProofs` builds on `IInv`; lemma `StepKinds` sums up
every step as one of eleven kinds, and each section adds an invariant of its own:

- `OrphansInv`: whoever becomes linked was no orphan's parent, or its orphan leaves with it.
- `TipsInv`: the entries are closed under parents and each of them without a child
  has a p record. It needs `Tracked` (the node is SPV, or nobody resets it): run `chain_stray_branch`
  shows a full node's reset that breaks it. `SpvResetIsComplete` is that run's violated property, for SPV
  nodes: there a reset starts from a block that a failure cannot have left half way, so it holds.
- `RulesInv`: while a reorganisation has undone blocks, the job's block outweighs the tip. That is what
  makes the reconnection end above the old tip, and the rules in force those of the new one.
- `WorkInv`: no candidate outweighs the tip, or, inside a reorganisation, the block it goes to.
  A reset lowers the tip and so needs the branches above it to be gone:
  hence `Steady`, no crash or no reset. With both, a crash in the middle of a reset
  that left a stray branch behind restarts below that branch with nothing `stranded` to show for it.
- `PruneInv`: which bodies a disconnection may find gone. `KeepBlocks > 0`, as in every network's parameters.

**The chain's caches.** Any block tree and any number of readers, and a restart at any moment. A batch is on the disk before
its caller brings the caches up to date, so between the two a cache may have what either tip shows.

- `CoinInv`: the cached coins, and those that a reader holds with the `ChainDB.state` of now, are unspent at
  the tip or at the one that the pending batch left (`BatchInv` says which). Needed for the step back from a
  connected block: that it spent coins that existed (`SpendsInv`), and that one follows from the other, since
  blocks are verified against the cache. Whatever overtakes a read, so that `CoinCacheCorrect` has no
  hypothesis.
- `HeightInv`: an entry cached under its height, or about to be, is the main chain's, above the tip, or at the
  height that the commit under way will write (`Placed`); one whose hash is still being read by height has
  been overtaken at most once. That is the hypothesis `MaxLate \in {0, 1}` of `EntryCachesCorrect`: with two
  batches between a hash and its entry the block may have been replaced at its height, see 7. The cache by
  hash does not need it (`HashCacheCorrect`).

**The mempool.** Any transactions, blocks and limits. `IInv` is
`TypeOK /\ SpentsExact /\ OrphansInv /\ PoolInv /\ ChainLinked /\ EntriesInv /\ DoneEnds(agenda)`.

- `OrphansInv`: the orphans' numbers against the index `waiting`, in the middle of cascades too. What counts is
  how often an orphan stands in a list, so it needs lemmas about positions and their ranks (`RankIsBijective`).
- `PoolInv`: a pool above its limit has a *trim* still in the agenda, or an assertion has cut the cascade short.
- `EntriesInv`: the statement `EntriesConnect` holds only between calls; in the middle of one an
  entry may spend an output that comes from a coin, another entry, a transaction that got lost
  in a reorganisation or one that is *still to be put back* (`Returning`), or that a block's transaction
  *still to be looked at* contests (`Confirming`). At the end of the call both sets are empty, and the two
  statements meet. `ChainLinked` says that a block's parents are below it or in it, which is what makes a
  disconnected block's outputs come back in an order in which they connect.
- `CacheInv`, for a node that is stopped and started at any moment: what the disk has is a pool that fits the
  chain below the root that was saved with it (`Fits`), wherever the chain is by now, and the root is the tip's
  unless a block is under way or was not told. `DoneEnds`, that a block's end is the last item of its agenda, is
  what makes the pool that is flushed with a root one that is between calls. A restart takes the entries only
  where the chain stands at their root, so that `IInv` holds again (`RestartKeeps`).
  What is saved after an assertion cut a block short is excused until the pool is wiped, so `failed` tells a
  block from an insertion and is saved with the entries.

**The pool of peers.** Any peers, items, packets and timeouts. `LoaderInv` (one loader, who syncs is open and
outbound, and nobody but the loader before the chain is synced, unless it was reset) needs no hypothesis.
`Books` says that the two request maps split the pool's into one part per peer, and that a peer that left owes
nothing. It needs `Careful`: that nobody stops the sync, which clears the pool's maps of what inbound peers
still owe (`stopSync`, pool.js:741), and that no block comes unasked that another peer was asked for
(pool.js:2853); see 7. The run keeps to the same, `Faults = {}`, which those two actions' guards name.

*Headers.* Any checkpoints on the chain that is served, any limits. The claim `HeadersKept` counts: a peer
that serves the right headers is punished at most twice for each disturbance. It is shown with a potential.
`Clean` states are those whose next answers will all be taken for right ones: the sync starts afresh
(`Rested`), or the loader was asked once, for the headers that follow the last one known (`Fetching`).
`Forced` are those in which a reset will have the loader asked a second time. Each of the two costs one peer
at most: `Bound` keeps one punishment in reserve for a state that is not clean, or forced, and two for one
that is both. Every step is of one of three kinds (`Undisturbed`, `Punished`, `Disturbed`), and
`KindsKeepBound` says that each keeps the bound. `Follows` is `HeadersFollowChain` made inductive: the header
chain begins with a block that the chain has, unless its headers reach the checkpoint. While `chain.reset` has
moved the tip and not said so (`resetting`) it need not hold; nothing relies on it then.

*Addresses.* Any hosts, buckets and limits. `BookInv`: an entry is in as many fresh buckets as its `refs` say
or in the used bucket of its own, never in both; the totals are the numbers of either kind of entry; buckets
keep to their size. Each operation is looked at entry by entry (`PutKeeps` with an eviction, `MarkAckKeeps`
with the host that loses its used bucket), and the totals follow by cardinalities.

**The wallet.** Any transactions, blocks and values, with crashes, failing batches, abandoned
transactions and rescans. The assumptions say that names are hashes: no transaction spends its own
outputs or descends from itself. `WalletInv` is `Records /\ JobOK /\ Balances /\ WalletOK`.

- `Records` is `RecordsAgree`, and that a block lists a transaction once and that credits and undo coins are of
  the wallet's outputs. Each batch has a lemma (`EraseRecords`, `InsertRecords`, `ConfirmRecords`,
  `DisconnectRecords`) that looks at one output at a time: one that the transaction spends, one it makes, any other.
- `JobOK` says what makes the batches safe: whatever waits to be erased is on record with the height that was
  read, or gone with all its spends; and an addition under way has every other spender of its inputs among
  those that wait, so that once they are erased nothing else spends them.
- `Counts`: the balance moves as the set of coins that are not spent does. It needs lemmas about `Total`,
  a fold, whose value does not depend on the order (`TotalRemove`, `TotalUnion`, `TotalChange`), and `JobApart`: nothing
  that waits is gone already, or its erasure would be counted twice. That holds under `ConflictsApart`: no
  other transaction, alone or together with one that descends from it, spends two inputs of one transaction.
  Where it does the code miscounts (txdb.js:1512; see 7), so the hypothesis cannot be dropped.
- `HeightsKeepPromise`: the heights on record implement `WalletLedger`, for any schedule. Every action that
  changes them changes one: nothing enters before the conflicts are erased (`JobOK`), and what is erased has
  no descendants left (`Records`). `FiguresCorrect` adds three figures of the four to it, from `Counts`, since
  the spends on record are those of the known transactions.

**The wallet and the node.** `FollowProofs`, on top of `WalletInv`. The hypotheses:

- `ValidBlocks`, what the node's blocks are: one higher than their parents, no transaction twice in a chain,
  none before those it spends, no two that spend one output. `StartsEarly`: the first transaction of the
  wallet is in the block that it starts from; run `wallet_mark` shows what becomes of a wallet that starts
  there otherwise.
- No rescan is asked for. A rescan moves the wallet to a height while notifications wait at `txLock`; what is
  handed out after it is compared with the wallet by its height alone (`Fits`, walletdb.js `_addBlock`), and
  so, with more notifications waiting than run `wallet` has, a block may be connected on top of another
  branch.
- `FollowsChain` and the others hold until the wallet has `lost` a batch, died in a rollback (which run
  `wallet_rollback` shows not to be made up for) or the chain has given up `keepBlocks` blocks or more: the
  hashes are gone by which the wallet would go back. Nothing else is assumed of `KeepBlocks` than that it is
  positive: hashes are pruned as the chain grows.

`FollowInv` says where the wallet is. The blocks that lead to the one it is at are a chain from the start
(`Trail`), and the hashes it has are theirs (`Linked`); below some height they are pruned, which is never
above `floor` (`FloorOK`). Neither the node's chain nor a notification that waits (`QueueOK`) leads below it,
so that whatever the wallet goes back by is there. Some level L splits it: all blocks below L have all of the
wallet's transactions confirmed and in order, block L has its first m, those above have none (`Holds(L, m)`).
The call that holds `txLock` determines L and m (`AtWork`: at rest, connecting, scanning, removing, reverting;
`JobMatches` inside a transaction's batches), and the waiting notifications lead block by block from where
that call will end to the node's tip (`QueueOK`, `Leads`). A process that is down has no queue, and what it
missed is found by `Open`, which goes back to the last block that is still the node's. `HeightInv` (heights in
credits and undo coins are those of their transactions) makes the assertions of `confirm` and `disconnect`
hold. For `KeepsPromise` the confirmed figure is the sum of the outputs that are made and not spent by
confirmed transactions (`MinedOuts`); each batch moves both by the same outputs. It needs `ConflictsApart`, as
`CountsCorrect` does.

**Only model-checked**, and why:

- *Liveness* (`CallsEnd`, `LiveConverges`, `RequestsEnd`, `LoaderReturns`, `HeaderSyncEnds`) and everything about
  ENABLED: out of the prover's reach.
- *Values of recursive definitions*: `UtxoOf` of a tree is an assumption on a constant
  (`ChainTree`), which TLC evaluates; `Deployments.getState`'s walk (`StatesAreRight`),
  the trees of `MemDB` and the heap of `Template` (`StoresKept`, `BlockIsSound`) are data structures whose
  invariants need induction over data.
- *Stated by theorems of another name*: `CoinCacheIsTrue` and `EntryCachesAreTrue` of the run are those of an
  instance of `EntryCaches`.
- *Not attempted*: the container under the caches (`ImplementsCache`), the wallet's calls (`CallAssertionsHold`), the
  invariants of nodes in a fixed mode as such (`ModesHold`, whose parts are instances of what `ChainProofs` proves). See 9.


## 7. Disagreements found

1. **A reset can leave a branch behind** (`chain_stray_branch`, `ResetLeavesMainChain`).
   `removeChains` promises to "Remove all alternate chains", but walks only from
   the p records. After a reorganisation that failed half way, the main tip is an
   inner block without one; a reset to that block deletes the branches above it,
   from then on a branch exists that no p record reaches, and the next reset keeps it.
2. **A reset that fails leaves a tip off the database** (`chain_undo_assertion`,
   `UndoAssertions`). `ChainDB.reset` commits block by block, `Chain._reset`
   assigns `tip` after the loop only. After a failed batch blocks are connected to
   a removed tip, and a reorganisation away from it runs into the assertions of
   the undo record.
3. **A resolved orphan may lack a parent** (`mempool_orphans`, `ResolvedOrphansConnect`).
   A parent that was there when the orphan was stored is not counted, and may be
   evicted or disconnected before the counted ones come. `handleOrphans` asserts
   `!missing`; the error leaves the insertion of the parent that did arrive.
4. **A wallet's first block cannot be disconnected** (`wallet_mark`, `CaughtUp`,
   walletdb.js:1624). The first transaction in a block makes that block the start
   block and deletes the hashes of all heights below, so that the disconnection of
   that very block is refused and its transaction stays confirmed.
5. **A crash in a rollback is not made up for** (`wallet_rollback`, `CaughtUp`,
   walletdb.js:1886). Blocks are unconfirmed that the recorded height still covers,
   and the restart scans the last block only.
6. **Two calls wait for each other** (`wallet_deadlock`, `LockReturns`, wallet.js:585).
   `lock()` and `destroy()` take writeLock before fundLock, `send()` comes to
   writeLock while it holds fundLock.

Met and modelled as they are, or excused by name, without a run of their own:

- *Chain.* `_invalidate` calls `this.chain.setInvalid` on an object without a
  `chain`: the chain is rewound and the block is not marked (`ResetDone`). A reset to a
  stale block that is not on the main chain would disconnect down to the genesis
  block and leave a batch open.
- *Deployments.* Reorganisations deeper than a window, together with a `getState` without the lock
  (rpc.js:1365, 2474, miner.js:136), cache a wrong state. `verifyDeployments` (chaindb.js:658)
  returns early, so that a deployment added by a later version is never entered
  (excluded by `Configs`). The catch of `commit` does not drop the state cache's pending updates.
- *Caches.* A read of `getEntryByHash` overtaken by a reset puts a removed block into
  `cacheHash` (chaindb.js:385; excused by `stale`). With two batches between
  reading H and the entry `getEntryByHeight` fills `cacheHeight` wrongly, because it takes
  `chain.state` after the first read only (`MaxLate` 2). The SPV branch of `verify`
  returns `this.state` itself.
- *Mempool.* `removeOrphan` asserts that an orphan waits for every parent anybody
  waits for, which is false of parents it had found (`EvictionFails`,
  `ConfirmFails`); a parent spent twice is counted twice, so that its orphan is never
  resolved by it (`Missing`). An empty pool, or a failed `_addBlock`, skips `cache.sync`: the
  recorded hash stays old and a crash may reload entries that do not connect (`astray`). After a failed `_addBlock` the
  next block's `sync` saves, as if they fitted, entries that are confirmed; `close()` does not flush.
- *Miner.* A template for a tip captured before the awaits; `mempool.tip` is stale when
  `_addBlock` throws; then the CPU miner's loop ends for good.
- *Pool.* `stopSync` with an inbound peer that owes a block; a block announced twice in blockMode 1. When the
  chain finds itself synced the pool calls `sync()` (pool.js:178), a generator function that is not wrapped
  (pool.js:723): its body never runs, and the peers that are open do not sync until something else makes them
  (`Added`). A compact block that comes unsolicited calls `destroy` on the pool rather than on the peer
  (pool.js:2815, 2823) and closes it for good (`Unsupported`). After a reset the peers that sync beside the
  loader go on, but `maybeTimeout` (peer.js:1315) has no timer for them as long as the chain is not synced:
  what such a peer owes is not missed before the loader, which waits for the same block, gives way to it. An
  honest loader is destroyed after a disturbance of the header sync, at most twice for each, after which the
  sync heals.
- *RBT.* `remove` returns a node whose key and value were overwritten.
- *Master key.* An `unlock` that comes to the key's lock between the two steps of `MasterKey.destroy` brings the key
  back: its timer is refused the destroyed lock, and the key stays in memory (`KeyHasDeadline`). After an `unlock` with
  timeout -1 the next one fails its assertion (masterkey.js:190). `setLookahead` gives `writeLock` back with its batch
  still to come, which the next writer may find open, or the reverse (`AssertionsHold`).
- *Wallet.* `removeConflicts` takes a double spender once for each input that it shares, and one that descends
  from another as well, so that `erase` subtracts it from the counters and balances twice (txdb.js:1512;
  `ConflictsApart`); a rescan overtakes the notifications that wait at `txLock` (section 6); account.js:397
  derives the lookahead of change addresses with `deriveReceive`; a failed commit leaves the path cache and
  the depths changed. `disconnect` says that it removes the heights of undo coins (txdb.js:1417) and passes
  the block's height to `updateSpentCoin`, so that they keep it (`OldHeight`).


## 8. Limits

- *Chain*: `Chain.invalid` is an LRU of 100 in the code; eviction is not modelled
  (a forgotten block is verified again). The region below the last checkpoint,
  where verification is skipped, retargeting, locators, sequence locks, transaction and
  address indices and `scan` are not modelled: whether a block keeps a rule is a
  constant. `Chain` reads the database without caches; `EntryCaches` has them, with restarts but without
  eviction, and `CacheMisleadsNoBlock` says that verifying against them connects the same blocks.
- A batch is atomic, as LevelDB promises. A failed batch writes nothing.
- *Mempool*: fees, priorities, sizes and ages are open: any root may be the
  cheapest or have expired. Coinbase maturity is deeper than the modelled
  reorganisations. Rejects are an exact set rather than a bloom filter; the
  exemption of transactions with a witness from it, the address index and
  descendant fees are not modelled.
- *MemDB*: an iterator's range is a pure function of the snapshot it was made of.
- *Wallet*: one wallet; no secondary indices, locked coins, account depths.
- *WorkerPool*: job timers, which no caller uses.
- *Pool*: peers that connect while `_disconnect` awaits the closing of its parts, and a pool that is opened
  again; `addLoader` takes the first suitable peer of the list, the model any; how hosts are chosen and aged,
  bans, the version handshake's content, serving others, wire formats.
- Much of the source is word lists, RPC and HTTP translation, wire formats, scripts and
  cryptography, sequential code covered by test vectors. Components listed as `not_modelled` in `PROJECT.json`
  carry the reason there.


## 9. The plan

Done: the modules of section 3, their runs, and the proofs of section 6. Next, in this order:

1. **The containers and the services**: `LRU` implements `RecencyCache`; the assertions of the wallet's
   calls (`CallAssertionsHold`).
2. **More of the system**: descendant totals and fees of the mempool, retargeting and
   compact targets, sequence locks, BIP150/151 handshakes, bans.
