------------------------------ MODULE WalletDB ------------------------------
(***************************************************************************)
(* The wallet database (src/lib/wallet/walletdb.js) following a chain: the *)
(* notifications of the node wait for txLock in the order they were sent   *)
(* and are processed one at a time, transaction by transaction, through    *)
(* the wallet of module TXDB; a crash loses the notifications and the work *)
(* under way, and the next start finds the chain again by itself.          *)
(***************************************************************************)
EXTENDS TXDB

CONSTANTS
  Blocks,        \* the blocks the node may connect
  Parent,        \* [Blocks -> Blocks \cup {None}]
  Height,        \* [Blocks -> Heights]
  BlockTxs,      \* [Blocks -> Seq(Txs)]
  Start,         \* the block the wallet starts at
  Marked,        \* whether the wallet has seen a confirmed transaction
  KeepBlocks,    \* options.keepBlocks: how many of the last hashes are kept
  MaxQueue,      \* bound: notifications waiting for txLock
  UserOps,       \* a subset of {"rescan", "remove"}
  Relayed,       \* transactions the node may relay before they are mined
  Faults         \* a subset of {"crash", "batch"}

ASSUME WalletAssumption ==
  /\ None \notin Blocks /\ Start \in Blocks /\ Height \in [Blocks -> Heights] /\ Height[Start] = 0
  /\ BlockTxs \in [Blocks -> Seq(Txs)]
  /\ IsInjective(BlockTxs[Start]) /\ \A t \in Range(BlockTxs[Start]) : In(t) = {}
  /\ Marked \in BOOLEAN /\ MaxQueue \in Nat /\ Relayed \subseteq Txs
  /\ KeepBlocks \in Nat \ {0}

VARIABLES
  main,      \* the node's main chain, from Start
  queue,     \* notifications waiting for txLock
  phase,     \* of the process: "down", "opening" or "up"
  sync,      \* the chain state R: height, marked, startHeight
  hashes,    \* h: the block seen at each height
  work,      \* what holds txLock
  floor,     \* history: the lowest block that a wallet that kept up has a hash of
  lost       \* history: a batch failed, the process died in a rollback, or the
             \* chain gave up keepBlocks blocks or more

walletVars == <<main, queue, phase, sync, hashes, work>>
history == <<floor, lost>>
allVars == <<vars, walletVars, history>>

NoWork == [op |-> "none"]
Tip == Last(main)
OnMain(b) == b \in Range(main)

TypeOK ==
  /\ rec \in [Txs -> Heights \cup {Unconfirmed, None}]
  /\ \A o \in Outs : credit[o] \in Credit \cup {None}
  /\ spender \in [Outs -> Txs \cup {None}]
  /\ \A t \in Txs : undo[t] \in [Outs -> Heights \cup {Unconfirmed, None}]
  /\ rbf \subseteq Replaceable \cup {t \in Txs : \E o \in In(t) : Creator[o] # None}
  /\ \A h \in Heights : blocks[h] \in Seq(Txs)
  /\ R \in Balance /\ state \in Balance /\ job \in Job
  /\ main \in Seq(Blocks) /\ main # <<>>
  /\ Len(queue) <= MaxQueue
  /\ sync.height \in Heights /\ sync.startHeight \in Heights
  /\ hashes \in [Heights -> Blocks \cup {None}]
  /\ hashes[sync.height] # None

-----------------------------------------------------------------------------
(* The node: blocks come and go at the tip of its chain, and it relays     *)
(* transactions its chain does not contradict.  It does not move while a   *)
(* rescan holds the chain's lock, nor before the wallet is open.           *)
Notify(n) == queue' = Append(queue, n) /\ Len(queue) < MaxQueue
ChainFree == phase = "up" /\ work.op # "scan"

Connect(b) ==
  /\ ChainFree /\ Parent[b] = Tip
  /\ main' = Append(main, b)
  /\ Notify([type |-> "connect", block |-> b])
  /\ UNCHANGED <<vars, phase, sync, hashes, work>>

Disconnect ==
  /\ ChainFree /\ Len(main) > 1
  /\ main' = Front(main)
  /\ Notify([type |-> "disconnect", block |-> Tip])
  /\ UNCHANGED <<vars, phase, sync, hashes, work>>

(* chain.reset: one notification, however many blocks are gone.            *)
ChainReset(b) ==
  /\ ChainFree /\ b # Tip
  /\ \E n \in DOMAIN main : main[n] = b /\ main' = SubSeq(main, 1, n)
  /\ Notify([type |-> "reset", block |-> b])
  /\ UNCHANGED <<vars, phase, sync, hashes, work>>

Mined_ == UNION {Range(BlockTxs[b]) : b \in Range(main)}

Relay(t) ==
  /\ ChainFree /\ t \notin Mined_
  /\ \A u \in Mined_ : In(u) \cap In(t) = {}
  /\ Notify([type |-> "tx", tx |-> t])
  /\ UNCHANGED <<vars, main, phase, sync, hashes, work>>

(* The wallet's owner: rescans from a height, abandons a transaction that  *)
(* is not confirmed.                                                       *)
Rescan(h) ==
  /\ ChainFree /\ "rescan" \in UserOps
  /\ Notify([type |-> "rescan", height |-> h])
  /\ UNCHANGED <<vars, main, phase, sync, hashes, work>>

Abandon(t) ==
  /\ phase = "up" /\ "remove" \in UserOps /\ rec[t] = Unconfirmed
  /\ RemoveTX(t)
  /\ UNCHANGED walletVars

-----------------------------------------------------------------------------
(* getWalletsByTX, by path map and by outpoint map.                        *)
Relevant(t) == Spendable(t) \cup MyOuts(t) # {}

\* Mutant: one too many.
TooOld(h) == {h - KeepBlocks, h - KeepBlocks + 1}

(* syncState: the hashes above the new tip go, and those out of reach.     *)
OutOfReach(h) == {h - KeepBlocks}

SyncState(b) ==
  LET h == Height[b]
      gone == IF h < sync.height
              THEN {k \in Heights : k > h /\ k > sync.height - KeepBlocks /\ k <= sync.height}
              ELSE IF h > sync.height THEN OutOfReach(h) ELSE {}
  IN  /\ hashes' = [k \in Heights |-> IF k = h THEN b
                                      ELSE IF k \in gone THEN None ELSE hashes[k]]
      /\ sync' = [sync EXCEPT !.height = h]

(* resetState: b becomes the start block, the only one with a hash.        *)
ResetState(b, marked) ==
  /\ hashes' = [k \in Heights |-> IF k = Height[b] THEN b ELSE None]
  /\ sync' = [height |-> Height[b], marked |-> marked,
              startHeight |-> Height[b], start |-> b]

\* Mutant: first to last.
Forwards(txs) == txs

(* The transactions of a block are taken back from the last to the first,  *)
(* and revert takes the blocks back from the top.                          *)
Backwards(txs) == Reverse(txs)

Above[h \in 0..(MaxHeight + 1)] ==
  IF h = MaxHeight + 1 THEN <<>> ELSE Above[h + 1] \o Backwards(blocks[h])

(* rollback to a height below the one the wallet is at: to the block seen  *)
(* there, else to the start block, else to the first one.                  *)
Rollback(h, after) ==
  LET to == IF hashes[h] # None THEN hashes[h]
            ELSE IF h >= sync.startHeight THEN sync.start ELSE Start
  IN  [op |-> "revert", tip |-> to, todo |-> Above[Height[to] + 1],
       reset |-> hashes[h] = None,
       marked |-> hashes[h] = None /\ h >= sync.startHeight /\ sync.marked,
       scan |-> after = "scan" \/ (after = "scan if lost" /\ hashes[h] = None)]

(* scan, and the rollback it starts with.                                  *)
Scan(h) ==
  IF h < sync.height THEN Rollback(h, "scan") ELSE [op |-> "rescan"]

-----------------------------------------------------------------------------
Take == phase = "up" /\ work = NoWork /\ queue # <<>> /\ queue' = Tail(queue)
Taken == Head(queue)

(* _addBlock accepts the block above the wallet's and, for rescans and     *)
(* after a crash, one of the same height.                                  *)
Fits(b) == Height[b] \in {sync.height, sync.height + 1}

ConnectBlock ==
  /\ Take /\ Taken.type = "connect" /\ Fits(Taken.block)
  /\ SyncState(Taken.block)
  /\ work' = [op |-> "connect", block |-> Taken.block, todo |-> BlockTxs[Taken.block]]
  /\ UNCHANGED <<vars, main, phase>>

AddTX ==
  /\ Take /\ Taken.type = "tx"
  /\ work' = [op |-> "connect", block |-> None, todo |-> <<Taken.tx>>]
  /\ UNCHANGED <<vars, main, phase, sync, hashes>>

(* _removeBlock wants the very height of the wallet, and a block below.    *)
Removable(b) ==
  /\ Height[b] = sync.height
  /\ Height[b] > 0 /\ hashes[Height[b] - 1] # None

RemoveBlock ==
  /\ Take /\ Taken.type = "disconnect" /\ Removable(Taken.block)
  /\ work' = [op |-> "disconnect", prev |-> hashes[Height[Taken.block] - 1],
              todo |-> Backwards(blocks[Height[Taken.block]])]
  /\ UNCHANGED <<vars, main, phase, sync, hashes>>

(* _resetChain: a wallet that already is at that height has nothing to do. *)
RollBack ==
  /\ Take /\ Taken.type = "reset" /\ Height[Taken.block] < sync.height
  /\ work' = Rollback(Height[Taken.block], "scan if lost")
  /\ UNCHANGED <<vars, main, phase, sync, hashes>>

StartRescan ==
  /\ Take /\ Taken.type = "rescan" /\ Taken.height <= sync.height
  /\ work' = Scan(Taken.height)
  /\ UNCHANGED <<vars, main, phase, sync, hashes>>

(* Low, high and mismatched blocks, and heights not reached yet, are       *)
(* logged or end in an error; the notification is gone.                    *)
Drop ==
  /\ Take
  /\ \/ Taken.type = "connect" /\ ~Fits(Taken.block)
     \/ Taken.type = "disconnect" /\ ~Removable(Taken.block)
     \/ Taken.type = "reset" /\ Height[Taken.block] >= sync.height
     \/ Taken.type = "rescan" /\ Taken.height > sync.height
  /\ UNCHANGED <<vars, main, phase, sync, hashes, work>>

-----------------------------------------------------------------------------
(* The transactions of a block, one at a time; another operation of the    *)
(* wallet may come in between.                                             *)
Free == job = Idle /\ phase # "down"
Inserts == work.op \in {"connect", "scan"} /\ work.todo # <<>> /\ Free
NextTodo == work' = [work EXCEPT !.todo = Tail(@)]
HeightIn(b) == IF b = None THEN Unconfirmed ELSE Height[b]
MustMark == work.block # None /\ ~sync.marked

Skip ==
  /\ Inserts /\ ~Relevant(Head(work.todo))
  /\ NextTodo
  /\ UNCHANGED <<vars, main, queue, phase, sync, hashes>>

(* maybeMark: the first transaction of the wallet in a block.              *)
MaybeMark ==
  /\ Inserts /\ Relevant(Head(work.todo)) /\ MustMark
  /\ ResetState(work.block, TRUE)
  /\ UNCHANGED <<vars, main, queue, phase, work>>

Insert ==
  /\ Inserts /\ Relevant(Head(work.todo)) /\ ~MustMark
  /\ Add(Head(work.todo), HeightIn(work.block), FALSE)
  /\ NextTodo
  /\ UNCHANGED <<main, queue, phase, sync, hashes>>

UnconfirmNext ==
  /\ work.op \in {"disconnect", "revert"} /\ work.todo # <<>> /\ Free
  /\ Unconfirm(Head(work.todo))
  /\ NextTodo
  /\ UNCHANGED <<main, queue, phase, sync, hashes>>

Finished(op) == Free /\ work.op = op /\ work.todo = <<>>

Connected ==
  /\ Finished("connect")
  /\ work' = NoWork
  /\ UNCHANGED <<vars, main, queue, phase, sync, hashes>>

Disconnected ==
  /\ Finished("disconnect")
  /\ SyncState(work.prev)
  /\ work' = NoWork
  /\ UNCHANGED <<vars, main, queue, phase>>

Reverted ==
  /\ Finished("revert")
  /\ IF work.reset THEN ResetState(work.tip, work.marked) ELSE SyncState(work.tip)
  /\ work' = IF work.scan THEN [op |-> "rescan"] ELSE NoWork
  /\ UNCHANGED <<vars, main, queue, phase>>

(* The scan takes the chain's lock; the chain refuses a block that is not  *)
(* on its main chain.                                                      *)
LockChain ==
  /\ Free /\ work.op = "rescan"
  /\ \/ \E n \in DOMAIN main :
          /\ main[n] = hashes[sync.height]
          /\ work' = [op |-> "scan", block |-> None, todo |-> <<>>,
                      rest |-> SubSeq(main, n, Len(main))]
     \/ ~OnMain(hashes[sync.height]) /\ work' = NoWork
  /\ UNCHANGED <<vars, main, queue, phase, sync, hashes>>

(* rescanBlock; an error in it does not stop the scan.                     *)
ScanBlock ==
  /\ Finished("scan") /\ work.rest # <<>>
  /\ LET b == Head(work.rest)
     IN  IF Fits(b)
         THEN /\ SyncState(b)
              /\ work' = [work EXCEPT !.rest = Tail(@), !.block = b, !.todo = BlockTxs[b]]
         ELSE /\ work' = [work EXCEPT !.rest = Tail(@)]
              /\ UNCHANGED <<sync, hashes>>
  /\ UNCHANGED <<vars, main, queue, phase>>

Scanned ==
  /\ Finished("scan") /\ work.rest = <<>>
  /\ work' = NoWork
  /\ UNCHANGED <<vars, main, queue, phase, sync, hashes>>

(* An operation of the wallet threw: the rest of the block is passed over. *)
Caught ==
  /\ job.op = "threw"
  /\ job' = Idle
  /\ work' = IF work.op = "scan" THEN [work EXCEPT !.todo = <<>>] ELSE NoWork
  /\ UNCHANGED <<records, state, alarm, main, queue, phase, sync, hashes>>

-----------------------------------------------------------------------------
Crash ==
  /\ phase # "down" /\ "crash" \in Faults
  /\ phase' = "down" /\ queue' = <<>> /\ work' = NoWork
  /\ job' = Idle /\ state' = R
  /\ lost' = (lost \/ (phase = "up" /\ work.op = "revert"))
  /\ UNCHANGED <<records, alarm, main, sync, hashes, floor>>

(* sync: down from the wallet's height to a block of the main chain, or to *)
(* the start block.                                                        *)
Common ==
  LET stops == {h \in 0..sync.height : hashes[h] = None \/ OnMain(hashes[h])}
      h == IF stops = {} THEN 0 ELSE Max(stops)
  IN  IF hashes[h] # None /\ OnMain(hashes[h]) THEN h
      ELSE IF OnMain(sync.start) THEN sync.startHeight ELSE 0

Open ==
  /\ phase = "down" /\ phase' = "opening"
  /\ work' = Scan(Common)
  /\ UNCHANGED <<vars, main, queue, sync, hashes>>

Opened ==
  /\ phase = "opening" /\ work = NoWork
  /\ phase' = "up"
  /\ UNCHANGED <<vars, main, queue, sync, hashes, work>>

BatchFails ==
  /\ "batch" \in Faults /\ CommitFails
  /\ lost' = TRUE
  /\ UNCHANGED <<walletVars, floor>>

-----------------------------------------------------------------------------
(* A wallet that knows the transactions of its start block, or a new one   *)
(* that has yet to be opened.                                              *)
InitWith(txs) ==
  LET confirmed == Range(txs) IN
  /\ rec = [t \in Txs |-> IF t \in confirmed THEN 0 ELSE None]
  /\ credit = [o \in Outs |-> IF o \in Mine /\ Creator[o] \in confirmed
                              THEN [height |-> 0, spent |-> FALSE] ELSE None]
  /\ spender = [o \in Outs |-> None]
  /\ undo = [t \in Txs |-> [o \in Outs |-> None]]
  /\ rbf = {}
  /\ blocks = [h \in Heights |-> IF h = 0 THEN txs ELSE <<>>]
  /\ state = [tx |-> Cardinality(confirmed), coin |-> Cardinality(Credits),
              unconfirmed |-> Total(Credits), confirmed |-> Total(Credits)]
  /\ R = state
  /\ job = Idle /\ alarm = {}
  /\ main = <<Start>> /\ queue = <<>>
  /\ phase = IF Marked THEN "up" ELSE "down"
  /\ sync = [height |-> 0, marked |-> Marked, startHeight |-> 0, start |-> Start]
  /\ hashes = [h \in Heights |-> IF h = 0 THEN Start ELSE None]
  /\ work = NoWork /\ floor = 0 /\ lost = FALSE

Init == InitWith(IF Marked THEN BlockTxs[Start] ELSE <<>>)

NodeStep ==
  \/ \E b \in Blocks : Connect(b) \/ ChainReset(b)
  \/ Disconnect
  \/ \E t \in Relayed : Relay(t)

WalletStep ==
  \/ ConnectBlock \/ AddTX \/ RemoveBlock \/ RollBack \/ StartRescan \/ Drop
  \/ Skip \/ MaybeMark \/ Insert \/ UnconfirmNext
  \/ Connected \/ Disconnected \/ Reverted
  \/ LockChain \/ ScanBlock \/ Scanned \/ Caught
  \/ Step /\ UNCHANGED walletVars

(* What a process does that is not disturbed.                              *)
Undisturbed ==
  \/ NodeStep
  \/ WalletStep
  \/ \E h \in Heights : Rescan(h)
  \/ \E t \in Txs : Abandon(t)
  \/ Open \/ Opened

(* A chain that falls back as far as below the blocks whose hashes a       *)
(* wallet keeps leaves it behind.                                          *)
Reached ==
  /\ floor' = Max({floor, Height[Tip'] + 1 - KeepBlocks})
  /\ lost' = (lost \/ Height[Tip'] < floor)

Next ==
  \/ Undisturbed /\ Reached
  \/ Crash \/ BatchFails

Spec == Init /\ [][Next]_allVars

-----------------------------------------------------------------------------
(* What the blocks of a node are: each is one higher than its parent, a    *)
(* transaction is in a chain once, comes after those whose outputs it      *)
(* spends, and spends none that another one of the chain spends.           *)
Before(a, b) ==
  \A S \in SUBSET Blocks :
    b \in S /\ (\A x \in S : Parent[x] \in S \cup {None}) => a \in S

ValidBlocks ==
  /\ Parent \in [Blocks -> Blocks \cup {None}] /\ Parent[Start] = None
  /\ \A b \in Blocks :
       /\ Parent[b] # None => Height[b] = Height[Parent[b]] + 1
       /\ IsInjective(BlockTxs[b])
  /\ \A a, b \in Blocks : Before(a, b) =>
       /\ a # b => Range(BlockTxs[a]) \cap Range(BlockTxs[b]) = {}
       /\ \A t \in Range(BlockTxs[a]), u \in Range(BlockTxs[b]) :
            t # u => In(t) \cap In(u) = {}
  /\ \A b \in Blocks : \A i \in DOMAIN BlockTxs[b] : \A o \in In(BlockTxs[b][i]) :
       \/ Creator[o] = None
       \/ \E j \in 1..(i - 1) : BlockTxs[b][j] = Creator[o]
       \/ \E a \in Blocks \ {b} : Before(a, b) /\ Creator[o] \in Range(BlockTxs[a])

(* The wallet starts early enough: its coins are made by transactions that *)
(* it gets to see, and the first of these is in the start block.           *)
StartsEarly ==
  /\ \A o \in Mine : Creator[o] # None
  /\ LET own == {t \in Range(BlockTxs[Start]) : MyOuts(t) # {}}
     IN  IF Marked THEN own = Range(BlockTxs[Start]) ELSE own # {}

-----------------------------------------------------------------------------
(* Properties.                                                             *)

(* The balance, in memory and on disk, is kept by additions and            *)
(* subtractions over every insertion, confirmation, reorganisation and     *)
(* removal.  Its counters and its unconfirmed figure are those of the      *)
(* transactions on record and of the coins that are not spent.  (The       *)
(* confirmed figure: see KeepsPromise.)                                    *)
CountsAreSums ==
  LET unspent == {o \in Credits : ~credit[o].spent}
  IN  /\ state = R
      /\ state.tx = Cardinality(Known)
      /\ state.coin = Cardinality(unspent)
      /\ state.unconfirmed = Total(unspent)

(* No two known transactions spend one output, each knows the ones it      *)
(* spends; a coin is flagged spent exactly while an unconfirmed            *)
(* transaction holds its undo coin, and is off the coin set exactly while  *)
(* a confirmed one does.                                                   *)
RecordsAgree ==
  /\ TypeOK
  /\ \A o \in Outs :
       /\ spender[o] # None => o \in In(spender[o]) /\ spender[o] \in Known
       /\ \A t \in Known : o \in In(t) => spender[o] = t
       /\ \A t \in Txs : undo[t][o] # None => spender[o] = t
  /\ \A o \in Mine :
       LET known == Creator[o] \in Known
           s == spender[o]
       IN  /\ o \in Credits <=> known /\ (s # None => rec[s] = Unconfirmed)
           /\ o \in Credits => (credit[o].spent <=> s # None)
           /\ s # None => (undo[s][o] # None <=> known)
  /\ \A h \in Heights, t \in Txs :
       rec[t] = h <=> t \in Range(blocks[h])

(* Whatever blocks came and went, were lost in a crash or scanned twice: a *)
(* wallet with nothing left to do is at the tip of the chain, and has its  *)
(* transactions of that chain, and no others, confirmed where they are and *)
(* in their order.                                                         *)
RelevantTo(t) == MyOuts(t) # {} \/ In(t) \cap Mine # {}

Lists(txs, b) ==
  /\ Range(txs) = {t \in Range(BlockTxs[b]) : RelevantTo(t)}
  /\ \A i, j \in DOMAIN txs : i < j =>
       \E k, n \in DOMAIN BlockTxs[b] :
         k < n /\ BlockTxs[b][k] = txs[i] /\ BlockTxs[b][n] = txs[j]

Quiet == phase = "up" /\ work = NoWork /\ job = Idle /\ queue = <<>>
CaughtUp ==
  Quiet =>
    /\ hashes[sync.height] = Tip
    /\ \A h \in Heights :
         IF h > Height[Tip] THEN blocks[h] = <<>> ELSE Lists(blocks[h], main[h + 1])

FollowsChain == ~lost => CaughtUp

(* No assertion of the transaction database fails, unless it lost a batch. *)
KeepsAssertions == ~lost => alarm = {}

(* The wallet implements module WalletLedger through notifications lost    *)
(* and replayed, reorganisations, conflicts, abandoned transactions and    *)
(* crashes, until it loses a batch: a confirmation that is lost takes the  *)
(* confirmed figure out of step once its outputs are spent in a block.     *)
KeepsPromise == Ledger!Init /\ [][~lost => Ledger!Next]_<<rec, R>>
=============================================================================
