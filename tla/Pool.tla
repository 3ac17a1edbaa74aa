-------------------------------- MODULE Pool --------------------------------
(***************************************************************************)
(* The peer-to-peer pool (src/lib/net/pool.js, peer.js): which peer is the *)
(* loader, which ones sync, what was requested of whom, and the packets    *)
(* that are handled one after another under the pool's lock.  Peers may    *)
(* send anything at any moment, stall, or go.  An action is a handler, or  *)
(* the part of it between two awaits.                                      *)
(***************************************************************************)
EXTENDS SequencesExt, FiniteSetsExt, Integers

CONSTANTS
  Peers,               \* hosts, dialled again once nothing refers to them
  Blocks, Txs,         \* items
  Invs,                \* what inv packets list: sets of items
  SyncedAt,            \* blocks the chain needs to find itself synced
  BlockModes,          \* values of options.blockMode: 1 if compact blocks come unasked
  MaxQueue,            \* bound: packets that hold or await the lock
  Callers,             \* those of them that may connect to us instead
  MaxResets,           \* bound: resets of the chain
  Faults               \* a subset of {"stop", "announce", "locator"}: see StopSync,
                       \* Announced, Sent

VARIABLES
  peers,        \* [Peers -> "off", "new" (connecting) or "open" (shook hands)]
  inbound,      \* the peers that connected to us
  load,         \* the loader, or None
  syncing,      \* whether the pool syncs
  peerSyncing,  \* the peers that sync
  late,         \* whether the loader has sent no block for a while
  asked,        \* [Peers -> what was requested of it]: its blockMap and txMap
  askedAll,     \* the pool's blockMap and txMap
  compact,      \* [Peers -> the compact blocks it is to complete]
  compactAll,   \* the pool's compactBlocks
  queue,        \* the packets, and a close(), that hold or await the lock
  known,        \* what the chain and the mempool have seen
  synced,       \* chain.synced
  blockMode,    \* options.blockMode
  closed,       \* whether the pool was closed
  resets        \* how many times the chain was reset

peerVars == <<peers, inbound, load, syncing, peerSyncing, late>>
requestVars == <<asked, askedAll, compact, compactAll>>
vars == <<peerVars, requestVars, queue, known, synced>>
allVars == <<vars, blockMode, closed, resets>>

None == "none"
Items == Blocks \cup Txs

ASSUME PoolAssumption ==
  /\ None \notin Peers /\ Blocks \cap Txs = {}
  /\ Invs \subseteq SUBSET Items /\ {MaxQueue, MaxResets} \subseteq Nat

Open(p) == peers[p] = "open"
Listed == {p \in Peers : peers[p] # "off"}

Init ==
  /\ peers = [p \in Peers |-> "off"] /\ inbound = {}
  /\ load = None /\ syncing = FALSE /\ peerSyncing = {}
  /\ late = FALSE
  /\ asked = [p \in Peers |-> {}] /\ askedAll = {}
  /\ compact = [p \in Peers |-> {}] /\ compactAll = {}
  /\ queue = <<>> /\ known = {} /\ synced \in BOOLEAN
  /\ blockMode \in BlockModes /\ closed = FALSE /\ resets = 0

-----------------------------------------------------------------------------
(* isSyncable, for the peers, the loader and the flags of a given state:   *)
(* sendSync makes a peer of ours sync if it is, resync all of them.        *)
Syncable(ps, ld, on, full) ==
  {p \in Peers \ inbound : on /\ ps[p] = "open" /\ (p = ld \/ full)}

(* Both await a locator first: if Faults has "locator" it may fail, and    *)
(* nobody is made to sync.                                                 *)
Sent(S) == IF "locator" \in Faults THEN {S, {}} ELSE {S}

(* removePeer: nothing is requested of it any more.                        *)
DropRequests(p) ==
  /\ asked' = [asked EXCEPT ![p] = {}] /\ askedAll' = askedAll \ asked[p]
  /\ compactAll' = compactAll \ compact[p]
  /\ compact' = [compact EXCEPT ![p] = {}]

(* destroy() and the handleClose it calls.  A synced pool asks the others  *)
(* again for the blocks the peer owed.                                     *)
Leave(p) ==
  LET ps == [peers EXCEPT ![p] = "off"]
      ld == IF load = p THEN None ELSE load
      again == synced /\ asked[p] \cap Blocks # {}
  IN  /\ peers' = ps /\ load' = ld
      /\ \E s \in Sent(IF again THEN Syncable(ps, ld, syncing, synced) ELSE {}) :
           /\ peerSyncing' = (peerSyncing \ {p}) \cup s
           /\ late' = (late /\ ld \notin s \cup {None})
      /\ inbound' = inbound \ {p}
      /\ DropRequests(p)
      /\ UNCHANGED syncing

(* A handler that destroys its peer, which may be gone already.            *)
Punish(p) ==
  IF p \in Listed THEN Leave(p) ELSE UNCHANGED <<peerVars, requestVars>>

-----------------------------------------------------------------------------
(* A name is free when no handler refers to the peer that had it.          *)
Free(p) == peers[p] = "off" /\ \A i \in DOMAIN queue : queue[i].peer # p

(* addLoader turns a peer it has into the loader, or dials one, and        *)
(* fillOutbound dials others; without a loader it dials nobody else.       *)
SetLoader(p, ps) ==
  /\ load' = p /\ late' = FALSE
  /\ \E s \in Sent(Syncable(ps, p, syncing, synced) \cap {p}) :
       peerSyncing' = peerSyncing \cup s

FillOutbound ==
  \E new \in SUBSET {p \in Peers : Free(p)} :
    LET ps == [p \in Peers |-> IF p \in new THEN "new" ELSE peers[p]]
        have == Listed \ inbound
    IN  /\ peers' = ps
        /\ \/ load # None /\ UNCHANGED <<load, late, peerSyncing>>
           \/ load = None /\ have # {} /\ \E p \in have : SetLoader(p, ps)
           \/ load = None /\ have = {} /\ \E p \in new : SetLoader(p, ps)
           \/ load = None /\ have = {} /\ new = {} /\ UNCHANGED <<load, late, peerSyncing>>

(* The timer that the loss of a peer of ours, an addr packet and, without  *)
(* any peer, the discovery of every two minutes set.                       *)
Refill ==
  /\ ~closed /\ FillOutbound
  /\ UNCHANGED <<inbound, syncing, requestVars, queue, known, synced>>

Accept(p) ==
  /\ ~closed /\ p \in Callers /\ Free(p) /\ inbound' = inbound \cup {p}
  /\ peers' = [peers EXCEPT ![p] = "new"]
  /\ UNCHANGED <<load, syncing, peerSyncing, late, requestVars, queue, known, synced>>

\* Mutant: a loader that has not shaken hands keeps its place.
OpenAgain(p) ==
  /\ peers[p] = "new"
  /\ LET ps == [peers EXCEPT ![p] = "open"]
     IN  /\ peers' = ps
         /\ peerSyncing' = peerSyncing \cup (Syncable(ps, load, syncing, synced) \cap {p})
         /\ UNCHANGED <<load, late>>
  /\ UNCHANGED <<inbound, syncing, requestVars, queue, known, synced>>

(* handleOpen: the peer shook hands.  It takes the place of a loader that  *)
(* has not, or of none.                                                    *)
HandleOpen(p) ==
  /\ peers[p] = "new"
  /\ LET ps == [peers EXCEPT ![p] = "open"]
         takes == p \notin inbound /\ load # p /\ (load = None \/ peers[load] # "open")
         ld == IF takes THEN p ELSE load
     IN  /\ peers' = ps /\ load' = ld
         /\ late' = (late /\ ld # p)
         /\ \E s \in Sent(Syncable(ps, ld, syncing, synced) \cap {p}) :
              peerSyncing' = peerSyncing \cup s
  /\ UNCHANGED <<inbound, syncing, requestVars, queue, known, synced>>

(* The socket closes, a ban, a failed handshake.                           *)
Close(p) ==
  /\ p \in Listed /\ Leave(p)
  /\ UNCHANGED <<queue, known, synced>>

\* Mutant: a peer that does not sync has no timers either.
SyncedTimes(p, i) == i \in asked[p] \cup compact[p] /\ synced

(* maybeTimeout: the age of each request counts, but before the chain is   *)
(* synced only of the peers that do not sync; of those that do only the    *)
(* loader has a timer then, the time since its last block.                 *)
Times(p, i) ==
  /\ i \in asked[p] \cup compact[p]
  /\ synced \/ p \notin peerSyncing

Stall(p, i) ==
  /\ Times(p, i) /\ Leave(p)
  /\ UNCHANGED <<queue, known, synced>>

LoaderStalls(p) ==
  /\ p = load /\ p \in peerSyncing /\ ~synced /\ late /\ Leave(p)
  /\ UNCHANGED <<queue, known, synced>>

Late ==
  /\ load # None /\ ~late /\ late' = TRUE
  /\ UNCHANGED <<peers, inbound, load, syncing, peerSyncing, requestVars, queue, known, synced>>

-----------------------------------------------------------------------------
StartSync ==
  /\ ~closed /\ syncing' = TRUE
  /\ \E s \in Sent(Syncable(peers, load, TRUE, synced) \ peerSyncing) :
       /\ peerSyncing' = peerSyncing \cup s
       /\ late' = (late /\ load \notin s)
  /\ UNCHANGED <<peers, inbound, load, requestVars, queue, known, synced>>

(* stopSync forgets the blocks asked of the outbound peers that sync, and  *)
(* every one the pool remembers.  Unless Faults has "stop" it is called    *)
(* only while no other peer owes a block.                                  *)
StopSync ==
  /\ syncing /\ syncing' = FALSE
  /\ \/ "stop" \in Faults
     \/ \A p \in Peers \ peerSyncing : asked[p] \cap Blocks = {} /\ compact[p] = {}
  /\ peerSyncing' = {}
  /\ asked' = [p \in Peers |-> IF p \in peerSyncing THEN asked[p] \ Blocks ELSE asked[p]]
  /\ compact' = [p \in Peers |-> IF p \in peerSyncing THEN {} ELSE compact[p]]
  /\ askedAll' = askedAll \ Blocks /\ compactAll' = {}
  /\ UNCHANGED <<peers, inbound, load, late, queue, known, synced>>

-----------------------------------------------------------------------------
(* Packets.  A peer's next packet waits until its last one is handled.     *)
Idle(p) == \A i \in DOMAIN queue : queue[i].peer # p

Receive(p, op, items) ==
  /\ Open(p) /\ Idle(p) /\ Len(queue) < MaxQueue
  /\ queue' = Append(queue, [peer |-> p, op |-> op, items |-> items, at |-> "lock"])

Inv(p) ==
  /\ \E items \in Invs : Receive(p, "inv", items)
  /\ UNCHANGED <<peerVars, requestVars, known, synced>>

Item(p) ==
  /\ \E i \in Items : Receive(p, "item", {i})
  /\ UNCHANGED <<peerVars, requestVars, known, synced>>

\* Mutant: the pool's own map is not told.
ResolveHere(p, i) ==
  /\ asked' = [asked EXCEPT ![p] = @ \ {i}]
  /\ UNCHANGED askedAll

(* resolveBlock and resolveTX.                                             *)
Resolve(p, i) ==
  /\ asked' = [asked EXCEPT ![p] = @ \ {i}]
  /\ askedAll' = askedAll \ {i}

NotFound(p, i) ==
  /\ Open(p) /\ Idle(p)
  /\ IF i \in asked[p]
     THEN Resolve(p, i) /\ UNCHANGED <<peerVars, compact, compactAll>>
     ELSE Leave(p)
  /\ UNCHANGED <<queue, known, synced>>

Done == queue' = Tail(queue)
Job == Head(queue)
Running(op, at) == queue # <<>> /\ Job.op = op /\ Job.at = at

(* locker.has: the item is being handled, or waits for it.                 *)
Handled(i) == \E k \in DOMAIN queue : queue[k].op = "item" /\ i \in queue[k].items

(* handleBlockInv looks up the blocks it does not have, unless the pool is *)
(* still syncing from somebody else; the answers take a while.             *)
LookUp ==
  /\ Running("inv", "lock")
  /\ LET listens == syncing /\ (synced \/ Job.peer = load)
         want == {b \in Job.items \cap Blocks : b \notin known /\ ~Handled(b)}
         items == (Job.items \cap Txs) \cup (IF listens THEN want ELSE {})
     IN  queue' = [queue EXCEPT ![1].at = "found", ![1].items = items]
  /\ UNCHANGED <<peerVars, requestVars, known, synced>>

(* getBlock and getTX leave out what was requested already.                *)
New(items) == items \ askedAll

(* Then what is missing is requested of the peer, unless it is gone.       *)
Request ==
  /\ Running("inv", "found") /\ Done
  /\ LET p == Job.peer
         txs == {t \in Job.items \cap Txs :
                   t \notin known /\ ~Handled(t) /\ ~(syncing /\ ~synced)}
         new == IF Open(p) THEN New((Job.items \cap Blocks) \cup txs) ELSE {}
     IN  /\ asked' = [asked EXCEPT ![p] = @ \cup new]
         /\ askedAll' = askedAll \cup new
  /\ UNCHANGED <<peerVars, compact, compactAll, known, synced>>

(* _addBlock and _handleTX: an item that was not requested is punished.    *)
Take ==
  /\ Running("item", "lock")
  /\ LET p == Job.peer
         ignored == Job.items \subseteq Blocks /\ ~syncing
         due == Job.items \subseteq asked[p]
     IN  \/ ignored /\ Done /\ UNCHANGED <<peerVars, requestVars>>
         \/ ~ignored /\ ~due /\ Done /\ Punish(p)
         \/ /\ ~ignored /\ due
            /\ queue' = [queue EXCEPT ![1].at = "adding"]
            /\ \A i \in Job.items : Resolve(p, i)
            /\ late' = (late /\ ~(p = load /\ Job.items \subseteq Blocks))
            /\ UNCHANGED <<peers, inbound, load, syncing, peerSyncing, compact, compactAll>>
  /\ UNCHANGED <<known, synced>>

(* The chain or the mempool has it.  A chain with enough blocks may find   *)
(* itself synced; sync(), called then, is a generator that nobody runs.  A *)
(* transaction whose parents are missing has them requested, unless the    *)
(* peer is gone.                                                           *)
Added ==
  /\ Running("item", "adding") /\ Done
  /\ known' = known \cup Job.items
  /\ \/ UNCHANGED synced
     \/ ~synced /\ Cardinality(known' \cap Blocks) >= SyncedAt /\ synced' = TRUE
  /\ \E missing \in SUBSET (IF Job.items \subseteq Txs THEN Txs \ known' ELSE {}) :
       LET p == Job.peer
           new == IF Open(p) THEN New({t \in missing : ~Handled(t)}) ELSE {}
       IN  /\ asked' = [asked EXCEPT ![p] = @ \cup new]
           /\ askedAll' = askedAll \cup new
  /\ UNCHANGED <<peerVars, compact, compactAll>>

(* The chain goes back to an earlier block: it may not be synced any more, *)
(* while the peers that sync go on.  A reset that is not silent (those of  *)
(* replay and of an SPV reorganisation are) sends the locator again to all *)
(* that may sync.                                                          *)
Reset ==
  /\ ~closed /\ resets < MaxResets /\ resets' = resets + 1
  /\ known' \in SUBSET known /\ synced' \in {FALSE, synced}
  /\ \/ UNCHANGED <<peerSyncing, late>>
     \/ \E s \in Sent(Syncable(peers, load, syncing, synced')) :
          /\ peerSyncing' = peerSyncing \cup s
          /\ late' = (late /\ load \notin s)
  /\ UNCHANGED <<peers, inbound, load, syncing, requestVars, queue>>

-----------------------------------------------------------------------------
(* Compact blocks, handled as they come.  In mode 1 a block nobody asked   *)
(* this peer for is taken as asked; the assertion there says nobody else   *)
(* was asked either, which holds unless Faults has "announce".             *)
Announced(p, b) ==
  /\ blockMode = 1 /\ b \notin asked[p]
  /\ "announce" \in Faults \/ b \notin askedAll
  /\ asked' = [asked EXCEPT ![p] = @ \cup {b}]
  /\ askedAll' = askedAll \cup {b}

CmpctBlock(p, b) ==
  /\ Open(p) /\ Idle(p) /\ syncing /\ b \notin compact[p] \cup compactAll
  /\ \/ /\ blockMode # 1 /\ b \notin asked[p] /\ Leave(p)
        /\ UNCHANGED queue
     \/ /\ Announced(p, b) \/ (b \in asked[p] /\ UNCHANGED <<asked, askedAll>>)
        /\ \/ /\ compact' = [compact EXCEPT ![p] = @ \cup {b}]     \* asks for the rest
              /\ compactAll' = compactAll \cup {b}
              /\ UNCHANGED queue
           \/ Receive(p, "item", {b}) /\ UNCHANGED <<compact, compactAll>>
           \/ UNCHANGED <<queue, compact, compactAll>>      \* invalid, or asks for all
        /\ UNCHANGED peerVars
  /\ UNCHANGED <<known, synced>>

(* The rest of it: enough, or the whole block is asked for.                *)
BlockTxn(p, b) ==
  /\ Open(p) /\ Idle(p) /\ b \in compact[p]
  /\ compact' = [compact EXCEPT ![p] = @ \ {b}]
  /\ compactAll' = compactAll \ {b}
  /\ Receive(p, "item", {b}) \/ UNCHANGED queue
  /\ UNCHANGED <<peerVars, asked, askedAll, known, synced>>

(* A compact block of a peer that did not announce support for them, or    *)
(* while we do not use them: destroy() is the pool's, which waits for the  *)
(* lock to disconnect it.                                                  *)
Unsupported(p) ==
  /\ Open(p) /\ Idle(p) /\ syncing /\ Len(queue) < MaxQueue
  /\ \A k \in DOMAIN queue : queue[k].op # "close"
  /\ queue' = Append(queue, [peer |-> None, op |-> "close", items |-> {}, at |-> "lock"])
  /\ UNCHANGED <<peerVars, requestVars, known, synced>>

Disconnect ==
  /\ Running("close", "lock") /\ Done
  /\ closed' = TRUE
  /\ peers' = [p \in Peers |-> "off"] /\ inbound' = {} /\ load' = None
  /\ syncing' = FALSE /\ peerSyncing' = {} /\ late' = FALSE
  /\ asked' = [p \in Peers |-> {}] /\ askedAll' = {}
  /\ compact' = [p \in Peers |-> {}] /\ compactAll' = {}
  /\ UNCHANGED <<known, synced>>

-----------------------------------------------------------------------------
Step(p) ==
  \/ Accept(p) \/ HandleOpen(p) \/ Close(p) \/ LoaderStalls(p)
  \/ Inv(p) \/ Item(p) \/ Unsupported(p)
  \/ \E i \in Items : Stall(p, i) \/ NotFound(p, i)
  \/ \E b \in Blocks : CmpctBlock(p, b) \/ BlockTxn(p, b)

Next ==
  /\ \/ /\ \/ Refill \/ Late \/ StartSync \/ StopSync
           \/ LookUp \/ Request \/ Take \/ Added
           \/ \E p \in Peers : Step(p)
        /\ UNCHANGED <<closed, resets>>
     \/ Reset /\ UNCHANGED closed
     \/ Disconnect /\ UNCHANGED resets
  /\ UNCHANGED blockMode

(* Timers fire, what waits for the lock is handled, hosts are found in the *)
(* end, and one that is dialled often enough shakes hands.                 *)
Fairness ==
  /\ WF_vars(Late)
  /\ SF_vars(syncing /\ Refill /\ load' # None)
  /\ WF_vars(LookUp \/ Request \/ Take \/ Added \/ Disconnect)
  /\ \A p \in Peers : SF_vars(p \notin inbound /\ HandleOpen(p))
  /\ \A p \in Peers : WF_vars(LoaderStalls(p)) /\ \A i \in Items : WF_vars(Stall(p, i))

Spec == Init /\ [][Next]_allVars /\ Fairness

-----------------------------------------------------------------------------
TypeOK ==
  /\ peers \in [Peers -> {"off", "new", "open"}]
  /\ load \in Peers \cup {None} /\ inbound \subseteq Peers
  /\ {syncing, late, synced, closed} \subseteq BOOLEAN /\ resets \in 0..MaxResets
  /\ asked \in [Peers -> SUBSET Items] /\ askedAll \subseteq Items
  /\ compact \in [Peers -> SUBSET Blocks] /\ compactAll \subseteq Blocks
  /\ known \subseteq Items /\ Len(queue) <= MaxQueue

Split(f, all) ==
  /\ all = UNION {f[p] : p \in Peers}
  /\ \A p, q \in Peers : p # q => f[p] \cap f[q] = {}

(* The loader is a peer of the list.  Until the chain is synced it is the  *)
(* only one that syncs, as long as the chain was never reset: a reset      *)
(* leaves others syncing, and such a peer has no timer for what it owes    *)
(* until it becomes the loader or the chain is synced again.               *)
OneLoader ==
  /\ load # None => load \in Listed \ inbound
  /\ peerSyncing \subseteq {p \in Peers \ inbound : Open(p)}
  /\ ~synced /\ resets = 0 => peerSyncing \subseteq {load}

(* What the pool believes was requested is what was requested of its       *)
(* peers, each item of one peer that is there: the assertions of           *)
(* resolveBlock, resolveTX, removePeer and handleBlockTxn hold             *)
(* (pool.js:3263, 3617, 3636, 2991).  Nothing is left of a closed pool.    *)
RequestsAgree ==
  /\ TypeOK /\ OneLoader
  /\ Split(asked, askedAll) /\ Split(compact, compactAll)
  /\ \A p \in Peers : ~Open(p) => asked[p] = {}
  /\ closed => Listed = {} /\ ~syncing

(* No block is requested for ever of a peer that does not deliver it, not  *)
(* even of one that a reset left without a timer: the loader, which waits  *)
(* for that block, leaves, and the other takes its place.  (In mode 1 a    *)
(* loader may push back its deadline with blocks nobody needs.)            *)
RequestsEnd ==
  \A b \in Blocks : blockMode = 0 /\ b \in askedAll ~> b \notin askedAll

(* A pool that syncs does not stay without a loader that syncs.            *)
LoaderReturns ==
  syncing ~> (~syncing \/ load \in peerSyncing)
=============================================================================
