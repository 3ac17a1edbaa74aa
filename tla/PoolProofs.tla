----------------------------- MODULE PoolProofs -----------------------------
(***************************************************************************)
(* Proofs about the parts of module Network, for any values of their       *)
(* constants.  Of Pool: there is one loader, only what may sync does, and  *)
(* the two books of requests, the peers' and the pool's, agree.  Of        *)
(* HostList: the buckets, the entries' counts and the totals agree.  Of    *)
(* HeaderSync: the header chain follows the chain, and no peer that serves *)
(* the right headers is punished but after a disturbance.                  *)
(***************************************************************************)
EXTENDS Network, SequenceTheorems, FiniteSetTheorems, WellFoundedInduction, TLAPS

-----------------------------------------------------------------------------
(* What waits for the lock: packets of peers, of which one that delivers   *)
(* delivers one item, and a close().                                       *)
Packet ==
  [peer : Peers \cup {None}, op : {"inv", "item", "close"}, items : SUBSET Items,
   at : {"lock", "found", "adding"}]

WellFormed(q) ==
  /\ q.op = "item" => \E i \in Items : q.items = {i}
  /\ q.op # "close" => q.peer \in Peers

QueueOK ==
  /\ queue \in Seq(Packet) /\ Len(queue) <= MaxQueue
  /\ \A k \in DOMAIN queue : WellFormed(queue[k])

(* The packet that holds the lock.                                         *)
LEMMA JobIsPacket ==
  ASSUME QueueOK, queue # <<>>
  PROVE  /\ Job \in Packet /\ Job = queue[1] /\ 1 \in DOMAIN queue
         /\ Job.op = "item" => \E i \in Items : Job.items = {i}
         /\ Job.op # "close" => Job.peer \in Peers
<1>1. Head(queue) = queue[1] /\ Len(queue) \in Nat \ {0} /\ DOMAIN queue = 1..Len(queue)
  BY EmptySeq, LenProperties, HeadTailProperties DEF QueueOK
<1>2. 1 \in DOMAIN queue
  BY <1>1
<1>3. queue[1] \in Packet
  BY <1>1, <1>2, ElementOfSeq DEF QueueOK
<1> QED
  BY <1>1, <1>2, <1>3 DEF QueueOK, Job, WellFormed

(* Once it is handled, the others are left.                                *)
LEMMA DoneKeeps ==
  ASSUME QueueOK, queue # <<>>, Done
  PROVE  QueueOK'
<1>1. /\ queue' = Tail(queue) /\ queue' \in Seq(Packet)
      /\ Len(queue') = Len(queue) - 1 /\ Len(queue) \in Nat \ {0}
      /\ \A k \in 1..Len(queue') : queue'[k] = queue[k + 1]
  BY EmptySeq, LenProperties, HeadTailProperties DEF Done, QueueOK
<1>2. DOMAIN queue' = 1..Len(queue') /\ DOMAIN queue = 1..Len(queue)
  BY <1>1, LenProperties DEF QueueOK
<1>3. Len(queue') <= MaxQueue
  BY <1>1, PoolAssumption DEF QueueOK
<1>4. \A k \in 1..Len(queue') : k + 1 \in 1..Len(queue)
  BY <1>1
<1>5. ASSUME NEW k \in DOMAIN queue' PROVE WellFormed(queue'[k])
  <2>1. k + 1 \in DOMAIN queue /\ queue'[k] = queue[k + 1]
    BY <1>1, <1>2, <1>4
  <2>2. QED
    BY <1>5, <2>1 DEF QueueOK
<1> QED
  BY <1>1, <1>3, <1>5 DEF QueueOK

(* A packet is put behind the others.                                      *)
LEMMA AppendKeeps ==
  ASSUME QueueOK, NEW q \in Packet, WellFormed(q), queue' = Append(queue, q), Len(queue) < MaxQueue
  PROVE  QueueOK'
<1>1. /\ queue' \in Seq(Packet) /\ Len(queue') = Len(queue) + 1 /\ Len(queue) \in Nat
      /\ \A k \in 1..Len(queue) : queue'[k] = queue[k]
      /\ queue'[Len(queue) + 1] = q
  BY AppendProperties, LenProperties DEF QueueOK
<1>2. DOMAIN queue' = 1..(Len(queue) + 1) /\ DOMAIN queue = 1..Len(queue)
  BY <1>1, LenProperties DEF QueueOK
<1>3. \A k \in 1..(Len(queue) + 1) : k \in 1..Len(queue) \/ k = Len(queue) + 1
  BY <1>1
<1>4. Len(queue') <= MaxQueue
  BY <1>1, PoolAssumption
<1>5. ASSUME NEW k \in DOMAIN queue' PROVE WellFormed(queue'[k])
  BY <1>1, <1>2, <1>3 DEF QueueOK
<1> QED
  BY <1>1, <1>4, <1>5 DEF QueueOK

LEMMA ReceiveKeeps ==
  ASSUME QueueOK, NEW p \in Peers, NEW op \in {"inv", "item"}, NEW items \in SUBSET Items,
         op = "item" => \E i \in Items : items = {i}, Receive(p, op, items)
  PROVE  QueueOK'
<1> DEFINE new == [peer |-> p, op |-> op, items |-> items, at |-> "lock"]
<1>1. new \in Packet /\ WellFormed(new)
  BY DEF Packet, WellFormed
<1>2. queue' = Append(queue, new) /\ Len(queue) < MaxQueue
  BY DEF Receive
<1> HIDE DEF new
<1> QED
  BY <1>1, <1>2, AppendKeeps

(* The packet that holds the lock has come further.                        *)
LEMMA FirstKeeps ==
  ASSUME QueueOK, queue # <<>>, NEW q \in Packet, queue' = [queue EXCEPT ![1] = q],
         WellFormed(q)
  PROVE  QueueOK'
<1>1. /\ Len(queue) \in Nat \ {0} /\ DOMAIN queue = 1..Len(queue)
      /\ \A k \in 1..Len(queue) : queue[k] \in Packet
  BY EmptySeq, LenProperties, ElementOfSeq DEF QueueOK
<1>2. queue \in [1..Len(queue) -> Packet]
  BY <1>1 DEF QueueOK
<1>3. queue' \in [1..Len(queue) -> Packet]
  BY <1>2
<1>4. queue' \in Seq(Packet)
  BY <1>1, <1>3
<1>5. Len(queue') = Len(queue)
  BY <1>1, <1>3, <1>4, LenProperties
<1>6. \A k \in DOMAIN queue' : k \in DOMAIN queue /\ (queue'[k] = q \/ queue'[k] = queue[k])
  BY <1>1, <1>2, <1>3
<1> QED
  BY <1>4, <1>5, <1>6 DEF QueueOK

(* Every step keeps the packets well formed, and what is known items.      *)
LEMMA NextQueue ==
  ASSUME QueueOK, known \subseteq Items, [Next]_allVars
  PROVE  QueueOK' /\ known' \subseteq Items
<1>u. queue' = queue => QueueOK'
  BY DEF QueueOK
<1>1. ASSUME Refill \/ Late \/ StartSync \/ StopSync PROVE QueueOK' /\ known' = known
  BY <1>1, <1>u DEF Refill, Late, StartSync, StopSync
<1>2. CASE LookUp
  <2>1. queue # <<>> /\ Job.op = "inv" /\ known' = known
    BY <1>2 DEF LookUp, Running
  <2>2. PICK items : /\ items \subseteq Job.items
                     /\ queue' = [queue EXCEPT ![1].at = "found", ![1].items = items]
    BY <1>2 DEF LookUp
  <2>3. Job \in Packet /\ Job = queue[1] /\ 1 \in DOMAIN queue
    BY <2>1, JobIsPacket
  <2> DEFINE q == [Job EXCEPT !.at = "found", !.items = items]
  <2>4. q \in Packet /\ q.op = "inv"
    BY <2>1, <2>2, <2>3 DEF Packet
  <2>5. queue' = [queue EXCEPT ![1] = q]
    BY <2>2, <2>3
  <2>6. WellFormed(q)
    <3>1. Job.peer \in Peers /\ q.peer = Job.peer
      BY <2>1, <2>3, JobIsPacket DEF Packet
    <3>2. QED
      BY <2>4, <3>1 DEF WellFormed
  <2> HIDE DEF q
  <2>7. QED
    BY <2>1, <2>4, <2>5, <2>6, FirstKeeps
<1>3. CASE Request
  BY <1>3, DoneKeeps DEF Request, Running
<1>4. CASE Take
  <2>1. queue # <<>> /\ Job.op = "item" /\ known' = known
    BY <1>4 DEF Take, Running
  <2>2. CASE Done
    BY <2>1, <2>2, DoneKeeps
  <2>3. CASE queue' = [queue EXCEPT ![1].at = "adding"]
    <3>1. /\ Job \in Packet /\ Job = queue[1] /\ 1 \in DOMAIN queue
          /\ \E i \in Items : Job.items = {i} /\ Job.peer \in Peers
      BY <2>1, JobIsPacket
    <3> DEFINE q == [Job EXCEPT !.at = "adding"]
    <3>2. q \in Packet /\ WellFormed(q)
      BY <3>1 DEF Packet, WellFormed
    <3>3. queue' = [queue EXCEPT ![1] = q]
      BY <2>3, <3>1
    <3> HIDE DEF q
    <3>4. QED
      BY <2>1, <3>1, <3>2, <3>3, FirstKeeps
  <2>4. QED
    BY <1>4, <2>2, <2>3 DEF Take
<1>5. CASE Added
  <2>1. queue # <<>> /\ Done /\ known' = known \cup Job.items
    BY <1>5 DEF Added, Running
  <2>2. Job.items \subseteq Items
    BY <2>1, JobIsPacket DEF Packet
  <2>3. QED
    BY <2>1, <2>2, DoneKeeps
<1>6. ASSUME NEW p \in Peers, Accept(p) \/ HandleOpen(p) \/ Close(p) \/ LoaderStalls(p)
      PROVE  QueueOK' /\ known' = known
  BY <1>6, <1>u DEF Accept, HandleOpen, Close, LoaderStalls
<1>7. ASSUME NEW p \in Peers, Inv(p) \/ Item(p)
      PROVE  QueueOK' /\ known' = known
  <2>1. CASE Inv(p)
    <3>1. PICK items \in Invs : Receive(p, "inv", items)
      BY <2>1 DEF Inv
    <3>2. items \in SUBSET Items
      BY PoolAssumption
    <3>3. QED
      BY <2>1, <3>1, <3>2, ReceiveKeeps DEF Inv
  <2>2. CASE Item(p)
    <3>1. PICK i \in Items : Receive(p, "item", {i})
      BY <2>2 DEF Item
    <3>2. QED
      BY <2>2, <3>1, ReceiveKeeps DEF Item
  <2>3. QED
    BY <1>7, <2>1, <2>2
<1>8. ASSUME NEW p \in Peers, NEW i \in Items, Stall(p, i) \/ NotFound(p, i)
      PROVE  QueueOK' /\ known' = known
  BY <1>8, <1>u DEF Stall, NotFound
<1>9. ASSUME NEW p \in Peers, NEW b \in Blocks, CmpctBlock(p, b) \/ BlockTxn(p, b)
      PROVE  QueueOK' /\ known' = known
  <2>1. known' = known /\ (queue' = queue \/ Receive(p, "item", {b}))
    BY <1>9 DEF CmpctBlock, BlockTxn
  <2>2. b \in Items
    BY DEF Items
  <2>3. QED
    BY <1>u, <2>1, <2>2, ReceiveKeeps
<1>10. ASSUME NEW p \in Peers, Unsupported(p)
       PROVE  QueueOK' /\ known' = known
  <2> DEFINE q == [peer |-> None, op |-> "close", items |-> {}, at |-> "lock"]
  <2>1. q \in Packet /\ WellFormed(q)
    BY DEF Packet, WellFormed
  <2>2. queue' = Append(queue, q) /\ Len(queue) < MaxQueue /\ known' = known
    BY <1>10 DEF Unsupported
  <2> HIDE DEF q
  <2>3. QED
    BY <2>1, <2>2, AppendKeeps
<1>11. CASE Reset
  BY <1>11, <1>u DEF Reset
<1>12. CASE Disconnect
  BY <1>12, DoneKeeps DEF Disconnect, Running
<1>13. CASE UNCHANGED allVars
  BY <1>13, <1>u DEF allVars, vars
<1> QED
  BY <1>1, <1>2, <1>3, <1>4, <1>5, <1>6, <1>7, <1>8, <1>9, <1>10, <1>11, <1>12, <1>13 DEF Next, Step

-----------------------------------------------------------------------------
(* The peers.  Only a peer of the list is inbound, loads or syncs.         *)
LoaderTypes ==
  /\ peers \in [Peers -> {"off", "new", "open"}]
  /\ load \in Peers \cup {None} /\ inbound \subseteq Listed
  /\ {syncing, late, synced, closed} \subseteq BOOLEAN /\ resets \in 0..MaxResets

Rests == closed => Listed = {} /\ ~syncing

LoaderInv == LoaderTypes /\ OneLoader /\ Rests

(* Whoever is sent a locator may sync.                                     *)
LEMMA SentWithin ==
  ASSUME NEW S, NEW s \in Sent(S)
  PROVE  s \subseteq S
BY DEF Sent

(* A peer that leaves is not the loader any more, nor does it sync.        *)
LEMMA LeaveKeepsLoader ==
  ASSUME LoaderInv, NEW p \in Peers, Leave(p), UNCHANGED <<synced, closed, resets>>
  PROVE  LoaderInv'
<1>0. PICK s : /\ s \in Sent(IF synced /\ asked[p] \cap Blocks # {}
                             THEN Syncable(peers', load', syncing, synced) ELSE {})
               /\ peerSyncing' = (peerSyncing \ {p}) \cup s
               /\ late' \in BOOLEAN
  BY DEF Leave
<1>1. /\ peers' = [peers EXCEPT ![p] = "off"] /\ inbound' = inbound \ {p}
      /\ load' = (IF load = p THEN None ELSE load)
      /\ syncing' = syncing /\ late' \in BOOLEAN
      /\ peerSyncing' = (peerSyncing \ {p}) \cup s
      /\ s = {} \/ (synced /\ s \subseteq Syncable(peers', load', syncing, synced))
  <2>1. /\ s = {} \/ (synced /\ s \in Sent(Syncable(peers', load', syncing, synced)))
    BY <1>0 DEF Sent
  <2>2. QED
    BY <1>0, <2>1, SentWithin DEF Leave
<1>2. LoaderTypes' /\ Rests'
  BY <1>1 DEF LoaderInv, LoaderTypes, Listed, Rests
<1>3. load' # None => load' \in Listed' \ inbound'
  BY <1>1 DEF LoaderInv, LoaderTypes, OneLoader, Listed
<1>4. p \notin {q \in Peers : peers'[q] = "open"}
  BY <1>1 DEF LoaderInv, LoaderTypes
<1>5. \A q \in Peers \ {p} : peers'[q] = peers[q]
  BY <1>1 DEF LoaderInv, LoaderTypes
<1>6. peerSyncing \ {p} \subseteq {q \in Peers \ inbound' : Open(q)'}
  BY <1>1, <1>5 DEF LoaderInv, OneLoader, Open
<1>7. Syncable(peers', load', syncing, synced) \subseteq {q \in Peers \ inbound' : Open(q)'}
  BY <1>1, <1>4 DEF Syncable, Open
<1>8. ~synced' /\ resets' = 0 => peerSyncing' \subseteq {load'}
  BY <1>1 DEF LoaderInv, OneLoader
<1> QED
  BY <1>1, <1>2, <1>3, <1>6, <1>7, <1>8 DEF LoaderInv, OneLoader

(* A new loader is one that may sync.                                      *)
LEMMA SetLoaderKeeps ==
  ASSUME LoaderInv, load = None, NEW p \in Peers, SetLoader(p, peers'),
         peers' \in [Peers -> {"off", "new", "open"}],
         \A q \in Peers : peers'[q] = peers[q] \/ (q \notin Listed /\ peers'[q] = "new"),
         p \in Listed' \ inbound, ~closed, UNCHANGED <<inbound, syncing, synced, closed, resets>>
  PROVE  LoaderInv'
<1>0. PICK s \in Sent(Syncable(peers', p, syncing, synced) \cap {p}) :
         peerSyncing' = peerSyncing \cup s
  BY DEF SetLoader
<1>1. /\ load' = p /\ late' = FALSE
      /\ peerSyncing' = peerSyncing \cup s
      /\ s \subseteq Syncable(peers', p, syncing, synced) \cap {p}
  BY <1>0, SentWithin DEF SetLoader
<1>2. LoaderTypes' /\ Rests'
  BY <1>1 DEF LoaderInv, LoaderTypes, Listed, Rests
<1>3. peerSyncing \subseteq {q \in Peers \ inbound : Open(q)'}
  BY DEF LoaderInv, OneLoader, Open, Listed
<1>4. Syncable(peers', p, syncing, synced) \subseteq {q \in Peers \ inbound : Open(q)'}
  BY DEF Syncable, Open
<1>5. ~synced /\ resets = 0 => peerSyncing = {}
  <2>1. ~synced /\ resets = 0 => peerSyncing \subseteq {None} \cap Peers
    BY DEF LoaderInv, OneLoader
  <2>2. QED
    BY <2>1, PoolAssumption
<1> QED
  BY <1>1, <1>2, <1>3, <1>4, <1>5 DEF LoaderInv, OneLoader

(* The timer may dial peers and find a loader.                             *)
LEMMA RefillKeepsLoader ==
  ASSUME LoaderInv, Refill, UNCHANGED <<closed, resets>>
  PROVE  LoaderInv'
<1>u. ~closed /\ UNCHANGED <<inbound, syncing, synced, closed, resets>>
  BY DEF Refill
<1>1. PICK new \in SUBSET {p \in Peers : Free(p)} :
         /\ peers' = [p \in Peers |-> IF p \in new THEN "new" ELSE peers[p]]
         /\ \/ UNCHANGED <<load, late, peerSyncing>>
            \/ load = None /\ \E p \in Listed \ inbound : SetLoader(p, peers')
            \/ load = None /\ \E p \in new : SetLoader(p, peers')
  BY DEF Refill, FillOutbound
<1>2. /\ peers' \in [Peers -> {"off", "new", "open"}]
      /\ \A q \in Peers : peers'[q] = peers[q] \/ (q \notin Listed /\ peers'[q] = "new")
      /\ Listed \subseteq Listed'
      /\ \A q \in new : q \in Listed' \ inbound
  BY <1>1 DEF Free, Listed, LoaderInv, LoaderTypes
<1>3. CASE UNCHANGED <<load, late, peerSyncing>>
  <2>1. LoaderTypes' /\ Rests'
    BY <1>2, <1>3, <1>u DEF LoaderInv, LoaderTypes, Rests
  <2>2. \A q \in Peers : Open(q) => Open(q)'
    BY <1>2 DEF Open, Listed
  <2>3. OneLoader'
    BY <1>2, <1>3, <1>u, <2>2 DEF LoaderInv, OneLoader
  <2>4. QED
    BY <2>1, <2>3 DEF LoaderInv
<1>4. ASSUME load = None, NEW p \in (Listed \ inbound) \cup new, SetLoader(p, peers')
      PROVE  LoaderInv'
  <2>1. p \in Peers /\ p \in Listed' \ inbound
    BY <1>2 DEF Listed
  <2>2. QED
    BY <1>2, <1>4, <1>u, <2>1, SetLoaderKeeps
<1> QED
  BY <1>1, <1>3, <1>4

(* A peer that shakes hands takes the place of a loader that has not.      *)
LEMMA OpenKeepsLoader ==
  ASSUME LoaderInv, NEW p \in Peers, HandleOpen(p), UNCHANGED <<closed, resets>>
  PROVE  LoaderInv'
<1> DEFINE takes == p \notin inbound /\ load # p /\ (load = None \/ peers[load] # "open")
<1>0. PICK s \in Sent(Syncable(peers', load', syncing, synced) \cap {p}) :
         peerSyncing' = peerSyncing \cup s
  BY DEF HandleOpen
<1>1. /\ peers' = [peers EXCEPT ![p] = "open"] /\ peers[p] = "new"
      /\ load' = (IF takes THEN p ELSE load)
      /\ late' \in BOOLEAN
      /\ peerSyncing' = peerSyncing \cup s
      /\ s \subseteq Syncable(peers', load', syncing, synced)
      /\ inbound' = inbound /\ syncing' = syncing /\ synced' = synced
  BY <1>0, SentWithin DEF HandleOpen
<1>2. LoaderTypes' /\ Rests'
  BY <1>1 DEF LoaderInv, LoaderTypes, Listed, Rests
<1>3. load' # None => load' \in Listed' \ inbound'
  BY <1>1 DEF LoaderInv, LoaderTypes, OneLoader, Listed
<1>4. \A q \in Peers : Open(q) => Open(q)'
  BY <1>1 DEF Open, LoaderInv, LoaderTypes
<1>5. Syncable(peers', load', syncing, synced) \subseteq {q \in Peers \ inbound' : Open(q)'}
  BY <1>1 DEF Syncable, Open
<1>6. ~synced /\ resets = 0 /\ takes => peerSyncing = {}
  <2>1. ~synced /\ resets = 0 => peerSyncing \subseteq {load} \cap {q \in Peers : Open(q)}
    BY DEF LoaderInv, OneLoader
  <2>2. QED
    BY <2>1, PoolAssumption DEF Open
<1>7. ~synced => Syncable(peers', load', syncing, synced) \subseteq {load'}
  BY DEF Syncable
<1>8. ~synced' /\ resets' = 0 => peerSyncing' \subseteq {load'}
  BY <1>1, <1>6, <1>7 DEF LoaderInv, OneLoader
<1>9. peerSyncing' \subseteq {q \in Peers \ inbound' : Open(q)'}
  BY <1>1, <1>4, <1>5 DEF LoaderInv, OneLoader
<1> QED
  BY <1>2, <1>3, <1>8, <1>9 DEF LoaderInv, OneLoader

(* More peers sync once the sync has started, or the chain was reset.      *)
LEMMA MoreSync ==
  ASSUME LoaderInv, NEW S, S \subseteq Syncable(peers, load, TRUE, synced'),
         peerSyncing' = peerSyncing \cup S, ~closed,
         UNCHANGED <<peers, inbound, load, closed>>, {syncing', late', synced'} \subseteq BOOLEAN,
         resets' \in 0..MaxResets, resets' = 0 => synced' = synced /\ resets = 0
  PROVE  LoaderInv'
<1>1. LoaderTypes' /\ Rests'
  BY DEF LoaderInv, LoaderTypes, Listed, Rests
<1>2. S \subseteq {q \in Peers \ inbound : Open(q)} /\ (~synced' => S \subseteq {load})
  BY DEF Syncable, Open
<1>3. OneLoader'
  BY <1>2 DEF LoaderInv, OneLoader, Listed, Open
<1> QED
  BY <1>1, <1>3 DEF LoaderInv

(* A step that does not touch the pool, but may disturb the chain.         *)
LEMMA ChainKeepsLoader ==
  ASSUME LoaderInv, UNCHANGED <<peers, inbound, load, syncing, peerSyncing, closed>>,
         {late', synced'} \subseteq BOOLEAN, resets' \in 0..MaxResets,
         resets' = 0 => resets = 0 /\ (synced' = synced \/ synced')
  PROVE  LoaderInv'
<1>1. LoaderTypes' /\ Rests'
  BY DEF LoaderInv, LoaderTypes, Listed, Rests
<1>2. OneLoader'
  BY DEF LoaderInv, OneLoader, Listed, Open
<1> QED
  BY <1>1, <1>2 DEF LoaderInv

(* Every step keeps one loader, and only what may sync.                    *)
LEMMA NextLoader ==
  ASSUME QueueOK, LoaderInv, [Next]_allVars
  PROVE  LoaderInv'
<1>t. syncing \in BOOLEAN /\ late \in BOOLEAN /\ synced \in BOOLEAN /\ resets \in 0..MaxResets
  BY DEF LoaderInv, LoaderTypes
<1>u. ASSUME UNCHANGED <<peers, inbound, load, syncing, peerSyncing, synced, closed, resets>>,
             late' \in BOOLEAN
      PROVE  LoaderInv'
  BY <1>t, <1>u, ChainKeepsLoader
<1>v. ASSUME UNCHANGED <<peerVars, synced, closed, resets>> PROVE LoaderInv'
  BY <1>t, <1>u, <1>v DEF peerVars
<1>1. ASSUME Refill, UNCHANGED <<closed, resets>> PROVE LoaderInv'
  BY <1>1, RefillKeepsLoader
<1>2. ASSUME Late, UNCHANGED <<closed, resets>> PROVE LoaderInv'
  BY <1>2, <1>u DEF Late
<1>3. ASSUME StartSync, UNCHANGED <<closed, resets>> PROVE LoaderInv'
  <2>1. PICK s \in Sent(Syncable(peers, load, TRUE, synced) \ peerSyncing) :
           peerSyncing' = peerSyncing \cup s /\ late' \in BOOLEAN
    BY <1>3 DEF StartSync
  <2>2. /\ ~closed /\ syncing' = TRUE /\ UNCHANGED <<peers, inbound, load, synced>>
    BY <1>3 DEF StartSync
  <2>3. s \subseteq Syncable(peers, load, TRUE, synced')
    BY <2>1, <2>2, SentWithin
  <2>4. QED
    BY <1>3, <1>t, <2>1, <2>2, <2>3, MoreSync
<1>4. ASSUME StopSync, UNCHANGED <<closed, resets>> PROVE LoaderInv'
  <2>1. /\ UNCHANGED <<peers, inbound, load, late, synced>> /\ peerSyncing' = {} /\ syncing' = FALSE
    BY <1>4 DEF StopSync
  <2>2. QED
    BY <1>4, <2>1 DEF LoaderInv, LoaderTypes, OneLoader, Listed, Rests
<1>5. ASSUME LookUp \/ Request, UNCHANGED <<closed, resets>> PROVE LoaderInv'
  BY <1>5, <1>v DEF LookUp, Request
<1>6. ASSUME Take, UNCHANGED <<closed, resets>> PROVE LoaderInv'
  <2>1. synced' = synced
    BY <1>6 DEF Take
  <2>2. \/ UNCHANGED peerVars
        \/ Punish(Job.peer)
        \/ UNCHANGED <<peers, inbound, load, syncing, peerSyncing>> /\ late' \in BOOLEAN
    BY <1>6 DEF Take
  <2>3. CASE Punish(Job.peer)
    <3>1. UNCHANGED peerVars \/ (Job.peer \in Peers /\ Leave(Job.peer))
      BY <2>3 DEF Punish, Listed
    <3>2. QED
      BY <1>6, <1>v, <2>1, <3>1, LeaveKeepsLoader
  <2>4. QED
    BY <1>6, <1>u, <1>v, <2>1, <2>2, <2>3
<1>7. ASSUME Added, UNCHANGED <<closed, resets>> PROVE LoaderInv'
  <2>1. UNCHANGED <<peers, inbound, load, syncing, peerSyncing, late>> /\ (synced' = synced \/ synced' = TRUE)
    BY <1>7 DEF Added, peerVars
  <2>2. QED
    BY <1>7, <1>t, <2>1, ChainKeepsLoader
<1>8. ASSUME NEW p \in Peers, Accept(p), UNCHANGED <<closed, resets>> PROVE LoaderInv'
  <2>1. /\ peers' = [peers EXCEPT ![p] = "new"] /\ inbound' = inbound \cup {p} /\ peers[p] = "off"
        /\ ~closed /\ UNCHANGED <<load, syncing, peerSyncing, late, synced>>
    BY <1>8 DEF Accept, Free
  <2>2. p \notin Listed /\ Listed' = Listed \cup {p} /\ \A q \in Listed : peers'[q] = peers[q]
    BY <2>1 DEF Listed, LoaderInv, LoaderTypes
  <2>3. LoaderTypes' /\ Rests'
    BY <1>8, <2>1, <2>2 DEF LoaderInv, LoaderTypes, Rests
  <2>4. \A q \in Peers : Open(q) => Open(q)' /\ q \in Listed
    BY <2>1, <2>2 DEF Open, Listed
  <2>5. OneLoader'
    BY <1>8, <2>1, <2>2, <2>4 DEF LoaderInv, OneLoader
  <2>6. QED
    BY <2>3, <2>5 DEF LoaderInv
<1>9. ASSUME NEW p \in Peers, HandleOpen(p), UNCHANGED <<closed, resets>> PROVE LoaderInv'
  BY <1>9, OpenKeepsLoader
<1>10. ASSUME NEW p \in Peers, Close(p) \/ LoaderStalls(p) \/ \E i \in Items : Stall(p, i),
              UNCHANGED <<closed, resets>>
       PROVE  LoaderInv'
  BY <1>10, LeaveKeepsLoader DEF Close, Stall, LoaderStalls
<1>11. ASSUME NEW p \in Peers, NEW i \in Items, NotFound(p, i), UNCHANGED <<closed, resets>>
       PROVE  LoaderInv'
  BY <1>11, <1>v, LeaveKeepsLoader DEF NotFound
<1>12. ASSUME NEW p \in Peers, Inv(p) \/ Item(p) \/ Unsupported(p) \/ \E b \in Blocks : BlockTxn(p, b),
              UNCHANGED <<closed, resets>>
       PROVE  LoaderInv'
  BY <1>12, <1>v DEF Inv, Item, Unsupported, BlockTxn
<1>13. ASSUME NEW p \in Peers, NEW b \in Blocks, CmpctBlock(p, b), UNCHANGED <<closed, resets>>
       PROVE  LoaderInv'
  BY <1>13, <1>v, LeaveKeepsLoader DEF CmpctBlock
<1>14. ASSUME Reset, closed' = closed PROVE LoaderInv'
  <2>0. /\ ~closed /\ resets < MaxResets /\ resets' = resets + 1 /\ synced' \in {FALSE, synced}
        /\ UNCHANGED <<peers, inbound, load, syncing>>
    BY <1>14 DEF Reset
  <2>1. synced' \in BOOLEAN /\ resets' \in 0..MaxResets /\ resets' # 0
    <3>1. MaxResets \in Nat
      BY PoolAssumption
    <3>2. resets' \in 0..MaxResets /\ resets' # 0
      BY <1>t, <2>0, <3>1
    <3>3. QED
      BY <1>t, <2>0, <3>2
  <2>2. CASE UNCHANGED <<peerSyncing, late>>
    BY <1>14, <1>t, <2>0, <2>1, <2>2, ChainKeepsLoader
  <2>3. ASSUME NEW s \in Sent(Syncable(peers, load, syncing, synced')),
               peerSyncing' = peerSyncing \cup s, late' \in BOOLEAN
        PROVE  LoaderInv'
    <3>1. s \subseteq Syncable(peers, load, TRUE, synced')
      BY <2>3, SentWithin DEF Syncable
    <3>2. QED
      BY <1>14, <1>t, <2>0, <2>1, <2>3, <3>1, MoreSync
  <2>4. QED
    BY <1>14, <2>2, <2>3 DEF Reset
<1>15. ASSUME Disconnect, resets' = resets PROVE LoaderInv'
  <2>1. /\ peers' = [p \in Peers |-> "off"] /\ inbound' = {} /\ load' = None /\ closed' = TRUE
        /\ syncing' = FALSE /\ peerSyncing' = {} /\ late' = FALSE /\ synced' = synced
    BY <1>15 DEF Disconnect
  <2>2. Listed' = {}
    BY <2>1 DEF Listed
  <2>3. QED
    BY <1>15, <2>1, <2>2 DEF LoaderInv, LoaderTypes, OneLoader, Rests
<1>16. CASE UNCHANGED allVars
  BY <1>16, <1>v DEF allVars, vars
<1> QED
  BY <1>1, <1>2, <1>3, <1>4, <1>5, <1>6, <1>7, <1>8, <1>9, <1>10, <1>11, <1>12, <1>13, <1>14,
     <1>15, <1>16 DEF Next, Step

-----------------------------------------------------------------------------
(* The books of requests.  What one peer no longer owes goes from both ... *)
LEMMA SplitDrop ==
  ASSUME NEW f, NEW all, NEW S, f \in [Peers -> SUBSET S], Split(f, all),
         NEW p \in Peers, NEW D \in SUBSET f[p]
  PROVE  Split([f EXCEPT ![p] = f[p] \ D], all \ D)
<1> DEFINE g == [f EXCEPT ![p] = f[p] \ D]
<1>1. g[p] = f[p] \ D /\ \A q \in Peers \ {p} : g[q] = f[q] /\ f[q] \cap f[p] = {}
  BY DEF Split
<1> HIDE DEF g
<1>2. all \ D = UNION {g[q] : q \in Peers}
  BY <1>1 DEF Split
<1>3. \A q, r \in Peers : q # r => g[q] \cap g[r] = {}
  BY <1>1 DEF Split
<1> QED
  BY <1>2, <1>3 DEF Split, g

(* ... and what is asked of one, of nobody before, is noted in both.       *)
LEMMA SplitAdd ==
  ASSUME NEW f, NEW all, NEW S, f \in [Peers -> SUBSET S], Split(f, all),
         NEW p \in Peers, NEW N, N \cap all = {}
  PROVE  Split([f EXCEPT ![p] = f[p] \cup N], all \cup N)
<1> DEFINE g == [f EXCEPT ![p] = f[p] \cup N]
<1>1. g[p] = f[p] \cup N /\ \A q \in Peers \ {p} : g[q] = f[q] /\ f[q] \cap N = {}
  BY DEF Split
<1> HIDE DEF g
<1>2. all \cup N = UNION {g[q] : q \in Peers}
  BY <1>1 DEF Split
<1>3. \A q, r \in Peers : q # r => g[q] \cap g[r] = {}
  BY <1>1 DEF Split
<1> QED
  BY <1>2, <1>3 DEF Split, g

RequestTypes ==
  /\ asked \in [Peers -> SUBSET Items] /\ askedAll \subseteq Items
  /\ compact \in [Peers -> SUBSET Blocks] /\ compactAll \subseteq Blocks

Books ==
  /\ Split(asked, askedAll) /\ Split(compact, compactAll)
  /\ \A p \in Peers : ~Open(p) => asked[p] = {}

(* How a step may touch the books: a peer leaves; or is asked for new      *)
(* items; or comes to owe some no more.                                    *)
Asks(p, N) ==
  /\ asked' = [asked EXCEPT ![p] = asked[p] \cup N] /\ askedAll' = askedAll \cup N
  /\ UNCHANGED <<compact, compactAll>>

Gives(p, D) ==
  /\ asked' = [asked EXCEPT ![p] = asked[p] \ D] /\ askedAll' = askedAll \ D
  /\ UNCHANGED <<compact, compactAll>>

(* No step asks for what is no item.                                       *)
LEMMA NextRequestTypes ==
  ASSUME QueueOK, RequestTypes, [Next]_allVars
  PROVE  RequestTypes'
<1>u. UNCHANGED requestVars => RequestTypes'
  BY DEF RequestTypes, requestVars
<1>l. ASSUME NEW p, DropRequests(p) PROVE RequestTypes'
  BY <1>l DEF DropRequests, RequestTypes
<1>a. ASSUME NEW p, NEW N \in SUBSET Items, Asks(p, N) PROVE RequestTypes'
  BY <1>a DEF Asks, RequestTypes
<1>g. ASSUME NEW p, NEW D, Gives(p, D) PROVE RequestTypes'
  BY <1>g DEF Gives, RequestTypes
<1>1. CASE Refill \/ Late \/ StartSync \/ LookUp
  BY <1>1, <1>u DEF Refill, Late, StartSync, LookUp
<1>2. CASE StopSync
  BY <1>2 DEF StopSync, RequestTypes
<1>3. CASE Request
  <2>1. PICK N : N \subseteq Items /\ Asks(Job.peer, N)
    <3>1. PICK T \in SUBSET Txs :
             LET N == IF Open(Job.peer) THEN New((Job.items \cap Blocks) \cup T) ELSE {}
             IN  /\ asked' = [asked EXCEPT ![Job.peer] = @ \cup N]
                 /\ askedAll' = askedAll \cup N /\ UNCHANGED <<compact, compactAll>>
      BY <1>3 DEF Request
    <3>2. New((Job.items \cap Blocks) \cup T) \subseteq Items
      BY DEF New, Items
    <3>3. QED
      BY <3>1, <3>2 DEF Asks
  <2>2. QED
    BY <1>a, <2>1
<1>4. CASE Take
  <2>1. UNCHANGED requestVars \/ DropRequests(Job.peer)
        \/ \E i \in Job.items : Gives(Job.peer, {i})
    <3>1. queue # <<>> /\ Job.op = "item"
      BY <1>4 DEF Take, Running
    <3>2. \E i \in Items : Job.items = {i}
      BY <3>1, JobIsPacket
    <3>3. \/ UNCHANGED requestVars \/ Punish(Job.peer)
          \/ /\ \A i \in Job.items : Resolve(Job.peer, i)
             /\ UNCHANGED <<compact, compactAll>>
      BY <1>4 DEF Take
    <3>4. QED
      BY <3>2, <3>3 DEF Punish, Leave, Resolve, Gives
  <2>2. QED
    BY <1>u, <1>l, <1>g, <2>1
<1>5. CASE Added
  <2>1. PICK N : N \subseteq Items /\ Asks(Job.peer, N)
    <3>1. PICK T \in SUBSET Txs :
             LET N == IF Open(Job.peer) THEN New({t \in T : ~Handled(t)}) ELSE {}
             IN  /\ asked' = [asked EXCEPT ![Job.peer] = @ \cup N]
                 /\ askedAll' = askedAll \cup N /\ UNCHANGED <<compact, compactAll>>
      BY <1>5 DEF Added
    <3>2. New({t \in T : ~Handled(t)}) \subseteq Items
      BY DEF New, Items
    <3>3. QED
      BY <3>1, <3>2 DEF Asks
  <2>2. QED
    BY <1>a, <2>1
<1>6. ASSUME NEW p \in Peers, \/ Accept(p) \/ HandleOpen(p) \/ Inv(p) \/ Item(p)
                             \/ Unsupported(p)
      PROVE  RequestTypes'
  BY <1>6, <1>u DEF Accept, HandleOpen, Inv, Item, Unsupported
<1>7. ASSUME NEW p \in Peers, Close(p) \/ LoaderStalls(p) \/ \E i \in Items : Stall(p, i)
      PROVE  RequestTypes'
  BY <1>7, <1>l DEF Close, Stall, LoaderStalls, Leave
<1>8. ASSUME NEW p \in Peers, NEW i \in Items, NotFound(p, i) PROVE RequestTypes'
  <2>1. DropRequests(p) \/ Gives(p, {i})
    BY <1>8 DEF NotFound, Leave, Resolve, Gives
  <2>2. QED
    BY <1>l, <1>g, <2>1
<1>9. ASSUME NEW p \in Peers, NEW b \in Blocks, CmpctBlock(p, b) PROVE RequestTypes'
  <2>1. CASE Leave(p)
    BY <1>l, <2>1 DEF Leave
  <2>2. CASE ~Leave(p)
    <3>1. /\ \/ UNCHANGED <<asked, askedAll>>
             \/ /\ asked' = [asked EXCEPT ![p] = @ \cup {b}]
                /\ askedAll' = askedAll \cup {b}
          /\ \/ UNCHANGED <<compact, compactAll>>
             \/ /\ compact' = [compact EXCEPT ![p] = @ \cup {b}]
                /\ compactAll' = compactAll \cup {b}
      BY <1>9, <2>2 DEF CmpctBlock, Announced
    <3>2. asked' \in [Peers -> SUBSET Items] /\ askedAll' \subseteq Items
      BY <3>1 DEF RequestTypes, Items
    <3>3. compact' \in [Peers -> SUBSET Blocks] /\ compactAll' \subseteq Blocks
      BY <3>1 DEF RequestTypes
    <3>4. QED
      BY <3>2, <3>3 DEF RequestTypes
  <2>3. QED
    BY <2>1, <2>2
<1>10. ASSUME NEW p \in Peers, NEW b \in Blocks, BlockTxn(p, b) PROVE RequestTypes'
  BY <1>10 DEF BlockTxn, RequestTypes
<1>11. CASE Reset
  BY <1>11, <1>u DEF Reset
<1>12. CASE Disconnect
  BY <1>12 DEF Disconnect, RequestTypes
<1>13. CASE UNCHANGED allVars
  BY <1>13, <1>u DEF allVars, vars
<1> QED
  BY <1>1, <1>2, <1>3, <1>4, <1>5, <1>6, <1>7, <1>8, <1>9, <1>10, <1>11, <1>12, <1>13 DEF Next, Step

(* The books agree after a peer has left ...                               *)
LEMMA LeaveKeepsBooks ==
  ASSUME RequestTypes, Books, LoaderTypes, NEW p \in Peers, Leave(p)
  PROVE  Books'
<1>1. /\ asked' = [asked EXCEPT ![p] = {}] /\ askedAll' = askedAll \ asked[p]
      /\ compact' = [compact EXCEPT ![p] = {}] /\ compactAll' = compactAll \ compact[p]
      /\ peers' = [peers EXCEPT ![p] = "off"]
  BY DEF Leave, DropRequests
<1>2. asked[p] \ asked[p] = {} /\ compact[p] \ compact[p] = {}
  OBVIOUS
<1>3. Split(asked', askedAll')
  <2>1. Split([asked EXCEPT ![p] = asked[p] \ asked[p]], askedAll \ asked[p])
    BY SplitDrop DEF RequestTypes, Books
  <2>2. QED
    BY <1>1, <1>2, <2>1
<1>4. Split(compact', compactAll')
  <2>1. Split([compact EXCEPT ![p] = compact[p] \ compact[p]], compactAll \ compact[p])
    BY SplitDrop DEF RequestTypes, Books
  <2>2. QED
    BY <1>1, <1>2, <2>1
<1>5. \A q \in Peers : ~Open(q)' => asked'[q] = {}
  BY <1>1 DEF Open, Books, LoaderTypes, RequestTypes
<1> QED
  BY <1>3, <1>4, <1>5 DEF Books

(* ... after an open one was asked for something new ...                   *)
LEMMA AskKeepsBooks ==
  ASSUME RequestTypes, Books, NEW p \in Peers, NEW N, N \cap askedAll = {},
         N # {} => Open(p), Asks(p, N), peers' = peers
  PROVE  Books'
<1>1. Split(asked', askedAll')
  BY SplitAdd DEF Asks, RequestTypes, Books
<1>2. Split(compact', compactAll')
  BY DEF Asks, Books
<1>3. \A q \in Peers : ~Open(q)' => asked'[q] = {}
  BY DEF Asks, Open, Books, RequestTypes
<1> QED
  BY <1>1, <1>2, <1>3 DEF Books

(* ... and after it delivered something it owed.                           *)
LEMMA GiveKeepsBooks ==
  ASSUME RequestTypes, Books, NEW p \in Peers, NEW D \in SUBSET asked[p],
         Gives(p, D), peers' = peers
  PROVE  Books'
<1>1. Split(asked', askedAll')
  BY SplitDrop DEF Gives, RequestTypes, Books
<1>2. Split(compact', compactAll')
  BY DEF Gives, Books
<1>3. \A q \in Peers : ~Open(q)' => asked'[q] = {}
  BY DEF Gives, Open, Books, RequestTypes
<1> QED
  BY <1>1, <1>2, <1>3 DEF Books

(* The sync is stopped and an announcement believed only while that does   *)
(* no harm to the books.                                                   *)
Careful == Faults \cap {"stop", "announce"} = {}

(* Every step keeps the books.                                             *)
LEMMA NextBooks ==
  ASSUME Careful, QueueOK, LoaderInv, RequestTypes, Books, [Next]_allVars
  PROVE  Books'
<1>u. ASSUME UNCHANGED requestVars, \A q \in Peers : Open(q) => Open(q)' PROVE Books'
  BY <1>u DEF Books, requestVars
<1>v. ASSUME UNCHANGED requestVars, peers' = peers PROVE Books'
  BY <1>v DEF Books, requestVars, Open
<1>t. LoaderTypes /\ OneLoader
  BY DEF LoaderInv
<1>1. CASE Refill
  <2>1. \E new \in SUBSET {p \in Peers : Free(p)} :
           peers' = [p \in Peers |-> IF p \in new THEN "new" ELSE peers[p]]
    BY <1>1 DEF Refill, FillOutbound
  <2>2. \A q \in Peers : Open(q) => Open(q)'
    BY <2>1 DEF Open, Free
  <2>3. QED
    BY <1>1, <1>u, <2>2 DEF Refill
<1>2. CASE Late \/ StartSync \/ LookUp
  BY <1>2, <1>v DEF Late, StartSync, LookUp, peerVars
<1>3. CASE StopSync
  <2>1. /\ \A p \in Peers \ peerSyncing : asked[p] \cap Blocks = {} /\ compact[p] = {}
        /\ asked' = [p \in Peers |-> IF p \in peerSyncing THEN asked[p] \ Blocks ELSE asked[p]]
        /\ compact' = [p \in Peers |-> IF p \in peerSyncing THEN {} ELSE compact[p]]
        /\ askedAll' = askedAll \ Blocks /\ compactAll' = {} /\ peers' = peers
    BY <1>3 DEF StopSync, Careful
  <2>2. \A p \in Peers : asked'[p] = asked[p] \ Blocks /\ compact'[p] = {}
    BY <2>1
  <2>3. Split(asked', askedAll')
    BY <2>1, <2>2 DEF Books, Split
  <2>4. Split(compact', compactAll')
    BY <2>1, <2>2 DEF Split
  <2>5. QED
    BY <2>1, <2>2, <2>3, <2>4 DEF Books, Open
<1>4. CASE Request
  <2>1. queue # <<>> /\ Job.op = "inv" /\ peers' = peers
    BY <1>4 DEF Request, Running, peerVars
  <2>2. Job.peer \in Peers
    BY <2>1, JobIsPacket
  <2>3. PICK N : N \cap askedAll = {} /\ (N # {} => Open(Job.peer)) /\ Asks(Job.peer, N)
    <3>1. PICK T :
             LET N == IF Open(Job.peer) THEN New((Job.items \cap Blocks) \cup T) ELSE {}
             IN  /\ asked' = [asked EXCEPT ![Job.peer] = @ \cup N]
                 /\ askedAll' = askedAll \cup N /\ UNCHANGED <<compact, compactAll>>
      BY <1>4 DEF Request
    <3>2. New((Job.items \cap Blocks) \cup T) \cap askedAll = {}
      BY DEF New
    <3>3. QED
      BY <3>1, <3>2 DEF Asks
  <2>4. QED
    BY <2>1, <2>2, <2>3, AskKeepsBooks
<1>5. CASE Take
  <2>1. queue # <<>> /\ Job.op = "item"
    BY <1>5 DEF Take, Running
  <2>2. Job.peer \in Peers /\ \E i \in Items : Job.items = {i}
    BY <2>1, JobIsPacket DEF Packet
  <2>3. CASE UNCHANGED <<peerVars, requestVars>>
    BY <1>v, <2>3 DEF peerVars
  <2>4. CASE Punish(Job.peer)
    BY <1>t, <1>v, <2>2, <2>4, LeaveKeepsBooks DEF Punish, peerVars
  <2>5. CASE /\ Job.items \subseteq asked[Job.peer]
             /\ \A i \in Job.items : Resolve(Job.peer, i)
             /\ UNCHANGED <<peers, compact, compactAll>>
    <3>1. PICK i \in Items : Job.items = {i}
      BY <2>2
    <3>2. Gives(Job.peer, {i}) /\ {i} \subseteq asked[Job.peer]
      BY <2>5, <3>1 DEF Resolve, Gives
    <3>3. QED
      BY <2>2, <2>5, <3>2, GiveKeepsBooks
  <2>6. QED
    BY <1>5, <2>3, <2>4, <2>5 DEF Take
<1>6. CASE Added
  <2>1. queue # <<>> /\ Job.op = "item" /\ peers' = peers
    BY <1>6 DEF Added, Running, peerVars
  <2>2. Job.peer \in Peers
    BY <2>1, JobIsPacket
  <2>3. PICK N : N \cap askedAll = {} /\ (N # {} => Open(Job.peer)) /\ Asks(Job.peer, N)
    <3>1. PICK T :
             LET N == IF Open(Job.peer) THEN New({t \in T : ~Handled(t)}) ELSE {}
             IN  /\ asked' = [asked EXCEPT ![Job.peer] = @ \cup N]
                 /\ askedAll' = askedAll \cup N /\ UNCHANGED <<compact, compactAll>>
      BY <1>6 DEF Added
    <3>2. New({t \in T : ~Handled(t)}) \cap askedAll = {}
      BY DEF New
    <3>3. QED
      BY <3>1, <3>2 DEF Asks
  <2>4. QED
    BY <2>1, <2>2, <2>3, AskKeepsBooks
<1>7. ASSUME NEW p \in Peers, Accept(p) \/ HandleOpen(p) PROVE Books'
  <2>1. UNCHANGED requestVars /\ \A q \in Peers : Open(q) => Open(q)'
    BY <1>7, <1>t DEF Accept, HandleOpen, Free, Open, LoaderTypes
  <2>2. QED
    BY <1>u, <2>1
<1>8. ASSUME NEW p \in Peers, Inv(p) \/ Item(p) \/ Unsupported(p) PROVE Books'
  BY <1>8, <1>v DEF Inv, Item, Unsupported, peerVars
<1>9. ASSUME NEW p \in Peers, Close(p) \/ LoaderStalls(p) \/ \E i \in Items : Stall(p, i)
      PROVE  Books'
  BY <1>9, <1>t, LeaveKeepsBooks DEF Close, Stall, LoaderStalls
<1>10. ASSUME NEW p \in Peers, NEW i \in Items, NotFound(p, i) PROVE Books'
  <2>1. CASE Leave(p)
    BY <1>t, <2>1, LeaveKeepsBooks
  <2>2. CASE ~Leave(p)
    <3>1. Gives(p, {i}) /\ {i} \subseteq asked[p] /\ peers' = peers
      BY <1>10, <2>2 DEF NotFound, Resolve, Gives, peerVars
    <3>2. QED
      BY <3>1, GiveKeepsBooks
  <2>3. QED
    BY <2>1, <2>2
<1>11. ASSUME NEW p \in Peers, NEW b \in Blocks, CmpctBlock(p, b) PROVE Books'
  <2>1. CASE Leave(p)
    BY <1>t, <2>1, LeaveKeepsBooks
  <2>2. CASE ~Leave(p)
    <3>1. /\ Open(p) /\ b \notin compactAll /\ peers' = peers
          /\ \/ UNCHANGED <<asked, askedAll>>
             \/ /\ b \notin askedAll
                /\ asked' = [asked EXCEPT ![p] = asked[p] \cup {b}]
                /\ askedAll' = askedAll \cup {b}
          /\ \/ UNCHANGED <<compact, compactAll>>
             \/ /\ compact' = [compact EXCEPT ![p] = compact[p] \cup {b}]
                /\ compactAll' = compactAll \cup {b}
      BY <1>11, <2>2 DEF CmpctBlock, Announced, Careful, peerVars
    <3>2. Split(asked', askedAll')
      <4>1. CASE UNCHANGED <<asked, askedAll>>
        BY <4>1 DEF Books
      <4>2. CASE b \notin askedAll
        <5>1. {b} \cap askedAll = {} /\ asked \in [Peers -> SUBSET Items] /\ Split(asked, askedAll)
          BY <4>2 DEF RequestTypes, Books
        <5>2. Split([asked EXCEPT ![p] = asked[p] \cup {b}], askedAll \cup {b})
          BY <5>1, SplitAdd
        <5>3. QED
          BY <3>1, <4>1, <5>2
      <4>3. QED
        BY <3>1, <4>1, <4>2
    <3>3. Split(compact', compactAll')
      <4>1. CASE UNCHANGED <<compact, compactAll>>
        BY <4>1 DEF Books
      <4>2. {b} \cap compactAll = {} /\ compact \in [Peers -> SUBSET Blocks] /\ Split(compact, compactAll)
        BY <3>1 DEF RequestTypes, Books
      <4>3. Split([compact EXCEPT ![p] = compact[p] \cup {b}], compactAll \cup {b})
        BY <4>2, SplitAdd
      <4>4. QED
        BY <3>1, <4>1, <4>3
    <3>4. \A q \in Peers : ~Open(q)' => asked'[q] = {}
      BY <3>1 DEF Open, Books, RequestTypes
    <3>5. QED
      BY <3>2, <3>3, <3>4 DEF Books
  <2>3. QED
    BY <2>1, <2>2
<1>12. ASSUME NEW p \in Peers, NEW b \in Blocks, BlockTxn(p, b) PROVE Books'
  <2>1. /\ b \in compact[p] /\ compact' = [compact EXCEPT ![p] = compact[p] \ {b}]
        /\ compactAll' = compactAll \ {b} /\ UNCHANGED <<asked, askedAll, peers>>
    BY <1>12 DEF BlockTxn, peerVars
  <2>2. Split(compact', compactAll')
    <3>1. {b} \subseteq compact[p]
      BY <2>1
    <3>2. QED
      BY <2>1, <3>1, SplitDrop DEF RequestTypes, Books
  <2>3. QED
    BY <2>1, <2>2 DEF Books, Open
<1>13. CASE Reset
  BY <1>13, <1>v DEF Reset
<1>14. CASE Disconnect
  <2>1. /\ asked' = [p \in Peers |-> {}] /\ askedAll' = {}
        /\ compact' = [p \in Peers |-> {}] /\ compactAll' = {}
    BY <1>14 DEF Disconnect
  <2>2. QED
    BY <2>1 DEF Books, Split
<1>15. CASE UNCHANGED allVars
  BY <1>15, <1>v DEF allVars, vars, peerVars
<1> QED
  BY <1>1, <1>2, <1>3, <1>4, <1>5, <1>6, <1>7, <1>8, <1>9, <1>10, <1>11, <1>12, <1>13, <1>14, <1>15
     DEF Next, Step

-----------------------------------------------------------------------------
(* The invariant, without what depends on Careful.                         *)
IInv == QueueOK /\ known \subseteq Items /\ LoaderInv /\ RequestTypes

(* A pool starts without peers or requests.                                *)
LEMMA InitIInv ==
  ASSUME Init
  PROVE  IInv /\ Books
<1>1. QueueOK /\ known \subseteq Items
  <2>1. queue = <<>> /\ <<>> \in Seq(Packet) /\ Len(<<>>) = 0 /\ DOMAIN <<>> = {}
    BY EmptySeq DEF Init
  <2>2. QED
    BY <2>1, PoolAssumption DEF Init, QueueOK
<1>2. LoaderInv
  <2>1. resets = 0 /\ 0 \in 0..MaxResets
    BY PoolAssumption DEF Init
  <2>2. LoaderTypes
    BY <2>1 DEF Init, LoaderTypes, Listed
  <2>3. OneLoader /\ Rests
    BY DEF Init, OneLoader, Listed, Rests
  <2>4. QED
    BY <2>2, <2>3 DEF LoaderInv
<1>3. RequestTypes
  BY DEF Init, RequestTypes
<1>4. Books
  BY DEF Init, Books, Split
<1> QED
  BY <1>1, <1>2, <1>3, <1>4 DEF IInv

(* IInv is an invariant.                                                   *)
LEMMA Invariance == Spec => []IInv
<1>1. IInv /\ [Next]_allVars => IInv'
  BY NextQueue, NextLoader, NextRequestTypes DEF IInv
<1> QED
  BY <1>1, InitIInv, PTL DEF Spec

(* The types, of any pool.                                                 *)
THEOREM TypeCorrect == Spec => []TypeOK
<1>1. IInv => TypeOK
  BY DEF IInv, QueueOK, LoaderInv, LoaderTypes, RequestTypes, TypeOK, Listed
<1> QED
  BY <1>1, Invariance, PTL

(* The loader is a peer of ours that is there, and what syncs is open and  *)
(* outbound, whatever peers come, go and stall, however often the chain is *)
(* reset or the pool closed; before the chain is first synced no other     *)
(* peer than the loader syncs.                                             *)
THEOREM LoaderCorrect == Spec => []OneLoader
<1>1. IInv => OneLoader
  BY DEF IInv, LoaderInv
<1> QED
  BY <1>1, Invariance, PTL

(* What the pool believes was requested is what was requested of its       *)
(* peers, each item of one that is there: the assertions of resolveBlock,  *)
(* resolveTX, removePeer and handleBlockTxn hold, as long as the sync is   *)
(* not stopped while a peer that does not sync owes a block and no block   *)
(* comes unasked that another peer was asked for.                          *)
THEOREM RequestsCorrect == Careful => (Spec => []RequestsAgree)
<1>1. ASSUME Careful PROVE IInv /\ Books /\ [Next]_allVars => Books'
  BY <1>1, NextBooks DEF IInv
<1>2. IInv /\ Books => RequestsAgree
  BY DEF IInv, QueueOK, LoaderInv, LoaderTypes, RequestTypes, TypeOK, Listed, Books, Rests,
         RequestsAgree
<1>3. CASE Careful
  <2>1. IInv /\ Books /\ [Next]_allVars => Books'
    BY <1>1, <1>3
  <2>2. QED
    BY <2>1, <1>2, InitIInv, Invariance, PTL DEF Spec
<1> QED
  BY <1>3

-----------------------------------------------------------------------------
(* The address book (module HostList).                                     *)
(* The options: at least one bucket for an entry, at least one reference.  *)
BookOptions ==
  /\ \E n \in Nat : Buckets = 1..n
  /\ UsedBucket \in [Hosts -> Buckets]
  /\ MaxEntries \in Nat \ {0} /\ MaxRefs \in Nat \ {0}

InFresh(h) == {b \in Buckets : h \in fresh[b]}
InUsed(h) == {b \in Buckets : h \in used[b]}

BookTypes ==
  /\ DOMAIN book \subseteq Hosts /\ \A h \in DOMAIN book : book[h] \in Buckets
  /\ fresh \in [Buckets -> SUBSET Hosts] /\ used \in [Buckets -> SUBSET Hosts]
  /\ refs \in [Hosts -> Nat] /\ isUsed \subseteq Hosts

(* A host is in the map exactly if it is in a bucket, and counts its fresh *)
(* ones.                                                                   *)
Entry(h) ==
  /\ h \in DOMAIN book <=> InFresh(h) # {} \/ InUsed(h) # {}
  /\ refs[h] = Cardinality(InFresh(h)) /\ refs[h] <= MaxRefs
  /\ IF h \in isUsed THEN InUsed(h) = {UsedBucket[h]} /\ refs[h] = 0
     ELSE InUsed(h) = {}

Totals ==
  /\ IsFiniteSet(DOMAIN book)
  /\ totalUsed = Cardinality(isUsed) /\ totalFresh = Cardinality(DOMAIN book \ isUsed)

Sizes ==
  \A b \in Buckets : Cardinality(fresh[b]) <= MaxEntries /\ Cardinality(used[b]) <= MaxEntries

BookInv == BookTypes /\ (\A h \in Hosts : Entry(h)) /\ Totals /\ Sizes

(* Every nonempty set of natural numbers has a least element.              *)
LEMMA LeastNumber ==
  ASSUME NEW S, S \subseteq Nat, S # {}
  PROVE  \E m \in S : \A n \in S : m <= n
<1> DEFINE R == OpToRel(<, Nat)
<1>1. IsWellFoundedOn(R, Nat)
  BY NatLessThanWellFounded
<1>2. \A x, y \in Nat : <<y, x>> \in R <=> y < x
  BY DEF OpToRel
<1> HIDE DEF R
<1>3. PICK m \in S : \A y \in S : ~(<<y, m>> \in R)
  BY <1>1, WFMin
<1>4. ASSUME NEW n \in S PROVE m <= n
  <2>1. m \in Nat /\ n \in Nat
    OBVIOUS
  <2>2. ~(n < m)
    BY <1>2, <1>3, <2>1
  <2> QED
    BY <2>1, <2>2
<1> QED
  BY <1>4

(* The instance counts as everybody does.                                  *)
LEMMA SameCardinality ==
  ASSUME NEW S
  PROVE  Addresses!Cardinality(S) = Cardinality(S)
BY Zenon DEF Addresses!Cardinality, Cardinality

LEMMA BookInvKeepsBook ==
  ASSUME BookInv
  PROVE  Addresses!BookKept
<1>1. \A S : Addresses!Cardinality(S) = Cardinality(S)
  BY SameCardinality
<1>2. /\ totalUsed = Addresses!Cardinality(isUsed)
      /\ totalFresh = Addresses!Cardinality(DOMAIN book \ isUsed)
  BY <1>1 DEF BookInv, Totals
<1>3. \A b \in Buckets : /\ Addresses!Cardinality(fresh[b]) <= MaxEntries
                         /\ Addresses!Cardinality(used[b]) <= MaxEntries
  BY <1>1 DEF BookInv, Sizes
<1>4. ASSUME NEW h \in Hosts
      PROVE  /\ h \in DOMAIN book <=> InFresh(h) # {} \/ InUsed(h) # {}
             /\ refs[h] = Addresses!Cardinality(InFresh(h)) /\ refs[h] <= MaxRefs
             /\ IF h \in isUsed THEN InUsed(h) = {UsedBucket[h]} /\ refs[h] = 0
                ELSE InUsed(h) = {}
  BY <1>1 DEF BookInv, Entry
<1> QED
  BY <1>2, <1>3, <1>4, Zenon DEF Addresses!BookKept, InFresh, InUsed

(* Buckets are finite, and so are the sets of buckets and what is in them. *)
LEMMA BookFinite ==
  ASSUME BookOptions, BookInv
  PROVE  /\ IsFiniteSet(Buckets)
         /\ \A h : IsFiniteSet(InFresh(h)) /\ Cardinality(InFresh(h)) \in Nat
         /\ \A b \in Buckets : /\ fresh[b] \subseteq DOMAIN book \ isUsed
                               /\ used[b] \subseteq isUsed /\ isUsed \subseteq DOMAIN book
                               /\ IsFiniteSet(fresh[b]) /\ IsFiniteSet(used[b])
         /\ IsFiniteSet(isUsed)
<1>1. IsFiniteSet(Buckets)
  <2>1. PICK n \in Nat : Buckets = 1..n
    BY DEF BookOptions
  <2> QED
    BY <2>1, FS_Interval
<1>2. \A h : IsFiniteSet(InFresh(h)) /\ Cardinality(InFresh(h)) \in Nat
  BY <1>1, FS_Subset, FS_CardinalityType DEF InFresh
<1>3. ASSUME NEW b \in Buckets, NEW h \in fresh[b]
      PROVE  h \in DOMAIN book \ isUsed
  <2>1. h \in Hosts /\ b \in InFresh(h)
    BY <1>3 DEF BookInv, BookTypes, InFresh
  <2>2. Entry(h)
    BY <2>1 DEF BookInv
  <2>3. Cardinality(InFresh(h)) # 0
    BY <1>2, <2>1, FS_EmptySet
  <2> QED
    BY <2>1, <2>2, <2>3 DEF Entry
<1>4. ASSUME NEW b \in Buckets, NEW h \in used[b]
      PROVE  h \in isUsed
  <2>1. h \in Hosts /\ b \in InUsed(h)
    BY <1>4 DEF BookInv, BookTypes, InUsed
  <2> QED
    BY <2>1 DEF BookInv, Entry
<1>5. isUsed \subseteq DOMAIN book
  BY DEF BookInv, BookTypes, Entry
<1>6. IsFiniteSet(DOMAIN book)
  BY DEF BookInv, Totals
<1>7. IsFiniteSet(isUsed)
  BY <1>5, <1>6, FS_Subset
<1>8. ASSUME NEW b \in Buckets
      PROVE  /\ fresh[b] \subseteq DOMAIN book \ isUsed /\ used[b] \subseteq isUsed
             /\ IsFiniteSet(fresh[b]) /\ IsFiniteSet(used[b])
  <2>1. fresh[b] \subseteq DOMAIN book \ isUsed /\ used[b] \subseteq isUsed
    BY <1>3, <1>4, <1>8
  <2>2. fresh[b] \subseteq DOMAIN book
    BY <2>1
  <2> QED
    BY <1>6, <1>7, <2>1, <2>2, FS_Subset
<1> QED
  BY <1>1, <1>2, <1>5, <1>7, <1>8

(* A host enters a bucket, from which those of gone are evicted.           *)
LEMMA PutKeeps ==
  ASSUME BookOptions, BookInv, NEW h \in Hosts, NEW b \in Buckets, NEW counted,
         h \notin fresh[b], h \notin isUsed, refs[h] < MaxRefs,
         counted = (IF h \in DOMAIN book THEN 0 ELSE 1),
         Addresses!Put(h, b, counted)
  PROVE  BookInv'
<1>1. PICK gone \in Addresses!Evictions(b) :
        /\ fresh' = [fresh EXCEPT ![b] = (@ \ gone) \cup {h}]
        /\ refs' = [k \in Hosts |-> refs[k] + (IF k = h THEN 1 ELSE 0)
                                            - (IF k \in gone THEN 1 ELSE 0)]
        /\ book' = [k \in (DOMAIN book \ Addresses!Forgotten(gone)) \cup {h} |->
                      IF k = h THEN b ELSE book[k]]
        /\ totalFresh' = totalFresh + counted - Addresses!Cardinality(Addresses!Forgotten(gone))
        /\ UNCHANGED <<used, isUsed, totalUsed>>
  BY DEF Addresses!Put
<1> DEFINE Out == {k \in gone : refs[k] = 1}
<1>2. Addresses!Forgotten(gone) = Out
  BY DEF Addresses!Forgotten
<1>3. /\ totalFresh' = totalFresh + counted - Cardinality(Out)
      /\ DOMAIN book' = (DOMAIN book \ Out) \cup {h}
      /\ \A k \in DOMAIN book' : book'[k] = IF k = h THEN b ELSE book[k]
  BY <1>1, <1>2, SameCardinality
<1>4. /\ gone \subseteq fresh[b] /\ h \notin gone
      /\ Cardinality(fresh[b]) < MaxEntries \/ gone # {}
  <2>1. \/ Addresses!Cardinality(fresh[b]) < MaxEntries /\ gone = {}
        \/ gone \in SUBSET fresh[b] /\ gone # {}
    BY <1>1 DEF Addresses!Evictions
  <2> QED
    BY <2>1, SameCardinality
<1>5. /\ DOMAIN book \subseteq Hosts /\ \A k \in DOMAIN book : book[k] \in Buckets
      /\ fresh \in [Buckets -> SUBSET Hosts] /\ used \in [Buckets -> SUBSET Hosts]
      /\ refs \in [Hosts -> Nat] /\ isUsed \subseteq Hosts
  BY DEF BookInv, BookTypes
<1>6. /\ \A k : IsFiniteSet(InFresh(k)) /\ Cardinality(InFresh(k)) \in Nat
      /\ \A c \in Buckets : IsFiniteSet(fresh[c]) /\ IsFiniteSet(used[c])
      /\ fresh[b] \subseteq DOMAIN book \ isUsed
  BY BookFinite
<1>7. \A k : /\ InUsed(k)' = InUsed(k)
             /\ InFresh(k)' = IF k = h THEN InFresh(k) \cup {b}
                              ELSE IF k \in gone THEN InFresh(k) \ {b} ELSE InFresh(k)
  <2>1. fresh'[b] = (fresh[b] \ gone) \cup {h} /\ \A c \in Buckets \ {b} : fresh'[c] = fresh[c]
    BY <1>1, <1>5
  <2> QED
    BY <1>1, <1>4, <2>1 DEF InFresh, InUsed
<1>8. ASSUME NEW k \in Hosts PROVE Entry(k)'
  <2>1. Entry(k) /\ refs'[k] = refs[k] + (IF k = h THEN 1 ELSE 0) - (IF k \in gone THEN 1 ELSE 0)
        /\ refs[k] \in Nat
    BY <1>1, <1>5 DEF BookInv
  <2>2. /\ k \in DOMAIN book' <=> (k \in DOMAIN book /\ k \notin Out) \/ k = h
        /\ k \in isUsed' <=> k \in isUsed
    BY <1>1, <1>3
  <2>3. CASE k = h
    <3>1. /\ InFresh(k)' = InFresh(k) \cup {b} /\ b \notin InFresh(k) /\ refs'[k] = refs[k] + 1
      BY <1>4, <1>7, <2>1, <2>3 DEF InFresh
    <3>2. Cardinality(InFresh(k)') = Cardinality(InFresh(k)) + 1
      BY <1>6, <3>1, FS_AddElement
    <3> QED
      BY <1>5, <1>7, <2>1, <2>2, <2>3, <3>1, <3>2 DEF Entry, BookOptions
  <2>4. CASE k # h /\ k \in gone
    <3>1. /\ InFresh(k)' = InFresh(k) \ {b} /\ b \in InFresh(k) /\ refs'[k] = refs[k] - 1
      BY <1>4, <1>7, <2>1, <2>4 DEF InFresh
    <3>2. Cardinality(InFresh(k)') = Cardinality(InFresh(k)) - 1
      BY <1>6, <3>1, FS_RemoveElement
    <3>3. Cardinality(InFresh(k)') = 0 <=> InFresh(k)' = {}
      BY <1>6, <3>1, FS_RemoveElement, FS_EmptySet
    <3>4. k \in DOMAIN book /\ k \notin isUsed /\ InUsed(k) = {}
      BY <1>4, <1>6, <2>1, <2>4 DEF Entry
    <3>5. refs[k] <= MaxRefs /\ refs[k] = Cardinality(InFresh(k)) /\ MaxRefs \in Nat
      BY <2>1 DEF Entry, BookOptions
    <3>6. k \in Out <=> refs'[k] = 0
      BY <2>1, <2>4, <3>1
    <3>7. refs'[k] <= MaxRefs /\ refs'[k] = Cardinality(InFresh(k)')
      BY <2>1, <3>1, <3>2, <3>5
    <3> QED
      BY <1>7, <2>2, <2>4, <3>3, <3>4, <3>6, <3>7 DEF Entry
  <2>5. CASE k # h /\ k \notin gone
    <3>1. InFresh(k)' = InFresh(k) /\ InUsed(k)' = InUsed(k) /\ refs'[k] = refs[k]
      BY <1>7, <2>1, <2>5
    <3> QED
      BY <2>1, <2>2, <2>5, <3>1 DEF Entry
  <2> QED
    BY <2>3, <2>4, <2>5
<1>9. BookTypes'
  <2>1. refs' \in [Hosts -> Nat]
    <3>1. ASSUME NEW k \in Hosts PROVE refs'[k] \in Nat
      <4>1. refs'[k] = Cardinality(InFresh(k)')
        BY <1>8 DEF Entry
      <4>2. IsFiniteSet(InFresh(k)')
        <5>1. IsFiniteSet(InFresh(k) \cup {b}) /\ IsFiniteSet(InFresh(k) \ {b})
          BY <1>6, FS_AddElement, FS_RemoveElement
        <5> QED
          BY <1>6, <1>7, <5>1
      <4> QED
        BY <4>1, <4>2, FS_CardinalityType
    <3> QED
      BY <1>1, <3>1
  <2> QED
    BY <1>1, <1>3, <1>4, <1>5, <2>1 DEF BookTypes
<1>10. Totals'
  <2> DEFINE F == DOMAIN book \ isUsed
  <2>1. IsFiniteSet(DOMAIN book) /\ totalFresh = Cardinality(F) /\ totalUsed = Cardinality(isUsed)
    BY DEF BookInv, Totals
  <2>2. IsFiniteSet(F) /\ Out \subseteq F /\ h \notin Out
    BY <1>4, <1>6, <2>1, FS_Subset
  <2>3. IsFiniteSet(F \ Out) /\ Cardinality(F \ Out) = Cardinality(F) - Cardinality(Out)
    <3>1. F \cap Out = Out
      BY <2>2
    <3> QED
      BY <2>2, <3>1, FS_Difference
  <2>4. Cardinality(F) \in Nat /\ Cardinality(Out) \in Nat
    BY <2>2, FS_Subset, FS_CardinalityType
  <2>5. (DOMAIN book \ isUsed)' = (F \ Out) \cup {h}
    BY <1>1, <1>3
  <2>6. IsFiniteSet(DOMAIN book')
    <3>1. IsFiniteSet(DOMAIN book \ Out)
      BY <2>1, FS_Subset
    <3>2. IsFiniteSet((DOMAIN book \ Out) \cup {h})
      BY <3>1, FS_AddElement
    <3> QED
      BY <1>3, <3>2
  <2>7. Cardinality((F \ Out) \cup {h}) = Cardinality(F \ Out) + counted
    <3>1. h \in F \ Out <=> h \in DOMAIN book
      BY <2>2
    <3> QED
      <4>1. CASE h \in DOMAIN book
        <5>1. (F \ Out) \cup {h} = F \ Out /\ counted = 0
          BY <3>1, <4>1
        <5>2. Cardinality(F \ Out) \in Nat
          BY <2>3, FS_CardinalityType
        <5>3. Cardinality((F \ Out) \cup {h}) = Cardinality(F \ Out)
          BY <5>1
        <5> QED
          BY <5>1, <5>2, <5>3
      <4>2. CASE h \notin DOMAIN book
        <5>1. h \notin F \ Out /\ counted = 1
          BY <3>1, <4>2
        <5> QED
          BY <2>3, <5>1, FS_AddElement
      <4> QED
        BY <4>1, <4>2
  <2>8. totalFresh' = Cardinality((DOMAIN book \ isUsed)')
    <3>1. counted \in {0, 1}
      OBVIOUS
    <3>2. Cardinality((DOMAIN book \ isUsed)') = Cardinality(F) - Cardinality(Out) + counted
      BY <2>3, <2>5, <2>7
    <3>3. totalFresh' = Cardinality(F) + counted - Cardinality(Out)
      BY <1>3, <2>1
    <3> HIDE DEF F, Out
    <3> QED
      BY <2>4, <3>1, <3>2, <3>3
  <2> QED
    BY <1>1, <2>1, <2>6, <2>8 DEF Totals
<1>11. Sizes'
  <2>1. \A c \in Buckets : Cardinality(fresh[c]) <= MaxEntries /\ Cardinality(used[c]) <= MaxEntries
    BY DEF BookInv, Sizes
  <2>2. Cardinality(fresh'[b]) <= MaxEntries
    <3>1. fresh'[b] = (fresh[b] \ gone) \cup {h} /\ h \notin fresh[b] \ gone
      BY <1>1, <1>5
    <3>2. IsFiniteSet(gone) /\ fresh[b] \cap gone = gone
      BY <1>4, <1>6, FS_Subset
    <3>3. /\ IsFiniteSet(fresh[b] \ gone)
          /\ Cardinality(fresh[b] \ gone) = Cardinality(fresh[b]) - Cardinality(gone)
      BY <1>6, <3>2, FS_Difference
    <3>4. Cardinality(fresh'[b]) = Cardinality(fresh[b] \ gone) + 1
      BY <3>1, <3>3, FS_AddElement
    <3>5. Cardinality(gone) \in Nat /\ Cardinality(fresh[b]) \in Nat /\ (gone # {} => Cardinality(gone) # 0)
      BY <1>6, <3>2, FS_CardinalityType, FS_EmptySet
    <3> QED
      BY <1>4, <2>1, <3>3, <3>4, <3>5 DEF BookOptions
  <2>3. \A c \in Buckets \ {b} : fresh'[c] = fresh[c]
    BY <1>1, <1>5
  <2> QED
    BY <1>1, <2>1, <2>2, <2>3 DEF Sizes
<1> QED
  BY <1>8, <1>9, <1>10, <1>11 DEF BookInv

LEMMA AddKeeps ==
  ASSUME BookOptions, BookInv, NEW h \in Hosts, Addresses!Add(h) \/ Addresses!AddAgain(h)
  PROVE  BookInv'
<1>1. /\ DOMAIN book \subseteq Hosts /\ \A k \in DOMAIN book : book[k] \in Buckets
      /\ Entry(h) /\ MaxRefs \in Nat \ {0}
  BY DEF BookInv, BookTypes, BookOptions
<1>2. CASE Addresses!Add(h)
  <2>1. PICK b \in Buckets : Addresses!Put(h, b, 1)
    BY <1>2 DEF Addresses!Add
  <2>2. h \notin DOMAIN book
    BY <1>2 DEF Addresses!Add
  <2>3. InFresh(h) = {} /\ h \notin isUsed
    BY <1>1, <2>2 DEF Entry
  <2>4. refs[h] = 0
    BY <1>1, <2>3, FS_EmptySet DEF Entry
  <2>5. refs[h] < MaxRefs
    BY <1>1, <2>4
  <2>6. h \notin fresh[b]
    BY <2>3 DEF InFresh
  <2> QED
    BY <2>1, <2>2, <2>3, <2>5, <2>6, PutKeeps
<1>3. CASE Addresses!AddAgain(h)
  <2>1. /\ h \in DOMAIN book \ isUsed /\ refs[h] < MaxRefs /\ h \notin fresh[book[h]]
        /\ Addresses!Put(h, book[h], 0)
    BY <1>3 DEF Addresses!AddAgain
  <2>2. book[h] \in Buckets
    BY <1>1, <2>1
  <2> QED
    BY <2>1, <2>2, PutKeeps
<1> QED
  BY <1>2, <1>3

LEMMA RemoveKeeps ==
  ASSUME BookOptions, BookInv, NEW h \in Hosts, Addresses!Remove(h)
  PROVE  BookInv'
<1>1. /\ h \in DOMAIN book /\ DOMAIN book' = DOMAIN book \ {h}
      /\ \A k \in DOMAIN book' : book'[k] = book[k]
  BY DEF Addresses!Remove, Addresses!Restrict
<1>2. \/ /\ h \in isUsed
         /\ used' = [b \in Buckets |-> used[b] \ {h}]
         /\ totalUsed' = totalUsed - 1 /\ isUsed' = isUsed \ {h}
         /\ UNCHANGED <<fresh, refs, totalFresh>>
      \/ /\ h \notin isUsed
         /\ fresh' = [b \in Buckets |-> fresh[b] \ {h}] /\ refs' = [refs EXCEPT ![h] = 0]
         /\ totalFresh' = totalFresh - 1
         /\ UNCHANGED <<used, isUsed, totalUsed>>
  BY DEF Addresses!Remove
<1>3. BookTypes
  BY DEF BookInv
<1>4. BookTypes'
  BY <1>1, <1>2, <1>3 DEF BookTypes
<1>5. \A k \in Hosts : Entry(k)
  BY DEF BookInv
<1>6. \A k \in Hosts \ {h} :
        InFresh(k)' = InFresh(k) /\ InUsed(k)' = InUsed(k) /\ refs'[k] = refs[k]
  BY <1>2, <1>3 DEF InFresh, InUsed, BookTypes
<1>7. InFresh(h)' = {} /\ InUsed(h)' = {} /\ refs'[h] = 0 /\ h \notin isUsed'
  <2>1. CASE h \in isUsed
    <3>1. refs[h] = Cardinality(InFresh(h)) /\ refs[h] = 0
      BY <1>3, <1>5, <2>1 DEF Entry, BookTypes
    <3>2. InFresh(h) = {}
      BY <3>1, BookFinite, FS_EmptySet
    <3> QED
      BY <1>2, <1>3, <2>1, <3>1, <3>2 DEF InFresh, InUsed, BookTypes
  <2>2. CASE h \notin isUsed
    <3>1. InUsed(h) = {}
      BY <1>5, <2>2 DEF Entry
    <3> QED
      BY <1>2, <1>3, <2>2, <3>1 DEF InFresh, InUsed, BookTypes
  <2> QED
    BY <2>1, <2>2
<1>8. ASSUME NEW k \in Hosts PROVE Entry(k)'
  <2>1. CASE k = h
    <3>1. InFresh(k)' = {} /\ InUsed(k)' = {} /\ refs'[k] = 0 /\ k \notin isUsed' /\ k \notin DOMAIN book'
      BY <1>1, <1>7, <2>1
    <3>2. Cardinality(InFresh(k)') = 0
      BY <3>1, FS_EmptySet
    <3>3. 0 <= MaxRefs
      BY DEF BookOptions
    <3> QED
      BY <3>1, <3>2, <3>3 DEF Entry
  <2>2. CASE k # h
    <3>1. Entry(k) /\ (k \in isUsed' <=> k \in isUsed) /\ (k \in DOMAIN book' <=> k \in DOMAIN book)
      BY <1>1, <1>2, <1>5, <2>2
    <3> QED
      BY <1>6, <2>2, <3>1 DEF Entry
  <2> QED
    BY <2>1, <2>2
<1>9. Totals'
  <2>1. /\ IsFiniteSet(DOMAIN book) /\ IsFiniteSet(DOMAIN book \ isUsed) /\ IsFiniteSet(isUsed)
        /\ totalUsed = Cardinality(isUsed) /\ totalFresh = Cardinality(DOMAIN book \ isUsed)
    BY BookFinite, FS_Subset DEF BookInv, Totals
  <2>2. IsFiniteSet(DOMAIN book')
    BY <1>1, <2>1, FS_RemoveElement
  <2>3. CASE h \in isUsed
    <3>1. (DOMAIN book \ isUsed)' = DOMAIN book \ isUsed
      BY <1>1, <1>2, <2>3
    <3> QED
      BY <1>2, <2>1, <2>2, <2>3, <3>1, FS_RemoveElement DEF Totals
  <2>4. CASE h \notin isUsed
    <3>1. (DOMAIN book \ isUsed)' = (DOMAIN book \ isUsed) \ {h} /\ h \in DOMAIN book \ isUsed
      BY <1>1, <1>2, <2>4
    <3> QED
      BY <1>2, <2>1, <2>2, <2>4, <3>1, FS_RemoveElement DEF Totals
  <2> QED
    BY <2>3, <2>4
<1>10. Sizes'
  <2> SUFFICES ASSUME NEW b \in Buckets
               PROVE  Cardinality(fresh'[b]) <= MaxEntries /\ Cardinality(used'[b]) <= MaxEntries
    BY DEF Sizes
  <2>1. fresh'[b] \subseteq fresh[b] /\ used'[b] \subseteq used[b]
    BY <1>2, <1>3 DEF BookTypes
  <2>2. /\ IsFiniteSet(fresh[b]) /\ IsFiniteSet(used[b])
        /\ Cardinality(fresh[b]) <= MaxEntries /\ Cardinality(used[b]) <= MaxEntries
    BY BookFinite DEF BookInv, Sizes
  <2>3. /\ IsFiniteSet(fresh'[b]) /\ Cardinality(fresh'[b]) <= Cardinality(fresh[b])
        /\ IsFiniteSet(used'[b]) /\ Cardinality(used'[b]) <= Cardinality(used[b])
    BY <2>1, <2>2, FS_Subset
  <2>4. /\ Cardinality(fresh'[b]) \in Nat /\ Cardinality(fresh[b]) \in Nat
        /\ Cardinality(used'[b]) \in Nat /\ Cardinality(used[b]) \in Nat
    BY <2>2, <2>3, FS_CardinalityType
  <2> QED
    BY <2>2, <2>3, <2>4 DEF BookOptions
<1> QED
  BY <1>4, <1>8, <1>9, <1>10 DEF BookInv

(* What is read from the file again is what was written.                   *)
LEMMA ReloadKeeps ==
  ASSUME BookOptions, BookInv, Addresses!Reload
  PROVE  UNCHANGED <<book, fresh, used, refs, isUsed, totalFresh, totalUsed>>
<1>1. /\ refs' = [h \in Hosts |-> Cardinality(InFresh(h))]
      /\ isUsed' = UNION {used[b] : b \in Buckets}
      /\ totalFresh' = Cardinality(UNION {fresh[b] : b \in Buckets})
      /\ totalUsed' = Cardinality(UNION {used[b] : b \in Buckets})
      /\ UNCHANGED <<book, fresh, used>>
  BY SameCardinality DEF Addresses!Reload, InFresh
<1>2. refs' = refs
  <2>1. refs \in [Hosts -> Nat] /\ \A h \in Hosts : refs[h] = Cardinality(InFresh(h))
    BY DEF BookInv, BookTypes, Entry
  <2> QED
    BY <1>1, <2>1
<1>3. UNION {used[b] : b \in Buckets} = isUsed
  <2>1. \A b \in Buckets : used[b] \subseteq isUsed
    BY BookFinite
  <2>2. ASSUME NEW h \in isUsed PROVE \E b \in Buckets : h \in used[b]
    <3>1. h \in Hosts /\ InUsed(h) # {}
      BY <2>2 DEF BookInv, BookTypes, Entry
    <3> QED
      BY <3>1 DEF InUsed
  <2> QED
    BY <2>1, <2>2
<1>4. UNION {fresh[b] : b \in Buckets} = DOMAIN book \ isUsed
  <2>1. \A b \in Buckets : fresh[b] \subseteq DOMAIN book \ isUsed
    BY BookFinite
  <2>2. ASSUME NEW h \in DOMAIN book \ isUsed PROVE \E b \in Buckets : h \in fresh[b]
    <3>1. h \in Hosts
      BY DEF BookInv, BookTypes
    <3>2. InFresh(h) # {}
      BY <2>2, <3>1 DEF BookInv, Entry
    <3> QED
      BY <3>2 DEF InFresh
  <2> QED
    BY <2>1, <2>2
<1> QED
  BY <1>1, <1>2, <1>3, <1>4 DEF BookInv, Totals

(* A host that shook hands goes to its used bucket, where it may take the  *)

(* place of another one, which is let back into a fresh one.               *)
LEMMA MarkAckKeeps ==
  ASSUME BookOptions, BookInv, NEW h \in Hosts, Addresses!MarkAck(h),
         \A S : S \subseteq Buckets /\ S # {} => \E m \in S : \A n \in S : n <= m
  PROVE  BookInv'
<1> DEFINE left == [b \in Buckets |-> fresh[b] \ {h}]
           old == CHOOSE b \in Buckets : h \in fresh[b] /\ \A c \in Buckets : h \in fresh[c] => c <= b
           mine == UsedBucket[h]
<1>1. h \in DOMAIN book \ isUsed /\ book' = book /\ mine \in Buckets
  BY DEF Addresses!MarkAck, BookOptions
<1>2. BookTypes /\ (\A k \in Hosts : Entry(k)) /\ Totals /\ Sizes
  BY DEF BookInv
<1>3. /\ DOMAIN book \subseteq Hosts /\ \A k \in DOMAIN book : book[k] \in Buckets
      /\ fresh \in [Buckets -> SUBSET Hosts] /\ used \in [Buckets -> SUBSET Hosts]
      /\ refs \in [Hosts -> Nat] /\ isUsed \subseteq Hosts
  BY <1>2 DEF BookTypes
<1>4. \/ /\ Cardinality(used[mine]) < MaxEntries
         /\ used' = [used EXCEPT ![mine] = @ \cup {h}]
         /\ fresh' = left /\ refs' = [refs EXCEPT ![h] = 0]
         /\ isUsed' = isUsed \cup {h}
         /\ totalFresh' = totalFresh - 1 /\ totalUsed' = totalUsed + 1
      \/ /\ \E evicted \in used[mine] :
              LET b == IF Cardinality(left[book[evicted]]) < MaxEntries
                       THEN book[evicted] ELSE old
              IN  /\ used' = [used EXCEPT ![mine] = (@ \ {evicted}) \cup {h}]
                  /\ fresh' = [left EXCEPT ![b] = @ \cup {evicted}]
                  /\ refs' = [refs EXCEPT ![h] = 0, ![evicted] = @ + 1]
                  /\ isUsed' = (isUsed \cup {h}) \ {evicted}
         /\ UNCHANGED <<totalFresh, totalUsed>>
  <2>1. \A S : Addresses!Cardinality(S) = Cardinality(S)
    BY SameCardinality
  <2>2. \/ /\ Addresses!Cardinality(used[mine]) < MaxEntries
           /\ used' = [used EXCEPT ![mine] = @ \cup {h}]
           /\ fresh' = left /\ refs' = [refs EXCEPT ![h] = 0]
           /\ isUsed' = isUsed \cup {h}
           /\ totalFresh' = totalFresh - 1 /\ totalUsed' = totalUsed + 1
        \/ /\ \E evicted \in used[mine] :
                LET b == IF Addresses!Cardinality(left[book[evicted]]) < MaxEntries
                         THEN book[evicted] ELSE old
                IN  /\ used' = [used EXCEPT ![mine] = (@ \ {evicted}) \cup {h}]
                    /\ fresh' = [left EXCEPT ![b] = @ \cup {evicted}]
                    /\ refs' = [refs EXCEPT ![h] = 0, ![evicted] = @ + 1]
                    /\ isUsed' = (isUsed \cup {h}) \ {evicted}
           /\ UNCHANGED <<totalFresh, totalUsed>>
    BY DEF Addresses!MarkAck
  <2> HIDE DEF left, old, mine
  <2>3. /\ Addresses!Cardinality(used[mine]) = Cardinality(used[mine])
        /\ \A k : Addresses!Cardinality(left[book[k]]) = Cardinality(left[book[k]])
    BY <2>1
  <2> QED
    BY <2>2, <2>3
<1>5. /\ IsFiniteSet(DOMAIN book) /\ IsFiniteSet(isUsed) /\ IsFiniteSet(DOMAIN book \ isUsed)
      /\ totalUsed = Cardinality(isUsed) /\ totalFresh = Cardinality(DOMAIN book \ isUsed)
      /\ isUsed \subseteq DOMAIN book
  BY <1>1, BookFinite, FS_Subset DEF BookInv, Totals
<1>6. /\ \A b \in Buckets : IsFiniteSet(fresh[b]) /\ IsFiniteSet(used[b]) /\ used[b] \subseteq isUsed
      /\ \A b \in Buckets : fresh[b] \subseteq DOMAIN book \ isUsed
      /\ \A b \in Buckets : Cardinality(fresh[b]) <= MaxEntries /\ Cardinality(used[b]) <= MaxEntries
      /\ MaxEntries \in Nat \ {0} /\ MaxRefs \in Nat \ {0}
  BY <1>2, BookFinite DEF Sizes, BookOptions
<1>7. InUsed(h) = {} /\ InFresh(h) # {}
  BY <1>1, <1>2, <1>3 DEF Entry
<1>8. /\ left \in [Buckets -> SUBSET Hosts] /\ \A b \in Buckets : left[b] = fresh[b] \ {h}
  BY <1>3
<1>9. \A b \in Buckets : /\ IsFiniteSet(left[b]) /\ Cardinality(left[b]) <= MaxEntries
                         /\ h \in fresh[b] => Cardinality(left[b]) < MaxEntries
  <2> SUFFICES ASSUME NEW b \in Buckets
               PROVE  /\ IsFiniteSet(fresh[b] \ {h}) /\ Cardinality(fresh[b] \ {h}) <= MaxEntries
                      /\ h \in fresh[b] => Cardinality(fresh[b] \ {h}) < MaxEntries
    BY <1>8
  <2>1. /\ IsFiniteSet(fresh[b] \ {h})
        /\ Cardinality(fresh[b] \ {h}) = IF h \in fresh[b] THEN Cardinality(fresh[b]) - 1
                                         ELSE Cardinality(fresh[b])
    BY <1>6, FS_RemoveElement
  <2>2. Cardinality(fresh[b]) \in Nat
    BY <1>6, FS_CardinalityType
  <2> QED
    BY <1>6, <2>1, <2>2
<1>10. CASE /\ Cardinality(used[mine]) < MaxEntries
            /\ used' = [used EXCEPT ![mine] = @ \cup {h}]
            /\ fresh' = left /\ refs' = [refs EXCEPT ![h] = 0]
            /\ isUsed' = isUsed \cup {h}
            /\ totalFresh' = totalFresh - 1 /\ totalUsed' = totalUsed + 1
  <2> HIDE DEF left, old, mine
  <2>1. used' \in [Buckets -> SUBSET Hosts] /\ used'[mine] = used[mine] \cup {h}
        /\ \A b \in Buckets \ {mine} : used'[b] = used[b]
    BY <1>1, <1>3, <1>10
  <2>2. BookTypes'
    BY <1>1, <1>3, <1>8, <1>10, <2>1 DEF BookTypes
  <2>3. ASSUME NEW k \in Hosts PROVE Entry(k)'
    <3>1. Entry(k) /\ refs[k] \in Nat
      BY <1>2, <1>3
    <3>2. CASE k = h
      <4>1. InFresh(h)' = {} /\ InUsed(h)' = {mine} /\ refs'[h] = 0 /\ h \in isUsed'
        BY <1>1, <1>3, <1>7, <1>8, <1>10, <2>1 DEF InFresh, InUsed
      <4>2. Cardinality(InFresh(h)') = 0 /\ 0 <= MaxRefs
        BY <1>6, <4>1, FS_EmptySet
      <4>3. mine = UsedBucket[h]
        BY DEF mine
      <4> QED
        BY <1>1, <3>2, <4>1, <4>2, <4>3 DEF Entry
    <3>3. CASE k # h
      <4>1. InFresh(k)' = InFresh(k) /\ InUsed(k)' = InUsed(k) /\ refs'[k] = refs[k]
        BY <1>1, <1>3, <1>8, <1>10, <2>1, <3>3 DEF InFresh, InUsed
      <4> QED
        BY <1>1, <1>10, <3>1, <3>3, <4>1 DEF Entry
    <3> QED
      BY <3>2, <3>3
  <2>4. Totals'
    <3>1. (DOMAIN book \ isUsed)' = (DOMAIN book \ isUsed) \ {h} /\ h \in DOMAIN book \ isUsed
      BY <1>1, <1>10
    <3>2. Cardinality(isUsed') = Cardinality(isUsed) + 1
      <4>1. isUsed' = isUsed \cup {h} /\ h \notin isUsed
        BY <1>1, <1>10
      <4> QED
        BY <1>5, <4>1, FS_AddElement
    <3>3. Cardinality((DOMAIN book \ isUsed)') = Cardinality(DOMAIN book \ isUsed) - 1
      <4>1. /\ IsFiniteSet((DOMAIN book \ isUsed) \ {h})
            /\ Cardinality((DOMAIN book \ isUsed) \ {h}) = Cardinality(DOMAIN book \ isUsed) - 1
        BY <1>5, <3>1, FS_RemoveElement
      <4> QED
        BY <3>1, <4>1
    <3>4. totalFresh' = Cardinality((DOMAIN book \ isUsed)') /\ totalUsed' = Cardinality(isUsed')
      BY <1>5, <1>10, <3>2, <3>3
    <3> QED
      BY <1>1, <1>5, <3>4 DEF Totals
  <2>5. Sizes'
    <3>1. Cardinality(used[mine] \cup {h}) <= MaxEntries
      <4>1. h \notin used[mine]
        BY <1>1, <1>6
      <4>2. Cardinality(used[mine] \cup {h}) = Cardinality(used[mine]) + 1 /\ Cardinality(used[mine]) \in Nat
        BY <1>1, <1>6, <4>1, FS_AddElement, FS_CardinalityType
      <4> QED
        BY <1>6, <1>10, <4>2
    <3> QED
      BY <1>6, <1>9, <1>10, <2>1, <3>1 DEF Sizes
  <2> QED
    BY <2>2, <2>3, <2>4, <2>5 DEF BookInv
<1>11. CASE /\ \E evicted \in used[mine] :
                 LET b == IF Cardinality(left[book[evicted]]) < MaxEntries
                          THEN book[evicted] ELSE old
                 IN  /\ used' = [used EXCEPT ![mine] = (@ \ {evicted}) \cup {h}]
                     /\ fresh' = [left EXCEPT ![b] = @ \cup {evicted}]
                     /\ refs' = [refs EXCEPT ![h] = 0, ![evicted] = @ + 1]
                     /\ isUsed' = (isUsed \cup {h}) \ {evicted}
            /\ UNCHANGED <<totalFresh, totalUsed>>
  <2>1. old \in Buckets /\ h \in fresh[old]
    <3>1. InFresh(h) \subseteq Buckets
      BY DEF InFresh
    <3>2. PICK m \in InFresh(h) : \A n \in InFresh(h) : n <= m
      BY <1>7, <3>1
    <3>3. m \in Buckets /\ h \in fresh[m] /\ \A c \in Buckets : h \in fresh[c] => c <= m
      BY <3>2 DEF InFresh
    <3> QED
      BY <3>3
  <2> HIDE DEF left, old, mine
  <2>2. PICK evicted \in used[mine] :
          LET b == IF Cardinality(left[book[evicted]]) < MaxEntries THEN book[evicted] ELSE old
          IN  /\ used' = [used EXCEPT ![mine] = (@ \ {evicted}) \cup {h}]
              /\ fresh' = [left EXCEPT ![b] = @ \cup {evicted}]
              /\ refs' = [refs EXCEPT ![h] = 0, ![evicted] = @ + 1]
              /\ isUsed' = (isUsed \cup {h}) \ {evicted}
    BY <1>11
  <2> DEFINE b == IF Cardinality(left[book[evicted]]) < MaxEntries THEN book[evicted] ELSE old
  <2>3. /\ evicted \in isUsed /\ evicted \in DOMAIN book /\ evicted \in Hosts /\ evicted # h
        /\ mine \in InUsed(evicted)
    BY <1>1, <1>5, <1>6, <1>3, <2>2 DEF InUsed
  <2>4. b \in Buckets /\ Cardinality(left[b]) < MaxEntries
    BY <1>3, <1>9, <2>1, <2>3
  <2>5. /\ used' = [used EXCEPT ![mine] = (@ \ {evicted}) \cup {h}]
        /\ fresh' = [left EXCEPT ![b] = @ \cup {evicted}]
        /\ refs' = [refs EXCEPT ![h] = 0, ![evicted] = @ + 1]
        /\ isUsed' = (isUsed \cup {h}) \ {evicted}
        /\ UNCHANGED <<totalFresh, totalUsed>>
    BY <1>11, <2>2
  <2> HIDE DEF b
  <2>6. /\ InUsed(evicted) = {mine} /\ InFresh(evicted) = {} /\ refs[evicted] = 0
    <3>1. Entry(evicted)
      BY <1>2, <2>3
    <3>2. InUsed(evicted) = {mine} /\ refs[evicted] = 0 /\ Cardinality(InFresh(evicted)) = 0
      BY <2>3, <3>1 DEF Entry
    <3> QED
      BY <3>2, BookFinite, FS_EmptySet
  <2>7. /\ used' \in [Buckets -> SUBSET Hosts] /\ used'[mine] = (used[mine] \ {evicted}) \cup {h}
        /\ \A c \in Buckets \ {mine} : used'[c] = used[c]
        /\ fresh' \in [Buckets -> SUBSET Hosts] /\ fresh'[b] = left[b] \cup {evicted}
        /\ \A c \in Buckets \ {b} : fresh'[c] = left[c]
        /\ refs' \in [Hosts -> Nat] /\ refs'[h] = 0 /\ refs'[evicted] = 1
        /\ \A k \in Hosts \ {h, evicted} : refs'[k] = refs[k]
    BY <1>1, <1>3, <1>8, <2>3, <2>4, <2>5, <2>6
  <2>8. BookTypes'
    BY <1>1, <1>3, <2>3, <2>5, <2>7 DEF BookTypes
  <2>9. ASSUME NEW k \in Hosts PROVE Entry(k)'
    <3>1. Entry(k) /\ refs[k] \in Nat
      BY <1>2, <1>3
    <3>2. CASE k = h
      <4>1. InFresh(h)' = {} /\ InUsed(h)' = {mine} /\ h \in isUsed'
        BY <1>1, <1>7, <1>8, <2>3, <2>4, <2>5, <2>7 DEF InFresh, InUsed
      <4>2. Cardinality(InFresh(h)') = 0 /\ 0 <= MaxRefs
        BY <1>6, <4>1, FS_EmptySet
      <4>3. mine = UsedBucket[h]
        BY DEF mine
      <4> QED
        BY <1>1, <2>7, <3>2, <4>1, <4>2, <4>3 DEF Entry
    <3>3. CASE k = evicted
      <4>1. InFresh(evicted)' = {b} /\ InUsed(evicted)' = {} /\ evicted \notin isUsed'
        BY <1>8, <2>3, <2>4, <2>5, <2>6, <2>7 DEF InFresh, InUsed
      <4>2. Cardinality(InFresh(evicted)') = 1
        BY <4>1, FS_Singleton
      <4>3. 1 <= MaxRefs
        BY <1>6
      <4> QED
        BY <1>1, <2>3, <2>7, <3>3, <4>1, <4>2, <4>3 DEF Entry
    <3>4. CASE k # h /\ k # evicted
      <4>1. InFresh(k)' = InFresh(k) /\ InUsed(k)' = InUsed(k) /\ refs'[k] = refs[k]
        BY <1>1, <1>8, <2>4, <2>7, <3>4 DEF InFresh, InUsed
      <4> QED
        BY <1>1, <2>5, <3>1, <3>4, <4>1 DEF Entry
    <3> QED
      BY <3>2, <3>3, <3>4
  <2>10. Totals'
    <3>1. /\ isUsed' = (isUsed \ {evicted}) \cup {h} /\ h \notin isUsed \ {evicted}
          /\ (DOMAIN book \ isUsed)' = ((DOMAIN book \ isUsed) \ {h}) \cup {evicted}
          /\ evicted \notin (DOMAIN book \ isUsed) \ {h} /\ h \in DOMAIN book \ isUsed
      BY <1>1, <2>3, <2>5
    <3>2. Cardinality(isUsed) \in Nat /\ Cardinality(DOMAIN book \ isUsed) \in Nat
      BY <1>5, FS_CardinalityType
    <3>3. /\ IsFiniteSet(isUsed \ {evicted}) /\ Cardinality(isUsed \ {evicted}) = Cardinality(isUsed) - 1
          /\ IsFiniteSet((DOMAIN book \ isUsed) \ {h})
          /\ Cardinality((DOMAIN book \ isUsed) \ {h}) = Cardinality(DOMAIN book \ isUsed) - 1
      BY <1>5, <2>3, <3>1, FS_RemoveElement
    <3>4. /\ Cardinality(isUsed') = Cardinality(isUsed \ {evicted}) + 1
          /\ Cardinality((DOMAIN book \ isUsed)') = Cardinality((DOMAIN book \ isUsed) \ {h}) + 1
      BY <3>1, <3>3, FS_AddElement
    <3>5. /\ Cardinality(isUsed') = Cardinality(isUsed)
          /\ Cardinality((DOMAIN book \ isUsed)') = Cardinality(DOMAIN book \ isUsed)
      BY <3>2, <3>3, <3>4
    <3> QED
      BY <1>1, <1>5, <2>5, <3>5 DEF Totals
  <2>11. Sizes'
    <3>1. Cardinality((used[mine] \ {evicted}) \cup {h}) <= MaxEntries
      <4>1. h \notin used[mine] \ {evicted} /\ IsFiniteSet(used[mine])
        BY <1>1, <1>6
      <4>2. /\ IsFiniteSet(used[mine] \ {evicted})
            /\ Cardinality(used[mine] \ {evicted}) = Cardinality(used[mine]) - 1
        BY <2>2, <4>1, FS_RemoveElement
      <4>3. Cardinality((used[mine] \ {evicted}) \cup {h}) = Cardinality(used[mine] \ {evicted}) + 1
        BY <4>1, <4>2, FS_AddElement
      <4>4. Cardinality(used[mine]) \in Nat
        BY <4>1, FS_CardinalityType
      <4> QED
        BY <1>1, <1>6, <4>2, <4>3, <4>4
    <3>2. Cardinality(left[b] \cup {evicted}) <= MaxEntries
      <4>1. evicted \notin left[b] /\ IsFiniteSet(left[b])
        BY <1>6, <1>8, <1>9, <2>3, <2>4
      <4>2. Cardinality(left[b] \cup {evicted}) = Cardinality(left[b]) + 1 /\ Cardinality(left[b]) \in Nat
        BY <4>1, FS_AddElement, FS_CardinalityType
      <4> QED
        BY <1>6, <2>4, <4>2
    <3> QED
      BY <1>6, <1>9, <2>7, <3>1, <3>2 DEF Sizes
  <2> QED
    BY <2>8, <2>9, <2>10, <2>11 DEF BookInv
<1> QED
  BY <1>4, <1>10, <1>11

(* The address book, its buckets and its totals agree (BookKept of module  *)
(* HostList): for any number of hosts, buckets and entries in a bucket, so *)
(* that no assertion of the book fails and getHost, which draws until it   *)
(* finds a host, finds one where the totals promise one.                   *)
THEOREM BookCorrect == BookOptions => (Addresses!Spec => []BookKept)
<1> SUFFICES ASSUME BookOptions PROVE Addresses!Spec => []BookKept
  OBVIOUS
<1>1. Addresses!Init => BookInv
  <2> SUFFICES ASSUME Addresses!Init PROVE BookInv
    OBVIOUS
  <2>1. /\ DOMAIN book = {} /\ fresh = [b \in Buckets |-> {}] /\ used = [b \in Buckets |-> {}]
        /\ refs = [h \in Hosts |-> 0] /\ isUsed = {} /\ totalFresh = 0 /\ totalUsed = 0
    BY DEF Addresses!Init
  <2>2. IsFiniteSet({}) /\ Cardinality({}) = 0 /\ DOMAIN book \ isUsed = {}
    BY <2>1, FS_EmptySet
  <2>3. MaxEntries \in Nat \ {0} /\ MaxRefs \in Nat \ {0}
    BY DEF BookOptions
  <2>4. \A h \in Hosts : InFresh(h) = {} /\ InUsed(h) = {} /\ refs[h] = 0
    BY <2>1 DEF InFresh, InUsed
  <2>5. ASSUME NEW h \in Hosts PROVE Entry(h)
    <3>1. /\ InFresh(h) = {} /\ InUsed(h) = {} /\ refs[h] = 0
          /\ h \notin DOMAIN book /\ h \notin isUsed
      BY <2>1, <2>4
    <3>2. Cardinality(InFresh(h)) = 0 /\ 0 <= MaxRefs
      BY <2>2, <2>3, <3>1
    <3> QED
      BY <3>1, <3>2 DEF Entry
  <2>6. Sizes
    BY <2>1, <2>2, <2>3 DEF Sizes
  <2> QED
    BY <2>1, <2>2, <2>5, <2>6 DEF BookInv, BookTypes, Totals
<1>2. ASSUME NEW S, S \subseteq Buckets, S # {} PROVE \E m \in S : \A n \in S : n <= m
  <2>1. PICK N \in Nat : Buckets = 1..N
    BY DEF BookOptions
  <2> DEFINE Down == {N - n : n \in S}
  <2>2. Down \subseteq Nat /\ Down # {}
    <3>1. ASSUME NEW n \in S PROVE N - n \in Nat
      <4>1. n \in 1..N
        BY <1>2, <2>1
      <4> QED
        BY <4>1
    <3>2. PICK n \in S : TRUE
      BY <1>2
    <3>3. N - n \in Down
      OBVIOUS
    <3> QED
      BY <3>1, <3>3
  <2>3. PICK d \in Down : \A e \in Down : d <= e
    BY <2>2, LeastNumber
  <2>4. PICK m \in S : d = N - m
    OBVIOUS
  <2>5. ASSUME NEW n \in S PROVE n <= m
    <3>1. N - n \in Down
      OBVIOUS
    <3>2. N - m <= N - n
      BY <2>3, <2>4, <3>1
    <3> QED
      BY <1>2, <2>1, <3>2
  <2> QED
    BY <2>5
<1>3. BookInv /\ [Addresses!Next]_(Addresses!vars) => BookInv'
  <2> SUFFICES ASSUME BookInv, [Addresses!Next]_(Addresses!vars) PROVE BookInv'
    OBVIOUS
  <2>1. CASE \E h \in Hosts : Addresses!Add(h) \/ Addresses!AddAgain(h)
    BY <2>1, AddKeeps
  <2>2. CASE \E h \in Hosts : Addresses!Remove(h)
    BY <2>2, RemoveKeeps
  <2>3. CASE \E h \in Hosts : Addresses!MarkAck(h)
    BY <1>2, <2>3, MarkAckKeeps
  <2>4. CASE UNCHANGED <<book, fresh, used, refs, isUsed, totalFresh, totalUsed>>
    <3>1. BookTypes' /\ Totals' /\ Sizes'
      BY <2>4 DEF BookInv, BookTypes, Totals, Sizes
    <3>2. ASSUME NEW h \in Hosts PROVE Entry(h)'
      <4>1. Entry(h)
        BY DEF BookInv
      <4>2. InFresh(h)' = InFresh(h) /\ InUsed(h)' = InUsed(h)
        BY <2>4 DEF InFresh, InUsed
      <4> QED
        BY <2>4, <4>1, <4>2 DEF Entry
    <3> QED
      BY <3>1, <3>2 DEF BookInv
  <2>5. CASE Addresses!Reload
    BY <2>4, <2>5, ReloadKeeps
  <2> QED
    BY <2>1, <2>2, <2>3, <2>4, <2>5 DEF Addresses!Next, Addresses!vars
<1>4. BookInv => BookKept
  BY BookInvKeepsBook DEF BookKept
<1> QED
  BY <1>1, <1>3, <1>4, PTL DEF Addresses!Spec

-----------------------------------------------------------------------------
(* Headers first (module HeaderSync).                                      *)
(* The network has checkpoints, all of them on the chain that is served.   *)
NetworkOptions ==
  /\ Height \in Nat /\ Checkpoints \subseteq 1..Height /\ Checkpoints # {}
  /\ PacketSize \in Nat \ {0} /\ MaxRequest \in Nat \ {0}
  /\ MaxFails \in Nat \ {0} /\ MaxFaults \in Nat

LEMMA NetworkFacts ==
  ASSUME NetworkOptions
  PROVE  /\ Height \in Nat /\ 0 \in 0..Height
         /\ \A c \in Checkpoints : c \in Nat /\ c \in 1..Height
<1>1. Height \in Nat
  BY DEF NetworkOptions
<1>2. \A c \in Checkpoints : c \in 1..Height
  BY DEF NetworkOptions
<1> QED
  BY <1>1, <1>2

LEMMA LeastOf ==
  ASSUME NEW S, S \subseteq Nat, S # {}
  PROVE  Headers!Min(S) \in S /\ \A x \in S : Headers!Min(S) <= x
<1>1. \E m \in S : \A x \in S : m <= x
  BY LeastNumber
<1> QED
  BY <1>1, Zenon DEF Headers!Min

LEMMA GreatestOf ==
  ASSUME NEW n \in Nat, NEW S, S \subseteq 0..n, S # {}
  PROVE  Headers!Max(S) \in S /\ \A x \in S : Headers!Max(S) >= x
<1> DEFINE Down == {n - x : x \in S}
<1>1. Down \subseteq Nat /\ Down # {}
  <2>1. ASSUME NEW x \in S PROVE n - x \in Nat
    OBVIOUS
  <2>2. PICK x \in S : TRUE
    OBVIOUS
  <2>3. n - x \in Down
    OBVIOUS
  <2> QED
    BY <2>1, <2>3
<1>2. PICK d \in Down : \A e \in Down : d <= e
  BY <1>1, LeastNumber
<1>3. PICK m \in S : d = n - m
  OBVIOUS
<1>4. ASSUME NEW x \in S PROVE m >= x
  <2>1. n - x \in Down
    OBVIOUS
  <2>2. n - m <= n - x
    BY <1>2, <1>3, <2>1
  <2>3. m \in 0..n /\ x \in 0..n
    OBVIOUS
  <2> QED
    BY <2>2, <2>3
<1> QED
  BY <1>4, Zenon DEF Headers!Max

LEMMA LastOfCheckpoints ==
  ASSUME NetworkOptions
  PROVE  /\ Headers!LastCheckpoint \in Checkpoints /\ Headers!LastCheckpoint \in 1..Height
         /\ \A h \in 0..Height : h < Headers!LastCheckpoint =>
              Headers!NextTip(h) \in Checkpoints /\ h < Headers!NextTip(h)
<1>1. Checkpoints \subseteq 0..Height /\ Checkpoints # {} /\ Height \in Nat
  BY DEF NetworkOptions
<1>2. Headers!LastCheckpoint \in Checkpoints
  BY <1>1, GreatestOf DEF Headers!LastCheckpoint
<1>3. ASSUME NEW h \in 0..Height, h < Headers!LastCheckpoint
      PROVE  Headers!NextTip(h) \in Checkpoints /\ h < Headers!NextTip(h)
  <2> DEFINE S == {c \in Checkpoints : c > h}
  <2>1. Headers!LastCheckpoint \in Int /\ h \in Int
    BY <1>1, <1>2
  <2>2. S \subseteq Nat /\ S # {}
    <3>1. Headers!LastCheckpoint > h
      BY <1>3, <2>1
    <3>2. Headers!LastCheckpoint \in S
      BY <1>2, <3>1
    <3>3. \A c \in Checkpoints : c \in Nat
      BY <1>1
    <3> QED
      BY <3>2, <3>3
  <2>3. Headers!Min(S) \in S
    <3> HIDE DEF S
    <3> QED
      BY <2>2, LeastOf
  <2>4. Headers!NextTip(h) = Headers!Min(S)
    BY DEF Headers!NextTip
  <2>5. Headers!NextTip(h) \in Checkpoints /\ Headers!NextTip(h) > h
    <3>1. \A c \in S : c \in Checkpoints /\ c > h
      OBVIOUS
    <3> HIDE DEF S
    <3> QED
      BY <2>3, <2>4, <3>1
  <2> QED
    BY <1>1, <2>1, <2>5
<1> QED
  BY <1>2, <1>3 DEF NetworkOptions

-----------------------------------------------------------------------------
(* What the loader was asked: blocks, and headers from one height on.      *)
WireOK(w) ==
  /\ \E S : w \in Seq(S)
  /\ \A i \in DOMAIN w : w[i].op = "headers" => w[i].from \in 0..Height /\ w[i].stop \in Nat

BlocksOnly(w) == \A i \in DOMAIN w : w[i].op # "headers"

(* Its last entry, and no other one, asks for headers.                     *)
Asking(w, from, stop) ==
  /\ w # <<>> /\ w[Len(w)] = [op |-> "headers", from |-> from, stop |-> stop]
  /\ \A i \in 1..(Len(w) - 1) : w[i].op # "headers"

LEMMA WireEmpty == WireOK(<<>>) /\ BlocksOnly(<<>>)
<1>1. <<>> \in Seq({}) /\ DOMAIN <<>> = {}
  OBVIOUS
<1> QED
  BY <1>1 DEF WireOK, BlocksOnly

LEMMA WireHead ==
  ASSUME NEW w, WireOK(w), w # <<>>
  PROVE  /\ Head(w) = w[1] /\ Len(w) \in Nat \ {0} /\ DOMAIN w = 1..Len(w)
         /\ Head(w).op = "headers" => Head(w).from \in 0..Height /\ Head(w).stop \in Nat
<1>1. PICK S : w \in Seq(S)
  BY DEF WireOK
<1>2. Len(w) \in Nat \ {0} /\ DOMAIN w = 1..Len(w) /\ Head(w) = w[1]
  BY <1>1, EmptySeq, LenProperties
<1>3. 1 \in DOMAIN w
  BY <1>2
<1> QED
  BY <1>2, <1>3 DEF WireOK

LEMMA WireTail ==
  ASSUME NEW w, WireOK(w), w # <<>>
  PROVE  /\ WireOK(Tail(w)) /\ (BlocksOnly(w) => BlocksOnly(Tail(w)))
         /\ \A from, stop : Asking(w, from, stop) =>
              IF Len(w) = 1 THEN Tail(w) = <<>> ELSE w[1].op # "headers" /\ Asking(Tail(w), from, stop)
<1>1. PICK S : w \in Seq(S)
  BY DEF WireOK
<1>2. /\ Tail(w) \in Seq(S) /\ Len(Tail(w)) = Len(w) - 1 /\ Len(w) \in Nat \ {0}
      /\ \A i \in 1..Len(Tail(w)) : Tail(w)[i] = w[i + 1]
      /\ DOMAIN w = 1..Len(w) /\ DOMAIN Tail(w) = 1..Len(Tail(w))
  BY <1>1, HeadTailProperties, EmptySeq, LenProperties
<1> DEFINE t == Tail(w)
           n == Len(w)
<1>3. /\ t \in Seq(S) /\ Len(t) = n - 1 /\ n \in Nat \ {0} /\ DOMAIN w = 1..n /\ DOMAIN t = 1..(n - 1)
      /\ \A i \in 1..(n - 1) : t[i] = w[i + 1]
  BY <1>2
<1> HIDE DEF t, n
<1>4. ASSUME NEW i \in DOMAIN t PROVE i + 1 \in DOMAIN w /\ t[i] = w[i + 1]
  BY <1>3
<1>5. WireOK(t) /\ (BlocksOnly(w) => BlocksOnly(t))
  BY <1>3, <1>4 DEF WireOK, BlocksOnly
<1>6. ASSUME NEW from, NEW stop, Asking(w, from, stop)
      PROVE  IF n = 1 THEN t = <<>> ELSE w[1].op # "headers" /\ Asking(t, from, stop)
  <2>1. /\ w[n] = [op |-> "headers", from |-> from, stop |-> stop]
        /\ \A i \in 1..(n - 1) : w[i].op # "headers"
    BY <1>6 DEF Asking, n
  <2>2. CASE n = 1
    <3>1. Len(t) = 0
      BY <1>3, <2>2
    <3> QED
      BY <1>3, <2>2, <3>1, EmptySeq
  <2>3. CASE n # 1
    <3>1. n - 1 \in 1..(n - 1) /\ (n - 1) + 1 = n /\ 1 \in 1..(n - 1) /\ n - 1 # 0
      BY <1>3, <2>3
    <3>2. t[n - 1] = w[n] /\ w[1].op # "headers"
      BY <1>3, <2>1, <3>1
    <3>3. t # <<>>
      BY <1>3, <3>1, EmptySeq
    <3>4. ASSUME NEW i \in 1..((n - 1) - 1) PROVE t[i].op # "headers"
      <4>1. i \in 1..(n - 1) /\ i + 1 \in 1..(n - 1)
        BY <1>3
      <4> QED
        BY <1>3, <2>1, <4>1
    <3> QED
      BY <1>3, <2>1, <2>3, <3>2, <3>3, <3>4 DEF Asking
  <2> QED
    BY <2>2, <2>3
<1> QED
  BY <1>5, <1>6 DEF t, n

LEMMA WireAsk ==
  ASSUME NEW w, WireOK(w), NEW from \in 0..Height, NEW stop \in Nat
  PROVE  /\ WireOK(Headers!GetHeaders(w, from, stop))
         /\ BlocksOnly(w) => Asking(Headers!GetHeaders(w, from, stop), from, stop)
<1>1. PICK S : w \in Seq(S)
  BY DEF WireOK
<1> DEFINE e == [op |-> "headers", from |-> from, stop |-> stop]
           g == Append(w, e)
           n == Len(w)
<1>2. Headers!GetHeaders(w, from, stop) = g
  BY DEF Headers!GetHeaders
<1>3. w \in Seq(S \cup {e})
  BY <1>1
<1>4. n \in Nat /\ DOMAIN w = 1..n
  BY <1>1, LenProperties
<1>5. /\ g \in Seq(S \cup {e}) /\ g # <<>> /\ Len(g) = n + 1
      /\ (\A i \in 1..n : g[i] = w[i]) /\ g[n + 1] = e
  BY <1>3, AppendProperties
<1>6. DOMAIN g = 1..(n + 1)
  BY <1>5, LenProperties
<1>7. e.op = "headers" /\ e.from = from /\ e.stop = stop
  OBVIOUS
<1> HIDE DEF g, n, e
<1>8. ASSUME NEW i \in DOMAIN g, g[i].op = "headers" PROVE g[i].from \in 0..Height /\ g[i].stop \in Nat
  <2>1. CASE i \in 1..n
    BY <1>4, <1>5, <1>8, <2>1 DEF WireOK
  <2>2. CASE i = n + 1
    BY <1>5, <1>7, <2>2
  <2> QED
    BY <1>4, <1>6, <2>1, <2>2
<1>9. WireOK(g)
  BY <1>5, <1>8 DEF WireOK
<1>10. BlocksOnly(w) => Asking(g, from, stop)
  <2> SUFFICES ASSUME BlocksOnly(w) PROVE Asking(g, from, stop)
    OBVIOUS
  <2>1. (n + 1) - 1 = n
    BY <1>4
  <2>2. \A i \in 1..n : g[i].op # "headers"
    BY <1>4, <1>5 DEF BlocksOnly
  <2> QED
    BY <1>5, <2>1, <2>2 DEF Asking, e
<1> QED
  BY <1>2, <1>9, <1>10

LEMMA SameCardinality2 ==
  ASSUME NEW S
  PROVE  Headers!Cardinality(S) = Cardinality(S)
BY Zenon DEF Headers!Cardinality, Cardinality

(* What Asks appends are blocks (the order is of no concern here).         *)
LEMMA AsksAreBlocks ==
  ASSUME NEW heights
  PROVE  \E F : Headers!Asks(heights) =
                  [i \in 1..Headers!Cardinality(heights) |->
                     [op |-> "block", from |-> F[i], stop |-> 0]]
BY Zenon DEF Headers!Asks

LEMMA WireBlocks ==
  ASSUME NEW w, WireOK(w), NEW heights, IsFiniteSet(heights)
  PROVE  /\ WireOK(w \o Headers!Asks(heights))
         /\ BlocksOnly(w) => BlocksOnly(w \o Headers!Asks(heights))
<1>1. PICK S : w \in Seq(S)
  BY DEF WireOK
<1> DEFINE c == Headers!Cardinality(heights)
           a == Headers!Asks(heights)
<1>2. c \in Nat
  BY FS_CardinalityType, SameCardinality, SameCardinality2
<1>3. PICK F : a = [i \in 1..c |-> [op |-> "block", from |-> F[i], stop |-> 0]]
  BY AsksAreBlocks
<1> HIDE DEF a, c
<1> DEFINE R == {a[i] : i \in 1..c}
           n == Len(w)
           g == w \o a
<1>4. a \in Seq(S \cup R) /\ Len(a) = c /\ \A i \in 1..c : a[i].op # "headers"
  <2>1. a \in [1..c -> R]
    BY <1>3
  <2>2. a \in Seq(R) /\ Len(a) = c
    BY <1>2, <2>1
  <2>3. \A i \in 1..c : a[i].op = "block"
    BY <1>3
  <2> QED
    BY <2>2, <2>3
<1>5. w \in Seq(S \cup R) /\ n \in Nat /\ DOMAIN w = 1..n
  BY <1>1, LenProperties
<1>6. /\ g \in Seq(S \cup R) /\ Len(g) = n + c
      /\ \A i \in 1..(n + c) : g[i] = IF i <= n THEN w[i] ELSE a[i - n]
  <2> HIDE DEF R
  <2> QED
    BY <1>4, <1>5, ConcatProperties
<1>7. DOMAIN g = 1..(n + c)
  BY <1>6, LenProperties
<1> HIDE DEF R, g, n
<1>8. ASSUME NEW i \in DOMAIN g
      PROVE  (i \in DOMAIN w /\ g[i] = w[i]) \/ g[i].op # "headers"
  <2>1. CASE i <= n
    BY <1>2, <1>5, <1>6, <1>7, <2>1
  <2>2. CASE ~(i <= n)
    <3>1. i - n \in 1..c
      BY <1>2, <1>5, <1>7, <2>2
    <3> QED
      BY <1>4, <1>6, <1>7, <2>2, <3>1
  <2> QED
    BY <2>1, <2>2
<1>9. WireOK(g) /\ (BlocksOnly(w) => BlocksOnly(g))
  BY <1>6, <1>8 DEF WireOK, BlocksOnly
<1> QED
  BY <1>9 DEF g, a

-----------------------------------------------------------------------------
(* The invariant.                                                          *)
SyncTypes ==
  /\ tip \in 0..Height /\ orphans \subseteq 1..Height
  /\ checkpoints \in BOOLEAN /\ on \in BOOLEAN /\ loader \in BOOLEAN
  /\ loaderSyncing \in BOOLEAN /\ own \in BOOLEAN /\ resetting \in BOOLEAN /\ (own => loader)
  /\ wanted \subseteq 1..Height /\ resyncs \subseteq {"others", "forced"}
  /\ headerFails \in 0..MaxFails /\ faults \in 0..MaxFaults
  /\ headers \in [first : Nat, last : 0..Height, next : 0..Height, tip : Nat]
  /\ WireOK(wire)
  /\ adding \in [block : 0..Height, mine : BOOLEAN]
  /\ adding # Headers!None => adding.block \in 1..Height

(* The header chain begins with a block that the chain has, unless its     *)
(* headers reach the checkpoint: then with the next one at most.           *)
Follows ==
  /\ headers.first <= headers.last /\ headers.first <= tip + 1
  /\ headers.next # 0 => headers.next \in (headers.first)..(headers.last)
  /\ headers.first <= headers.tip
  /\ headers.first <= tip \/ headers.last >= headers.tip

SyncShape ==
  /\ headerFails < MaxFails /\ headers.tip \in Checkpoints
  /\ ~resetting => Follows

(* No answer will be taken for a bad one: a new loader is still to be      *)
(* asked, or was asked once for the headers that are missing.              *)
Rested ==
  /\ tip < Headers!LastCheckpoint /\ headers = Headers!Anchored(tip)
  /\ wire = <<>> /\ adding = Headers!None
  /\ own => loaderSyncing
  /\ loaderSyncing => on /\ loader

Fetching ==
  /\ ~resetting /\ loader /\ on /\ loaderSyncing /\ ~own
  /\ \/ BlocksOnly(wire) /\ headers.last = headers.tip
     \/ /\ Asking(wire, headers.last, headers.tip)
        /\ headers.first <= tip /\ headers.last < headers.tip

Clean == Rested \/ Fetching

(* A reset has the loader asked again while it may be answering.           *)
Forced == resetting \/ "forced" \in resyncs

(* What a disturbance leaves behind costs two peers at most: one that is   *)
(* asked twice because of a reset, and one whose answers are out of step.  *)
Bound ==
  /\ Forced \/ ~Clean => headerFails + 1 <= 2 * faults
  /\ Forced /\ ~Clean => headerFails + 2 <= 2 * faults

SyncInv ==
  /\ SyncTypes /\ headerFails <= 2 * faults
  /\ checkpoints => SyncShape /\ Bound

(* The kinds of steps.                                                     *)
Undisturbed ==
  /\ UNCHANGED <<headerFails, faults>>
  /\ checkpoints' => (Forced' => Forced) /\ (Clean => Clean' \/ (Forced /\ ~Forced'))

Punished ==
  /\ faults' = faults /\ headerFails' = headerFails + 1 /\ ~Clean
  /\ checkpoints' => Clean' /\ (Forced' => Forced)

Disturbed ==
  /\ faults' = faults + 1
  /\ \/ headerFails' = headerFails
     \/ headerFails' = headerFails + 1 /\ (checkpoints' => Clean')

LEMMA KindsKeepBound ==
  ASSUME SyncInv, checkpoints, Undisturbed \/ Punished \/ Disturbed
  PROVE  headerFails' <= 2 * faults' /\ (checkpoints' => Bound')
<1>1. headerFails \in Nat /\ faults \in Nat
  BY DEF SyncInv, SyncTypes
<1>2. headerFails <= 2 * faults /\ Bound
  BY DEF SyncInv
<1>3. CASE Undisturbed
  BY <1>1, <1>2, <1>3 DEF Undisturbed, Bound
<1>4. CASE Punished
  BY <1>1, <1>2, <1>4 DEF Punished, Bound
<1>5. CASE Disturbed
  BY <1>1, <1>2, <1>5 DEF Disturbed, Bound
<1> QED
  BY <1>3, <1>4, <1>5

(* What the header chain is once it begins again at the tip.               *)
LEMMA AnchoredFollows ==
  ASSUME NetworkOptions, NEW h \in 0..Height, h < Headers!LastCheckpoint
  PROVE  LET a == Headers!Anchored(h)
         IN  /\ a \in [first : Nat, last : 0..Height, next : 0..Height, tip : Nat]
             /\ a.first = h /\ a.last = h /\ a.next = 0
             /\ a.tip \in Checkpoints /\ h < a.tip
<1>1. Headers!NextTip(h) \in Checkpoints /\ h < Headers!NextTip(h)
  BY LastOfCheckpoints
<1>2. Headers!NextTip(h) \in Nat /\ 0 \in 0..Height /\ h \in Nat
  BY <1>1, NetworkFacts
<1> QED
  BY <1>1, <1>2 DEF Headers!Anchored

LEMMA ResetAnchors ==
  ASSUME NetworkOptions, SyncTypes, NEW h \in 0..Height, Headers!ResetChain(h)
  PROVE  /\ checkpoints' \in BOOLEAN
         /\ headers' \in [first : Nat, last : 0..Height, next : 0..Height, tip : Nat]
         /\ checkpoints' => /\ h < Headers!LastCheckpoint /\ headers' = Headers!Anchored(h)
                            /\ headers'.first = h /\ headers'.last = h /\ headers'.next = 0
                            /\ headers'.tip \in Checkpoints /\ h < headers'.tip
<1>1. /\ checkpoints' = (h < Headers!LastCheckpoint)
      /\ headers' = IF h < Headers!LastCheckpoint THEN Headers!Anchored(h) ELSE Headers!NoHeaders
  BY DEF Headers!ResetChain
<1>2. CASE h < Headers!LastCheckpoint
  BY <1>1, <1>2, AnchoredFollows
<1>3. CASE ~(h < Headers!LastCheckpoint)
  <2>1. 0 \in 0..Height
    BY NetworkFacts
  <2>2. headers' = [first |-> 0, last |-> 0, next |-> 0, tip |-> 0]
    BY <1>1, <1>3, Zenon DEF Headers!NoHeaders
  <2>4. checkpoints' \in BOOLEAN
    BY <1>1, <1>3
  <2>5. ~checkpoints'
    BY <1>1, <1>3
  <2>3. headers' \in [first : Nat, last : 0..Height, next : 0..Height, tip : Nat]
    BY <2>1, <2>2
  <2> QED
    BY <2>3, <2>4, <2>5, Zenon
<1> QED
  BY <1>2, <1>3

(* A loader that is lost leaves a pool that starts afresh.                 *)
LEMMA LeaveRests ==
  ASSUME NetworkOptions, SyncTypes, NEW h \in 0..Height, Headers!Leave(h), tip' = h
  PROVE  /\ checkpoints' \in BOOLEAN
         /\ headers' \in [first : Nat, last : 0..Height, next : 0..Height, tip : Nat]
         /\ ~loader' /\ ~loaderSyncing' /\ ~own' /\ wanted' = {} /\ WireOK(wire)'
         /\ loader' \in BOOLEAN /\ loaderSyncing' \in BOOLEAN /\ own' \in BOOLEAN
         /\ checkpoints' => /\ headers'.tip \in Checkpoints /\ Follows'
                            /\ adding' = Headers!None => Rested'
<1>1. /\ loader' = FALSE /\ loaderSyncing' = FALSE /\ own' = FALSE /\ wire' = <<>> /\ wanted' = {}
      /\ Headers!ResetChain(h)
  BY DEF Headers!Leave
<1>2. /\ checkpoints' \in BOOLEAN
      /\ headers' \in [first : Nat, last : 0..Height, next : 0..Height, tip : Nat]
      /\ checkpoints' => /\ h < Headers!LastCheckpoint /\ headers' = Headers!Anchored(h)
                         /\ headers'.first = h /\ headers'.last = h /\ headers'.next = 0
                         /\ headers'.tip \in Checkpoints /\ h < headers'.tip
  BY <1>1, ResetAnchors
<1>3. WireOK(wire)'
  BY <1>1, WireEmpty
<1>4. checkpoints' => Follows'
  <2> SUFFICES ASSUME checkpoints' PROVE Follows'
    OBVIOUS
  <2>1. headers'.tip \in Nat /\ h \in Nat
    BY <1>2, NetworkFacts
  <2> QED
    BY <1>2, <2>1 DEF Follows
<1>5. checkpoints' /\ adding' = Headers!None => Rested'
  BY <1>1, <1>2 DEF Rested
<1> QED
  BY <1>1, <1>2, <1>3, <1>4, <1>5

-----------------------------------------------------------------------------

(* The steps.                                                              *)
LEMMA NewLoaderKeeps ==
  ASSUME NetworkOptions, SyncInv, checkpoints, Headers!NewLoader
  PROVE  SyncTypes' /\ SyncShape' /\ Undisturbed
<1>1. /\ ~loader /\ loader' = TRUE /\ own' = on /\ loaderSyncing' = on
      /\ UNCHANGED <<tip, orphans, resetting, checkpoints, headers, wire, wanted, headerFails, on,
                     resyncs, adding, faults>>
  BY DEF Headers!NewLoader, Headers!chainVars, Headers!headerVars
<1>2. SyncTypes /\ SyncShape
  BY DEF SyncInv
<1>3. SyncTypes'
  BY <1>1, <1>2 DEF SyncTypes, WireOK
<1>4. SyncShape'
  BY <1>1, <1>2 DEF SyncShape, Follows
<1>5. Clean => Clean'
  <2> SUFFICES ASSUME Clean PROVE Rested'
    BY DEF Clean
  <2>1. Rested
    BY <1>1 DEF Clean, Fetching
  <2> QED
    BY <1>1, <2>1 DEF Rested, Headers!Anchored, Headers!NextTip
<1>6. Forced' = Forced
  BY <1>1 DEF Forced
<1> QED
  BY <1>1, <1>3, <1>4, <1>5, <1>6 DEF Undisturbed

(* The loader is asked for headers from the tip on.                        *)
LEMMA SendsKeeps ==
  ASSUME NetworkOptions, SyncInv, checkpoints, Headers!ChainFree, Headers!Sends, loader, on,
         UNCHANGED <<tip, orphans, resetting, checkpoints, headers, loader, wanted, headerFails, on,
                     adding, faults>>,
         own' \in BOOLEAN, resyncs' \subseteq resyncs
  PROVE  /\ SyncTypes' /\ SyncShape'
         /\ Rested /\ ~own' => Clean'
<1>1. /\ loaderSyncing' = TRUE /\ wire' = Headers!GetHeaders(wire, tip, headers.tip)
      /\ ~resetting /\ adding = Headers!None
  BY DEF Headers!Sends, Headers!ChainFree
<1>2. SyncTypes /\ SyncShape
  BY DEF SyncInv
<1>3. headers.tip \in Nat /\ tip \in 0..Height /\ WireOK(wire)
  BY <1>2 DEF SyncTypes
<1>4. WireOK(wire') /\ (BlocksOnly(wire) => Asking(wire', tip, headers.tip))
  BY <1>1, <1>3, WireAsk
<1>5. WireOK(wire)'
  BY <1>4 DEF WireOK
<1>6. SyncTypes'
  BY <1>1, <1>2, <1>5 DEF SyncTypes
<1>7. SyncShape'
  BY <1>2 DEF SyncShape, Follows
<1>8. ASSUME Rested, ~own' PROVE Fetching'
  <2>1. tip < Headers!LastCheckpoint /\ headers = Headers!Anchored(tip) /\ wire = <<>>
    BY <1>8 DEF Rested
  <2>2. headers.first = tip /\ headers.last = tip /\ tip < headers.tip
    BY <1>3, <2>1, AnchoredFollows
  <2>3. Asking(wire', headers'.last, headers'.tip)
    BY <1>4, <2>1, <2>2, WireEmpty
  <2>4. tip <= tip
    BY <1>3, NetworkFacts
  <2>5. Asking(wire, headers.last, headers.tip)'
    BY <2>3 DEF Asking
  <2> QED
    BY <1>1, <1>8, <2>2, <2>4, <2>5 DEF Fetching
<1> QED
  BY <1>6, <1>7, <1>8 DEF Clean

LEMMA SendSyncKeeps ==
  ASSUME NetworkOptions, SyncInv, checkpoints, Headers!SendSync
  PROVE  SyncTypes' /\ SyncShape' /\ Undisturbed
<1>1. /\ own /\ Headers!ChainFree /\ own' = FALSE
      /\ IF on THEN Headers!Sends ELSE UNCHANGED <<loaderSyncing, wire>>
      /\ UNCHANGED <<tip, orphans, resetting, checkpoints, headers, loader, wanted, headerFails, on,
                     resyncs, adding, faults>>
  BY DEF Headers!SendSync, Headers!chainVars, Headers!headerVars
<1>6. own => loader
  BY DEF SyncInv, SyncTypes
<1>2. Forced' = Forced
  BY <1>1 DEF Forced
<1>3. ~Fetching
  BY <1>1 DEF Fetching
<1>4. CASE on
  <2>1. SyncTypes' /\ SyncShape' /\ (Rested => Clean')
    BY <1>1, <1>4, <1>6, SendsKeeps
  <2> QED
    BY <1>1, <1>2, <1>3, <2>1 DEF Undisturbed, Clean
<1>5. CASE ~on
  <2>1. SyncTypes /\ SyncShape
    BY DEF SyncInv
  <2>2. SyncTypes' /\ SyncShape'
    BY <1>1, <1>5, <2>1 DEF SyncTypes, WireOK, SyncShape, Follows
  <2>3. ~Rested
    BY <1>1, <1>5 DEF Rested
  <2> QED
    BY <1>1, <1>2, <1>3, <2>2, <2>3 DEF Undisturbed, Clean
<1> QED
  BY <1>4, <1>5

LEMMA ResyncKeeps ==
  ASSUME NetworkOptions, SyncInv, checkpoints, Headers!Resync
  PROVE  SyncTypes' /\ SyncShape' /\ Undisturbed
<1>1. PICK r \in resyncs :
        /\ resyncs' = resyncs \ {r}
        /\ IF loader /\ on /\ (r = "forced" \/ ~loaderSyncing)
           THEN Headers!Sends ELSE UNCHANGED <<loaderSyncing, wire>>
  BY DEF Headers!Resync
<1>2. /\ Headers!ChainFree /\ ~resetting
      /\ UNCHANGED <<tip, orphans, resetting, checkpoints, headers, loader, own, wanted, headerFails, on,
                     adding, faults>>
  BY DEF Headers!Resync, Headers!chainVars, Headers!headerVars, Headers!ChainFree
<1>3. SyncTypes /\ SyncShape
  BY DEF SyncInv
<1>4. Forced' => Forced
  BY <1>1, <1>2 DEF Forced
<1>5. CASE loader /\ on /\ (r = "forced" \/ ~loaderSyncing)
  <2>1. own' \in BOOLEAN /\ resyncs' \subseteq resyncs
    BY <1>1, <1>2, <1>3 DEF SyncTypes
  <2>2. SyncTypes' /\ SyncShape' /\ (Rested /\ ~own' => Clean')
    BY <1>1, <1>2, <1>5, <2>1, SendsKeeps
  <2>3. CASE r = "forced"
    <3>1. Forced /\ ~Forced'
      BY <1>1, <1>2, <2>3 DEF Forced
    <3> QED
      BY <1>2, <1>4, <2>2, <3>1 DEF Undisturbed
  <2>4. CASE ~loaderSyncing
    <3>1. Clean => Rested /\ ~own
      BY <2>4 DEF Clean, Fetching, Rested
    <3> QED
      BY <1>2, <1>4, <2>2, <3>1 DEF Undisturbed
  <2> QED
    BY <1>5, <2>3, <2>4
<1>6. CASE ~(loader /\ on /\ (r = "forced" \/ ~loaderSyncing))
  <2>1. UNCHANGED <<loaderSyncing, wire>>
    BY <1>1, <1>6
  <2>2. SyncTypes' /\ SyncShape'
    BY <1>1, <1>2, <1>3, <2>1 DEF SyncTypes, WireOK, SyncShape, Follows
  <2>3. Clean => Clean'
    BY <1>2, <2>1 DEF Clean, Rested, Fetching, BlocksOnly, Asking, Headers!Anchored, Headers!NextTip
  <2> QED
    BY <1>2, <1>4, <2>2, <2>3 DEF Undisturbed
<1> QED
  BY <1>5, <1>6

(* The loader is lost, for whatever reason.                                *)
LEMMA LeaveKeeps ==
  ASSUME NetworkOptions, SyncInv, checkpoints, NEW h \in 0..Height, Headers!Leave(h), tip' = h,
         orphans' \subseteq 1..Height, UNCHANGED <<on, resetting>>, resyncs' = resyncs,
         headerFails' \in 0..MaxFails, checkpoints' => headerFails' < MaxFails,
         faults' \in 0..MaxFaults,
         adding' = Headers!None \/ adding' = [adding EXCEPT !.mine = FALSE]
  PROVE  SyncTypes' /\ (checkpoints' => SyncShape') /\ Forced' = Forced
         /\ (checkpoints' /\ adding' = Headers!None => Clean')
<1>1. SyncTypes
  BY DEF SyncInv
<1>2. /\ checkpoints' \in BOOLEAN
      /\ headers' \in [first : Nat, last : 0..Height, next : 0..Height, tip : Nat]
      /\ ~loader' /\ ~loaderSyncing' /\ ~own' /\ wanted' = {} /\ WireOK(wire)'
      /\ loader' \in BOOLEAN /\ loaderSyncing' \in BOOLEAN /\ own' \in BOOLEAN
      /\ checkpoints' => /\ headers'.tip \in Checkpoints /\ Follows'
                         /\ adding' = Headers!None => Rested'
  BY <1>1, LeaveRests
<1>3. /\ adding' \in [block : 0..Height, mine : BOOLEAN]
      /\ adding' # Headers!None => adding'.block \in 1..Height
  <2>1. CASE adding' = Headers!None
    BY <2>1, NetworkFacts DEF Headers!None
  <2>2. CASE adding' = [adding EXCEPT !.mine = FALSE]
    <3>1. adding \in [block : 0..Height, mine : BOOLEAN]
      BY <1>1 DEF SyncTypes
    <3>2. adding'.block = adding.block /\ adding'.mine = FALSE
          /\ adding' = [block |-> adding.block, mine |-> FALSE]
      BY <2>2, <3>1
    <3>3. adding = Headers!None => adding' = Headers!None
      BY <3>2 DEF Headers!None
    <3> QED
      BY <1>1, <3>1, <3>2, <3>3 DEF SyncTypes
  <2> QED
    BY <2>1, <2>2
<1>4. SyncTypes'
  BY <1>1, <1>2, <1>3 DEF SyncTypes
<1>5. checkpoints' => SyncShape'
  BY <1>2 DEF SyncShape
<1>6. Forced' = Forced
  BY DEF Forced
<1> QED
  BY <1>2, <1>4, <1>5, <1>6 DEF Clean

LEMMA ResetEventKeeps ==
  ASSUME NetworkOptions, SyncInv, checkpoints, Headers!ResetEvent
  PROVE  SyncTypes' /\ (checkpoints' => SyncShape') /\ Undisturbed
<1>1. /\ resetting /\ resetting' = FALSE /\ orphans' = {} /\ Headers!ResetChain(tip)
      /\ resyncs' = IF on THEN resyncs \cup {"forced"} ELSE resyncs
      /\ UNCHANGED <<tip, loader, loaderSyncing, own, wire, wanted, headerFails, on, adding, faults>>
  BY DEF Headers!ResetEvent, Headers!peerVars
<1>2. SyncTypes /\ SyncShape
  BY DEF SyncInv
<1>3. tip \in 0..Height
  BY <1>2 DEF SyncTypes
<1>4. /\ checkpoints' \in BOOLEAN
      /\ headers' \in [first : Nat, last : 0..Height, next : 0..Height, tip : Nat]
      /\ checkpoints' => /\ tip < Headers!LastCheckpoint /\ headers' = Headers!Anchored(tip)
                         /\ headers'.first = tip /\ headers'.last = tip /\ headers'.next = 0
                         /\ headers'.tip \in Checkpoints /\ tip < headers'.tip
  BY <1>1, <1>2, <1>3, ResetAnchors
<1>5. SyncTypes'
  BY <1>1, <1>2, <1>4 DEF SyncTypes, WireOK
<1>6. checkpoints' => SyncShape'
  <2> SUFFICES ASSUME checkpoints' PROVE SyncShape'
    OBVIOUS
  <2>1. headers'.tip \in Nat /\ tip \in Nat
    BY <1>3, <1>4, NetworkFacts
  <2>2. Follows'
    BY <1>1, <1>4, <2>1 DEF Follows
  <2> QED
    BY <1>1, <1>2, <1>4, <2>2 DEF SyncShape
<1>7. Forced
  BY <1>1 DEF Forced
<1>8. checkpoints' /\ Clean => Clean'
  <2> SUFFICES ASSUME checkpoints', Clean PROVE Rested'
    BY DEF Clean
  <2>1. Rested
    BY <1>1 DEF Clean, Fetching
  <2> QED
    BY <1>1, <1>4, <2>1 DEF Rested, Headers!Anchored, Headers!NextTip
<1> QED
  BY <1>1, <1>5, <1>6, <1>7, <1>8 DEF Undisturbed

LEMMA StallKeeps ==
  ASSUME NetworkOptions, SyncInv, checkpoints, Headers!Stall
  PROVE  SyncTypes' /\ (checkpoints' => SyncShape') /\ Undisturbed
<1>1. /\ adding = Headers!None /\ Headers!Leave(tip)
      /\ UNCHANGED <<tip, orphans, resetting, headerFails, on, resyncs, adding, faults>>
  BY DEF Headers!Stall, Headers!chainVars
<1>2. SyncTypes /\ SyncShape
  BY DEF SyncInv
<1>3. tip \in 0..Height /\ orphans' \subseteq 1..Height
  BY <1>1, <1>2 DEF SyncTypes
<1>4. headerFails' \in 0..MaxFails /\ headerFails' < MaxFails /\ faults' \in 0..MaxFaults
  BY <1>1, <1>2 DEF SyncTypes, SyncShape
<1>5. SyncTypes' /\ (checkpoints' => SyncShape') /\ Forced' = Forced /\ (checkpoints' => Clean')
  BY <1>1, <1>3, <1>4, LeaveKeeps
<1> QED
  BY <1>1, <1>5 DEF Undisturbed

LEMMA ResetKeeps ==
  ASSUME NetworkOptions, SyncInv, checkpoints, Headers!Reset
  PROVE  SyncTypes' /\ SyncShape' /\ Disturbed
<1>1. /\ faults < MaxFaults /\ faults' = faults + 1 /\ resetting' = TRUE
      /\ \E h \in 0..(tip - 1) : tip' = h
      /\ UNCHANGED <<orphans, checkpoints, headers, loader, loaderSyncing, own, wire, wanted,
                     headerFails, on, resyncs, adding>>
  BY DEF Headers!Reset, Headers!Fault, Headers!headerVars, Headers!peerVars
<1>2. SyncTypes /\ SyncShape
  BY DEF SyncInv
<1>3. tip' \in 0..Height /\ faults' \in 0..MaxFaults
  <2>1. Height \in Nat /\ tip \in 0..Height /\ faults \in 0..MaxFaults /\ MaxFaults \in Nat
    BY <1>2, NetworkFacts DEF SyncTypes, NetworkOptions
  <2> QED
    BY <1>1, <2>1
<1>4. SyncTypes'
  BY <1>1, <1>2, <1>3 DEF SyncTypes, WireOK
<1>5. SyncShape'
  BY <1>1, <1>2 DEF SyncShape
<1> QED
  BY <1>1, <1>4, <1>5 DEF Disturbed

(* The node goes on without headers.                                       *)
LEMMA SwitchKeeps ==
  ASSUME NetworkOptions, SyncInv, Headers!SwitchSync,
         tip' \in 0..Height, orphans' \subseteq 1..Height, UNCHANGED <<on, resetting, resyncs>>,
         headerFails' \in 0..MaxFails, faults' \in 0..MaxFaults,
         adding' = Headers!None \/ adding' = adding
  PROVE  SyncTypes' /\ ~checkpoints'
<1>1. /\ checkpoints' = FALSE /\ headers' = [first |-> 0, last |-> 0, next |-> 0, tip |-> 0]
      /\ UNCHANGED <<loader, loaderSyncing, own, wire, wanted>>
  BY DEF Headers!SwitchSync, Headers!NoHeaders, Headers!peerVars
<1>2. SyncTypes
  BY DEF SyncInv
<1>3. headers' \in [first : Nat, last : 0..Height, next : 0..Height, tip : Nat]
  BY <1>1, NetworkFacts
<1>4. /\ adding' \in [block : 0..Height, mine : BOOLEAN]
      /\ adding' # Headers!None => adding'.block \in 1..Height
  <2>1. CASE adding' = Headers!None
    BY <2>1, NetworkFacts DEF Headers!None
  <2>2. CASE adding' = adding
    BY <1>2, <2>2 DEF SyncTypes
  <2> QED
    BY <2>1, <2>2
<1>5. WireOK(wire)'
  BY <1>1, <1>2 DEF SyncTypes, WireOK
<1>6. SyncTypes'
  BY <1>1, <1>2, <1>3, <1>4, <1>5 DEF SyncTypes
<1> QED
  BY <1>1, <1>6

LEMMA BadHeaderKeeps ==
  ASSUME NetworkOptions, SyncInv, checkpoints, Headers!BadHeader, adding = Headers!None,
         UNCHANGED <<tip, orphans, resetting, on, resyncs, adding>>, faults' \in 0..MaxFaults
  PROVE  /\ SyncTypes' /\ (checkpoints' => SyncShape' /\ Clean')
         /\ headerFails' = headerFails + 1 /\ (Forced' <=> Forced)
<1>1. /\ headerFails' = headerFails + 1
      /\ IF headerFails + 1 < MaxFails THEN Headers!Leave(tip) ELSE Headers!SwitchSync
  BY DEF Headers!BadHeader
<1>2. SyncTypes /\ SyncShape
  BY DEF SyncInv
<1>3. headerFails' \in 0..MaxFails /\ (headerFails + 1 < MaxFails => headerFails' < MaxFails)
  <2>1. headerFails \in 0..MaxFails /\ headerFails < MaxFails /\ MaxFails \in Nat
    BY <1>2 DEF SyncTypes, SyncShape, NetworkOptions
  <2> QED
    BY <1>1, <2>1
<1>4. tip \in 0..Height /\ orphans' \subseteq 1..Height
  BY <1>2 DEF SyncTypes
<1>5. CASE headerFails + 1 < MaxFails
  <2>1. Headers!Leave(tip)
    BY <1>1, <1>5
  <2>2. SyncTypes' /\ (checkpoints' => SyncShape') /\ Forced' = Forced /\ (checkpoints' => Clean')
    BY <1>3, <1>4, <1>5, <2>1, LeaveKeeps
  <2> QED
    BY <1>1, <2>2
<1>6. CASE ~(headerFails + 1 < MaxFails)
  <2>1. Headers!SwitchSync
    BY <1>1, <1>6
  <2>2. tip' \in 0..Height
    BY <1>4
  <2>3. SyncTypes' /\ ~checkpoints'
    BY <1>3, <1>4, <2>1, <2>2, SwitchKeeps
  <2>4. Forced' <=> Forced
    BY DEF Forced
  <2> QED
    BY <1>1, <2>3, <2>4
<1> QED
  BY <1>5, <1>6

LEMMA BadHeadersKeeps ==
  ASSUME NetworkOptions, SyncInv, checkpoints, Headers!BadHeaders
  PROVE  SyncTypes' /\ (checkpoints' => SyncShape') /\ Disturbed
<1>1. /\ adding = Headers!None /\ faults < MaxFaults /\ faults' = faults + 1 /\ Headers!BadHeader
      /\ UNCHANGED <<tip, orphans, resetting, on, resyncs, adding>>
  BY DEF Headers!BadHeaders, Headers!Fault, Headers!chainVars
<1>2. faults' \in 0..MaxFaults
  BY <1>1 DEF SyncInv, SyncTypes, NetworkOptions
<1>3. /\ SyncTypes' /\ (checkpoints' => SyncShape' /\ Clean')
      /\ headerFails' = headerFails + 1
  BY <1>1, <1>2, BadHeaderKeeps
<1> QED
  BY <1>1, <1>3 DEF Disturbed

LEMMA CloseKeeps ==
  ASSUME NetworkOptions, SyncInv, checkpoints, Headers!Close
  PROVE  SyncTypes' /\ (checkpoints' => SyncShape') /\ Disturbed
<1>1. /\ faults < MaxFaults /\ faults' = faults + 1 /\ Headers!Leave(tip)
      /\ adding' = [adding EXCEPT !.mine = FALSE]
      /\ UNCHANGED <<tip, orphans, resetting, headerFails, on, resyncs>>
  BY DEF Headers!Close, Headers!Fault, Headers!chainVars
<1>2. faults' \in 0..MaxFaults
  BY <1>1 DEF SyncInv, SyncTypes, NetworkOptions
<1>3. tip \in 0..Height /\ orphans' \subseteq 1..Height /\ headerFails' \in 0..MaxFails /\ headerFails' < MaxFails
  BY <1>1 DEF SyncInv, SyncTypes, SyncShape
<1>4. SyncTypes' /\ (checkpoints' => SyncShape')
  BY <1>1, <1>2, <1>3, LeaveKeeps
<1> QED
  BY <1>1, <1>4 DEF Disturbed

LEMMA StartSyncKeeps ==
  ASSUME NetworkOptions, SyncInv, Headers!StartSync
  PROVE  /\ SyncTypes' /\ (checkpoints => SyncShape' /\ Undisturbed)
         /\ UNCHANGED <<checkpoints, headerFails, faults>>
<1>1. /\ ~on /\ on' = TRUE
      /\ resyncs' = IF checkpoints THEN resyncs \cup {"others"} ELSE resyncs
      /\ UNCHANGED <<tip, orphans, resetting, checkpoints, headers, loader, loaderSyncing, own, wire,
                     wanted, headerFails, adding, faults>>
  BY DEF Headers!StartSync, Headers!chainVars, Headers!headerVars, Headers!peerVars
<1>2. SyncTypes
  BY DEF SyncInv
<1>3. SyncTypes'
  BY <1>1, <1>2 DEF SyncTypes, WireOK
<1>4. checkpoints => SyncShape'
  BY <1>1 DEF SyncInv, SyncShape, Follows
<1>5. Forced' => Forced
  BY <1>1 DEF Forced
<1>6. Clean => Clean'
  <2> SUFFICES ASSUME Clean PROVE Rested'
    BY DEF Clean
  <2>1. Rested
    BY <1>1 DEF Clean, Fetching
  <2> QED
    BY <1>1, <2>1 DEF Rested, Headers!Anchored, Headers!NextTip
<1> QED
  BY <1>1, <1>3, <1>4, <1>5, <1>6 DEF Undisturbed

LEMMA StopSyncKeeps ==
  ASSUME NetworkOptions, SyncInv, Headers!StopSync
  PROVE  /\ SyncTypes' /\ (checkpoints => SyncShape' /\ Disturbed)
         /\ checkpoints' = checkpoints /\ headerFails' = headerFails
         /\ faults' = IF checkpoints THEN faults + 1 ELSE faults
<1>1. /\ loaderSyncing' = FALSE /\ wanted' = {} /\ on' = FALSE
      /\ IF checkpoints THEN faults < MaxFaults /\ faults' = faults + 1 ELSE faults' = faults
      /\ UNCHANGED <<tip, orphans, resetting, checkpoints, headers, loader, own, wire,
                     headerFails, resyncs, adding>>
  BY DEF Headers!StopSync, Headers!chainVars, Headers!headerVars, Headers!Fault
<1>2. SyncTypes
  BY DEF SyncInv
<1>3. faults' \in 0..MaxFaults
  <2>1. faults \in 0..MaxFaults /\ MaxFaults \in Nat
    BY <1>2 DEF SyncTypes, NetworkOptions
  <2> QED
    BY <1>1, <2>1
<1>4. SyncTypes'
  BY <1>1, <1>2, <1>3 DEF SyncTypes, WireOK
<1>5. checkpoints => SyncShape'
  BY <1>1 DEF SyncInv, SyncShape, Follows
<1> QED
  BY <1>1, <1>4, <1>5 DEF Disturbed

(* What is asked for, and what is left of the headers.                     *)
LEMMA ResolveKeeps ==
  ASSUME NetworkOptions, NEW h \in [first : Nat, last : 0..Height, next : 0..Height, tip : Nat],
         NEW w, WireOK(w), wanted \subseteq 1..Height, Headers!ResolveHeaders(h, w)
  PROVE  /\ headers' \in [first : Nat, last : 0..Height, next : 0..Height, tip : Nat]
         /\ headers'.first = h.first /\ headers'.last = h.last /\ headers'.tip = h.tip
         /\ headers'.next # 0 => h.next # 0 /\ h.next < headers'.next /\ headers'.next <= h.last
         /\ wanted' \subseteq 1..Height /\ WireOK(wire') /\ (BlocksOnly(w) => BlocksOnly(wire'))
<1> DEFINE S == {h.last, h.next + MaxRequest - 1}
           to == Headers!Min(S)
           new == {b \in h.next..to : h.next # 0} \ wanted
           nx == IF h.next = 0 \/ to = h.last THEN 0 ELSE to + 1
<1>1. headers' = [h EXCEPT !.next = nx] /\ wanted' = wanted \cup new /\ wire' = w \o Headers!Asks(new)
  BY DEF Headers!ResolveHeaders
<1>2. h.last \in 0..Height /\ h.next \in 0..Height /\ Height \in Nat /\ MaxRequest \in Nat \ {0}
  BY NetworkFacts DEF NetworkOptions
<1>3. S \subseteq Nat /\ S # {}
  BY <1>2
<1>4. to \in S /\ \A x \in S : to <= x
  <2> HIDE DEF S
  <2> QED
    BY <1>3, LeastOf
<1>5. to \in Nat /\ to <= h.last /\ (to = h.last \/ to = h.next + MaxRequest - 1)
  BY <1>3, <1>4
<1> HIDE DEF S, to
<1>6. nx \in 0..Height /\ (nx # 0 => h.next # 0 /\ h.next < nx /\ nx <= h.last)
  BY <1>2, <1>5
<1>7. new \subseteq 1..Height /\ IsFiniteSet(new)
  <2>1. new \subseteq 1..Height
    <3> SUFFICES ASSUME NEW b \in new PROVE b \in 1..Height
      OBVIOUS
    <3>1. b \in h.next..to /\ h.next # 0
      OBVIOUS
    <3> QED
      BY <1>2, <1>5, <3>1
  <2>2. IsFiniteSet(1..Height)
    BY <1>2, FS_Interval
  <2> HIDE DEF new
  <2> QED
    BY <2>1, <2>2, FS_Subset
<1> HIDE DEF nx, new
<1>8. WireOK(wire') /\ (BlocksOnly(w) => BlocksOnly(wire'))
  BY <1>1, <1>7, WireBlocks
<1>9. /\ headers' \in [first : Nat, last : 0..Height, next : 0..Height, tip : Nat]
      /\ headers'.first = h.first /\ headers'.last = h.last /\ headers'.tip = h.tip /\ headers'.next = nx
  BY <1>1, <1>6
<1> QED
  BY <1>1, <1>6, <1>7, <1>8, <1>9

(* The first answer is the only one, when it is of headers.                *)
LEMMA CleanHead ==
  ASSUME SyncInv, checkpoints, wire # <<>>, Head(wire).op = "headers", Clean
  PROVE  /\ Fetching /\ Tail(wire) = <<>>
         /\ Head(wire).from = headers.last /\ Head(wire).stop = headers.tip
         /\ headers.first <= tip /\ headers.last < headers.tip
<1>1. WireOK(wire)
  BY DEF SyncInv, SyncTypes
<1>2. Head(wire) = wire[1] /\ Len(wire) \in Nat \ {0} /\ DOMAIN wire = 1..Len(wire)
  BY <1>1, WireHead
<1>3. Fetching
  BY DEF Clean, Rested
<1>4. ~BlocksOnly(wire)
  <2>1. 1 \in DOMAIN wire
    BY <1>2
  <2> QED
    BY <1>2, <2>1 DEF BlocksOnly
<1>5. Asking(wire, headers.last, headers.tip) /\ headers.first <= tip /\ headers.last < headers.tip
  BY <1>3, <1>4 DEF Fetching
<1>6. IF Len(wire) = 1 THEN Tail(wire) = <<>> ELSE wire[1].op # "headers"
  BY <1>1, <1>5, WireTail
<1>7. Len(wire) = 1 /\ Tail(wire) = <<>>
  BY <1>2, <1>6
<1>8. wire[1] = [op |-> "headers", from |-> headers.last, stop |-> headers.tip]
  BY <1>5, <1>7 DEF Asking
<1> QED
  BY <1>2, <1>3, <1>5, <1>7, <1>8

(* An answer with headers: none, or headers out of step, or the next ones. *)
LEMMA HandleHeadersKeeps ==
  ASSUME NetworkOptions, SyncInv, checkpoints, Headers!HandleHeaders
  PROVE  SyncTypes' /\ (checkpoints' => SyncShape') /\ (Undisturbed \/ Punished)
<1> DEFINE from == Head(wire).from
           stop == Head(wire).stop
           S == {Height, from + PacketSize} \cup (IF stop > from THEN {stop} ELSE {})
           to == Headers!Min(S)
           h == [headers EXCEPT !.last = to, !.next = IF @ = 0 THEN from + 1 ELSE @]
           next == IF headers.next = 0 THEN from + 1 ELSE headers.next
<1>1. /\ wire # <<>> /\ adding = Headers!None /\ Head(wire).op = "headers"
      /\ UNCHANGED <<tip, orphans, resetting, on, resyncs, faults>>
  BY DEF Headers!HandleHeaders, Headers!Answered, Headers!chainVars
<1>2. \/ /\ ~on \/ to = from
         /\ wire' = Tail(wire)
         /\ UNCHANGED <<checkpoints, headers, loader, loaderSyncing, own, wanted, headerFails, adding>>
      \/ on /\ to > from /\ from # headers.last /\ Headers!BadHeader /\ UNCHANGED adding
      \/ /\ on /\ to > from /\ from = headers.last
         /\ IF from < headers.tip /\ headers.tip <= to
            THEN Headers!ResolveHeaders([h EXCEPT !.first = @ + 1], Tail(wire))
            ELSE /\ headers' = h /\ wire' = Headers!GetHeaders(Tail(wire), to, headers.tip)
                 /\ UNCHANGED wanted
         /\ UNCHANGED <<checkpoints, loader, loaderSyncing, own, headerFails, adding>>
  BY DEF Headers!HandleHeaders, Headers!headerVars
<1>3. SyncTypes /\ SyncShape
  BY DEF SyncInv
<1>4. WireOK(wire) /\ headers \in [first : Nat, last : 0..Height, next : 0..Height, tip : Nat]
  BY <1>3 DEF SyncTypes
<1>5. WireOK(Tail(wire))
  BY <1>1, <1>4, WireTail
<1>6. from \in 0..Height /\ stop \in Nat /\ Height \in Nat /\ PacketSize \in Nat \ {0}
  BY <1>1, <1>4, WireHead, NetworkFacts DEF NetworkOptions
<1>7. to \in 0..Height /\ (stop > from => to <= stop /\ (to > from \/ from = Height))
  <2>1. S \subseteq Nat /\ S # {}
    BY <1>6
  <2>2. to \in S /\ \A x \in S : to <= x
    <3> HIDE DEF S
    <3> QED
      BY <2>1, LeastOf
  <2>3. to \in Nat /\ to <= Height /\ (stop > from => to <= stop)
    BY <1>6, <2>1, <2>2
  <2>4. stop > from => to = Height \/ to = from + PacketSize \/ to = stop
    BY <2>2
  <2> HIDE DEF S, to
  <2> QED
    BY <1>6, <2>3, <2>4
<1>8. Clean => /\ Fetching /\ on /\ Tail(wire) = <<>> /\ from = headers.last /\ stop = headers.tip
               /\ headers.first <= tip /\ headers.last < headers.tip
  BY <1>1, CleanHead DEF Fetching
<1>9. headers.tip \in Checkpoints /\ headers.tip \in 1..Height
  BY <1>3, NetworkFacts DEF SyncShape
<1> HIDE DEF S, to
<1>10. Clean => to > from /\ to <= headers.tip
  BY <1>4, <1>6, <1>7, <1>8, <1>9
<1>11. Forced' = Forced
  BY <1>1 DEF Forced
<1>12. CASE /\ ~on \/ to = from
            /\ wire' = Tail(wire)
            /\ UNCHANGED <<checkpoints, headers, loader, loaderSyncing, own, wanted, headerFails, adding>>
  <2>1. ~Clean
    BY <1>6, <1>7, <1>8, <1>10, <1>12
  <2>2. WireOK(wire)'
    BY <1>5, <1>12 DEF WireOK
  <2>3. SyncTypes'
    BY <1>1, <1>3, <1>12, <2>2 DEF SyncTypes
  <2>4. SyncShape'
    BY <1>1, <1>3, <1>12 DEF SyncShape, Follows
  <2> QED
    BY <1>1, <1>11, <1>12, <2>1, <2>3, <2>4 DEF Undisturbed
<1>13. CASE on /\ to > from /\ from # headers.last /\ Headers!BadHeader /\ UNCHANGED adding
  <2>1. ~Clean
    BY <1>8, <1>13
  <2>2. faults' \in 0..MaxFaults
    BY <1>1, <1>3 DEF SyncTypes
  <2>3. /\ SyncTypes' /\ (checkpoints' => SyncShape' /\ Clean')
        /\ headerFails' = headerFails + 1
    BY <1>1, <1>13, <2>2, BadHeaderKeeps
  <2> QED
    BY <1>1, <1>11, <2>1, <2>3 DEF Punished
<1>14. CASE /\ on /\ to > from /\ from = headers.last
            /\ IF from < headers.tip /\ headers.tip <= to
               THEN Headers!ResolveHeaders([h EXCEPT !.first = @ + 1], Tail(wire))
               ELSE /\ headers' = h /\ wire' = Headers!GetHeaders(Tail(wire), to, headers.tip)
                    /\ UNCHANGED wanted
            /\ UNCHANGED <<checkpoints, loader, loaderSyncing, own, headerFails, adding>>
  <2>1. next \in 1..Height /\ from + 1 <= to
    BY <1>4, <1>6, <1>7, <1>14
  <2>2. /\ h \in [first : Nat, last : 0..Height, next : 0..Height, tip : Nat]
        /\ h.first = headers.first /\ h.last = to /\ h.next = next /\ h.tip = headers.tip
    <3>1. h = [headers EXCEPT !.last = to, !.next = next]
      BY <1>4
    <3>2. to \in 0..Height /\ next \in 0..Height
      BY <1>6, <1>7, <2>1
    <3> HIDE DEF h, next
    <3>3. h = [first |-> headers.first, last |-> to, next |-> next, tip |-> headers.tip]
      BY <1>4, <3>1
    <3> QED
      BY <1>4, <3>2, <3>3
  <2>3. ~resetting => /\ headers.first <= from /\ headers.first <= tip + 1 /\ headers.first <= headers.tip
                      /\ headers.first <= tip \/ from >= headers.tip
                      /\ headers.first <= next /\ next <= to
    <3> SUFFICES ASSUME ~resetting
                 PROVE  /\ headers.first <= from /\ headers.first <= tip + 1 /\ headers.first <= headers.tip
                        /\ headers.first <= tip \/ from >= headers.tip
                        /\ headers.first <= next /\ next <= to
      OBVIOUS
    <3>1. /\ headers.first <= from /\ headers.first <= tip + 1
          /\ headers.next # 0 => headers.next \in (headers.first)..from
          /\ headers.first <= headers.tip
          /\ headers.first <= tip \/ from >= headers.tip
      BY <1>3, <1>14 DEF SyncShape, Follows
    <3>2. CASE headers.next = 0
      BY <1>4, <1>6, <2>1, <3>1, <3>2
    <3>3. CASE headers.next # 0
      <4>1. next = headers.next
        BY <3>3
      <4> HIDE DEF next
      <4> QED
        BY <1>4, <1>6, <1>7, <2>1, <3>1, <3>3, <4>1
    <3> QED
      BY <3>2, <3>3
  <2>4. tip \in 0..Height
    BY <1>3 DEF SyncTypes
  <2> HIDE DEF h, next, from, stop
  <2>5. CASE from < headers.tip /\ headers.tip <= to
    <3> DEFINE g == [h EXCEPT !.first = @ + 1]
    <3>1. /\ g \in [first : Nat, last : 0..Height, next : 0..Height, tip : Nat]
          /\ g.first = headers.first + 1 /\ g.last = to /\ g.next = next /\ g.tip = headers.tip
      BY <1>4, <2>2
    <3>2. wanted \subseteq 1..Height
      BY <1>3 DEF SyncTypes
    <3>3. Headers!ResolveHeaders(g, Tail(wire))
      BY <1>14, <2>5
    <3> HIDE DEF g
    <3>4. /\ headers' \in [first : Nat, last : 0..Height, next : 0..Height, tip : Nat]
          /\ headers'.first = g.first /\ headers'.last = g.last /\ headers'.tip = g.tip
          /\ headers'.next # 0 => g.next # 0 /\ g.next < headers'.next /\ headers'.next <= g.last
          /\ wanted' \subseteq 1..Height /\ WireOK(wire')
          /\ BlocksOnly(Tail(wire)) => BlocksOnly(wire')
      BY <1>5, <3>1, <3>2, <3>3, ResolveKeeps
    <3>5. WireOK(wire)'
      BY <3>4 DEF WireOK
    <3>6. SyncTypes'
      BY <1>1, <1>3, <1>14, <3>4, <3>5 DEF SyncTypes
    <3>7. ~resetting' => Follows'
      <4> SUFFICES ASSUME ~resetting' PROVE Follows'
        OBVIOUS
      <4> DEFINE f == headers.first
                 n == headers'.next
      <4>1. /\ f <= from /\ f <= tip + 1 /\ f <= headers.tip
            /\ f <= tip \/ from >= headers.tip
            /\ f <= next /\ next <= to
        BY <1>1, <2>3
      <4>2. f \in Nat /\ headers.tip \in Nat /\ n \in Nat /\ from \in Nat /\ to \in Nat /\ tip \in Nat /\ next \in Nat
        BY <1>4, <1>6, <1>7, <2>1, <2>4, <3>4
      <4>3. n # 0 => next < n /\ n <= to
        BY <3>1, <3>4
      <4>4. /\ headers'.first = f + 1 /\ headers'.last = to /\ headers'.tip = headers.tip /\ tip' = tip
        BY <1>1, <3>1, <3>4
      <4> HIDE DEF f, n
      <4>5. /\ f + 1 <= to /\ f + 1 <= tip + 1 /\ f + 1 <= headers.tip /\ to >= headers.tip
            /\ n # 0 => n \in (f + 1)..to
        BY <2>5, <4>1, <4>2, <4>3
      <4> QED
        BY <4>4, <4>5 DEF Follows, n
    <3>8. SyncShape'
      BY <1>3, <1>14, <3>1, <3>4, <3>7 DEF SyncShape
    <3>9. ASSUME Clean PROVE Fetching'
      <4>1. BlocksOnly(wire')
        BY <1>8, <3>4, <3>9, WireEmpty
      <4>2. headers'.last = headers'.tip
        BY <1>7, <1>9, <1>10, <2>5, <3>1, <3>4, <3>9
      <4>3. BlocksOnly(wire)'
        BY <4>1 DEF BlocksOnly
      <4> QED
        BY <1>1, <1>8, <1>14, <3>9, <4>2, <4>3 DEF Fetching
    <3> QED
      BY <1>1, <1>11, <1>14, <3>6, <3>8, <3>9 DEF Undisturbed, Clean
  <2>6. CASE ~(from < headers.tip /\ headers.tip <= to)
    <3>1. headers' = h /\ wire' = Headers!GetHeaders(Tail(wire), to, headers.tip) /\ wanted' = wanted
      BY <1>14, <2>6
    <3>2. headers.tip \in Nat
      BY <1>4
    <3>3. WireOK(wire') /\ (BlocksOnly(Tail(wire)) => Asking(wire', to, headers.tip))
      BY <1>5, <1>7, <3>1, <3>2, WireAsk
    <3>4. WireOK(wire)'
      BY <3>3 DEF WireOK
    <3>5. SyncTypes'
      BY <1>1, <1>3, <1>14, <2>2, <3>1, <3>4 DEF SyncTypes
    <3>6. ~resetting' => Follows'
      <4> SUFFICES ASSUME ~resetting' PROVE Follows'
        OBVIOUS
      <4> DEFINE f == headers.first
      <4>1. /\ f <= from /\ f <= tip + 1 /\ f <= headers.tip
            /\ f <= tip \/ from >= headers.tip
            /\ f <= next /\ next <= to
        BY <1>1, <2>3
      <4>2. f \in Nat /\ headers.tip \in Nat /\ from \in Nat /\ to \in Nat /\ tip \in Nat /\ next \in Nat
        BY <1>4, <1>6, <1>7, <2>1, <2>4
      <4>3. headers'.first = f /\ headers'.last = to /\ headers'.tip = headers.tip /\ tip' = tip /\ headers'.next = next
        BY <1>1, <2>2, <3>1
      <4> HIDE DEF f
      <4>4. /\ f <= to /\ f <= tip + 1 /\ f <= headers.tip /\ (f <= tip \/ to >= headers.tip)
            /\ next \in f..to
        BY <1>14, <4>1, <4>2
      <4> QED
        BY <4>3, <4>4 DEF Follows
    <3>7. SyncShape'
      BY <1>3, <1>14, <2>2, <3>1, <3>6 DEF SyncShape
    <3>8. ASSUME Clean PROVE Fetching'
      <4>1. Asking(wire', to, headers.tip)
        BY <1>8, <3>3, <3>8, WireEmpty
      <4>2. headers'.last = to /\ headers'.tip = headers.tip /\ headers'.first = headers.first
        BY <2>2, <3>1
      <4>3. Asking(wire, headers.last, headers.tip)'
        BY <4>1, <4>2 DEF Asking
      <4>4. to < headers.tip
        BY <1>6, <1>7, <1>8, <1>9, <1>14, <2>6, <3>8
      <4> QED
        BY <1>1, <1>8, <1>14, <3>8, <4>2, <4>3, <4>4 DEF Fetching
    <3> QED
      BY <1>1, <1>11, <1>14, <3>5, <3>7, <3>8 DEF Undisturbed, Clean
  <2> QED
    BY <2>5, <2>6
<1> QED
  BY <1>2, <1>12, <1>13, <1>14

(* A block that was asked for, or one that was not.                        *)
LEMMA TakeBlockKeeps ==
  ASSUME NetworkOptions, SyncInv, checkpoints, Headers!TakeBlock
  PROVE  SyncTypes' /\ (checkpoints' => SyncShape') /\ Undisturbed
<1> DEFINE b == Head(wire).from
<1>1. /\ wire # <<>> /\ adding = Headers!None /\ Head(wire).op = "block"
      /\ UNCHANGED <<tip, orphans, resetting, headerFails, on, resyncs, faults>>
  BY DEF Headers!TakeBlock, Headers!Answered, Headers!chainVars
<1>2. \/ /\ ~on /\ wire' = Tail(wire)
         /\ UNCHANGED <<checkpoints, headers, loader, loaderSyncing, own, wanted, adding>>
      \/ on /\ b \notin wanted /\ Headers!Leave(tip) /\ UNCHANGED adding
      \/ /\ on /\ b \in wanted
         /\ wanted' = wanted \ {b} /\ wire' = Tail(wire)
         /\ adding' = [block |-> b, mine |-> TRUE]
         /\ UNCHANGED <<checkpoints, headers, loader, loaderSyncing, own>>
  BY DEF Headers!TakeBlock, Headers!headerVars
<1>3. SyncTypes /\ SyncShape
  BY DEF SyncInv
<1>4. WireOK(wire) /\ tip \in 0..Height /\ orphans' \subseteq 1..Height /\ wanted \subseteq 1..Height
  BY <1>1, <1>3 DEF SyncTypes
<1>5. /\ WireOK(Tail(wire)) /\ (BlocksOnly(wire) => BlocksOnly(Tail(wire)))
      /\ \A from, stop : Asking(wire, from, stop) =>
           IF Len(wire) = 1 THEN Tail(wire) = <<>> ELSE wire[1].op # "headers" /\ Asking(Tail(wire), from, stop)
  BY <1>1, <1>4, WireTail
<1>6. Head(wire) = wire[1]
  BY <1>1, <1>4, WireHead
<1>7. ~Rested /\ Forced' = Forced
  BY <1>1 DEF Rested, Forced
<1>8. CASE /\ ~on /\ wire' = Tail(wire)
           /\ UNCHANGED <<checkpoints, headers, loader, loaderSyncing, own, wanted, adding>>
  <2>1. WireOK(wire)'
    BY <1>5, <1>8 DEF WireOK
  <2>2. SyncTypes'
    BY <1>1, <1>3, <1>8, <2>1 DEF SyncTypes
  <2>3. SyncShape'
    BY <1>1, <1>3, <1>8 DEF SyncShape, Follows
  <2>4. ~Clean
    BY <1>7, <1>8 DEF Clean, Fetching
  <2> QED
    BY <1>1, <1>7, <2>2, <2>3, <2>4 DEF Undisturbed
<1>9. CASE on /\ b \notin wanted /\ Headers!Leave(tip) /\ UNCHANGED adding
  <2>1. headerFails' \in 0..MaxFails /\ headerFails' < MaxFails /\ faults' \in 0..MaxFaults
    BY <1>1, <1>3 DEF SyncTypes, SyncShape
  <2>2. SyncTypes' /\ (checkpoints' => SyncShape') /\ (checkpoints' => Clean')
    BY <1>1, <1>4, <1>9, <2>1, LeaveKeeps
  <2> QED
    BY <1>1, <1>7, <2>2 DEF Undisturbed
<1>10. CASE /\ on /\ b \in wanted
            /\ wanted' = wanted \ {b} /\ wire' = Tail(wire)
            /\ adding' = [block |-> b, mine |-> TRUE]
            /\ UNCHANGED <<checkpoints, headers, loader, loaderSyncing, own>>
  <2>1. WireOK(wire)'
    BY <1>5, <1>10 DEF WireOK
  <2> HIDE DEF b
  <2>0. b \in wanted /\ wanted' \subseteq wanted /\ wanted \subseteq 1..Height
    BY <1>4, <1>10
  <2>2. b \in 1..Height /\ b \in 0..Height /\ wanted' \subseteq 1..Height
    <3>1. Height \in Nat
      BY NetworkFacts
    <3>2. b \in 1..Height /\ wanted' \subseteq 1..Height
      BY <2>0
    <3> QED
      BY <3>1, <3>2
  <2>3. adding' \in [block : 0..Height, mine : BOOLEAN] /\ adding'.block \in 1..Height
    BY <1>10, <2>2
  <2>4. SyncTypes'
    BY <1>1, <1>3, <1>10, <2>1, <2>2, <2>3 DEF SyncTypes
  <2>5. SyncShape'
    BY <1>1, <1>3, <1>10 DEF SyncShape, Follows
  <2>6. ASSUME Fetching PROVE Fetching'
    <3>1. /\ ~resetting' /\ loader' /\ on' /\ loaderSyncing' /\ ~own'
          /\ UNCHANGED <<headers, tip>>
      BY <1>1, <1>10, <2>6 DEF Fetching
    <3>2. CASE BlocksOnly(wire) /\ headers.last = headers.tip
      <4>1. BlocksOnly(wire)'
        BY <1>5, <1>10, <3>2 DEF BlocksOnly
      <4> QED
        BY <3>1, <3>2, <4>1 DEF Fetching
    <3>3. CASE /\ Asking(wire, headers.last, headers.tip)
               /\ headers.first <= tip /\ headers.last < headers.tip
      <4>1. Len(wire) # 1
        <5> SUFFICES ASSUME Len(wire) = 1 PROVE FALSE
          OBVIOUS
        <5>1. wire[1] = [op |-> "headers", from |-> headers.last, stop |-> headers.tip]
          BY <3>3 DEF Asking
        <5> QED
          BY <1>1, <1>6, <5>1
      <4>2. Asking(Tail(wire), headers.last, headers.tip)
        BY <1>5, <3>3, <4>1
      <4>3. Asking(wire, headers.last, headers.tip)'
        BY <1>10, <3>1, <4>2 DEF Asking
      <4> QED
        BY <3>1, <3>3, <4>3 DEF Fetching
    <3> QED
      BY <2>6, <3>2, <3>3 DEF Fetching
  <2> QED
    BY <1>1, <1>7, <1>10, <2>4, <2>5, <2>6 DEF Undisturbed, Clean
<1> QED
  BY <1>2, <1>8, <1>9, <1>10

(* The chain grows, and nobody asks the loader for more.                   *)
LEMMA GrowthKeeps ==
  ASSUME NetworkOptions, SyncInv, checkpoints, adding # Headers!None, ~resetting, adding' = Headers!None,
         tip' \in 0..Height, tip <= tip', orphans' \subseteq 1..Height,
         UNCHANGED <<resetting, headerFails, on, resyncs, faults, checkpoints, headers,
                     loader, loaderSyncing, own, wire, wanted>>
  PROVE  SyncTypes' /\ SyncShape' /\ Undisturbed
<1>1. SyncTypes /\ SyncShape /\ Follows
  BY DEF SyncInv, SyncShape
<1>2. tip \in Nat /\ tip' \in Nat /\ headers.first \in Nat
  BY <1>1, NetworkFacts DEF SyncTypes
<1>3. headers.first <= tip => headers.first <= tip'
  BY <1>2
<1>4. headers.first <= tip + 1 => headers.first <= tip' + 1
  BY <1>2
<1>5. adding' \in [block : 0..Height, mine : BOOLEAN]
  BY NetworkFacts DEF Headers!None
<1>6. WireOK(wire)'
  BY <1>1 DEF SyncTypes, WireOK
<1>7. SyncTypes'
  BY <1>1, <1>5, <1>6 DEF SyncTypes
<1>8. SyncShape'
  BY <1>1, <1>3, <1>4 DEF SyncShape, Follows
<1>9. Clean => Clean'
  <2>1. ~Rested
    BY DEF Rested
  <2>2. Fetching => Fetching'
    BY <1>3 DEF Fetching, BlocksOnly, Asking
  <2> QED
    BY <2>1, <2>2 DEF Clean
<1>10. Forced' = Forced
  BY DEF Forced
<1> QED
  BY <1>7, <1>8, <1>9, <1>10 DEF Undisturbed

(* A block that connects, as the first of the header chain or not.         *)
LEMMA ResolveChainKeeps ==
  ASSUME NetworkOptions, SyncInv, checkpoints, NEW b \in 1..Height, NEW upTo \in b..Height,
         b = tip + 1, tip' = upTo, orphans' \subseteq 1..Height, Headers!ResolveChain(b, upTo),
         ~resetting, adding # Headers!None, adding' = Headers!None,
         UNCHANGED <<resetting, headerFails, on, resyncs, faults>>
  PROVE  SyncTypes' /\ (checkpoints' => SyncShape') /\ Undisturbed
<1> DEFINE next == Headers!NextTip(b)
<1>1. \/ b # headers.first /\ Headers!Leave(upTo)
      \/ b = headers.first /\ b >= Headers!LastCheckpoint /\ Headers!SwitchSync
      \/ /\ b = headers.first /\ b < Headers!LastCheckpoint
         /\ IF b = headers.tip
            THEN /\ headers' = [headers EXCEPT !.tip = next]
                 /\ wire' = Headers!GetHeaders(wire, b, next)
                 /\ UNCHANGED wanted
            ELSE Headers!ResolveHeaders([headers EXCEPT !.first = @ + 1], wire)
         /\ UNCHANGED <<checkpoints, loader, loaderSyncing, own>>
  BY DEF Headers!ResolveChain
<1>2. SyncTypes /\ SyncShape /\ Follows
  BY DEF SyncInv, SyncShape
<1>3. /\ headers \in [first : Nat, last : 0..Height, next : 0..Height, tip : Nat]
      /\ WireOK(wire) /\ wanted \subseteq 1..Height
      /\ headerFails' \in 0..MaxFails /\ headerFails' < MaxFails /\ faults' \in 0..MaxFaults
  BY <1>2 DEF SyncTypes, SyncShape
<1>4. upTo \in 0..Height /\ b \in 0..Height /\ upTo \in Nat /\ b \in Nat /\ b <= upTo
  BY NetworkFacts
<1>5. tip \in Nat
  BY <1>2, NetworkFacts DEF SyncTypes
<1>6. Forced' = Forced /\ ~Rested
  BY DEF Forced, Rested
<1>7. CASE b # headers.first /\ Headers!Leave(upTo)
  <2>1. SyncTypes' /\ (checkpoints' => SyncShape') /\ (checkpoints' => Clean')
    BY <1>3, <1>4, <1>7, LeaveKeeps
  <2> QED
    BY <1>6, <2>1 DEF Undisturbed
<1>8. CASE b = headers.first /\ b >= Headers!LastCheckpoint /\ Headers!SwitchSync
  <2>1. SyncTypes' /\ ~checkpoints'
    BY <1>3, <1>4, <1>8, SwitchKeeps
  <2> QED
    BY <2>1 DEF Undisturbed
<1>9. CASE /\ b = headers.first /\ b < Headers!LastCheckpoint /\ b = headers.tip
           /\ headers' = [headers EXCEPT !.tip = next]
           /\ wire' = Headers!GetHeaders(wire, b, next)
           /\ UNCHANGED <<wanted, checkpoints, loader, loaderSyncing, own>>
  <2>1. next \in Checkpoints /\ b < next /\ next \in Nat
    BY <1>4, <1>9, LastOfCheckpoints, NetworkFacts
  <2> HIDE DEF next
  <2>2. WireOK(wire') /\ (BlocksOnly(wire) => Asking(wire', b, next))
    BY <1>3, <1>4, <1>9, <2>1, WireAsk
  <2>3. WireOK(wire)'
    BY <2>2 DEF WireOK
  <2>4. /\ headers' \in [first : Nat, last : 0..Height, next : 0..Height, tip : Nat]
        /\ headers'.first = b /\ headers'.last = headers.last /\ headers'.next = headers.next
        /\ headers'.tip = next
    BY <1>3, <1>9, <2>1
  <2>5. adding' \in [block : 0..Height, mine : BOOLEAN]
    BY NetworkFacts DEF Headers!None
  <2>6. SyncTypes'
    BY <1>2, <1>4, <1>9, <2>3, <2>4, <2>5 DEF SyncTypes
  <2>7. b <= upTo + 1 /\ b <= next /\ b <= upTo
    BY <1>4, <2>1
  <2>8. Follows'
    BY <1>2, <1>9, <2>4, <2>7 DEF Follows
  <2>9. SyncShape'
    BY <1>2, <1>9, <2>1, <2>4, <2>8 DEF SyncShape
  <2>10. ASSUME Fetching PROVE Fetching'
    <3>1. ~(headers.first <= tip)
      BY <1>5, <1>9
    <3>2. BlocksOnly(wire) /\ headers.last = headers.tip
      BY <2>10, <3>1 DEF Fetching
    <3>3. headers'.last = b /\ headers'.last < headers'.tip /\ headers'.first <= tip'
      BY <1>9, <2>1, <2>4, <2>7, <3>2
    <3>4. Asking(wire', headers'.last, headers'.tip)
      BY <2>2, <2>4, <3>2, <3>3
    <3>5. Asking(wire, headers.last, headers.tip)'
      BY <3>4 DEF Asking
    <3> QED
      BY <1>9, <2>10, <3>3, <3>5 DEF Fetching
  <2> QED
    BY <1>6, <2>6, <2>9, <2>10 DEF Undisturbed, Clean
<1>10. CASE /\ b = headers.first /\ b # headers.tip
            /\ Headers!ResolveHeaders([headers EXCEPT !.first = @ + 1], wire)
            /\ UNCHANGED <<checkpoints, loader, loaderSyncing, own>>
  <2> DEFINE g == [headers EXCEPT !.first = @ + 1]
  <2>1. /\ g \in [first : Nat, last : 0..Height, next : 0..Height, tip : Nat]
        /\ g.first = b + 1 /\ g.last = headers.last /\ g.next = headers.next /\ g.tip = headers.tip
    BY <1>3, <1>10
  <2>2. Headers!ResolveHeaders(g, wire)
    BY <1>10
  <2> HIDE DEF g
  <2>3. /\ headers' \in [first : Nat, last : 0..Height, next : 0..Height, tip : Nat]
        /\ headers'.first = g.first /\ headers'.last = g.last /\ headers'.tip = g.tip
        /\ headers'.next # 0 => g.next # 0 /\ g.next < headers'.next /\ headers'.next <= g.last
        /\ wanted' \subseteq 1..Height /\ WireOK(wire') /\ (BlocksOnly(wire) => BlocksOnly(wire'))
    BY <1>3, <2>1, <2>2, ResolveKeeps
  <2>4. WireOK(wire)'
    BY <2>3 DEF WireOK
  <2>5. adding' \in [block : 0..Height, mine : BOOLEAN]
    BY NetworkFacts DEF Headers!None
  <2>6. SyncTypes'
    BY <1>2, <1>4, <1>10, <2>3, <2>4, <2>5 DEF SyncTypes
  <2>7. Follows'
    <3> DEFINE n == headers'.next
               last == headers.last
               top == headers.tip
    <3>1. last \in Nat /\ top \in Nat /\ n \in Nat /\ headers.next \in Nat
      BY <1>3, <2>3, NetworkFacts
    <3>2. /\ b <= last /\ b <= top /\ (b <= tip \/ last >= top) /\ b # top
          /\ headers.next # 0 => b <= headers.next
      <4>1. /\ headers.first <= headers.last
            /\ headers.next # 0 => headers.next \in (headers.first)..(headers.last)
            /\ headers.first <= headers.tip
            /\ headers.first <= tip \/ headers.last >= headers.tip
        BY <1>2 DEF Follows
      <4>2. headers.next # 0 => b <= headers.next
        BY <1>4, <1>10, <3>1, <4>1
      <4> QED
        BY <1>10, <4>1, <4>2
    <3>3. n # 0 => headers.next # 0 /\ headers.next < n /\ n <= last
      BY <2>1, <2>3
    <3>4. headers'.first = b + 1 /\ headers'.last = last /\ headers'.tip = top
      BY <2>1, <2>3
    <3> HIDE DEF n, last, top
    <3>5. ~(b <= tip)
      BY <1>4, <1>5
    <3>6. /\ b + 1 <= last /\ b + 1 <= upTo + 1 /\ b + 1 <= top /\ last >= top
          /\ n # 0 => n \in (b + 1)..last
      BY <1>4, <3>1, <3>2, <3>3, <3>5
    <3> QED
      BY <3>4, <3>6 DEF Follows, n
  <2>8. SyncShape'
    BY <1>2, <1>10, <2>1, <2>3, <2>7 DEF SyncShape
  <2>9. ASSUME Fetching PROVE Fetching'
    <3>1. ~(headers.first <= tip)
      BY <1>5, <1>10
    <3>2. BlocksOnly(wire) /\ headers.last = headers.tip
      BY <2>9, <3>1 DEF Fetching
    <3>3. BlocksOnly(wire)'
      BY <2>3, <3>2 DEF BlocksOnly
    <3>4. headers'.last = headers'.tip
      BY <2>1, <2>3, <3>2
    <3> QED
      BY <1>10, <2>9, <3>3, <3>4 DEF Fetching
  <2> QED
    BY <1>6, <2>6, <2>8, <2>9 DEF Undisturbed, Clean
<1> QED
  BY <1>1, <1>7, <1>8, <1>9, <1>10

LEMMA AddBlockKeeps ==
  ASSUME NetworkOptions, SyncInv, checkpoints, Headers!AddBlock
  PROVE  SyncTypes' /\ (checkpoints' => SyncShape') /\ Undisturbed
<1> DEFINE b == adding.block
           S == {h \in b..Height : \A k \in (b + 1)..h : k \in orphans}
           upTo == Headers!Max(S)
<1>1. /\ adding # Headers!None /\ ~resetting /\ adding' = Headers!None
      /\ UNCHANGED <<resetting, headerFails, on, resyncs, faults>>
  BY DEF Headers!AddBlock
<1>2. IF b = tip + 1
      THEN /\ tip' = upTo /\ orphans' = orphans \ (b..upTo)
           /\ IF adding.mine THEN Headers!ResolveChain(b, upTo)
              ELSE UNCHANGED <<checkpoints, headers, loader, loaderSyncing, own, wire, wanted>>
      ELSE /\ orphans' = IF b > tip THEN orphans \cup {b} ELSE orphans
           /\ UNCHANGED <<tip, checkpoints, headers, loader, loaderSyncing, own, wire, wanted>>
  BY DEF Headers!AddBlock, Headers!headerVars, Headers!peerVars
<1>3. /\ b \in 1..Height /\ orphans \subseteq 1..Height /\ tip \in 0..Height /\ Height \in Nat
  BY <1>1, NetworkFacts DEF SyncInv, SyncTypes
<1> HIDE DEF b
<1>4. upTo \in b..Height
  <2>1. S \subseteq 0..Height
    BY <1>3
  <2>2. b \in S
    BY <1>3
  <2>3. upTo \in S
    <3> HIDE DEF S
    <3> QED
      BY <1>3, <2>1, <2>2, GreatestOf
  <2> QED
    BY <2>3
<1> HIDE DEF S, upTo
<1>5. upTo \in 0..Height /\ b <= upTo
  BY <1>3, <1>4
<1>6. CASE b = tip + 1
  <2>1. tip' = upTo /\ orphans' \subseteq 1..Height
    BY <1>2, <1>3, <1>6
  <2>2. CASE adding.mine
    <3>1. Headers!ResolveChain(b, upTo)
      BY <1>2, <1>6, <2>2
    <3> QED
      BY <1>1, <1>3, <1>4, <1>6, <2>1, <3>1, ResolveChainKeeps
  <2>3. CASE ~adding.mine
    <3>1. UNCHANGED <<checkpoints, headers, loader, loaderSyncing, own, wire, wanted>>
      BY <1>2, <1>6, <2>3
    <3>2. tip' \in 0..Height /\ tip <= tip'
      BY <1>3, <1>5, <1>6, <2>1
    <3> QED
      BY <1>1, <2>1, <3>1, <3>2, GrowthKeeps
  <2> QED
    BY <2>2, <2>3
<1>7. CASE b # tip + 1
  <2>1. UNCHANGED <<tip, checkpoints, headers, loader, loaderSyncing, own, wire, wanted>>
    BY <1>2, <1>7
  <2>2. orphans' \subseteq 1..Height
    BY <1>2, <1>3, <1>7
  <2>3. tip' \in 0..Height /\ tip <= tip'
    BY <1>3, <2>1
  <2> QED
    BY <1>1, <2>1, <2>2, <2>3, GrowthKeeps
<1> QED
  BY <1>6, <1>7

-----------------------------------------------------------------------------

LEMMA SyncStarts ==
  ASSUME NetworkOptions, Headers!Init
  PROVE  SyncInv
<1>1. /\ tip = 0 /\ orphans = {} /\ resetting = FALSE
      /\ checkpoints = TRUE /\ headers = Headers!Anchored(0) /\ headerFails = 0
      /\ on = FALSE /\ loader = FALSE /\ loaderSyncing = FALSE
      /\ own = FALSE /\ resyncs = {} /\ wire = <<>> /\ wanted = {}
      /\ adding = Headers!None /\ faults = 0
  BY DEF Headers!Init
<1>2. 0 \in 0..Height /\ 0 < Headers!LastCheckpoint
  <2>1. Headers!LastCheckpoint \in 1..Height /\ Height \in Nat
    BY LastOfCheckpoints, NetworkFacts
  <2> QED
    BY <2>1
<1>3. /\ headers \in [first : Nat, last : 0..Height, next : 0..Height, tip : Nat]
      /\ headers.first = 0 /\ headers.last = 0 /\ headers.next = 0
      /\ headers.tip \in Checkpoints /\ 0 < headers.tip
  BY <1>1, <1>2, AnchoredFollows
<1>4. MaxFails \in Nat \ {0} /\ MaxFaults \in Nat
  BY DEF NetworkOptions
<1>5. SyncTypes
  <2>1. adding \in [block : 0..Height, mine : BOOLEAN]
    BY <1>1, <1>2 DEF Headers!None
  <2>2. WireOK(wire)
    BY <1>1, WireEmpty
  <2>3. headerFails \in 0..MaxFails /\ faults \in 0..MaxFaults
    BY <1>1, <1>4
  <2> QED
    BY <1>1, <1>2, <1>3, <2>1, <2>2, <2>3 DEF SyncTypes
<1>6. SyncShape
  <2>1. headers.tip \in Nat
    BY <1>3
  <2>2. Follows
    BY <1>1, <1>3, <2>1 DEF Follows
  <2> QED
    BY <1>1, <1>3, <1>4, <2>2 DEF SyncShape
<1>7. Clean /\ ~Forced
  BY <1>1, <1>2 DEF Clean, Rested, Forced
<1>8. headerFails <= 2 * faults
  BY <1>1
<1> QED
  BY <1>5, <1>6, <1>7, <1>8 DEF SyncInv, Bound

LEMMA SyncSteps ==
  ASSUME NetworkOptions, SyncInv, [Headers!Next]_(Headers!vars)
  PROVE  SyncInv'
<1>1. ASSUME checkpoints,
             \/ Headers!NewLoader \/ Headers!SendSync \/ Headers!Resync \/ Headers!ResetEvent
             \/ Headers!HandleHeaders \/ Headers!TakeBlock \/ Headers!AddBlock \/ Headers!Stall
             \/ Headers!Reset \/ Headers!BadHeaders \/ Headers!Close
      PROVE  SyncInv'
  <2>1. SyncTypes' /\ (checkpoints' => SyncShape') /\ (Undisturbed \/ Punished \/ Disturbed)
    <3>1. CASE Headers!NewLoader
      BY <1>1, <3>1, NewLoaderKeeps
    <3>2. CASE Headers!SendSync
      BY <1>1, <3>2, SendSyncKeeps
    <3>3. CASE Headers!Resync
      BY <1>1, <3>3, ResyncKeeps
    <3>4. CASE Headers!ResetEvent
      BY <1>1, <3>4, ResetEventKeeps
    <3>5. CASE Headers!HandleHeaders
      BY <1>1, <3>5, HandleHeadersKeeps
    <3>6. CASE Headers!TakeBlock
      BY <1>1, <3>6, TakeBlockKeeps
    <3>7. CASE Headers!AddBlock
      BY <1>1, <3>7, AddBlockKeeps
    <3>8. CASE Headers!Stall
      BY <1>1, <3>8, StallKeeps
    <3>9. CASE Headers!Reset
      BY <1>1, <3>9, ResetKeeps
    <3>10. CASE Headers!BadHeaders
      BY <1>1, <3>10, BadHeadersKeeps
    <3>11. CASE Headers!Close
      BY <1>1, <3>11, CloseKeeps
    <3> QED
      BY <1>1, <3>1, <3>2, <3>3, <3>4, <3>5, <3>6, <3>7, <3>8, <3>9, <3>10, <3>11
  <2>2. headerFails' <= 2 * faults' /\ (checkpoints' => Bound')
    BY <1>1, <2>1, KindsKeepBound
  <2> QED
    BY <2>1, <2>2 DEF SyncInv
<1>2. CASE Headers!StartSync
  <2>1. /\ SyncTypes' /\ (checkpoints => SyncShape' /\ Undisturbed)
        /\ UNCHANGED <<checkpoints, headerFails, faults>>
    BY <1>2, StartSyncKeeps
  <2>2. checkpoints => headerFails' <= 2 * faults' /\ (checkpoints' => Bound')
    BY <2>1, KindsKeepBound
  <2> QED
    BY <2>1, <2>2 DEF SyncInv
<1>3. CASE Headers!StopSync
  <2>1. /\ SyncTypes' /\ (checkpoints => SyncShape' /\ Disturbed)
        /\ checkpoints' = checkpoints /\ headerFails' = headerFails
        /\ faults' = IF checkpoints THEN faults + 1 ELSE faults
    BY <1>3, StopSyncKeeps
  <2>2. checkpoints => headerFails' <= 2 * faults' /\ (checkpoints' => Bound')
    BY <2>1, KindsKeepBound
  <2> QED
    BY <2>1, <2>2 DEF SyncInv
<1>4. CASE UNCHANGED Headers!vars
  <2>1. UNCHANGED <<tip, orphans, resetting, checkpoints, headers, headerFails, on, loader,
                    loaderSyncing, own, resyncs, wire, wanted, adding, faults>>
    BY <1>4 DEF Headers!vars, Headers!chainVars, Headers!headerVars, Headers!peerVars
  <2>2. SyncTypes'
    BY <2>1 DEF SyncInv, SyncTypes, WireOK
  <2>3. SyncShape => SyncShape'
    BY <2>1 DEF SyncShape, Follows
  <2>4. Clean' = Clean
    BY <2>1 DEF Clean, Rested, Fetching, BlocksOnly, Asking, Headers!Anchored, Headers!NextTip
  <2>5. Forced' = Forced
    BY <2>1 DEF Forced
  <2> QED
    BY <2>1, <2>2, <2>3, <2>4, <2>5 DEF SyncInv, Bound
<1> QED
  BY <1>1, <1>2, <1>3, <1>4 DEF Headers!Next, Headers!Progress

(* Headers first, on every network with checkpoints and for every answer,  *)
(* reset, bad header and loss of a loader (resetChain, handleHeaders,      *)
(* resolveChain of pool.js): the header chain stays where the chain is,    *)
(* and a peer that serves the right chain is punished only after a         *)
(* disturbance, two of them for each one at most.                          *)
THEOREM HeadersCorrect == NetworkOptions => (Headers!Spec => []HeadersKept)
<1> SUFFICES ASSUME NetworkOptions PROVE Headers!Spec => []HeadersKept
  OBVIOUS
<1>1. Headers!Init => SyncInv
  BY SyncStarts
<1>2. SyncInv /\ [Headers!Next]_(Headers!vars) => SyncInv'
  BY SyncSteps
<1>3. SyncInv => HeadersKept
  <2> SUFFICES ASSUME SyncInv PROVE HeadersKept
    OBVIOUS
  <2>1. Headers!TypeOK
    BY DEF SyncInv, SyncTypes, Headers!TypeOK
  <2>2. Headers!HeadersFollowChain
    BY DEF SyncInv, SyncShape, Follows, Headers!HeadersFollowChain
  <2>3. Headers!FailsAreFaults
    BY DEF SyncInv, Headers!FailsAreFaults
  <2> QED
    BY <2>1, <2>2, <2>3 DEF HeadersKept, Headers!HeadersKept
<1> QED
  BY <1>1, <1>2, <1>3, PTL DEF Headers!Spec
=============================================================================
