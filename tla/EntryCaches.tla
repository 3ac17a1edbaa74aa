---------------------------- MODULE EntryCaches ----------------------------
(***************************************************************************)
(* The caches in front of the chain's database (ChainDB of                 *)
(* src/lib/blockchain/chaindb.js): entries by hash, entries of the main    *)
(* chain by height, coins.  The chain changes the database under its lock, *)
(* a batch at a time, and brings the caches up to date once the batch is   *)
(* committed.  Peers, the RPC server and the wallet read without the lock, *)
(* and what they read goes into the caches too.  A read is answered from   *)
(* the database as it is when the read starts, and the answer may arrive   *)
(* after that of a batch that was written later.                           *)
(***************************************************************************)
EXTENDS ChainTree

CONSTANTS
  Readers,               \* calls of getEntry and getCoin that run at a time
  MaxLate                \* bound: batches that one read may be overtaken by

VARIABLES
  head, known,           \* disk: the main chain (R, H, n, c) and the entries (e, h)
  byHash, byHeight,      \* cacheHash, cacheHeight
  coinCache,
  work,                  \* the call that holds the lock, and the block it is about
  batch,                 \* written, but the code that waits for it has not run yet
  reads,                 \* [Readers -> what they wait for]
  stale                  \* history: cached from a read that a removal overtook

cacheVars == <<byHash, byHeight, coinCache>>
vars == <<head, known, cacheVars, work, batch, reads, stale>>

Idle == [op |-> "idle", goal |-> None]
NoBatch == [op |-> "none", blocks |-> {}, from |-> None]

(* Of a read that will find something: the object that the reader took     *)
(* hold of is still the chain's (same), batches written since (late).      *)
NoRead == [at |-> "idle", key |-> None, byHeight |-> FALSE, same |-> FALSE, late |-> 0]

MainAt(h) == {b \in Path[head] : Height[b] = h}

(* A node that has just been started: nothing is cached.                   *)
Init ==
  /\ head \in {b \in Blocks : ValidPath(b)}
  /\ \E b \in Blocks : ValidPath(b) /\ Work[b] <= Work[head] /\ known = Path[head] \cup Path[b]
  /\ byHash = {} /\ byHeight = [h \in Heights |-> None] /\ coinCache = {}
  /\ work = Idle /\ batch = NoBatch
  /\ reads = [r \in Readers |-> NoRead] /\ stale = {}

-----------------------------------------------------------------------------
(* The database as the caches show it.                                     *)
Has(b) == b \in byHash \cup known
Seen == coinCache \cup UtxoOf[head]

(* A batch reaches the disk; the reads under way do not see it.            *)
Write(op, blocks) ==
  /\ batch = NoBatch
  /\ \A r \in Readers : reads[r].at # "idle" => reads[r].late < MaxLate
  /\ batch' = [op |-> op, blocks |-> blocks, from |-> head]
  /\ reads' = [r \in Readers |->
       IF reads[r].at = "idle" THEN NoRead ELSE [reads[r] EXCEPT !.late = @ + 1]]

Connect(b) ==
  /\ SpendsCorrectly(b, Seen)
  /\ Write("connect", {b})
  /\ head' = b /\ known' = known \cup {b}

SaveAlternate(b) ==
  /\ Write("alternate", {b})
  /\ known' = known \cup {b} /\ UNCHANGED head

(* Chain._add: a block that the database has is a duplicate, one whose     *)
(* parent it lacks an orphan.  One with more work than the tip, and not on *)
(* top of it, starts a reorganisation, which reads the entries of both     *)
(* branches down to the fork; it fails if one of them is gone.             *)
AddBlock(b) ==
  /\ work = Idle /\ batch = NoBatch
  /\ b # Genesis /\ ~Has(b) /\ Has(Parent[b])
  /\ \/ /\ Work[b] <= Work[head]
        /\ SaveAlternate(b)
        /\ byHash' = byHash \cup {Parent[b]} /\ UNCHANGED work
     \/ /\ Work[b] > Work[head] /\ Parent[b] = head
        /\ Connect(b)
        /\ byHash' = byHash \cup {head} /\ UNCHANGED work
     \/ /\ Work[b] > Work[head] /\ Parent[b] # head
        /\ \A a \in Path[Parent[b]] : Has(a)
        /\ work' = [op |-> "reorganize", goal |-> b]
        /\ byHash' = byHash \cup {a \in Path[Parent[b]] \cup Path[head] :
                                 Height[a] >= Cardinality(Path[head] \cap Path[b]) - 1}
        /\ UNCHANGED <<head, known, batch, reads>>
  /\ UNCHANGED <<byHeight, coinCache, stale>>

(* Chain.reorganize and the end of setBestChain: one batch for each block. *)
DisconnectTip ==
  /\ work.op = "reorganize" /\ head \notin Path[work.goal]
  /\ Write("disconnect", {head})
  /\ head' = Parent[head]
  /\ UNCHANGED <<known, cacheVars, work, stale>>

ConnectNext ==
  /\ work.op = "reorganize" /\ head \in Path[work.goal]
  /\ \E b \in Path[work.goal] :
       /\ Parent[b] = head /\ (b \in known \/ b = work.goal)
       /\ Connect(b)
       /\ work' = IF b = work.goal THEN Idle ELSE work
  /\ UNCHANGED <<cacheVars, stale>>

(* A body that is gone, a block that breaks a rule, a batch that fails.    *)
ReorganizeThrows ==
  /\ work.op = "reorganize" /\ batch = NoBatch
  /\ work' = Idle
  /\ UNCHANGED <<head, known, cacheVars, batch, reads, stale>>

(* Chain._reset and ChainDB.reset to a block of the main chain: the other  *)
(* branches first, then the main chain from its tip.                       *)
Reset(b) ==
  LET branches == (UNION {Path[a] : a \in known}) \ Path[head]
  IN  /\ work = Idle /\ b \in Path[head]
      /\ \A a \in branches : Has(a)
      /\ Write("remove chains", branches)
      /\ known' = Path[head]
      /\ byHash' = byHash \cup {b, head} \cup branches \cup {Parent[a] : a \in branches}
      /\ work' = [op |-> "reset", goal |-> b]
      /\ UNCHANGED <<head, byHeight, coinCache, stale>>

ResetStep ==
  /\ work.op = "reset" /\ head # work.goal
  /\ Write("remove", {head})
  /\ head' = Parent[head] /\ known' = known \ {head}
  /\ UNCHANGED <<cacheVars, work, stale>>

(* The last batch writes the tip once more; Chain.state is computed anew.  *)
ResetDone ==
  /\ work.op = "reset" /\ head = work.goal /\ batch = NoBatch
  /\ work' = Idle
  /\ reads' = [r \in Readers |-> [reads[r] EXCEPT !.same = FALSE]]
  /\ UNCHANGED <<head, known, cacheVars, batch, stale>>

(* What connectBlock and disconnectBlock hand to saveView.                 *)
Pushed(op, b) == IF op = "connect" THEN Creates[b] \ Spends[b] ELSE Spends[b] \ Creates[b]
Unpushed(op, b) == IF op = "connect" THEN Spends[b] ELSE Creates[b]

\* Mutant: the branches that a reset removes stay in the cache.
RemovedByOne == IF batch.op = "remove" THEN batch.blocks ELSE {}

(* The blocks whose entries the batch deletes.                             *)
Removed == IF batch.op \in {"remove", "remove chains"} THEN batch.blocks ELSE {}

(* The reads that took hold of an object which the batch replaces:         *)
(* ChainDB.state by every batch that moves the tip, Chain.state by those   *)
(* that connect a block.                                                   *)
Overtaken(r) ==
  \/ reads[r].at = "coin" /\ batch.op \in {"connect", "disconnect", "remove"}
  \/ reads[r].at # "coin" /\ batch.op = "connect"

(* ChainDB.commit, once the batch is written, and what its callers do next *)
(* without giving up the thread.                                           *)
Commit ==
  /\ batch # NoBatch
  /\ byHash' = IF batch.op \in {"connect", "alternate"} THEN byHash \cup batch.blocks
               ELSE byHash \ Removed
  /\ byHeight' = [h \in Heights |->
       IF \E b \in batch.blocks : Height[b] = h /\ batch.op \in {"connect", "disconnect", "remove"}
       THEN IF batch.op = "connect" THEN CHOOSE b \in batch.blocks : Height[b] = h ELSE None
       ELSE byHeight[h]]
  /\ coinCache' =
       IF batch.op \in {"connect", "disconnect", "remove"}
       THEN (coinCache \ UNION {Unpushed(batch.op, b) : b \in batch.blocks})
              \cup UNION {Pushed(batch.op, b) : b \in batch.blocks}
       ELSE coinCache
  /\ reads' = [r \in Readers |->
       IF Overtaken(r) THEN [reads[r] EXCEPT !.same = FALSE] ELSE reads[r]]
  /\ batch' = NoBatch
  /\ UNCHANGED <<head, known, work, stale>>

-----------------------------------------------------------------------------
(* getEntryByHash and getEntryByHeight, of what is not cached.             *)
AskEntry(r, b) ==
  /\ reads[r].at = "idle" /\ b \in known \ byHash
  /\ reads' = [reads EXCEPT ![r] = [NoRead EXCEPT !.at = "entry", !.key = b, !.same = TRUE]]
  /\ UNCHANGED <<head, known, cacheVars, work, batch, stale>>

AskHeight(r, h) ==
  /\ reads[r].at = "idle" /\ byHeight[h] = None
  /\ \E b \in MainAt(h) :
       reads' = [reads EXCEPT ![r] =
         [NoRead EXCEPT !.at = "height", !.key = b, !.byHeight = TRUE]]
  /\ UNCHANGED <<head, known, cacheVars, work, batch, stale>>

(* The hash of the height has arrived: Chain.state is taken hold of now.   *)
HeightRead(r) ==
  LET b == reads[r].key
  IN  /\ reads[r].at = "height"
      /\ byHeight' = IF b \in byHash THEN [byHeight EXCEPT ![Height[b]] = b] ELSE byHeight
      /\ reads' = [reads EXCEPT ![r] =
           IF b \in known \ byHash
           THEN [@ EXCEPT !.at = "entry", !.same = TRUE, !.late = 0] ELSE NoRead]
      /\ UNCHANGED <<head, known, byHash, coinCache, work, batch, stale>>

EntryRead(r) ==
  LET b == reads[r].key
  IN  /\ reads[r].at = "entry"
      /\ byHash' = byHash \cup {b}
      /\ byHeight' = IF reads[r].byHeight /\ reads[r].same
                     THEN [byHeight EXCEPT ![Height[b]] = b] ELSE byHeight
      /\ stale' = stale \cup ({b} \ known)
      /\ reads' = [reads EXCEPT ![r] = NoRead]
      /\ UNCHANGED <<head, known, coinCache, work, batch>>

(* getCoin                                                                 *)
AskCoin(r, c) ==
  /\ reads[r].at = "idle" /\ c \in UtxoOf[head] \ coinCache
  /\ reads' = [reads EXCEPT ![r] = [NoRead EXCEPT !.at = "coin", !.key = c, !.same = TRUE]]
  /\ UNCHANGED <<head, known, cacheVars, work, batch, stale>>

\* Mutant: a coin is cached whatever happened since it was asked for.
CoinReadAnyway(r) ==
  /\ reads[r].at = "coin"
  /\ coinCache' = coinCache \cup {reads[r].key}
  /\ reads' = [reads EXCEPT ![r] = NoRead]
  /\ UNCHANGED <<head, known, byHash, byHeight, work, batch, stale>>

CoinRead(r) ==
  /\ reads[r].at = "coin"
  /\ coinCache' = IF reads[r].same THEN coinCache \cup {reads[r].key} ELSE coinCache
  /\ reads' = [reads EXCEPT ![r] = NoRead]
  /\ UNCHANGED <<head, known, byHash, byHeight, work, batch, stale>>

(* The process dies; what is cached dies with it.                          *)
Restart ==
  /\ byHash' = {} /\ byHeight' = [h \in Heights |-> None] /\ coinCache' = {}
  /\ work' = Idle /\ batch' = NoBatch /\ reads' = [r \in Readers |-> NoRead] /\ stale' = {}
  /\ UNCHANGED <<head, known>>

Writes ==
  \/ \E b \in Blocks : AddBlock(b)
  \/ \E b \in Blocks : Reset(b)
  \/ DisconnectTip \/ ConnectNext \/ ReorganizeThrows
  \/ ResetStep \/ ResetDone \/ Commit

Reads(r) ==
  \/ \E b \in Blocks : AskEntry(r, b)
  \/ \E h \in Heights : AskHeight(r, h)
  \/ \E c \in Coins : AskCoin(r, c)
  \/ HeightRead(r) \/ EntryRead(r) \/ CoinRead(r)

Next == Writes \/ (\E r \in Readers : Reads(r)) \/ Restart

Spec == Init /\ [][Next]_vars

-----------------------------------------------------------------------------
(* A coin in the cache is unspent: no read that was under way while a      *)
(* block came or went has put one there that the block spent or took back. *)
(* The chain verifies the inputs of blocks against this cache.             *)
CoinCacheIsTrue == batch = NoBatch => coinCache \subseteq UtxoOf[head]

(* Up to the tip, the cache by height holds the main chain's entries,      *)
(* which ChainEntry.isMainChain trusts; and hasEntry finds the blocks that *)
(* the database has and no others, but those whose entry was read before   *)
(* the block was removed and cached after it: getEntryByHash does not look *)
(* whether anything happened meanwhile.                                    *)
EntryCachesAreTrue ==
  batch = NoBatch =>
    /\ \A h \in Heights : h <= Height[head] => byHeight[h] = None \/ byHeight[h] \in MainAt(h)
    /\ byHash \subseteq known \cup stale
=============================================================================
