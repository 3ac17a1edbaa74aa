------------------------------- MODULE Chain --------------------------------
(***************************************************************************)
(* lib/blockchain/chain.js and the indices of lib/blockchain/chaindb.js it *)
(* writes.  All work happens under one named FIFO lock (module Lock), so   *)
(* the module keeps the queue of waiting jobs and the one job under way.   *)
(* A job is a sequence of atomic database batches; between two of them the *)
(* process may die, and a batch may fail to be written.  The variables of  *)
(* the first group are the database, those of the second the memory.       *)
(***************************************************************************)
EXTENDS ChainTree, Sequences

CONSTANTS
  MaxQueue,     \* bound: jobs waiting for the lock
  MaxOrphans,   \* options.maxOrphans
  Mutable,      \* blocks of which a copy with a malleated body circulates
  Early,        \* blocks stamped too far in the future for now
  BadPow,       \* blocks whose hash misses their target
  AdminOps,     \* subset of {"reset", "replay", "invalidate"}
  Spv,          \* options.spv
  Prune,        \* options.prune
  KeepBlocks,   \* network.block.keepBlocks
  PruneAfter,   \* network.block.pruneAfterHeight
  Faults        \* what may fail: subset of {"batch", "reset batch", "crash"}

ASSUME ChainAssumption ==
  /\ MaxQueue \in Nat /\ MaxOrphans \in Nat
  /\ Mutable \subseteq Linked /\ Early \subseteq Linked /\ BadPow \subseteq Linked
  /\ AdminOps \subseteq {"reset", "replay", "invalidate"}
  /\ Spv \in BOOLEAN /\ Prune \in BOOLEAN /\ ~(Spv /\ Prune)
  /\ Faults \subseteq {"batch", "reset batch", "crash"}
  /\ KeepBlocks \in Nat /\ PruneAfter \in Nat

VARIABLES
  entries,      \* e, h: known block entries
  mainAt,       \* H: main-chain block at each height
  next,         \* n: main-chain successor of each block
  tips,         \* p: tips of all chains
  best,         \* R: the tip the chain state names
  stored,       \* b: blocks whose body is on disk
  undo,         \* u: coins each connected block spent
  utxo,         \* c: unspent coins

  tip,          \* Chain.tip
  rules,        \* the block whose deployment state is in Chain.state
  invalid,      \* Chain.invalid
  orphans,      \* Chain.orphanMap (orphanPrev is its index by parent)
  queue,        \* jobs waiting for Chain.locker
  job,          \* the job that holds it

  late,         \* the clock has passed the Early blocks' timestamps
  stranded      \* history: a reorganisation or reset died half way

disk == <<entries, mainAt, next, tips, best, stored, undo, utxo>>
memory == <<tip, rules, invalid, orphans, queue, job>>
vars == <<disk, memory, late, stranded>>

-----------------------------------------------------------------------------
(* Jobs.  "undone" records whether the job has disconnected a block, and   *)
(* "hash" is the block _invalidate goes on to condemn after its reset.     *)
Idle == [op |-> "idle", block |-> None, mutated |-> FALSE, undone |-> FALSE, hash |-> None]

Connecting(b, m) == [Idle EXCEPT !.op = "connect", !.block = b, !.mutated = m]

Resetting(b, h) == [Idle EXCEPT !.op = "resetting", !.block = b, !.hash = h]

Request(op, b, m) == [op |-> op, block |-> b, mutated |-> m]

OrphanBlocks == {o.block : o \in orphans}

(* resolveOrphan: at most one orphan waits for each parent.                *)
WaitingFor(b) == {o \in orphans : Parent[o.block] = b}

HasPending(b) == \E i \in DOMAIN queue : queue[i].op = "add" /\ queue[i].block = b

(* chaindb.isMainChain, on the index rather than through the caches.       *)
IsMain(b) == b = tip \/ b = Genesis \/ next[b] # None

-----------------------------------------------------------------------------
(* Verification.  A VerifyError flagged malleated may be the fault of this *)
(* copy or of the clock and does not condemn the block's hash.             *)
TooNew(b) == b \in Early /\ ~late

Verified(b, m) ==
  /\ b \notin BadCheckpoint
  /\ ~m
  /\ Spv \/ ~(b \in BadHeader \/ TooNew(b))

\* Mutant: only a malleated body is forgiven, not an early timestamp.
OnlyBodyMalleated(b, m) == b \notin BadCheckpoint /\ m

Malleated(b, m) ==
  /\ b \notin BadCheckpoint
  /\ m \/ (b \notin BadHeader /\ TooNew(b))

VerifiedInContext(b, m) == Verified(b, m) /\ (Spv \/ SpendsCorrectly(b, utxo))

(* A job ends with an error; nothing was written.                          *)
Abort ==
  /\ job' = Idle
  /\ stranded' = (stranded \/ job.undone)
  /\ UNCHANGED <<disk, tip, rules, queue, late>>

(* ... because block b was refused; a checkpoint mismatch also purges the  *)
(* orphans.                                                                *)
Refuse(b, m) ==
  /\ invalid' = IF Verified(b, m) \/ ~Malleated(b, m) THEN invalid \cup {b} ELSE invalid
  /\ orphans' = IF b \in BadCheckpoint THEN {} ELSE orphans
  /\ Abort

Throw == Abort /\ UNCHANGED <<invalid, orphans>>

\* Mutant of Finish: waiting orphans are forgotten.
ForgetOrphans(b) == job' = Idle /\ UNCHANGED orphans

(* connect() returned: go on with the orphan that waited for b, if any.    *)
Finish(b) ==
  IF WaitingFor(b) = {}
  THEN job' = Idle /\ UNCHANGED orphans
  ELSE \E o \in WaitingFor(b) :
         /\ orphans' = orphans \ {o}
         /\ job' = Connecting(o.block, o.mutated)

-----------------------------------------------------------------------------
Init ==
  /\ entries = {Genesis}
  /\ mainAt = [h \in Heights |-> IF h = 0 THEN Genesis ELSE None]
  /\ next = [b \in Blocks |-> None]
  /\ tips = {Genesis}
  /\ best = Genesis
  /\ stored = IF Spv THEN {} ELSE {Genesis}
  /\ undo = [b \in Blocks |-> {}]
  /\ utxo = {}
  /\ tip = Genesis
  /\ rules = Genesis
  /\ invalid = {}
  /\ orphans = {}
  /\ queue = <<>>
  /\ job = Idle
  /\ late = FALSE
  /\ stranded = FALSE

(* A peer, the miner or the RPC calls chain.add, reset, replay or          *)
(* invalidate, which waits for the lock.                                   *)
Call(op, b, m) ==
  /\ Len(queue) < MaxQueue
  /\ queue' = Append(queue, Request(op, b, m))
  /\ UNCHANGED <<disk, tip, rules, invalid, orphans, job, late, stranded>>

ClockAdvances ==
  /\ ~late /\ Early # {}
  /\ late' = TRUE
  /\ UNCHANGED <<disk, memory, stranded>>

-----------------------------------------------------------------------------
(* _add: the checks before a block is connected.                           *)
Taken(op) == job.op = "idle" /\ queue # <<>> /\ Head(queue).op = op

Dequeue == queue' = Tail(queue)

PendingBehind(b) ==
  \E i \in 2..Len(queue) : queue[i].op = "add" /\ queue[i].block = b

SeenBefore(b) == b = Genesis \/ PendingBehind(b) \/ b \in OrphanBlocks

Condemned(b) == b \in invalid \/ Parent[b] \in invalid

AddDuplicate(b) ==
  /\ SeenBefore(b) \/ (~Condemned(b) /\ b \in BadPow \cup entries)
  /\ Dequeue
  /\ UNCHANGED <<disk, tip, rules, invalid, orphans, job, late, stranded>>

(* hasInvalid passes the mark on to the children of an invalid block.      *)
AddCondemned(b) ==
  /\ ~SeenBefore(b) /\ Condemned(b)
  /\ invalid' = invalid \cup {b}
  /\ Dequeue
  /\ UNCHANGED <<disk, tip, rules, orphans, job, late, stranded>>

Fresh(b) == ~SeenBefore(b) /\ ~Condemned(b) /\ b \notin BadPow \cup entries

(* limitOrphans: the expired orphans go and, at the limit, the oldest of   *)
(* the others.  Ages are left open.                                        *)
Limited(os) ==
  UNION {IF Cardinality(live) < MaxOrphans \/ live = {}
         THEN {live} ELSE {live \ {o} : o \in live} : live \in SUBSET os}

(* storeOrphan: a fork of the orphan chain replaces what it forks from.    *)
AddOrphan(b, m) ==
  /\ Fresh(b) /\ Parent[b] \notin entries
  /\ \E kept \in Limited(orphans \ WaitingFor(Parent[b])) :
       orphans' = kept \cup {[block |-> b, mutated |-> m]}
  /\ Dequeue
  /\ UNCHANGED <<disk, tip, rules, invalid, job, late, stranded>>

AddConnect(b, m) ==
  /\ Fresh(b) /\ Parent[b] \in entries
  /\ job' = Connecting(b, m)
  /\ Dequeue
  /\ UNCHANGED <<disk, tip, rules, invalid, orphans, late, stranded>>

Add ==
  /\ Taken("add")
  /\ LET b == Head(queue).block
         m == Head(queue).mutated
     IN  AddDuplicate(b) \/ AddCondemned(b) \/ AddOrphan(b, m) \/ AddConnect(b, m)

-----------------------------------------------------------------------------
(* connect: the job's block goes to an alternate chain unless it has more  *)
(* work than the tip; if it does, the chain is first reorganised, one      *)
(* batch per block, until the tip is the block's parent.                   *)
\* Mutants of MoreWork: the longest chain wins; a margin is required.
Higher(b) == Height[b] > Height[tip]
MuchMoreWork(b) == Work[b] > Work[tip] + 1

MoreWork(b) == Work[b] > Work[tip]

IsAlternate == job.op = "connect" /\ ~MoreWork(job.block)
IsNext == job.op = "connect" /\ MoreWork(job.block) /\ Parent[job.block] = tip
IsFork == job.op = "connect" /\ MoreWork(job.block) /\ Parent[job.block] # tip

\* Mutants of SaveEntry: the parent stays a tip.
ParentStaysTip(b) ==
  /\ entries' = entries \cup {b}
  /\ tips' = tips \cup {b}

(* ChainDB._save, the part common to both kinds of chain.                  *)
SaveEntry(b) ==
  /\ entries' = entries \cup {b}
  /\ tips' = (tips \ {Parent[b]}) \cup {b}

SaveAlternate ==
  LET b == job.block IN
  /\ IsAlternate /\ Verified(b, job.mutated)
  /\ SaveEntry(b)
  /\ stored' = IF Spv THEN stored ELSE stored \cup {b}
  /\ Finish(b)
  /\ UNCHANGED <<mainAt, next, best, undo, utxo, tip, rules, invalid, queue, late, stranded>>

RefuseAlternate ==
  /\ IsAlternate /\ ~Verified(job.block, job.mutated)
  /\ Refuse(job.block, job.mutated)

(* The main-chain records n and H of a block.                              *)
Index(b) ==
  /\ next' = [next EXCEPT ![Parent[b]] = b]
  /\ mainAt' = [mainAt EXCEPT ![Height[b]] = b]

\* Mutants of Unindex: the n record, or the H record, is left behind.
UnindexHeight(b) ==
  /\ mainAt' = [mainAt EXCEPT ![Height[b]] = None]
  /\ UNCHANGED next
UnindexNext(b) ==
  /\ next' = [next EXCEPT ![Parent[b]] = None]
  /\ UNCHANGED mainAt

Unindex(b) ==
  /\ next' = [next EXCEPT ![Parent[b]] = None]
  /\ mainAt' = [mainAt EXCEPT ![Height[b]] = None]

\* Mutants of Expose: one of the two is forgotten.
ExposeRules(b) == rules' = b /\ UNCHANGED tip
ExposeTip(b) == tip' = b /\ UNCHANGED rules

(* Chain.tip and Chain.state change together, after the commit.            *)
Expose(b) ==
  /\ tip' = b
  /\ rules' = b

\* Mutant: prunes one block too many.
PrunedEarly(b) ==
  {x \in Blocks : Prune /\ ~Spv /\ mainAt[Height[x]] = x
                   /\ Height[x] = Height[b] - KeepBlocks /\ Height[x] >= PruneAfter}

(* pruneBlock: the body and undo coins keepBlocks below b go.              *)
Pruned(b) ==
  {x \in Blocks : Prune /\ ~Spv /\ mainAt[Height[x]] = x
                   /\ Height[x] = Height[b] - KeepBlocks /\ Height[x] > PruneAfter}

(* connectBlock and disconnectBlock: a block may spend what it creates, so *)
(* its outputs are taken back after its inputs have been restored.         *)
SpendCoins(b) ==
  /\ utxo' = (utxo \cup Creates[b]) \ Spends[b]
  /\ undo' = [x \in Blocks |-> IF x = b THEN Spends[b]
                               ELSE IF x \in Pruned(b) THEN {} ELSE undo[x]]

\* Mutants of RestoreCoins: outputs taken back first; the record kept.
RestoreInputsLast(b) ==
  /\ utxo' = (utxo \ Creates[b]) \cup undo[b]
  /\ undo' = [undo EXCEPT ![b] = {}]
KeepUndo(b) ==
  /\ utxo' = (utxo \cup undo[b]) \ Creates[b]
  /\ UNCHANGED undo

RestoreCoins(b) ==
  /\ utxo' = (utxo \cup undo[b]) \ Creates[b]
  /\ undo' = [undo EXCEPT ![b] = {}]

(* The main-chain indices and the coins of a block on top of the tip.      *)
ConnectBlock(b) ==
  /\ Index(b)
  /\ best' = b
  /\ Expose(b)
  /\ IF Spv THEN UNCHANGED <<undo, utxo>> ELSE SpendCoins(b)

(* ... and their removal when the block is taken off it again.             *)
DisconnectBlock(b) ==
  /\ Unindex(b)
  /\ best' = Parent[b]
  /\ IF Spv THEN UNCHANGED <<undo, utxo>> ELSE RestoreCoins(b)

SaveNext ==
  LET b == job.block IN
  /\ IsNext /\ VerifiedInContext(b, job.mutated)
  /\ SaveEntry(b)
  /\ ConnectBlock(b)
  /\ stored' = IF Spv THEN stored ELSE (stored \cup {b}) \ Pruned(b)
  /\ Finish(b)
  /\ UNCHANGED <<invalid, queue, late, stranded>>

RefuseNext ==
  /\ IsNext /\ ~VerifiedInContext(job.block, job.mutated)
  /\ Refuse(job.block, job.mutated)

(* reorganize.  findFork walks down both chains through their entries.     *)
Fork == CHOOSE x \in Path[tip] \cap Path[job.block] :
          \A y \in Path[tip] \cap Path[job.block] : Height[y] <= Height[x]

WalkFindsFork ==
  ((Path[tip] \cup Path[job.block]) \ (Path[Fork] \ {Fork})) \ {tip, job.block} \subseteq entries

Above == tip \notin Path[job.block]

(* disconnectBlock asserts that the undo record is what the block spent.   *)
CanUndo(b) == Spv \/ (b \in stored /\ undo[b] = Spends[b])

DisconnectTip ==
  /\ IsFork /\ ~Spv /\ WalkFindsFork /\ Above /\ CanUndo(tip)
  /\ DisconnectBlock(tip)
  /\ tip' = Parent[tip]
  /\ job' = [job EXCEPT !.undone = TRUE]
  /\ UNCHANGED <<entries, tips, stored, rules, invalid, orphans, queue, late, stranded>>

(* The next entry of the competing chain, already in the database.         *)
Successor == CHOOSE x \in Path[job.block] : Parent[x] = tip

ReconnectNext ==
  /\ IsFork /\ ~Spv /\ WalkFindsFork /\ ~Above /\ Successor \in stored
  /\ VerifiedInContext(Successor, FALSE)
  /\ ConnectBlock(Successor)
  /\ stored' = stored \ Pruned(Successor)
  /\ UNCHANGED <<entries, tips, invalid, orphans, queue, job, late, stranded>>

RefuseReconnect ==
  /\ IsFork /\ ~Spv /\ WalkFindsFork /\ ~Above /\ Successor \in stored
  /\ ~VerifiedInContext(Successor, FALSE)
  /\ Refuse(Successor, FALSE)

(* An entry or a body the reorganisation needs is gone.                    *)
ReorganizeThrows ==
  /\ IsFork
  /\ \/ ~WalkFindsFork
     \/ ~Spv /\ Above /\ ~CanUndo(tip)
     \/ ~Spv /\ ~Above /\ Successor \notin stored
  /\ Throw

-----------------------------------------------------------------------------
(* removeChains: from every tip down to the main chain.                    *)
Alternates ==
  {x \in entries : \E t \in tips : x \in Path[t] /\ \A y \in Path[t] :
                     Height[y] >= Height[x] => ~IsMain(y)}

RemoveChains(target, hash) ==
  /\ entries' = entries \ Alternates
  /\ tips' = tips \ Alternates
  /\ stored' = stored \ Alternates
  /\ job' = Resetting(target, hash)
  /\ UNCHANGED <<mainAt, next, best, undo, utxo, tip, rules, invalid, orphans, late, stranded>>

(* reset names its target; replay and invalidate name the first block to   *)
(* be taken off.                                                           *)
Target(op, b) == IF op = "reset" \/ b = Genesis THEN b ELSE Parent[b]

Admin(op) ==
  LET b == Head(queue).block IN
  /\ Taken(op)
  /\ Dequeue
  /\ IF b \in entries /\ IsMain(b) /\ Target(op, b) \in entries /\ IsMain(Target(op, b)) /\ ~Prune
     THEN RemoveChains(Target(op, b), IF op = "invalidate" THEN b ELSE None)
     ELSE UNCHANGED <<disk, tip, rules, invalid, orphans, job, late, stranded>>

(* reorganizeSPV: reset to the fork; the new block itself is not saved and *)
(* has to be downloaded again.                                             *)
ReorganizeSPV ==
  /\ IsFork /\ Spv /\ WalkFindsFork
  /\ RemoveChains(Fork, None)
  /\ UNCHANGED queue

(* reset's loop: one batch takes the last block off the database.          *)
ResetStep ==
  /\ job.op = "resetting" /\ best # job.block
  /\ best # Genesis /\ CanUndo(best)
  /\ tips' = (tips \ {best}) \cup {Parent[best]}
  /\ entries' = entries \ {best}
  /\ stored' = stored \ {best}
  /\ DisconnectBlock(best)
  /\ UNCHANGED <<memory, late, stranded>>

(* The loop is done: Chain._reset exposes the new tip and purges the       *)
(* orphans.  _invalidate then fails on this.chain, before it has marked    *)
(* the block.                                                              *)
ResetDone ==
  /\ job.op = "resetting" /\ best = job.block
  /\ Expose(best)
  /\ orphans' = {}
  /\ job' = Idle
  /\ stranded' = (entries # Path[best])
  /\ UNCHANGED <<disk, invalid, queue, late>>

-----------------------------------------------------------------------------
(* The database refuses a batch the job was about to write.                *)
Writing ==
  \/ IsAlternate /\ Verified(job.block, job.mutated)
  \/ IsNext /\ VerifiedInContext(job.block, job.mutated)
  \/ IsFork /\ ~Spv /\ WalkFindsFork /\ Above /\ CanUndo(tip)
  \/ IsFork /\ ~Spv /\ WalkFindsFork /\ ~Above /\ Successor \in stored
       /\ VerifiedInContext(Successor, FALSE)

CommitFails == "batch" \in Faults /\ Writing /\ Throw

(* ... or one of reset's, or reset cannot go on: the blocks already taken  *)
(* off stay off, while Chain.tip still names the old tip.                  *)
ResetFails ==
  /\ job.op = "resetting"
  /\ \/ "reset batch" \in Faults
     \/ best # job.block /\ (best = Genesis \/ ~CanUndo(best))
  /\ job' = Idle
  /\ stranded' = TRUE
  /\ UNCHANGED <<disk, tip, rules, invalid, orphans, queue, late>>

(* The process dies and starts again from its database.                    *)
Restart ==
  /\ "crash" \in Faults
  /\ Expose(best)
  /\ invalid' = {}
  /\ orphans' = {}
  /\ queue' = <<>>
  /\ job' = Idle
  /\ stranded' = (stranded \/ job.undone)
  /\ UNCHANGED <<disk, late>>

-----------------------------------------------------------------------------
Step ==
  \/ Add
  \/ \E op \in AdminOps : Admin(op)
  \/ SaveAlternate \/ RefuseAlternate \/ SaveNext \/ RefuseNext
  \/ DisconnectTip \/ ReconnectNext \/ RefuseReconnect \/ ReorganizeThrows
  \/ ReorganizeSPV \/ ResetStep \/ ResetDone

Deliver(b) == Call("add", b, FALSE) \/ (b \in Mutable /\ Call("add", b, TRUE))

Next ==
  \/ \E b \in Blocks : Deliver(b) \/ \E op \in AdminOps : Call(op, b, FALSE)
  \/ ClockAdvances
  \/ Step
  \/ CommitFails \/ ResetFails \/ Restart

Spec == Init /\ [][Next]_vars

(* The lock is released by every job, and a waiting job is then started.   *)
FairSpec == Spec /\ WF_vars(Step)

(* ... and, while blocks are missing, one of them is offered again.        *)
Sync(b) ==
  /\ b \in Linked \ entries /\ ~HasPending(b) /\ Parent[b] \in entries
  /\ Call("add", b, FALSE)

-----------------------------------------------------------------------------
Orphan == [block : Linked, mutated : BOOLEAN]

TypeOK ==
  /\ entries \subseteq Blocks /\ tips \subseteq Blocks /\ stored \subseteq Blocks
  /\ mainAt \in [Heights -> Blocks \cup {None}]
  /\ next \in [Blocks -> Blocks \cup {None}]
  /\ best \in Blocks /\ tip \in Blocks /\ rules \in Blocks
  /\ undo \in [Blocks -> SUBSET Coins] /\ utxo \subseteq Coins
  /\ invalid \subseteq Blocks
  /\ orphans \subseteq Orphan
  /\ queue \in Seq([op : {"add"} \cup AdminOps, block : Blocks, mutated : BOOLEAN])
  /\ job \in [op : {"idle", "connect", "resetting"}, block : Blocks \cup {None},
              mutated : BOOLEAN, undone : BOOLEAN, hash : Blocks \cup {None}]
  /\ late \in BOOLEAN /\ stranded \in BOOLEAN

(* The three main-chain indices agree at every batch boundary: the chain   *)
(* state R, the height index H and the successor index n describe the one  *)
(* path from the genesis block to the tip, with nothing left over from     *)
(* branches that were reorganised away, and that path is fully recorded.   *)
IndicesAgree ==
  /\ Path[best] \subseteq entries
  /\ \A h \in Heights, b \in Blocks :
       mainAt[h] = b <=> Height[b] = h /\ b \in Path[best]
  /\ \A b, c \in Blocks : next[b] = c <=> Parent[c] = b /\ c \in Path[best]

(* The coin database is exactly what replaying the main chain from the     *)
(* genesis block would give, after any number of reorganisations.          *)
CoinsAreReplay == ~Spv => utxo = UtxoOf[best]

(* Every main-chain block whose body is kept can be taken back: its undo   *)
(* record is what it spent.  Blocks off the main chain have none.          *)
UndoIsExact ==
  \A b \in Blocks :
    undo[b] = IF b \in Path[best] \cap stored /\ ~Spv THEN Spends[b] ELSE {}

(* Entries form a tree rooted at the genesis block, and every branch that  *)
(* is not the main chain hangs from a tip of the tip index: removeChains   *)
(* would otherwise leave part of a branch behind.                          *)
BranchesHaveTips ==
  /\ \A b \in entries \ {Genesis} : Parent[b] \in entries
  /\ \A b \in entries \ {best} : (\A c \in entries : Parent[c] # b) => b \in tips
  /\ \A t \in tips : t \in entries /\ \A c \in entries : Parent[c] # t

(* The assertions of UndoCoins.apply and disconnectBlock hold: a block     *)
(* about to be taken off the chain has the undo record of all it spent.    *)
UndoAssertions ==
  /\ IsFork /\ ~Spv /\ WalkFindsFork /\ Above /\ tip \in stored => CanUndo(tip)
  /\ job.op = "resetting" /\ best # job.block /\ best \in stored => CanUndo(best)

(* The tip in memory is the durable one whenever no reset is running.      *)
TipIsDurable == job.op # "resetting" => tip = best

(* A block is condemned only if it or an ancestor breaks a rule for good:  *)
(* never because a malleated copy of it came first, or because the clock   *)
(* was behind, or because its coins were looked up on another branch.      *)
OnlyInvalidCondemned == ~Spv => \A b \in invalid : ~ValidPath(b)

(* Between jobs an orphan waits for a parent the chain really lacks, no    *)
(* two orphans wait for the same parent (addOrphan asserts it), and their  *)
(* number respects the limit.                                              *)
OrphansAwaitParents ==
  /\ \A o, p \in orphans : Parent[o.block] = Parent[p.block] => o = p
  /\ \A b \in OrphanBlocks : b \notin entries
  /\ job.op = "idle" => \A b \in OrphanBlocks : Parent[b] \notin entries
  /\ Cardinality(orphans) <= IF MaxOrphans = 0 THEN 1 ELSE MaxOrphans

(* Between jobs no recorded valid chain has more work than the tip, unless *)
(* a reorganisation or a reset died half way since.                        *)
TipHasMostWork ==
  job.op = "idle" /\ ~stranded =>
    \A b \in entries : Spv \/ ValidPath(b) => Work[b] <= Work[tip]

(* The consensus rules in force are those of the tip, again unless a       *)
(* reorganisation died half way.                                           *)
RulesMatchTip == job.op = "idle" /\ ~stranded => rules = tip

(* Without pruning no body is ever lost.  With it, the main chain has lost *)
(* exactly the bodies keepBlocks or more below its highest block, except   *)
(* that what was lost before a reorganisation stays lost.                  *)
BodiesKept ==
  ~Spv =>
    /\ ~Prune => entries \subseteq stored
    /\ \A b \in Path[best] \ stored :
         Height[b] > PruneAfter /\ \E c \in entries : Height[c] >= Height[b] + KeepBlocks
    /\ Prune => \A b \in Path[best] :
         PruneAfter < Height[b] /\ Height[b] <= Height[best] - KeepBlocks => b \notin stored

(* Whatever happens, the database keeps the promise of module Ledger.      *)
Promise == INSTANCE Ledger WITH head <- best, coins <- utxo

ImplementsLedger == Promise!Spec

(* A node that is offered every block ends on the chain with most work,    *)
(* and stays there, if all blocks are valid and nothing fails: whatever    *)
(* the order and the number of reorganisations and of orphans.             *)
Heaviest == CHOOSE b \in Blocks : \A c \in Blocks : ValidPath(c) => ValidPath(b) /\ Work[b] >= Work[c]

Converges == <>[](tip = Heaviest)

(* reset removes all alternate chains (ChainDB.reset, removeChains): when  *)
(* it is done the database holds the main chain and nothing else.          *)
ResetLeavesMainChain == [][ResetDone => entries' = Path[best']]_vars
=============================================================================
