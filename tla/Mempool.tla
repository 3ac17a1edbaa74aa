------------------------------ MODULE Mempool -------------------------------
(***************************************************************************)
(* lib/mempool/mempool.js, with the hooks of lib/node/fullnode.js that     *)
(* tell it of blocks connected, disconnected and reset.  The mempool works *)
(* under the chain's lock (this.locker = chain.locker), so one call runs   *)
(* at a time; but a call is a cascade: a transaction that gets in resolves *)
(* the orphans that waited for it, each is inserted in turn before the     *)
(* size of the pool is limited on behalf of the first.  "agenda" is what   *)
(* the call under way still has to do, innermost first.                    *)
(*                                                                         *)
(* Fees, priorities and ages are left open: any root of the pool may be    *)
(* the cheapest or have expired.  Every transaction has size one.          *)
(***************************************************************************)
EXTENDS Naturals, Sequences, FiniteSets

CONSTANTS
  Txs,          \* transactions that circulate
  Base,         \* transactions confirmed below any block that may be undone
  None,         \* no transaction
  Outs,         \* Outs[t]: the outputs t creates
  Owner,        \* Owner[o]: the transaction that creates output o
  Inputs,       \* Inputs[t]: the outputs t spends, in order (Txs only)
  NonStandard,  \* refused by policy before anything is looked up
  BadScripts,   \* fail verify() once their coins are known
  Templates,    \* sequences of transactions a block may carry
  MaxBlocks,    \* bound: blocks above Base
  Racing,       \* transactions of which another addTX may wait for the lock
  MaxSize,      \* options.maxSize
  Threshold,    \* maxSize - maxSize / 10
  MaxOrphans,   \* options.maxOrphans
  MaxAncestors  \* options.maxAncestors

All == Txs \cup Base

Outputs == UNION {Outs[t] : t \in All}

In(t) == {Inputs[t][i] : i \in DOMAIN Inputs[t]}

ParentsOf(t) == {Owner[o] : o \in In(t)}

ASSUME MempoolAssumption ==
  /\ Txs \cap Base = {} /\ None \notin All
  /\ \A t \in All : \A o \in Outs[t] : Owner[o] = t
  /\ \A t \in Txs : Inputs[t] \in Seq(Outputs) \ {<<>>} /\ t \notin ParentsOf(t)
  /\ Templates \subseteq Seq(Txs)
  /\ NonStandard \subseteq Txs /\ BadScripts \subseteq Txs
  /\ MaxSize \in Nat /\ Threshold \in 0..MaxSize
  /\ MaxOrphans \in Nat /\ MaxAncestors \in Nat /\ MaxBlocks \in Nat
  /\ Racing \subseteq Txs

VARIABLES
  chain,        \* the transactions of each block above Base (external: Chain)
  pool,         \* Mempool.map
  spents,       \* Mempool.spents: the entry that spends each output
  orphans,      \* Mempool.orphans: Orphan.missing, 0 if t is not one
  waiting,      \* Mempool.waiting: the orphans that wait for each hash
  rejects,      \* Mempool.rejects
  agenda,       \* what the running call still has to do
  lost,         \* history: transactions of a block that did not come back
  failed        \* history: what a failed assertion cut short

entries == <<pool, spents>>
vars == <<chain, entries, orphans, waiting, rejects, agenda, lost, failed>>

-----------------------------------------------------------------------------
(* The chain database as the mempool reads it.                             *)
BlockTxs(b) == {b[i] : i \in DOMAIN b}

Confirmed == Base \cup UNION {BlockTxs(chain[h]) : h \in DOMAIN chain}

SpentOnChain == UNION {In(t) : t \in Confirmed \ Base}

Coins == (UNION {Outs[t] : t \in Confirmed}) \ SpentOnChain

(* A block is valid if its transactions spend unspent coins in order.      *)
Connects(b) ==
  \A i \in DOMAIN b :
    LET before == {b[j] : j \in 1..(i - 1)} IN
    /\ b[i] \notin Confirmed \cup before \cup BadScripts
    /\ In(b[i]) \subseteq (Coins \cup UNION {Outs[t] : t \in before})
                            \ UNION {In(t) : t \in before}

-----------------------------------------------------------------------------
(* Work items of a call.                                                   *)
Callers == {"peer", "orphan", "block"}

Insert(t, from) == [do |-> "insert", tx |-> t, from |-> from]
Trim(t, from) == [do |-> "trim", tx |-> t, from |-> from]
Confirm(t) == [do |-> "confirm", tx |-> t, from |-> "block"]
Done == [do |-> "done", tx |-> None, from |-> "block"]

Doing(what) == agenda # <<>> /\ Head(agenda).do = what

Now(item) == agenda # <<>> /\ Head(agenda) = item

(* An assertion that fails is no VerifyError: it leaves every insertion    *)
(* under way, up to the loop of _removeBlock, which goes on with the next  *)
(* transaction of the block, or to the caller.                             *)
Unwound(items) ==
  LET outer == {i \in DOMAIN items : items[i].from = "block" /\ items[i].do # "trim"} IN
  IF outer = {} THEN <<>>
  ELSE LET first == CHOOSE i \in outer : \A j \in outer : i <= j
       IN  SubSeq(items, first, Len(items))

-----------------------------------------------------------------------------
(* Entries.                                                                *)
\* Mutant: an evicted entry's inputs stay spent.
UntrackKeepingSpents(S) == pool' = pool \ S /\ UNCHANGED spents

Untrack(S) ==
  /\ pool' = pool \ S
  /\ spents' = [o \in Outputs |-> IF \E t \in S : o \in In(t) THEN None ELSE spents[o]]

Track(t) ==
  /\ pool' = pool \cup {t}
  /\ spents' = [o \in Outputs |-> IF o \in In(t) THEN t ELSE spents[o]]

(* removeSpenders: the entries of X and all that spend their outputs.      *)
Package(X) ==
  LET Closed(S) == \A o \in Outputs : Owner[o] \in S /\ spents[o] # None => spents[o] \in S
  IN  {t \in pool : \A S \in SUBSET pool : X \subseteq S /\ Closed(S) => t \in S}

(* countAncestors: the entries t spends from, directly or not.             *)
Ancestors(t) ==
  LET Closed(S) == \A s \in S \cup {t} : ParentsOf(s) \cap pool \subseteq S
  IN  {a \in pool : \A S \in SUBSET pool : Closed(S) => a \in S}

Roots == {t \in pool : ParentsOf(t) \cap pool = {}}

(* limitSize: the expired roots go with their packages, then the cheapest  *)
(* until the pool is below the threshold.                                  *)
Remaining(X) == Cardinality(pool \ Package(X))

Overflow(expired, cheap) ==
  \/ cheap = {} /\ Remaining(expired) <= Threshold
  \/ /\ Remaining(expired) > Threshold
     /\ Remaining(expired \cup cheap) <= Threshold
     /\ \E last \in cheap : Remaining((expired \cup cheap) \ {last}) > Threshold

-----------------------------------------------------------------------------
(* Orphans.                                                                *)
Waits(t, h) == \E i \in DOMAIN waiting[h] : waiting[h][i] = t

(* What s has at the positions P, in order.                                *)
Picked(s, P) ==
  [n \in 1..Cardinality(P) |-> s[CHOOSE i \in P : Cardinality({j \in P : j <= i}) = n]]

Without(s, t) == Picked(s, {i \in DOMAIN s : s[i] # t})

(* removeOrphan goes through the parents in order and asserts that t waits *)
(* for each parent somebody waits for.                                     *)
Stale(t, i) ==
  LET h == Owner[Inputs[t][i]] IN waiting[h] # <<>> /\ ~Waits(t, h)

Removable(t) == \A i \in DOMAIN Inputs[t] : ~Stale(t, i)

WaitingWithout(t) ==
  LET reached == {i \in DOMAIN Inputs[t] : \A j \in 1..i : ~Stale(t, j)}
  IN  [h \in All |-> IF \E i \in reached : Owner[Inputs[t][i]] = h
                     THEN Without(waiting[h], t) ELSE waiting[h]]

(* findMissing: one item per input, so that a parent may be counted twice. *)
Missing(t) ==
  LET found == Coins \cup UNION {Outs[s] : s \in pool}
  IN  {i \in DOMAIN Inputs[t] : Inputs[t][i] \notin found}

MissingParents(t) == {Owner[Inputs[t][i]] : i \in Missing(t)}

IsOrphan(t) == orphans[t] > 0

OrphanTxs == {t \in Txs : IsOrphan(t)}

(* t waits for its missing parents; w is Mempool.waiting once an orphan was *)
(* dropped to make room.                                                   *)
Await(t, w) ==
  waiting' = [h \in All |-> IF h \in MissingParents(t) THEN Append(Without(w[h], t), t) ELSE w[h]]

(* resolveOrphans takes every orphan that waited for nothing but h.        *)
Resolved(h) == Picked(waiting[h], {i \in DOMAIN waiting[h] : orphans[waiting[h][i]] = 1})

\* Mutant: the orphans of h are not forgotten.
ResolveKeepingIndex(h, w, os) ==
  /\ orphans' = [o \in Txs |-> IF Waits(o, h) THEN os[o] - 1 ELSE os[o]]
  /\ waiting' = w

Resolve(h, w, os) ==
  /\ orphans' = [o \in Txs |-> IF Waits(o, h) THEN os[o] - 1 ELSE os[o]]
  /\ waiting' = [w EXCEPT ![h] = <<>>]

-----------------------------------------------------------------------------
(* How an insertion ends.  A VerifyError goes to the caller, the loop over *)
(* the resolved orphans or the loop over the block's transactions; the     *)
(* first two note the reject.                                              *)
Rejected(t, from) == rejects' = IF from = "block" THEN rejects ELSE rejects \cup {t}

NotBack(t, from) == lost' = IF from = "block" THEN lost \cup {t} ELSE lost

AssertionFails ==
  /\ failed' = failed \cup {"insertion"}
  /\ agenda' = Unwound(Tail(agenda))

(* The insertion returned what is missing: fine for a peer's or a block's  *)
(* transaction, but handleOrphans asserts that a resolved orphan misses    *)
(* nothing.                                                                *)
ReturnMissing(from) ==
  IF from = "orphan" THEN AssertionFails ELSE agenda' = Tail(agenda) /\ UNCHANGED failed

(* insertTX, in the order of its checks.  A transaction is also known while *)
(* another call with its hash waits for the lock (locker.hasPending).      *)
Known(t) == IsOrphan(t) \/ t \in pool

DoubleSpends(t) == \E o \in In(t) : spents[o] # None

Unverified(t) == t \in BadScripts \/ Cardinality(Ancestors(t)) + 1 > MaxAncestors

Refused(t) ==
  \/ t \in NonStandard
  \/ Known(t)
  \/ Outs[t] \cap Coins # {}
  \/ DoubleSpends(t)
  \/ Missing(t) = {} /\ Unverified(t)

Refuse(t, from) ==
  /\ Refused(t) \/ t \in Racing
  /\ Rejected(t, from) /\ NotBack(t, from)
  /\ agenda' = Tail(agenda)
  /\ UNCHANGED <<entries, orphans, waiting, failed>>

(* addEntry: the entry is tracked and the orphans it resolves come next.   *)
Accept(t, from) ==
  /\ ~Refused(t) /\ Missing(t) = {}
  /\ Track(t)
  /\ Resolve(t, waiting, orphans)
  /\ agenda' = [i \in DOMAIN Resolved(t) |-> Insert(Resolved(t)[i], "orphan")]
                  \o <<Trim(t, from)>> \o Tail(agenda)
  /\ lost' = lost \ {t}
  /\ UNCHANGED <<rejects, failed>>

(* storeOrphan: not below a rejected parent, and only once limitOrphans    *)
(* has made room by dropping one at random.                                *)
Hopeless(t) == MissingParents(t) \cap rejects # {}

Ignore(t, from) ==
  /\ rejects' = IF Hopeless(t) THEN rejects \cup {t} ELSE rejects
  /\ ReturnMissing(from)
  /\ UNCHANGED <<orphans, waiting>>

AddOrphan(t, w, os, from) ==
  /\ Await(t, w)
  /\ orphans' = [os EXCEPT ![t] = Cardinality(Missing(t))]
  /\ ReturnMissing(from)
  /\ UNCHANGED rejects

EvictionFails(victim) ==
  /\ waiting' = WaitingWithout(victim)
  /\ AssertionFails
  /\ UNCHANGED <<orphans, rejects>>

AtLimit == Cardinality(OrphanTxs) >= MaxOrphans

StoreOrphan(t, from) ==
  /\ ~Refused(t) /\ Missing(t) # {}
  /\ \/ (Hopeless(t) \/ MaxOrphans = 0) /\ Ignore(t, from)
     \/ ~Hopeless(t) /\ MaxOrphans > 0 /\ ~AtLimit /\ AddOrphan(t, waiting, orphans, from)
     \/ /\ ~Hopeless(t) /\ MaxOrphans > 0 /\ AtLimit
        /\ \E victim \in OrphanTxs :
             \/ Removable(victim)
                  /\ AddOrphan(t, WaitingWithout(victim), [orphans EXCEPT ![victim] = 0], from)
             \/ ~Removable(victim) /\ EvictionFails(victim)
  /\ NotBack(t, from)
  /\ UNCHANGED entries

(* One step of the running call: an insertion.  The loop of _removeBlock   *)
(* leaves out what is already an entry.                                    *)
InsertTX ==
  /\ Doing("insert")
  /\ \E t \in Txs, from \in Callers :
       /\ Now(Insert(t, from))
       /\ IF from = "block" /\ t \in pool
          THEN /\ agenda' = Tail(agenda)
               /\ UNCHANGED <<entries, orphans, waiting, rejects, lost, failed>>
          ELSE Refuse(t, from) \/ Accept(t, from) \/ StoreOrphan(t, from)
  /\ UNCHANGED chain

(* limitSize at the end of an insertion; "mempool full" if it cost the     *)
(* transaction itself its place.                                           *)
LimitSize ==
  /\ Doing("trim")
  /\ \E t \in Txs, from \in Callers :
       /\ Now(Trim(t, from))
       /\ IF Cardinality(pool) <= MaxSize
          THEN UNCHANGED <<entries, rejects>>
          ELSE \E expired, cheap \in SUBSET Roots :
                 /\ Overflow(expired, cheap)
                 /\ Untrack(Package(expired \cup cheap))
                 /\ IF t \in pool' THEN UNCHANGED rejects ELSE Rejected(t, from)
  /\ agenda' = Tail(agenda)
  /\ UNCHANGED <<chain, orphans, waiting, lost, failed>>

-----------------------------------------------------------------------------
\* Mutant of ConfirmEntry: the entry stays.
ConfirmNothing(t) ==
  /\ t \in pool
  /\ agenda' = Tail(agenda)
  /\ UNCHANGED <<entries, orphans, waiting, failed>>

(* _addBlock for one of the block's transactions: an entry is removed; of  *)
(* any other the orphan and the double spenders go, and the orphans that   *)
(* waited for it are counted down, those it resolves being dropped.        *)
ConfirmEntry(t) ==
  /\ t \in pool
  /\ Untrack({t})
  /\ agenda' = Tail(agenda)
  /\ UNCHANGED <<orphans, waiting, failed>>

\* Mutant of DoubleSpenders: they stay in the pool.
KeepDoubleSpenders(t) == {}

DoubleSpenders(t) == Package({spents[o] : o \in In(t)} \ {None})

ConfirmOther(t) ==
  /\ t \notin pool
  /\ IF IsOrphan(t) THEN Removable(t) /\ Resolve(t, WaitingWithout(t), [orphans EXCEPT ![t] = 0])
     ELSE Resolve(t, waiting, orphans)
  /\ Untrack(DoubleSpenders(t))
  /\ agenda' = Tail(agenda)
  /\ UNCHANGED failed

ConfirmFails(t) ==
  /\ t \notin pool /\ IsOrphan(t) /\ ~Removable(t)
  /\ waiting' = WaitingWithout(t)
  /\ failed' = failed \cup {"block"}
  /\ agenda' = <<>>
  /\ UNCHANGED <<entries, orphans>>

ConfirmTX ==
  /\ Doing("confirm")
  /\ \E t \in Txs :
       /\ Now(Confirm(t))
       /\ ConfirmEntry(t) \/ ConfirmOther(t) \/ ConfirmFails(t)
  /\ UNCHANGED <<chain, rejects, lost>>

(* The end of _addBlock and _removeBlock.                                  *)
BlockDone ==
  /\ Now(Done)
  /\ rejects' = {}
  /\ agenda' = Tail(agenda)
  /\ UNCHANGED <<chain, entries, orphans, waiting, lost, failed>>

-----------------------------------------------------------------------------
Init ==
  /\ chain = <<>>
  /\ pool = {}
  /\ spents = [o \in Outputs |-> None]
  /\ orphans = [t \in Txs |-> 0]
  /\ waiting = [h \in All |-> <<>>]
  /\ rejects = {}
  /\ agenda = <<>>
  /\ lost = {}
  /\ failed = {}

(* A peer, the wallet or the RPC hands in a transaction.                   *)
AddTX(t) ==
  /\ agenda = <<>>
  /\ agenda' = <<Insert(t, "peer")>>
  /\ UNCHANGED <<chain, entries, orphans, waiting, rejects, lost, failed>>

(* The chain connected a block; an empty pool takes no notice.             *)
AddBlock(b) ==
  /\ agenda = <<>> /\ Len(chain) < MaxBlocks /\ Connects(b)
  /\ chain' = Append(chain, b)
  /\ lost' = lost \ BlockTxs(b)
  /\ agenda' = IF pool = {} THEN <<>>
               ELSE [i \in DOMAIN b |-> Confirm(b[Len(b) + 1 - i])] \o <<Done>>
  /\ UNCHANGED <<entries, orphans, waiting, rejects, failed>>

(* The chain disconnected its last block.                                  *)
RemoveBlock ==
  /\ agenda = <<>> /\ chain # <<>>
  /\ chain' = SubSeq(chain, 1, Len(chain) - 1)
  /\ agenda' = IF pool = {} THEN <<>>
               ELSE LET b == chain[Len(chain)]
                    IN  [i \in DOMAIN b |-> Insert(b[i], "block")] \o <<Done>>
  /\ UNCHANGED <<entries, orphans, waiting, rejects, lost, failed>>

(* The chain was reset to a lower block: the mempool starts anew.          *)
Reset ==
  /\ agenda = <<>>
  /\ \E h \in 0..Len(chain) : chain' = SubSeq(chain, 1, h)
  /\ pool' = {} /\ spents' = [o \in Outputs |-> None]
  /\ orphans' = [t \in Txs |-> 0]
  /\ waiting' = [h \in All |-> <<>>]
  /\ rejects' = {} /\ lost' = {} /\ failed' = {}
  /\ UNCHANGED agenda

Next ==
  \/ \E t \in Txs : AddTX(t)
  \/ \E b \in Templates : AddBlock(b)
  \/ RemoveBlock \/ Reset
  \/ InsertTX \/ LimitSize \/ ConfirmTX \/ BlockDone

Spec == Init /\ [][Next]_vars

-----------------------------------------------------------------------------
Item == [do : {"insert", "trim", "confirm"}, tx : Txs, from : Callers] \cup {Done}

TypeOK ==
  /\ chain \in Seq(Seq(Txs))
  /\ pool \subseteq Txs
  /\ spents \in [Outputs -> Txs \cup {None}]
  /\ orphans \in [Txs -> Nat]
  /\ waiting \in [All -> Seq(Txs)]
  /\ rejects \subseteq Txs
  /\ agenda \in Seq(Item)
  /\ lost \subseteq Txs
  /\ failed \subseteq {"insertion", "block"}

(* Even in the middle of a cascade, spents names the one entry that spends *)
(* each output and nothing else: isDoubleSpend and every eviction go by it.*)
SpentsExact ==
  \A o \in Outputs :
    /\ spents[o] # None => spents[o] \in pool /\ o \in In(spents[o])
    /\ \A t \in pool : o \in In(t) => spents[o] = t

(* Between calls the pool can be mined on top of the chain: no entry is    *)
(* confirmed already, and every entry spends outputs of other entries or   *)
(* unspent coins, through any order of insertions, evictions, conflicts,   *)
(* blocks and reorganisations.  Excused are the children of a transaction  *)
(* that a disconnected block could not bring back, and a block whose       *)
(* processing an assertion cut short.                                      *)
EntriesConnect ==
  agenda = <<>> /\ "block" \notin failed =>
    LET backed == Coins \cup UNION {Outs[t] : t \in pool \cup lost}
    IN  /\ pool \cap Confirmed = {}
        /\ \A t \in pool : In(t) \subseteq backed

(* Between calls the pool is within its limit unless an assertion cut a    *)
(* cascade short; the orphans always are.                                  *)
SizesLimited ==
  /\ TypeOK
  /\ agenda = <<>> /\ failed = {} => Cardinality(pool) <= MaxSize
  /\ Cardinality(OrphanTxs) <= MaxOrphans

(* The assertion of resolveOrphans holds and no orphan is resolved too     *)
(* soon: who waits is an orphan, waits once and for a parent of its own,   *)
(* and is counted to miss at least as many parents as it waits for.        *)
WaitingFaithful ==
  /\ \A h \in All : \A i, j \in DOMAIN waiting[h] :
       /\ IsOrphan(waiting[h][i]) /\ h \in ParentsOf(waiting[h][i])
       /\ waiting[h][i] = waiting[h][j] => i = j
  /\ \A t \in OrphanTxs : Cardinality({h \in ParentsOf(t) : Waits(t, h)}) <= orphans[t]

(* handleOrphans asserts that a resolved orphan misses nothing.            *)
ResolvedOrphansConnect ==
  \A t \in Txs : Now(Insert(t, "orphan")) /\ ~Refused(t) => Missing(t) = {}
=============================================================================
