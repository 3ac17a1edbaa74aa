-------------------------- MODULE MCMempoolStores ---------------------------
(***************************************************************************)
(* The mempool of MCMempool; and what it and the databases are stored in:  *)
(*   LRU         the cache in front of the chain's and the wallet's: three *)
(*               keys, values that fill a third of it, two thirds, or more *)
(*               than all of it                                            *)
(*   MemDB       the database in memory, with six keys: fewer do not reach *)
(*               every case of the rebalancing                             *)
(*   Template    the blocks made of it: three transactions and one that    *)
(*               spends two of them, one of them twice, of any rates and   *)
(*               priorities, for a block that cannot hold them all         *)
(* kind says which one a behaviour is of.                                  *)
(***************************************************************************)
EXTENDS MCMempool, MempoolCache

VARIABLES
  kind, lru, pending, tree, rows,
  fact, tips, listed, phase, priority, heap, missing, items, weight

poolVars == <<vars, cacheVars>>
storeVars == <<lru, pending, tree, rows>>
templateVars == <<fact, tips, listed, phase, priority, heap, missing, items, weight>>

Recent == INSTANCE LRU WITH Keys <- 1..3, Sizes <- {1, 2, 4}, Capacity <- 3, MaxOps <- 2

Memory == INSTANCE MemDB WITH stored <- rows, N <- 6, MaxOps <- 2

Block == INSTANCE Template WITH
  pool <- listed, N <- 4,
  Inputs <- <<<<>>, <<>>, <<>>, <<1, 2, 1>>>>, Weight <- <<1, 2, 1, 1>>,
  Reserved <- 1, MinWeight <- 3, MaxWeight <- 5, PriorityWeight <- 2, PriorityThreshold <- 1,
  Facts <- [rate : [1..4 -> 0..2], priority : {f \in [1..4 -> 0..1] : f[4] = 0},
            final : {1..4, 2..4}, free : {{}, {2, 4}}],
  MaxMoves <- 1

(* The transactions that are handed to a mempool that is kept.             *)
Handed == IF persistent THEN {"q", "h"} ELSE Txs

StoresInit ==
  /\ kind \in {"Mempool", "LRU", "MemDB", "Template"}
  /\ Init /\ CacheInit /\ Recent!Init /\ Memory!Init /\ Block!Init
  /\ kind # "Mempool" => persistent
  /\ kind # "Template" => fact = [rate |-> [t \in 1..4 |-> 0], priority |-> [t \in 1..4 |-> 0],
                                   final |-> 1..4, free |-> {}]

PoolNext ==
  \/ \E t \in Handed : Submit(t)
  \/ TransactionStep \/ MoveChain \/ SyncCache \/ ResetCache \/ Restart

StoresNext ==
  /\ \/ kind = "Mempool" /\ PoolNext /\ UNCHANGED <<storeVars, templateVars>>
     \/ /\ kind = "LRU" /\ Recent!Next
        /\ UNCHANGED <<poolVars, tree, rows, templateVars>>
     \/ /\ kind = "MemDB" /\ Memory!Next
        /\ UNCHANGED <<poolVars, lru, pending, templateVars>>
     \/ kind = "Template" /\ Block!Next /\ UNCHANGED <<poolVars, storeVars>>
  /\ UNCHANGED kind

StoresSpec == StoresInit /\ [][StoresNext]_<<poolVars, kind, storeVars, templateVars>>

(* TemplateSound of module Template.                                       *)
BlockIsSound == kind = "Template" => Block!TemplateSound

(* The LRU evicts what was used longest ago, and a batch takes effect in   *)
(* its order or not at all.                                                *)
ImplementsCache == Recent!ImplementsCache

(* The pool stays within its limits; the links and books of the LRU agree; *)
(* the tree stays balanced and an iterator gives what its range holds.     *)
StoresKept ==
  CASE kind = "Mempool" -> SizesLimited
    [] kind = "LRU" -> Recent!ListKept
    [] kind = "MemDB" -> Memory!DatabaseKept
    [] OTHER -> TRUE
=============================================================================
