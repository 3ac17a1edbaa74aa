---------------------------- MODULE MCChainCrash ----------------------------
(***************************************************************************)
(* What is durable, and what is cached of it, when batches fail, the       *)
(* process dies between any two of them, and others read meanwhile.        *)
(*   Chain       a full node that is offered valid blocks only, and        *)
(*               administrative calls                                      *)
(*   Deployments windows of two blocks, three of them, so that a deployment*)
(*               can become active; two branches from the middle of the    *)
(*               third, that is, reorganisations no deeper than a window;  *)
(*               two versions of the deployment                            *)
(*   EntryCaches two branches of two blocks that overtake each other with  *)
(*               every block; one reader, of whose reads each may be       *)
(*               overtaken by one batch                                    *)
(* One to a behaviour, since the states of deployments depend on the blocks*)
(* alone, and Chain reads a database without caches: kind says which.      *)
(***************************************************************************)
EXTENDS MCChain

(* Two branches are enough for a crash in the midst of a reorganisation    *)
(* and back: MCChainModes has the third.                                   *)
MCCrashBlocks == MCBlocks \ {"c2"}

(* The steps of Next that such a node can take: no block is refused, the   *)
(* clock does not matter and a reset is not torn.  Those are the steps of  *)
(* the modes of MCChainModes.                                              *)
CrashNext ==
  \/ \E b \in Blocks : Call("add", b, FALSE)
  \/ \E b \in Blocks : \E op \in AdminOps : Call(op, b, FALSE)
  \/ Add
  \/ \E op \in AdminOps : Admin(op)
  \/ SaveAlternate \/ SaveNext
  \/ DisconnectTip \/ ReconnectNext \/ ReorganizeThrows
  \/ ResetStep \/ ResetDone
  \/ CommitFails \/ Restart

VARIABLES
  kind,
  end, signals, config, table, mem, saved, updates, batch, ask,
  head, known, byHash, byHeight, coinCache, work, written, reads, stale

stateVars == <<end, signals, config, table, mem, saved, updates, batch, ask>>
cacheVars == <<head, known, byHash, byHeight, coinCache, work, written, reads, stale>>

NoBlock == <<"none", 0>>
MainLine == {<<"main", h>> : h \in 0..6}
Tree == MainLine \cup {<<"side", 5>>}

States == INSTANCE Deployments WITH
  tip <- end, disk <- saved,
  Blocks <- Tree, Level <- [b \in Tree |-> b[2]],
  Parent <- [b \in Tree |-> IF b[2] = 0 THEN NoBlock ELSE <<"main", b[2] - 1>>],
  Trunk <- {b \in MainLine : b[2] <= 4}, Signals <- {<<"main", 3>>, <<"side", 5>>},
  Period <- 2, Threshold <- 1,
  Configs <- {[start |-> 1, timeout |-> 9], [start |-> 2, timeout |-> 5]}

(* Each block outweighs the ones before it: the chain may flip at each.    *)
Pairs == {"g", "a1", "b1", "a2", "b2"}
PairsWork == "g" :> 0 @@ "a1" :> 1 @@ "b1" :> 2 @@ "a2" :> 3 @@ "b2" :> 4
Tracked == {"a1", "b1"}
PairsCreate == [b \in Pairs |-> {b} \cap Tracked]
PairsSpend == "g" :> {} @@ "a1" :> {} @@ "b1" :> {} @@ "a2" :> {"a1"} @@ "b2" :> {"b1"}
PairsUtxo == [b \in Pairs |-> {b} \cap Tracked]

Caches == INSTANCE EntryCaches WITH
  batch <- written, Blocks <- Pairs, Work <- PairsWork,
  Coins <- Tracked, Creates <- PairsCreate, Spends <- PairsSpend, UtxoOf <- PairsUtxo,
  Readers <- {"peer"}, MaxLate <- 1

CrashInit ==
  /\ kind \in {"Chain", "Deployments", "EntryCaches"}
  /\ Init /\ States!Init /\ Caches!Init
  /\ kind # "Deployments" => signals = {} /\ config.start = 1
  /\ kind # "EntryCaches" => known = {Genesis}

KindNext ==
  /\ \/ kind = "Chain" /\ CrashNext /\ UNCHANGED <<stateVars, cacheVars>>
     \/ kind = "Deployments" /\ States!Next /\ UNCHANGED <<vars, cacheVars>>
     \/ kind = "EntryCaches" /\ Caches!Next /\ UNCHANGED <<vars, stateVars>>
  /\ UNCHANGED kind

CrashSpec == CrashInit /\ [][KindNext]_<<vars, stateVars, cacheVars, kind>>

(* The cached states of deployments are those that BIP9 defines.           *)
StatesAreRight == States!StatesAreRight

(* The coins in the cache, against which blocks are verified, are unspent. *)
CoinCacheIsTrue == Caches!CoinCacheIsTrue

(* The entries in the caches are those of the main chain, and of blocks    *)
(* that the database has.                                                  *)
EntryCachesAreTrue == Caches!EntryCachesAreTrue
=============================================================================
