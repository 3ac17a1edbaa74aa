---------------------------- MODULE MCChainModes ----------------------------
(***************************************************************************)
(* The chain in the modes a node can run in.  A behaviour is in one of     *)
(* them from beginning to end:                                             *)
(*   full    all the blocks of the tree and every kind of bad block, as    *)
(*           given in MCChainModes.cfg;                                    *)
(*   spv     headers only, with replay, failing batches and crashes;       *)
(*   prune   a pruned node that keeps two blocks, with two calls waiting;  *)
(*   torn    a reset may fail between its batches, after which no other    *)
(*           is called (the run chain_undo_assertion shows the damage the  *)
(*           first one leaves);                                            *)
(*   live    valid blocks, each offered until it is taken.                 *)
(* The modes but the first are offered part of the tree, all of it valid.  *)
(***************************************************************************)
EXTENDS MCChain

VARIABLE mode

FullNode == INSTANCE Chain WITH AdminOps <- {}

SpvNode == INSTANCE Chain WITH
  Spv <- TRUE, AdminOps <- {"replay"}, Faults <- {"crash", "batch"},
  BadHeader <- {}, BadCheckpoint <- {}, BadScripts <- {}, BadPow <- {},
  Mutable <- {}, Early <- {}

PrunedNode == INSTANCE Chain WITH
  AdminOps <- {}, Prune <- TRUE, KeepBlocks <- 2, MaxQueue <- 2,
  BadHeader <- {}, BadCheckpoint <- {}, BadScripts <- {}, BadPow <- {},
  Mutable <- {}, Early <- {}

TornNode == INSTANCE Chain WITH
  AdminOps <- {"reset"}, Faults <- {"reset batch"},
  BadHeader <- {}, BadCheckpoint <- {}, BadScripts <- {}, BadPow <- {},
  Mutable <- {}, Early <- {}

(* The blocks that are never offered count as invalid ones.                *)
LiveNode == INSTANCE Chain WITH
  AdminOps <- {}, BadScripts <- Blocks \ MCSmall,
  BadHeader <- {}, BadCheckpoint <- {}, BadPow <- {}, Mutable <- {}, Early <- {}

Offered(blocks) == \A i \in DOMAIN queue' : queue'[i].block \in blocks

ModesInit ==
  \/ mode \in {"full", "prune", "torn", "live"} /\ Init
  \/ mode = "spv" /\ SpvNode!Init

FullStep == mode = "full" /\ FullNode!Next /\ UNCHANGED mode

SpvStep == mode = "spv" /\ SpvNode!Next /\ Offered(MCBlocks) /\ UNCHANGED mode

PrunedStep == mode = "prune" /\ PrunedNode!Next /\ Offered(MCBlocks) /\ UNCHANGED mode

TornStep ==
  /\ mode = "torn" /\ TornNode!Next /\ Offered({"g", "a1", "b1", "b2"})
  /\ stranded' => \A i \in DOMAIN queue' : queue'[i].op = "add"
  /\ UNCHANGED mode

LiveStep == mode = "live" /\ LiveNode!Next /\ Offered(MCSmall) /\ UNCHANGED mode

ModesNext == FullStep \/ SpvStep \/ PrunedStep \/ TornStep \/ LiveStep

(* Fairness is asked of the last mode alone.                               *)
ModesSpec ==
  /\ ModesInit /\ [][ModesNext]_<<vars, mode>>
  /\ WF_vars(mode = "live" /\ LiveNode!Step)
  /\ SF_vars(mode = "live" /\ \E b \in MCSmall : LiveNode!Sync(b))

-----------------------------------------------------------------------------
(* What else a mode keeps.  TypeOK holds in all of them; an SPV node keeps *)
(* its indices and its tip in step, and has the most work of all it knows; *)
(* a pruned node keeps the bodies it should (BodiesKept of module Chain),  *)
(* and the reorganisations that find them gone leave the coins right.      *)
ModesHold ==
  /\ TypeOK
  /\ mode = "spv" => SpvNode!TipHasMostWork /\ SpvNode!IndicesAgree /\ SpvNode!TipIsDurable
  /\ mode = "prune" => PrunedNode!BodiesKept /\ PrunedNode!CoinsAreReplay

(* Every block of the small tree that waits for the lock gets its turn,    *)
(* and the node that is offered them all ends on the chain with most work  *)
(* (Converges of module Chain).                                            *)
LiveConverges ==
  mode = "live" =>
    /\ \A b \in MCSmall : HasPending(b) ~> ~HasPending(b)
    /\ LiveNode!Converges
=============================================================================
