------------------------------ MODULE MCWallet ------------------------------
(***************************************************************************)
(* A wallet with one funding transaction and two branches that spend it in *)
(* conflicting ways:                                                       *)
(*                                                                         *)
(*               c2 [r]               p spends f's first output,           *)
(*              /                     c spends p's and f's second one,     *)
(*      a1 [p] -- a2 [c]              d spends f's first output and a      *)
(*     /                              foreign one, e spends what d pays    *)
(*   g [f]                            and leaves nothing to the wallet,    *)
(*     \                              r replaceably spends f's second one. *)
(*      b1 [d] -- b2 [e r]                                                 *)
(* v, which no block has, spends f's second output too, with a signature   *)
(* that does not verify.                                                   *)
(***************************************************************************)
EXTENDS WalletDB, TLC

MCTxs == {"f", "p", "c", "d", "e", "r", "v"}
MCOuts == {"f0", "f1", "p0", "c0", "d0", "r0", "v0", "x0"}
MCMine == MCOuts \ {"x0"}

CreatorOf == [o \in MCOuts |->
  CASE o \in {"f0", "f1"} -> "f" [] o = "p0" -> "p" [] o = "c0" -> "c"
    [] o = "d0" -> "d" [] o = "r0" -> "r" [] o = "v0" -> "v" [] OTHER -> None]

InputsOf == [t \in MCTxs |->
  CASE t = "f" -> <<>> [] t = "p" -> <<"f0">> [] t = "c" -> <<"p0", "f1">>
    [] t = "d" -> <<"x0", "f0">> [] t = "e" -> <<"d0">> [] OTHER -> <<"f1">>]

ValueOf == [o \in MCOuts |->
  CASE o = "f0" -> 1 [] o = "f1" -> 2 [] o = "p0" -> 4 [] o = "c0" -> 8
    [] o = "d0" -> 16 [] o = "r0" -> 32 [] OTHER -> 64]

MCBlocks == {"g", "a1", "a2", "b1", "b2", "c2"}
ParentOf == [b \in MCBlocks |->
  CASE b = "g" -> None [] b \in {"a1", "b1"} -> "g" [] b = "b2" -> "b1" [] OTHER -> "a1"]
HeightOf == [b \in MCBlocks |->
  CASE b = "g" -> 0 [] b \in {"a1", "b1"} -> 1 [] OTHER -> 2]
BlockTxsOf == [b \in MCBlocks |->
  CASE b = "g" -> <<"f">> [] b = "a1" -> <<"p">> [] b = "a2" -> <<"c">>
    [] b = "b1" -> <<"d">> [] b = "b2" -> <<"e", "r">> [] OTHER -> <<"r">>]

(* For the run wallet_mark: the wallet's first transaction is in a1.       *)
FirstTxsOf == [b \in MCBlocks |-> IF b = "a1" THEN <<"f">> ELSE <<>>]

CreatorTable == CreatorOf @@ <<>>
InputsTable == InputsOf @@ <<>>
ValueTable == ValueOf @@ <<>>
ParentTable == ParentOf @@ <<>>
HeightTable == HeightOf @@ <<>>
BlockTxsTable == BlockTxsOf @@ <<>>
MCCreator == CreatorTable
MCInputs == InputsTable
MCValue == ValueTable
MCParent == ParentTable
MCHeight == HeightTable
MCBlockTxs == BlockTxsTable

(* What theorem CountsCorrect of module WalletProofs asks for.             *)
ASSUME MCApart == ConflictsApart

(* A behaviour is in one mode from beginning to end.  In the first the     *)
(* process may crash, but not in the middle of a rollback: what that does  *)
(* is shown by the run wallet_rollback.  In the second a batch of          *)
(* the transaction database may fail; their errors are emitted and         *)
(* forgotten, so that the wallet loses transactions.  In the third the     *)
(* wallet keeps two hashes, so that the start block's is pruned, and the   *)
(* chain changes branches at a1.                                           *)
VARIABLE mode

Failing == INSTANCE WalletDB WITH
  UserOps <- {}, Relayed <- {"p"}, MaxQueue <- 1, Faults <- {"batch"}

Pruning == INSTANCE WalletDB WITH
  UserOps <- {"rescan"}, Relayed <- {}, KeepBlocks <- 2

(* A new wallet sees its first transaction when it scans the start block.  *)
Fresh == INSTANCE WalletDB WITH Marked <- FALSE

FollowingStep ==
  mode = "crash" /\ Next /\ ~lost' /\ "c2" \notin Range(main') /\ UNCHANGED mode

FailingStep ==
  /\ mode = "batch"
  /\ \/ (Failing!NodeStep \/ Failing!WalletStep) /\ UNCHANGED history
     \/ Failing!BatchFails /\ ~lost
  /\ "c2" \notin Range(main')
  /\ UNCHANGED mode

PruningStep ==
  /\ mode = "prune" /\ Pruning!Next /\ ~lost'
  /\ UNCHANGED mode

MCInit ==
  \/ mode = "crash" /\ (Init \/ Fresh!Init)
  \/ mode = "batch" /\ Init
  \/ mode = "prune" /\ Init

MCNext == FollowingStep \/ FailingStep \/ PruningStep

MCSpec == MCInit /\ [][MCNext]_<<allVars, mode>>

(* A new wallet, and one whose process may crash while it rolls back.      *)
OneMode == Next /\ "c2" \notin Range(main') /\ UNCHANGED mode
MarkSpec == Fresh!Init /\ mode = "crash" /\ [][OneMode]_<<allVars, mode>>
RollbackSpec == Init /\ mode = "crash" /\ [][OneMode]_<<allVars, mode>>
=============================================================================
