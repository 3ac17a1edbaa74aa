------------------------------- MODULE Ledger -------------------------------
(***************************************************************************)
(* What the blockchain database promises its readers (mempool, wallet,     *)
(* RPC), whatever blocks arrive, whatever fails and whenever the process   *)
(* dies: its head moves along one edge of the block tree at a time, only   *)
(* ever onto a block that is valid on top of the head, and the coin set is *)
(* the one the head's path leaves unspent.  Module Chain implements it.    *)
(***************************************************************************)
EXTENDS ChainTree

VARIABLES
  head,         \* the block the database stands on
  coins         \* the unspent coins

ledgerVars == <<head, coins>>

Init ==
  /\ head = Genesis
  /\ coins = UtxoOf[Genesis]

Connect(b) ==
  /\ Parent[b] = head
  /\ ~Invalid(b)
  /\ head' = b
  /\ coins' = (coins \cup Creates[b]) \ Spends[b]

(* Taking a block back gives exactly the coins its parent had left.        *)
Disconnect ==
  /\ head # Genesis
  /\ head' = Parent[head]
  /\ coins' = UtxoOf[Parent[head]]

Next == (\E b \in Linked : Connect(b)) \/ Disconnect

Spec == Init /\ [][Next]_ledgerVars
=============================================================================
