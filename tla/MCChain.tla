------------------------------ MODULE MCChain ------------------------------
(***************************************************************************)
(* A block tree with two branches off the genesis block and a third off    *)
(* a1:                                                                     *)
(*        a1 -- a2 -- a3 -- s4 -- s5                                       *)
(*       /  \                                                              *)
(*      g    c2 -- k3                                                      *)
(*       \                                                                 *)
(*        b1 -- b2 -- b3 -- b4 -- h5                                       *)
(*                                                                         *)
(* s4, k3, h5 and w1, a child of g, are there for the run with invalid     *)
(* blocks.                                                                 *)
(* Both branches confirm the same transaction, so that its output x is     *)
(* created and spent on either side of a reorganisation.                   *)
(***************************************************************************)
EXTENDS Chain, TLC

MCBlocks == {"g", "a1", "a2", "a3", "b1", "b2", "b3", "b4", "c2"}

MCAllBlocks == MCBlocks \cup {"s4", "s5", "k3", "h5", "w1"}

MCSmall == {"g", "a1", "a2", "b1", "b2", "b3"}

ParentOf == [b \in Blocks |->
  CASE b = "g"  -> None
    [] b \in {"a1", "b1", "w1"} -> "g"
    [] b \in {"a2", "c2"} -> "a1"
    [] b = "a3" -> "a2"
    [] b = "b2" -> "b1"
    [] b = "b3" -> "b2"
    [] b = "b4" -> "b3"
    [] b = "s4" -> "a3"
    [] b = "s5" -> "s4"
    [] b = "k3" -> "c2"
    [] b = "h5" -> "b4"]

HeightOf[b \in Blocks] == IF b = "g" THEN 0 ELSE HeightOf[ParentOf[b]] + 1

(* Blocks of one branch differ in work: c2 outweighs the higher b3, and    *)
(* ties with a3.                                                           *)
WorkOf == [b \in Blocks |->
  CASE b = "g" -> 0 [] b = "a1" -> 2 [] b = "a2" -> 4 [] b = "a3" -> 6
    [] b = "c2" -> 6
    [] b = "b1" -> 1 [] b = "b2" -> 2 [] b = "b3" -> 5 [] b = "b4" -> 8
    [] b = "s4" -> 7 [] b = "s5" -> 9 [] b = "k3" -> 7 [] b = "h5" -> 10
    [] b = "w1" -> 3]

PathOf[b \in Blocks] == IF b = "g" THEN {"g"} ELSE PathOf[ParentOf[b]] \cup {b}

(* Each block creates its coinbase, named after it; the transaction that   *)
(* creates x spends nothing else and is in a2 and b1, another that spends  *)
(* x is in a3 and b1.                                                      *)
MCCoins == (Blocks \ {"g"}) \cup {"x", "y"}

CreatesOf == [b \in Blocks |->
  CASE b = "g" -> {}
    [] b = "a2" -> {"a2", "x"}
    [] b = "b1" -> {"b1", "x", "y"}
    [] b = "a3" -> {"a3", "y"}
    [] OTHER -> {b}]

SpendsOf == [b \in Blocks |->
  CASE b = "a2" -> {"a1"}
    [] b = "a3" -> {"x"}
    [] b = "b1" -> {"x"}
    [] b = "b3" -> {"b1", "y"}
    [] OTHER -> {}]

ReplayOf[b \in Blocks] ==
  IF b = "g" THEN {}
  ELSE (ReplayOf[ParentOf[b]] \cup CreatesOf[b]) \ SpendsOf[b]

(* The constants, evaluated once: TLC keeps the value of a definition but  *)
(* not that of a constant's definition, and @@ makes it a table.           *)
ParentTable == ParentOf @@ <<>>
HeightTable == HeightOf @@ <<>>
WorkTable == WorkOf @@ <<>>
PathTable == PathOf @@ <<>>
CreatesTable == CreatesOf @@ <<>>
SpendsTable == SpendsOf @@ <<>>
UtxoOfTable == ReplayOf @@ <<>>

MCParent == ParentTable
MCHeight == HeightTable
MCWork == WorkTable
MCPath == PathTable
MCCreates == CreatesTable
MCSpends == SpendsTable
MCUtxoOf == UtxoOfTable
=============================================================================
