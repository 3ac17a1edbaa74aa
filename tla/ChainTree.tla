----------------------------- MODULE ChainTree -----------------------------
(***************************************************************************)
(* The block tree every chain module talks about: blocks are constants, a  *)
(* block's hash being its identity.  What the code derives from a header   *)
(* or a body once and for all (height, accumulated work, the coins a body  *)
(* creates and spends, whether a rule that depends only on the block and   *)
(* its ancestors is broken) is a constant of the block.                    *)
(***************************************************************************)
EXTENDS Integers, FiniteSets

CONSTANTS
  Blocks,       \* every block that circulates, valid or not
  Genesis,      \* network.genesis
  None,         \* no block
  Parent,       \* block.prevBlock
  Height,       \* ChainEntry.height
  Work,         \* ChainEntry.chainwork
  Path,         \* Path[b]: b and all its ancestors
  Coins,        \* outputs
  Creates,      \* spendable outputs a block's transactions create
  Spends,       \* outputs its non-coinbase transactions spend
  UtxoOf,       \* UtxoOf[b]: the coins unspent once b's path is connected
  BadHeader,    \* breaks a rule of Chain.verify that is not malleability
  BadCheckpoint,\* at a checkpoint height without being the checkpoint
  BadScripts    \* fails verifyInputs for another reason than its coins

Linked == Blocks \ {Genesis}

ASSUME TreeAssumption ==
  /\ Genesis \in Blocks /\ None \notin Blocks
  /\ Parent \in [Blocks -> Blocks \cup {None}]
  /\ \A b \in Blocks : Parent[b] = None <=> b = Genesis

(* ChainEntry.fromBlock: a header's proof is positive, so work grows.      *)
ASSUME HeightAssumption ==
  /\ Height \in [Blocks -> Nat] /\ Work \in [Blocks -> Nat]
  /\ Height[Genesis] = 0
  /\ \A b \in Linked : Height[b] = Height[Parent[b]] + 1 /\ Work[Parent[b]] < Work[b]

Heights == {Height[b] : b \in Blocks}

ASSUME PathAssumption ==
  /\ Path \in [Blocks -> SUBSET Blocks]
  /\ Path[Genesis] = {Genesis}
  /\ \A b \in Linked : Path[b] = Path[Parent[b]] \cup {b}

(* The reference definition of the coin database: what replaying a path    *)
(* from the genesis block, whose coinbase is unspendable, leaves unspent.  *)
ASSUME CoinAssumption ==
  /\ Creates \in [Blocks -> SUBSET Coins] /\ Spends \in [Blocks -> SUBSET Coins]
  /\ UtxoOf \in [Blocks -> SUBSET Coins]
  /\ UtxoOf[Genesis] = {} /\ Spends[Genesis] = {}
  /\ \A b \in Linked : UtxoOf[b] = (UtxoOf[Parent[b]] \cup Creates[b]) \ Spends[b]

ASSUME FaultAssumption ==
  /\ BadHeader \subseteq Linked
  /\ BadCheckpoint \subseteq Linked
  /\ BadScripts \subseteq Linked

(* verifyDuplicates and verifyInputs against a set of unspent coins.       *)
SpendsCorrectly(b, coins) ==
  /\ b \notin BadScripts
  /\ Creates[b] \cap coins = {}
  /\ Spends[b] \subseteq coins \cup Creates[b]

(* A block no node may build on, whatever it has stored.                   *)
Invalid(b) ==
  /\ b # Genesis
  /\ b \in BadHeader \cup BadCheckpoint \/ ~SpendsCorrectly(b, UtxoOf[Parent[b]])

ValidPath(b) == \A a \in Path[b] : ~Invalid(a)
=============================================================================
